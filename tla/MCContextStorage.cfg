\* Two threads, a chain of three storages, one key with two values.
CONSTANTS
    Threads = {t1, t2}
    Storages <- MCStorages
    Parent <- MCParent
    Depth <- MCDepth
    Keys = {k}
    Values = {v, w}
    None = None
SPECIFICATION FairSpec
INVARIANTS
    KeysAreUnique
PROPERTIES
    CallsAreAtomic
    CallsReturn
