------------------------------- MODULE Plugins -------------------------------
(***************************************************************************)
(* Definitions and the shared libraries that bring them: what              *)
(* DefinitionRegistration, DynamicLibraryManager, ccr_register and the     *)
(* PluginSession of Application do over a series of Applications in one    *)
(* process, each with its own --load list.                                 *)
(*                                                                         *)
(* A definition is known by its source location (file, line) and by its    *)
(* owner, the executable or library whose code and constants it points     *)
(* into; a converter by the parameter name and its owner.  With `shared`   *)
(* (ELF) a library's static constructors register in the host's            *)
(* DefinitionRegistration and converter map; without it (Windows) every    *)
(* library has its own of both.                                            *)
(***************************************************************************)
EXTENDS Naturals, Sequences, SequencesExt

CONSTANTS
    Host,           \* the executable
    Libraries,      \* the plugins that can be named by --load
    Locations,      \* source locations of steps and hooks
    Names,          \* names of custom parameter types
    Defines,        \* owner |-> the locations its code defines
    Converts,       \* owner |-> the parameter names its code defines
    Broken,         \* libraries that dlopen refuses
    Bare,           \* libraries without the symbol ccr_register
    Skewed,         \* libraries built with another pluginAbiVersion
    Resident,       \* libraries that dlclose leaves in memory
    LoadLists,      \* the --load lists, sequences of paths
    MaxSessions     \* bound on the Applications of the process

Owners == {Host} \union Libraries

(* A path is [kind, holds]; holds lists the plugins of a directory in the  *)
(* order of their names, or the one plugin that the file is.               *)
PathKinds == {"missing", "device", "text", "library", "directory"}
Paths     == [kind : PathKinds, holds : Seq(Libraries)]

ASSUME PluginsAssumption ==
    /\ Host \notin Libraries
    /\ Defines \in [Owners -> SUBSET Locations]
    /\ Converts \in [Owners -> SUBSET Names]
    /\ Broken \subseteq Libraries
    /\ Bare \subseteq Libraries
    /\ Skewed \subseteq Libraries
    /\ Resident \subseteq Libraries
    /\ LoadLists \subseteq Seq(Paths)
    /\ MaxSessions \in Nat

VARIABLES
    shared,            \* one DefinitionRegistration in the process (ELF)?
    registry,          \* owner |-> the definitions its instance holds
    customParameters,  \* owner |-> the parameters its instance holds
    staticRegistry,    \* the host's definitions set aside by TakeSnapshot
    staticCustomParameters,
    plugins,           \* instances the host iterates, in order of registration
    converterMap,      \* owner |-> the converters in its map
    converterSnapshot, \* the host's map as TakeSnapshot found it
    instanceOf,        \* owner |-> the owner of the map its code looks into
    libraries,         \* DynamicLibraryManager::libraries
    mapped,            \* the libraries in memory
    contextOwners,     \* whose code destroys the objects of the program context
    phase, failed,     \* where PluginSession is; was an exception thrown?
    todo, files,       \* paths, and files of the current path, left to load
    session            \* the Applications started so far

tables == << registry, customParameters, staticRegistry, staticCustomParameters,
             plugins >>
maps   == << converterMap, converterSnapshot, instanceOf >>
memory == << libraries, mapped, contextOwners >>
work   == << phase, failed, todo, files, session >>
vars   == << shared, tables, maps, memory, work >>

Phases == {"idle", "resolve", "open", "register", "running",
           "unregister", "restore", "unload", "destroy"}

Entries(ids) == [at : ids, owner : Owners]

(* What the code of o registers when its static constructors run.          *)
OwnDefinitions(o) == [at : Defines[o], owner : {o}]
OwnParameters(o)  == [at : Converts[o], owner : {o}]

-----------------------------------------------------------------------------
(* The host's static constructors have run before main(); a host has    *)
(* steps and hooks of its own or none, and parameters of its own or none.  *)

Init ==
    /\ shared \in BOOLEAN
    /\ \E hosted \in {{}, Defines[Host]}, named \in {{}, Converts[Host]} :
          /\ registry = [o \in Owners |->
                           IF o = Host THEN [at : hosted, owner : {Host}] ELSE {}]
          /\ customParameters = [o \in Owners |->
                           IF o = Host THEN [at : named, owner : {Host}] ELSE {}]
          /\ converterMap = customParameters
    /\ staticRegistry = {}
    /\ staticCustomParameters = {}
    /\ plugins = << >>
    /\ converterSnapshot = {}
    /\ instanceOf = [o \in Owners |-> o]
    /\ libraries = << >>
    /\ mapped = {}
    /\ contextOwners = {}
    /\ phase = "idle"
    /\ failed = FALSE
    /\ todo = << >>
    /\ files = << >>
    /\ session = 0

-----------------------------------------------------------------------------
(* DefinitionRegistration                                                  *)

(* try_emplace: a location that is already there keeps its first entry.    *)
TryEmplace(reg, new) ==
    reg \union {e \in new : \A f \in reg : f.at # e.at}

(* operator[] of the converter map: the last one to come replaces.         *)
Assign(map, new) ==
    {e \in map : \A f \in new : f.at # e.at} \union new

(* Whose DefinitionRegistration::Instance() the code of o reaches.         *)
Instance(o) == IF shared THEN Host ELSE o

(* Register, called by every static constructor of library l.              *)
Register(l) ==
    LET i == Instance(l) IN
    /\ registry' = [registry EXCEPT ![i] = TryEmplace(@, OwnDefinitions(l))]
    /\ customParameters' =
          [customParameters EXCEPT ![i] = TryEmplace(@, OwnParameters(l))]
    /\ converterMap' = [converterMap EXCEPT ![i] = Assign(@, OwnParameters(l))]

SlipNoDuplicateGuard(l) ==
    plugins' = IF Instance(l) = Host THEN plugins ELSE Append(plugins, l)

RegisterPlugin(l) ==
    plugins' = IF Instance(l) = Host \/ l \in ToSet(plugins) THEN plugins
               ELSE Append(plugins, l)

SlipHostOnly == << staticRegistry, registry[Host] >>

(* What LoadIds, ForEachRegisteredStep, ForEachRegisteredEntry, GetHooks   *)
(* and GetRegisteredParameters walk: the static entries, the host's own,   *)
(* then every plugin's.                                                    *)
Walk == << staticRegistry, registry[Host] >>
        \o [n \in 1..Len(plugins) |-> registry[plugins[n]]]

Visible == UNION ToSet(Walk)

GetRegisteredParameters ==
    staticCustomParameters \union customParameters[Host]
    \union UNION {customParameters[l] : l \in ToSet(plugins)}

-----------------------------------------------------------------------------
(* The plugin session                                                      *)

SlipSnapshotEachTime ==
    /\ phase = "idle"
    /\ session < MaxSessions
    /\ session' = session + 1
    /\ todo' \in LoadLists
    /\ phase' = "resolve"
    /\ staticRegistry' = registry[Host]
    /\ staticCustomParameters' = customParameters[Host]
    /\ registry' = [registry EXCEPT ![Host] = {}]
    /\ customParameters' = [customParameters EXCEPT ![Host] = {}]
    /\ converterSnapshot' = converterMap[Host]
    /\ UNCHANGED << shared, plugins, converterMap, instanceOf, memory, failed, files >>

(* PluginSession(manager, paths): both snapshots, before Load.             *)
TakeSnapshot ==
    /\ phase = "idle"
    /\ session < MaxSessions
    /\ session' = session + 1
    /\ todo' \in LoadLists
    /\ phase' = "resolve"
    /\ IF staticRegistry = {} /\ staticCustomParameters = {}
       THEN /\ staticRegistry' = registry[Host]
            /\ staticCustomParameters' = customParameters[Host]
            /\ registry' = [registry EXCEPT ![Host] = {}]
            /\ customParameters' = [customParameters EXCEPT ![Host] = {}]
       ELSE UNCHANGED << registry, customParameters, staticRegistry,
                         staticCustomParameters >>
    /\ converterSnapshot' = converterMap[Host]
    /\ UNCHANGED << shared, plugins, converterMap, instanceOf, memory, failed, files >>

(* catch (...): Cleanup, then throw on; Run answers EXIT_FAILURE.          *)
Throw ==
    /\ phase' = "unregister"
    /\ failed' = TRUE
    /\ todo' = << >>
    /\ files' = << >>
    /\ UNCHANGED << shared, session >>

(* Load, for the next path: resolved, then scanned or taken as a file.     *)
LoadPath ==
    /\ phase = "resolve"
    /\ todo # << >>
    /\ UNCHANGED << tables, maps, memory >>
    /\ IF Head(todo).kind \in {"library", "directory"}
       THEN /\ files' = Head(todo).holds
            /\ todo' = Tail(todo)
            /\ phase' = "open"
            /\ UNCHANGED << shared, failed, session >>
       ELSE Throw

(* dlopen, and dlsym of ccr_register; dlclose may leave a library where it *)
(* is.                                                                     *)
Opens(l)     == l \notin Broken
HasSymbol(l) == l \notin Bare
Unmapped     == mapped \ Resident

(* LoadFile, first half: emplace_back opens the library, which runs its    *)
(* static constructors unless it is in memory already.                     *)
OpenLibrary ==
    /\ phase = "open"
    /\ files # << >>
    /\ LET l == Head(files) IN
       IF ~Opens(l)
       THEN Throw /\ UNCHANGED << tables, maps, memory >>
       ELSE /\ libraries' = Append(libraries, l)
            /\ mapped' = mapped \union {l}
            /\ IF l \in mapped
               THEN UNCHANGED << registry, customParameters, converterMap >>
               ELSE Register(l)
            /\ phase' = "register"
            /\ UNCHANGED << shared, staticRegistry, staticCustomParameters, plugins,
                            converterSnapshot, instanceOf, contextOwners,
                            failed, todo, files, session >>

SlipMigrateOnly(l) ==
    /\ RegisterPlugin(l)
    /\ IF Instance(l) = Host \/ instanceOf[l] = Host
       THEN UNCHANGED << converterMap, instanceOf >>
       ELSE /\ converterMap' = [converterMap EXCEPT
                 ![Host] = TryEmplace(@, converterMap[l]), ![l] = {}]
            /\ UNCHANGED instanceOf

(* ccr_register of library l, past its early returns: registration, and    *)
(* the converters of a library with a map of its own go to the host's.     *)
CcrRegister(l) ==
    /\ RegisterPlugin(l)
    /\ IF Instance(l) = Host \/ instanceOf[l] = Host
       THEN UNCHANGED << converterMap, instanceOf >>
       ELSE /\ converterMap' = [converterMap EXCEPT
                 ![Host] = TryEmplace(@, converterMap[l]), ![l] = {}]
            /\ instanceOf' = [instanceOf EXCEPT ![l] = Host]

(* LoadFile, second half: the symbol, and the call.                        *)
CallRegister ==
    /\ phase = "register"
    /\ LET l == Head(files) IN
       IF ~HasSymbol(l)
       THEN Throw /\ UNCHANGED << tables, maps, memory >>
       ELSE /\ IF l \in Skewed THEN UNCHANGED << tables, maps >>
               ELSE /\ CcrRegister(l)
                    /\ UNCHANGED << registry, customParameters, staticRegistry,
                                    staticCustomParameters, converterSnapshot >>
            /\ files' = Tail(files)
            /\ phase' = "open"
            /\ UNCHANGED << shared, memory, failed, todo, session >>

(* The loops over files and over paths.                                    *)
NextPath ==
    /\ phase = "open"
    /\ files = << >>
    /\ phase' = "resolve"
    /\ UNCHANGED << shared, tables, maps, memory, failed, todo, files, session >>

Loaded ==
    /\ phase = "resolve"
    /\ todo = << >>
    /\ phase' = "running"
    /\ UNCHANGED << shared, tables, maps, memory, failed, todo, files, session >>

(* Worker::RunBeforeAllHooks gives the program context to a visible hook,  *)
(* which may leave an object of a type of its own library in it.           *)
KeepInProgramContext ==
    /\ phase = "running"
    /\ \E e \in Visible : contextOwners' = contextOwners \union {e.owner}
    /\ UNCHANGED << shared, tables, maps, libraries, mapped, work >>

(* ~Application destroys pluginSession, declared last, first.              *)
EndSession ==
    /\ phase = "running"
    /\ phase' = "unregister"
    /\ UNCHANGED << shared, tables, maps, memory, failed, todo, files, session >>

SlipParametersStay ==
    /\ phase = "unregister"
    /\ plugins' = << >>
    /\ registry' = [registry EXCEPT ![Host] = {}]
    /\ phase' = "restore"
    /\ UNCHANGED << shared, customParameters, staticRegistry, staticCustomParameters,
                    maps, memory, failed, todo, files, session >>

(* Cleanup, statement by statement.                                        *)
UnregisterPlugins ==
    /\ phase = "unregister"
    /\ plugins' = << >>
    /\ registry' = [registry EXCEPT ![Host] = {}]
    /\ customParameters' = [customParameters EXCEPT ![Host] = {}]
    /\ phase' = "restore"
    /\ UNCHANGED << shared, staticRegistry, staticCustomParameters, maps, memory,
                    failed, todo, files, session >>

SlipNotRestored ==
    /\ phase = "restore"
    /\ phase' = "unload"
    /\ UNCHANGED << shared, tables, maps, memory, failed, todo, files, session >>

RestoreSnapshot ==
    /\ phase = "restore"
    /\ converterMap' = [converterMap EXCEPT ![Host] = converterSnapshot]
    /\ phase' = "unload"
    /\ UNCHANGED << shared, tables, converterSnapshot, instanceOf, memory,
                    failed, todo, files, session >>

(* UnloadAll: what leaves memory takes its own instances with it.          *)
UnloadAll ==
    /\ phase = "unload"
    /\ libraries' = << >>
    /\ mapped' = mapped \ Unmapped
    /\ LET Without(tbl) == [o \in Owners |-> IF o \in Unmapped THEN {} ELSE tbl[o]] IN
       /\ registry' = Without(registry)
       /\ customParameters' = Without(customParameters)
       /\ converterMap' = Without(converterMap)
       /\ instanceOf' = [o \in Owners |-> IF o \in Unmapped THEN o ELSE instanceOf[o]]
    /\ phase' = "destroy"
    /\ UNCHANGED << shared, staticRegistry, staticCustomParameters, plugins,
                    converterSnapshot, contextOwners, failed, todo, files, session >>

(* ~Application goes on: ~programContext, long after the libraries.        *)
DestroyProgramContext ==
    /\ phase = "destroy"
    /\ contextOwners' = {}
    /\ failed' = FALSE
    /\ phase' = "idle"
    /\ UNCHANGED << shared, tables, maps, libraries, mapped, todo, files, session >>

Next ==
    \/ TakeSnapshot
    \/ LoadPath
    \/ OpenLibrary
    \/ CallRegister
    \/ NextPath
    \/ Loaded
    \/ KeepInProgramContext
    \/ EndSession
    \/ UnregisterPlugins
    \/ RestoreSnapshot
    \/ UnloadAll
    \/ DestroyProgramContext

Spec == Init /\ [][Next]_vars

-----------------------------------------------------------------------------
(* Properties                                                              *)

TypeOK ==
    /\ shared \in BOOLEAN
    /\ registry \in [Owners -> SUBSET Entries(Locations)]
    /\ customParameters \in [Owners -> SUBSET Entries(Names)]
    /\ staticRegistry \subseteq OwnDefinitions(Host)
    /\ staticCustomParameters \subseteq OwnParameters(Host)
    /\ plugins \in Seq(Libraries)
    /\ converterMap \in [Owners -> SUBSET Entries(Names)]
    /\ converterSnapshot \subseteq OwnParameters(Host)
    /\ instanceOf \in [Owners -> Owners]
    /\ libraries \in Seq(Libraries)
    /\ mapped \subseteq Libraries
    /\ contextOwners \subseteq Owners
    /\ phase \in Phases
    /\ failed \in BOOLEAN
    /\ todo \in Seq(Paths)
    /\ files \in Seq(Libraries)
    /\ session \in 0..MaxSessions

InMemory == {Host} \union mapped

(* Whatever the host can follow, an instance in its list, an entry of its  *)
(* tables or a converter, lies in the executable or in a library that is   *)
(* still in memory: the order of Cleanup's three statements, after a load  *)
(* that failed half way as well as at the end.                             *)
NothingDangles ==
    /\ ToSet(plugins) \subseteq mapped
    /\ ToSet(libraries) \subseteq mapped
    /\ \A e \in Visible \union GetRegisteredParameters \union converterMap[Host] :
          e.owner \in InMemory

(* Between two Applications the process is as it was before the first:     *)
(* the host's own definitions, parameters and converters, and no others,   *)
(* whatever the last load list was and wherever it failed.                 *)
OnlyHostRemains ==
    phase \in {"idle", "destroy"} =>
        /\ plugins = << >>
        /\ Visible \in {{}, OwnDefinitions(Host)}
        /\ GetRegisteredParameters \in {{}, OwnParameters(Host)}
        /\ converterMap[Host] = GetRegisteredParameters

(* The host's own definitions can be looked up at every moment, whichever  *)
(* table they are in.                                                      *)
HostDefinitionsStay ==
    [][/\ {e \in Visible : e.owner = Host} = {e \in Visible' : e.owner = Host}
       /\ {e \in GetRegisteredParameters : e.owner = Host}
            = {e \in GetRegisteredParameters' : e.owner = Host}]_vars

(* Once a load list is through, every location of every library on it that *)
(* has come into memory for it can be looked up, unless ccr_register       *)
(* turned the library away: sessions get "a fresh set of plugin-loaded     *)
(* definitions".  A library that dlclose has left in memory is not fresh:  *)
(* its static constructors do not run again.                               *)
LoadedIsVisible ==
    phase = "running" =>
        \A l \in ToSet(libraries) \ Resident :
            l \notin Skewed \/ shared =>
                /\ \A at \in Defines[l] : \E e \in Visible : e.at = at /\ e.owner # Host
                /\ \A at \in Converts[l] : \E e \in GetRegisteredParameters :
                        e.at = at /\ e.owner # Host

(* LoadIds numbers each definition once and a step has one match per       *)
(* location: no entry is met twice on the walk, also when a path is listed *)
(* twice or a directory holds a plugin that is named as well; and with one *)
(* registry, two plugins that include the same header count as one.        *)
EnumeratedOnce ==
    /\ \A m, n \in DOMAIN Walk : m # n => Walk[m] \intersect Walk[n] = {}
    /\ shared => \A e, f \in registry[Host] : e.at = f.at => e = f

(* While the features run, the code of every visible definition finds a    *)
(* converter for every custom parameter, its own and the other libraries', *)
(* but for the parameters of a library that dlclose has left in memory.    *)
VisibleStepsConvert ==
    phase = "running" =>
        \A e \in Visible, p \in GetRegisteredParameters :
            p.owner \notin Resident =>
                \E c \in converterMap[Instance(instanceOf[e.owner])] : c.at = p.at

(* An object in the program context is destroyed by code that is still     *)
(* there ("preventing dangling pointers").                                 *)
ContextOwnersAreMapped == contextOwners \subseteq InMemory

-----------------------------------------------------------------------------
(* The inductive invariant                                                 *)

(* Who owns what: a library's tables hold what is its own, and the host's  *)
(* hold its own and, with one registry in the process, everybody's.        *)
OwnerInv ==
    /\ staticRegistry \in {{}, OwnDefinitions(Host)}
    /\ staticCustomParameters \in {{}, OwnParameters(Host)}
    /\ \A l \in Libraries :
          /\ registry[l] \subseteq OwnDefinitions(l)
          /\ customParameters[l] \subseteq OwnParameters(l)
          /\ converterMap[l] \subseteq OwnParameters(l)
    /\ \A e \in registry[Host] \union customParameters[Host] \union converterMap[Host] :
          e.owner \in InMemory
    /\ ToSet(plugins) \union ToSet(libraries) \subseteq mapped

(* The list of instances and one location each.                            *)
ListInv ==
    /\ \A m, n \in DOMAIN plugins : m # n => plugins[m] # plugins[n]
    /\ IF shared THEN /\ plugins = << >>
                      /\ \A e, f \in registry[Host] : e.at = f.at => e = f
       ELSE registry[Host] \subseteq OwnDefinitions(Host)

(* Where the session is: the host's own definitions are set aside in time, *)
(* and what the plugins brought is gone before they are.                   *)
SessionInv ==
    /\ phase = "register" => files # << >> /\ Head(files) \in mapped
    /\ phase \in {"idle", "restore", "unload", "destroy"} => plugins = << >>
    /\ phase \in {"restore", "unload", "destroy"} =>
          registry[Host] = {} /\ customParameters[Host] = {}
    /\ phase \in {"unload", "destroy", "idle"} =>
          converterMap[Host] = staticCustomParameters \union customParameters[Host]
    /\ phase = "idle" => /\ registry[Host] \in {{}, OwnDefinitions(Host)}
                         /\ customParameters[Host] \in {{}, OwnParameters(Host)}
    /\ phase # "idle" => converterSnapshot = staticCustomParameters
    /\ phase # "idle" \/ staticRegistry # {} \/ staticCustomParameters # {} =>
          \A e \in registry[Host] \union customParameters[Host] : e.owner # Host

IInv == TypeOK /\ OwnerInv /\ ListInv /\ SessionInv

-----------------------------------------------------------------------------
(* What loading has brought so far                                         *)

Loading == {"resolve", "open", "register", "running"}

Listed(table, ids)   == \A at \in ids : \E e \in table : e.at = at /\ e.owner # Host
Converted(map, ids)  == \A at \in ids : \E c \in map : c.at = at

(* Each library looks into its own map or the host's: into its own when it *)
(* comes into memory, into the host's once it is on the list.              *)
MapInv ==
    /\ instanceOf[Host] = Host
    /\ \A l \in Libraries : instanceOf[l] \in {l, Host}
    /\ \A l \in Libraries \ mapped : instanceOf[l] = l
    /\ \A l \in ToSet(plugins) : ~shared /\ instanceOf[l] = Host

(* A fresh library's definitions are in the instance it has registered     *)
(* with, and its converters in the map it looks into.                      *)
FreshInv ==
    /\ phase \in {"destroy", "idle"} => mapped \subseteq Resident /\ libraries = << >>
    /\ phase \in Loading =>
          \A l \in mapped \ Resident :
             /\ Listed(registry[Instance(l)], Defines[l])
             /\ Listed(customParameters[Instance(l)], Converts[l])
             /\ Converted(converterMap[Instance(instanceOf[l])], Converts[l])

(* The host's map converts what the host's tables name, and a library that *)
(* has been opened is on the list once it has registered.                  *)
LoadInv ==
    phase \in Loading =>
        /\ \A p \in staticCustomParameters \union customParameters[Host] :
              \E c \in converterMap[Host] : c.at = p.at
        /\ \A l \in ToSet(libraries) :
              \/ shared \/ l \in Skewed \/ l \in ToSet(plugins)
              \/ phase = "register" /\ l = Head(files)

LoadedInv == MapInv /\ FreshInv /\ LoadInv
=============================================================================
