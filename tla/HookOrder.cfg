\* A process ends, and CTest starts no other but the tests it discovered.
CHECK_DEADLOCK FALSE
SPECIFICATION Spec
CONSTANTS
    Inputs <- MCInputs
    Options <- MCOptions
    Programs <- MCPrograms
    Custom <- MCCustom
    Host <- MCHost
    Replacement <- MCReplacement
INVARIANT
    HooksRunInOrder
