\* A plugin's hook leaves an object in the program context.
CONSTANTS
    Host <- MCHost
    Libraries <- MCLibraries
    Locations <- MCLocations
    Names <- MCNames
    Defines <- MCDefines
    Converts <- MCConverts
    Broken = {"broken"}
    Bare = {"bare"}
    Skewed = {"skewed"}
    Resident = {}
    LoadLists <- MCLoadLists
    MaxSessions = 2
SPECIFICATION Spec
INVARIANT
    ContextOwnersAreMapped
CHECK_DEADLOCK FALSE
