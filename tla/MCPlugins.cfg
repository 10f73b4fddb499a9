\* Two Applications one after the other, each with any list of one or two
\* paths, with one registry in the process and with one per library.
\* dlclose leaves q in memory.
CONSTANTS
    Host <- MCHost
    Libraries <- MCLibraries
    Locations <- MCLocations
    Names <- MCNames
    Defines <- MCDefines
    Converts <- MCConverts
    Broken = {"broken"}
    Bare = {"bare"}
    Skewed = {"skewed"}
    Resident = {"q"}
    LoadLists <- MCLoadLists
    MaxSessions = 2
SPECIFICATION Spec
INVARIANTS
    NothingDangles
    OnlyHostRemains
    LoadedIsVisible
    EnumeratedOnce
    VisibleStepsConvert
PROPERTY
    HostDefinitionsStay
\* The process ends after the last Application.
CHECK_DEADLOCK FALSE
