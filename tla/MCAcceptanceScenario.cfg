\* One scenario next to another process that builds in the same sandbox.
CONSTANTS
    Capacity = 1
    MaxWrites = 2
    MaxAttempts = 2
    Scenarios <- MCScenarios
SPECIFICATION FairSpec
INVARIANTS
    ResultIsWhole
    OnlyTwoLeaks
    LibraryIsMine
PROPERTY
    ScenarioEnds
