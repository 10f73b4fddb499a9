\* One scenario run for up to two attempts, one beforeStep and one afterStep hook.
CONSTANTS
    TestCases <- MCTestCases
    Retries <- MCRetries
    Repeats <- MCRepeats
    SizeMax <- MCSizeMax
    BeforeStepHooks = 1
    AfterStepHooks = 1
SPECIFICATION FairSpec
INVARIANTS
    TypeOK
    SkipInvokesNothing
    EarlierResultsDecide
    AfterHooksAlwaysRun
    PassedMeansEverythingRan
    VerdictOfAttempts
    HasErrorIsJustified
PROPERTY
    RunReturns
\* Run() stops when it returns.
CHECK_DEADLOCK FALSE
