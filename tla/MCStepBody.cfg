\* One step body with nested steps, two levels deep.
CONSTANTS
    MaxNesting <- MCMaxNesting
    MaxCalls <- MCMaxCalls
SPECIFICATION FairSpec
INVARIANTS
    AnswerIsAnOutcome
    PassedIsClean
    TearDownFollowsSetUp
    ReporterIsInnermost
    OnlyOwnSkipsCount
    FailedAssertionIsTold
PROPERTY
    AnswerArrives
\* The model ends with the answer, or with the program.
CHECK_DEADLOCK FALSE
