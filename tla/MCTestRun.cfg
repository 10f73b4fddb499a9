\* A whole run over two features, one hook of each kind, every flag.
CONSTANTS
    Suites <- MCSuites
    Options <- MCOptions
    GlobalHooks <- MCGlobalHooks
    SizeMax <- MCSizeMax
    StepDefinitions <- MCStepDefinitions
    Definition <- MCDefinition
    BeforeStepHooks = 0
    AfterStepHooks = 0
SPECIFICATION Reporting
INVARIANTS
    SuccessIsEarned
    FailureHasAReason
    FailFastSkipsTheRest
    DryRunSucceeds
    JunitAgreesWithRun
    UsageTimesWhatRan
PROPERTIES
    RunEnds
    MessagesFollowProtocol
\* A finished run stops, and so does one an exception escaped from.
CHECK_DEADLOCK FALSE
