\* A global hook fails under --fail-global-hook-fast.
CONSTANTS
    Suites <- MCSuites
    Options <- MCOptions
    GlobalHooks <- MCGlobalHooks
    SizeMax <- MCSizeMax
    StepDefinitions <- MCStepDefinitions
    Definition <- MCDefinition
    BeforeStepHooks = 0
    AfterStepHooks = 0
SPECIFICATION Reporting
INVARIANT GlobalHookFailureStops
CHECK_DEADLOCK FALSE
