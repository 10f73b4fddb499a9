\* A scenario with hooks around no steps.
CONSTANTS
    Suites <- EmptyScenario
    Options <- MCOptions
    GlobalHooks <- MCGlobalHooks
    SizeMax <- MCSizeMax
    StepDefinitions <- MCStepDefinitions
    Definition <- MCDefinition
    BeforeStepHooks = 0
    AfterStepHooks = 0
SPECIFICATION Reporting
INVARIANT AfterHooksFollowBeforeHooks
CHECK_DEADLOCK FALSE
