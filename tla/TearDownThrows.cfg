\* One step body with nested steps, two levels deep.
CONSTANTS
    MaxNesting <- MCMaxNesting
    MaxCalls <- MCMaxCalls
SPECIFICATION Spec
INVARIANT
    ThrowingIsSafe
CHECK_DEADLOCK FALSE
