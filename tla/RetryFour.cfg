SPECIFICATION Spec
CONSTANTS
    Errors <- CreateBlockErrors
INVARIANT
    ThreeAttempts
CHECK_DEADLOCK FALSE
