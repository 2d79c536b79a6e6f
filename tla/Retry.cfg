SPECIFICATION Spec
CONSTANTS
    Errors <- AllErrors
INVARIANTS
    TypeOK
    WaitsBounded
    EndsForAReason
    FatalOnlyIfCritical
CHECK_DEADLOCK FALSE
