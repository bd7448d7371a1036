SPECIFICATION Spec
CONSTANTS
    MaxCalls = 4
INVARIANTS
    TypeOK
    DryRunStaysLocal
    NothingThroughTransaction
PROPERTIES
    OnlyInTransaction
CHECK_DEADLOCK FALSE
