SPECIFICATION Spec
CONSTANTS
    MaxUpdates = 3
    MaxReads = 1
INVARIANTS
    TypeOK
PROPERTIES
    DirtyIsDumped
    StopReturns
CHECK_DEADLOCK FALSE
