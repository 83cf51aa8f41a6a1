SPECIFICATION Spec
CONSTANTS
    QueueSize = 1
    MaxMessages = 3
INVARIANTS
    NoGaps
    PairedBothWays
PROPERTIES
    EndIsNoticed
CHECK_DEADLOCK FALSE
