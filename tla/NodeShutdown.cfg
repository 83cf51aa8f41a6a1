SPECIFICATION Spec
CONSTANTS
    Conns = {c1, c2}
    QueueSize = 1
    MaxMessages = 3
INVARIANTS
    NoSendOnClosed
PROPERTIES
    ShutdownEnds
    
CHECK_DEADLOCK FALSE
