SPECIFICATION Spec
CONSTANTS
    MaxRequests = 2
    Connections = {k1, k2}
    QueueSize = 1
INVARIANTS
    AnswersFit
    NoLeftovers
    OnlyKnownPanics
PROPERTIES
    AnswerComes
CHECK_DEADLOCK FALSE
