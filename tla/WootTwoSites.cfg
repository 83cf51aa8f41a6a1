SPECIFICATION Spec
CONSTANTS
    Sites = {1, 2}
    MaxValue <- MCMaxValue
    Contents = {"a"}
    MaxOps = 4
    MaxDels = 2
    MaxTicks <- MoreTicks
    MaxPushes = 3
    Overshoot = 0
    SingleOpPushes = FALSE
INVARIANTS
    TypeOK
    StrongConvergence
    NoFault
    NothingPending
    TextMatchesLog
    LayersAreTopological
PROPERTIES
    RefinesSortedLogs
CHECK_DEADLOCK FALSE
