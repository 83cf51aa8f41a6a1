SPECIFICATION Spec
CONSTANTS
    Sites = {1, 2, 3}
    MaxValue <- MCMaxValue
    Contents = {"a"}
    MaxOps = 4
    MaxDels = 0
    MaxTicks <- LateReaderTicks
    MaxPushes = 2
    Overshoot = 0
    SingleOpPushes = FALSE
INVARIANTS
    TextMatchesLog
CHECK_DEADLOCK FALSE
