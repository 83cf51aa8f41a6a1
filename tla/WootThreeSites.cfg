SPECIFICATION Spec
CONSTANTS
    Sites = {1, 2, 3}
    MaxValue <- MCMaxValue
    Contents = {"a"}
    MaxOps = 4
    MaxDels = 1
    MaxTicks <- LateReaderTicks
    MaxPushes = 3
    Overshoot = 0
    SingleOpPushes = FALSE
INVARIANTS
    ConvergeUnlessRepeated
    IntendedUnlessRepeated
    HasPathIsPath
    EdgesAreNeeded
    DagIsTheLog
CHECK_DEADLOCK FALSE
