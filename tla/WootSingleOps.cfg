SPECIFICATION Spec
CONSTANTS
    Sites = {1, 2}
    MaxValue <- MCMaxValue
    Contents = {"a"}
    MaxOps = 4
    MaxDels = 0
    MaxTicks <- ChainTicks
    MaxPushes = 4
    Overshoot = 0
    SingleOpPushes = TRUE
INVARIANTS
    NothingOverdue
    
CHECK_DEADLOCK FALSE
