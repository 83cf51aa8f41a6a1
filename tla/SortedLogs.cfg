SPECIFICATION Spec
CONSTANTS
    Sites = {1, 2}
    MaxValue = 3
    MaxPushes = 3
INVARIANTS
    IInv
    UniqueIds
    CausalDelivery
    ClockTellsCausality
    SameOpsSameLog
    LogIsCausal
    LogOrderIsTotal
PROPERTIES
    NewEditIsLast
    RefinesCausalOps
CHECK_DEADLOCK FALSE
