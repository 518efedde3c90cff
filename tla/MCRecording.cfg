CONSTANTS
    N = 4
    R = 2
    Execs <- MCExecs
    Mergeable = {TRUE, FALSE}
    GroupFactor = 0
    MayFail = TRUE
    MaxStale = 1
SPECIFICATION Spec
INVARIANTS
    EachOnce
    HazardOrder
    TimestampsInPlace
    TimestampsComplete
    SelectionExact
CHECK_DEADLOCK FALSE
