CONSTANTS
    N = 3
    R = 1
    Execs <- MCExecs
    Mergeable = {FALSE}
    GroupFactor = 4
    MayFail = TRUE
    MaxStale = 1
SPECIFICATION Spec
INVARIANT ResourcesMatch
CHECK_DEADLOCK FALSE
