SPECIFICATION Spec
CONSTANTS
    t1 = t1
    t2 = t2
    t3 = t3
    Threads <- MCThreads
    Trackers <- MCTrackers
    Dense = Dense
    None = None
CHECK_DEADLOCK FALSE
INVARIANTS
    StoreInForm
PROPERTIES
    Linearizable
    PiecesCover
    SomebodyReturns
