CONSTANTS
    Submissions = {s1, s2, s3}
    Ranges = {r1, r2}
    Queues <- MCQueues
    Targets <- TwoQueues
    FirstOwners <- AnyOwners
    CmdBufs = {b1, b2}
    MayAbandon = FALSE
    Nil = Nil
SYMMETRY Symmetry
SPECIFICATION Spec
INVARIANTS
    TypeOK
    ContentsDefined
    WaitsAreExclusive
    QueuesProceed
PROPERTIES
    ReleaseReusable
    TrackingTruthful
CHECK_DEADLOCK FALSE
