CONSTANTS
    Submissions = {s1, s2, s3}
    Ranges = {r1, r2}
    Queues <- TwoQueues
    Targets <- TwoQueues
    FirstOwners <- NoOwners
    CmdBufs = {b1, b2}
    MayAbandon = TRUE
    Nil = Nil
SYMMETRY Symmetry
SPECIFICATION Spec
PROPERTIES
    ReleaseReusable
CHECK_DEADLOCK FALSE
