CONSTANTS
    Submissions = {s1, s2}
    Ranges = {r1}
    Queues <- TwoQueues
    Targets <- TwoQueues
    FirstOwners <- NoOwners
    CmdBufs = {b1, b2}
    MayAbandon = FALSE
    Nil = Nil
SYMMETRY Symmetry
SPECIFICATION Spec
INVARIANTS
    OwnershipTracked
CHECK_DEADLOCK FALSE
