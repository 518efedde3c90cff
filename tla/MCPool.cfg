CONSTANTS
    Strategies = {"fifo", "hash", "lazy"}
    Infos <- BuffersAndCommands
    Items = {i1, i2}
    Leases = {l1, l2}
    Buckets = {b1, b2}
    Tags = {t1}
    Capacity = 1
    DefaultCapacity = 2
    MaxClones = 2
    MayPanic = TRUE
    Nil = Nil
SYMMETRY Symmetry
SPECIFICATION Spec
INVARIANTS
    TypeOK
    LeaseFitsRequest
    OneOwner
    BucketBounded
PROPERTIES
    CollectKeepsWorkingSet
CHECK_DEADLOCK FALSE
