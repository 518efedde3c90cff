CONSTANTS
    Callers = {c1, c2}
    Fences = {f1, f2}
    Payloads = {p1, p2}
    Capacity = 1
    MaxGenerations = 2
    MaxGuards = 2
    Faults = {"panic", "lost", "wait"}
    Nil = Nil
SYMMETRY Symmetry
SPECIFICATION Spec
INVARIANTS
    TypeOK
    HooksRunBeforeDrop
    DropsAfterSignal
    WorkerLifecycle
    WaitsForCurrentWorker
PROPERTIES
    WaitCoversQueue
CHECK_DEADLOCK FALSE
