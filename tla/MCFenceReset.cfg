CONSTANTS
    Callers = {c1}
    Fences = {f1}
    Payloads = {p1}
    Capacity = 1
    MaxGenerations = 1
    MaxGuards = 1
    Faults = {"reset"}
    Nil = Nil
SPECIFICATION Spec
INVARIANTS
    DropsAfterSignal
CHECK_DEADLOCK FALSE
