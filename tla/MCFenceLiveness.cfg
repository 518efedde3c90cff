CONSTANTS
    Callers = {c1, c2}
    Fences = {f1}
    Payloads = {p1}
    Capacity = 1
    MaxGenerations = 2
    MaxGuards = 2
    Faults = {"reset", "panic", "lost", "wait"}
    Nil = Nil
SPECIFICATION Spec
PROPERTIES
    EventuallyDropped
    WaitAnswered
    DetachedWorkerExits
CHECK_DEADLOCK FALSE
