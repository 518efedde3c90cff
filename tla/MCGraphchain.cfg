SPECIFICATION Spec
CONSTANTS
    ImageCounts <- MCImageCounts
    Semaphores <- MCSemaphores
    Owners <- MCFrames
    Queues = {q1}
    PresentWait <- MCModes
    DebugAssertions = FALSE
    MaxHandles = 3
    None = None
    Capacity = 1
    Mailbox <- MCModes
    MaxHeld = 1
    MaxInFlight = 1
    MaxResets = 2
    Clamped = {1}
    Finite = TRUE
CHECK_DEADLOCK FALSE
INVARIANTS
    TypeOK
    RenderedNotSignaledTwice
    NothingDestroyedInUse
    CommandBufferNotPending
    NoAssertionFails
PROPERTIES
    AcquiresWithIdleSemaphore
    InFlightLimited
    CallsReturn
