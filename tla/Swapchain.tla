------------------------------ MODULE Swapchain ------------------------------
(***************************************************************************)
(* One driver swapchain, the handles it has retired, and the part of       *)
(* Vulkan they depend on: queues, semaphores and the presentation engine.  *)
(*                                                                         *)
(* A present is asynchronous.  The host learns that it is over from the    *)
(* present id of the image, where the device supports present wait, or     *)
(* else from an empty submission with a fence (QueueSignals) made on the   *)
(* same queue right after it.  Recreation retires the live handle, which   *)
(* may still be presenting, and destroys the one retired before.           *)
(*                                                                         *)
(* A queue takes presents in order and lets later work overtake them; an   *)
(* empty submission with a fence it finishes only after the presents that  *)
(* came before, which is what the code relies on.  The presentation engine *)
(* takes the semaphore of a present that it rejects once it is signaled.   *)
(* Loss of the surface is left out: the owner drops the swapchain then.    *)
(*                                                                         *)
(* src/src/driver/swapchain.rs                                             *)
(***************************************************************************)
EXTENDS Integers, Sequences, FiniteSets, SequencesExt

CONSTANTS
    ImageCounts,        \* image counts the presentation engine may choose
    Semaphores,         \* binary semaphores of the swapchain's client
    Owners,             \* whose work a queue executes
    Queues,             \* queues that can present to the surface
    PresentWait,        \* whether VK_KHR_present_id and _present_wait may be there
    DebugAssertions,    \* the build checks debug_assert!
    MaxHandles,         \* bound: swapchain handles ever created
    None

\* The engine has a largest image count: a 32-bit number.
ASSUME ImageCountsAssumption ==
    ImageCounts \subseteq Nat \ {0} /\ \E n \in ImageCounts : \A m \in ImageCounts : m <= n
ASSUME SwitchesAssumption == PresentWait \subseteq BOOLEAN /\ DebugAssertions \in BOOLEAN
ASSUME NoneAssumption == None \notin Semaphores /\ None \notin Queues
ASSUME HandlesAssumption == MaxHandles \in Nat \ {0}

Handles == 1..MaxHandles
Images == 0..(CHOOSE n \in ImageCounts : \A m \in ImageCounts : m <= n) - 1

VARIABLES
    live,               \* handle of SwapchainState<Live>
    retired,            \* handles of SwapchainState<Retired>
    destroyed,          \* handles given to vkDestroySwapchainKHR
    taken,              \* images of the live state that are None
    retirement,         \* PresentRetirement of every handle
    recreatePending,
    signalQueued,       \* per queue: QueueSignal.fence is queued
    usePresentWait,     \* the device has them
    panicked,           \* an assertion failed
    engine,             \* what the presentation engine does with each image
    queue,              \* per queue: what it has not finished
    semaphore           \* "idle" or "signaled"

hostVars == <<live, retired, destroyed, taken, retirement, recreatePending,
              signalQueued, usePresentWait, panicked>>
deviceVars == <<engine, queue, semaphore>>
swapchainVars == <<hostVars, deviceVars>>

Work(o, wait, signal) ==
    [kind |-> "work", owner |-> o, wait |-> wait, signal |-> signal]
Present(h, i, wait) ==
    [kind |-> "present", handle |-> h, image |-> i, wait |-> wait]
Signal == [kind |-> "signal"]

Retirement == [ids : SUBSET Images, pending : BOOLEAN, queue : Queues \cup {None}]
NoRetirement == [ids |-> {}, pending |-> FALSE, queue |-> None]

NewEngine(n) == [i \in Images |-> IF i < n THEN "free" ELSE "none"]

SwapchainTypeOK ==
    /\ live \in Handles
    /\ retired \subseteq Handles
    /\ destroyed \subseteq Handles
    /\ taken \subseteq Images
    /\ retirement \in [Handles -> Retirement]
    /\ recreatePending \in BOOLEAN
    /\ signalQueued \in [Queues -> BOOLEAN]
    /\ panicked \in BOOLEAN
    /\ usePresentWait \in PresentWait
    /\ engine \in [Handles -> [Images -> {"none", "free", "acquired", "queued", "shown"}]]
    /\ \A q \in Queues : \A k \in DOMAIN queue[q] :
            queue[q][k].kind \in {"work", "present", "signal"}
    /\ semaphore \in [Semaphores -> {"idle", "signaled"}]

\* Swapchain::create
SwapchainInit ==
    /\ live = 1
    /\ retired = {}
    /\ destroyed = {}
    /\ taken = {}
    /\ retirement = [h \in Handles |-> NoRetirement]
    /\ recreatePending = FALSE
    /\ signalQueued = [q \in Queues |-> FALSE]
    /\ panicked = FALSE
    /\ usePresentWait \in PresentWait
    /\ \E n \in ImageCounts :
            engine = [h \in Handles |-> IF h = 1 THEN NewEngine(n) ELSE NewEngine(0)]
    /\ queue = [q \in Queues |-> <<>>]
    /\ semaphore = [s \in Semaphores |-> "idle"]

-----------------------------------------------------------------------------
(* What the host can wait for.                                             *)

Unfinished == UNION {Range(queue[q]) : q \in Queues}
Presenting(h, i) ==
    \E op \in Unfinished : op.kind = "present" /\ op.handle = h /\ op.image = i
WorkDone(o) == \A op \in Unfinished : op.kind = "work" => op.owner # o
SignalDone(q) == Signal \notin Range(queue[q])

\* wait_for_present_idx has returned for every image of W.
PresentsWaited(h, W) == \A i \in W \cap retirement[h].ids : ~Presenting(h, i)
AfterWaits(r, W) ==
    IF W \cap r.ids = {} THEN r
    ELSE [r EXCEPT !.ids = @ \ W, !.pending = r.ids \ W # {}]

\* wait_for_all_presents has returned.
AllPresentsWaited(h) ==
    LET r == retirement[h] IN
    r.pending => IF usePresentWait THEN PresentsWaited(h, r.ids)
                                ELSE queue[r.queue] = <<>>

\* QueueSignals::wait_for_and_reset_all has returned.
SignalsWaited == \A q \in Queues : signalQueued[q] => SignalDone(q)

-----------------------------------------------------------------------------
(* Acquiring.  The handle cannot be recreated in these: a client looks at  *)
(* recreatePending first.  The engine signals the semaphore once it is     *)
(* done with the image: work that waits for it may always be late, so a    *)
(* state of its own for that would tell nothing.                           *)

Acquire(s, i, suboptimal) ==
    /\ engine[live][i] = "free"
    /\ engine' = [engine EXCEPT ![live][i] = "acquired"]
    /\ semaphore' = [semaphore EXCEPT ![s] = "signaled"]
    /\ taken' = taken \cup {i}
    /\ panicked' = (i \in taken)        \* expected available image
    /\ recreatePending' = suboptimal
    /\ UNCHANGED <<usePresentWait, live, retired, destroyed, signalQueued,
                   queue>>

AcquireFails(outOfDate) ==
    /\ recreatePending' = (recreatePending \/ outOfDate)
    /\ UNCHANGED <<usePresentWait, live, retired, destroyed, taken,
                   signalQueued, panicked, deviceVars>>

-----------------------------------------------------------------------------
(* Presenting a batch of one swapchain: Swapchain::queue_present up to the *)
(* second with_queue, and what that does.  Q is what the queues hold once  *)
(* the client has submitted the work that the present waits for.           *)

\* Mutant: a presented image stays taken.
PresentKeepsImage(Q, q, i, s, suboptimal) ==
    LET waited == AfterWaits(retirement[live], {i}) IN
    /\ PresentsWaited(live, {i})
    /\ queue' = [Q EXCEPT ![q] = Append(@, Present(live, i, s))]
    /\ engine' = [engine EXCEPT ![live][i] = "queued"]
    /\ retirement' = [retirement EXCEPT ![live] =
            [ids |-> IF usePresentWait THEN waited.ids \cup {i} ELSE waited.ids,
             pending |-> TRUE, queue |-> q]]
    /\ taken' = taken
    /\ recreatePending' = (recreatePending \/ suboptimal)
    /\ UNCHANGED <<usePresentWait, live, retired, destroyed, signalQueued,
                   panicked, semaphore>>

PresentQueued(Q, q, i, s, suboptimal) ==
    LET waited == AfterWaits(retirement[live], {i}) IN
    /\ PresentsWaited(live, {i})
    /\ queue' = [Q EXCEPT ![q] = Append(@, Present(live, i, s))]
    /\ engine' = [engine EXCEPT ![live][i] = "queued"]
    /\ retirement' = [retirement EXCEPT ![live] =
            [ids |-> IF usePresentWait THEN waited.ids \cup {i} ELSE waited.ids,
             pending |-> TRUE, queue |-> q]]
    /\ taken' = taken \ {i}
    /\ recreatePending' = (recreatePending \/ suboptimal)
    /\ UNCHANGED <<usePresentWait, live, retired, destroyed, signalQueued,
                   panicked, semaphore>>

\* The presentation engine is out of date: it takes the semaphore, the image
\* stays acquired.  clear_present_id expects an id that next_present_id may
\* not have set.
PresentRejected(Q, i, s) ==
    /\ PresentsWaited(live, {i})
    /\ retirement' = [retirement EXCEPT ![live] = AfterWaits(@, {i})]
    /\ panicked' = (DebugAssertions /\ ~usePresentWait)
    /\ recreatePending' = TRUE
    /\ IF semaphore[s] = "signaled"
       THEN /\ semaphore' = [semaphore EXCEPT ![s] = "idle"]
            /\ queue' = Q
       ELSE /\ semaphore' = semaphore
            /\ queue' = [p \in Queues |-> [k \in DOMAIN Q[p] |->
                    IF Q[p][k].kind = "work" /\ Q[p][k].signal = s
                    THEN [Q[p][k] EXCEPT !.signal = None] ELSE Q[p][k]]]
    /\ UNCHANGED <<usePresentWait, live, retired, destroyed, taken,
                   signalQueued, engine>>

\* QueueSignals::submit, with the fence of the previous present waited for.
SubmitSignal(q) ==
    /\ signalQueued[q] => SignalDone(q)
    /\ signalQueued' = [signalQueued EXCEPT ![q] = TRUE]
    /\ queue' = [queue EXCEPT ![q] = Append(@, Signal)]
    /\ UNCHANGED <<usePresentWait, live, retired, destroyed, taken, retirement,
                   recreatePending,
                   panicked, engine, semaphore>>

-----------------------------------------------------------------------------
(* Recreating, after the client waited for the presents of the images W.   *)

\* wait_for_and_reset_all and destroy_retired
RetireOld ==
    /\ SignalsWaited
    /\ \A h \in retired : AllPresentsWaited(h)
    /\ destroyed' = destroyed \cup retired
    /\ signalQueued' = [q \in Queues |-> FALSE]

Recreate(n, W) ==
    /\ RetireOld
    /\ retired' = {live}
    /\ live' = live + 1
    /\ taken' = {}
    /\ retirement' = [retirement EXCEPT ![live] = AfterWaits(@, W)]
    /\ engine' = [engine EXCEPT ![live + 1] = NewEngine(n)]
    /\ recreatePending' = FALSE
    /\ UNCHANGED <<usePresentWait, panicked, queue, semaphore>>

\* SwapchainState::create refuses the surface, an empty one for example.
RecreateFails(W) ==
    /\ RetireOld
    /\ retired' = {}
    /\ retirement' = [retirement EXCEPT ![live] = AfterWaits(@, W)]
    /\ UNCHANGED <<usePresentWait, live, taken, recreatePending, panicked,
                   deviceVars>>

\* Swapchain::set_info where it differs from the requested one
SetInfo(recreate) ==
    /\ recreatePending' = (recreatePending \/ recreate)
    /\ UNCHANGED <<usePresentWait, live, retired, destroyed, taken, retirement,
                   signalQueued,
                   panicked, deviceVars>>

\* Swapchain::drop
DropSwapchain ==
    /\ SignalsWaited
    /\ \A h \in retired \cup {live} : AllPresentsWaited(h)
    /\ destroyed' = destroyed \cup retired \cup {live}
    /\ retired' = {}
    /\ UNCHANGED <<usePresentWait, live, taken, retirement, recreatePending,
                   signalQueued, panicked>>

-----------------------------------------------------------------------------
(* The device and the presentation engine.                                 *)

IsPresent(op) == op.kind = "present"

\* Work starts in order, when its semaphore is signaled.
WorkReady(q, k) ==
    /\ queue[q][k].kind = "work"
    /\ \A j \in 1..k - 1 : queue[q][j].kind # "work"
    /\ semaphore[queue[q][k].wait] = "signaled"

ExecuteWork(q, k) ==
    LET op == queue[q][k] IN
    /\ WorkReady(q, k)
    /\ semaphore' = [s \in Semaphores |->
            IF s = op.wait THEN "idle"
            ELSE IF s = op.signal THEN "signaled" ELSE semaphore[s]]
    /\ queue' = [queue EXCEPT ![q] = RemoveAt(@, k)]
    /\ UNCHANGED <<hostVars, engine>>

\* The image replaces the one shown, which can then be acquired again.
ExecutePresent(q, k) ==
    LET op == queue[q][k] IN
    /\ IsPresent(op)
    /\ \A j \in 1..k - 1 : ~IsPresent(queue[q][j])
    /\ semaphore[op.wait] = "signaled"
    /\ semaphore' = [semaphore EXCEPT ![op.wait] = "idle"]
    /\ engine' = [engine EXCEPT ![op.handle] = [i \in Images |->
            IF i = op.image THEN "shown" ELSE IF @[i] = "shown" THEN "free" ELSE @[i]]]
    /\ queue' = [queue EXCEPT ![q] = RemoveAt(@, k)]
    /\ UNCHANGED hostVars

ExecuteSignal(q) ==
    /\ queue[q] # <<>>
    /\ Head(queue[q]) = Signal
    /\ queue' = [queue EXCEPT ![q] = Tail(@)]
    /\ UNCHANGED <<hostVars, engine, semaphore>>

Device ==
    \E q \in Queues :
        \/ \E k \in DOMAIN queue[q] : ExecuteWork(q, k) \/ ExecutePresent(q, k)
        \/ ExecuteSignal(q)
=============================================================================
