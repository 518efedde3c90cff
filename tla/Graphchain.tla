----------------------------- MODULE Graphchain -----------------------------
(***************************************************************************)
(* The frame loop on top of a swapchain.                                   *)
(*                                                                         *)
(* A graphchain rotates over frame slots, each with a command buffer, a    *)
(* fence and the semaphore its acquisitions signal.  An acquired image is  *)
(* tied to the slot that acquired it; presenting it submits the slot's     *)
(* command buffer, which waits for the slot's semaphore and signals the    *)
(* image's "rendered" semaphore, which the present waits for.  Nothing may *)
(* be used again before the device is done with it: slots wait for their   *)
(* fence, and, under the PresentWait strategy, for the present that was    *)
(* made from them; rendered semaphores are free again when their image is; *)
(* a recreation keeps those of the old swapchain until the next one.       *)
(*                                                                         *)
(* src/crates/vk-graph-window/src/graphchain.rs                            *)
(***************************************************************************)
EXTENDS Swapchain

CONSTANTS
    Capacity,           \* requested frame_capacity
    Mailbox,            \* whether the present mode may be MAILBOX or another
    MaxHeld,            \* images the client holds at most
    MaxInFlight,        \* what the client limits the frames in flight to
    MaxResets,          \* bound: recreations of the graphchain
    Clamped,            \* bound: handles that may not be created as asked for
    Finite              \* acquire_timeout is finite

ASSUME CapacityAssumption == Capacity \in Nat \ {0}
ASSUME ClientAssumption == MaxHeld \in Nat \ {0} /\ MaxInFlight \in Nat \ {0}
ASSUME ClampedAssumption == Clamped \subseteq Handles
ASSUME ResetsAssumption == MaxResets \in Nat
ASSUME ModeAssumption == Mailbox \subseteq BOOLEAN /\ Mailbox # {} /\ Finite \in BOOLEAN

MaxOf(m, n) == IF m < n THEN n ELSE m
Frames == 0..MaxOf(Capacity, Cardinality(Images)) - 1
Epochs == 0..MaxResets

Acquired(f) == <<"acquired", f>>
Rendered(e, i) == <<"rendered", e, i>>
AcquiredSemaphores == {Acquired(f) : f \in Frames}
GraphchainSemaphores ==
    AcquiredSemaphores \cup {Rendered(e, i) : e \in Epochs, i \in Images}

ASSUME SemaphoresAssumption == Semaphores = GraphchainSemaphores /\ Owners = Frames

VARIABLES
    pc,                 \* where the client's call is
    frameCount, frameIdx,
    fenceQueued,        \* per slot: its fence is queued
    imageFrames,        \* image_frames
    resetPending,       \* Graphchain.recreate_pending
    clamped,            \* the swapchain was created with other values than asked for
    strategy,           \* PresentRetirementStrategy
    pendingImages,      \* PresentWait.pending_images
    epoch,              \* names the semaphores of one reset
    retiredEpochs,      \* resets whose semaphores are in "retired"
    freedEpochs,        \* resets whose semaphores were destroyed
    held,               \* images the client holds
    lastQueue           \* last_present_queue_index

slotVars == <<frameCount, frameIdx, fenceQueued, imageFrames>>
strategyVars == <<strategy, pendingImages, epoch, retiredEpochs, freedEpochs>>
clientVars == <<pc, held, lastQueue, resetPending, clamped>>
graphchainVars == <<slotVars, strategyVars, clientVars>>
vars == <<swapchainVars, graphchainVars>>

TypeOK ==
    /\ SwapchainTypeOK
    /\ pc \in {"idle", "recreate", "slot", "limit", "signal", "dropping", "dropped"}
    /\ frameCount \in 0..Cardinality(Frames)
    /\ frameIdx \in Frames
    /\ fenceQueued \in [Frames -> BOOLEAN]
    /\ imageFrames \in [Images -> Frames]
    /\ resetPending \in BOOLEAN
    /\ clamped \in BOOLEAN
    /\ strategy \in {"PresentWait", "PerImageSemaphore"}
    /\ pendingImages \in [Frames -> Images \cup {None}]
    /\ epoch \in Epochs
    /\ retiredEpochs \subseteq Epochs
    /\ freedEpochs \subseteq Epochs
    /\ held \subseteq Images
    /\ lastQueue \in Queues

\* PresentRetirementStrategy::for_swapchain, for a present mode
ForSwapchain(mailbox) ==
    IF ~mailbox /\ usePresentWait THEN "PresentWait" ELSE "PerImageSemaphore"
Clamping(h) == {FALSE} \cup {h \in Clamped} \* whether handle h is clamped
NoImages == [f \in Frames |-> None]

\* Graphchain::new
Init ==
    /\ SwapchainInit
    /\ pc = "idle"
    /\ frameCount = Capacity
    /\ frameIdx = Capacity - 1
    /\ fenceQueued = [f \in Frames |-> FALSE]
    /\ imageFrames = [i \in Images |-> 0]
    /\ resetPending = FALSE
    /\ clamped \in Clamping(1)
    /\ strategy \in {ForSwapchain(m) : m \in Mailbox}
    /\ pendingImages = NoImages
    /\ epoch = 0
    /\ retiredEpochs = {}
    /\ freedEpochs = {}
    /\ held = {}
    /\ lastQueue \in Queues

-----------------------------------------------------------------------------
(* Graphchain::acquire_next_image: recreate if asked to, take the next     *)
(* slot, wait for whatever used it, acquire.                               *)

BeginAcquire ==
    /\ pc = "idle"
    /\ ~panicked
    /\ Cardinality(held) < MaxHeld
    /\ IF resetPending \/ recreatePending
       THEN /\ epoch < MaxResets
            /\ recreatePending => live < MaxHandles
            /\ pc' = "recreate"
       ELSE pc' = "slot"
    /\ UNCHANGED <<swapchainVars, slotVars, strategyVars, held, lastQueue,
                   resetPending, clamped>>

\* Mutant: a recreation does not wait for the slots.
FencesForgotten == TRUE

FencesWaited == \A f \in Frames : fenceQueued[f] => WorkDone(f)
PendingImages == {pendingImages[f] : f \in Frames} \ {None}

\* Mutant: the semaphores of the old swapchain are freed and not kept.
ResetStrategyAtOnce ==
    /\ freedEpochs' = freedEpochs \cup {epoch}
    /\ retiredEpochs' = {}
    /\ epoch' = epoch + 1
    /\ pendingImages' = NoImages

\* PresentRetirementStrategy::{reset, reselect}
ResetStrategy ==
    /\ freedEpochs' = freedEpochs \cup retiredEpochs
    /\ retiredEpochs' = {epoch}
    /\ epoch' = epoch + 1
    /\ pendingImages' = NoImages

Reset ==
    /\ pc = "recreate"
    /\ FencesWaited
    /\ PresentsWaited(live, PendingImages)
    /\ IF recreatePending
       THEN \E n \in ImageCounts : Recreate(n, PendingImages)
       ELSE /\ retirement' = [retirement EXCEPT ![live] = AfterWaits(@, PendingImages)]
            /\ UNCHANGED <<usePresentWait, live, retired, destroyed, taken,
                           recreatePending,
                           signalQueued, panicked, deviceVars>>
    /\ ResetStrategy
    /\ strategy' \in IF recreatePending THEN {ForSwapchain(m) : m \in Mailbox}
                     ELSE {strategy}
    /\ clamped' \in IF recreatePending THEN Clamping(live') ELSE {clamped}
    /\ fenceQueued' = [f \in Frames |-> FALSE]
    /\ imageFrames' = [i \in Images |-> 0]
    /\ resetPending' = FALSE
    /\ pc' = "slot"
    /\ UNCHANGED <<frameCount, frameIdx, held, lastQueue>>

\* Swapchain::recreate fails: the call returns, the next one tries again.
ResetFails ==
    /\ pc = "recreate"
    /\ FencesWaited
    /\ PresentsWaited(live, PendingImages)
    /\ recreatePending
    /\ RecreateFails(PendingImages)
    /\ pendingImages' = NoImages
    /\ fenceQueued' = [f \in Frames |-> FALSE]
    /\ pc' = "idle"
    /\ UNCHANGED <<frameCount, frameIdx, imageFrames, strategy, epoch,
                   retiredEpochs, freedEpochs, held, lastQueue, resetPending, clamped>>

NextFrame == (frameIdx + 1) % frameCount

\* Mutant: a slot is used again without a look at its fence.
SlotTaken(f) == TRUE

SlotFree(f) == fenceQueued[f] => WorkDone(f)

\* PresentWait::prepare_frame, and the present id it clears
Prepared(f) == PresentsWaited(live, {pendingImages[f]} \ {None})
PrepareFrame(f) ==
    /\ fenceQueued' = [fenceQueued EXCEPT ![f] = FALSE]
    /\ pendingImages' = [pendingImages EXCEPT ![f] = None]
    /\ retirement' = [retirement EXCEPT ![live] = AfterWaits(@, {pendingImages[f]} \ {None})]

\* Mutant: as many slots again as there are images.
AddFrames(n) == frameCount + n

\* ensure_frame_count, for n images
EnsureFrameCount(n) == MaxOf(frameCount, n)

AcquireImage(i, suboptimal) ==
    LET f == NextFrame IN
    /\ pc = "slot"
    /\ SlotFree(f)
    /\ Prepared(f)
    /\ PrepareFrame(f)
    /\ Acquire(Acquired(f), i, suboptimal)
    /\ frameIdx' = f
    /\ frameCount' = EnsureFrameCount(Cardinality({j \in Images : engine[live][j] # "none"}))
    /\ imageFrames' = [imageFrames EXCEPT ![i] = f]
    /\ resetPending' = (resetPending \/ suboptimal)
    /\ held' = held \cup {i}
    /\ pc' = "limit"
    /\ UNCHANGED <<strategy, epoch, retiredEpochs, freedEpochs, lastQueue,
                   clamped>>

\* NotReady, Timeout, or an out of date surface: no image.
AcquireNothing(outOfDate) ==
    LET f == NextFrame IN
    /\ pc = "slot"
    /\ outOfDate \/ Finite
    /\ SlotFree(f)
    /\ Prepared(f)
    /\ PrepareFrame(f)
    /\ AcquireFails(outOfDate)
    /\ frameIdx' = f
    /\ pc' = "idle"
    /\ UNCHANGED <<frameCount, imageFrames, strategy, epoch, retiredEpochs,
                   freedEpochs, held, lastQueue, resetPending, clamped>>

-----------------------------------------------------------------------------
(* Graphchain::present_image: submit the slot's command buffer, present.   *)

\* Mutant: the semaphore belongs to the slot and not to the image.
RenderedOfSlot(i) == Rendered(epoch, imageFrames[i])

\* rendered_semaphore
RenderedSemaphore(i) == Rendered(epoch, i)

\* Mutant: the command buffer does not signal the rendered semaphore.
SubmitUninitialized(q, i) ==
    LET f == imageFrames[i]
    IN  [queue EXCEPT ![q] = Append(@, Work(f, Acquired(f), None))]

\* The queues once the command buffer of i's slot is submitted.
SubmitFrame(q, i) ==
    LET f == imageFrames[i]
    IN  [queue EXCEPT ![q] = Append(@, Work(f, Acquired(f), RenderedSemaphore(i)))]

\* The part of present_image that does not depend on the present's result.
PresentFrame(i) ==
    /\ pc = "idle"
    /\ ~panicked
    /\ i \in held
    /\ held' = held \ {i}
    /\ fenceQueued' = [fenceQueued EXCEPT ![imageFrames[i]] = TRUE]
    /\ UNCHANGED <<frameCount, frameIdx, imageFrames, strategy, epoch,
                   retiredEpochs, freedEpochs, clamped>>

PresentImage(i, q, suboptimal) ==
    /\ PresentFrame(i)
    /\ PresentQueued(SubmitFrame(q, i), q, i, RenderedSemaphore(i), suboptimal)
    /\ resetPending' = (resetPending \/ suboptimal)
    /\ lastQueue' = q
    /\ pendingImages' = IF strategy = "PresentWait"
                        THEN [pendingImages EXCEPT ![imageFrames[i]] = i]
                        ELSE pendingImages
    /\ pc' = "signal"

\* The surface is out of date: the present is not queued.
PresentImageFails(i, q) ==
    /\ PresentFrame(i)
    /\ PresentRejected(SubmitFrame(q, i), i, RenderedSemaphore(i))
    /\ resetPending' = TRUE
    /\ UNCHANGED <<lastQueue, pendingImages, pc>>

SubmitPresentSignal ==
    /\ pc = "signal"
    /\ SubmitSignal(lastQueue)
    /\ pc' = "idle"
    /\ UNCHANGED <<slotVars, strategyVars, held, lastQueue, resetPending,
                   clamped>>

-----------------------------------------------------------------------------
(* The other calls of a client.                                            *)

\* Mutant: one frame fewer is waited for.
RecentFrames(current, count, maxInFlight) ==
    {(current + count - age) % count : age \in maxInFlight + 1..count - 1}

\* Graphchain::older_frame_indices
OlderFrames(current, count, maxInFlight) ==
    {(current + count - age) % count : age \in maxInFlight..count - 1}

\* Graphchain::wait_for_in_flight_limit, after an acquisition
LimitInFlight ==
    /\ pc = "limit"
    /\ \A f \in OlderFrames(frameIdx, frameCount, MaxInFlight) : SlotFree(f)
    /\ pc' = "idle"
    /\ UNCHANGED <<swapchainVars, slotVars, strategyVars, held, lastQueue,
                   resetPending, clamped>>

\* Graphchain::set_info.  What the graphchain last asked for and what its
\* swapchain keeps as asked for differ where the surface did not allow it.
SetGraphchainInfo ==
    /\ pc = "idle"
    /\ ~panicked
    /\ \/ /\ SetInfo(clamped)             \* what was asked for before
          /\ resetPending' = resetPending
       \/ /\ clamped                      \* what was made of it
          /\ SetInfo(FALSE)
          /\ resetPending' = TRUE
       \/ /\ SetInfo(TRUE)                \* anything else
          /\ resetPending' = TRUE
    /\ clamped' = FALSE
    /\ UNCHANGED <<pc, slotVars, strategyVars, held, lastQueue>>

\* Graphchain::drop, then the drop of its swapchain
DropGraphchain ==
    /\ pc = "idle"
    /\ ~panicked
    /\ FencesWaited
    /\ PresentsWaited(live, PendingImages)
    /\ queue[lastQueue] = <<>>
    /\ retirement' = [retirement EXCEPT ![live] = AfterWaits(@, PendingImages)]
    /\ freedEpochs' = freedEpochs \cup retiredEpochs \cup {epoch}
    /\ retiredEpochs' = {}
    /\ pendingImages' = NoImages
    /\ pc' = "dropping"
    /\ UNCHANGED <<usePresentWait, live, retired, destroyed, taken,
                   recreatePending, signalQueued,
                   panicked, deviceVars, slotVars, strategy, epoch, held,
                   lastQueue, resetPending, clamped>>

FinishDrop ==
    /\ pc = "dropping"
    /\ DropSwapchain
    /\ pc' = "dropped"
    /\ UNCHANGED <<deviceVars, slotVars, strategyVars, held, lastQueue,
                   resetPending, clamped>>

-----------------------------------------------------------------------------
Continue ==
    \/ Reset
    \/ ResetFails
    \/ \E i \in Images, b \in BOOLEAN : AcquireImage(i, b)
    \/ \E b \in BOOLEAN : AcquireNothing(b)
    \/ SubmitPresentSignal
    \/ LimitInFlight
    \/ FinishDrop

Call ==
    \/ BeginAcquire
    \/ \E i \in Images, q \in Queues :
        PresentImageFails(i, q) \/ \E b \in BOOLEAN : PresentImage(i, q, b)
    \/ SetGraphchainInfo
    \/ DropGraphchain

DeviceStep == Device /\ UNCHANGED graphchainVars

Next == Continue \/ Call \/ DeviceStep

\* A call runs on, and each queue executes whatever it can: work, presents
\* and signals on their own, for a present may wait while work overtakes it.
Fairness ==
    /\ WF_vars(Continue)
    /\ \A q \in Queues :
        /\ WF_vars((\E k \in DOMAIN queue[q] : ExecuteWork(q, k)) /\ UNCHANGED graphchainVars)
        /\ WF_vars((\E k \in DOMAIN queue[q] : ExecutePresent(q, k)) /\ UNCHANGED graphchainVars)
        /\ WF_vars(ExecuteSignal(q) /\ UNCHANGED graphchainVars)

Spec == Init /\ [][Next]_vars /\ Fairness

-----------------------------------------------------------------------------
(* Properties.                                                             *)

Waits(op, s) == op.kind # "signal" /\ op.wait = s
Signals(op, s) == op.kind = "work" /\ op.signal = s

\* An acquisition is given a semaphore that is not signaled and that nothing
\* will wait for: the fence of the slot covers the work that waited for the
\* slot's last acquisition, or that acquisition did not happen.
AcquiresWithIdleSemaphore ==
    [][\A i \in taken' \ taken :
        LET s == Acquired(imageFrames'[i])
        IN  semaphore[s] = "idle" /\ \A op \in Unfinished : ~Waits(op, s)]_vars

\* When a command buffer finishes, its rendered semaphore is not signaled: the
\* present that waited for it before is over, because the image was acquired
\* again or the semaphore is a new one.
RenderedNotSignaledTwice ==
    \A q \in Queues : \A k \in DOMAIN queue[q] :
        WorkReady(q, k) /\ queue[q][k].signal # None
            => semaphore[queue[q][k].signal] = "idle"

\* A semaphore or a swapchain handle is destroyed only after every submission
\* and present that names it: retired semaphores wait for the next recreation,
\* retired handles for their presents.
NothingDestroyedInUse ==
    /\ \A op \in Unfinished :
        /\ \A e \in freedEpochs, i \in Images :
                ~Waits(op, Rendered(e, i)) /\ ~Signals(op, Rendered(e, i))
        /\ pc \in {"dropping", "dropped"} => \A f \in Frames : ~Waits(op, Acquired(f))
    /\ \A h \in destroyed, i \in Images : ~Presenting(h, i)

\* A slot's command buffer is recorded again only after its last submission.
CommandBufferNotPending ==
    \A p, q \in Queues : \A j \in DOMAIN queue[p], k \in DOMAIN queue[q] :
        queue[p][j].kind = "work" /\ queue[q][k].kind = "work"
            /\ queue[p][j].owner = queue[q][k].owner => p = q /\ j = k

\* With the submission to come, at most so many are unfinished once
\* wait_for_in_flight_limit returns, whatever slots failed acquisitions have
\* skipped and whether frames have been added.
InFlightLimited ==
    [][pc = "limit" /\ pc' = "idle" =>
        Cardinality({f \in Frames : ~WorkDone(f)}) < MaxInFlight]_vars

\* expect("expected available image") holds: over acquisitions, rejected presents and
\* recreations the engine never returns an image whose slot in the swapchain is empty.
\* This is about release builds: clear_present_id's debug_assert! does fail, after a
\* rejected present without present wait (DebugAssertions = TRUE).
NoAssertionFails == ~panicked

\* Whatever call has begun returns, and a drop ends: every wait is for work
\* that has been submitted, never for a present that nothing signals.
CallsReturn == pc \notin {"idle", "dropped"} ~> pc \in {"idle", "dropped"}
=============================================================================
