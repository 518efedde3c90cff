---------------------------- MODULE FenceCleanup ----------------------------
(***************************************************************************)
(* Fences, the payloads that ride on them, and the background drop worker. *)
(*                                                                         *)
(* A queue submission hands its fence a list of payloads: everything that  *)
(* must stay alive until the GPU is done.  When a thread observes that the *)
(* fence has signaled it runs the completion hook of every payload and     *)
(* then disposes of them, either on the spot or, while at least one        *)
(* BackgroundFenceCleanupGuard lives, by passing them through a bounded    *)
(* channel to a worker thread.  Guards come and go on any thread, so the   *)
(* worker may be detached, and a newer one spawned, at any moment of an    *)
(* observation.                                                            *)
(*                                                                         *)
(* src/src/driver/fence.rs, src/src/driver/device.rs                       *)
(***************************************************************************)
EXTENDS Integers, Sequences, FiniteSets

CONSTANTS
    Callers,            \* threads that own fences and guards
    Fences,             \* every fence is created once, in Init
    Payloads,           \* every payload is attached at most once
    Capacity,           \* DROP_WORKER_QUEUE_CAPACITY
    MaxGenerations,     \* bound: workers ever spawned
    MaxGuards,          \* bound: guards alive at the same time
    Faults,             \* what may go wrong, see FaultKinds
    Nil                 \* no fence, no caller

ASSUME CapacityAssumption == Capacity \in Nat \ {0}
ASSUME GenerationsAssumption == MaxGenerations \in Nat /\ MaxGuards \in Nat
ASSUME NilAssumption == Nil \notin Callers \cup Fences

\* "reset": a caller resets a fence whose work still runs.  "panic": a completion
\* hook or a destructor panics.  "lost": the device is lost.  "wait": vkWaitForFences
\* fails on a device that is not, as it does when it runs out of memory.
FaultKinds == {"reset", "panic", "lost", "wait"}
Panics == IF "panic" \in Faults THEN BOOLEAN ELSE {FALSE}

ASSUME FaultsAssumption == Faults \subseteq FaultKinds

None == 0                           \* Option::None for a worker
Generation == 1..MaxGenerations     \* the n-th spawned worker

\* What a caller wants from the fence it is observing; wait is like status.
Operation == {"status", "reset", "drop"}

\* DropWorkerMessage: Drop(batch) has no sender to answer, Barrier has no batch.
Message == [batch : SUBSET Payloads, replyTo : Callers \cup {Nil}]
DropMessage(batch) == [batch |-> batch, replyTo |-> Nil]
Barrier(c) == [batch |-> {}, replyTo |-> c]

VARIABLES
    \* DeviceInner.fence_cleanup (behind its mutex) and the lock-free flag
    enabled, worker, guardCount, spawned,
    \* per worker: channel, batch being dropped, had_failure, thread has ended
    queue, dropping, hadFailure, exited,
    \* per fence
    gpu, queued, live, payloads,
    \* the device has been lost
    lost,
    \* per caller
    pc, fence, operation, unwinding, batch, handle, guards,
    \* history: payloads handed to a fence, whose GPU work finished, whose hook
    \* was invoked, whose hook may be forgone, that went with a fence whose wait
    \* failed, that were dropped; of these, the ones that panicked on a worker and
    \* the ones reported to a waiter; the payloads that a wait in progress is about
    attached, completed, hooked, excused, unwaited, dropped, failed, reported, covers

deviceVars == <<enabled, worker, guardCount, spawned, guards>>
workerVars == <<queue, dropping, hadFailure, exited>>
fenceVars  == <<gpu, queued, live, payloads, lost>>
callerVars == <<pc, fence, operation, unwinding, batch, handle>>
lifetime   == <<attached, completed, hooked, excused, unwaited, dropped>>
waitVars   == <<failed, reported, covers>>
vars == <<deviceVars, workerVars, fenceVars, callerVars, lifetime, waitVars>>

TypeOK ==
    /\ enabled \in BOOLEAN
    /\ worker \in Generation \cup {None}
    /\ guardCount \in Nat
    /\ spawned \in 0..MaxGenerations
    /\ guards \in [Callers -> Nat]
    /\ queue \in [Generation -> Seq(Message)]
    /\ dropping \in [Generation -> SUBSET Payloads]
    /\ hadFailure \in [Generation -> BOOLEAN]
    /\ exited \in [Generation -> BOOLEAN]
    /\ gpu \in [Fences -> {"unsignaled", "pending", "signaled"}]
    /\ queued \in [Fences -> BOOLEAN]
    /\ live \in [Fences -> BOOLEAN]
    /\ payloads \in [Fences -> SUBSET Payloads]
    /\ lost \in BOOLEAN
    /\ pc \in [Callers -> {"idle", "enqueue", "handle", "send", "finish",
                           "barrier", "reply"}]
    /\ fence \in [Callers -> Fences \cup {Nil}]
    /\ operation \in [Callers -> Operation]
    /\ unwinding \in [Callers -> BOOLEAN]
    /\ batch \in [Callers -> SUBSET Payloads]
    /\ handle \in [Callers -> Generation \cup {None}]
    /\ attached \in SUBSET Payloads
    /\ completed \in SUBSET Payloads
    /\ hooked \in SUBSET Payloads
    /\ excused \in SUBSET Payloads
    /\ unwaited \in SUBSET Payloads
    /\ dropped \in SUBSET Payloads
    /\ failed \in [Generation -> SUBSET Payloads]
    /\ reported \in SUBSET Payloads
    /\ covers \in [Callers -> SUBSET Payloads]

-----------------------------------------------------------------------------
(* Initial state: Fence::create(device, signaled) for every fence.         *)

Init ==
    /\ enabled = FALSE
    /\ worker = None
    /\ guardCount = 0
    /\ spawned = 0
    /\ guards = [c \in Callers |-> 0]
    /\ queue = [w \in Generation |-> <<>>]
    /\ dropping = [w \in Generation |-> {}]
    /\ hadFailure = [w \in Generation |-> FALSE]
    /\ exited = [w \in Generation |-> FALSE]
    /\ gpu \in [Fences -> {"unsignaled", "signaled"}]
    /\ queued = [f \in Fences |-> gpu[f] = "signaled"]
    /\ live = [f \in Fences |-> TRUE]
    /\ payloads = [f \in Fences |-> {}]
    /\ lost = FALSE
    /\ pc = [c \in Callers |-> "idle"]
    /\ fence = [c \in Callers |-> Nil]
    /\ operation = [c \in Callers |-> "status"]
    /\ unwinding = [c \in Callers |-> FALSE]
    /\ batch = [c \in Callers |-> {}]
    /\ handle = [c \in Callers |-> None]
    /\ attached = {}
    /\ completed = {}
    /\ hooked = {}
    /\ excused = {}
    /\ unwaited = {}
    /\ dropped = {}
    /\ failed = [w \in Generation |-> {}]
    /\ reported = {}
    /\ covers = [c \in Callers |-> {}]

-----------------------------------------------------------------------------
(* Guards.  Each of these runs under the fence_cleanup mutex.              *)

\* Device::enable_background_fence_cleanup
Enable(c) ==
    /\ pc[c] = "idle"
    /\ guardCount < MaxGuards
    /\ IF worker = None
         THEN /\ spawned < MaxGenerations
              /\ spawned' = spawned + 1
              /\ worker' = spawned + 1
              /\ enabled' = TRUE
         ELSE UNCHANGED <<spawned, worker, enabled>>
    /\ guardCount' = guardCount + 1
    /\ guards' = [guards EXCEPT ![c] = @ + 1]
    /\ UNCHANGED <<workerVars, fenceVars, callerVars, lifetime, waitVars>>

\* Mutant: a guard can be dropped twice.
ReleaseTwice(c) ==
    /\ pc[c] = "idle"
    /\ guardCount > 0
    /\ guards' = [guards EXCEPT ![c] = @ - 1]
    /\ guardCount' = guardCount - 1
    /\ IF guardCount = 1
         THEN enabled' = FALSE /\ worker' = None
         ELSE UNCHANGED <<enabled, worker>>
    /\ UNCHANGED <<spawned, workerVars, fenceVars, callerVars, lifetime, waitVars>>

\* Mutant: the flag is not cleared with the worker.
ReleaseKeepsFlag(c) ==
    /\ pc[c] = "idle"
    /\ guards[c] > 0
    /\ guards' = [guards EXCEPT ![c] = @ - 1]
    /\ guardCount' = guardCount - 1
    /\ worker' = IF guardCount = 1 THEN None ELSE worker
    /\ UNCHANGED <<enabled, spawned, workerVars, fenceVars, callerVars, lifetime,
                   waitVars>>

\* Mutant: a thread's last guard takes the worker from the other threads.
ReleaseOwnWorker(c) ==
    /\ pc[c] = "idle"
    /\ guards[c] > 0
    /\ guards' = [guards EXCEPT ![c] = @ - 1]
    /\ guardCount' = guardCount - 1
    /\ IF guards[c] = 1
         THEN enabled' = FALSE /\ worker' = None
         ELSE UNCHANGED <<enabled, worker>>
    /\ UNCHANGED <<spawned, workerVars, fenceVars, callerVars, lifetime, waitVars>>

\* BackgroundFenceCleanupGuard::drop, Device::release_background_fence_cleanup:
\* the last guard closes the device's end of the channel and detaches the thread.
Release(c) ==
    /\ pc[c] = "idle"
    /\ guards[c] > 0
    /\ guards' = [guards EXCEPT ![c] = @ - 1]
    /\ guardCount' = guardCount - 1
    /\ IF guardCount = 1
         THEN enabled' = FALSE /\ worker' = None
         ELSE UNCHANGED <<enabled, worker>>
    /\ UNCHANGED <<spawned, workerVars, fenceVars, callerVars, lifetime, waitVars>>

-----------------------------------------------------------------------------
(* BackgroundFenceCleanupGuard::wait_for_pending_cleanup borrows a guard    *)
(* for its whole duration.                                                  *)

QueuedPayloads(w) ==
    dropping[w] \cup UNION {queue[w][i].batch : i \in DOMAIN queue[w]}

StartWait(c) ==
    /\ pc[c] = "idle"
    /\ guards[c] > 0
    /\ handle' = [handle EXCEPT ![c] = worker]
    /\ pc' = [pc EXCEPT ![c] = IF worker = None THEN "idle" ELSE "barrier"]
    /\ covers' = [covers EXCEPT
                    ![c] = IF worker = None THEN {} ELSE QueuedPayloads(worker)]
    /\ UNCHANGED <<deviceVars, workerVars, fenceVars, lifetime,
                   fence, operation, unwinding, batch, failed, reported>>

\* SyncSender::send blocks while the channel is full.
SendBarrier(c) ==
    /\ pc[c] = "barrier"
    /\ Len(queue[handle[c]]) < Capacity
    /\ queue' = [queue EXCEPT ![handle[c]] = Append(@, Barrier(c))]
    /\ pc' = [pc EXCEPT ![c] = "reply"]
    /\ UNCHANGED <<deviceVars, dropping, hadFailure, exited, fenceVars, lifetime,
                   waitVars, fence, operation, unwinding, batch, handle>>

-----------------------------------------------------------------------------
(* The worker thread, run_drop_worker.                                     *)

Waiting(w) == dropping[w] = {} /\ queue[w] # <<>>

\* DropWorkerMessage::Drop: the batch leaves the channel ...
Receive(w) ==
    /\ Waiting(w)
    /\ Head(queue[w]).replyTo = Nil
    /\ dropping' = [dropping EXCEPT ![w] = Head(queue[w]).batch]
    /\ queue' = [queue EXCEPT ![w] = Tail(@)]
    /\ UNCHANGED <<deviceVars, hadFailure, exited, fenceVars, callerVars,
                   lifetime, waitVars>>

\* ... and drop_fence_payloads drops it one payload at a time; a destructor that
\* panics is caught and remembered.
DropNext(w) ==
    \E p \in dropping[w], panics \in Panics :
        /\ dropping' = [dropping EXCEPT ![w] = @ \ {p}]
        /\ dropped' = dropped \cup {p}
        /\ hadFailure' = [hadFailure EXCEPT ![w] = @ \/ panics]
        /\ failed' = [failed EXCEPT ![w] = IF panics THEN @ \cup {p} ELSE @]
        /\ UNCHANGED <<deviceVars, queue, exited, fenceVars, callerVars, attached,
                       completed, hooked, excused, unwaited, reported, covers>>

\* Mutant: a barrier is answered while the batch before it is being dropped.
AnswerEarly(w) ==
    /\ queue[w] # <<>>
    /\ LET c == Head(queue[w]).replyTo
       IN /\ c # Nil
          /\ pc' = [pc EXCEPT ![c] = "idle"]
          /\ handle' = [handle EXCEPT ![c] = None]
          /\ covers' = [covers EXCEPT ![c] = {}]
    /\ queue' = [queue EXCEPT ![w] = Tail(@)]
    /\ hadFailure' = [hadFailure EXCEPT ![w] = FALSE]
    /\ reported' = IF hadFailure[w] THEN reported \cup failed[w] ELSE reported
    /\ UNCHANGED <<deviceVars, dropping, exited, fenceVars, lifetime, failed,
                   fence, operation, unwinding, batch>>

\* Mutant: the reply is not sent when nothing has failed.
AnswerFailuresOnly(w) ==
    /\ Waiting(w)
    /\ LET c == Head(queue[w]).replyTo
       IN /\ c # Nil
          /\ IF hadFailure[w]
               THEN /\ pc' = [pc EXCEPT ![c] = "idle"]
                    /\ handle' = [handle EXCEPT ![c] = None]
                    /\ covers' = [covers EXCEPT ![c] = {}]
               ELSE UNCHANGED <<pc, handle, covers>>
    /\ queue' = [queue EXCEPT ![w] = Tail(@)]
    /\ hadFailure' = [hadFailure EXCEPT ![w] = FALSE]
    /\ reported' = IF hadFailure[w] THEN reported \cup failed[w] ELSE reported
    /\ UNCHANGED <<deviceVars, dropping, exited, fenceVars, lifetime, failed,
                   fence, operation, unwinding, batch>>

\* DropWorkerMessage::Barrier: the rendezvous reply releases the waiter.
Answer(w) ==
    /\ Waiting(w)
    /\ LET c == Head(queue[w]).replyTo
       IN /\ c # Nil
          /\ pc' = [pc EXCEPT ![c] = "idle"]
          /\ handle' = [handle EXCEPT ![c] = None]
          /\ covers' = [covers EXCEPT ![c] = {}]
    /\ queue' = [queue EXCEPT ![w] = Tail(@)]
    /\ hadFailure' = [hadFailure EXCEPT ![w] = FALSE]
    /\ reported' = IF hadFailure[w] THEN reported \cup failed[w] ELSE reported
    /\ UNCHANGED <<deviceVars, dropping, exited, fenceVars, lifetime, failed,
                   fence, operation, unwinding, batch>>

\* recv fails once the channel is empty and its last sender is gone.
Exit(w) ==
    /\ w <= spawned /\ ~exited[w]
    /\ dropping[w] = {} /\ queue[w] = <<>>
    /\ worker # w /\ \A c \in Callers : handle[c] # w
    /\ exited' = [exited EXCEPT ![w] = TRUE]
    /\ UNCHANGED <<deviceVars, queue, dropping, hadFailure, fenceVars, callerVars,
                   lifetime, waitVars>>

-----------------------------------------------------------------------------
(* The GPU and the submitting side.                                        *)

\* A Fence is Send, not Sync: one thread at a time operates on it.
Free(f) == live[f] /\ \A c \in Callers : fence[c] # f

\* RecordedSubmission::queue_submit: mark_queued, then drop_fence_droppable.
Submit(f, S) ==
    /\ Free(f) /\ ~lost
    /\ gpu[f] = "unsignaled"
    /\ gpu' = [gpu EXCEPT ![f] = "pending"]
    /\ queued' = [queued EXCEPT ![f] = TRUE]
    /\ payloads' = [payloads EXCEPT ![f] = @ \cup S]
    /\ attached' = attached \cup S
    /\ UNCHANGED <<deviceVars, workerVars, callerVars, live, lost, completed,
                   hooked, excused, unwaited, dropped, waitVars>>

Complete(f) ==
    /\ gpu[f] = "pending" /\ ~lost
    /\ gpu' = [gpu EXCEPT ![f] = "signaled"]
    /\ completed' = completed \cup payloads[f]
    /\ UNCHANGED <<deviceVars, workerVars, callerVars, queued, live, payloads, lost,
                   attached, hooked, excused, unwaited, dropped, waitVars>>

LoseDevice ==
    /\ "lost" \in Faults /\ ~lost
    /\ lost' = TRUE
    /\ excused' = excused \cup UNION {payloads[f] : f \in Fences}
    /\ UNCHANGED <<deviceVars, workerVars, callerVars, gpu, queued, live, payloads,
                   attached, completed, hooked, unwaited, dropped, waitVars>>

-----------------------------------------------------------------------------
(* Observing a signaled fence: Fence::status, wait, reset and drop all end  *)
(* in Fence::drop_signaled.                                                 *)

Observe(c, f, op) ==
    /\ pc[c] = "idle" /\ Free(f)
    /\ gpu[f] = "signaled"
    /\ op = "drop" => queued[f]
    /\ fence' = [fence EXCEPT ![c] = f]
    /\ operation' = [operation EXCEPT ![c] = op]

\* Without background cleanup: run every hook, then Vec::clear.  A destructor
\* that panics does not keep the rest from being dropped, but unwinds the caller.
ObserveSync(c, f, op) ==
    /\ Observe(c, f, op)
    /\ ~enabled
    /\ hooked' = hooked \cup payloads[f]
    /\ dropped' = dropped \cup payloads[f]
    /\ payloads' = [payloads EXCEPT ![f] = {}]
    /\ \E panics \in Panics :
          /\ panics => payloads[f] # {}
          /\ unwinding' = [unwinding EXCEPT ![c] = panics]
    /\ pc' = [pc EXCEPT ![c] = "finish"]
    /\ UNCHANGED <<deviceVars, workerVars, gpu, queued, live, lost, batch, handle,
                   attached, completed, excused, unwaited, waitVars>>

\* A hook that panics skips the hooks after it and leaves every payload where it
\* is.  Out of Fence::drop the unwinding takes the payloads with it.
ObserveSyncPanics(c, f, op) ==
    /\ Observe(c, f, op)
    /\ ~enabled
    /\ "panic" \in Faults
    /\ \E run \in SUBSET payloads[f] \ {{}} : hooked' = hooked \cup run
    /\ excused' = IF op = "drop" THEN excused \cup payloads[f] ELSE excused
    /\ unwinding' = [unwinding EXCEPT ![c] = TRUE]
    /\ pc' = [pc EXCEPT ![c] = "finish"]
    /\ UNCHANGED <<deviceVars, workerVars, gpu, queued, live, payloads, lost, batch,
                   handle, attached, completed, unwaited, dropped, waitVars>>

\* Mutant: as without background cleanup, a panic skips the remaining hooks.
ObserveBackgroundStops(c, f, op) ==
    /\ Observe(c, f, op)
    /\ enabled
    /\ batch' = [batch EXCEPT ![c] = payloads[f]]
    /\ payloads' = [payloads EXCEPT ![f] = {}]
    /\ \E panics \in Panics :
          /\ panics => payloads[f] # {}
          /\ unwinding' = [unwinding EXCEPT ![c] = panics]
          /\ \E run \in SUBSET payloads[f] :
                /\ panics \/ run = payloads[f]
                /\ hooked' = hooked \cup run
    /\ pc' = [pc EXCEPT ![c] = IF payloads[f] = {} THEN "finish" ELSE "enqueue"]
    /\ UNCHANGED <<deviceVars, workerVars, gpu, queued, live, lost, handle,
                   attached, completed, excused, unwaited, dropped, waitVars>>

\* With background cleanup: take the payloads and run every hook, on this thread,
\* whatever the ones before it did; the first panic is resumed at the end.
ObserveBackground(c, f, op) ==
    /\ Observe(c, f, op)
    /\ enabled
    /\ batch' = [batch EXCEPT ![c] = payloads[f]]
    /\ payloads' = [payloads EXCEPT ![f] = {}]
    /\ hooked' = hooked \cup payloads[f]
    /\ \E panics \in Panics :
          /\ panics => payloads[f] # {}
          /\ unwinding' = [unwinding EXCEPT ![c] = panics]
    /\ pc' = [pc EXCEPT ![c] = IF payloads[f] = {} THEN "finish" ELSE "enqueue"]
    /\ UNCHANGED <<deviceVars, workerVars, gpu, queued, live, lost, handle,
                   attached, completed, excused, unwaited, dropped, waitVars>>

\* Device::try_enqueue_fence_cleanup returned the payloads: drop them here.
DropHere(c) ==
    /\ dropped' = dropped \cup batch[c]
    /\ batch' = [batch EXCEPT ![c] = {}]
    /\ handle' = [handle EXCEPT ![c] = None]
    /\ pc' = [pc EXCEPT ![c] = "finish"]

\* The flag is read a second time, without the lock.
CheckEnabled(c) ==
    /\ pc[c] = "enqueue"
    /\ IF enabled
         THEN /\ pc' = [pc EXCEPT ![c] = "handle"]
              /\ UNCHANGED <<dropped, batch, handle>>
         ELSE DropHere(c)
    /\ UNCHANGED <<deviceVars, workerVars, fenceVars, fence, operation, unwinding,
                   attached, completed, hooked, excused, unwaited, waitVars>>

\* Device::fence_cleanup_worker_handle, under the lock.
CloneHandle(c) ==
    /\ pc[c] = "handle"
    /\ IF worker # None
         THEN /\ handle' = [handle EXCEPT ![c] = worker]
              /\ pc' = [pc EXCEPT ![c] = "send"]
              /\ UNCHANGED <<dropped, batch>>
         ELSE DropHere(c)
    /\ UNCHANGED <<deviceVars, workerVars, fenceVars, fence, operation, unwinding,
                   attached, completed, hooked, excused, unwaited, waitVars>>

\* Mutant: a batch that does not fit in the channel is forgotten.
TrySendForgets(c) ==
    /\ pc[c] = "send"
    /\ LET w == handle[c] IN
         queue' = IF Len(queue[w]) < Capacity /\ ~exited[w]
                    THEN [queue EXCEPT ![w] = Append(@, DropMessage(batch[c]))]
                    ELSE queue
    /\ batch' = [batch EXCEPT ![c] = {}]
    /\ handle' = [handle EXCEPT ![c] = None]
    /\ pc' = [pc EXCEPT ![c] = "finish"]
    /\ UNCHANGED <<deviceVars, dropping, hadFailure, exited, fenceVars, fence,
                   operation, unwinding, attached, completed, hooked, excused,
                   unwaited, dropped, waitVars>>

\* Mutant: the thread keeps its end of the channel for the next time.
TrySendKeepsHandle(c) ==
    /\ pc[c] = "send"
    /\ LET w == handle[c] IN
         IF Len(queue[w]) < Capacity /\ ~exited[w]
           THEN /\ queue' = [queue EXCEPT ![w] = Append(@, DropMessage(batch[c]))]
                /\ batch' = [batch EXCEPT ![c] = {}]
                /\ pc' = [pc EXCEPT ![c] = "finish"]
                /\ UNCHANGED <<dropped, handle>>
           ELSE DropHere(c) /\ UNCHANGED queue
    /\ UNCHANGED <<deviceVars, dropping, hadFailure, exited, fenceVars, fence,
                   operation, unwinding, attached, completed, hooked, excused,
                   unwaited, waitVars>>

\* DropWorkerHandle::try_enqueue: full and disconnected both hand the batch back.
TrySend(c) ==
    /\ pc[c] = "send"
    /\ LET w == handle[c] IN
         IF Len(queue[w]) < Capacity /\ ~exited[w]
           THEN /\ queue' = [queue EXCEPT ![w] = Append(@, DropMessage(batch[c]))]
                /\ batch' = [batch EXCEPT ![c] = {}]
                /\ handle' = [handle EXCEPT ![c] = None]
                /\ pc' = [pc EXCEPT ![c] = "finish"]
                /\ UNCHANGED dropped
           ELSE DropHere(c) /\ UNCHANGED queue
    /\ UNCHANGED <<deviceVars, dropping, hadFailure, exited, fenceVars, fence,
                   operation, unwinding, attached, completed, hooked, excused,
                   unwaited, waitVars>>

Done(c) ==
    /\ pc[c] = "finish"
    /\ pc' = [pc EXCEPT ![c] = "idle"]
    /\ fence' = [fence EXCEPT ![c] = Nil]
    /\ operation' = [operation EXCEPT ![c] = "status"]
    /\ unwinding' = [unwinding EXCEPT ![c] = FALSE]
    /\ UNCHANGED <<deviceVars, workerVars, batch, handle, lost, attached, completed,
                   hooked, excused, unwaited, waitVars>>

\* status and wait return, a panic leaves status, wait or reset, or
\* vkResetFences fails.
Return(c) ==
    /\ operation[c] # "drop"
    /\ Done(c)
    /\ UNCHANGED <<gpu, queued, live, payloads, dropped>>

FinishReset(c) ==
    /\ operation[c] = "reset" /\ ~unwinding[c]
    /\ Done(c)
    /\ gpu' = [gpu EXCEPT ![fence[c]] = "unsignaled"]
    /\ queued' = [queued EXCEPT ![fence[c]] = FALSE]
    /\ UNCHANGED <<live, payloads, dropped>>

\* The fence's fields go after Fence::drop, whether it returned or unwound.
FinishDrop(c) ==
    /\ operation[c] = "drop"
    /\ Done(c)
    /\ live' = [live EXCEPT ![fence[c]] = FALSE]
    /\ dropped' = dropped \cup payloads[fence[c]]
    /\ payloads' = [payloads EXCEPT ![fence[c]] = {}]
    /\ UNCHANGED <<gpu, queued>>

-----------------------------------------------------------------------------
(* Operations on a fence that is not observed signaled.                    *)

\* Fence::reset of a fence whose status is false skips vkResetFences, not the rest.
ResetPending(f) ==
    /\ "reset" \in Faults
    /\ Free(f)
    /\ gpu[f] = "pending"
    /\ queued' = [queued EXCEPT ![f] = FALSE]
    /\ excused' = excused \cup payloads[f]
    /\ UNCHANGED <<deviceVars, workerVars, callerVars, gpu, live, payloads, lost,
                   attached, completed, hooked, unwaited, dropped, waitVars>>

\* Mutant: dropping a fence does not wait for it.
DropWithoutWaiting(f) ==
    /\ Free(f)
    /\ live' = [live EXCEPT ![f] = FALSE]
    /\ dropped' = dropped \cup payloads[f]
    /\ payloads' = [payloads EXCEPT ![f] = {}]
    /\ UNCHANGED <<deviceVars, workerVars, callerVars, gpu, queued, lost, attached,
                   completed, hooked, excused, unwaited, waitVars>>

\* Fence::drop when nothing is queued, or when the wait fails on a lost device:
\* no hook runs and the payload list is dropped with the fence.
DropUnobserved(f) ==
    /\ Free(f)
    /\ ~queued[f] \/ lost
    /\ live' = [live EXCEPT ![f] = FALSE]
    /\ dropped' = dropped \cup payloads[f]
    /\ payloads' = [payloads EXCEPT ![f] = {}]
    /\ UNCHANGED <<deviceVars, workerVars, callerVars, gpu, queued, lost, attached,
                   completed, hooked, excused, unwaited, waitVars>>

\* Fence::drop returns when its wait fails, while the work may still be running on a
\* device that is not lost, and the payload list is dropped with the fence.  (Other
\* calls that fail to wait, or to ask for the status, change nothing.)
DropUnwaited(f) ==
    /\ "wait" \in Faults
    /\ Free(f)
    /\ queued[f]
    /\ live' = [live EXCEPT ![f] = FALSE]
    /\ dropped' = dropped \cup payloads[f]
    /\ excused' = excused \cup payloads[f]
    /\ unwaited' = unwaited \cup payloads[f]
    /\ payloads' = [payloads EXCEPT ![f] = {}]
    /\ UNCHANGED <<deviceVars, workerVars, callerVars, gpu, queued, lost, attached,
                   completed, hooked, waitVars>>

\* Fence::drop on a panicking thread returns at once.  So does the drop of every
\* driver object in the payloads: they leak, no hook runs and nothing is freed.
DropPanicking(f) ==
    /\ "panic" \in Faults
    /\ Free(f)
    /\ live' = [live EXCEPT ![f] = FALSE]
    /\ excused' = excused \cup payloads[f]
    /\ payloads' = [payloads EXCEPT ![f] = {}]
    /\ UNCHANGED <<deviceVars, workerVars, callerVars, gpu, queued, lost, attached,
                   completed, hooked, unwaited, dropped, waitVars>>

-----------------------------------------------------------------------------

ObserveAny(c) ==
    \E f \in Fences, op \in Operation :
        \/ ObserveSync(c, f, op)
        \/ ObserveSyncPanics(c, f, op)
        \/ ObserveBackground(c, f, op)

\* The rest of an observation, once it has begun.
Proceed(c) ==
    \/ CheckEnabled(c)
    \/ CloneHandle(c)
    \/ TrySend(c)
    \/ Return(c)
    \/ FinishReset(c)
    \/ FinishDrop(c)

Caller(c) ==
    \/ Enable(c) \/ Release(c) \/ StartWait(c) \/ SendBarrier(c)
    \/ ObserveAny(c) \/ Proceed(c)

Worker(w) == Receive(w) \/ DropNext(w) \/ Answer(w) \/ Exit(w)

Fence(f) ==
    \/ \E S \in SUBSET (Payloads \ attached) : Submit(f, S)
    \/ Complete(f) \/ ResetPending(f)
    \/ DropUnobserved(f) \/ DropUnwaited(f) \/ DropPanicking(f)

Next ==
    \/ \E c \in Callers : Caller(c)
    \/ \E w \in Generation : Worker(w)
    \/ \E f \in Fences : Fence(f)
    \/ LoseDevice

\* A worker runs whenever it has something to do; a caller does not stop in the
\* middle of an observation.  Nobody has to observe a fence or to drop a guard.
Fairness ==
    /\ \A w \in Generation : WF_vars(Worker(w))
    /\ \A c \in Callers : WF_vars(Proceed(c))

Spec == Init /\ [][Next]_vars /\ Fairness

-----------------------------------------------------------------------------
(* Properties                                                              *)

\* What waits to be dropped off the fence has had its hook, and whatever was
\* dropped had it too, unless its fence was reset early, dropped while a hook
\* panicked, dropped with a wait that failed, or lost: "completion hooks run before
\* this returns Ok(true)".
HooksRunBeforeDrop ==
    /\ dropped \subseteq hooked \cup excused
    /\ \A c \in Callers : batch[c] \subseteq hooked
    /\ \A w \in Generation : QueuedPayloads(w) \subseteq hooked

\* "Drops an item after this fence signals": nothing is dropped, on any thread,
\* while the GPU may still use it.  Excused are payloads of a fence whose own drop
\* failed to wait: Fence::drop only warns of that, and lets them go.
DropsAfterSignal == ~lost => dropped \subseteq completed \cup unwaited

\* The lock-free flag, the worker slot and the guard count never disagree, and a
\* thread that holds a channel end never finds the receiver gone.
WorkerLifecycle ==
    /\ enabled <=> worker # None
    /\ enabled <=> \E c \in Callers : guards[c] > 0
    /\ worker # None => worker = spawned
    /\ \A w \in Generation : exited[w] => worker # w /\ queue[w] = <<>>
    /\ \A c \in Callers : handle[c] # None => ~exited[handle[c]]

\* A wait holds its guard, so the worker it waits for is the current one.
WaitsForCurrentWorker ==
    \A c \in Callers : pc[c] \in {"barrier", "reply"} => handle[c] = worker

\* When a wait returns, every payload queued before the call has been dropped,
\* and if it returns Ok no failure among them is still unreported.
WaitCoversQueue ==
    [][\A w \in Generation, c \in Callers :
         Answer(w) /\ Head(queue[w]).replyTo = c =>
            /\ covers[c] \subseteq dropped
            /\ covers[c] \cap failed[w] \subseteq reported']_vars

\* A payload that left its fence is dropped, even if the last guard went away
\* before it was sent, or the worker was detached with the batch in its channel.
EventuallyDropped ==
    \A p \in Payloads :
        (\/ \E c \in Callers : p \in batch[c]
         \/ \E w \in Generation : p \in QueuedPayloads(w))
           ~> p \in dropped

\* A wait whose barrier is in the channel is answered.
WaitAnswered == \A c \in Callers : pc[c] = "reply" ~> pc[c] = "idle"

\* A worker that lost its last guard ends: detached threads do not pile up.
DetachedWorkerExits ==
    \A w \in Generation : (w <= spawned /\ worker # w) ~> exited[w]
=============================================================================
