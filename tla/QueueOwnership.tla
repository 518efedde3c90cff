--------------------------- MODULE QueueOwnership ---------------------------
(***************************************************************************)
(* How submissions move exclusive resources between queue families.        *)
(*                                                                         *)
(* A submission claims ranges while it is recorded.  A range that another   *)
(* queue family owns has to be released there and acquired here: finishing  *)
(* the recording submits one release command buffer per source queue, each  *)
(* signaling a semaphore kept with its pooled command buffer, and           *)
(* queue_submit makes the main command buffer wait for these semaphores.    *)
(* Ownership is published when the main submit has succeeded; everything    *)
(* the submission holds goes back when its fence is seen to have signaled,  *)
(* or when it is abandoned.                                                 *)
(*                                                                         *)
(* The GPU side is what Vulkan defines: every queue executes in order, a    *)
(* range is owned by one family or is on its way between two, and an access *)
(* that does not match leaves the contents undefined.                       *)
(*                                                                         *)
(* src/src/submission.rs, src/src/driver/cmd_buf.rs, src/src/lib.rs         *)
(***************************************************************************)
EXTENDS Integers, Sequences, FiniteSets

CONSTANTS
    Submissions,
    Ranges,         \* subresource ranges of EXCLUSIVE buffers and images
    Queues,         \* <<queue family, queue index>>
    Targets,        \* those of them that submissions are made to
    FirstOwners,    \* who may have the ranges when the model begins
    CmdBufs,        \* command buffers the pool may create for releases
    MayAbandon,     \* finish may fail half way, a recording may be dropped
    Nil

Family(q) == q[1]
Families == {Family(q) : q \in Queues}

ASSUME QueuesAssumption == \A q \in Queues : DOMAIN q = 1..2
ASSUME TargetsAssumption == Targets \subseteq Queues
ASSUME OwnersAssumption == FirstOwners \subseteq [Ranges -> Queues \cup {Nil}]
ASSUME AbandonAssumption == MayAbandon \in BOOLEAN
ASSUME NilAssumption == Nil \notin Queues /\ Nil \notin CmdBufs /\ Nil \notin Families

VARIABLES
    \* SharingMode::Exclusive of every range: the queue that used it last
    owner,
    \* per submission: progress, queue, claimed ranges, QueueOwnershipReleaseGroup
    \* per source queue, the groups already submitted, command buffers it holds
    \* for them, release fences it has not waited for, semaphores to wait for
    stage, target, claims, groups, released, leases, fences, waits,
    \* AtomicCommandExecution of the submission's commands
    tracking,
    \* the pool: family of every created command buffer, the cached ones
    home, cache,
    \* GPU: queues, release semaphores, <<from, to>> for every range, the same
    \* family twice when it owns the range; whether the contents of the range are
    \* defined; submissions whose work is done
    gpuQueue, semaphore, gpuOwner, defined, executed,
    \* history: ranges for which two submissions had plans at the same time that
    \* do not go together
    disputed

hostVars == <<owner, stage, target, claims, groups, released, leases, fences, waits,
              tracking>>
poolVars == <<home, cache>>
gpuVars  == <<gpuQueue, semaphore, gpuOwner, defined, executed>>
vars == <<hostVars, poolVars, gpuVars, disputed>>

Stages == {"new", "recording", "finishing", "recorded", "sent", "attached",
           "discarded", "dropped"}
States == {"PENDING", "SUBMITTED", "EXECUTED", "ABANDONED", "SUBMITTED_ABANDONED"}

\* What submission s put on a GPU queue: one of its releases, which signals the
\* semaphore of cb, or (cb = Nil) its main command buffer, which waits for the
\* semaphores in waits.  Work of others that has to be done first: after.
Batch == [of : Submissions, cb : CmdBufs \cup {Nil}, ranges : SUBSET Ranges,
          waits : SUBSET CmdBufs, after : SUBSET Submissions]

TypeOK ==
    /\ owner \in [Ranges -> Queues \cup {Nil}]
    /\ stage \in [Submissions -> Stages]
    /\ target \in [Submissions -> Queues]
    /\ claims \in [Submissions -> SUBSET Ranges]
    /\ groups \in [Submissions -> [Queues -> SUBSET Ranges]]
    /\ released \in [Submissions -> SUBSET Queues]
    /\ leases \in [Submissions -> SUBSET CmdBufs]
    /\ fences \in [Submissions -> SUBSET CmdBufs]
    /\ waits \in [Submissions -> SUBSET CmdBufs]
    /\ tracking \in [Submissions -> States]
    /\ home \in [CmdBufs -> Families \cup {Nil}]
    /\ cache \in SUBSET CmdBufs
    /\ gpuQueue \in [Queues -> Seq(Batch)]
    /\ semaphore \in [CmdBufs -> {"unsignaled", "signaling", "signaled"}]
    /\ gpuOwner \in [Ranges -> (Families \X Families) \cup {<<Nil, Nil>>}]
    /\ defined \in [Ranges -> BOOLEAN]
    /\ executed \in SUBSET Submissions
    /\ disputed \in SUBSET Ranges

\* Earlier submissions, which are done, may have left a range with any queue.
Init ==
    /\ owner \in FirstOwners
    /\ stage = [s \in Submissions |-> "new"]
    /\ target \in [Submissions -> Targets]
    /\ claims = [s \in Submissions |-> {}]
    /\ groups = [s \in Submissions |-> [q \in Queues |-> {}]]
    /\ released = [s \in Submissions |-> {}]
    /\ leases = [s \in Submissions |-> {}]
    /\ fences = [s \in Submissions |-> {}]
    /\ waits = [s \in Submissions |-> {}]
    /\ tracking = [s \in Submissions |-> "PENDING"]
    /\ home = [cb \in CmdBufs |-> Nil]
    /\ cache = {}
    /\ gpuQueue = [q \in Queues |-> <<>>]
    /\ semaphore = [cb \in CmdBufs |-> "unsignaled"]
    /\ gpuOwner = [r \in Ranges |-> IF owner[r] = Nil THEN <<Nil, Nil>>
                                      ELSE <<Family(owner[r]), Family(owner[r])>>]
    /\ defined = [r \in Ranges |-> TRUE]
    /\ executed = {}
    /\ disputed = {}

-----------------------------------------------------------------------------
(* Recording and finishing                                                 *)

\* RecordingOwnership::exclusive_transfer_source
TransferSource(r, q) ==
    IF owner[r] # Nil /\ Family(owner[r]) # Family(q) THEN owner[r] ELSE Nil

\* "Do not call any Submission recording or queue function that accesses buffers,
\* images, ... currently being submitted on other threads": the caller's part.
BeingSubmitted(r) == \E t \in Submissions : r \in claims[t] /\ stage[t] = "sent"

\* A submission's plan for a range holds until it publishes itself as the owner.
Unpublished(s) == stage[s] \in {"recording", "finishing", "recorded", "sent"}

\* Nothing keeps another submission from planning for the range in the meantime.  The
\* two plans go together if both leave the range in the family that has it.
Disputes(r, s) ==
    \E t \in Submissions \ {s} :
        /\ r \in claims[t] /\ Unpublished(t)
        /\ \/ Family(target[t]) # Family(target[s])
           \/ TransferSource(r, target[s]) # Nil
           \/ \E q \in Queues : r \in groups[t][q]

\* Recording::record, Submission::track_pending_transfers: a range is claimed
\* once per recording, and released by the queue that owns it now.
Record(s, R) ==
    /\ stage[s] \in {"new", "recording"}
    /\ \A r \in R : ~BeingSubmitted(r)
    /\ stage' = [stage EXCEPT ![s] = "recording"]
    /\ claims' = [claims EXCEPT ![s] = @ \cup R]
    /\ groups' = [groups EXCEPT ![s] =
                    [q \in Queues |-> @[q] \cup {r \in R \ claims[s] :
                                                   TransferSource(r, target[s]) = q}]]
    /\ disputed' = disputed \cup {r \in R \ claims[s] : Disputes(r, s)}
    /\ UNCHANGED <<owner, target, released, leases, fences, waits, tracking, poolVars,
                   gpuVars>>

\* Recording::finish begins: no more recording.
Finish(s) ==
    /\ stage[s] = "recording"
    /\ \A r \in claims[s] : ~BeingSubmitted(r)
    /\ stage' = [stage EXCEPT ![s] = "finishing"]
    /\ UNCHANGED <<owner, target, claims, groups, released, leases, fences, waits,
                   tracking, poolVars, gpuVars, disputed>>

\* Pool::resource(CommandBufferInfo): a cached one of the family, or a new one.
Lease(cb, family) ==
    \/ /\ cb \in cache /\ home[cb] = family
       /\ cache' = cache \ {cb}
       /\ UNCHANGED home
    \/ /\ home[cb] = Nil /\ \A b \in cache : home[b] # family
       /\ home' = [home EXCEPT ![cb] = family]
       /\ UNCHANGED cache

\* Submitted and unfinished work that uses ranges of R.
Pending(R, s) ==
    {t \in Submissions \ (executed \cup {s}) :
        stage[t] \in {"sent", "attached"} /\ claims[t] \cap R # {}}

\* Mutant: the release's command buffer comes from the pool of the queue's index.
SubmitReleaseByIndex(s, q, cb) ==
    /\ stage[s] = "finishing"
    /\ groups[s][q] # {} /\ q \notin released[s]
    /\ Lease(cb, q[2])
    /\ gpuQueue' = [gpuQueue EXCEPT
                      ![q] = Append(@, [of |-> s, cb |-> cb, ranges |-> groups[s][q],
                                        waits |-> {}, after |-> Pending(groups[s][q], s)])]
    /\ semaphore' = [semaphore EXCEPT ![cb] = "signaling"]
    /\ released' = [released EXCEPT ![s] = @ \cup {q}]
    /\ leases' = [leases EXCEPT ![s] = @ \cup {cb}]
    /\ fences' = [fences EXCEPT ![s] = @ \cup {cb}]
    /\ UNCHANGED <<owner, stage, target, claims, groups, waits, tracking,
                   gpuOwner, defined, executed, disputed>>

\* Mutant: the release is recorded and waited for, but not submitted.
SubmitReleaseNever(s, q, cb) ==
    /\ stage[s] = "finishing"
    /\ groups[s][q] # {} /\ q \notin released[s]
    /\ Lease(cb, Family(q))
    /\ released' = [released EXCEPT ![s] = @ \cup {q}]
    /\ leases' = [leases EXCEPT ![s] = @ \cup {cb}]
    /\ fences' = [fences EXCEPT ![s] = @ \cup {cb}]
    /\ UNCHANGED <<owner, stage, target, claims, groups, waits, tracking, gpuVars, disputed>>

\* QueueOwnershipRelease::submit, one group: lease a command buffer of the source
\* family, take the semaphore kept with it, submit to the source queue.
SubmitRelease(s, q, cb) ==
    /\ stage[s] = "finishing"
    /\ groups[s][q] # {} /\ q \notin released[s]
    /\ Lease(cb, Family(q))
    /\ gpuQueue' = [gpuQueue EXCEPT
                      ![q] = Append(@, [of |-> s, cb |-> cb, ranges |-> groups[s][q],
                                        waits |-> {}, after |-> Pending(groups[s][q], s)])]
    /\ semaphore' = [semaphore EXCEPT ![cb] = "signaling"]
    /\ released' = [released EXCEPT ![s] = @ \cup {q}]
    /\ leases' = [leases EXCEPT ![s] = @ \cup {cb}]
    /\ fences' = [fences EXCEPT ![s] = @ \cup {cb}]
    /\ UNCHANGED <<owner, stage, target, claims, groups, waits, tracking,
                   gpuOwner, defined, executed, disputed>>

\* Mutant: the releases' command buffers go back to the pool once they are submitted.
FinishedReturns(s) ==
    /\ stage[s] = "finishing"
    /\ \A q \in Queues \ released[s] : groups[s][q] = {}
    /\ stage' = [stage EXCEPT ![s] = "recorded"]
    /\ waits' = [waits EXCEPT ![s] = leases[s]]
    /\ leases' = [leases EXCEPT ![s] = {}]
    /\ cache' = cache \cup leases[s]
    /\ UNCHANGED <<owner, target, claims, groups, released, fences, tracking, home,
                   gpuVars, disputed>>

\* Mutant: the main command buffer does not wait for the releases.
FinishedWithoutWaits(s) ==
    /\ stage[s] = "finishing"
    /\ \A q \in Queues \ released[s] : groups[s][q] = {}
    /\ stage' = [stage EXCEPT ![s] = "recorded"]
    /\ UNCHANGED <<owner, target, claims, groups, released, leases, fences, waits,
                   tracking, poolVars, gpuVars, disputed>>

\* Every group is submitted: Submission::into_recorded_submission, one wait each.
Finished(s) ==
    /\ stage[s] = "finishing"
    /\ \A q \in Queues \ released[s] : groups[s][q] = {}
    /\ stage' = [stage EXCEPT ![s] = "recorded"]
    /\ waits' = [waits EXCEPT ![s] = leases[s]]
    /\ UNCHANGED <<owner, target, claims, groups, released, leases, fences, tracking,
                   poolVars, gpuVars, disputed>>

-----------------------------------------------------------------------------
(* RecordedSubmission::queue_submit                                        *)

\* vkQueueSubmit succeeds under the queue's lock, which is then released.  (When
\* it fails nothing has changed and the caller may try again.)
Send(s) ==
    /\ stage[s] = "recorded"
    /\ \A r \in claims[s] : ~BeingSubmitted(r)
    /\ stage' = [stage EXCEPT ![s] = "sent"]
    /\ gpuQueue' = [gpuQueue EXCEPT
                      ![target[s]] = Append(@, [of |-> s, cb |-> Nil, ranges |-> claims[s],
                                                waits |-> waits[s],
                                                after |-> Pending(claims[s], s)])]
    /\ UNCHANGED <<owner, target, claims, groups, released, leases, fences, waits,
                   tracking, poolVars, semaphore, gpuOwner, defined, executed, disputed>>

\* Mutant: an owner is published for ranges that had none only.
AttachFirstOwner(s) ==
    /\ stage[s] = "sent"
    /\ stage' = [stage EXCEPT ![s] = "attached"]
    /\ owner' = [r \in Ranges |-> IF r \in claims[s] /\ owner[r] = Nil THEN target[s]
                                    ELSE owner[r]]
    /\ tracking' = [tracking EXCEPT ![s] = IF @ = "PENDING" THEN "SUBMITTED" ELSE @]
    /\ waits' = [waits EXCEPT ![s] = {}]
    /\ UNCHANGED <<target, claims, groups, released, leases, fences, poolVars, gpuVars, disputed>>

\* attach_locked publishes the queue as the owner of every claimed range, then
\* the commands are marked submitted and the release waits are forgotten.
Attach(s) ==
    /\ stage[s] = "sent"
    /\ stage' = [stage EXCEPT ![s] = "attached"]
    /\ owner' = [r \in Ranges |-> IF r \in claims[s] THEN target[s] ELSE owner[r]]
    /\ tracking' = [tracking EXCEPT ![s] = IF @ = "PENDING" THEN "SUBMITTED" ELSE @]
    /\ waits' = [waits EXCEPT ![s] = {}]
    /\ UNCHANGED <<target, claims, groups, released, leases, fences, poolVars, gpuVars, disputed>>

-----------------------------------------------------------------------------
(* The end of a submission                                                 *)

\* Mutant: the payload is let go of before its fence signals.
ObserveEarly(s) ==
    /\ stage[s] = "attached"
    /\ stage' = [stage EXCEPT ![s] = "discarded"]
    /\ tracking' = [tracking EXCEPT
                      ![s] = IF @ \in {"PENDING", "SUBMITTED"} THEN "EXECUTED" ELSE @]
    /\ UNCHANGED <<owner, target, claims, groups, released, leases, fences, waits,
                   poolVars, gpuVars, disputed>>

\* The fence was seen signaled: RecordedSubmissionDrop::fence_signaled, after
\* which the last reference to RecordedSubmissionState goes.
Observe(s) ==
    /\ stage[s] = "attached"
    /\ s \in executed
    /\ stage' = [stage EXCEPT ![s] = "discarded"]
    /\ tracking' = [tracking EXCEPT
                      ![s] = IF @ \in {"PENDING", "SUBMITTED"} THEN "EXECUTED" ELSE @]
    /\ UNCHANGED <<owner, target, claims, groups, released, leases, fences, waits,
                   poolVars, gpuVars, disputed>>

\* The submission, the recording or the recorded submission is dropped, or finish
\* fails after some of its releases were submitted.
Abandon(s) ==
    /\ \/ stage[s] \in {"new", "recording"}
       \/ stage[s] \in {"finishing", "recorded"} /\ (MayAbandon \/ leases[s] = {})
    /\ stage' = [stage EXCEPT ![s] = "discarded"]
    /\ UNCHANGED <<owner, target, claims, groups, released, leases, fences, waits,
                   tracking, poolVars, gpuVars, disputed>>

\* QueueOwnershipRelease drops its fields in order: Lease::drop first ...
ReturnCmdBuf(s, cb) ==
    /\ stage[s] = "discarded"
    /\ cb \in leases[s]
    /\ leases' = [leases EXCEPT ![s] = @ \ {cb}]
    /\ cache' = cache \cup {cb}
    /\ UNCHANGED <<owner, stage, target, claims, groups, released, fences, waits,
                   tracking, home, gpuVars, disputed>>

Unfinished(s, cb) ==
    \E q \in Queues : \E i \in DOMAIN gpuQueue[q] :
        gpuQueue[q][i].of = s /\ gpuQueue[q][i].cb = cb

\* ... then Fence::drop, which waits for the release to finish.
WaitRelease(s, cb) ==
    /\ stage[s] = "discarded"
    /\ cb \in fences[s] \ leases[s]
    /\ ~Unfinished(s, cb)
    /\ fences' = [fences EXCEPT ![s] = @ \ {cb}]
    /\ UNCHANGED <<owner, stage, target, claims, groups, released, leases, waits,
                   tracking, poolVars, gpuVars, disputed>>

\* Last its commands go: CommandData::drop.
DropCommands(s) ==
    /\ stage[s] = "discarded"
    /\ fences[s] = {}
    /\ stage' = [stage EXCEPT ![s] = "dropped"]
    /\ tracking' = [tracking EXCEPT
                      ![s] = CASE @ = "PENDING" -> "ABANDONED"
                               [] @ = "SUBMITTED" -> "SUBMITTED_ABANDONED"
                               [] OTHER -> @]
    /\ UNCHANGED <<owner, target, claims, groups, released, leases, fences, waits,
                   poolVars, gpuVars, disputed>>

-----------------------------------------------------------------------------
(* The GPU                                                                 *)

\* A release barrier is right if its family owns the range and the work that
\* used the range before is done.
ExecuteRelease(q) ==
    /\ gpuQueue[q] # <<>> /\ Head(gpuQueue[q]).cb # Nil
    /\ LET b == Head(gpuQueue[q])
           right(r) == /\ gpuOwner[r] = <<Family(q), Family(q)>>
                       /\ \A t \in b.after : r \in claims[t] => t \in executed
       IN /\ gpuOwner' = [r \in Ranges |-> IF r \in b.ranges
                                             THEN <<Family(q), Family(target[b.of])>>
                                             ELSE gpuOwner[r]]
          /\ defined' = [r \in Ranges |-> defined[r] /\ (r \in b.ranges => right(r))]
          /\ semaphore' = [semaphore EXCEPT ![b.cb] = "signaled"]
    /\ gpuQueue' = [gpuQueue EXCEPT ![q] = Tail(@)]
    /\ UNCHANGED <<hostVars, poolVars, executed, disputed>>

\* A main command buffer waits for its release semaphores, and for the work its
\* barriers and its caller's semaphores put before it.
Ready(b) ==
    /\ \A cb \in b.waits : semaphore[cb] = "signaled"
    /\ b.after \subseteq executed

\* The main command buffer starts with the acquire barriers recorded for it; a
\* range it does not acquire has to be its family's, or nobody's, already.
ExecuteMain(q) ==
    /\ gpuQueue[q] # <<>> /\ Head(gpuQueue[q]).cb = Nil
    /\ Ready(Head(gpuQueue[q]))
    /\ LET b == Head(gpuQueue[q])
           family == Family(q)
           acquired(r) == {Family(p) : p \in {p \in Queues : r \in groups[b.of][p]}}
           right(r) == IF acquired(r) = {}
                         THEN gpuOwner[r] \in {<<family, family>>, <<Nil, Nil>>}
                         ELSE gpuOwner[r] \in acquired(r) \X {family}
       IN /\ gpuOwner' = [r \in Ranges |-> IF r \in b.ranges THEN <<family, family>>
                                             ELSE gpuOwner[r]]
          /\ defined' = [r \in Ranges |-> defined[r] /\ (r \in b.ranges => right(r))]
          /\ semaphore' = [cb \in CmdBufs |->
                             IF cb \in b.waits THEN "unsignaled" ELSE semaphore[cb]]
          /\ executed' = executed \cup {b.of}
    /\ gpuQueue' = [gpuQueue EXCEPT ![q] = Tail(@)]
    /\ UNCHANGED <<hostVars, poolVars, disputed>>

-----------------------------------------------------------------------------

\* What a thread goes on with once it has called finish, queue_submit or drop.
Proceed(s) ==
    \/ \E q \in Queues, cb \in CmdBufs : SubmitRelease(s, q, cb)
    \/ Finished(s)
    \/ Attach(s)
    \/ \E cb \in CmdBufs : ReturnCmdBuf(s, cb) \/ WaitRelease(s, cb)
    \/ DropCommands(s)

Submission(s) ==
    \/ \E R \in (SUBSET Ranges) \ {{}} : Record(s, R)
    \/ Finish(s) \/ Send(s) \/ Observe(s) \/ Abandon(s) \/ Proceed(s)

Gpu(q) == ExecuteRelease(q) \/ ExecuteMain(q)

Next ==
    \/ \E s \in Submissions : Submission(s)
    \/ \E q \in Queues : Gpu(q)

\* The GPU makes progress on every queue, and a thread on what it has begun.
Fairness ==
    /\ \A q \in Queues : WF_vars(Gpu(q))
    /\ \A s \in Submissions : WF_vars(Proceed(s))

Spec == Init /\ [][Next]_vars /\ Fairness

-----------------------------------------------------------------------------
(* Properties                                                              *)

\* No execution of barriers and accesses on the GPU, in any order the queues
\* allow, finds a range owned by another family, released twice or still in use:
\* the owner the host keeps is the one the GPU arrives at.  Excused are ranges for
\* which two submissions had plans that do not go together: attach publishes the
\* owner only after queue_submit, and finish plans nothing again.
ContentsDefined == \A r \in Ranges \ disputed : defined[r]

\* The same of every range: "EXCLUSIVE is the default and lets vk-graph track
\* queue-family ownership", if only nothing is recorded while it is being submitted.
OwnershipTracked == \A r \in Ranges : defined[r]

\* "The semaphore is ... reused with this command buffer for subsequent release
\* submissions": whenever a command buffer is leased for a release, its previous
\* release is finished and its semaphore has been waited for.
ReleaseReusable ==
    [][\A s \in Submissions, cb \in CmdBufs :
         cb \in leases'[s] \ leases[s] =>
            /\ semaphore[cb] = "unsignaled"
            /\ \A t \in Submissions : ~Unfinished(t, cb)]_vars

\* A release semaphore has one waiter at most: no two submissions wait for it.
WaitsAreExclusive ==
    \A s, t \in Submissions : s # t => waits[s] \cap waits[t] = {}

\* What a CommandExecution reports is true: has_submitted once the GPU has the
\* work, for ever after, and an error only if it never will; has_executed once
\* the work is done, and an error only if it is dropped unobserved.
TrackingTruthful ==
    [][\A s \in Submissions :
         /\ tracking'[s] \in {"SUBMITTED", "EXECUTED", "SUBMITTED_ABANDONED"} =>
              stage[s] \notin {"new", "recording", "finishing", "recorded"}
         /\ tracking'[s] = "EXECUTED" => s \in executed
         /\ tracking'[s] = "ABANDONED" =>
              s \notin executed
              /\ \A q \in Queues : \A i \in DOMAIN gpuQueue'[q] :
                   gpuQueue'[q][i].of = s => gpuQueue'[q][i].cb # Nil
         /\ tracking[s] = "SUBMITTED" =>
              tracking'[s] \in {"SUBMITTED", "EXECUTED", "SUBMITTED_ABANDONED"}
         /\ tracking[s] \in {"EXECUTED", "ABANDONED"} => tracking'[s] = tracking[s]]_vars

\* Waiting for releases on other queues, which are queued behind other submissions'
\* work, never closes a cycle: while there is work, some queue can do its first.
QueuesProceed ==
    (\E q \in Queues : gpuQueue[q] # <<>>) =>
        \E q \in Queues :
            /\ gpuQueue[q] # <<>>
            /\ Head(gpuQueue[q]).cb # Nil \/ Ready(Head(gpuQueue[q]))
=============================================================================
