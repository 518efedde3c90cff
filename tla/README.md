# A TLA+ model of vk-graph

vk-graph is a Vulkan driver and render graph for Rust. A program binds resources into a
`Graph`, records commands that declare what they access, finalizes the graph into a
`Submission`, and records all of it or a selection at a time into command buffers which are
submitted to queues. Leases, fences and background threads keep every object alive until the
GPU is done with it. This directory models the parts of that machinery that are hard to test:
what happens between threads, between queues, and between one selection of a graph and the
next.

* `tlc -workers 2 -config <run>.cfg <module>` checks a run; `PROJECT.json` lists them.
* `tlapm FenceCleanupProofs.tla` checks the proofs of that module; `QueueOwnershipProofs.tla`,
  `PoolProofs.tla`, `GraphchainProofs.tla`, `RecordingProofs.tla`, `OwnerProofs.tla`,
  `AccessProofs.tla` and `BarriersProofs.tla` hold the others.

Source paths below are relative to `src/`.

## The system

| Component | State | Operations | Interacts through |
| --- | --- | --- | --- |
| Fences (`src/driver/fence.rs`) | handle, `queued`, payload list | `status`, `wait`, `reset`, drop, `mark_queued`, `drop_when_signaled` | payload hooks (callbacks), the drop worker |
| Background fence cleanup (`src/driver/device.rs`) | guard count, worker slot, lock-free flag; per worker a bounded channel and a failure flag | enable, release a guard, wait for pending cleanup, enqueue | mutex, atomic flag, `sync_channel`, detached threads |
| Submissions (`src/submission.rs`) | claimed ranges, release groups, retained commands, waits | `record`, `finish`, `queue_submit`, drop | pool (command buffers), queues, fences, sharing state of resources, execution tracking |
| Graph scheduling (`src/submission.rs`) | remaining commands, timestamp queries, leased resources | select, reorder, merge, record, put the rest back | indices shared between commands, queries and resources |
| Pools (`src/pool/`) | buckets of idle items, requests since the last collection, aliases per tag | `resource`, `Lease::drop`, `clear*`, `collect_resources`, `tag` | `Weak` to a mutex-protected bucket, any thread |
| Resource trackers (`src/driver/buffer.rs`, `image.rs`) | per buffer and image, a word and a map of the last accesses, and the same of the owning queues | swap or replace an access, iterate over what it replaced, assign owners, query | atomics and mutexes, used by every submission |
| Barriers, subpasses (`src/submission.rs`) | what the trackers hold, the stages of the commands recorded so far | barriers of an execution, of a render pass; subpass dependencies | the trackers; the GPU |
| Swapchain (`src/driver/swapchain.rs`) | the live handle and the retired ones, which images are taken, presents to be waited for | acquire, present, recreate, `set_info`, drop | queues, presentation engine |
| Frame loop (`crates/vk-graph-window/src/graphchain.rs`) | frame slots with command buffer, fence and semaphore; a semaphore per image; retired semaphores | acquire, present, limit the frames in flight, drop | swapchain, pool, submissions |
| Command streams (`src/stream.rs`) | prepared submission with arguments | prepare, insert | graph |
| Device queues (`src/driver/device.rs`) | one mutex per queue | `with_queue`, `wait_idle` | every submission |

What makes this hard: a fence's payloads change hands between the submitting thread, the
observing thread, a channel and a worker that may be detached at any moment; panics may come
out of any hook or destructor; ownership of a range is decided when recording, established by
the GPU later and published by the host in between; a lease may come back while its bucket is
being removed; and indices into the command list must survive reordering, merging and partial
removal. What has to hold in spite of that:

* payloads: hook before drop, signal before drop, nothing lost, waits cover what they promise;
* ownership: the GPU never meets a range owned by another family, semaphores are reused only
  when free, cross-queue waits make progress, execution tracking tells the truth;
* scheduling: each execution once, hazards in order, timestamps in place, selections exact;
* pools: a lease fits its request, an item has one owner, buckets stay bounded, a collection
  keeps the working set;
* trackers: an operation on a range is atomic, whatever representation it finds and whoever
  changes it meanwhile, and an iterator reports every replaced access once;
* barriers: conflicting accesses are ordered, writes reach their readers, layouts are as expected;
* presentation: nothing is recorded, signaled or destroyed while the device may use it, and no
  call waits for something that cannot happen.

## Modules

Where components meet through shared steps, a module extends the other: `Graphchain` extends
`Swapchain`, and `Tracking` composes `Sharing`, `Access` and `Claims`, which extend `Tracker`, which extends
the two maps `RunMap` and `DenseMap`. Everywhere else a specification takes from the others what
its code sees of them. `FenceCleanup` has the payloads of a submission as a set,
`QueueOwnership` has the fence as the moment a submission is seen executed and the pool as a
cache of command buffers, `Recording` is what happens inside one `record`, `Pool` knows
nothing of what its items are for, and `Barriers` uses a tracker as the atomic map that `Tracking`
shows it to be. `MC*` modules give the constants values and the symmetry. Operators that differ from
a definition in one plausible mistake are marked "Mutant" or stand next to it; they show that the
properties notice.

### FenceCleanup

Threads (`Callers`) operate on fences. `Submit` is the end of `RecordedSubmission::queue_submit`
and attaches payloads; `Complete` is the GPU. `Observe*` is `Fence::drop_signaled`, reached from
`status`, `wait`, `reset` and `drop` (`operation`). `pc` is where an observing thread is:

    idle -> enqueue -> handle -> send -> finish -> idle      an observation
    idle -> barrier -> reply -> idle                          wait_for_pending_cleanup

The flag is read without the lock (`ObserveSync`/`ObserveBackground`, then again in
`CheckEnabled`), the handle is cloned under it (`CloneHandle`) and the batch is sent without it
(`TrySend`); between any two of these `Enable` and `Release` may run. A *generation* is a worker
thread with its channel. `Exit` is `recv` failing: the channel is empty and no sender is left.

Faults are named by the constant `Faults`: hooks and destructors may panic, a pending fence may
be reset, the device may be lost, and the wait in `Fence::drop` may fail on a healthy device (`"wait"`):
`wait_for_fences` turns every error but a timeout of its first, short phase into `InvalidData` or `OutOfMemory`
(`src/driver/device.rs:1212`, 1217, 1229, 1234), `Fence::drop` warns and returns (`src/driver/fence.rs:256`), and
the payload list is dropped with the fence, without hooks and maybe while the GPU still works, although the comment at
line 144 says "Drops an item after this fence signals." (`DropUnwaited`). `excused` notes the payloads whose hook may be
forgone because of such faults, `unwaited` those that a failed wait let go; everything else must have had its
hook, and its signal. A `status`, `wait` or `reset` that fails outside of the drop returns the error and changes
nothing. A fence dropped by a panicking thread returns at
once, and so does the drop of every driver object among its payloads, so they leak; the model
takes them out and never drops them.

Left out: the refusal of a wait on the worker thread itself (it returns an error before it
changes anything). `DeviceInner::drop` is not an action: a guard holds the device, so
at that point there is no worker left to join.

### QueueOwnership

One submission goes `new -> recording -> finishing -> recorded -> sent -> attached -> discarded ->
dropped`. `Record` plans releases from the owner as the host knows it, `SubmitRelease` is one
iteration of `QueueOwnershipRelease::submit`, `Send` is the queue submit under the queue's
lock, `Attach` is what follows after that lock is gone. `discarded` is the end of whoever held the
submission: its releases drop their fields in order (`ReturnCmdBuf`, then `WaitRelease`), then the
commands (`DropCommands`).

The GPU is modelled from Vulkan's rules: queues run in order, a main submission waits for its
semaphores, a release sends a range from one family to another, an acquire has to match.
`defined[r]` turns false when an access or a barrier does not match; nothing sets it back. The
documentation forbids recording and queue functions that access resources "currently being submitted on
other threads" (`guide/src/usage_thread.md:29`). `BeingSubmitted` is that and no more: a range may not be recorded,
finished or submitted while another submission that claims it is inside `queue_submit` (`sent`, before
`Attach`). Any number of submissions may be recorded, and wait to be submitted in any order, over the same range.

That is more than the code can handle, which plans from the published owner and never again. So `disputed` notes the
ranges for which a recording made a plan while another's was not published, and the two do not go together: they leave the range in different
families, or one of them moves it. `ContentsDefined` holds of all other ranges; `OwnershipTracked`, which excuses nothing,
is what the run `queue_overlap` refutes.

A semaphore is a flag here, and a failed `vkQueueSubmit` changes nothing but is followed by another try or by `Abandon`. A
release whose own submit fails has not begun (`SubmitRelease` did not happen), and the failed submission is abandoned.
`FirstOwners` has the owners that earlier work left, any of those the run asks for, `Targets` the queues that are submitted to: a
range may begin with a queue that none of these submissions is for.

A range stands for a set of subresources that is claimed as a whole; how
`BufferClaim` and `ImageOwnership` split overlapping ranges is `Claims` (see Tracking).

### Recording

A graph of `N` commands over `R` resources; `uses[c]` is any subset, so every dependency pattern
of that size is an initial state. `RecordAll`, `RecordNode(r)` and `RecordDependencies(r)` are the
selections, each followed by the whole pipeline: `Required` (the least selection that has all
prefixes, which the code's work list reaches), `Reorder`, `Merged`, leases, `Record`, removal with
renumbered timestamp queries. Graph nodes and resource
sets are both resources: the code treats them alike here. `AllowMerge` abstracts the
attachment comparison of `allow_merge_passes` to an equivalence: both commands are graphics with
the common attachments.

`GroupFactor` is the constant 4 of `reorder_cmds`: with at least that many resources per command,
the chains of neighbours with equal users are left out. The passing run sets it to 0, so
the shortcut is always taken; where no neighbours are equal it does the same as the other path.

Left out are the errors that leave a command buffer half recorded (`src/submission.rs:5199`, 5249, 5356, 6891), after which the caller
has to discard it, and queues that write no timestamps, for which all queries are forgotten (line 6888).

`LeaseFails` is `?` in `lease_scheduled_resources`. In the first call of a recording it takes the
submission along, but an empty first selection, or a later one, can be retried with
`Recording::record`.

### Pool

One pool (`strategy`) behind a garbage collector and a tagged cache. A request has attributes
that must match (`exact`), attributes that may be larger (`size`: sizes, usage and creation
flags), host access and a sampler count: `Key`, `Compatible` and `Takes` say for each strategy
what it distinguishes. (`LazyPool` does not compare `alloc_dedicated` of images, `src/pool/lazy.rs:85`, as the others do,
`src/pool/fifo.rs:35` and `src/pool/mod.rs:161`; `exact` stands for the attributes that all compare.) A hit of the cache does not reach
the collector (`src/pool/garbage_collector.rs:97`), so `CollectKeepsWorkingSet` does not count it as lent. A bucket is an `Arc`: the pool holds it (`buckets`), and so does a thread
inside `Lease::drop` (`returning`); without either it is gone with its items. `Upgrade`
and `Return` are the two halves of that drop, and the owner may clear, collect or drop the pool
between them. `FifoPool` replaces the buckets it clears at once, the model at the next request.

### Tracking

A buffer has a run-length map of bytes (`RunMap`), an image one of subresources (`DenseMap`); both
are translated with their cursors, which replace and report at the same time. While a resource is
uniform, one atomic word is authoritative (`word`) and the map (`store`) is stale; `Sharing` and
`Access` are the operations that *promote* it, under the lock, when a part is changed, and *demote*
it when the last difference is gone. Every `load`, compare-and-exchange and store of the word, and
each step of an iterator that holds the lock, is a step; steps that run entirely under the lock are
merged. `pc` has the place between two of them.

`AtomicMap` is what the trackers promise: a map from cells to values and operations that take
effect at one moment. `Tracking` implements it: `Linearizable` is `Map!Spec` with the map read off
from whichever of word and store counts (`Contents`). A reader of an image looks at the state and
then at the set, so it may answer with what the map was at any moment since its call; the
auxiliary variable `past` records these. The tests at `src/driver/buffer.rs:1833`, 1872 and 1907
provoke three of the races by hand.

The spurious failure of a weak exchange is a stutter. An access operation has one range. An image with
one layer and level and two aspects keeps two independent words (`DualAspect`) and is left out.

`Claims` is what a recording does with a resource of which other queue families own parts
(`RecordingOwnership`, `track_pending_transfers`), as a third user of the same atomic map: a cell
holds the owner that the next command has to acquire it from, and a command's operation takes what
its range holds and leaves nothing to acquire. The threads are the commands. All of a schedule are tracked
(`TrackPendingTransfers`: claim the range, plan a transfer for each part that was not claimed and
has another owner), then recorded in this order (`RecordBarriers`: cut the range where transfers
begin and end, acquire, forget the transfers met). `Linearizable` then says that each part is
acquired by the first command that uses it, from its owner, and never again, however the claims
overlap. That forgetting whole transfers forgets too much if commands are recorded in
another order than they were tracked is what TLC shows when the order is dropped from the model.
`store` has the claims in the form the code keeps them: disjoint byte ranges in a vector or, after
enough insertions in its middle, a tree; the whole image, aspects of it, or a `DenseMap` of
booleans.

### Barriers

One buffer or one image of two cells, and every program of executions (compute and transfer) and
render passes on one queue. `Execute` is the non-graphics branch of `record_cmd_indices`,
`BeginPass`, `Draw` and `EndPass` the graphics branch. `tracked` is the tracker, `history` the
stages of the commands of this `record` call, from which the external dependencies of a render pass
are built; `Record` begins another call. A pass is planned with `MayAppend` (`coalesce_subpasses`),
`KeptBefore` and `Dependencies` (`build_general_subpass_dependencies`): which groups a subpass depends
on, and when such an edge is left out, retired or made by-region.

`SyncRules` is the judge and external to this repository: Vulkan's execution and memory
dependencies, for one part of a resource. It knows for each access which stages are ordered after
it, whether it is available and to whom it is visible, follows chains of barriers, and makes a
layout transition a write. It is conservative: no order between stages is implied, and a barrier
orders only what its own scopes say. `AccessFaults` and `ScopeFaults` name what is wrong.

Only the barriers of the resource itself count. The code joins the stage masks of the barriers it records
in one call, which can only order more. An execution makes one access per range, which the guide asks
for (`guide/src/pipeline_sync.md:71`), and an image has one layout in a render pass.

The access masks of an image barrier come from vk-sync, of which this repository uses a fork that is
not part of it. `ReadersPassOn` says whether a barrier between two reads in the same layout still
makes the image visible to the second. The test at `src/submission.rs:15816` shows that it does when
the layout changes. With `ReadersPassOn = FALSE` TLC finds `ReadsSeeWrites` violated: an image is written
in a render pass, read in the general layout by a vertex shader and then by a compute shader,
to which nothing has made the write visible.

### Swapchain and Graphchain

`Swapchain` is `src/driver/swapchain.rs` over queues, semaphores and the presentation engine. A
present is asynchronous. With present wait the host waits for its id; without it, for a fence that
an empty submission signals after the present (`SubmitSignal`). The model of a queue lets later work overtake a
present that waits, and finishes an empty submission with a fence only after earlier presents,
which is what the code relies on. `Recreate` retires the live handle and destroys the one retired
before, after its presents.

`Graphchain` rotates over frame slots. `BeginAcquire`, `Reset`, `AcquireImage` and `AcquireNothing`
are `acquire_next_image` with its recreation, `PresentImage` and `PresentImageFails` `present_image`,
with the frame submitted before the present is queued (`SubmitFrame`); `LimitInFlight` is
`wait_for_in_flight_limit` and `DropGraphchain` ... `FinishDrop` the drop. `pc` is
where the one client thread waits. The two retirement strategies and both kinds of present mode are
initial states. Semaphores are named by the reset that made them (`epoch`); `retiredEpochs` are those
a recreation keeps until the next.

`AcquireSignaled` of the driver is folded into `Acquire`; loss of the surface ends the loop and is left
out.

## Runs

| Run | Shows | Bounds |
| --- | --- | --- |
| `fence_cleanup` | hooks before drops, drops after signal, worker and guards agree, waits cover the queue | 2 threads, 2 fences, 2 payloads, 2 guards, 2 worker generations, channel of 1; panics |
| `fence_liveness` | batches are dropped, barriers are answered, detached workers end | 2 threads, 1 fence, 1 payload, 2 guards, 2 generations, channel of 1; every fault |
| `queue_ownership` | contents stay defined where plans go together, release semaphores are free when reused, tracking is truthful, waits across queues close no cycle | 3 submissions to 2 queues in 2 families, 2 ranges, 2 command buffers; the ranges begin without owners, or with the second queue of the first family and the queue of the other; nothing abandoned after `finish` began to submit |
| `pool` | leases fit, one owner, bounded buckets, collections keep the working set | 3 strategies; 2 buffer sizes and command buffers; 2 items, 2 leases with 2 references, 2 buckets, capacity 1 |
| `recording` | each once, hazard order, timestamps, exact selections | all graphs of 4 commands with 1 or 2 executions over 2 resources, merging or not, one failed lease |
| `graphchain` | semaphores, command buffers and handles are free when used again or destroyed, frames in flight are limited, calls return | 2 images, 1 frame slot that becomes 2, 1 queue, 3 handles, 2 resets, 1 image held, both strategies and kinds of present mode, finite timeout |
| `tracking` | trackers and claims implement an atomic map, iterators cover their range once, maps and claims keep their form, no release is planned in vain, somebody always returns | buffers of 2 and 4 bytes (7 for claims, enough for a vector of three ranges to become a tree and to merge again), images of up to 2 layers, 2 levels or aspects, 1 to 3 threads; see `MCTracking` |
| `barriers` | every conflicting pair of accesses is ordered, available and in its layout; every read sees the last write | 2 cells, 4 accesses, render passes of up to 3 draws, 2 record calls; 5 accesses outside and 7 in passes |

Why these bounds: a lost or early drop needs one thread between two steps while another moves the
last guard, and a generation beyond the first; a channel of one slot is full after one message, and
the second message meets a barrier in it. Three submissions are the least for a range to go to
another family and back while a third queue waits, and for a command buffer to be leased again; two
queues of one family tell family and queue apart. Two leases and two items fill a bucket of one
and overflow it. Four commands give two chains that cross, a merge of more than two, and a
selection that leaves something in the middle.

Two images and a slot added on the way are the least for a slot to be reused by another image and an
image by another slot; two resets for semaphores to be retired and then freed while presents of the
first swapchain are pending. A map of four cells has every way a range can meet runs (inside, at either end,
across several); with two and three threads the ranges are fixed and the interleavings complete:
one promotes, one assigns everything and so demotes, one reads. Four accesses are a writer, readers of two
stages and a writer; three draws make subpasses with one between them; two cells tell a partial
overlap from a full one.

For a cycle of waits two ranges have to cross between two queues: each of two submissions releases on the queue of the
other. `QueuesProceed` looks for that in every state, with any recorded submissions over the same ranges: while there is work
on the queues, some queue can do its first. The GPU takes a batch from a queue in each of its steps, so with the
fairness of `Spec` everything that was sent executes.

Deadlock checking is off: threads may stop when they have nothing more to do and the bounds are
reached.

Four more runs end in a counterexample, each against a sentence of the source or the guide.

* `fence_reset`: `Fence::reset` of a pending fence does not reset it but clears `queued`, so
  `Fence::drop` does not wait (`src/driver/fence.rs:213`, against line 144).
* `queue_abandon`: when a recorded submission is dropped, or `finish` fails after its first release,
  the release's command buffer goes back to the pool with its semaphore pending or signaled
  (`src/submission.rs:1382`, against `src/driver/cmd_buf.rs:187`).
* `queue_overlap`: two submissions of a range are recorded before either is submitted. Nobody does anything while something is
  being submitted; one thread is enough. The first is submitted and publishes itself as the owner, but the second goes
  by what it planned before (`src/submission.rs:1917`, against `guide/src/resource.md:90` and `guide/src/usage_thread.md:29`).
* `recording_retry`: a failed lease leaves entries in `recorded_commands`, and the next `record`
  uses them for other commands (`src/submission.rs:4570`, against the assertion in line 6973).

What else was seen while the code was modelled, without a run of its own:

* `FifoPool` and `LazyPool` ignore host access when they look for an image (`src/pool/fifo.rs:33`,
  `src/pool/lazy.rs:85`, against `src/pool/mod.rs:165`), and `LazyPool` compares `sampler_count` with
  `sampled_image_count` (`src/pool/lazy.rs:448`, against line 439). `MCPool` has the requests for the
  second (`Infos <- SamplerPools`, `Strategies = {"lazy"}`): TLC then finds `LeaseFitsRequest` violated.
* `debug_assert!(present_id.is_some())` (`src/driver/swapchain.rs:2099`) fails on a device without present
  wait after a rejected present. The run `graphchain` is a release build, where `NoAssertionFails` is about
  `expect("expected available image")` alone; with `DebugAssertions = TRUE` and `PresentWait = {FALSE}` it is violated.
* `ensure_frame_count` takes the frame slots before it creates more; an error leaves none and the next
  acquisition divides by zero (`crates/vk-graph-window/src/graphchain.rs:518`).
* `destroy_retired` removes a handle from its list before it waits for its presents; an error drops the handle
  with presents pending (`src/driver/swapchain.rs:795`, against the comment at line 824).
* An acquired image that is dropped instead of presented, as `graphchain.rs:486` allows, leaves the slot's
  acquire semaphore signaled.
* A client that holds an image while it acquires the next can get a slot twice: an acquisition that fails
  still advances `frame_idx` (`crates/vk-graph-window/src/graphchain.rs:187`), so the rotation returns to the slot of
  the held image, whose fence is not queued yet, and acquires with its signaled semaphore. With
  `MaxHeld = 2` TLC finds `AcquiresWithIdleSemaphore` violated.
* `Graphchain::drop` waits for `last_present_queue_index` only (`crates/vk-graph-window/src/graphchain.rs:601`). If
  images were presented on two queues, it destroys rendered semaphores for which a present on the other
  queue still waits: with two elements in `Queues` TLC finds `NothingDestroyedInUse` violated.
* `allow_merge_passes` (`src/submission.rs:2705`) may merge a pass that attaches an image with a later one that
  samples it, if they share another attachment. The image then has two layouts in one render pass,
  which `Barriers` excludes.
* A write-only shader access to an image at the beginning of a render pass discards its contents
  (`layout_transition_discard_contents`), the same access in an execution does not.
* In the instance of `barriers` the retirement of groups, the non-graphics stages of the external
  dependency, and a barrier for each access type of a buffer are not needed: without
  them both properties still hold. The tracker's `General`, the accumulation of sampled readers, `AnyShaderReadOther` in
  passes, the conditions of `Eligible` and `PassIsReadOnly`, the by-region rule and the edges to
  readers each are.

## Fairness

`FenceCleanup`: a worker runs while it has something to do, and a thread does not stop in the
middle of an observation: both are plain threads. Nothing is assumed of callers otherwise: no guard
is ever released and no fence observed for the sake of progress. `std`'s channel does not promise
that a sender blocked on a full channel is ever served, so `WaitAnswered` speaks of barriers that
are in the channel.

`QueueOwnership`: every queue executes what it can, and a thread goes on with the call it is in
(`Proceed`). A thread need not call `queue_submit` or observe a fence. The specification says so; what is checked
are safety properties, `QueuesProceed` among them, as the end of a drop is only the wait for releases that are queued.

`Graphchain`: the client finishes a call it has begun but need not begin one; each queue and the
presentation engine execute what they can, works, presents and signals separately.

`Tracking`: a thread that has begun an operation takes its next step if it can. Nothing is assumed of
mutexes beyond that one of the waiting threads gets the lock, so `SomebodyReturns` promises
progress of the system and not of each thread.

`Recording`, `Pool` and `Barriers` have safety properties only.

## Proofs

`FenceCleanupProofs` proves for any number of threads, fences and payloads, any channel capacity
and any faults, from the named assumptions of `FenceCleanup` only:

* `TypeCorrect`: `Spec => []TypeOK`. The guard counter is a natural number because it equals the
  number of guards that threads hold: `GuardsCounted` says that it is the cardinality of the set of
  `<<thread, n>>` pairs, and each step adds or removes one of them. `ObservesFence` (a thread in an
  observation has a fence) makes the assignments to that fence well typed.
* `HooksBeforeDrop`: `HooksRunBeforeDrop`. It is not inductive: a fence that unwinds or is
  dropped late must not have payloads that were neither hooked nor excused. `FenceInv` says what a
  fence and its one observer can look like (`OneObserver`, `ObservesSignaled`, `NothingLeft`,
  `DropsExcused`, `UnqueuedExcused`), `HooksInv` follows the batches through threads and
  channels.
* `DropsComeAfterSignal`: if `"reset"` is not among the faults, `DropsAfterSignal`; payloads of a fence whose own drop
  failed to wait are excused by name. `SignalInv` adds that a signaled fence's payloads are completed and that a fence which is not queued has none.
  Without that hypothesis the run `fence_reset` is the counterexample.
* `WorkerLives` and `WaitsAreCurrent`: `WorkerLifecycle` and `WaitsForCurrentWorker`. `LifeInv` adds
  that a thread which holds a guard implies a worker, that workers which ended are not current and
  have an empty channel, and that a thread which waits holds a guard.
* `WaitsCover`: `WaitCoversQueue`. `WaitInv` says that a caller has one barrier at most (`OneBarrier`), that what
  its wait covers is dropped, being dropped or ahead of that barrier (`Covered`), and that a worker with no
  failure to report has reported them all (`FailuresKnown`).

`QueueOwnershipProofs` proves for any ranges, queues, families, command buffers
and submissions:

* `TypeCorrect`: `Spec => []TypeOK`.
* `TrackingTells`: `TrackingTruthful`, also when submissions are abandoned. `TrackingInv` relates the
  tracker to the stage of its submission and to what the GPU has of it; the GPU may finish the work
  before, while or after the host attaches the commands.
* `WaitsExclude` and `ReleasesReuse`: `WaitsAreExclusive` and `ReleaseReusable`, if no submission is
  abandoned once it has submitted a release (`MayAbandon = FALSE`). The hypothesis is needed: the run
  `queue_abandon` is the counterexample, a finding about the code. `LeaseInv` is the
  ownership of a command buffer along its way: leased by one submission at most, waited for only
  by that one, and its semaphore is free exactly if nobody who is not executed leases it.
* `ContentsStayDefined`: `ContentsDefined` under the same hypothesis. This says that an owner which
  the host writes down while it records, long before the GPU gets there, is the owner the GPU finds, for ranges that are
  not disputed. The invariant `OwnerInv` orders those who were sent and claim a range: what precedes one on its queue or is waited
  for has been done before (`Before`), the source of every release is the last one before it (`Sources`), and the owner the
  host keeps is where the last of all leaves the range (`OwnerKnown`). Submissions that are recorded and not published
  leave the range in one family if there are several (`UsersAgree`), so they may be sent in any order: whoever comes later finds the range
  in the family it expects. It holds of executions in any order the queues and semaphores allow.

`PoolProofs` proves for any requests, items, leases, buckets and tags, whatever
the threads that give leases back do between the steps of the pool's owner:

* `TypeCorrect` and `OneOwnerEach`: `TypeOK` and `OneOwner`. `LeasesHeld` says that a lease in use is held
  or on its way back, `Owned` that an item which exists has one owner, in the words the steps need: an
  item that is idle or leased exists, and a bucket that has items is alive. The lemmas about `Kept`,
  `SwapRemove` and `Pushed` say what these make of a sequence, and `RetainKeeps` and `ReturnKeeps`
  what a step does to the items of every bucket; all later proofs use those instead of the
  definitions.
* `BucketsBounded`: `BucketBounded` if `Capacity > 0`. With a capacity of zero the first push lets the
  vector grow to four, as the standard library does. `Bounded` adds that a bucket keeps the
  room it was made with.
* `LeasesFit`: `LeaseFitsRequest` if `Compared`, that is, if requests for images have no host access or
  the pool is a `HashPool`, and the requests for descriptor pools that a `LazyPool` gets have no more
  samplers than sets. Without it the property is false; see what else was seen, above. `Keyed` says that the items of a bucket, and those that will go back to it, have
  its key, so that compatible means good enough (`CompatibleSatisfies`). `Fitting` adds that what a
  live alias says was asked for is among the requests of its lease: the cache compares a request with
  that and not with the item.
* `CollectionsKeep`: `CollectKeepsWorkingSet`, under the same hypothesis. `Asked` says that for an item
  lent since the last collection there is a noted request with its key that it is compatible with.

`GraphchainProofs` proves for any image counts, queues, present modes, limits and
number of recreations, with every step of the device at any time:

* `TypeCorrect`: `TypeOK`, with what a queue holds (`Ops`) and that the slots in use exist.
* `FewInFlight`: `InFlightLimited`. Unfinished work lies in a slot whose fence is queued (`Fenced`), and
  the oldest slots, which the code waits for, leave `MaxInFlight - 1`; the proof counts them with an injection.
* `NothingDestroyedBefore`: `NothingDestroyedInUse` until the graphchain is dropped, without a hypothesis.
  `Signaled` says that behind each present there is a signal, or the client is about to submit it,
  so that who waits for the signals waits for the presents. `Named` says of which reset the semaphores are
  that pending work signals and pending presents wait for; a reset without a recreation leaves no
  presents behind. `Handled` orders the handles.
* `NothingDestroyed`: the same also for the drop, if `Queues` has one element. `Drained` says what the
  drop has waited for, which with several queues is not enough (see what else was seen, above).
* `CommandBuffersNotPending`, `RenderedSignaledOnce`, `AcquiresSafely`, `AssertionsHold`: `CommandBufferNotPending`,
  `RenderedNotSignaledTwice`, `AcquiresWithIdleSemaphore` and `NoAssertionFails` if `MaxHeld = 1`, that is, if the client presents
  an image before it acquires the next, as the frame loop of `Window` does. A client that holds two images can
  break them, see what else was seen, above. `NoAssertionFails` also needs
  `DebugAssertions => PresentWait = {TRUE}`. `HeldOne`, `OneWork`, `OnePresent` and `Paired` say that a slot, an image, and
  a rendered semaphore each have one place in all the queues, and which: an image that is taken is held or
  presented; a semaphore that is signaled has the one present that waits for it.

`RecordingProofs` proves for any number of commands, resources and executions, any accesses, any commands that merge,
any sequence of selections and a failed lease:

* `RecordedOnce` and `OrderKept`: `EachOnce`, which includes `TypeOK`, and `HazardOrder`.
* `TimestampsFollow` and `TimestampsWritten`: `TimestampsInPlace` and `TimestampsComplete`.
* `SelectionsExact`: `SelectionExact`.

The invariant `RecInv` looks at the command buffer and the commands of the graph as rows of executions, the command buffer
first (`RowsOf`). The rows are sound (`IsSound`): every execution is in one place, a command's executions are together, and
those that share a resource are in order. A query asks for its timestamp where its execution is (`Asks`), and what
was written has its timestamps (`Stamped`). The proof follows the pipeline, a part at a time:

* `ReorderIsOrder`: `Reorder` has every selected command once, and of two that share a resource the earlier one
  first. Two things are needed. While commands remain, one is ready, for the first of them has nothing before it.
  And a command is ready only when each resource's previous user was placed, also if the chain of
  that resource is left out: then an equal chain, with the same previous user, is not (`ChainRepresents`).
* `RequiredIsClosed`, `RequiredIsLeast`: a selection has what precedes each of its commands, and what it has that it was
  not asked for precedes another.
* `MergedIsLaid`, `MergeRegroups`, `RegroupedIsSound`: merging lays the ordered commands out whole and in
  order, and rows that are regrouped like that stay sound. `QueriesMove`: queries follow.
* `RecordEachWrites`, `WrittenIsSound`, `WrittenIsStamped`: what is written is the merged commands, with the marks
  at their place; moving the first rows to the command buffer keeps the rows sound.

`SelectionExact` needs more: until a lease fails every row is one command (`Singles`), and a selection is then the
commands it asks for. `SelInv` adds that.

What `Placed`, `Merged` and `RecordEach` compute is defined by recursion. The library's induction rules are out of the prover's
reach, so these lemmas argue by the least number for which the claim is false (`LeastNat`), also for the claim that
there is such a function (`PlacedExists`, `MergingExists`, `RecordingExists`).

Every invariant is split into a step per action, grouped as `Caller`, `Worker`, `Fence` and
`LoseDevice`, or `Submission`, `Proceed` and `Gpu`, or `Continue`, `Call` and `Device`, are in the specification.

`OwnerProofs` proves for any number of threads, any owners, and buffers and images of any size, first of the trackers of owners
(`IsSharing`):

* `RangeSet` and `DenseRangeSet`: assigning a range gives its bytes, or subresources, the value and leaves the others alone. The runs
  stay sorted and merged and the count of transitions exact. The early return, the split of a uniform
  map and the replacement of runs are one case each; `Spliced` is the last of them, in terms of how many of the old runs stay
  in front of and behind the new ones. Where a box of subresources lies among the cells of an image is arithmetic (`Division`, `RangeInImage`).
* `SharingLinearizable`: `Linearizable`, that is, `Spec` with `IsSharing` implements `AtomicMap`. `InitMaps` and
  `NextMaps` are the two halves of the argument, with a lemma for each step of the tracker. An assignment takes effect with the
  compare-exchange if that succeeds, with the store of the word if all is assigned under the lock, and at the
  moment the map takes over from the word, with all of its ranges at once, if it is for ranges: nobody can look at the map before they are
  written. A query takes effect with the load of the word, or with the look under the lock.
* `SharingInForm`: `StoreInForm`, which includes the types.

The invariant `SharingInv` says who has the lock and who has an answer (`ThreadForm`); that a thread about to exchange assigns
everything and expects an owner; that while ranges are assigned the map counts, and has the value in those that
are done (`Assigning`); and what the map is (`MapForm`): well formed always, of one run while the word of a buffer counts, which the
next promotion trusts, and with a difference while the map counts. From it follows what the tracker says (`ContentForm`), in the
three forms that the steps need. `MapInv` adds that the maps remembered for a query are none unless a
thread waits for its answer. `SharingAssumption` has what the methods allow: owners are no `DENSE`, a query is for one
range. `NoneAssumption` is the model's own: what stands for an absent operation, answer or map is not one.

Of the claims of a recording (`IsClaims`) `OwnerProofs` proves, for any commands, owners and overlapping ranges:

* `ClaimIs`: a claim hands out just what was not claimed of its range, each part once, whatever the form of the claims, and
  leaves them in form. For a buffer the range is merged with those that it touches (`MergedIs`) and cut where these
  begin and end; that a buffer of `n` bytes has at most `(n + 1) / 2` ranges that do not touch,
  which bounds how many a merge moves, is `HalfAsMany`. For an image the map is swapped
  piece by piece: `TakesPiece` is one item of the cursor, and `SwapTrue` as many as it takes.
* `RecordingLinearizable`: `Linearizable`, that is, `Spec` with `IsClaims` implements `AtomicMap`. A command takes effect when
  its barriers are recorded (`RecordMaps`); tracking it changes nothing that can be seen (`TrackMaps`), as what was not
  claimed and is claimed now is planned to be taken from its owner.
* `RecordingInForm`: `StoreInForm`, which includes the types.

What these rest on is how ranges are divided. A box is the product of its sides, and numbers that cut a side
divide it into spans (`SideCut`); so cuts divide any range into parts that cover it and do not overlap, and a range
that the cuts border is crossed by no part (`SplitBytes`, `SplitBoxes`, `SplitParts`). Ranges intersect if and only if they share a
cell (`RangesShare`), which is why it is enough to compare sides. `Tiles` is what such parts keep through one division after another,
by the trackers' parts (`SplitTiles`) and by the transfers that a range meets (`BarriersDivide`). The invariant
`ClaimsInv` has the form of the claims; says that what a command in the queue uses is claimed; and ties each planned transfer to
the first command of the queue that uses any part of it, which uses all of it (`PlanAt`). That is what makes it right to forget whole transfers:
when the first of the queue leaves, it has met a transfer either entirely or not at all (`PlansLeave`), so each part of
its range is either in one planned transfer or needs none (`BarriersAcquire`). `ClaimsAssumption` has what
the model chose: a command uses one range, and the families that a cell may be acquired from are among the tracker's values.

`AccessProofs` proves the same of the trackers of accesses (`IsAccess`), whose threads assign a range piece by piece while an
iterator hands out what was there before:

* `IteratorsCover`: `PiecesCover`, for trackers of every kind, as the others have no iterators.
* `AccessLinearizable`: `Linearizable`, that is, `Spec` with `IsAccess` implements `AtomicMap`. `AccessBegins` and `AccessMaps`
  are the two halves, with a lemma for each step of the tracker.
* `AccessInForm`: `StoreInForm`, which includes the types.
* `TrackersLinearizable` and `TrackersInForm`: so for every tracker, as there are these three kinds and no other; no
  hypothesis but the specification is left.

`AccessInv` says who has the lock, what a thread has decided (`AccessThread`), and what word and map are between accesses
(`AccessMap`). In the middle of an access the store is not a map in form: in a buffer the cursor writes behind where it reads, so
there is a gap of stale runs, and a map of subresources may be left with equal values that still count as different. `Items` is the invariant of
an iterator that is under way. It says where its cursor stands, what the runs are without the gap, and that the answer has the cells that the cursor
has passed and no others. What it rests on are two lemmas about the cursors, for runs and shapes of any size:

* `NextPiece`: one item of the cursor of `RunMap` hands out bytes that had one value and puts the new one there. The proof has a case for
  each way to write (`WriteSplit`, `WritePut`, `WriteSkip`) and to close the gap (`CloseCut`, `CloseOpen`). Without the gap the runs are spliced as in `RangeSet`.
* `NextPieceOfImage`: one item of the cursor of `DenseMap` is a rectangle of subresources that had one value. `Places` numbers the subresources of a range
  in the order of the cursor; the rectangle is a block of them, and the cursor passes those and no others.

While a thread promotes a word, or its iterator runs, the map is neither what it was nor what it will be. `BeforePromoting` and `BeforePieces`
say what it is instead: what was there before, with the operation carried out in the cells that the iterator has not handed out yet, for it
will. So an operation on a part takes effect, with all of its answer, when the word is marked as promoting or the map is found dense
(`SetPromotingStep`, `FindDenseStep`); copying the word into the map (`CaptureStep`, `SetDenseStep`), each item (`ItemStutters`) and the demotion at
the end (`TryDemoteStep`) then change nothing that can be seen: what the map has gained is what the answer has lost. Only
its thread may touch word and map meanwhile (`HolderStep`). An operation on the whole map takes effect with its exchange of the word, a
query with its look at the word or the map. `AccessPast` adds to the invariant what is remembered for a query: a reader of an image who
has seen the state but not yet the set may find a newer set, or one that is stale, but then the map had that value at some moment since
the call (`Settled`). `AccessAssumption` has what the methods allow: a swap or a mark is about one range, and only images are marked.

`BarriersProofs` proves for any number of cells, any ranges, any executions, render passes of any length and record calls
in any sequence, and the accesses that `BarriersAssumption` lists:

* `AccessesStayOrdered`: `AccessesOrdered`, which includes `TypeOK`, whether or not barriers between reads pass on what the
  first one sees.
* `ReadsSeeTheirWrites`: `ReadsSeeWrites` if `ReadersPassOn`. Without it the property is false (see Barriers, above).

`BarriersInv` says of each cell what the tracker knows about the accesses the device has. A cell that the current
pass does not use is at rest (`Still`): each earlier access has a stage among those remembered in its chain
(`OpStill`), so the next barrier waits for it (`StillMeets`), a write that is not available yet is remembered as one, and a
sampled reader that needs no barrier is ordered already. The layout is that of the remembered accesses. A cell of
the pass is on its way (`Mid`): its earlier accesses are followed by all subpasses that have begun, those of the pass by the later
subpasses wherever one of the two writes or the image is read in the general layout (`Tied`), and the tracker has what it needs
after the pass (`TrackedMid`). The steps are:

* `BufferWaits`, `ImageWaits`: after the barriers of an access all earlier accesses are waited for, with or without
  a layout transition; `BeginMid` is this for the first use of a cell in a pass, `TrackedBefore` what the tracker has
  afterwards.
* `InternalOrders`: a subpass that is tied to an earlier one is reached from it along dependencies, although edges are left out
  for readers and retired for chained groups. The proof takes the first kept group behind the source (`KeptExists`,
  `KeptAre`, `KeptSome`) and follows it; the by-region rule holds since both ends are attachments.
* `SharingDraws`: draws in one subpass do not conflict, unless both are attachments in raster order.
* `EndMid`: when the pass ends, what it did is at rest again; the last use of the cell comes after all others that matter.

`BarriersAssumption` lists the kinds of access that commands of the model make, one for each combination of stage, direction
and layout that the code treats differently; `General` and `AnyShaderReadOther` occur only in what trackers remember.

Only model-checked: the liveness properties (the prover does not handle fairness). All other properties of the passing
runs are theorems.

## Not modelled

* Batches of several ranges in one access; the claims and the cached queue of image sets; image
  layouts in ownership transfers.
* In `Barriers`: depth and stencil, resolves, input attachments, acceleration structures, micromaps, the
  acquires of queue ownership transfers (see `QueueOwnership`) with their source scopes, load and store
  operations, and the attachment descriptions of `build_render_pass_info`.
* Descriptor writes, pipelines, shader reflection: objects made once from tables.
* Command streams, the conversion of timestamp results, device queue locks (`with_queue`, `wait_idle`).
* Surfaces, presents of several swapchains in one batch, the window's event loop.
* Vulkan object creation, the builder interface and the accessory crates. The vendored and generated
  parts of the tree, examples and shaders are not part of the system's logic.

## Plan

In the order of importance; the first nine are done.

1. `FenceCleanup`, with its proofs.
2. `QueueOwnership`.
3. `Recording`.
4. `Pool`.
5. `Swapchain` and `Graphchain`.
6. `Tracking` and the abstract `AtomicMap` it implements.
7. `Barriers` and `SyncRules`.
8. `Claims`: what overlapping claims of one recording acquire, and from whom.
9. Proofs of `QueueOwnership`, `Pool`, `Graphchain`, `Recording`, `Barriers` and the trackers: of `Sharing`, of `Access`,
   whose iterators do in many steps what is one of `AtomicMap`, and of `Claims`.
10. `CommandStream`: one prepared submission inserted many times; and `QueueLocks`: the order in
   which `with_queue` and `wait_idle` take the locks.
11. An abstract payload life cycle (attached, completed, hooked, dropped) which `FenceCleanup`
   implements under the mapping its history variables give, and the proof of that.
