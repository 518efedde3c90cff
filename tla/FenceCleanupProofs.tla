-------------------------- MODULE FenceCleanupProofs --------------------------
(***************************************************************************)
(* Theorems about FenceCleanup, for any number of threads, fences and       *)
(* payloads, any channel capacity and any combination of faults.            *)
(***************************************************************************)
EXTENDS FenceCleanup, FiniteSetTheorems, SequenceTheorems, TLAPS

-----------------------------------------------------------------------------
(* Counting guards                                                         *)

\* The guards that are alive, one element each.
GuardSet == {t \in Callers \X Nat : 1 <= t[2] /\ t[2] <= guards[t[1]]}

\* The counter behind the mutex counts the guards that the threads hold.
GuardsCounted ==
    IsFiniteSet(GuardSet) /\ guardCount = Cardinality(GuardSet)

\* A thread in the middle of an observation has a fence.
Observing(c) == pc[c] \in {"enqueue", "handle", "send", "finish"}
ObservesFence == \A c \in Callers : Observing(c) => fence[c] \in Fences

\* What type correctness rests on.
Typed == TypeOK /\ GuardsCounted /\ ObservesFence

\* A thread that holds a guard is counted.
LEMMA HolderCounted ==
    ASSUME Typed, NEW c \in Callers, guards[c] > 0
    PROVE  guardCount > 0 /\ <<c, guards[c]>> \in GuardSet
<1>1. <<c, guards[c]>> \in GuardSet
  BY DEF Typed, TypeOK, GuardSet
<1>2. GuardSet # {} /\ IsFiniteSet(GuardSet)
  BY <1>1 DEF Typed, GuardsCounted
<1>3. Cardinality(GuardSet) # 0 /\ Cardinality(GuardSet) \in Nat
  BY <1>2, FS_EmptySet, FS_CardinalityType
<1> QED
  BY <1>1, <1>3 DEF Typed, GuardsCounted

\* The last of the guards is the only one.
LEMMA LastGuard ==
    ASSUME Typed, guardCount = 1,
           NEW c \in Callers, guards[c] > 0, NEW d \in Callers, guards[d] > 0
    PROVE  c = d /\ guards[c] = 1
<1>1. \E t : GuardSet = {t}
  BY FS_Singleton DEF Typed, GuardsCounted
<1>2. /\ <<c, guards[c]>> \in GuardSet /\ <<d, guards[d]>> \in GuardSet
      /\ <<c, 1>> \in GuardSet
  BY HolderCounted DEF Typed, TypeOK, GuardSet
<1>3. <<c, guards[c]>> = <<d, guards[d]>> /\ <<c, guards[c]>> = <<c, 1>>
  BY <1>1, <1>2
<1> QED
  BY <1>3

\* Without a guard there is nothing to count.
LEMMA NoGuards ==
    ASSUME Typed, guardCount = 0, NEW c \in Callers
    PROVE  guards[c] = 0
BY HolderCounted DEF Typed, TypeOK

\* Enable counts a guard more and Release one less, whoever holds it.
LEMMA GuardsCountedStep ==
    ASSUME Typed, [Next]_vars
    PROVE  GuardsCounted'
<1>1. ASSUME NEW c \in Callers, Enable(c)
      PROVE  GuardsCounted'
  <2>1. GuardSet' = GuardSet \cup {<<c, guards[c] + 1>>}
    BY <1>1 DEF Enable, GuardSet, Typed, TypeOK
  <2>2. <<c, guards[c] + 1>> \notin GuardSet
    BY DEF GuardSet, Typed, TypeOK
  <2> QED
    BY <1>1, <2>1, <2>2, FS_AddElement DEF Enable, GuardsCounted, Typed
<1>2. ASSUME NEW c \in Callers, Release(c)
      PROVE  GuardsCounted'
  <2>1. GuardSet' = GuardSet \ {<<c, guards[c]>>}
    BY <1>2 DEF Release, GuardSet, Typed, TypeOK
  <2>2. <<c, guards[c]>> \in GuardSet
    BY <1>2, HolderCounted DEF Release
  <2> QED
    BY <1>2, <2>1, <2>2, FS_RemoveElement DEF Release, GuardsCounted, Typed
<1>3. ASSUME UNCHANGED <<guards, guardCount>>
      PROVE  GuardsCounted'
  BY <1>3 DEF GuardsCounted, GuardSet, Typed
<1>4. UNCHANGED <<guards, guardCount>>
        \/ \E c \in Callers : Enable(c) \/ Release(c)
  <2>1. ASSUME NEW c \in Callers, Caller(c)
        PROVE  UNCHANGED <<guards, guardCount>> \/ Enable(c) \/ Release(c)
    <3>1. CASE Proceed(c)
      BY <3>1 DEF Proceed, CheckEnabled, CloneHandle, TrySend, Return, FinishReset,
                  FinishDrop, Done, deviceVars
    <3>2. CASE StartWait(c) \/ SendBarrier(c)
      BY <3>2 DEF StartWait, SendBarrier, deviceVars
    <3>3. CASE ObserveAny(c)
      BY <3>3 DEF ObserveAny, ObserveSync, ObserveSyncPanics, ObserveBackground,
                  deviceVars
    <3> QED
      BY <2>1, <3>1, <3>2, <3>3 DEF Caller
  <2>2. ASSUME NEW w \in Generation, Worker(w)
        PROVE  UNCHANGED <<guards, guardCount>>
    BY <2>2 DEF Worker, Receive, DropNext, Answer, Exit, deviceVars
  <2>3. ASSUME NEW f \in Fences, Fence(f)
        PROVE  UNCHANGED <<guards, guardCount>>
    BY <2>3 DEF Fence, Submit, Complete, ResetPending, DropUnobserved, DropUnwaited,
                DropPanicking, deviceVars
  <2>4. LoseDevice \/ UNCHANGED vars => UNCHANGED <<guards, guardCount>>
    BY DEF LoseDevice, vars, deviceVars
  <2> QED
    BY <2>1, <2>2, <2>3, <2>4 DEF Next
<1> QED
  BY <1>1, <1>2, <1>3, <1>4

-----------------------------------------------------------------------------
(* Types                                                                   *)

LEMMA PanicsType == Panics \subseteq BOOLEAN
BY DEF Panics

LEMMA TypeInit == Init => Typed
<1> SUFFICES ASSUME Init PROVE Typed
  OBVIOUS
<1>1. TypeOK
  <2>1. /\ 0 \in Nat /\ 0 \in 0..MaxGenerations
        /\ <<>> \in Seq(Message)
        /\ [f \in Fences |-> gpu[f] = "signaled"] \in [Fences -> BOOLEAN]
    BY GenerationsAssumption
  <2>2. /\ gpu \in [Fences -> {"unsignaled", "pending", "signaled"}]
        /\ pc \in [Callers -> {"idle", "enqueue", "handle", "send", "finish",
                               "barrier", "reply"}]
        /\ operation \in [Callers -> Operation]
        /\ fence \in [Callers -> Fences \cup {Nil}]
    BY DEF Init, Operation
  <2> QED
    BY <2>1, <2>2 DEF Init, TypeOK, None
<1>2. GuardSet = {}
  BY DEF Init, GuardSet
<1> QED
  BY <1>1, <1>2, FS_EmptySet DEF Typed, GuardsCounted, ObservesFence, Observing, Init

LEMMA QueueElements ==
    ASSUME TypeOK, NEW w \in Generation, NEW i \in DOMAIN queue[w]
    PROVE  queue[w][i] \in Message
<1>1. queue[w] \in Seq(Message)
  BY DEF TypeOK
<1> QED
  BY <1>1

LEMMA QueuedType ==
    ASSUME TypeOK, NEW w \in Generation
    PROVE  QueuedPayloads(w) \in SUBSET Payloads
<1>1. dropping[w] \in SUBSET Payloads
  BY DEF TypeOK
<1>2. \A i \in DOMAIN queue[w] : queue[w][i].batch \in SUBSET Payloads
  BY QueueElements DEF Message
<1> QED
  BY <1>1, <1>2 DEF QueuedPayloads

\* A message more keeps a channel's type.
LEMMA QueueAppend ==
    ASSUME TypeOK, NEW v, NEW m \in Message
    PROVE  [queue EXCEPT ![v] = Append(@, m)] \in [Generation -> Seq(Message)]
<1>1. queue \in [Generation -> Seq(Message)]
  BY DEF TypeOK
<1>2. \A s \in Seq(Message) : Append(s, m) \in Seq(Message)
  OBVIOUS
<1> QED
  BY <1>1, <1>2

\* Everything a caller does to guards and barriers keeps the types.
LEMMA TypeGuards ==
    ASSUME Typed, NEW c \in Callers,
           Enable(c) \/ Release(c) \/ StartWait(c) \/ SendBarrier(c)
    PROVE  TypeOK'
<1> USE DEF Typed, TypeOK, Generation, None
<1> USE DEF deviceVars, workerVars, fenceVars, callerVars, lifetime, waitVars
<1>1. CASE Enable(c)
  <2>1. spawned < MaxGenerations =>
            spawned + 1 \in 1..MaxGenerations /\ spawned + 1 \in 0..MaxGenerations
    BY GenerationsAssumption
  <2>2. guards' \in [Callers -> Nat] /\ guardCount' \in Nat
    BY <1>1 DEF Enable
  <2> QED
    BY <1>1, <2>1, <2>2 DEF Enable
<1>2. CASE Release(c)
  <2>1. guardCount > 0
    BY <1>2, HolderCounted DEF Release
  <2>2. guardCount - 1 \in Nat /\ guards[c] - 1 \in Nat
    BY <1>2, <2>1 DEF Release
  <2> QED
    BY <1>2, <2>2 DEF Release
<1>3. CASE StartWait(c)
  <2>1. worker # None => QueuedPayloads(worker) \in SUBSET Payloads
    BY QueuedType
  <2> QED
    BY <1>3, <2>1 DEF StartWait
<1>4. CASE SendBarrier(c)
  <2>1. Barrier(c) \in Message
    BY DEF Barrier, Message
  <2>2. queue' \in [Generation -> Seq(Message)]
    BY <1>4, <2>1, QueueAppend DEF SendBarrier
  <2> QED
    BY <1>4, <2>2 DEF SendBarrier
<1> QED
  BY <1>1, <1>2, <1>3, <1>4

\* So does everything a worker does.
LEMMA TypeWorker ==
    ASSUME Typed, NEW w \in Generation,
           Receive(w) \/ DropNext(w) \/ Answer(w) \/ Exit(w)
    PROVE  TypeOK'
<1> USE DEF Typed, TypeOK
<1> USE DEF deviceVars, workerVars, fenceVars, callerVars, lifetime, waitVars
<1>1. ASSUME queue[w] # <<>>
      PROVE  /\ Head(queue[w]) \in Message
             /\ [queue EXCEPT ![w] = Tail(@)] \in [Generation -> Seq(Message)]
  BY <1>1
<1>2. CASE Receive(w)
  BY <1>1, <1>2 DEF Receive, Waiting, Message
<1>3. CASE DropNext(w)
  BY <1>3, PanicsType DEF DropNext
<1>4. CASE Answer(w)
  BY <1>1, <1>4 DEF Answer, Waiting, Message
<1>5. CASE Exit(w)
  BY <1>5 DEF Exit
<1> QED
  BY <1>2, <1>3, <1>4, <1>5

\* An observation, and the rest of one.
LEMMA TypeObserve ==
    ASSUME Typed, NEW c \in Callers, ObserveAny(c) \/ Proceed(c)
    PROVE  TypeOK'
<1> USE DEF Typed, TypeOK
<1> USE DEF deviceVars, workerVars, fenceVars, callerVars, lifetime, waitVars
<1>1. ASSUME NEW f \in Fences, NEW op \in Operation, ObserveSync(c, f, op)
      PROVE  TypeOK'
  BY <1>1, PanicsType DEF ObserveSync, Observe
<1>2. ASSUME NEW f \in Fences, NEW op \in Operation, ObserveSyncPanics(c, f, op)
      PROVE  TypeOK'
  BY <1>2 DEF ObserveSyncPanics, Observe
<1>3. ASSUME NEW f \in Fences, NEW op \in Operation, ObserveBackground(c, f, op)
      PROVE  TypeOK'
  BY <1>3, PanicsType DEF ObserveBackground, Observe
<1>4. CASE CheckEnabled(c)
  BY ZenonT(40), <1>4 DEF CheckEnabled, DropHere
<1>5. CASE CloneHandle(c)
  BY ZenonT(40), <1>5 DEF CloneHandle, DropHere
<1>6. CASE TrySend(c)
  <2>1. DropMessage(batch[c]) \in Message
    BY DEF DropMessage, Message
  <2>2. queue' \in [Generation -> Seq(Message)]
    <3> HIDE DEF Typed, TypeOK
    <3>1. queue' \in {queue,
              [queue EXCEPT ![handle[c]] = Append(@, DropMessage(batch[c]))]}
      BY <1>6 DEF TrySend
    <3>2. TypeOK
      BY DEF Typed
    <3>3. [queue EXCEPT ![handle[c]] = Append(@, DropMessage(batch[c]))]
            \in [Generation -> Seq(Message)]
      BY ONLY <2>1, <3>2, QueueAppend
    <3>4. queue \in [Generation -> Seq(Message)]
      BY <3>2 DEF TypeOK
    <3> QED
      BY <3>1, <3>3, <3>4
  <2>3. \/ /\ batch' = [batch EXCEPT ![c] = {}]
           /\ handle' = [handle EXCEPT ![c] = None]
           /\ pc' = [pc EXCEPT ![c] = "finish"]
           /\ dropped' \in {dropped, dropped \cup batch[c]}
    BY <1>6 DEF TrySend, DropHere
  <2> QED
    BY <1>6, <2>2, <2>3 DEF TrySend
<1>7. CASE Return(c)
  BY <1>7 DEF Return, Done, Operation
<1>8. CASE FinishReset(c)
  BY <1>8 DEF FinishReset, Done, Operation
<1>9. CASE FinishDrop(c)
  <2>1. dropped' \in SUBSET Payloads /\ payloads' \in [Fences -> SUBSET Payloads]
    BY <1>9 DEF FinishDrop, Done, ObservesFence, Observing
  <2> QED
    BY <1>9, <2>1 DEF FinishDrop, Done, Operation
<1> QED
  BY <1>1, <1>2, <1>3, <1>4, <1>5, <1>6, <1>7, <1>8, <1>9 DEF ObserveAny, Proceed

\* And the GPU, the submitting side and the device.
LEMMA TypeFence ==
    ASSUME Typed, LoseDevice \/ \E f \in Fences : Fence(f)
    PROVE  TypeOK'
<1> USE DEF Typed, TypeOK
<1> USE DEF deviceVars, workerVars, fenceVars, callerVars, lifetime, waitVars
<1>1. CASE LoseDevice
  BY <1>1 DEF LoseDevice
<1>2. ASSUME NEW f \in Fences, NEW S \in SUBSET (Payloads \ attached), Submit(f, S)
      PROVE  TypeOK'
  BY <1>2 DEF Submit
<1>3. ASSUME NEW f \in Fences, Complete(f)
      PROVE  TypeOK'
  BY <1>3 DEF Complete
<1>4. ASSUME NEW f \in Fences, ResetPending(f)
      PROVE  TypeOK'
  BY <1>4 DEF ResetPending
<1>5. ASSUME NEW f \in Fences, DropUnobserved(f)
      PROVE  TypeOK'
  BY <1>5 DEF DropUnobserved
<1>6. ASSUME NEW f \in Fences, DropPanicking(f)
      PROVE  TypeOK'
  BY <1>6 DEF DropPanicking
<1>7. ASSUME NEW f \in Fences, DropUnwaited(f)
      PROVE  TypeOK'
  BY <1>7 DEF DropUnwaited
<1> QED
  BY <1>1, <1>2, <1>3, <1>4, <1>5, <1>6, <1>7 DEF Fence

LEMMA ObservesFenceStep ==
    ASSUME Typed, [Next]_vars
    PROVE  ObservesFence'
<1> USE DEF Typed, TypeOK, ObservesFence, Observing, callerVars, vars
<1>1. CASE UNCHANGED vars
  BY <1>1
<1>2. ASSUME NEW c \in Callers,
             Enable(c) \/ Release(c) \/ StartWait(c) \/ SendBarrier(c)
      PROVE  ObservesFence'
  BY <1>2 DEF Enable, Release, StartWait, SendBarrier
<1>3. ASSUME NEW c \in Callers, NEW f \in Fences, NEW op \in Operation,
             \/ ObserveSync(c, f, op) \/ ObserveSyncPanics(c, f, op)
             \/ ObserveBackground(c, f, op)
      PROVE  ObservesFence'
  BY ZenonT(40), <1>3 DEF ObserveSync, ObserveSyncPanics, ObserveBackground, Observe
<1>4. ASSUME NEW c \in Callers, CheckEnabled(c) \/ CloneHandle(c) \/ TrySend(c)
      PROVE  ObservesFence'
  <2>1. Observing(c) /\ fence' = fence /\ \A d \in Callers : d # c => pc'[d] = pc[d]
    BY <1>4 DEF CheckEnabled, CloneHandle, TrySend, DropHere
  <2> QED
    BY <2>1
<1>5. ASSUME NEW c \in Callers, Done(c)
      PROVE  ObservesFence'
  BY <1>5 DEF Done
<1>6. ASSUME NEW w \in Generation, Receive(w) \/ DropNext(w) \/ Exit(w)
      PROVE  ObservesFence'
  BY <1>6 DEF Receive, DropNext, Exit
<1>7. ASSUME NEW w \in Generation, Answer(w)
      PROVE  ObservesFence'
  BY <1>7 DEF Answer
<1>8. ASSUME NEW f \in Fences, Fence(f)
      PROVE  ObservesFence'
  BY <1>8 DEF Fence, Submit, Complete, ResetPending, DropUnobserved, DropUnwaited,
              DropPanicking
<1>9. CASE LoseDevice
  BY <1>9 DEF LoseDevice
<1> QED
  BY <1>1, <1>2, <1>3, <1>4, <1>5, <1>6, <1>7, <1>8, <1>9
  DEF Next, Caller, Worker, ObserveAny, Proceed, Return, FinishReset, FinishDrop

LEMMA TypeStep == Typed /\ [Next]_vars => Typed'
<1> SUFFICES ASSUME Typed, [Next]_vars PROVE Typed'
  OBVIOUS
<1>1. CASE UNCHANGED vars
  BY <1>1, GuardsCountedStep, ObservesFenceStep
  DEF Typed, TypeOK, vars, deviceVars, workerVars, fenceVars, callerVars, lifetime, waitVars
<1>2. ASSUME NEW c \in Callers, Caller(c)
      PROVE  TypeOK'
  BY <1>2, TypeGuards, TypeObserve DEF Caller
<1>3. ASSUME NEW w \in Generation, Worker(w)
      PROVE  TypeOK'
  BY <1>3, TypeWorker DEF Worker
<1> QED
  BY <1>1, <1>2, <1>3, TypeFence, GuardsCountedStep, ObservesFenceStep DEF Typed, Next

\* Every variable keeps its type; above all, the guard counter never underflows.
THEOREM TypeCorrect == Spec => []TypeOK
<1>1. Spec => []Typed
  BY TypeInit, TypeStep, PTL DEF Spec
<1>2. Typed => TypeOK
  BY DEF Typed
<1> QED
  BY <1>1, <1>2, PTL

-----------------------------------------------------------------------------
(* Fences under observation                                                *)

\* A fence is observed by one thread, and stays signaled meanwhile.
OneObserver ==
    \A c, d \in Callers : fence[c] # Nil /\ fence[c] = fence[d] => c = d
ObservesSignaled ==
    \A c \in Callers : fence[c] # Nil => gpu[fence[c]] = "signaled"

\* An observation that does not unwind has emptied the fence.
NothingLeft ==
    \A c \in Callers : fence[c] # Nil /\ ~unwinding[c] => payloads[fence[c]] = {}

\* One that ends in the fence's drop leaves what a panic excuses.
DropsExcused ==
    \A c \in Callers :
        fence[c] # Nil /\ operation[c] = "drop" => payloads[fence[c]] \subseteq excused

\* So does a fence that is not queued, or whose device is lost.
UnqueuedExcused ==
    \A f \in Fences : ~queued[f] \/ lost => payloads[f] \subseteq excused

FenceInv ==
    OneObserver /\ ObservesSignaled /\ NothingLeft /\ DropsExcused /\ UnqueuedExcused

LEMMA FenceInvInit == Init => FenceInv
BY NilAssumption DEF Init, FenceInv, OneObserver, ObservesSignaled, NothingLeft, DropsExcused,
   UnqueuedExcused

\* The histories only grow.
LEMMA HistoryGrows ==
    ASSUME [Next]_vars
    PROVE  hooked \subseteq hooked' /\ excused \subseteq excused'
             /\ completed \subseteq completed' /\ unwaited \subseteq unwaited'
<1> USE DEF lifetime
<1>1. ASSUME NEW c \in Callers, Caller(c)
      PROVE  /\ hooked \subseteq hooked' /\ UNCHANGED <<completed, unwaited>>
             /\ excused \subseteq excused'
  BY <1>1 DEF Caller, ObserveAny, Proceed, Enable, Release, StartWait, SendBarrier,
              ObserveSync, ObserveSyncPanics, ObserveBackground, CheckEnabled,
              CloneHandle, TrySend, Return, FinishReset, FinishDrop, Done
<1>2. ASSUME NEW w \in Generation, Worker(w)
      PROVE  UNCHANGED <<hooked, excused, completed, unwaited>>
  BY <1>2 DEF Worker, Receive, DropNext, Answer, Exit
<1>3. ASSUME NEW f \in Fences, Fence(f)
      PROVE  /\ UNCHANGED hooked /\ excused \subseteq excused'
             /\ completed \subseteq completed' /\ unwaited \subseteq unwaited'
  BY <1>3 DEF Fence, Submit, Complete, ResetPending, DropUnobserved, DropUnwaited,
              DropPanicking
<1>4. CASE LoseDevice
  BY <1>4 DEF LoseDevice
<1>5. CASE UNCHANGED vars
  BY <1>5 DEF vars
<1> QED
  BY <1>1, <1>2, <1>3, <1>4, <1>5 DEF Next

\* A thread begins to observe a free fence.
LEMMA FenceInvObserve ==
    ASSUME Typed, FenceInv, NEW c \in Callers, NEW f \in Fences, NEW op \in Operation,
           \/ ObserveSync(c, f, op) \/ ObserveSyncPanics(c, f, op)
           \/ ObserveBackground(c, f, op)
    PROVE  FenceInv'
<1>1. /\ \A d \in Callers : fence[d] # f
      /\ gpu[f] = "signaled" /\ f # Nil
      /\ fence' = [fence EXCEPT ![c] = f]
      /\ operation' = [operation EXCEPT ![c] = op]
      /\ UNCHANGED <<gpu, queued, lost>>
  BY NilAssumption
  DEF ObserveSync, ObserveSyncPanics, ObserveBackground, Observe, Free
<1>2. /\ payloads' = payloads \/ payloads' = [payloads EXCEPT ![f] = {}]
      /\ \E b \in BOOLEAN : unwinding' = [unwinding EXCEPT ![c] = b]
      /\ unwinding'[c] \/ payloads'[f] = {}
      /\ op = "drop" => payloads'[f] \subseteq excused'
      /\ excused \subseteq excused'
  <2>1. CASE ObserveSync(c, f, op) \/ ObserveBackground(c, f, op)
    BY <2>1, PanicsType DEF ObserveSync, ObserveBackground, Typed, TypeOK
  <2>2. CASE ObserveSyncPanics(c, f, op)
    BY <2>2 DEF ObserveSyncPanics, Typed, TypeOK
  <2> QED
    BY <2>1, <2>2
<1>3. OneObserver' /\ ObservesSignaled'
  BY <1>1 DEF FenceInv, OneObserver, ObservesSignaled, Typed, TypeOK
<1>4. NothingLeft' /\ DropsExcused'
  BY <1>1, <1>2 DEF FenceInv, NothingLeft, DropsExcused, Typed, TypeOK
<1>5. UnqueuedExcused'
  BY <1>1, <1>2 DEF FenceInv, UnqueuedExcused, Typed, TypeOK
<1> QED
  BY <1>3, <1>4, <1>5 DEF FenceInv

\* And ends it.
LEMMA FenceInvDone ==
    ASSUME Typed, FenceInv, NEW c \in Callers,
           Return(c) \/ FinishReset(c) \/ FinishDrop(c)
    PROVE  FenceInv'
<1>1. /\ fence[c] \in Fences /\ fence[c] # Nil
      /\ fence' = [fence EXCEPT ![c] = Nil]
      /\ operation' = [operation EXCEPT ![c] = "status"]
      /\ unwinding' = [unwinding EXCEPT ![c] = FALSE]
      /\ UNCHANGED <<excused, lost>>
  BY NilAssumption
  DEF Return, FinishReset, FinishDrop, Done, Typed, ObservesFence, Observing, lifetime
<1>2. \A d \in Callers : d # c /\ fence[d] # Nil => fence[d] # fence[c]
  BY <1>1 DEF FenceInv, OneObserver
<1>3. CASE Return(c)
  BY <1>1, <1>3 DEF Return, FenceInv, OneObserver, ObservesSignaled, NothingLeft,
                    DropsExcused, UnqueuedExcused, Typed, TypeOK
<1>4. CASE FinishReset(c)
  <2>1. payloads[fence[c]] = {} /\ UNCHANGED payloads
    BY <1>1, <1>4 DEF FinishReset, FenceInv, NothingLeft
  <2>2. OneObserver' /\ ObservesSignaled'
    BY <1>1, <1>2, <1>4 DEF FinishReset, FenceInv, OneObserver, ObservesSignaled,
                            Typed, TypeOK
  <2>3. NothingLeft' /\ DropsExcused'
    BY <1>1, <2>1 DEF FenceInv, NothingLeft, DropsExcused, Typed, TypeOK
  <2>4. UnqueuedExcused'
    BY <1>1, <1>4, <2>1 DEF FinishReset, FenceInv, UnqueuedExcused, Typed, TypeOK
  <2> QED
    BY <2>2, <2>3, <2>4 DEF FenceInv
<1>5. CASE FinishDrop(c)
  <2>1. payloads' = [payloads EXCEPT ![fence[c]] = {}] /\ UNCHANGED <<gpu, queued>>
    BY <1>5 DEF FinishDrop
  <2>2. OneObserver' /\ ObservesSignaled'
    BY <1>1, <2>1 DEF FenceInv, OneObserver, ObservesSignaled, Typed, TypeOK
  <2>3. NothingLeft' /\ DropsExcused' /\ UnqueuedExcused'
    BY <1>1, <2>1 DEF FenceInv, NothingLeft, DropsExcused, UnqueuedExcused, Typed, TypeOK
  <2> QED
    BY <2>2, <2>3 DEF FenceInv
<1> QED
  BY <1>3, <1>4, <1>5

\* The submitting side and the GPU leave fences under observation alone.
LEMMA FenceInvFence ==
    ASSUME Typed, FenceInv, LoseDevice \/ \E f \in Fences : Fence(f)
    PROVE  FenceInv'
<1> USE DEF Typed, TypeOK, callerVars, FenceInv, OneObserver, ObservesSignaled,
            NothingLeft, DropsExcused, UnqueuedExcused
<1>1. CASE LoseDevice
  BY <1>1 DEF LoseDevice
<1>2. ASSUME NEW f \in Fences, NEW S \in SUBSET (Payloads \ attached), Submit(f, S)
      PROVE  FenceInv'
  BY <1>2 DEF Submit, Free, lifetime
<1>3. ASSUME NEW f \in Fences, Complete(f)
      PROVE  FenceInv'
  BY <1>3 DEF Complete
<1>4. ASSUME NEW f \in Fences, ResetPending(f)
      PROVE  FenceInv'
  BY <1>4 DEF ResetPending, Free
<1>5. ASSUME NEW f \in Fences, DropUnobserved(f)
      PROVE  FenceInv'
  BY <1>5 DEF DropUnobserved, Free
<1>6. ASSUME NEW f \in Fences, DropPanicking(f)
      PROVE  FenceInv'
  BY <1>6 DEF DropPanicking, Free
<1>7. ASSUME NEW f \in Fences, DropUnwaited(f)
      PROVE  FenceInv'
  BY <1>7 DEF DropUnwaited, Free
<1> QED
  BY <1>1, <1>2, <1>3, <1>4, <1>5, <1>6, <1>7 DEF Fence

LEMMA FenceInvStep == Typed /\ FenceInv /\ [Next]_vars => FenceInv'
<1> SUFFICES ASSUME Typed, FenceInv, [Next]_vars PROVE FenceInv'
  OBVIOUS
<1>1. ASSUME UNCHANGED <<fenceVars, fence, operation, unwinding, excused>>
      PROVE  FenceInv'
  BY <1>1 DEF fenceVars, FenceInv, OneObserver, ObservesSignaled, NothingLeft,
              DropsExcused, UnqueuedExcused
<1>2. ASSUME NEW c \in Callers, Caller(c)
      PROVE  FenceInv'
  <2>1. CASE ObserveAny(c)
    BY <2>1, FenceInvObserve DEF ObserveAny
  <2>2. CASE Return(c) \/ FinishReset(c) \/ FinishDrop(c)
    BY <2>2, FenceInvDone
  <2>3. CASE \/ Enable(c) \/ Release(c) \/ StartWait(c) \/ SendBarrier(c)
             \/ CheckEnabled(c) \/ CloneHandle(c) \/ TrySend(c)
    BY <1>1, <2>3 DEF Enable, Release, StartWait, SendBarrier, CheckEnabled,
                      CloneHandle, TrySend, callerVars, lifetime
  <2> QED
    BY <1>2, <2>1, <2>2, <2>3 DEF Caller, Proceed
<1>3. ASSUME NEW w \in Generation, Worker(w)
      PROVE  FenceInv'
  BY <1>1, <1>3 DEF Worker, Receive, DropNext, Answer, Exit, callerVars, lifetime
<1>4. CASE UNCHANGED vars
  BY <1>1, <1>4 DEF vars, callerVars, lifetime
<1> QED
  BY <1>2, <1>3, <1>4, FenceInvFence DEF Next

-----------------------------------------------------------------------------
(* Hooks run before drops                                                  *)

\* Every batch on its way to a destructor, in a thread, a channel or a worker, is
\* hooked, and whatever is dropped was.
BatchesHooked == \A c \in Callers : batch[c] \subseteq hooked
ChannelsHooked ==
    \A w \in Generation :
        /\ dropping[w] \subseteq hooked
        /\ \A i \in DOMAIN queue[w] : queue[w][i].batch \subseteq hooked
DroppedHooked == dropped \subseteq hooked \cup excused

HooksInv == BatchesHooked /\ ChannelsHooked /\ DroppedHooked

LEMMA HooksInvInit == Init => HooksInv
<1> SUFFICES ASSUME Init PROVE HooksInv
  OBVIOUS
<1>1. \A w \in Generation : queue[w] = <<>> /\ dropping[w] = {}
  BY DEF Init
<1>2. ChannelsHooked
  BY <1>1 DEF ChannelsHooked
<1> QED
  BY <1>2 DEF Init, HooksInv, BatchesHooked, DroppedHooked

\* A message at the end of a channel, and one taken from its front.
LEMMA ChannelAppend ==
    ASSUME Typed, ChannelsHooked, NEW v, NEW m \in Message, m.batch \subseteq hooked,
           queue' = [queue EXCEPT ![v] = Append(@, m)],
           UNCHANGED dropping, hooked \subseteq hooked'
    PROVE  ChannelsHooked'
<1> SUFFICES ASSUME NEW w \in Generation, NEW i \in DOMAIN queue'[w]
             PROVE  queue'[w][i].batch \subseteq hooked'
  BY DEF ChannelsHooked
<1>1. queue[w] \in Seq(Message)
  BY DEF Typed, TypeOK
<1>2. CASE w # v
  BY <1>2 DEF ChannelsHooked, Typed, TypeOK
<1>3. CASE w = v
  <2>1. queue'[w] = Append(queue[w], m)
    BY <1>3 DEF Typed, TypeOK
  <2>2. CASE i \in DOMAIN queue[w]
    BY <1>1, <2>1, <2>2 DEF ChannelsHooked
  <2>3. CASE i = Len(queue[w]) + 1
    BY <1>1, <2>1, <2>3
  <2> QED
    BY <1>1, <2>1, <2>2, <2>3
<1> QED
  BY <1>2, <1>3

LEMMA ChannelTail ==
    ASSUME Typed, ChannelsHooked, NEW v \in Generation, queue[v] # <<>>,
           queue' = [queue EXCEPT ![v] = Tail(@)]
    PROVE  \A w \in Generation : \A i \in DOMAIN queue'[w] :
               queue'[w][i].batch \subseteq hooked
<1> SUFFICES ASSUME NEW w \in Generation, NEW i \in DOMAIN queue'[w]
             PROVE  queue'[w][i].batch \subseteq hooked
  OBVIOUS
<1>1. queue[w] \in Seq(Message)
  BY DEF Typed, TypeOK
<1>2. CASE w # v
  BY <1>2 DEF ChannelsHooked, Typed, TypeOK
<1>3. CASE w = v
  <2>1. queue'[w] = Tail(queue[w])
    BY <1>3 DEF Typed, TypeOK
  <2>2. queue[w] # <<>>
    BY <1>3
  <2>3. /\ Tail(queue[w]) \in Seq(Message)
        /\ Len(Tail(queue[w])) = Len(queue[w]) - 1
        /\ \A n \in 1..Len(Tail(queue[w])) : Tail(queue[w])[n] = queue[w][n + 1]
    BY <1>1, <2>2, HeadTailProperties
  <2>4. /\ DOMAIN Tail(queue[w]) = 1..Len(Tail(queue[w]))
        /\ DOMAIN queue[w] = 1..Len(queue[w]) /\ Len(queue[w]) \in Nat
    BY <1>1, <2>3, LenProperties
  <2>5. i \in 1..(Len(queue[w]) - 1) /\ queue'[w][i] = queue[w][i + 1]
    BY <2>1, <2>3, <2>4
  <2>6. i + 1 \in DOMAIN queue[w]
    BY <2>4, <2>5
  <2> QED
    BY <2>5, <2>6 DEF ChannelsHooked
<1> QED
  BY <1>2, <1>3

\* Everything but these five leaves the channels alone.
LEMMA ChannelsStep ==
    ASSUME Typed, HooksInv, [Next]_vars
    PROVE  ChannelsHooked'
<1> USE DEF HooksInv
<1>1. hooked \subseteq hooked'
  BY HistoryGrows
<1>2. ASSUME UNCHANGED <<queue, dropping>>
      PROVE  ChannelsHooked'
  BY <1>1, <1>2 DEF ChannelsHooked
<1>3. ASSUME NEW c \in Callers, SendBarrier(c)
      PROVE  ChannelsHooked'
  <2>1. Barrier(c) \in Message /\ Barrier(c).batch = {}
    BY DEF Barrier, Message
  <2> QED
    BY <1>1, <1>3, <2>1, ChannelAppend DEF SendBarrier
<1>4. ASSUME NEW c \in Callers, TrySend(c)
      PROVE  ChannelsHooked'
  <2>1. DropMessage(batch[c]) \in Message /\ DropMessage(batch[c]).batch = batch[c]
    BY DEF DropMessage, Message, Typed, TypeOK
  <2>2. batch[c] \subseteq hooked
    BY DEF BatchesHooked
  <2>3. CASE UNCHANGED queue
    BY <1>2, <1>4, <2>3 DEF TrySend
  <2>4. CASE queue' = [queue EXCEPT ![handle[c]] = Append(@, DropMessage(batch[c]))]
    BY <1>1, <1>4, <2>1, <2>2, <2>4, ChannelAppend DEF TrySend
  <2> QED
    BY <1>4, <2>3, <2>4 DEF TrySend
<1>5. ASSUME NEW w \in Generation, Receive(w) \/ Answer(w)
      PROVE  ChannelsHooked'
  <2>1. /\ queue[w] # <<>>
        /\ queue' = [queue EXCEPT ![w] = Tail(@)]
        /\ dropping' = dropping
             \/ dropping' = [dropping EXCEPT ![w] = Head(queue[w]).batch]
    BY <1>5 DEF Receive, Answer, Waiting
  <2>2. Head(queue[w]).batch \subseteq hooked
    <3>1. queue[w] \in Seq(Message)
      BY DEF Typed, TypeOK
    <3>2. 1 \in DOMAIN queue[w] /\ Head(queue[w]) = queue[w][1]
      BY <2>1, <3>1
    <3> QED
      BY <3>2 DEF ChannelsHooked
  <2>3. \A v \in Generation : \A i \in DOMAIN queue'[v] :
            queue'[v][i].batch \subseteq hooked
    BY <2>1, ChannelTail
  <2>4. \A v \in Generation : dropping'[v] \subseteq hooked
    BY <2>1, <2>2 DEF ChannelsHooked, Typed, TypeOK
  <2> QED
    BY <1>1, <2>3, <2>4 DEF ChannelsHooked
<1>6. ASSUME NEW w \in Generation, DropNext(w)
      PROVE  ChannelsHooked'
  BY <1>1, <1>6 DEF DropNext, ChannelsHooked, Typed, TypeOK
<1>7. \/ UNCHANGED <<queue, dropping>>
      \/ \E c \in Callers : SendBarrier(c) \/ TrySend(c)
      \/ \E w \in Generation : Receive(w) \/ Answer(w) \/ DropNext(w)
  BY DEF Next, Caller, Worker, Fence, ObserveAny, Proceed, vars, workerVars,
         Enable, Release, StartWait, Exit, Submit, Complete, LoseDevice, ObserveSync,
         ObserveSyncPanics, ObserveBackground, CheckEnabled, CloneHandle, Return,
         FinishReset, FinishDrop, Done, ResetPending, DropUnobserved, DropUnwaited,
         DropPanicking
<1> QED
  BY <1>2, <1>3, <1>4, <1>5, <1>6, <1>7

\* What a step drops, it takes from a batch, a channel, a fence under observation
\* with nothing left, or a fence nobody will observe or can wait for.
LEMMA HooksInvStep == Typed /\ FenceInv /\ HooksInv /\ [Next]_vars => HooksInv'
<1> SUFFICES ASSUME Typed, FenceInv, HooksInv, [Next]_vars PROVE HooksInv'
  OBVIOUS
<1> USE DEF lifetime
<1>1. hooked \subseteq hooked' /\ excused \subseteq excused'
  BY HistoryGrows
<1>2. ASSUME UNCHANGED <<batch, dropped>>
      PROVE  HooksInv'
  BY <1>1, <1>2, ChannelsStep DEF HooksInv, BatchesHooked, DroppedHooked
<1>3. ASSUME NEW c \in Callers, NEW f \in Fences, NEW op \in Operation,
             ObserveSync(c, f, op) \/ ObserveBackground(c, f, op)
      PROVE  HooksInv'
  <2>1. /\ hooked' = hooked \cup payloads[f]
        /\ dropped' = dropped \/ dropped' = dropped \cup payloads[f]
        /\ batch' = batch \/ batch' = [batch EXCEPT ![c] = payloads[f]]
    BY <1>3 DEF ObserveSync, ObserveBackground
  <2> QED
    BY <1>1, <2>1, ChannelsStep
    DEF HooksInv, BatchesHooked, DroppedHooked, Typed, TypeOK
<1>4. ASSUME NEW c \in Callers, CheckEnabled(c) \/ CloneHandle(c) \/ TrySend(c)
      PROVE  HooksInv'
  <2>1. /\ dropped' = dropped \/ dropped' = dropped \cup batch[c]
        /\ batch' = batch \/ batch' = [batch EXCEPT ![c] = {}]
    BY <1>4 DEF CheckEnabled, CloneHandle, TrySend, DropHere
  <2> QED
    BY <1>1, <2>1, ChannelsStep
    DEF HooksInv, BatchesHooked, DroppedHooked, Typed, TypeOK
<1>5. ASSUME NEW c \in Callers, FinishDrop(c)
      PROVE  HooksInv'
  <2>1. fence[c] # Nil /\ operation[c] = "drop"
    BY <1>5, NilAssumption DEF FinishDrop, Done, Typed, ObservesFence, Observing
  <2>2. payloads[fence[c]] \subseteq excused
    BY <2>1 DEF FenceInv, DropsExcused
  <2> QED
    BY <1>1, <1>5, <2>2, ChannelsStep
    DEF FinishDrop, Done, HooksInv, BatchesHooked, DroppedHooked
<1>6. ASSUME NEW f \in Fences, DropUnobserved(f)
      PROVE  HooksInv'
  <2>1. payloads[f] \subseteq excused
    BY <1>6 DEF DropUnobserved, FenceInv, UnqueuedExcused
  <2>2. UNCHANGED batch /\ dropped' = dropped \cup payloads[f]
    BY <1>6 DEF DropUnobserved, callerVars
  <2> QED
    BY <1>1, <2>1, <2>2, ChannelsStep DEF HooksInv, BatchesHooked, DroppedHooked
<1>7. ASSUME NEW w \in Generation, DropNext(w)
      PROVE  HooksInv'
  <2>1. UNCHANGED batch /\ \E p \in dropping[w] : dropped' = dropped \cup {p}
    BY <1>7 DEF DropNext, callerVars
  <2> QED
    BY <1>1, <2>1, ChannelsStep
    DEF HooksInv, BatchesHooked, ChannelsHooked, DroppedHooked
<1>8. ASSUME NEW f \in Fences, DropUnwaited(f)
      PROVE  HooksInv'
  <2>1. /\ UNCHANGED batch /\ dropped' = dropped \cup payloads[f]
        /\ excused' = excused \cup payloads[f]
    BY <1>8 DEF DropUnwaited, callerVars
  <2> QED
    BY <1>1, <2>1, ChannelsStep DEF HooksInv, BatchesHooked, DroppedHooked
<1>9. \/ UNCHANGED <<batch, dropped>>
      \/ \E c \in Callers, f \in Fences, op \in Operation :
            ObserveSync(c, f, op) \/ ObserveBackground(c, f, op)
      \/ \E c \in Callers :
            CheckEnabled(c) \/ CloneHandle(c) \/ TrySend(c) \/ FinishDrop(c)
      \/ \E f \in Fences : DropUnobserved(f) \/ DropUnwaited(f)
      \/ \E w \in Generation : DropNext(w)
  BY DEF Next, Caller, Worker, Fence, ObserveAny, Proceed, vars, callerVars, Enable,
         Release, StartWait, SendBarrier, Receive, Answer, Exit, Submit, Complete,
         LoseDevice, ObserveSyncPanics, Return, FinishReset, Done, ResetPending,
         DropPanicking
<1> QED
  BY <1>2, <1>3, <1>4, <1>5, <1>6, <1>7, <1>8, <1>9

\* Completion hooks run before payloads are dropped, wherever the payloads travel
\* and whichever thread panics.  Excused are the payloads of fences that were reset
\* while their work ran, dropped while a thread panicked, dropped with a wait that
\* failed, or lost with the device.
THEOREM HooksBeforeDrop == Spec => []HooksRunBeforeDrop
<1>1. Init => Typed /\ FenceInv /\ HooksInv
  BY TypeInit, FenceInvInit, HooksInvInit
<1>2. Typed /\ FenceInv /\ HooksInv /\ [Next]_vars => (Typed /\ FenceInv /\ HooksInv)'
  BY TypeStep, FenceInvStep, HooksInvStep
<1>3. HooksInv => HooksRunBeforeDrop
  BY DEF HooksInv, HooksRunBeforeDrop, BatchesHooked, ChannelsHooked, DroppedHooked,
         QueuedPayloads
<1> QED
  BY <1>1, <1>2, <1>3, PTL DEF Spec

-----------------------------------------------------------------------------
(* Drops come after the signal, if no pending fence is reset                *)

SignaledCompleted ==
    \A f \in Fences : gpu[f] = "signaled" => payloads[f] \subseteq completed
UnqueuedEmpty == \A f \in Fences : ~queued[f] => payloads[f] = {}
HookedCompleted == hooked \subseteq completed

SignalInv ==
    SignaledCompleted /\ UnqueuedEmpty /\ HookedCompleted /\ DropsAfterSignal

LEMMA SignalInvInit == Init => SignalInv
BY DEF Init, SignalInv, SignaledCompleted, UnqueuedEmpty, HookedCompleted,
       DropsAfterSignal

\* How a fence's state and payloads change: the GPU and the submitting side.
LEMMA SignalFence ==
    ASSUME "reset" \notin Faults, Typed, FenceInv, SignalInv,
           LoseDevice \/ \E f \in Fences : Fence(f)
    PROVE  SignalInv'
<1> USE DEF Typed, TypeOK, SignalInv, SignaledCompleted, UnqueuedEmpty,
            HookedCompleted, DropsAfterSignal, lifetime
<1>1. CASE LoseDevice
  BY <1>1 DEF LoseDevice
<1>2. ASSUME NEW f \in Fences, NEW S \in SUBSET (Payloads \ attached), Submit(f, S)
      PROVE  SignalInv'
  BY <1>2 DEF Submit
<1>3. ASSUME NEW f \in Fences, Complete(f)
      PROVE  SignalInv'
  BY <1>3 DEF Complete
<1>4. ASSUME NEW f \in Fences, ResetPending(f)
      PROVE  FALSE
  BY <1>4 DEF ResetPending
<1>5. ASSUME NEW f \in Fences, DropUnobserved(f)
      PROVE  SignalInv'
  <2>1. /\ payloads' = [payloads EXCEPT ![f] = {}]
        /\ dropped' = dropped \cup payloads[f]
        /\ UNCHANGED <<gpu, queued, lost, completed, hooked, unwaited>>
    BY <1>5 DEF DropUnobserved
  <2>2. lost \/ payloads[f] = {}
    BY <1>5 DEF DropUnobserved
  <2> QED
    BY <2>1, <2>2
<1>6. ASSUME NEW f \in Fences, DropPanicking(f)
      PROVE  SignalInv'
  BY <1>6 DEF DropPanicking
<1>7. ASSUME NEW f \in Fences, DropUnwaited(f)
      PROVE  SignalInv'
  <2>1. /\ payloads' = [payloads EXCEPT ![f] = {}]
        /\ dropped' = dropped \cup payloads[f]
        /\ unwaited' = unwaited \cup payloads[f]
        /\ UNCHANGED <<gpu, queued, lost, completed, hooked>>
    BY <1>7 DEF DropUnwaited, fenceVars
  <2> QED
    BY <2>1
<1> QED
  BY <1>1, <1>2, <1>3, <1>4, <1>5, <1>6, <1>7 DEF Fence

\* And an observation, from beginning to end.
LEMMA SignalCaller ==
    ASSUME Typed, FenceInv, HooksInv, SignalInv,
           NEW c \in Callers, ObserveAny(c) \/ Proceed(c)
    PROVE  SignalInv'
<1> USE DEF SignalInv
<1>1. ASSUME NEW f \in Fences, NEW op \in Operation,
             \/ ObserveSync(c, f, op) \/ ObserveSyncPanics(c, f, op)
             \/ ObserveBackground(c, f, op)
      PROVE  SignalInv'
  <2>1. /\ payloads[f] \subseteq completed
        /\ UNCHANGED <<gpu, queued, lost, completed, unwaited>>
        /\ hooked' \subseteq hooked \cup payloads[f]
        /\ dropped' \subseteq dropped \cup payloads[f]
        /\ payloads' = payloads \/ payloads' = [payloads EXCEPT ![f] = {}]
    BY <1>1 DEF ObserveSync, ObserveSyncPanics, ObserveBackground, Observe,
                SignaledCompleted
  <2> QED
    BY ZenonT(40), <2>1 DEF SignaledCompleted, UnqueuedEmpty, HookedCompleted, DropsAfterSignal,
                Typed, TypeOK
<1>2. CASE CheckEnabled(c) \/ CloneHandle(c) \/ TrySend(c)
  <2>1. /\ UNCHANGED <<gpu, queued, lost, payloads, completed, hooked, unwaited>>
        /\ dropped' \subseteq dropped \cup batch[c]
    BY <1>2 DEF CheckEnabled, CloneHandle, TrySend, DropHere, fenceVars
  <2>2. batch[c] \subseteq completed
    BY DEF HooksInv, BatchesHooked, HookedCompleted
  <2> QED
    BY <2>1, <2>2 DEF SignaledCompleted, UnqueuedEmpty, HookedCompleted,
                      DropsAfterSignal
<1>3. CASE Return(c) \/ FinishReset(c) \/ FinishDrop(c)
  <2>1. /\ fence[c] \in Fences /\ fence[c] # Nil
        /\ UNCHANGED <<lost, completed, hooked, unwaited>>
    BY <1>3, NilAssumption
    DEF Return, FinishReset, FinishDrop, Done, Typed, ObservesFence, Observing
  <2>2. payloads[fence[c]] \subseteq completed
    BY <2>1 DEF FenceInv, ObservesSignaled, SignaledCompleted
  <2>3. CASE Return(c)
    BY <2>1, <2>3 DEF Return, SignaledCompleted, UnqueuedEmpty, HookedCompleted,
                      DropsAfterSignal
  <2>4. CASE FinishReset(c)
    <3>1. payloads[fence[c]] = {}
      BY <2>1, <2>4 DEF FinishReset, FenceInv, NothingLeft
    <3> QED
      BY <2>1, <2>4, <3>1 DEF FinishReset, SignaledCompleted, UnqueuedEmpty,
                              HookedCompleted, DropsAfterSignal, Typed, TypeOK
  <2>5. CASE FinishDrop(c)
    BY <2>1, <2>2, <2>5 DEF FinishDrop, SignaledCompleted, UnqueuedEmpty,
                            HookedCompleted, DropsAfterSignal, Typed, TypeOK
  <2> QED
    BY <1>3, <2>3, <2>4, <2>5
<1> QED
  BY <1>1, <1>2, <1>3 DEF ObserveAny, Proceed

LEMMA SignalInvStep ==
    ASSUME "reset" \notin Faults, Typed, FenceInv, HooksInv, SignalInv, [Next]_vars
    PROVE  SignalInv'
<1>1. ASSUME UNCHANGED <<fenceVars, completed, hooked, unwaited, dropped>>
      PROVE  SignalInv'
  BY <1>1 DEF fenceVars, SignalInv, SignaledCompleted, UnqueuedEmpty, HookedCompleted,
              DropsAfterSignal
<1>2. ASSUME NEW c \in Callers, Caller(c)
      PROVE  SignalInv'
  <2>1. CASE ObserveAny(c) \/ Proceed(c)
    BY <2>1, SignalCaller
  <2>2. CASE Enable(c) \/ Release(c) \/ StartWait(c) \/ SendBarrier(c)
    BY <1>1, <2>2 DEF Enable, Release, StartWait, SendBarrier, lifetime
  <2> QED
    BY <1>2, <2>1, <2>2 DEF Caller
<1>3. ASSUME NEW w \in Generation, DropNext(w)
      PROVE  SignalInv'
  <2>1. dropping[w] \subseteq completed
    BY DEF HooksInv, ChannelsHooked, SignalInv, HookedCompleted
  <2>2. /\ UNCHANGED <<gpu, queued, lost, payloads, completed, hooked, unwaited>>
        /\ dropped' \subseteq dropped \cup dropping[w]
    BY <1>3 DEF DropNext, fenceVars
  <2> QED
    BY <2>1, <2>2 DEF SignalInv, SignaledCompleted, UnqueuedEmpty, HookedCompleted,
                      DropsAfterSignal
<1>4. ASSUME NEW w \in Generation, Receive(w) \/ Answer(w) \/ Exit(w)
      PROVE  SignalInv'
  BY <1>1, <1>4 DEF Receive, Answer, Exit, lifetime
<1>5. CASE UNCHANGED vars
  BY <1>1, <1>5 DEF vars, lifetime
<1> QED
  BY <1>2, <1>3, <1>4, <1>5, SignalFence DEF Next, Worker

\* If no thread resets a fence whose work is still running, nothing is dropped before
\* the GPU is done with it, whatever panics, as long as there is a GPU: nothing but the
\* payloads of a fence whose own drop failed to wait.
THEOREM DropsComeAfterSignal ==
    "reset" \notin Faults => (Spec => []DropsAfterSignal)
<1> SUFFICES ASSUME "reset" \notin Faults
             PROVE  Spec => []DropsAfterSignal
  OBVIOUS
<1> DEFINE Inv == Typed /\ FenceInv /\ HooksInv /\ SignalInv
<1>1. Init => Inv
  BY TypeInit, FenceInvInit, HooksInvInit, SignalInvInit
<1>2. Inv /\ [Next]_vars => Inv'
  BY TypeStep, FenceInvStep, HooksInvStep, SignalInvStep
<1>3. Inv => DropsAfterSignal
  BY DEF SignalInv
<1> QED
  BY <1>1, <1>2, <1>3, PTL DEF Spec

-----------------------------------------------------------------------------
(* The worker's life                                                       *)

\* There is a worker while there are guards, and it is the newest.
GuardedWorker ==
    /\ enabled <=> worker # None
    /\ enabled <=> guardCount > 0
    /\ worker # None => worker = spawned

\* A worker that ended was detached, and nobody can send to it any more.
ExitedWorker ==
    \A w \in Generation : exited[w] => w <= spawned /\ worker # w /\ queue[w] = <<>>
OpenHandles ==
    \A c \in Callers : /\ handle[c] # None => ~exited[handle[c]]
                       /\ pc[c] \in {"send", "barrier", "reply"} => handle[c] # None

\* A thread that waits holds a guard, and so the worker it waits for.
Waiters ==
    \A c \in Callers :
        pc[c] \in {"barrier", "reply"} => guards[c] > 0 /\ handle[c] = worker

LifeInv == GuardedWorker /\ ExitedWorker /\ OpenHandles /\ Waiters

LEMMA LifeInvInit == Init => LifeInv
BY DEF Init, LifeInv, GuardedWorker, ExitedWorker, OpenHandles, Waiters, None

LEMMA LifeGuards ==
    ASSUME Typed, LifeInv, NEW c \in Callers, Enable(c) \/ Release(c)
    PROVE  LifeInv'
<1> USE DEF LifeInv, workerVars, callerVars
<1>1. CASE Enable(c)
  <2>1. /\ guardCount' = guardCount + 1 /\ guards' = [guards EXCEPT ![c] = @ + 1]
        /\ UNCHANGED <<queue, exited, pc, handle>>
    BY <1>1 DEF Enable
  <2>2. CASE worker # None
    BY <1>1, <2>1, <2>2 DEF Enable, GuardedWorker, ExitedWorker, OpenHandles, Waiters,
                            Typed, TypeOK
  <2>3. CASE worker = None
    <3>1. worker' = spawned + 1 /\ spawned' = spawned + 1 /\ enabled'
      BY <1>1, <2>3 DEF Enable
    <3>2. spawned \in Nat /\ guardCount \in Nat
      BY GenerationsAssumption DEF Typed, TypeOK
    <3>3. GuardedWorker'
      BY <2>1, <3>1, <3>2 DEF GuardedWorker, None
    <3>4. ExitedWorker'
      BY <2>1, <3>1, <3>2 DEF ExitedWorker, Generation
    <3>5. OpenHandles'
      BY <2>1 DEF OpenHandles
    <3>6. \A d \in Callers : guards[d] = 0
      BY <2>3, <3>2, NoGuards DEF GuardedWorker
    <3>7. Waiters'
      BY <2>1, <3>6 DEF Waiters
    <3> QED
      BY <3>3, <3>4, <3>5, <3>7
  <2> QED
    BY <2>2, <2>3
<1>2. CASE Release(c)
  <2>1. /\ pc[c] = "idle" /\ guards[c] > 0
        /\ guardCount' = guardCount - 1 /\ guards' = [guards EXCEPT ![c] = @ - 1]
        /\ UNCHANGED <<spawned, queue, exited, pc, handle>>
    BY <1>2 DEF Release
  <2>2. guardCount \in Nat \ {0}
    <3>1. guardCount > 0
      BY <2>1, HolderCounted
    <3> QED
      BY <3>1 DEF Typed, TypeOK
  <2>3. CASE guardCount # 1
    <3>1. UNCHANGED <<enabled, worker>>
      BY <1>2, <2>3 DEF Release
    <3> QED
      BY <2>1, <2>2, <2>3, <3>1 DEF GuardedWorker, ExitedWorker, OpenHandles, Waiters,
                                    Typed, TypeOK
  <2>4. CASE guardCount = 1
    <3>1. enabled' = FALSE /\ worker' = None
      BY <1>2, <2>4 DEF Release
    <3>2. GuardedWorker'
      BY <2>1, <2>4, <3>1 DEF GuardedWorker
    <3>3. ExitedWorker'
      BY <2>1, <3>1, GenerationsAssumption DEF ExitedWorker, None, Generation
    <3>4. OpenHandles'
      BY <2>1 DEF OpenHandles
    <3>5. \A d \in Callers : guards[d] > 0 => d = c
      BY <2>1, <2>4, LastGuard
    <3>6. Waiters'
      BY <2>1, <3>5 DEF Waiters
    <3> QED
      BY <3>2, <3>3, <3>4, <3>6
  <2> QED
    BY <2>3, <2>4
<1> QED
  BY <1>1, <1>2

LEMMA LifeWait ==
    ASSUME Typed, LifeInv, NEW c \in Callers, StartWait(c) \/ SendBarrier(c)
    PROVE  LifeInv'
<1> USE DEF LifeInv, deviceVars, workerVars
<1>1. CASE StartWait(c)
  <2>1. /\ guards[c] > 0
        /\ handle' = [handle EXCEPT ![c] = worker]
        /\ pc' = [pc EXCEPT ![c] = IF worker = None THEN "idle" ELSE "barrier"]
        /\ UNCHANGED <<enabled, worker, guardCount, spawned, guards, queue, exited>>
    BY <1>1 DEF StartWait
  <2>2. GuardedWorker' /\ ExitedWorker'
    BY <2>1 DEF GuardedWorker, ExitedWorker
  <2>3. OpenHandles' /\ Waiters'
    BY <2>1 DEF OpenHandles, Waiters, ExitedWorker, Typed, TypeOK, None
  <2> QED
    BY <2>2, <2>3
<1>2. CASE SendBarrier(c)
  <2>1. /\ pc[c] = "barrier" /\ pc' = [pc EXCEPT ![c] = "reply"]
        /\ queue' = [queue EXCEPT ![handle[c]] = Append(@, Barrier(c))]
        /\ UNCHANGED <<enabled, worker, guardCount, spawned, guards, exited, handle>>
    BY <1>2 DEF SendBarrier
  <2>2. handle[c] \in Generation /\ ~exited[handle[c]]
    BY <2>1 DEF OpenHandles, Typed, TypeOK
  <2>3. GuardedWorker' /\ ExitedWorker'
    BY <2>1, <2>2 DEF GuardedWorker, ExitedWorker, Typed, TypeOK
  <2>4. OpenHandles' /\ Waiters'
    BY <2>1 DEF OpenHandles, Waiters, Typed, TypeOK
  <2> QED
    BY <2>3, <2>4
<1> QED
  BY <1>1, <1>2

LEMMA LifeObserve ==
    ASSUME Typed, LifeInv, NEW c \in Callers, ObserveAny(c) \/ Proceed(c)
    PROVE  LifeInv'
<1> USE DEF LifeInv, deviceVars, workerVars
<1>1. CASE ObserveAny(c) \/ Return(c) \/ FinishReset(c) \/ FinishDrop(c)
  <2>1. /\ pc' \in {[pc EXCEPT ![c] = x] : x \in {"idle", "finish", "enqueue"}}
        /\ UNCHANGED <<enabled, worker, guardCount, spawned, guards, queue, exited,
                       handle>>
    BY <1>1 DEF ObserveAny, ObserveSync, ObserveSyncPanics, ObserveBackground,
                Return, FinishReset, FinishDrop, Done
  <2> QED
    BY <2>1 DEF GuardedWorker, ExitedWorker, OpenHandles, Waiters, Typed, TypeOK
<1>2. ASSUME CheckEnabled(c) \/ CloneHandle(c) \/ TrySend(c), UNCHANGED queue
      PROVE  LifeInv'
  <2>1. /\ \/ pc' = [pc EXCEPT ![c] = "handle"] /\ UNCHANGED handle
           \/ pc' = [pc EXCEPT ![c] = "finish"]
                /\ handle' = [handle EXCEPT ![c] = None]
           \/ pc' = [pc EXCEPT ![c] = "send"] /\ worker # None
                /\ handle' = [handle EXCEPT ![c] = worker]
        /\ UNCHANGED <<enabled, worker, guardCount, spawned, guards, exited>>
    BY <1>2 DEF CheckEnabled, CloneHandle, TrySend, DropHere
  <2>2. GuardedWorker' /\ ExitedWorker'
    BY <1>2, <2>1 DEF GuardedWorker, ExitedWorker
  <2>3. OpenHandles'
    BY <2>1 DEF OpenHandles, ExitedWorker, Typed, TypeOK
  <2>4. Waiters'
    BY <2>1 DEF Waiters, Typed, TypeOK
  <2> QED
    BY <2>2, <2>3, <2>4
<1>3. ASSUME TrySend(c), ~UNCHANGED queue
      PROVE  LifeInv'
  <2>1. /\ pc[c] = "send" /\ ~exited[handle[c]]
        /\ queue' = [queue EXCEPT ![handle[c]] = Append(@, DropMessage(batch[c]))]
        /\ handle' = [handle EXCEPT ![c] = None]
        /\ pc' = [pc EXCEPT ![c] = "finish"]
        /\ UNCHANGED <<enabled, worker, guardCount, spawned, guards, exited>>
    BY <1>3 DEF TrySend
  <2>2. GuardedWorker' /\ ExitedWorker'
    BY <2>1 DEF GuardedWorker, ExitedWorker, Typed, TypeOK
  <2>3. OpenHandles' /\ Waiters'
    BY <2>1 DEF OpenHandles, Waiters, Typed, TypeOK
  <2> QED
    BY <2>2, <2>3
<1> QED
  BY <1>1, <1>2, <1>3 DEF Proceed, CheckEnabled, CloneHandle

LEMMA LifeWorker ==
    ASSUME Typed, LifeInv, NEW w \in Generation, Worker(w)
    PROVE  LifeInv'
<1> USE DEF LifeInv, deviceVars, callerVars
<1>1. CASE Receive(w) \/ Answer(w)
  <2>1. /\ queue[w] # <<>> /\ queue' = [queue EXCEPT ![w] = Tail(@)]
        /\ UNCHANGED <<enabled, worker, guardCount, spawned, guards, exited>>
    BY <1>1 DEF Receive, Answer, Waiting
  <2>2. \/ UNCHANGED <<pc, handle>>
        \/ \E c : /\ pc' = [pc EXCEPT ![c] = "idle"]
                  /\ handle' = [handle EXCEPT ![c] = None]
    BY <1>1 DEF Receive, Answer
  <2>3. GuardedWorker' /\ ExitedWorker'
    BY <2>1 DEF GuardedWorker, ExitedWorker, Typed, TypeOK
  <2>4. OpenHandles' /\ Waiters'
    BY ZenonT(40), <2>1, <2>2 DEF OpenHandles, Waiters, Typed, TypeOK
  <2> QED
    BY <2>3, <2>4
<1>2. CASE DropNext(w)
  BY <1>2 DEF DropNext, GuardedWorker, ExitedWorker, OpenHandles, Waiters
<1>3. CASE Exit(w)
  BY <1>3 DEF Exit, GuardedWorker, ExitedWorker, OpenHandles, Waiters, Typed, TypeOK
<1> QED
  BY <1>1, <1>2, <1>3 DEF Worker

LEMMA LifeInvStep == Typed /\ LifeInv /\ [Next]_vars => LifeInv'
<1> SUFFICES ASSUME Typed, LifeInv, [Next]_vars PROVE LifeInv'
  OBVIOUS
<1>1. ASSUME UNCHANGED <<deviceVars, queue, exited, pc, handle>>
      PROVE  LifeInv'
  BY <1>1 DEF deviceVars, LifeInv, GuardedWorker, ExitedWorker, OpenHandles, Waiters
<1>2. ASSUME NEW c \in Callers, Caller(c)
      PROVE  LifeInv'
  BY <1>2, LifeGuards, LifeWait, LifeObserve DEF Caller
<1>3. CASE LoseDevice \/ \E f \in Fences : Fence(f)
  BY <1>1, <1>3 DEF LoseDevice, Fence, Submit, Complete, ResetPending, DropUnobserved,
                    DropUnwaited, DropPanicking, workerVars, callerVars
<1>4. CASE UNCHANGED vars
  BY <1>1, <1>4 DEF vars, workerVars, callerVars
<1> QED
  BY <1>2, <1>3, <1>4, LifeWorker DEF Next

\* The invariant speaks of the counter, the property of the guards.
LEMMA LifeImplies ==
    ASSUME Typed, LifeInv
    PROVE  WorkerLifecycle /\ WaitsForCurrentWorker
<1>1. guardCount > 0 <=> \E c \in Callers : guards[c] > 0
  <2>1. ASSUME guardCount > 0
        PROVE  \E c \in Callers : guards[c] > 0
    <3>1. GuardSet # {}
      BY <2>1, FS_EmptySet DEF Typed, GuardsCounted
    <3>2. PICK t : t \in GuardSet
      BY <3>1
    <3> QED
      BY <3>2 DEF GuardSet, Typed, TypeOK
  <2> QED
    BY <2>1, HolderCounted
<1> QED
  BY <1>1 DEF LifeInv, GuardedWorker, ExitedWorker, OpenHandles, Waiters,
              WorkerLifecycle, WaitsForCurrentWorker

\* Guards, flag, worker slot and channel ends agree, however the threads interleave:
\* nobody sends to a worker that has ended.
THEOREM WorkerLives == Spec => []WorkerLifecycle
<1>1. Init => Typed /\ LifeInv
  BY TypeInit, LifeInvInit
<1>2. Typed /\ LifeInv /\ [Next]_vars => (Typed /\ LifeInv)'
  BY TypeStep, LifeInvStep
<1>3. Typed /\ LifeInv => WorkerLifecycle
  BY LifeImplies
<1> QED
  BY <1>1, <1>2, <1>3, PTL DEF Spec

\* A thread that waits for pending cleanup waits for the worker that is current,
\* whatever the other threads do with their guards.
THEOREM WaitsAreCurrent == Spec => []WaitsForCurrentWorker
<1>1. Init => Typed /\ LifeInv
  BY TypeInit, LifeInvInit
<1>2. Typed /\ LifeInv /\ [Next]_vars => (Typed /\ LifeInv)'
  BY TypeStep, LifeInvStep
<1>3. Typed /\ LifeInv => WaitsForCurrentWorker
  BY LifeImplies
<1> QED
  BY <1>1, <1>2, <1>3, PTL DEF Spec

-----------------------------------------------------------------------------
(* What a wait waits for                                                   *)

\* A barrier carries nothing; its caller waits for the reply of that worker, and for
\* that barrier only.
OneBarrier ==
    \A w \in Generation, c \in Callers : \A i \in DOMAIN queue[w] :
        queue[w][i].replyTo = c =>
            /\ queue[w][i].batch = {}
            /\ pc[c] = "reply" /\ handle[c] = w
            /\ \A j \in DOMAIN queue[w] : queue[w][j].replyTo = c => j = i

\* The payload p is dropped before the worker reaches the i-th message.
Ahead(w, i, p) ==
    \/ p \in dropping[w]
    \/ \E j \in DOMAIN queue[w] : j < i /\ p \in queue[w][j].batch

\* What a wait covers is dropped or ahead of its barrier, and before it sent one, in
\* the channel.
Covered ==
    /\ \A w \in Generation, c \in Callers : pc[c] = "barrier" /\ handle[c] = w =>
         covers[c] \subseteq dropped \cup QueuedPayloads(w)
    /\ \A w \in Generation, c \in Callers : \A i \in DOMAIN queue[w] :
         queue[w][i].replyTo = c =>
            \A p \in covers[c] : p \in dropped \/ Ahead(w, i, p)

\* A worker remembers that there is a failure that it has not reported.
FailuresKnown == \A w \in Generation : ~hadFailure[w] => failed[w] \subseteq reported

WaitInv == OneBarrier /\ Covered /\ FailuresKnown

LEMMA WaitInvInit == Init => WaitInv
<1> SUFFICES ASSUME Init PROVE WaitInv
  OBVIOUS
<1>1. \A w \in Generation : queue[w] = <<>> /\ failed[w] = {}
  BY DEF Init
<1>2. \A c \in Callers : pc[c] = "idle"
  BY DEF Init
<1> QED
  BY <1>1, <1>2 DEF WaitInv, OneBarrier, Covered, FailuresKnown

\* The messages of a channel after one is sent, and after one is taken.
LEMMA AfterSend ==
    ASSUME Typed, NEW v \in Generation, NEW m \in Message,
           queue' = [queue EXCEPT ![v] = Append(@, m)]
    PROVE  /\ \A w \in Generation : w # v => queue'[w] = queue[w]
           /\ Len(queue[v]) \in Nat
           /\ DOMAIN queue[v] = 1..Len(queue[v]) /\ DOMAIN queue'[v] = 1..(Len(queue[v]) + 1)
           /\ \A i \in 1..Len(queue[v]) : queue'[v][i] = queue[v][i]
           /\ queue'[v][Len(queue[v]) + 1] = m
<1>1. queue[v] \in Seq(Message) /\ queue'[v] = Append(queue[v], m)
  BY DEF Typed, TypeOK
<1>2. \A w \in Generation : w # v => queue'[w] = queue[w]
  BY DEF Typed, TypeOK
<1> QED
  BY <1>1, <1>2

LEMMA AfterTake ==
    ASSUME Typed, NEW v \in Generation, queue[v] # <<>>,
           queue' = [queue EXCEPT ![v] = Tail(@)]
    PROVE  /\ \A w \in Generation : w # v => queue'[w] = queue[w]
           /\ Len(queue[v]) \in Nat \ {0} /\ Head(queue[v]) = queue[v][1]
           /\ DOMAIN queue[v] = 1..Len(queue[v]) /\ DOMAIN queue'[v] = 1..(Len(queue[v]) - 1)
           /\ \A i \in 1..(Len(queue[v]) - 1) : queue'[v][i] = queue[v][i + 1]
<1>1. queue[v] \in Seq(Message) /\ queue'[v] = Tail(queue[v])
  BY DEF Typed, TypeOK
<1>2. \A w \in Generation : w # v => queue'[w] = queue[w]
  BY DEF Typed, TypeOK
<1>3. /\ Tail(queue[v]) \in Seq(Message)
      /\ Len(Tail(queue[v])) = Len(queue[v]) - 1
      /\ \A n \in 1..Len(Tail(queue[v])) : Tail(queue[v])[n] = queue[v][n + 1]
  BY <1>1, HeadTailProperties
<1>4. /\ DOMAIN Tail(queue[v]) = 1..Len(Tail(queue[v]))
      /\ DOMAIN queue[v] = 1..Len(queue[v]) /\ Len(queue[v]) \in Nat /\ Len(queue[v]) # 0
  BY <1>1, <1>3, LenProperties, EmptySeq
<1>5. Head(queue[v]) = queue[v][1]
  BY <1>1
<1>6. DOMAIN queue'[v] = 1..(Len(queue[v]) - 1)
  BY <1>1, <1>3, <1>4
<1>7. \A i \in 1..(Len(queue[v]) - 1) : queue'[v][i] = queue[v][i + 1]
  BY <1>1, <1>3
<1> QED
  BY <1>2, <1>4, <1>5, <1>6, <1>7

\* Most steps neither touch a channel nor a wait.
LEMMA WaitQuiet ==
    ASSUME WaitInv, UNCHANGED <<queue, dropping, hadFailure, waitVars>>,
           dropped \subseteq dropped',
           \A c \in Callers : pc'[c] = "barrier" => pc[c] = "barrier" /\ handle'[c] = handle[c],
           \A c \in Callers : pc[c] = "reply" => pc'[c] = "reply" /\ handle'[c] = handle[c]
    PROVE  WaitInv'
<1>0. UNCHANGED <<failed, reported, covers>>
  BY DEF waitVars
<1>1. OneBarrier'
  BY DEF WaitInv, OneBarrier
<1>2. Covered'
  BY <1>0 DEF WaitInv, Covered, Ahead, QueuedPayloads
<1>3. FailuresKnown'
  BY <1>0 DEF WaitInv, FailuresKnown
<1> QED
  BY <1>1, <1>2, <1>3 DEF WaitInv

\* A batch is sent.
LEMMA WaitSend ==
    ASSUME Typed, LifeInv, WaitInv, NEW c \in Callers, TrySend(c), ~UNCHANGED queue
    PROVE  WaitInv'
<1> USE DEF WaitInv
<1>0. PICK v \in Generation, m \in Message : v = handle[c] /\ m = DropMessage(batch[c])
  BY DEF TrySend, LifeInv, OpenHandles, Typed, TypeOK, DropMessage, Message
<1>1. /\ queue' = [queue EXCEPT ![v] = Append(@, m)]
      /\ m.replyTo = Nil /\ pc[c] = "send"
      /\ pc' = [pc EXCEPT ![c] = "finish"] /\ handle' = [handle EXCEPT ![c] = None]
      /\ UNCHANGED <<dropping, hadFailure, dropped, failed, reported, covers>>
  BY <1>0 DEF TrySend, DropMessage, waitVars
<1>2. /\ \A w \in Generation : w # v => queue'[w] = queue[w]
      /\ Len(queue[v]) \in Nat
      /\ DOMAIN queue[v] = 1..Len(queue[v]) /\ DOMAIN queue'[v] = 1..(Len(queue[v]) + 1)
      /\ \A i \in 1..Len(queue[v]) : queue'[v][i] = queue[v][i]
      /\ queue'[v][Len(queue[v]) + 1] = m
  BY <1>1, AfterSend
<1>3. /\ \A d \in Callers : pc'[d] \in {"barrier", "reply"} <=> pc[d] \in {"barrier", "reply"}
      /\ \A d \in Callers : pc[d] \in {"barrier", "reply"} => pc'[d] = pc[d] /\ handle'[d] = handle[d]
  BY <1>1 DEF Typed, TypeOK
<1>4. \A w \in Generation, d \in Callers : \A i \in DOMAIN queue'[w] :
        queue'[w][i].replyTo = d => i \in DOMAIN queue[w] /\ queue'[w][i] = queue[w][i]
  BY <1>1, <1>2, NilAssumption
<1>5. \A w \in Generation : \A i \in DOMAIN queue[w] :
        i \in DOMAIN queue'[w] /\ queue'[w][i] = queue[w][i]
  BY <1>2
<1>6. OneBarrier'
  BY <1>3, <1>4 DEF OneBarrier
<1>7. Covered'
  BY <1>1, <1>3, <1>4, <1>5 DEF Covered, Ahead, QueuedPayloads
<1>8. FailuresKnown'
  BY <1>1 DEF FailuresKnown
<1> QED
  BY <1>6, <1>7, <1>8

\* A wait begins: what it covers is in the channel.
LEMMA WaitStart ==
    ASSUME Typed, WaitInv, NEW c \in Callers, StartWait(c)
    PROVE  WaitInv'
<1> USE DEF WaitInv
<1>1. /\ pc[c] = "idle"
      /\ handle' = [handle EXCEPT ![c] = worker]
      /\ pc' = [pc EXCEPT ![c] = IF worker = None THEN "idle" ELSE "barrier"]
      /\ covers' = [covers EXCEPT
                      ![c] = IF worker = None THEN {} ELSE QueuedPayloads(worker)]
      /\ UNCHANGED <<queue, dropping, dropped, hadFailure, failed, reported>>
  BY DEF StartWait, workerVars, lifetime
<1>2. \A d \in Callers : d # c => /\ pc'[d] = pc[d] /\ handle'[d] = handle[d]
                                  /\ covers'[d] = covers[d]
  BY <1>1 DEF Typed, TypeOK
<1>3. OneBarrier'
  BY <1>1, <1>2 DEF OneBarrier
<1>4. \A w \in Generation : \A i \in DOMAIN queue[w] : queue[w][i].replyTo # c
  BY <1>1 DEF OneBarrier
<1>5. \A w \in Generation : pc'[c] = "barrier" /\ handle'[c] = w =>
          covers'[c] \subseteq QueuedPayloads(w)
  BY <1>1 DEF Typed, TypeOK
<1>6. Covered'
  BY <1>1, <1>2, <1>4, <1>5 DEF Covered, Ahead, QueuedPayloads
<1>7. FailuresKnown'
  BY <1>1 DEF FailuresKnown
<1> QED
  BY <1>3, <1>6, <1>7

\* Its barrier comes behind them.
LEMMA WaitBarrier ==
    ASSUME Typed, LifeInv, WaitInv, NEW c \in Callers, SendBarrier(c)
    PROVE  WaitInv'
<1> USE DEF WaitInv
<1>0. PICK v \in Generation, m \in Message : v = handle[c] /\ m = Barrier(c)
  BY DEF SendBarrier, Barrier, Message, LifeInv, OpenHandles, Typed, TypeOK
<1>1. /\ queue' = [queue EXCEPT ![v] = Append(@, m)]
      /\ m.replyTo = c /\ m.batch = {} /\ pc[c] = "barrier"
      /\ pc' = [pc EXCEPT ![c] = "reply"]
      /\ UNCHANGED <<handle, dropping, hadFailure, dropped, failed, reported, covers>>
  BY <1>0 DEF SendBarrier, Barrier, waitVars, lifetime
<1>2. /\ \A w \in Generation : w # v => queue'[w] = queue[w]
      /\ Len(queue[v]) \in Nat
      /\ DOMAIN queue[v] = 1..Len(queue[v]) /\ DOMAIN queue'[v] = 1..(Len(queue[v]) + 1)
      /\ \A i \in 1..Len(queue[v]) : queue'[v][i] = queue[v][i]
      /\ queue'[v][Len(queue[v]) + 1] = m
  BY <1>1, AfterSend
<1>3. pc'[c] = "reply" /\ \A d \in Callers : d # c => pc'[d] = pc[d]
  BY <1>1 DEF Typed, TypeOK
<1>4. \A w \in Generation, d \in Callers : \A i \in DOMAIN queue'[w] :
        queue'[w][i].replyTo = d =>
            \/ d # c /\ i \in DOMAIN queue[w] /\ queue'[w][i] = queue[w][i]
            \/ d = c /\ w = v /\ i = Len(queue[v]) + 1
  <2>1. \A w \in Generation : \A i \in DOMAIN queue[w] : queue[w][i].replyTo # c
    BY <1>1 DEF OneBarrier
  <2> QED
    BY <1>1, <1>2, <2>1
<1>5. \A w \in Generation : \A i \in DOMAIN queue[w] :
        i \in DOMAIN queue'[w] /\ queue'[w][i] = queue[w][i]
  BY <1>2
<1>6. OneBarrier'
  BY <1>0, <1>1, <1>2, <1>3, <1>4 DEF OneBarrier
<1>7. Covered'
  <2>1. \A w \in Generation, d \in Callers : pc'[d] = "barrier" /\ handle'[d] = w =>
            covers'[d] \subseteq dropped' \cup QueuedPayloads(w)'
    BY <1>1, <1>3, <1>5 DEF Covered, QueuedPayloads
  <2>2. ASSUME NEW w \in Generation, NEW d \in Callers, NEW i \in DOMAIN queue'[w],
               queue'[w][i].replyTo = d, NEW p \in covers[d]
        PROVE  p \in dropped \/ Ahead(w, i, p)'
    <3>1. CASE d # c
      BY <1>1, <1>4, <1>5, <2>2, <3>1 DEF Covered, Ahead
    <3>2. CASE d = c
      <4>1. w = v /\ i = Len(queue[v]) + 1
        BY <1>4, <2>2, <3>2
      <4>2. p \in dropped \cup QueuedPayloads(v)
        BY <1>0, <1>1, <2>2, <3>2 DEF Covered
      <4> QED
        BY <1>1, <1>2, <1>5, <4>1, <4>2 DEF Ahead, QueuedPayloads
    <3> QED
      BY <3>1, <3>2
  <2> QED
    BY <1>1, <2>1, <2>2 DEF Covered
<1>8. FailuresKnown'
  BY <1>1 DEF FailuresKnown
<1> QED
  BY <1>6, <1>7, <1>8

\* A batch leaves the channel to be dropped.
LEMMA WaitReceive ==
    ASSUME Typed, WaitInv, NEW v \in Generation, Receive(v)
    PROVE  WaitInv'
<1> USE DEF WaitInv
<1>1. /\ queue[v] # <<>> /\ dropping[v] = {}
      /\ queue' = [queue EXCEPT ![v] = Tail(@)]
      /\ dropping' = [dropping EXCEPT ![v] = Head(queue[v]).batch]
      /\ Head(queue[v]).replyTo = Nil
      /\ UNCHANGED <<pc, handle, hadFailure, dropped, failed, reported, covers>>
  BY DEF Receive, Waiting, waitVars, lifetime, callerVars
<1>2. /\ \A w \in Generation : w # v => queue'[w] = queue[w]
      /\ Len(queue[v]) \in Nat \ {0} /\ Head(queue[v]) = queue[v][1]
      /\ DOMAIN queue[v] = 1..Len(queue[v]) /\ DOMAIN queue'[v] = 1..(Len(queue[v]) - 1)
      /\ \A i \in 1..(Len(queue[v]) - 1) : queue'[v][i] = queue[v][i + 1]
  BY <1>1, AfterTake
<1>3. /\ dropping'[v] = queue[v][1].batch
      /\ \A w \in Generation : w # v => dropping'[w] = dropping[w]
  BY <1>1, <1>2 DEF Typed, TypeOK
<1>4. OneBarrier'
  BY <1>1, <1>2 DEF OneBarrier
<1>5. Covered'
  <2>1. \A w \in Generation : QueuedPayloads(w) \subseteq QueuedPayloads(w)'
    <3> SUFFICES ASSUME NEW w \in Generation, NEW p \in QueuedPayloads(w)
                 PROVE  p \in QueuedPayloads(w)'
      OBVIOUS
    <3>1. CASE w # v
      BY <1>2, <1>3, <3>1 DEF QueuedPayloads
    <3>2. CASE w = v
      <4>1. PICK j \in DOMAIN queue[v] : p \in queue[v][j].batch
        BY <1>1, <3>2 DEF QueuedPayloads
      <4>2. j # 1 => j - 1 \in DOMAIN queue'[v] /\ queue'[v][j - 1] = queue[v][j]
        BY <1>2
      <4> QED
        BY <1>3, <3>2, <4>1, <4>2 DEF QueuedPayloads
    <3> QED
      BY <3>1, <3>2
  <2>2. \A w \in Generation, d \in Callers : pc'[d] = "barrier" /\ handle'[d] = w =>
            covers'[d] \subseteq dropped' \cup QueuedPayloads(w)'
    BY <1>1, <2>1 DEF Covered
  <2>3. ASSUME NEW w \in Generation, NEW d \in Callers, NEW i \in DOMAIN queue'[w],
               queue'[w][i].replyTo = d, NEW p \in covers[d]
        PROVE  p \in dropped \/ Ahead(w, i, p)'
    <3>1. CASE w # v
      BY <1>1, <1>2, <1>3, <2>3, <3>1 DEF Covered, Ahead
    <3>2. CASE w = v
      <4>1. i + 1 \in DOMAIN queue[v] /\ queue[v][i + 1].replyTo = d
        BY <1>2, <2>3, <3>2
      <4>2. p \in dropped \/ Ahead(v, i + 1, p)
        BY <2>3, <4>1 DEF Covered
      <4>3. ASSUME NEW j \in DOMAIN queue[v], j < i + 1, p \in queue[v][j].batch
            PROVE  Ahead(v, i, p)'
        <5>1. CASE j = 1
          BY <1>3, <4>3, <5>1 DEF Ahead
        <5>2. CASE j # 1
          <6>1. j - 1 \in DOMAIN queue'[v] /\ queue'[v][j - 1] = queue[v][j] /\ j - 1 < i
            BY <1>2, <3>2, <4>3, <5>2
          <6> QED
            BY <4>3, <6>1 DEF Ahead
        <5> QED
          BY <5>1, <5>2
      <4> QED
        BY <1>1, <3>2, <4>2, <4>3 DEF Ahead
    <3> QED
      BY <3>1, <3>2
  <2> QED
    BY <1>1, <2>2, <2>3 DEF Covered
<1>6. FailuresKnown'
  BY <1>1 DEF FailuresKnown
<1> QED
  BY <1>4, <1>5, <1>6

\* Where nothing is being dropped, what is ahead of the first message is nothing.
LEMMA FirstCovered ==
    ASSUME Typed, WaitInv, NEW v \in Generation, NEW c \in Callers,
           Waiting(v), Head(queue[v]).replyTo = c
    PROVE  covers[c] \subseteq dropped
<1>1. queue[v] \in Seq(Message)
  BY DEF Typed, TypeOK
<1>2. /\ 1 \in DOMAIN queue[v] /\ Head(queue[v]) = queue[v][1]
      /\ \A j \in DOMAIN queue[v] : ~(j < 1)
  BY <1>1 DEF Waiting
<1>3. \A p : ~Ahead(v, 1, p)
  BY <1>2 DEF Ahead, Waiting
<1> QED
  BY <1>2, <1>3 DEF WaitInv, Covered

\* A barrier leaves the channel to be answered.
LEMMA WaitAnswer ==
    ASSUME Typed, WaitInv, NEW v \in Generation, Answer(v)
    PROVE  WaitInv'
<1> USE DEF WaitInv
<1>0. PICK c \in Callers : c = Head(queue[v]).replyTo
  <2>1. queue[v] \in Seq(Message) /\ queue[v] # <<>>
    BY DEF Answer, Waiting, Typed, TypeOK
  <2>2. Head(queue[v]) \in Message
    BY <2>1
  <2> QED
    BY <2>2 DEF Answer, Message
<1>1. /\ queue[v] # <<>> /\ dropping[v] = {}
      /\ queue' = [queue EXCEPT ![v] = Tail(@)]
      /\ pc' = [pc EXCEPT ![c] = "idle"]
      /\ handle' = [handle EXCEPT ![c] = None]
      /\ covers' = [covers EXCEPT ![c] = {}]
      /\ hadFailure' = [hadFailure EXCEPT ![v] = FALSE]
      /\ reported' = IF hadFailure[v] THEN reported \cup failed[v] ELSE reported
      /\ UNCHANGED <<dropping, dropped, failed>>
  BY <1>0 DEF Answer, Waiting, lifetime
<1>2. /\ \A w \in Generation : w # v => queue'[w] = queue[w]
      /\ Len(queue[v]) \in Nat \ {0} /\ Head(queue[v]) = queue[v][1]
      /\ DOMAIN queue[v] = 1..Len(queue[v]) /\ DOMAIN queue'[v] = 1..(Len(queue[v]) - 1)
      /\ \A i \in 1..(Len(queue[v]) - 1) : queue'[v][i] = queue[v][i + 1]
  BY <1>1, AfterTake
<1>3. \A d \in Callers : d # c => /\ pc'[d] = pc[d] /\ handle'[d] = handle[d]
                                  /\ covers'[d] = covers[d]
  BY <1>1 DEF Typed, TypeOK
<1>4. pc'[c] = "idle" /\ queue[v][1].batch = {} /\ queue[v][1].replyTo = c
  <2>1. 1 \in DOMAIN queue[v] /\ queue[v][1].replyTo = c
    BY <1>0, <1>2
  <2> QED
    BY <1>1, <2>1 DEF OneBarrier, Typed, TypeOK
<1>5. \A w \in Generation, d \in Callers : \A i \in DOMAIN queue'[w] :
        queue'[w][i].replyTo = d =>
            /\ d # c
            /\ \/ w # v /\ i \in DOMAIN queue[w] /\ queue'[w][i] = queue[w][i]
               \/ w = v /\ i + 1 \in DOMAIN queue[v] /\ queue'[w][i] = queue[v][i + 1]
  <2> SUFFICES ASSUME NEW w \in Generation, NEW d \in Callers, NEW i \in DOMAIN queue'[w],
                      queue'[w][i].replyTo = d
               PROVE  /\ d # c
                      /\ \/ w # v /\ i \in DOMAIN queue[w] /\ queue'[w][i] = queue[w][i]
                         \/ w = v /\ i + 1 \in DOMAIN queue[v] /\ queue'[w][i] = queue[v][i + 1]
    OBVIOUS
  <2>1. 1 \in DOMAIN queue[v]
    BY <1>2
  <2>2. CASE w # v
    <3>1. i \in DOMAIN queue[w] /\ queue'[w][i] = queue[w][i]
      BY <1>2, <2>2
    <3>2. handle[c] = v
      BY <1>4, <2>1 DEF OneBarrier
    <3> QED
      BY <2>2, <3>1, <3>2 DEF OneBarrier
  <2>3. CASE w = v
    <3>1. i + 1 \in DOMAIN queue[v] /\ queue'[w][i] = queue[v][i + 1] /\ i + 1 # 1
      BY <1>2, <2>3
    <3> QED
      BY <1>4, <2>1, <2>3, <3>1 DEF OneBarrier
  <2> QED
    BY <2>2, <2>3
<1>6. OneBarrier'
  <2> SUFFICES ASSUME NEW w \in Generation, NEW d \in Callers, NEW i \in DOMAIN queue'[w],
                      queue'[w][i].replyTo = d
               PROVE  /\ queue'[w][i].batch = {}
                      /\ pc'[d] = "reply" /\ handle'[d] = w
                      /\ \A j \in DOMAIN queue'[w] : queue'[w][j].replyTo = d => j = i
    BY DEF OneBarrier
  <2>1. CASE w # v
    BY <1>2, <1>3, <1>5, <2>1 DEF OneBarrier
  <2>2. CASE w = v
    <3>1. /\ queue'[w][i].batch = {} /\ pc'[d] = "reply" /\ handle'[d] = w
      BY <1>3, <1>5, <2>2 DEF OneBarrier
    <3>2. ASSUME NEW j \in DOMAIN queue'[w], queue'[w][j].replyTo = d
          PROVE  j + 1 = i + 1
      <4>1. /\ i + 1 \in DOMAIN queue[v] /\ queue[v][i + 1].replyTo = d
            /\ j + 1 \in DOMAIN queue[v] /\ queue[v][j + 1].replyTo = d
        BY <1>5, <2>2, <3>2
      <4> QED
        BY <4>1 DEF OneBarrier
    <3>3. \A j \in DOMAIN queue'[w] : j + 1 = i + 1 => j = i
      BY <1>2, <2>2
    <3> QED
      BY <3>1, <3>2, <3>3
  <2> QED
    BY <2>1, <2>2
<1>7. Covered'
  <2>1. \A w \in Generation : QueuedPayloads(w) \subseteq QueuedPayloads(w)'
    <3> SUFFICES ASSUME NEW w \in Generation, NEW p \in QueuedPayloads(w)
                 PROVE  p \in QueuedPayloads(w)'
      OBVIOUS
    <3>1. CASE w # v
      BY <1>1, <1>2, <3>1 DEF QueuedPayloads
    <3>2. CASE w = v
      <4>1. PICK j \in DOMAIN queue[v] : p \in queue[v][j].batch
        BY <1>1, <3>2 DEF QueuedPayloads
      <4>2. j # 1
        BY <1>4, <4>1
      <4>3. j - 1 \in DOMAIN queue'[v] /\ queue'[v][j - 1] = queue[v][j]
        BY <1>2, <4>2
      <4> QED
        BY <3>2, <4>1, <4>3 DEF QueuedPayloads
    <3> QED
      BY <3>1, <3>2
  <2>2. \A w \in Generation, d \in Callers : pc'[d] = "barrier" /\ handle'[d] = w =>
            covers'[d] \subseteq dropped' \cup QueuedPayloads(w)'
    BY <1>1, <1>3, <1>4, <2>1 DEF Covered
  <2>3. ASSUME NEW w \in Generation, NEW d \in Callers, NEW i \in DOMAIN queue'[w],
               queue'[w][i].replyTo = d, NEW p \in covers'[d]
        PROVE  p \in dropped \/ Ahead(w, i, p)'
    <3>0. d # c /\ p \in covers[d]
      BY <1>3, <1>5, <2>3
    <3>1. CASE w # v
      BY <1>1, <1>2, <2>3, <3>0, <3>1 DEF Covered, Ahead
    <3>2. CASE w = v
      <4>1. i + 1 \in DOMAIN queue[v] /\ queue[v][i + 1].replyTo = d
        BY <1>5, <2>3, <3>2
      <4>2. p \in dropped \/ Ahead(v, i + 1, p)
        BY <3>0, <4>1 DEF Covered
      <4>3. ASSUME NEW j \in DOMAIN queue[v], j < i + 1, p \in queue[v][j].batch
            PROVE  Ahead(v, i, p)'
        <5>1. j # 1
          BY <1>4, <4>3
        <5>2. j - 1 \in DOMAIN queue'[v] /\ queue'[v][j - 1] = queue[v][j] /\ j - 1 < i
          BY <1>2, <3>2, <4>3, <5>1
        <5> QED
          BY <4>3, <5>2 DEF Ahead
      <4> QED
        BY <1>1, <3>2, <4>2, <4>3 DEF Ahead
    <3> QED
      BY <3>1, <3>2
  <2> QED
    BY <1>1, <2>2, <2>3 DEF Covered
<1>8. FailuresKnown'
  BY <1>1 DEF FailuresKnown, Typed, TypeOK
<1> QED
  BY <1>6, <1>7, <1>8

\* A payload is dropped.
LEMMA WaitDrop ==
    ASSUME Typed, WaitInv, NEW v \in Generation, DropNext(v)
    PROVE  WaitInv'
<1> USE DEF WaitInv
<1>1. PICK x \in dropping[v], b \in Panics :
        /\ dropping' = [dropping EXCEPT ![v] = @ \ {x}]
        /\ dropped' = dropped \cup {x}
        /\ hadFailure' = [hadFailure EXCEPT ![v] = @ \/ b]
        /\ failed' = [failed EXCEPT ![v] = IF b THEN @ \cup {x} ELSE @]
        /\ UNCHANGED <<queue, pc, handle, reported, covers>>
  BY DEF DropNext, callerVars
<1>2. OneBarrier'
  BY <1>1 DEF OneBarrier
<1>3. \A w \in Generation : dropping[w] \subseteq dropped' \cup dropping'[w]
  BY <1>1 DEF Typed, TypeOK
<1>4. Covered'
  <2>2. \A w \in Generation : QueuedPayloads(w) \subseteq dropped' \cup QueuedPayloads(w)'
    BY <1>1, <1>3 DEF QueuedPayloads
  <2>3. \A w \in Generation : \A i, p : Ahead(w, i, p) => p \in dropped' \/ Ahead(w, i, p)'
    BY <1>1, <1>3 DEF Ahead
  <2>4. \A w \in Generation, d \in Callers : pc'[d] = "barrier" /\ handle'[d] = w =>
            covers'[d] \subseteq dropped' \cup QueuedPayloads(w)'
    BY <1>1, <2>2 DEF Covered
  <2> QED
    BY <1>1, <2>3, <2>4 DEF Covered
<1>5. FailuresKnown'
  BY <1>1 DEF FailuresKnown, Typed, TypeOK
<1> QED
  BY <1>2, <1>4, <1>5

LEMMA WaitInvStep == Typed /\ LifeInv /\ WaitInv /\ [Next]_vars => WaitInv'
<1> SUFFICES ASSUME Typed, LifeInv, WaitInv, [Next]_vars PROVE WaitInv'
  OBVIOUS
<1> USE DEF waitVars, workerVars, lifetime, callerVars
<1>1. ASSUME NEW c \in Callers, Proceed(c) \/ ObserveAny(c), UNCHANGED queue
      PROVE  WaitInv'
  <2>1. /\ pc[c] \notin {"barrier", "reply"} /\ pc'[c] \notin {"barrier", "reply"}
        /\ \A d \in Callers : d # c => pc'[d] = pc[d] /\ handle'[d] = handle[d]
        /\ UNCHANGED <<dropping, hadFailure, waitVars>> /\ dropped \subseteq dropped'
    BY <1>1 DEF ObserveAny, Observe, ObserveSync, ObserveSyncPanics, ObserveBackground, Proceed,
                CheckEnabled, CloneHandle, TrySend, DropHere, Return, FinishReset, FinishDrop, Done,
                Typed, TypeOK
  <2> QED
    BY <1>1, <2>1, WaitQuiet
<1>2. ASSUME NEW c \in Callers, Proceed(c), ~UNCHANGED queue
      PROVE  WaitInv'
  BY <1>2, WaitSend DEF Proceed, CheckEnabled, CloneHandle, Return, FinishReset, FinishDrop, Done
<1>3. ASSUME UNCHANGED <<queue, dropping, hadFailure, waitVars, pc, handle>>,
             dropped \subseteq dropped'
      PROVE  WaitInv'
  BY <1>3, WaitQuiet
<1>4. ASSUME NEW c \in Callers, Caller(c)
      PROVE  WaitInv'
  <2>1. CASE Enable(c) \/ Release(c)
    BY <1>3, <2>1 DEF Enable, Release
  <2>2. ObserveAny(c) => UNCHANGED queue
    BY DEF ObserveAny, ObserveSync, ObserveSyncPanics, ObserveBackground
  <2> QED
    BY <1>1, <1>2, <1>4, <2>1, <2>2, WaitStart, WaitBarrier DEF Caller
<1>5. ASSUME NEW w \in Generation, Worker(w)
      PROVE  WaitInv'
  <2>1. CASE Exit(w)
    BY <1>3, <2>1 DEF Exit
  <2> QED
    BY <1>5, <2>1, WaitReceive, WaitDrop, WaitAnswer DEF Worker
<1>6. CASE LoseDevice \/ UNCHANGED vars \/ \E f \in Fences : Fence(f)
  BY <1>3, <1>6 DEF LoseDevice, vars, Fence, Submit, Complete, ResetPending, DropUnobserved,
                    DropUnwaited, DropPanicking
<1> QED
  BY <1>4, <1>5, <1>6 DEF Next

\* When wait_for_pending_cleanup returns, what was queued before the call has been
\* dropped and no failure among it is unreported, whatever other threads send, wait for
\* or give up in between.
THEOREM WaitsCover == Spec => WaitCoversQueue
<1>1. Init => Typed /\ LifeInv /\ WaitInv
  BY TypeInit, LifeInvInit, WaitInvInit
<1>2. Typed /\ LifeInv /\ WaitInv /\ [Next]_vars => (Typed /\ LifeInv /\ WaitInv)'
  BY TypeStep, LifeInvStep, WaitInvStep
<1>3. ASSUME Typed, WaitInv, NEW w \in Generation, NEW c \in Callers,
             Answer(w), Head(queue[w]).replyTo = c
      PROVE  covers[c] \subseteq dropped /\ covers[c] \cap failed[w] \subseteq reported'
  BY <1>3, FirstCovered DEF Answer, WaitInv, FailuresKnown
<1>4. Typed /\ LifeInv /\ WaitInv =>
        [\A w \in Generation, c \in Callers :
           Answer(w) /\ Head(queue[w]).replyTo = c =>
              /\ covers[c] \subseteq dropped
              /\ covers[c] \cap failed[w] \subseteq reported']_vars
  BY <1>3
<1> QED
  BY <1>1, <1>2, <1>4, PTL DEF Spec, WaitCoversQueue
=============================================================================
