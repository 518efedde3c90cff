--------------------------- MODULE GraphchainProofs ----------------------------
(***************************************************************************)
(* Theorems about Graphchain that hold whatever the client does with the     *)
(* images it acquired: types, the limit of frames in flight, and what is     *)
(* destroyed; and about what is used again, if it presents each image before *)
(* it acquires the next.                                                     *)
(***************************************************************************)
EXTENDS Graphchain, FiniteSetTheorems, SequenceTheorems, TLAPS

-----------------------------------------------------------------------------
(* What is in a queue                                                      *)

RenderedSemaphores == {Rendered(e, i) : e \in Epochs, i \in Images}
Works == {Work(f, Acquired(f), s) : f \in Frames, s \in RenderedSemaphores \cup {None}}
Presents == {Present(h, i, Rendered(e, i)) : h \in Handles, e \in Epochs, i \in Images}
Ops == Works \cup Presents \cup {Signal}

\* The operation o is the k-th in queue q.
Positions == Nat \ {0}
Op(q, k, o) == k \in DOMAIN queue[q] /\ queue[q][k] = o

-----------------------------------------------------------------------------
(* What is true of a graphchain between any two steps                      *)

TypeInv ==
    /\ TypeOK
    /\ queue \in [Queues -> Seq(Ops)]
    /\ frameCount \in 1..Cardinality(Frames)
    /\ frameIdx < frameCount
    /\ \A i \in Images : imageFrames[i] < frameCount
    /\ pc = "recreate" => epoch < MaxResets /\ (recreatePending => live < MaxHandles)

\* The fence of a slot covers the slot's work.
Fenced ==
    /\ \A q \in Queues, k \in Positions, o \in Works : Op(q, k, o) => fenceQueued[o.owner]
    /\ \A f \in Frames : fenceQueued[f] => f < frameCount
    /\ pc = "limit" => ~fenceQueued[frameIdx]

\* Behind every present there is the signal that tells the host of it, or it is
\* about to come.
Signaled ==
    /\ \A q \in Queues, k \in Positions, o \in Presents : Op(q, k, o) =>
         \/ pc = "signal" /\ lastQueue = q
         \/ \E j \in Positions : j > k /\ Op(q, j, Signal)
    /\ \A q \in Queues, k \in Positions : Op(q, k, Signal) => signalQueued[q]

\* A recreation that the graphchain asks for and its swapchain does not.
ResetAlone == resetPending /\ ~recreatePending

\* Pending work signals semaphores of this reset, presents wait for semaphores of this
\* or an earlier one; only a recreation of the swapchain may be followed by a reset
\* that leaves presents behind.
Named ==
    /\ pc = "slot" => ~recreatePending /\ ~resetPending
    /\ pc = "recreate" => recreatePending \/ resetPending
    /\ \A q \in Queues, k \in Positions, o \in Works : Op(q, k, o) =>
         o.signal = None \/ \E i \in Images : o.signal = Rendered(epoch, i)
    /\ \A q \in Queues, k \in Positions, o \in Presents, e \in Epochs, i \in Images :
         Op(q, k, o) /\ o.wait = Rendered(e, i) =>
            /\ e <= epoch
            /\ pc \notin {"dropping", "dropped"} => e \notin freedEpochs
            /\ clamped \/ ResetAlone => e = epoch
    /\ ResetAlone => ~clamped
    /\ \A e \in retiredEpochs : e < epoch
    /\ pc \notin {"dropping", "dropped"} => \A e \in freedEpochs : e < epoch

\* Presents are made on the live handle, which is destroyed last.
Handled ==
    /\ \A h \in retired : h < live
    /\ pc # "dropped" => \A h \in destroyed : h < live
    /\ \A q \in Queues, k \in Positions, o \in Presents : Op(q, k, o) =>
         o.handle <= live /\ o.handle \notin destroyed

\* The client presents on one queue only.
OneQueue == \A p, q \in Queues : p = q

\* A drop has waited for the work, and for the last queue.
Drained ==
    pc \in {"dropping", "dropped"} =>
        /\ \A q \in Queues, k \in Positions, o \in Works : ~Op(q, k, o)
        /\ OneQueue => \A q \in Queues, k \in Positions, o \in Ops : ~Op(q, k, o)

-----------------------------------------------------------------------------
(* Frames, operations and queues                                           *)

LEMMA ImagesAre ==
    /\ IsFiniteSet(Images) /\ Cardinality(Images) \in Nat \ {0}
    /\ Images \subseteq Nat
<1> DEFINE max == CHOOSE n \in ImageCounts : \A m \in ImageCounts : m <= n
<1>1. max \in ImageCounts
  BY ImageCountsAssumption
<1>2. max \in Nat \ {0}
  BY <1>1, ImageCountsAssumption
<1>3. Images = 0..(max - 1)
  BY DEF Images
<1> HIDE DEF max
<1>4. IsFiniteSet(0..(max - 1)) /\ Cardinality(0..(max - 1)) = max
  BY <1>2, FS_Interval
<1> QED
  BY <1>2, <1>3, <1>4

LEMMA FramesAre ==
    /\ IsFiniteSet(Frames) /\ Cardinality(Frames) \in Nat \ {0}
    /\ Frames = 0..Cardinality(Frames) - 1
    /\ Capacity \in 1..Cardinality(Frames)
    /\ Cardinality(Images) <= Cardinality(Frames)
<1> DEFINE count == MaxOf(Capacity, Cardinality(Images))
<1>1. count \in Nat \ {0} /\ Capacity \in 1..count /\ Cardinality(Images) <= count
  BY ImagesAre, CapacityAssumption DEF MaxOf
<1>2. Frames = 0..(count - 1)
  BY DEF Frames
<1> HIDE DEF count
<1>3. IsFiniteSet(0..(count - 1)) /\ Cardinality(0..(count - 1)) = count
  BY <1>1, FS_Interval
<1> QED
  BY <1>1, <1>2, <1>3

LEMMA SemaphoresAre ==
    /\ \A f \in Frames : Acquired(f) \in Semaphores
    /\ RenderedSemaphores \subseteq Semaphores /\ None \notin RenderedSemaphores
    /\ \A e \in Epochs, i \in Images : Rendered(e, i) \in RenderedSemaphores
    /\ \A f \in Frames, e \in Epochs, i \in Images : Acquired(f) # Rendered(e, i)
    /\ \A f, g \in Frames : Acquired(f) = Acquired(g) => f = g
    /\ \A d, e \in Epochs, i, j \in Images : Rendered(d, i) = Rendered(e, j) => d = e /\ i = j
<1>1. /\ \A f \in Frames : Acquired(f) \in Semaphores
      /\ RenderedSemaphores \subseteq Semaphores
      /\ \A e \in Epochs, i \in Images : Rendered(e, i) \in RenderedSemaphores
  BY SemaphoresAssumption
     DEF GraphchainSemaphores, AcquiredSemaphores, RenderedSemaphores
<1>2. \A f \in Frames, e \in Epochs, i \in Images : Acquired(f) # Rendered(e, i)
  <2> SUFFICES ASSUME NEW f \in Frames, NEW e \in Epochs, NEW i \in Images
               PROVE  Acquired(f) # Rendered(e, i)
    OBVIOUS
  <2>1. Acquired(f)[1] = "acquired" /\ Rendered(e, i)[1] = "rendered"
    BY DEF Acquired, Rendered
  <2> QED
    BY <2>1
<1>3. \A f, g \in Frames : Acquired(f) = Acquired(g) => f = g
  BY DEF Acquired
<1>4. \A d, e \in Epochs, i, j \in Images : Rendered(d, i) = Rendered(e, j) => d = e /\ i = j
  BY DEF Rendered
<1> QED
  BY <1>1, <1>2, <1>3, <1>4, NoneAssumption

LEMMA OpsAre ==
    /\ \A f, w, s : /\ Work(f, w, s).kind = "work" /\ Work(f, w, s).owner = f
                    /\ Work(f, w, s).wait = w /\ Work(f, w, s).signal = s
    /\ \A h, i, s : /\ Present(h, i, s).kind = "present" /\ Present(h, i, s).handle = h
                    /\ Present(h, i, s).image = i /\ Present(h, i, s).wait = s
    /\ Signal.kind = "signal"
BY DEF Work, Present, Signal

LEMMA WorksAre ==
    ASSUME NEW o \in Works
    PROVE  /\ o.kind = "work" /\ o.owner \in Frames /\ o.wait = Acquired(o.owner)
           /\ o.signal \in RenderedSemaphores \cup {None}
           /\ o \in Ops /\ o \notin Presents /\ o # Signal
<1>1. PICK f \in Frames, s \in RenderedSemaphores \cup {None} : o = Work(f, Acquired(f), s)
  BY DEF Works
<1>2. o.kind = "work" /\ o.owner = f /\ o.wait = Acquired(f) /\ o.signal = s
  BY <1>1, OpsAre
<1>3. o \notin Presents /\ o # Signal
  BY <1>2, OpsAre DEF Presents
<1> QED
  BY <1>2, <1>3 DEF Ops

LEMMA PresentsAre ==
    ASSUME NEW o \in Presents
    PROVE  /\ o.kind = "present" /\ o.handle \in Handles /\ o.image \in Images
           /\ \E e \in Epochs : o.wait = Rendered(e, o.image)
           /\ o \in Ops /\ o \notin Works /\ o # Signal
<1>1. PICK h \in Handles, e \in Epochs, i \in Images : o = Present(h, i, Rendered(e, i))
  BY DEF Presents
<1>2. o.kind = "present" /\ o.handle = h /\ o.image = i /\ o.wait = Rendered(e, i)
  BY <1>1, OpsAre
<1>3. o \notin Works /\ o # Signal
  BY <1>2, OpsAre DEF Works
<1> QED
  BY <1>2, <1>3 DEF Ops

LEMMA KindsAre ==
    ASSUME NEW o \in Ops
    PROVE  /\ o.kind = "work" <=> o \in Works
           /\ o.kind = "present" <=> o \in Presents
           /\ o.kind = "signal" <=> o = Signal
           /\ o.kind \in {"work", "present", "signal"}
BY OpsAre, WorksAre, PresentsAre DEF Ops

\* Queues Q with an operation more, or the n-th of queue p less
Push(Q, p, a) == [Q EXCEPT ![p] = Append(@, a)]
Pull(Q, p, n) == [Q EXCEPT ![p] = RemoveAt(@, n)]

\* Queues N are Q and operation a at position n of queue p.
Grown(Q, N, p, n, a) ==
    /\ \A q \in Queues, k \in Positions, o \in Ops :
         (k \in DOMAIN N[q] /\ N[q][k] = o) <=>
            \/ k \in DOMAIN Q[q] /\ Q[q][k] = o
            \/ q = p /\ k = n /\ o = a
    /\ \A k \in Positions : k \in DOMAIN Q[p] => k < n

LEMMA AppendsAt ==
    ASSUME NEW Q \in [Queues -> Seq(Ops)], NEW p \in Queues, NEW a \in Ops, NEW N,
           N = Push(Q, p, a)
    PROVE  /\ N \in [Queues -> Seq(Ops)]
           /\ \E n \in Positions : Grown(Q, N, p, n, a)
<1>1. PICK s : s = Q[p]
  OBVIOUS
<1>2. s \in Seq(Ops)
  BY <1>1
<1>3. /\ Append(s, a) \in Seq(Ops) /\ Len(s) \in Nat
      /\ DOMAIN Append(s, a) = 1..(Len(s) + 1) /\ DOMAIN s = 1..Len(s)
      /\ Append(s, a)[Len(s) + 1] = a
      /\ \A k \in DOMAIN s : Append(s, a)[k] = s[k]
  BY <1>2
<1>4. N \in [Queues -> Seq(Ops)] /\ N[p] = Append(s, a)
      /\ \A q \in Queues \ {p} : N[q] = Q[q]
  BY <1>1, <1>3 DEF Push
<1>5. \A k \in Positions, o \in Ops :
        (k \in DOMAIN N[p] /\ N[p][k] = o) <=>
            \/ k \in DOMAIN Q[p] /\ Q[p][k] = o
            \/ k = Len(Q[p]) + 1 /\ o = a
  BY <1>1, <1>3, <1>4 DEF Positions
<1>6. PICK n : n = Len(s) + 1
  OBVIOUS
<1>7. n \in Positions /\ \A k \in Positions : k \in DOMAIN Q[p] => k < n
  BY <1>1, <1>3, <1>6 DEF Positions
<1>8. ASSUME NEW q \in Queues, NEW k \in Positions, NEW o \in Ops
      PROVE  (k \in DOMAIN N[q] /\ N[q][k] = o) <=>
                \/ k \in DOMAIN Q[q] /\ Q[q][k] = o
                \/ q = p /\ k = n /\ o = a
  <2>1. CASE q = p
    BY <1>1, <1>5, <1>6, <2>1
  <2>2. CASE q # p
    BY <1>4, <2>2
  <2> QED
    BY <2>1, <2>2
<1>9. Grown(Q, N, p, n, a)
  BY <1>7, <1>8 DEF Grown
<1> QED
  BY <1>4, <1>7, <1>9

LEMMA RemoveAtIs ==
    ASSUME NEW S, NEW s \in Seq(S), NEW n \in 1..Len(s)
    PROVE  /\ RemoveAt(s, n) \in Seq(S) /\ Len(RemoveAt(s, n)) = Len(s) - 1
           /\ \A k \in 1..(Len(s) - 1) :
                RemoveAt(s, n)[k] = IF k < n THEN s[k] ELSE s[k + 1]
<1>1. Len(s) \in Nat /\ n \in Int /\ n >= 1 /\ n <= Len(s) /\ \A k \in 1..Len(s) : s[k] \in S
  OBVIOUS
<1>2. \A k \in 1..(n - 1) : s[k] \in S
  BY <1>1
<1>3. \A k \in (n + 1)..Len(s) : s[k] \in S
  BY <1>1
<1>4. /\ SubSeq(s, 1, n - 1) \in Seq(S)
      /\ Len(SubSeq(s, 1, n - 1)) = IF 1 <= n - 1 THEN (n - 1) - 1 + 1 ELSE 0
      /\ \A k \in 1..((n - 1) - 1 + 1) : SubSeq(s, 1, n - 1)[k] = s[1 + k - 1]
  <2>1. n - 1 \in Int
    BY <1>1
  <2> QED
    BY <1>2, <2>1, SubSeqProperties
<1>5. /\ SubSeq(s, n + 1, Len(s)) \in Seq(S)
      /\ Len(SubSeq(s, n + 1, Len(s))) = IF n + 1 <= Len(s) THEN Len(s) - (n + 1) + 1 ELSE 0
      /\ \A k \in 1..(Len(s) - (n + 1) + 1) : SubSeq(s, n + 1, Len(s))[k] = s[(n + 1) + k - 1]
  <2>1. n + 1 \in Int /\ Len(s) \in Int
    BY <1>1
  <2> QED
    BY <1>3, <2>1, SubSeqProperties
<1>6. PICK front, back : front = SubSeq(s, 1, n - 1) /\ back = SubSeq(s, n + 1, Len(s))
  OBVIOUS
<1>7. /\ front \in Seq(S) /\ Len(front) = n - 1 /\ \A k \in 1..(n - 1) : front[k] = s[k]
      /\ back \in Seq(S) /\ Len(back) = Len(s) - n
  BY <1>1, <1>4, <1>5, <1>6
<1>8. \A k \in 1..(Len(s) - n) : back[k] = s[n + k]
  <2> SUFFICES ASSUME NEW k \in 1..(Len(s) - n)
               PROVE  back[k] = s[n + k]
    OBVIOUS
  <2>1. k \in 1..(Len(s) - (n + 1) + 1) /\ (n + 1) + k - 1 = n + k
    BY <1>1
  <2>2. SubSeq(s, n + 1, Len(s))[k] = s[(n + 1) + k - 1]
    BY <1>5, <2>1
  <2> QED
    BY <1>6, <2>1, <2>2
<1>9. RemoveAt(s, n) = front \o back
  BY <1>6 DEF RemoveAt
<1>10. PICK t : t = front \o back
  OBVIOUS
<1>11. /\ t \in Seq(S) /\ Len(t) = Len(front) + Len(back)
       /\ \A k \in 1..(Len(front) + Len(back)) :
            t[k] = IF k <= Len(front) THEN front[k] ELSE back[k - Len(front)]
  BY <1>7, <1>10, ConcatProperties
<1>12. Len(t) = Len(s) - 1
  BY <1>1, <1>7, <1>11
<1>13. ASSUME NEW k \in 1..(Len(s) - 1)
       PROVE  t[k] = IF k < n THEN s[k] ELSE s[k + 1]
  <2>0. k \in 1..(Len(front) + Len(back))
    BY <1>1, <1>7
  <2>1. CASE k < n
    <3>1. k <= Len(front) /\ k \in 1..(n - 1)
      BY <1>1, <1>7, <2>1
    <3> QED
      BY <1>7, <1>11, <2>0, <2>1, <3>1
  <2>2. CASE ~(k < n)
    <3>1. ~(k <= Len(front)) /\ k - Len(front) \in 1..(Len(s) - n) /\ n + (k - Len(front)) = k + 1
      BY <1>1, <1>7, <2>2
    <3>2. t[k] = back[k - Len(front)]
      BY <1>11, <2>0, <3>1
    <3>3. back[k - Len(front)] = s[n + (k - Len(front))]
      BY <1>8, <3>1
    <3> QED
      BY <2>2, <3>1, <3>2, <3>3
  <2> QED
    BY <2>1, <2>2
<1> QED
  BY <1>9, <1>10, <1>11, <1>12, <1>13

LEMMA RemovesAt ==
    ASSUME NEW Q \in [Queues -> Seq(Ops)], NEW p \in Queues, NEW n \in DOMAIN Q[p], NEW N,
           N = Pull(Q, p, n)
    PROVE  /\ N \in [Queues -> Seq(Ops)]
           /\ n \in Positions
           /\ \A q \in Queues, k \in Positions, o \in Ops :
                (k \in DOMAIN N[q] /\ N[q][k] = o) <=>
                    \/ (q # p \/ k < n) /\ k \in DOMAIN Q[q] /\ Q[q][k] = o
                    \/ q = p /\ k >= n /\ k + 1 \in DOMAIN Q[q] /\ Q[q][k + 1] = o
<1>1. PICK s, t : s = Q[p] /\ t = RemoveAt(s, n)
  OBVIOUS
<1>2. s \in Seq(Ops) /\ n \in 1..Len(s) /\ Len(s) \in Nat
  BY <1>1
<1>6. t \in Seq(Ops) /\ Len(t) = Len(s) - 1
      /\ \A k \in 1..(Len(s) - 1) : t[k] = IF k < n THEN s[k] ELSE s[k + 1]
  BY <1>1, <1>2, RemoveAtIs
<1>7. N \in [Queues -> Seq(Ops)] /\ N[p] = t /\ \A q \in Queues \ {p} : N[q] = Q[q]
  BY <1>1, <1>6 DEF Pull
<1>8. DOMAIN t = 1..(Len(s) - 1) /\ DOMAIN s = 1..Len(s)
  BY <1>2, <1>6
<1>9. \A k \in Positions, o \in Ops :
        (k \in DOMAIN N[p] /\ N[p][k] = o) <=>
            \/ k < n /\ k \in DOMAIN s /\ s[k] = o
            \/ k >= n /\ k + 1 \in DOMAIN s /\ s[k + 1] = o
  BY <1>2, <1>6, <1>7, <1>8 DEF Positions
<1> QED
  BY <1>1, <1>2, <1>7, <1>9 DEF Positions

-----------------------------------------------------------------------------
(* What a step does to the queues                                          *)

\* Operation a joins queue p at position n.
Joins(p, n, a) ==
    /\ n \in Positions
    /\ \A q \in Queues, k \in Positions, o \in Ops :
         Op(q, k, o)' <=> Op(q, k, o) \/ (q = p /\ k = n /\ o = a)
    /\ \A k \in Positions, o \in Ops : Op(p, k, o) => k < n

\* And operation b behind it.
JoinBoth(p, n, a, b) ==
    /\ n \in Positions
    /\ \A q \in Queues, k \in Positions, o \in Ops :
         Op(q, k, o)' <=> \/ Op(q, k, o)
                          \/ q = p /\ k = n /\ o = a
                          \/ q = p /\ k = n + 1 /\ o = b
    /\ \A k \in Positions, o \in Ops : Op(p, k, o) => k < n

\* Operation a leaves queue p from position n.
Leaves(p, n, a) ==
    /\ n \in Positions /\ a \in Ops /\ Op(p, n, a)
    /\ \A q \in Queues, k \in Positions, o \in Ops :
         Op(q, k, o)' <=> \/ (q # p \/ k < n) /\ Op(q, k, o)
                          \/ q = p /\ k >= n /\ Op(q, k + 1, o)

\* Work of slot f joins queue p, for semaphore s or none; other work for s may lose it.
Rejects(p, f, s) ==
    /\ \A q \in Queues, k \in Positions, o \in Ops \ Works : Op(q, k, o)' <=> Op(q, k, o)
    /\ \A q \in Queues, k \in Positions, o \in Works : Op(q, k, o)' =>
         \/ o.owner = f /\ o.signal \in {None, s}
         \/ \E w \in Works : Op(q, k, w) /\ w.owner = o.owner /\ o.signal \in {None, w.signal}

LEMMA OpIsOne ==
    ASSUME NEW q \in Queues, NEW k \in Positions, NEW o \in Ops, NEW w \in Ops,
           Op(q, k, o), Op(q, k, w)
    PROVE  o = w
BY DEF Op

LEMMA QueueKinds ==
    ASSUME NEW Q \in [Queues -> Seq(Ops)]
    PROVE  \A q \in Queues : \A k \in DOMAIN Q[q] :
             k \in Positions /\ Q[q][k] \in Ops /\ Q[q][k].kind \in {"work", "present", "signal"}
<1> SUFFICES ASSUME NEW q \in Queues, NEW k \in DOMAIN Q[q]
             PROVE  k \in Positions /\ Q[q][k] \in Ops
                    /\ Q[q][k].kind \in {"work", "present", "signal"}
  OBVIOUS
<1>1. PICK s : s = Q[q]
  OBVIOUS
<1>2. s \in Seq(Ops)
  BY <1>1
<1>3. s[k] \in Ops /\ k \in Positions
  BY <1>1, <1>2 DEF Positions
<1> QED
  BY <1>1, <1>3, KindsAre

\* What is unfinished, in terms of places in queues.
LEMMA UnfinishedAre ==
    ASSUME queue \in [Queues -> Seq(Ops)]
    PROVE  \A o : o \in Unfinished <=>
             o \in Ops /\ \E q \in Queues, k \in Positions : Op(q, k, o)
<1>1. PICK Q \in [Queues -> Seq(Ops)] : Q = queue
  OBVIOUS
<1>2. \A q \in Queues : \A k \in DOMAIN Q[q] : k \in Positions /\ Q[q][k] \in Ops
  BY QueueKinds
<1>3. \A o : o \in Unfinished <=> \E q \in Queues : \E k \in DOMAIN Q[q] : o = Q[q][k]
  BY <1>1 DEF Unfinished, Range
<1> QED
  BY <1>1, <1>2, <1>3 DEF Op

LEMMA WaitsAre ==
    ASSUME queue \in [Queues -> Seq(Ops)]
    PROVE  /\ \A f \in Frames : WorkDone(f) <=>
                \A q \in Queues, k \in Positions, o \in Works : Op(q, k, o) => o.owner # f
           /\ \A h \in Handles, i \in Images : Presenting(h, i) <=>
                \E q \in Queues, k \in Positions, o \in Presents :
                    Op(q, k, o) /\ o.handle = h /\ o.image = i
           /\ \A q \in Queues : SignalDone(q) <=> \A k \in Positions : ~Op(q, k, Signal)
<1>1. \A f \in Frames : WorkDone(f) <=>
        \A q \in Queues, k \in Positions, o \in Works : Op(q, k, o) => o.owner # f
  BY UnfinishedAre, KindsAre, WorksAre DEF WorkDone
<1>2. \A h \in Handles, i \in Images : Presenting(h, i) <=>
        \E q \in Queues, k \in Positions, o \in Presents :
            Op(q, k, o) /\ o.handle = h /\ o.image = i
  BY UnfinishedAre, KindsAre, PresentsAre DEF Presenting
<1>3. \A q \in Queues : SignalDone(q) <=> \A k \in Positions : ~Op(q, k, Signal)
  <2>1. PICK Q \in [Queues -> Seq(Ops)] : Q = queue
    OBVIOUS
  <2>2. \A q \in Queues : \A k \in DOMAIN Q[q] : k \in Positions
    BY QueueKinds
  <2> QED
    BY <2>1, <2>2 DEF SignalDone, Range, Op
<1> QED
  BY <1>1, <1>2, <1>3

LEMMA PushJoins ==
    ASSUME queue \in [Queues -> Seq(Ops)], NEW p \in Queues, NEW a \in Ops,
           queue' = Push(queue, p, a)
    PROVE  queue' \in [Queues -> Seq(Ops)] /\ \E n \in Positions : Joins(p, n, a)
<1>0. PICK Q \in [Queues -> Seq(Ops)] : Q = queue
  OBVIOUS
<1>1. PICK N : Q = queue /\ N = queue'
  BY <1>0
<1>2. N = Push(Q, p, a)
  BY <1>1
<1>3. N \in [Queues -> Seq(Ops)]
  BY <1>2, AppendsAt
<1>4. PICK n \in Positions : Grown(Q, N, p, n, a)
  BY <1>2, AppendsAt
<1>5. Joins(p, n, a)
  BY <1>1, <1>4 DEF Joins, Op, Grown
<1> QED
  BY <1>1, <1>3, <1>5

LEMMA SubmitSignalJoins ==
    ASSUME queue \in [Queues -> Seq(Ops)], NEW p \in Queues, SubmitSignal(p)
    PROVE  /\ queue' \in [Queues -> Seq(Ops)]
           /\ \E n \in Positions : Joins(p, n, Signal)
<1>1. queue' = Push(queue, p, Signal) /\ Signal \in Ops
  BY DEF SubmitSignal, Push, Ops
<1> QED
  BY <1>1, PushJoins

LEMMA DeviceLeaves ==
    ASSUME queue \in [Queues -> Seq(Ops)], NEW p \in Queues, NEW n \in DOMAIN queue[p],
           queue' = Pull(queue, p, n)
    PROVE  /\ queue' \in [Queues -> Seq(Ops)] /\ n \in Positions
           /\ queue[p][n] \in Ops /\ Leaves(p, n, queue[p][n])
<1>0. PICK Q \in [Queues -> Seq(Ops)] : Q = queue
  OBVIOUS
<1>1. PICK N : Q = queue /\ N = queue'
  BY <1>0
<1>2. N = Pull(Q, p, n) /\ n \in DOMAIN Q[p]
  BY <1>1 DEF Pull
<1>3. /\ N \in [Queues -> Seq(Ops)] /\ n \in Positions
      /\ \A q \in Queues, k \in Positions, o \in Ops :
            (k \in DOMAIN N[q] /\ N[q][k] = o) <=>
                \/ (q # p \/ k < n) /\ k \in DOMAIN Q[q] /\ Q[q][k] = o
                \/ q = p /\ k >= n /\ k + 1 \in DOMAIN Q[q] /\ Q[q][k + 1] = o
  BY SMTT(30), <1>2, RemovesAt
<1>4. Q[p][n] \in Ops
  BY <1>2, QueueKinds
<1> QED
  BY <1>1, <1>2, <1>3, <1>4 DEF Leaves, Op

LEMMA ExecuteSignalLeaves ==
    ASSUME queue \in [Queues -> Seq(Ops)], NEW p \in Queues, ExecuteSignal(p)
    PROVE  queue' \in [Queues -> Seq(Ops)] /\ Leaves(p, 1, Signal)
<1>1. PICK s : s = queue[p]
  OBVIOUS
<1>2. s \in Seq(Ops) /\ s # <<>> /\ Head(s) = Signal
  BY <1>1 DEF ExecuteSignal
<1>3. Len(s) \in Nat /\ 1 \in 1..Len(s) /\ s[1] = Signal
  BY <1>2
<1>4. /\ RemoveAt(s, 1) \in Seq(Ops) /\ Len(RemoveAt(s, 1)) = Len(s) - 1
      /\ \A k \in 1..(Len(s) - 1) : RemoveAt(s, 1)[k] = IF k < 1 THEN s[k] ELSE s[k + 1]
  BY <1>2, <1>3, RemoveAtIs
<1>5. /\ Tail(s) \in Seq(Ops) /\ Len(Tail(s)) = Len(s) - 1
      /\ \A k \in 1..(Len(s) - 1) : Tail(s)[k] = s[k + 1]
  BY <1>2, <1>3
<1>6. Tail(s) = RemoveAt(s, 1)
  <2>1. \A k \in 1..(Len(s) - 1) : Tail(s)[k] = RemoveAt(s, 1)[k]
    BY <1>4, <1>5
  <2>2. PICK t, r : t = Tail(s) /\ r = RemoveAt(s, 1)
    OBVIOUS
  <2>3. /\ t \in Seq(Ops) /\ r \in Seq(Ops) /\ Len(t) = Len(r)
        /\ \A k \in 1..Len(t) : t[k] = r[k]
    BY <1>4, <1>5, <2>1, <2>2
  <2>4. t = r
    BY <2>3, SeqEqual
  <2> QED
    BY <2>2, <2>4
<1>7. PICK t : t = Tail(s) /\ t = RemoveAt(s, 1)
  BY <1>6
<1>8. queue' = Pull(queue, p, 1) /\ 1 \in DOMAIN queue[p]
  <2>1. queue' = [queue EXCEPT ![p] = t]
    BY <1>1, <1>7 DEF ExecuteSignal
  <2>2. Pull(queue, p, 1) = [queue EXCEPT ![p] = t]
    BY <1>1, <1>7 DEF Pull
  <2> QED
    BY <1>1, <1>2, <1>3, <2>1, <2>2
<1>9. queue[p][1] = Signal
  BY <1>1, <1>3
<1> QED
  BY <1>8, <1>9, DeviceLeaves

\* A submission that a present follows at once
LEMMA PresentJoins ==
    ASSUME queue \in [Queues -> Seq(Ops)], NEW p \in Queues, NEW a \in Ops, NEW b \in Ops,
           queue' = Push(Push(queue, p, a), p, b)
    PROVE  queue' \in [Queues -> Seq(Ops)] /\ \E n \in Positions : JoinBoth(p, n, a, b)
<1>0. PICK Q \in [Queues -> Seq(Ops)] : Q = queue
  OBVIOUS
<1>1. PICK M, N :
        Q = queue /\ M = Push(Q, p, a) /\ N = Push(M, p, b) /\ N = queue'
  BY <1>0
<1>2. M \in [Queues -> Seq(Ops)]
  BY <1>1, AppendsAt
<1>3. N \in [Queues -> Seq(Ops)]
  BY <1>1, <1>2, AppendsAt
<1>4. PICK n \in Positions : Grown(Q, M, p, n, a)
  BY <1>1, AppendsAt
<1>5. PICK m \in Positions : Grown(M, N, p, m, b)
  BY <1>1, <1>2, AppendsAt
<1>6. m = n + 1
  <2>1. PICK s, t, u : s = Q[p] /\ t = Append(s, a) /\ u = Append(t, b)
    OBVIOUS
  <2>2. s \in Seq(Ops) /\ t \in Seq(Ops) /\ u \in Seq(Ops)
    BY <2>1
  <2>3. M[p] = t /\ N[p] = u
    BY <1>1, <2>1, <1>2 DEF Push
  <2>4. /\ DOMAIN s = 1..Len(s) /\ DOMAIN t = 1..(Len(s) + 1) /\ DOMAIN u = 1..(Len(s) + 2)
        /\ Len(s) \in Nat
    BY <2>1, <2>2
  <2>5. n \in DOMAIN t /\ m \in DOMAIN u
    BY <1>4, <1>5, <2>3 DEF Grown
  <2>6. n \notin DOMAIN s
    BY <1>4, <2>1 DEF Grown, Positions
  <2>7. m \notin DOMAIN t
    BY <1>5, <2>3 DEF Grown, Positions
  <2> QED
    BY <2>4, <2>5, <2>6, <2>7 DEF Positions
<1>7. JoinBoth(p, n, a, b)
  BY <1>1, <1>4, <1>5, <1>6 DEF JoinBoth, Op, Grown
<1> QED
  BY <1>1, <1>3, <1>7

\* Work that a rejected present leaves without a semaphore to signal
LEMMA UnsignaledAre ==
    ASSUME NEW o \in Works
    PROVE  /\ [o EXCEPT !.signal = None] \in Works
           /\ [o EXCEPT !.signal = None].owner = o.owner
           /\ [o EXCEPT !.signal = None].signal = None
<1>1. PICK f \in Frames, s \in RenderedSemaphores \cup {None} : o = Work(f, Acquired(f), s)
  BY DEF Works
<1>2. [o EXCEPT !.signal = None] = Work(f, Acquired(f), None)
  BY <1>1 DEF Work
<1> QED
  BY <1>1, <1>2, OpsAre DEF Works

Unsignaled(o, s) == IF o.kind = "work" /\ o.signal = s THEN [o EXCEPT !.signal = None] ELSE o

LEMMA UnsignaledKeeps ==
    ASSUME NEW s, NEW a \in Ops
    PROVE  /\ Unsignaled(a, s) \in Ops
           /\ Unsignaled(a, s) \notin Works \/ a \notin Works => Unsignaled(a, s) = a
           /\ Unsignaled(a, s) \in Works => /\ a \in Works
                                            /\ Unsignaled(a, s).owner = a.owner
                                            /\ Unsignaled(a, s).signal \in {None, a.signal}
<1>1. CASE a.kind = "work" /\ a.signal = s
  <2>1. a \in Works /\ Unsignaled(a, s) = [a EXCEPT !.signal = None]
    BY <1>1, KindsAre DEF Unsignaled
  <2>2. PICK b : b = [a EXCEPT !.signal = None]
    OBVIOUS
  <2>3. b \in Works /\ b.owner = a.owner /\ b.signal = None
    BY <2>1, <2>2, UnsignaledAre
  <2> QED
    BY <2>1, <2>2, <2>3, WorksAre
<1>2. CASE ~(a.kind = "work" /\ a.signal = s)
  BY <1>2 DEF Unsignaled
<1> QED
  BY <1>1, <1>2

LEMMA PresentRejects ==
    ASSUME queue \in [Queues -> Seq(Ops)], NEW p \in Queues, NEW f \in Frames,
           NEW i \in Images, NEW s \in RenderedSemaphores,
           PresentRejected(Push(queue, p, Work(f, Acquired(f), s)), i, s)
    PROVE  queue' \in [Queues -> Seq(Ops)] /\ Rejects(p, f, s)
<1>1. PICK w : w = Work(f, Acquired(f), s)
  OBVIOUS
<1>2. w \in Works /\ w \in Ops /\ w.owner = f /\ w.signal = s
  BY <1>1, WorksAre, OpsAre DEF Works
<1>0. PICK Q \in [Queues -> Seq(Ops)] : Q = queue
  OBVIOUS
<1>3. PICK M, N : Q = queue /\ M = Push(Q, p, w) /\ N = queue'
  BY <1>0
<1>4. M \in [Queues -> Seq(Ops)]
  BY <1>2, <1>3, AppendsAt
<1>5. PICK n \in Positions : Grown(Q, M, p, n, w)
  BY <1>2, <1>3, AppendsAt
<1>6. CASE semaphore[s] = "signaled"
  <2>1. N = M
    BY <1>1, <1>3, <1>6 DEF PresentRejected
  <2> QED
    BY <1>2, <1>3, <1>4, <1>5, <2>1, WorksAre DEF Rejects, Op, Grown
<1>7. CASE semaphore[s] # "signaled"
  <2>1. N = [q \in Queues |-> [k \in DOMAIN M[q] |-> Unsignaled(M[q][k], s)]]
    BY <1>1, <1>3, <1>7 DEF PresentRejected, Unsignaled
  <2>2. ASSUME NEW q \in Queues
        PROVE  N[q] \in Seq(Ops)
    <3>1. PICK t : t = M[q]
      OBVIOUS
    <3>2. t \in Seq(Ops) /\ Len(t) \in Nat /\ DOMAIN t = 1..Len(t)
      BY <1>4, <3>1
    <3>3. \A k \in 1..Len(t) : t[k] \in Ops
      BY <3>2
    <3>4. N[q] = [k \in 1..Len(t) |-> Unsignaled(t[k], s)]
      BY <2>1, <3>1, <3>2
    <3>5. \A k \in 1..Len(t) : Unsignaled(t[k], s) \in Ops
      BY <3>3, UnsignaledKeeps
    <3>6. N[q] \in [1..Len(t) -> Ops]
      BY <3>4, <3>5
    <3>7. PICK u, m : u = N[q] /\ m = Len(t)
      OBVIOUS
    <3>8. m \in Nat /\ u \in [1..m -> Ops]
      BY <3>2, <3>6, <3>7
    <3>9. u \in Seq(Ops)
      BY <3>8, SeqDef
    <3> QED
      BY <3>7, <3>9
  <2>3. N \in [Queues -> Seq(Ops)]
    BY <2>1, <2>2
  <2>4. \A q \in Queues : DOMAIN N[q] = DOMAIN M[q]
                          /\ \A k \in DOMAIN M[q] : N[q][k] = Unsignaled(M[q][k], s)
    BY <2>1
  <2>5. \A q \in Queues : \A k \in DOMAIN M[q] : M[q][k] \in Ops
    BY <1>4, QueueKinds
  <2>6. ASSUME NEW q \in Queues, NEW k \in Positions, NEW o \in Ops \ Works
        PROVE  (k \in DOMAIN N[q] /\ N[q][k] = o) <=> (k \in DOMAIN Q[q] /\ Q[q][k] = o)
    <3>1. (k \in DOMAIN N[q] /\ N[q][k] = o) <=> (k \in DOMAIN M[q] /\ M[q][k] = o)
      <4>1. CASE k \in DOMAIN M[q]
        <5>1. PICK a \in Ops : a = M[q][k]
          BY <2>5, <4>1
        <5>2. N[q][k] = Unsignaled(a, s)
          BY <2>4, <4>1, <5>1
        <5>3. Unsignaled(a, s) = o <=> a = o
          BY UnsignaledKeeps
        <5> QED
          BY <2>4, <5>1, <5>2, <5>3
      <4> QED
        BY <2>4, <4>1
    <3> QED
      BY <1>2, <1>5, <3>1 DEF Grown
  <2>7. ASSUME NEW q \in Queues, NEW k \in Positions, NEW o \in Works,
               k \in DOMAIN N[q], N[q][k] = o
        PROVE  \/ o.owner = f /\ o.signal \in {None, s}
               \/ \E v \in Works : /\ k \in DOMAIN Q[q] /\ Q[q][k] = v
                                   /\ v.owner = o.owner /\ o.signal \in {None, v.signal}
    <3>1. k \in DOMAIN M[q]
      BY <2>4, <2>7
    <3>2. PICK a \in Ops : a = M[q][k]
      BY <2>5, <3>1
    <3>3. o = Unsignaled(a, s)
      BY <2>4, <2>7, <3>1, <3>2
    <3>4. a \in Works /\ o.owner = a.owner /\ o.signal \in {None, a.signal}
      BY <3>3, UnsignaledKeeps
    <3>5. (k \in DOMAIN Q[q] /\ Q[q][k] = a) \/ a = w
      BY <1>5, <3>1, <3>2 DEF Grown
    <3> QED
      BY <1>2, <3>4, <3>5
  <2> QED
    BY <1>3, <2>3, <2>6, <2>7 DEF Rejects, Op
<1> QED
  BY <1>6, <1>7

LEMMA PresentImageJoins ==
    ASSUME TypeInv, NEW i \in Images, NEW p \in Queues, NEW b \in BOOLEAN, PresentImage(i, p, b)
    PROVE  /\ queue' \in [Queues -> Seq(Ops)]
           /\ Work(imageFrames[i], Acquired(imageFrames[i]), Rendered(epoch, i)) \in Works
           /\ Present(live, i, Rendered(epoch, i)) \in Presents
           /\ \E n \in Positions :
                JoinBoth(p, n, Work(imageFrames[i], Acquired(imageFrames[i]), Rendered(epoch, i)),
                               Present(live, i, Rendered(epoch, i)))
<1>1. PICK a, c : /\ a = Work(imageFrames[i], Acquired(imageFrames[i]), Rendered(epoch, i))
                  /\ c = Present(live, i, Rendered(epoch, i))
  OBVIOUS
<1>2. imageFrames[i] \in Frames /\ epoch \in Epochs /\ live \in Handles
  BY DEF TypeInv, TypeOK, SwapchainTypeOK
<1>3. a \in Works /\ c \in Presents
  BY <1>1, <1>2, SemaphoresAre DEF Works, Presents
<1>4. queue' = Push(Push(queue, p, a), p, c)
  BY <1>1 DEF PresentImage, PresentQueued, SubmitFrame, RenderedSemaphore, Push
<1>5. queue \in [Queues -> Seq(Ops)] /\ a \in Ops /\ c \in Ops
  BY <1>3 DEF TypeInv, Ops
<1> QED
  BY <1>1, <1>3, <1>4, <1>5, PresentJoins

LEMMA PresentImageRejects ==
    ASSUME TypeInv, NEW i \in Images, NEW p \in Queues, PresentImageFails(i, p)
    PROVE  /\ queue' \in [Queues -> Seq(Ops)]
           /\ Rejects(p, imageFrames[i], Rendered(epoch, i))
<1>1. imageFrames[i] \in Frames /\ epoch \in Epochs
  BY DEF TypeInv, TypeOK
<1>2. PICK f \in Frames, s \in RenderedSemaphores : f = imageFrames[i] /\ s = Rendered(epoch, i)
  BY <1>1, SemaphoresAre
<1>3. PresentRejected(Push(queue, p, Work(f, Acquired(f), s)), i, s)
  BY <1>2 DEF PresentImageFails, SubmitFrame, RenderedSemaphore, Push
<1> QED
  BY <1>2, <1>3, PresentRejects DEF TypeInv

\* A step of the device takes one operation.
LEMMA DeviceTakes ==
    ASSUME TypeInv, DeviceStep
    PROVE  /\ queue' \in [Queues -> Seq(Ops)]
           /\ \E p \in Queues, n \in Positions, a \in Ops :
                Leaves(p, n, a) /\ (a = Signal => n = 1)
           /\ UNCHANGED <<hostVars, graphchainVars>>
<1>0. queue \in [Queues -> Seq(Ops)]
  BY DEF TypeInv
<1>1. PICK p \in Queues :
        \/ \E k \in DOMAIN queue[p] : ExecuteWork(p, k) \/ ExecutePresent(p, k)
        \/ ExecuteSignal(p)
  BY DEF DeviceStep, Device
<1>2. CASE \E k \in DOMAIN queue[p] : ExecuteWork(p, k) \/ ExecutePresent(p, k)
  <2>1. PICK n \in DOMAIN queue[p] : ExecuteWork(p, n) \/ ExecutePresent(p, n)
    BY <1>2
  <2>2. queue' = Pull(queue, p, n) /\ UNCHANGED hostVars
    BY <2>1 DEF ExecuteWork, ExecutePresent, Pull
  <2>3. /\ queue' \in [Queues -> Seq(Ops)] /\ n \in Positions
        /\ queue[p][n] \in Ops /\ Leaves(p, n, queue[p][n])
    BY <1>0, <2>2, DeviceLeaves
  <2>4. queue[p][n] # Signal
    BY <2>1, OpsAre DEF ExecuteWork, WorkReady, ExecutePresent, IsPresent
  <2> QED
    BY <2>2, <2>3, <2>4 DEF DeviceStep
<1>3. CASE ExecuteSignal(p)
  <2>1. queue' \in [Queues -> Seq(Ops)] /\ Leaves(p, 1, Signal) /\ 1 \in Positions /\ Signal \in Ops
    BY <1>0, <1>3, ExecuteSignalLeaves DEF Positions, Ops
  <2>2. UNCHANGED hostVars
    BY <1>3 DEF ExecuteSignal
  <2> QED
    BY <2>1, <2>2 DEF DeviceStep
<1> QED
  BY <1>1, <1>2, <1>3

-----------------------------------------------------------------------------
(* Types                                                                   *)

LEMMA AfterWaitsIs ==
    ASSUME NEW r \in Retirement, NEW W
    PROVE  AfterWaits(r, W) \in Retirement
<1>1. r.ids \subseteq Images
  BY DEF Retirement
<1>2. CASE W \cap r.ids = {}
  BY <1>2 DEF AfterWaits
<1>3. CASE W \cap r.ids # {}
  <2>1. AfterWaits(r, W) = [r EXCEPT !.ids = r.ids \ W, !.pending = r.ids \ W # {}]
    BY <1>3 DEF AfterWaits
  <2>2. PICK x, b : x = r.ids \ W /\ b = (r.ids \ W # {})
    OBVIOUS
  <2>3. x \in SUBSET Images /\ b \in BOOLEAN
    BY <1>1, <2>2
  <2>4. AfterWaits(r, W) = [r EXCEPT !.ids = x, !.pending = b]
    BY <2>1, <2>2
  <2> QED
    BY <2>3, <2>4 DEF Retirement
<1> QED
  BY <1>2, <1>3

\* The retirement of a handle after waits for some of its presents
LEMMA RetirementWaits ==
    ASSUME NEW r \in [Handles -> Retirement], NEW h \in Handles, NEW W
    PROVE  [r EXCEPT ![h] = AfterWaits(@, W)] \in [Handles -> Retirement]
<1>1. PICK a : a = AfterWaits(r[h], W)
  OBVIOUS
<1>2. a \in Retirement
  BY <1>1, AfterWaitsIs
<1>3. [r EXCEPT ![h] = a] \in [Handles -> Retirement]
  BY <1>2
<1> QED
  BY <1>1, <1>3

LEMMA QueueTyped ==
    ASSUME TypeInv, [Next]_vars
    PROVE  queue' \in [Queues -> Seq(Ops)]
<1>0. queue \in [Queues -> Seq(Ops)] /\ lastQueue \in Queues
  BY DEF TypeInv, TypeOK
<1>1. CASE Reset
  BY <1>0, <1>1 DEF Reset, Recreate, deviceVars
<1>2. CASE ResetFails
  BY <1>0, <1>2 DEF ResetFails, RecreateFails, deviceVars
<1>3. ASSUME NEW i \in Images, NEW b \in BOOLEAN, AcquireImage(i, b)
      PROVE  queue' \in [Queues -> Seq(Ops)]
  BY <1>0, <1>3 DEF AcquireImage, Acquire
<1>4. ASSUME NEW b \in BOOLEAN, AcquireNothing(b)
      PROVE  queue' \in [Queues -> Seq(Ops)]
  BY <1>0, <1>4 DEF AcquireNothing, AcquireFails, deviceVars
<1>5. CASE SubmitPresentSignal
  BY <1>0, <1>5, SubmitSignalJoins DEF SubmitPresentSignal
<1>6. CASE LimitInFlight \/ BeginAcquire
  BY <1>0, <1>6 DEF LimitInFlight, BeginAcquire, swapchainVars, deviceVars
<1>7. CASE FinishDrop
  BY <1>0, <1>7 DEF FinishDrop, deviceVars
<1>8. ASSUME NEW i \in Images, NEW q \in Queues, PresentImageFails(i, q)
      PROVE  queue' \in [Queues -> Seq(Ops)]
  BY <1>8, PresentImageRejects
<1>9. ASSUME NEW i \in Images, NEW q \in Queues, NEW b \in BOOLEAN, PresentImage(i, q, b)
      PROVE  queue' \in [Queues -> Seq(Ops)]
  BY <1>9, PresentImageJoins
<1>10. CASE SetGraphchainInfo
  BY <1>0, <1>10 DEF SetGraphchainInfo, SetInfo, deviceVars
<1>11. CASE DropGraphchain
  BY <1>0, <1>11 DEF DropGraphchain, deviceVars
<1>12. CASE DeviceStep
  BY <1>12, DeviceTakes
<1>13. CASE UNCHANGED vars
  BY <1>0, <1>13 DEF vars, swapchainVars, deviceVars
<1> QED
  BY <1>1, <1>2, <1>3, <1>4, <1>5, <1>6, <1>7, <1>8, <1>9, <1>10, <1>11, <1>12, <1>13
     DEF Next, Continue, Call

\* What TypeInv says of everything but the queues
HandlesTyped ==
    /\ live \in Handles /\ retired \subseteq Handles /\ destroyed \subseteq Handles
    /\ taken \subseteq Images
    /\ retirement \in [Handles -> Retirement]
    /\ recreatePending \in BOOLEAN
    /\ signalQueued \in [Queues -> BOOLEAN]
    /\ panicked \in BOOLEAN
    /\ usePresentWait \in PresentWait
    /\ engine \in [Handles -> [Images -> {"none", "free", "acquired", "queued", "shown"}]]
    /\ semaphore \in [Semaphores -> {"idle", "signaled"}]

SlotsTyped ==
    /\ frameCount \in 1..Cardinality(Frames)
    /\ frameIdx \in Frames /\ frameIdx < frameCount
    /\ fenceQueued \in [Frames -> BOOLEAN]
    /\ imageFrames \in [Images -> Frames]
    /\ \A i \in Images : imageFrames[i] < frameCount

StrategyTyped ==
    /\ strategy \in {"PresentWait", "PerImageSemaphore"}
    /\ pendingImages \in [Frames -> Images \cup {None}]
    /\ epoch \in Epochs /\ retiredEpochs \subseteq Epochs /\ freedEpochs \subseteq Epochs

ClientTyped ==
    /\ pc \in {"idle", "recreate", "slot", "limit", "signal", "dropping", "dropped"}
    /\ resetPending \in BOOLEAN
    /\ clamped \in BOOLEAN
    /\ held \subseteq Images
    /\ lastQueue \in Queues
    /\ pc = "recreate" => epoch < MaxResets /\ (recreatePending => live < MaxHandles)

LEMMA TypeParts ==
    TypeInv <=> /\ HandlesTyped /\ SlotsTyped /\ StrategyTyped /\ ClientTyped
                /\ queue \in [Queues -> Seq(Ops)]
<1>1. queue \in [Queues -> Seq(Ops)] =>
        \A q \in Queues : \A k \in DOMAIN queue[q] :
            queue[q][k].kind \in {"work", "present", "signal"}
  <2> HAVE queue \in [Queues -> Seq(Ops)]
  <2>1. PICK Q \in [Queues -> Seq(Ops)] : Q = queue
    OBVIOUS
  <2> QED
    BY <2>1, QueueKinds
<1>2. 1..Cardinality(Frames) \subseteq 0..Cardinality(Frames)
  BY FramesAre
<1>3. TypeInv => /\ HandlesTyped /\ SlotsTyped /\ StrategyTyped /\ ClientTyped
                 /\ queue \in [Queues -> Seq(Ops)]
  BY DEF TypeInv, TypeOK, SwapchainTypeOK, HandlesTyped, SlotsTyped, StrategyTyped, ClientTyped
<1>4. ASSUME HandlesTyped, SlotsTyped, StrategyTyped, ClientTyped,
             queue \in [Queues -> Seq(Ops)]
      PROVE  TypeInv
  <2>1. SwapchainTypeOK
    BY <1>1, <1>4 DEF SwapchainTypeOK, HandlesTyped
  <2>2. TypeOK
    BY <1>2, <1>4, <2>1 DEF TypeOK, SlotsTyped, StrategyTyped, ClientTyped
  <2> QED
    BY <1>4, <2>2 DEF TypeInv, SlotsTyped, ClientTyped
<1> QED
  BY <1>3, <1>4

LEMMA EngineIs ==
    \A n : NewEngine(n) \in [Images -> {"none", "free", "acquired", "queued", "shown"}]
BY DEF NewEngine

LEMMA TypeInit == Init => TypeInv
<1> HAVE Init
<1>1. queue \in [Queues -> Seq(Ops)]
  BY DEF Init, SwapchainInit
<1>2. NoRetirement \in Retirement
  BY DEF NoRetirement, Retirement
<1>3. 1 \in Handles
  BY HandlesAssumption DEF Handles
<1>4. HandlesTyped
  <2>1. PICK n \in ImageCounts :
          engine = [h \in Handles |-> IF h = 1 THEN NewEngine(n) ELSE NewEngine(0)]
    BY DEF Init, SwapchainInit
  <2>2. engine \in [Handles -> [Images -> {"none", "free", "acquired", "queued", "shown"}]]
    BY <2>1, EngineIs
  <2>3. retirement \in [Handles -> Retirement]
    BY <1>2 DEF Init, SwapchainInit
  <2>4. usePresentWait \in PresentWait
    BY DEF Init, SwapchainInit
  <2> QED
    BY <1>3, <2>2, <2>3, <2>4 DEF HandlesTyped, Init, SwapchainInit
<1>5. SlotsTyped
  <2>1. frameCount = Capacity /\ frameIdx = Capacity - 1 /\ imageFrames = [i \in Images |-> 0]
        /\ fenceQueued = [f \in Frames |-> FALSE]
    BY DEF Init
  <2>2. frameCount \in 1..Cardinality(Frames) /\ frameIdx \in Frames /\ frameIdx < frameCount
        /\ 0 \in Frames /\ 0 < frameCount
    BY <2>1, FramesAre
  <2> QED
    BY <2>1, <2>2 DEF SlotsTyped
<1>6. StrategyTyped
  <2>1. 0 \in Epochs
    BY ResetsAssumption DEF Epochs
  <2>2. \A m : ForSwapchain(m) \in {"PresentWait", "PerImageSemaphore"}
    BY DEF ForSwapchain
  <2> QED
    BY <2>1, <2>2 DEF StrategyTyped, Init, NoImages
<1>7. ClientTyped
  <2>1. clamped \in BOOLEAN
    BY DEF Init, Clamping
  <2> QED
    BY <2>1 DEF ClientTyped, Init
<1> QED
  BY <1>1, <1>4, <1>5, <1>6, <1>7, TypeParts

\* Counts of slots
LEMMA SlotCounts ==
    ASSUME TypeInv
    PROVE  /\ NextFrame \in Frames /\ NextFrame < frameCount
           /\ \A s \in SUBSET Images :
                /\ EnsureFrameCount(Cardinality(s)) \in 1..Cardinality(Frames)
                /\ frameCount <= EnsureFrameCount(Cardinality(s))
<1>1. /\ frameCount \in 1..Cardinality(Frames) /\ frameIdx \in Frames
      /\ Cardinality(Frames) \in Nat /\ Frames = 0..Cardinality(Frames) - 1
      /\ Cardinality(Images) <= Cardinality(Frames)
  BY FramesAre DEF TypeInv, TypeOK
<1>2. NextFrame \in 0..frameCount - 1
  BY <1>1 DEF NextFrame
<1>3. ASSUME NEW s \in SUBSET Images
      PROVE  /\ EnsureFrameCount(Cardinality(s)) \in 1..Cardinality(Frames)
             /\ frameCount <= EnsureFrameCount(Cardinality(s))
  <2>1. Cardinality(s) \in Nat /\ Cardinality(s) <= Cardinality(Images)
    BY ImagesAre, FS_Subset, FS_CardinalityType
  <2> QED
    BY <1>1, <2>1, ImagesAre DEF EnsureFrameCount, MaxOf
<1> QED
  BY <1>1, <1>2, <1>3

LEMMA TypeReset ==
    ASSUME TypeInv, Reset
    PROVE  HandlesTyped' /\ SlotsTyped' /\ StrategyTyped' /\ ClientTyped'
<1>0. HandlesTyped /\ SlotsTyped /\ StrategyTyped /\ ClientTyped
  BY TypeParts
<1>1. retirement' \in [Handles -> Retirement]
  <2>1. retirement' = [retirement EXCEPT ![live] = AfterWaits(@, PendingImages)]
    BY DEF Reset, Recreate
  <2> QED
    BY <1>0, <2>1, RetirementWaits DEF HandlesTyped
<1>2. HandlesTyped'
  <2>1. CASE recreatePending
    <3>1. PICK n \in ImageCounts : Recreate(n, PendingImages)
      BY <2>1 DEF Reset
    <3>2. live + 1 \in Handles
      BY <1>0, <2>1, HandlesAssumption DEF HandlesTyped, ClientTyped, Handles, Reset
    <3>3. engine' \in [Handles -> [Images -> {"none", "free", "acquired", "queued", "shown"}]]
      <4>1. PICK x : x = NewEngine(n)
        OBVIOUS
      <4>2. engine' = [engine EXCEPT ![live + 1] = x]
        BY <3>1, <4>1 DEF Recreate
      <4> QED
        BY <1>0, <3>2, <4>1, <4>2, EngineIs DEF HandlesTyped
    <3> QED
      BY <1>0, <1>1, <3>1, <3>2, <3>3 DEF HandlesTyped, Recreate, RetireOld
  <2>2. CASE ~recreatePending
    BY <1>0, <1>1, <2>2 DEF HandlesTyped, Reset, deviceVars
  <2> QED
    BY <2>1, <2>2
<1>3. SlotsTyped'
  <2>1. 0 \in Frames /\ 0 < frameCount
    BY <1>0, FramesAre DEF SlotsTyped
  <2> QED
    BY <1>0, <2>1 DEF SlotsTyped, Reset
<1>4. StrategyTyped'
  <2>1. epoch + 1 \in Epochs
    BY <1>0, ResetsAssumption DEF StrategyTyped, ClientTyped, Reset, Epochs
  <2>2. strategy' \in {"PresentWait", "PerImageSemaphore"}
    BY <1>0 DEF StrategyTyped, Reset, ForSwapchain
  <2> QED
    BY <1>0, <2>1, <2>2 DEF StrategyTyped, Reset, ResetStrategy, NoImages
<1>5. ClientTyped'
  <2>1. clamped' \in BOOLEAN
    BY <1>0 DEF ClientTyped, Reset, Clamping
  <2> QED
    BY <1>0, <2>1 DEF ClientTyped, Reset
<1> QED
  BY <1>2, <1>3, <1>4, <1>5

LEMMA TypeResetFails ==
    ASSUME TypeInv, ResetFails
    PROVE  HandlesTyped' /\ SlotsTyped' /\ StrategyTyped' /\ ClientTyped'
<1>0. HandlesTyped /\ SlotsTyped /\ StrategyTyped /\ ClientTyped
  BY TypeParts
<1>1. retirement' \in [Handles -> Retirement]
  BY <1>0, RetirementWaits DEF HandlesTyped, ResetFails, RecreateFails
<1>2. HandlesTyped'
  BY <1>0, <1>1 DEF HandlesTyped, ResetFails, RecreateFails, RetireOld, deviceVars
<1>3. SlotsTyped'
  BY <1>0 DEF SlotsTyped, ResetFails
<1>4. StrategyTyped' /\ ClientTyped'
  BY <1>0 DEF StrategyTyped, ClientTyped, ResetFails, NoImages
<1> QED
  BY <1>2, <1>3, <1>4

LEMMA TypeAcquireImage ==
    ASSUME TypeInv, NEW i \in Images, NEW b \in BOOLEAN, AcquireImage(i, b)
    PROVE  HandlesTyped' /\ SlotsTyped' /\ StrategyTyped' /\ ClientTyped'
<1>0. HandlesTyped /\ SlotsTyped /\ StrategyTyped /\ ClientTyped
  BY TypeParts
<1>1. PICK f \in Frames : f = NextFrame
  BY SlotCounts
<1>2. /\ f < frameCount
      /\ frameCount' \in 1..Cardinality(Frames) /\ frameCount <= frameCount'
  BY <1>1, SlotCounts DEF AcquireImage
<1>3. retirement' \in [Handles -> Retirement]
  BY <1>0, RetirementWaits DEF HandlesTyped, AcquireImage, PrepareFrame
<1>4. HandlesTyped'
  <2>1. Acquire(Acquired(f), i, b)
    BY <1>1 DEF AcquireImage
  <2>2. engine' \in [Handles -> [Images -> {"none", "free", "acquired", "queued", "shown"}]]
    BY <1>0, <2>1 DEF HandlesTyped, Acquire
  <2>3. semaphore' \in [Semaphores -> {"idle", "signaled"}]
    BY <1>0, <2>1 DEF HandlesTyped, Acquire
  <2> QED
    BY <1>0, <1>3, <2>1, <2>2, <2>3 DEF HandlesTyped, Acquire
<1>5. SlotsTyped'
  <2>1. /\ imageFrames' = [imageFrames EXCEPT ![i] = f] /\ frameIdx' = f
        /\ fenceQueued' = [fenceQueued EXCEPT ![f] = FALSE]
    BY <1>1 DEF AcquireImage, PrepareFrame
  <2>2. \A j \in Images : imageFrames'[j] < frameCount'
    <3> SUFFICES ASSUME NEW j \in Images PROVE imageFrames'[j] < frameCount'
      OBVIOUS
    <3>1. imageFrames'[j] < frameCount /\ imageFrames'[j] \in Frames
      BY <1>0, <1>2, <2>1 DEF SlotsTyped
    <3> QED
      BY <1>0, <1>2, <3>1, FramesAre DEF SlotsTyped
  <2>3. f < frameCount'
    BY <1>0, <1>2, FramesAre DEF SlotsTyped
  <2> QED
    BY <1>0, <1>2, <2>1, <2>2, <2>3 DEF SlotsTyped
<1>6. StrategyTyped'
  <2>1. pendingImages' = [pendingImages EXCEPT ![f] = None]
    BY <1>1 DEF AcquireImage, PrepareFrame
  <2> QED
    BY <1>0, <2>1 DEF StrategyTyped, AcquireImage
<1>7. ClientTyped'
  BY <1>0 DEF ClientTyped, AcquireImage
<1> QED
  BY <1>4, <1>5, <1>6, <1>7

LEMMA TypeAcquireNothing ==
    ASSUME TypeInv, NEW b \in BOOLEAN, AcquireNothing(b)
    PROVE  HandlesTyped' /\ SlotsTyped' /\ StrategyTyped' /\ ClientTyped'
<1>0. HandlesTyped /\ SlotsTyped /\ StrategyTyped /\ ClientTyped
  BY TypeParts
<1>1. PICK f \in Frames : f = NextFrame
  BY SlotCounts
<1>2. f < frameCount
  BY <1>1, SlotCounts
<1>3. retirement' \in [Handles -> Retirement]
  BY <1>0, RetirementWaits DEF HandlesTyped, AcquireNothing, PrepareFrame
<1>4. HandlesTyped'
  BY <1>0, <1>3 DEF HandlesTyped, AcquireNothing, AcquireFails, deviceVars
<1>5. /\ pendingImages' = [pendingImages EXCEPT ![f] = None] /\ frameIdx' = f
      /\ fenceQueued' = [fenceQueued EXCEPT ![f] = FALSE]
  BY <1>1 DEF AcquireNothing, PrepareFrame
<1>6. SlotsTyped'
  BY <1>0, <1>2, <1>5 DEF SlotsTyped, AcquireNothing
<1>7. StrategyTyped' /\ ClientTyped'
  BY <1>0, <1>5 DEF StrategyTyped, ClientTyped, AcquireNothing
<1> QED
  BY <1>4, <1>6, <1>7

LEMMA TypePresentImage ==
    ASSUME TypeInv, NEW i \in Images, NEW p \in Queues, NEW b \in BOOLEAN, PresentImage(i, p, b)
    PROVE  HandlesTyped' /\ SlotsTyped' /\ StrategyTyped' /\ ClientTyped'
<1>0. HandlesTyped /\ SlotsTyped /\ StrategyTyped /\ ClientTyped
  BY TypeParts
<1>1. PICK f \in Frames : f = imageFrames[i]
  BY <1>0 DEF SlotsTyped
<1>2. PICK s : PresentQueued(SubmitFrame(p, i), p, i, s, b)
  BY DEF PresentImage
<1>3. retirement' \in [Handles -> Retirement]
  <2>1. PICK w, x : /\ w = AfterWaits(retirement[live], {i})
                    /\ x = IF usePresentWait THEN w.ids \cup {i} ELSE w.ids
    OBVIOUS
  <2>2. w \in Retirement
    BY <1>0, <2>1, AfterWaitsIs DEF HandlesTyped
  <2>3. x \in SUBSET Images
    BY <2>1, <2>2 DEF Retirement
  <2>4. retirement' = [retirement EXCEPT ![live] = [ids |-> x, pending |-> TRUE, queue |-> p]]
    BY <1>2, <2>1 DEF PresentQueued
  <2>5. [ids |-> x, pending |-> TRUE, queue |-> p] \in Retirement
    BY <2>3 DEF Retirement
  <2> QED
    BY <1>0, <2>4, <2>5 DEF HandlesTyped
<1>4. HandlesTyped'
  <2>1. engine' \in [Handles -> [Images -> {"none", "free", "acquired", "queued", "shown"}]]
    BY <1>0, <1>2 DEF HandlesTyped, PresentQueued
  <2> QED
    BY <1>0, <1>2, <1>3, <2>1 DEF HandlesTyped, PresentQueued
<1>5. SlotsTyped'
  <2>1. fenceQueued' = [fenceQueued EXCEPT ![f] = TRUE]
    BY <1>1 DEF PresentImage, PresentFrame
  <2> QED
    BY <1>0, <2>1 DEF SlotsTyped, PresentImage, PresentFrame
<1>6. StrategyTyped'
  <2>1. \/ pendingImages' = pendingImages
        \/ pendingImages' = [pendingImages EXCEPT ![f] = i]
    BY <1>1 DEF PresentImage
  <2> QED
    BY <1>0, <2>1 DEF StrategyTyped, PresentImage, PresentFrame
<1>7. ClientTyped'
  BY <1>0 DEF ClientTyped, PresentImage, PresentFrame
<1> QED
  BY <1>4, <1>5, <1>6, <1>7

LEMMA TypePresentImageFails ==
    ASSUME TypeInv, NEW i \in Images, NEW p \in Queues, PresentImageFails(i, p)
    PROVE  HandlesTyped' /\ SlotsTyped' /\ StrategyTyped' /\ ClientTyped'
<1>0. HandlesTyped /\ SlotsTyped /\ StrategyTyped /\ ClientTyped
  BY TypeParts
<1>1. PICK f \in Frames : f = imageFrames[i]
  BY <1>0 DEF SlotsTyped
<1>2. PICK s, Q : PresentRejected(Q, i, s)
  BY DEF PresentImageFails
<1>3. retirement' \in [Handles -> Retirement]
  BY <1>0, <1>2, RetirementWaits DEF HandlesTyped, PresentRejected
<1>4. HandlesTyped'
  <2>1. semaphore' \in [Semaphores -> {"idle", "signaled"}]
    BY <1>0, <1>2 DEF HandlesTyped, PresentRejected
  <2>2. panicked' \in BOOLEAN
    BY <1>0, <1>2, SwitchesAssumption DEF HandlesTyped, PresentRejected
  <2> QED
    BY <1>0, <1>2, <1>3, <2>1, <2>2 DEF HandlesTyped, PresentRejected
<1>5. SlotsTyped'
  <2>1. fenceQueued' = [fenceQueued EXCEPT ![f] = TRUE]
    BY <1>1 DEF PresentImageFails, PresentFrame
  <2> QED
    BY <1>0, <2>1 DEF SlotsTyped, PresentImageFails, PresentFrame
<1>6. StrategyTyped' /\ ClientTyped'
  BY <1>0 DEF StrategyTyped, ClientTyped, PresentImageFails, PresentFrame
<1> QED
  BY <1>4, <1>5, <1>6

LEMMA TypeOthers ==
    ASSUME TypeInv,
           \/ SubmitPresentSignal \/ LimitInFlight \/ BeginAcquire \/ FinishDrop
           \/ SetGraphchainInfo \/ DropGraphchain \/ UNCHANGED vars
    PROVE  HandlesTyped' /\ SlotsTyped' /\ StrategyTyped' /\ ClientTyped'
<1>0. HandlesTyped /\ SlotsTyped /\ StrategyTyped /\ ClientTyped
  BY TypeParts
<1>1. CASE SubmitPresentSignal
  <2>1. HandlesTyped'
    BY <1>0, <1>1 DEF HandlesTyped, SubmitPresentSignal, SubmitSignal
  <2> QED
    BY <1>0, <1>1, <2>1
       DEF SlotsTyped, StrategyTyped, ClientTyped, SubmitPresentSignal, slotVars, strategyVars
<1>2. CASE LimitInFlight \/ BeginAcquire
  <2>1. HandlesTyped'
    BY <1>0, <1>2
       DEF HandlesTyped, LimitInFlight, BeginAcquire, swapchainVars, hostVars, deviceVars
  <2>2. SlotsTyped' /\ StrategyTyped'
    BY <1>0, <1>2
       DEF SlotsTyped, StrategyTyped, LimitInFlight, BeginAcquire, slotVars, strategyVars
  <2> QED
    BY <1>0, <1>2, <2>1, <2>2
       DEF ClientTyped, LimitInFlight, BeginAcquire, swapchainVars, hostVars, strategyVars
<1>3. CASE FinishDrop
  <2>1. HandlesTyped'
    BY <1>0, <1>3 DEF HandlesTyped, FinishDrop, DropSwapchain, deviceVars
  <2> QED
    BY <1>0, <1>3, <2>1
       DEF SlotsTyped, StrategyTyped, ClientTyped, FinishDrop, slotVars, strategyVars
<1>4. CASE SetGraphchainInfo
  <2>1. PICK b \in BOOLEAN : SetInfo(b)
    BY <1>0, <1>4 DEF SetGraphchainInfo, ClientTyped
  <2>2. HandlesTyped'
    BY <1>0, <2>1 DEF HandlesTyped, SetInfo, deviceVars
  <2> QED
    BY <1>0, <1>4, <2>2
       DEF SlotsTyped, StrategyTyped, ClientTyped, SetGraphchainInfo, slotVars, strategyVars
<1>5. CASE DropGraphchain
  <2>1. retirement' \in [Handles -> Retirement]
    BY <1>0, <1>5, RetirementWaits DEF HandlesTyped, DropGraphchain
  <2>2. HandlesTyped'
    BY <1>0, <1>5, <2>1 DEF HandlesTyped, DropGraphchain, deviceVars
  <2>3. StrategyTyped'
    BY <1>0, <1>5 DEF StrategyTyped, DropGraphchain, NoImages
  <2> QED
    BY <1>0, <1>5, <2>2, <2>3 DEF SlotsTyped, ClientTyped, DropGraphchain, slotVars
<1>6. CASE UNCHANGED vars
  <2>1. UNCHANGED swapchainVars /\ UNCHANGED graphchainVars
    BY <1>6 DEF vars
  <2>2. HandlesTyped'
    BY <1>0, <2>1 DEF HandlesTyped, swapchainVars, hostVars, deviceVars
  <2> QED
    BY <1>0, <2>1, <2>2
       DEF SlotsTyped, StrategyTyped, ClientTyped, graphchainVars, slotVars, strategyVars,
           clientVars, swapchainVars, hostVars
<1> QED
  BY <1>1, <1>2, <1>3, <1>4, <1>5, <1>6

LEMMA TypeDevice ==
    ASSUME TypeInv, DeviceStep
    PROVE  HandlesTyped' /\ SlotsTyped' /\ StrategyTyped' /\ ClientTyped'
<1>0. HandlesTyped /\ SlotsTyped /\ StrategyTyped /\ ClientTyped
  BY TypeParts
<1>1. UNCHANGED <<hostVars, graphchainVars>>
  BY DeviceTakes
<1>2. engine' \in [Handles -> [Images -> {"none", "free", "acquired", "queued", "shown"}]]
      /\ semaphore' \in [Semaphores -> {"idle", "signaled"}]
  <2>1. PICK p \in Queues :
          \/ \E k \in DOMAIN queue[p] : ExecuteWork(p, k)
          \/ \E k \in DOMAIN queue[p] : ExecutePresent(p, k)
          \/ ExecuteSignal(p)
    BY DEF DeviceStep, Device
  <2>2. ASSUME NEW k \in DOMAIN queue[p], ExecuteWork(p, k)
        PROVE  engine' = engine /\ semaphore' \in [Semaphores -> {"idle", "signaled"}]
    BY <1>0, <2>2 DEF ExecuteWork, HandlesTyped
  <2>3. ASSUME NEW k \in DOMAIN queue[p], ExecutePresent(p, k)
        PROVE  engine' \in [Handles -> [Images -> {"none", "free", "acquired", "queued", "shown"}]]
               /\ semaphore' \in [Semaphores -> {"idle", "signaled"}]
    <3>1. PICK o : o = queue[p][k]
      OBVIOUS
    <3>2. semaphore' = [semaphore EXCEPT ![o.wait] = "idle"]
      BY <2>3, <3>1 DEF ExecutePresent
    <3>3. engine' = [engine EXCEPT ![o.handle] = [i \in Images |->
            IF i = o.image THEN "shown" ELSE IF @[i] = "shown" THEN "free" ELSE @[i]]]
      BY <2>3, <3>1 DEF ExecutePresent
    <3> QED
      BY <1>0, <3>2, <3>3 DEF HandlesTyped
  <2> QED
    BY <1>0, <2>1, <2>2, <2>3 DEF ExecuteSignal, HandlesTyped
<1>3. HandlesTyped'
  BY <1>0, <1>1, <1>2 DEF HandlesTyped, hostVars
<1> QED
  BY <1>0, <1>1, <1>3
     DEF SlotsTyped, StrategyTyped, ClientTyped, graphchainVars, slotVars, strategyVars,
         clientVars, hostVars

LEMMA PartsStep ==
    ASSUME TypeInv, [Next]_vars
    PROVE  /\ HandlesTyped /\ SlotsTyped /\ StrategyTyped /\ ClientTyped
           /\ HandlesTyped' /\ SlotsTyped' /\ StrategyTyped' /\ ClientTyped'
BY TypeParts, TypeReset, TypeResetFails, TypeAcquireImage, TypeAcquireNothing, TypePresentImage,
   TypePresentImageFails, TypeOthers, TypeDevice
   DEF Next, Continue, Call

LEMMA TypeStep == TypeInv /\ [Next]_vars => TypeInv'
<1> SUFFICES ASSUME TypeInv, [Next]_vars PROVE TypeInv'
  OBVIOUS
<1>1. (queue \in [Queues -> Seq(Ops)])'
  BY QueueTyped
<1>2. TypeInv' <=> /\ HandlesTyped' /\ SlotsTyped' /\ StrategyTyped' /\ ClientTyped'
                   /\ (queue \in [Queues -> Seq(Ops)])'
  BY TypeParts, PTL
<1> QED
  BY <1>1, <1>2, PartsStep

\* Every variable keeps its type; the slot in use is one of the slots there are.
THEOREM TypeCorrect == Spec => []TypeOK
<1>1. TypeInv => TypeOK
  BY DEF TypeInv
<1> QED
  BY <1>1, TypeInit, TypeStep, PTL DEF Spec

-----------------------------------------------------------------------------
(* Fences                                                                  *)

\* The steps that leave the queues alone
Quiet ==
    \/ Reset \/ ResetFails
    \/ \E i \in Images, b \in BOOLEAN : AcquireImage(i, b)
    \/ \E b \in BOOLEAN : AcquireNothing(b)
    \/ LimitInFlight \/ FinishDrop \/ BeginAcquire \/ SetGraphchainInfo \/ DropGraphchain
    \/ UNCHANGED vars

Presented ==
    \E i \in Images, q \in Queues : PresentImageFails(i, q) \/ \E b \in BOOLEAN : PresentImage(i, q, b)

LEMMA StepKinds ==
    [Next]_vars => Quiet \/ Presented \/ SubmitPresentSignal \/ DeviceStep
BY DEF Next, Continue, Call, Quiet, Presented

LEMMA QuietKeeps ==
    ASSUME Quiet
    PROVE  queue' = queue
<1>1. CASE Reset \/ ResetFails
  BY <1>1 DEF Reset, Recreate, ResetFails, RecreateFails, deviceVars
<1>2. CASE \E i \in Images, b \in BOOLEAN : AcquireImage(i, b)
  BY <1>2 DEF AcquireImage, Acquire
<1>3. CASE \E b \in BOOLEAN : AcquireNothing(b)
  BY <1>3 DEF AcquireNothing, AcquireFails, deviceVars
<1>4. CASE LimitInFlight \/ BeginAcquire \/ UNCHANGED vars
  BY <1>4 DEF LimitInFlight, BeginAcquire, vars, swapchainVars, deviceVars
<1>5. CASE FinishDrop \/ SetGraphchainInfo \/ DropGraphchain
  BY <1>5 DEF FinishDrop, SetGraphchainInfo, SetInfo, DropGraphchain, deviceVars
<1> QED
  BY <1>1, <1>2, <1>3, <1>4, <1>5 DEF Quiet

\* Only a present adds work or presents.
LEMMA OldOps ==
    ASSUME TypeInv, Quiet \/ SubmitPresentSignal \/ DeviceStep
    PROVE  \A q \in Queues, k \in Positions, o \in Works \cup Presents :
             Op(q, k, o)' => \E j \in Positions : Op(q, j, o)
<1>0. \A o \in Works \cup Presents : o \in Ops /\ o # Signal
  BY WorksAre, PresentsAre
<1>1. CASE Quiet
  BY <1>1, QuietKeeps DEF Op
<1>2. CASE SubmitPresentSignal
  <2>1. PICK n \in Positions : Joins(lastQueue, n, Signal)
    BY <1>2, SubmitSignalJoins DEF SubmitPresentSignal, TypeInv, TypeOK
  <2> QED
    BY <1>0, <2>1 DEF Joins
<1>3. CASE DeviceStep
  <2>1. PICK p \in Queues, n \in Positions, a \in Ops : Leaves(p, n, a)
    BY <1>3, DeviceTakes
  <2>2. \A k \in Positions : k + 1 \in Positions
    BY DEF Positions
  <2> QED
    BY <1>0, <2>1, <2>2 DEF Leaves
<1> QED
  BY <1>1, <1>2, <1>3

LEMMA NoWorkIn ==
    ASSUME TypeInv, Fenced, NEW f \in Frames, SlotFree(f)
    PROVE  \A q \in Queues, k \in Positions, o \in Works : Op(q, k, o) => o.owner # f
<1>1. fenceQueued[f] => WorkDone(f)
  BY DEF SlotFree
<1>2. CASE fenceQueued[f]
  BY <1>1, <1>2, WaitsAre DEF TypeInv
<1>3. CASE ~fenceQueued[f]
  BY <1>3 DEF Fenced
<1> QED
  BY <1>2, <1>3

LEMMA NoWorkAtAll ==
    ASSUME TypeInv, Fenced, FencesWaited
    PROVE  \A q \in Queues, k \in Positions, o \in Works : ~Op(q, k, o)
<1>1. \A f \in Frames : SlotFree(f)
  BY DEF FencesWaited, SlotFree
<1> QED
  BY <1>1, NoWorkIn, WorksAre

LEMMA FencedInit == Init => Fenced
BY DEF Init, SwapchainInit, Fenced, Op

LEMMA FencedStep == TypeInv /\ Fenced /\ [Next]_vars => Fenced'
<1> SUFFICES ASSUME TypeInv, Fenced, [Next]_vars PROVE Fenced'
  OBVIOUS
<1>0. SlotsTyped /\ SlotsTyped' /\ \A o \in Works : o.owner \in Frames
  BY PartsStep, WorksAre
<1>1. CASE Reset \/ ResetFails
  <2>1. FencesWaited /\ fenceQueued' = [f \in Frames |-> FALSE] /\ pc' # "limit"
    BY <1>1 DEF Reset, ResetFails
  <2>2. \A q \in Queues, k \in Positions, o \in Works : ~Op(q, k, o)'
    BY <1>1, <2>1, NoWorkAtAll, OldOps DEF Quiet
  <2> QED
    BY <2>1, <2>2 DEF Fenced
<1>2. ASSUME \/ \E i \in Images, b \in BOOLEAN : AcquireImage(i, b)
             \/ \E b \in BOOLEAN : AcquireNothing(b)
      PROVE  Fenced'
  <2>1. PICK f \in Frames : f = NextFrame
    BY SlotCounts
  <2>2. /\ SlotFree(f) /\ fenceQueued' = [fenceQueued EXCEPT ![f] = FALSE] /\ frameIdx' = f
    BY <1>2, <2>1 DEF AcquireImage, AcquireNothing, PrepareFrame
  <2>3. frameCount <= frameCount'
    <3>1. CASE \E i \in Images, b \in BOOLEAN : AcquireImage(i, b)
      BY <3>1, SlotCounts DEF AcquireImage
    <3>2. CASE \E b \in BOOLEAN : AcquireNothing(b)
      BY <1>0, <3>2 DEF AcquireNothing, SlotsTyped
    <3> QED
      BY <1>2, <3>1, <3>2
  <2>4. \A q \in Queues, k \in Positions, o \in Works : Op(q, k, o)' => fenceQueued'[o.owner]
    <3>1. \A q \in Queues, k \in Positions, o \in Works : Op(q, k, o)' => Op(q, k, o)
      BY <1>2, QuietKeeps DEF Quiet, Op
    <3>2. \A q \in Queues, k \in Positions, o \in Works :
            Op(q, k, o)' => o.owner # f /\ fenceQueued[o.owner]
      BY <2>2, <3>1, NoWorkIn DEF Fenced
    <3> QED
      BY <1>0, <2>2, <3>2 DEF SlotsTyped
  <2>5. \A g \in Frames : fenceQueued'[g] => g < frameCount'
    <3> SUFFICES ASSUME NEW g \in Frames, fenceQueued'[g] PROVE g < frameCount'
      OBVIOUS
    <3>1. g < frameCount
      BY <1>0, <2>2 DEF Fenced, SlotsTyped
    <3> QED
      BY <1>0, <2>3, <3>1, FramesAre DEF SlotsTyped
  <2> QED
    BY <1>0, <2>2, <2>4, <2>5 DEF Fenced, SlotsTyped
<1>3. ASSUME NEW i \in Images, NEW p \in Queues,
             PresentImageFails(i, p) \/ \E b \in BOOLEAN : PresentImage(i, p, b)
      PROVE  Fenced'
  <2>1. PICK f \in Frames : f = imageFrames[i]
    BY <1>0 DEF SlotsTyped
  <2>2. /\ fenceQueued' = [fenceQueued EXCEPT ![f] = TRUE] /\ pc' # "limit"
        /\ frameCount' = frameCount /\ f < frameCount
    BY <1>0, <1>3, <2>1 DEF PresentImageFails, PresentImage, PresentFrame, SlotsTyped
  <2>3. \A q \in Queues, k \in Positions, o \in Works : Op(q, k, o)' =>
          o.owner = f \/ fenceQueued[o.owner]
    <3>1. CASE PresentImageFails(i, p)
      <4>1. Rejects(p, f, Rendered(epoch, i))
        BY <2>1, <3>1, PresentImageRejects
      <4> QED
        BY <4>1 DEF Rejects, Fenced
    <3>2. CASE \E b \in BOOLEAN : PresentImage(i, p, b)
      <4>1. PICK n \in Positions, a \in Works, c \in Presents :
              JoinBoth(p, n, a, c) /\ a.owner = f
        BY <2>1, <3>2, PresentImageJoins, OpsAre
      <4> QED
        BY <4>1, WorksAre DEF JoinBoth, Fenced
    <3> QED
      BY <1>3, <3>1, <3>2
  <2> QED
    BY <1>0, <2>2, <2>3 DEF Fenced, SlotsTyped
<1>4. CASE \/ SubmitPresentSignal \/ DeviceStep \/ LimitInFlight \/ FinishDrop \/ BeginAcquire
           \/ SetGraphchainInfo \/ DropGraphchain \/ UNCHANGED vars
  <2>1. UNCHANGED slotVars /\ (pc' = "limit" => pc = "limit")
    <3>1. CASE DeviceStep \/ UNCHANGED vars
      BY <3>1 DEF DeviceStep, vars, graphchainVars, clientVars
    <3> QED
      BY <1>4, <3>1 DEF SubmitPresentSignal, LimitInFlight, FinishDrop, BeginAcquire,
         SetGraphchainInfo, DropGraphchain
  <2>2. \A q \in Queues, k \in Positions, o \in Works :
          Op(q, k, o)' => \E j \in Positions : Op(q, j, o)
    BY <1>4, OldOps DEF Quiet
  <2> QED
    BY <2>1, <2>2 DEF Fenced, slotVars
<1> QED
  BY <1>1, <1>2, <1>3, <1>4, StepKinds DEF Quiet, Presented

-----------------------------------------------------------------------------
(* Frames in flight                                                        *)

\* How many acquisitions ago slot f was taken, where "current" is the last
AgeOf(current, count, f) == IF f < current THEN current - f ELSE current + count - f

LEMMA Ages ==
    ASSUME NEW c \in Nat \ {0}, NEW current \in 0..c - 1, NEW f \in 0..c - 1, f # current
    PROVE  /\ AgeOf(current, c, f) \in 1..c - 1
           /\ (current + c - AgeOf(current, c, f)) % c = f
<1>1. AgeOf(current, c, f) \in 1..c - 1
  BY DEF AgeOf
<1>2. CASE f < current
  <2>1. current + c - AgeOf(current, c, f) = f + c
    BY <1>2 DEF AgeOf
  <2>2. (f + c) % c = f
    OBVIOUS
  <2> QED
    BY <1>1, <2>1, <2>2
<1>3. CASE ~(f < current)
  <2>1. current + c - AgeOf(current, c, f) = f
    BY <1>3 DEF AgeOf
  <2>2. f % c = f
    OBVIOUS
  <2> QED
    BY <1>1, <2>1, <2>2
<1> QED
  BY <1>2, <1>3

\* A slot that is not older than the limit was taken fewer than "limit" acquisitions ago.
LEMMA YoungerFrames ==
    ASSUME NEW c \in Nat \ {0}, NEW current \in 0..c - 1, NEW limit \in Nat \ {0},
           NEW f \in 0..c - 1, f # current, f \notin OlderFrames(current, c, limit)
    PROVE  AgeOf(current, c, f) \in 1..limit - 1
<1>1. PICK age : age = AgeOf(current, c, f)
  OBVIOUS
<1>2. age \in 1..c - 1 /\ (current + c - age) % c = f
  BY <1>1, Ages
<1>3. age \notin limit..c - 1
  BY <1>2 DEF OlderFrames
<1> QED
  BY <1>1, <1>2, <1>3

LEMMA UnfinishedFew ==
    ASSUME TypeInv, Fenced, pc = "limit",
           \A f \in OlderFrames(frameIdx, frameCount, MaxInFlight) : SlotFree(f)
    PROVE  Cardinality({f \in Frames : ~WorkDone(f)}) < MaxInFlight
<1>1. PICK c, current : /\ c \in Nat \ {0} /\ current \in 0..c - 1
                        /\ c = frameCount /\ current = frameIdx
  BY TypeParts, FramesAre DEF SlotsTyped
<1>2. MaxInFlight \in Nat \ {0}
  BY ClientAssumption
<1>3. PICK U : U = {f \in Frames : ~WorkDone(f)}
  OBVIOUS
<1>4. ASSUME NEW f \in U
      PROVE  f \in 0..c - 1 /\ f # current /\ f \notin OlderFrames(current, c, MaxInFlight)
  <2>1. f \in Frames /\ ~WorkDone(f) /\ f \in Nat
    BY <1>3, FramesAre
  <2>2. fenceQueued[f]
    BY <2>1, WaitsAre DEF Fenced, TypeInv
  <2>3. f < frameCount /\ f # frameIdx
    BY <2>1, <2>2 DEF Fenced
  <2>4. ~SlotFree(f)
    BY <2>1, <2>2 DEF SlotFree
  <2> QED
    BY <1>1, <2>1, <2>3, <2>4
<1>5. PICK age : age = [f \in U |-> AgeOf(current, c, f)]
  OBVIOUS
<1>6. \A f \in U : age[f] \in 1..MaxInFlight - 1 /\ (current + c - age[f]) % c = f
  <2> SUFFICES ASSUME NEW f \in U
               PROVE  age[f] \in 1..MaxInFlight - 1 /\ (current + c - age[f]) % c = f
    OBVIOUS
  <2>1. f \in 0..c - 1 /\ f # current /\ f \notin OlderFrames(current, c, MaxInFlight)
    BY <1>4
  <2>2. (current + c - AgeOf(current, c, f)) % c = f
    BY <1>1, <2>1, Ages
  <2>3. AgeOf(current, c, f) \in 1..MaxInFlight - 1
    BY <1>1, <1>2, <2>1, YoungerFrames
  <2> QED
    BY <1>5, <2>2, <2>3
<1>7. age \in Injection(U, 1..MaxInFlight - 1)
  <2>1. age \in [U -> 1..MaxInFlight - 1]
    BY <1>5, <1>6
  <2>2. \A f, g \in U : age[f] = age[g] => f = g
    BY <1>6
  <2> QED
    BY <2>1, <2>2 DEF Injection, IsInjective
<1>8. IsFiniteSet(1..MaxInFlight - 1) /\ Cardinality(1..MaxInFlight - 1) = MaxInFlight - 1
  BY <1>2, FS_Interval
<1>9. Cardinality(U) <= MaxInFlight - 1 /\ Cardinality(U) \in Nat
  BY <1>7, <1>8, FS_Injection, FS_CardinalityType
<1> QED
  BY <1>2, <1>3, <1>9

\* After wait_for_in_flight_limit fewer than MaxInFlight slots have unfinished work,
\* whatever slots failed acquisitions skipped and however many were added.
THEOREM FewInFlight == Spec => InFlightLimited
<1>1. Init => TypeInv /\ Fenced
  BY TypeInit, FencedInit
<1>2. TypeInv /\ Fenced /\ [Next]_vars => (TypeInv /\ Fenced)'
  BY TypeStep, FencedStep
<1>3. TypeInv /\ Fenced /\ [Next]_vars =>
        [pc = "limit" /\ pc' = "idle" =>
            Cardinality({f \in Frames : ~WorkDone(f)}) < MaxInFlight]_vars
  <2> SUFFICES ASSUME TypeInv, Fenced, [Next]_vars, pc = "limit", pc' = "idle"
               PROVE  Cardinality({f \in Frames : ~WorkDone(f)}) < MaxInFlight
    OBVIOUS
  <2>1. ~(DeviceStep \/ UNCHANGED vars)
    BY DEF DeviceStep, vars, graphchainVars, clientVars
  <2>2. LimitInFlight
    BY <2>1 DEF Next, Continue, Call, Reset, ResetFails, AcquireImage, AcquireNothing,
       SubmitPresentSignal, FinishDrop, BeginAcquire, PresentImageFails, PresentImage,
       PresentFrame, SetGraphchainInfo, DropGraphchain
  <2> QED
    BY <2>2, UnfinishedFew DEF LimitInFlight
<1> QED
  BY <1>1, <1>2, <1>3, PTL DEF Spec, InFlightLimited

-----------------------------------------------------------------------------
(* Signals                                                                 *)

\* With no signal pending and none to come, no present is pending.
LEMMA NoPresentAtAll ==
    ASSUME TypeInv, Signaled, SignalsWaited, pc # "signal"
    PROVE  \A q \in Queues, k \in Positions :
             ~Op(q, k, Signal) /\ \A o \in Presents : ~Op(q, k, o)
<1>1. \A q \in Queues, k \in Positions : ~Op(q, k, Signal)
  BY WaitsAre DEF TypeInv, Signaled, SignalsWaited
<1> QED
  BY <1>1 DEF Signaled

LEMMA SignaledInit == Init => Signaled
BY DEF Init, SwapchainInit, Signaled, Op

LEMMA SignaledStep == TypeInv /\ Signaled /\ [Next]_vars => Signaled'
<1> SUFFICES ASSUME TypeInv, Signaled, [Next]_vars PROVE Signaled'
  OBVIOUS
<1>0. /\ lastQueue \in Queues /\ signalQueued \in [Queues -> BOOLEAN]
      /\ \A o \in Presents : o \in Ops /\ o \notin Works /\ o # Signal
      /\ \A o \in Works : o \in Ops /\ o \notin Presents /\ o # Signal
      /\ Signal \in Ops /\ Signal \notin Works
  BY PartsStep, WorksAre, PresentsAre DEF ClientTyped, HandlesTyped, Ops
<1>1. CASE (Reset \/ ResetFails) /\ RetireOld
  <2>1. SignalsWaited /\ pc # "signal"
    BY <1>1 DEF Reset, ResetFails, RetireOld
  <2>2. queue' = queue
    BY <1>1, QuietKeeps DEF Quiet
  <2> QED
    BY <2>1, <2>2, NoPresentAtAll DEF Signaled, Op
<1>2. CASE Quiet /\ ~((Reset \/ ResetFails) /\ RetireOld)
  <2>1. queue' = queue
    BY <1>2, QuietKeeps
  <2>2. signalQueued' = signalQueued /\ lastQueue' = lastQueue /\ (pc = "signal" => pc' = "signal")
    <3>1. CASE Reset
      <4>1. ~recreatePending
        BY <1>2, <3>1 DEF Reset, Recreate
      <4> QED
        BY <3>1, <4>1 DEF Reset
    <3>2. CASE ResetFails
      BY <1>2, <3>2 DEF ResetFails, RecreateFails
    <3>3. CASE \E i \in Images, b \in BOOLEAN : AcquireImage(i, b)
      BY <3>3 DEF AcquireImage, Acquire
    <3>4. CASE \E b \in BOOLEAN : AcquireNothing(b)
      BY <3>4 DEF AcquireNothing, AcquireFails
    <3>5. CASE LimitInFlight \/ BeginAcquire
      BY <3>5 DEF LimitInFlight, BeginAcquire, swapchainVars, hostVars
    <3>6. CASE FinishDrop \/ SetGraphchainInfo \/ DropGraphchain
      BY <3>6 DEF FinishDrop, DropSwapchain, SetGraphchainInfo, SetInfo, DropGraphchain
    <3>7. CASE UNCHANGED vars
      BY <3>7 DEF vars, swapchainVars, hostVars, graphchainVars, clientVars
    <3> QED
      BY <1>2, <3>1, <3>2, <3>3, <3>4, <3>5, <3>6, <3>7 DEF Quiet
  <2> QED
    BY <2>1, <2>2 DEF Signaled, Op
<1>3. CASE SubmitPresentSignal
  <2>1. PICK n \in Positions : Joins(lastQueue, n, Signal)
    BY <1>3, SubmitSignalJoins DEF SubmitPresentSignal, TypeInv, TypeOK
  <2>2. /\ signalQueued' = [signalQueued EXCEPT ![lastQueue] = TRUE] /\ lastQueue' = lastQueue
        /\ pc = "signal"
    BY <1>3 DEF SubmitPresentSignal, SubmitSignal
  <2>3. \A q \in Queues, k \in Positions, o \in Presents : Op(q, k, o)' =>
          \E j \in Positions : j > k /\ Op(q, j, Signal)'
    <3> SUFFICES ASSUME NEW q \in Queues, NEW k \in Positions, NEW o \in Presents, Op(q, k, o)'
                 PROVE  \E j \in Positions : j > k /\ Op(q, j, Signal)'
      OBVIOUS
    <3>1. Op(q, k, o)
      BY <1>0, <2>1 DEF Joins
    <3>2. CASE q = lastQueue
      <4>1. k < n /\ Op(q, n, Signal)'
        BY <1>0, <2>1, <3>1, <3>2 DEF Joins
      <4> QED
        BY <4>1 DEF Positions
    <3>3. CASE q # lastQueue
      <4>1. PICK j \in Positions : j > k /\ Op(q, j, Signal)
        BY <3>1, <3>3 DEF Signaled
      <4> QED
        BY <1>0, <2>1, <4>1 DEF Joins
    <3> QED
      BY <3>2, <3>3
  <2>4. \A q \in Queues, k \in Positions : Op(q, k, Signal)' => signalQueued'[q]
    BY <1>0, <2>1, <2>2 DEF Joins, Signaled
  <2> QED
    BY <2>3, <2>4 DEF Signaled
<1>4. CASE DeviceStep
  <2>1. PICK p \in Queues, n \in Positions, a \in Ops : Leaves(p, n, a) /\ (a = Signal => n = 1)
    BY <1>4, DeviceTakes
  <2>2. UNCHANGED <<signalQueued, lastQueue, pc>>
    BY <1>4, DeviceTakes DEF hostVars, graphchainVars, clientVars
  <2>3. ASSUME NEW q \in Queues, NEW k \in Positions, NEW o \in Presents, Op(q, k, o)'
        PROVE  \/ pc = "signal" /\ lastQueue = q
               \/ \E j \in Positions : j > k /\ Op(q, j, Signal)'
    <3>1. PICK m \in Positions : /\ Op(q, m, o)
                                 /\ m = IF q # p \/ k < n THEN k ELSE k + 1
      BY <1>0, <2>1, <2>3 DEF Leaves, Positions
    <3>2. CASE pc = "signal" /\ lastQueue = q
      BY <3>2
    <3>3. CASE \E j \in Positions : j > m /\ Op(q, j, Signal)
      <4>1. PICK j \in Positions : j > m /\ Op(q, j, Signal)
        BY <3>3
      <4>2. CASE q # p
        BY <1>0, <2>1, <3>1, <4>1, <4>2 DEF Leaves
      <4>3. CASE q = p /\ j < n
        <5>1. Op(q, j, Signal)'
          BY <1>0, <2>1, <4>1, <4>3 DEF Leaves
        <5> QED
          BY <3>1, <4>1, <4>3, <5>1 DEF Positions
      <4>4. CASE q = p /\ j > n
        <5>1. j - 1 \in Positions /\ j - 1 >= n /\ (j - 1) + 1 = j
          BY <4>4 DEF Positions
        <5>2. Op(q, j - 1, Signal)'
          <6>1. PICK h \in Positions : h = j - 1
            BY <5>1
          <6>2. Op(q, h + 1, Signal)
            BY <4>1, <5>1, <6>1
          <6>3. Op(q, h, Signal)'
            BY <1>0, <2>1, <4>4, <5>1, <6>1, <6>2 DEF Leaves
          <6> QED
            BY <6>1, <6>3
        <5>3. j - 1 > k
          BY <3>1, <4>1, <4>4 DEF Positions
        <5> QED
          BY <5>1, <5>2, <5>3
      <4>5. CASE q = p /\ j = n
        <5>1. a = Signal
          BY <1>0, <2>1, <4>1, <4>5, OpIsOne DEF Leaves
        <5> QED
          BY <2>1, <3>1, <4>1, <4>5, <5>1 DEF Positions
      <4> QED
        BY <4>2, <4>3, <4>4, <4>5 DEF Positions
    <3> QED
      BY <3>1, <3>2, <3>3 DEF Signaled
  <2>4. ASSUME NEW q \in Queues, NEW k \in Positions, Op(q, k, Signal)'
        PROVE  signalQueued[q]
    <3>1. k + 1 \in Positions
      BY DEF Positions
    <3>2. Op(q, k, Signal) \/ Op(q, k + 1, Signal)
      BY <1>0, <2>1, <2>4 DEF Leaves
    <3> QED
      BY <3>1, <3>2 DEF Signaled
  <2> QED
    BY <2>2, <2>3, <2>4 DEF Signaled
<1>5. ASSUME NEW i \in Images, NEW p \in Queues, PresentImageFails(i, p)
      PROVE  Signaled'
  <2>1. Rejects(p, imageFrames[i], Rendered(epoch, i))
    BY <1>5, PresentImageRejects
  <2>2. UNCHANGED <<signalQueued, lastQueue, pc>>
    BY <1>5 DEF PresentImageFails, PresentRejected
  <2>3. \A q \in Queues, k \in Positions, o \in Ops \ Works : Op(q, k, o)' <=> Op(q, k, o)
    BY <2>1 DEF Rejects
  <2> QED
    BY <1>0, <2>2, <2>3 DEF Signaled
<1>6. ASSUME NEW i \in Images, NEW p \in Queues, NEW b \in BOOLEAN, PresentImage(i, p, b)
      PROVE  Signaled'
  <2>1. PICK n \in Positions, a \in Works, c \in Presents : JoinBoth(p, n, a, c)
    BY <1>6, PresentImageJoins
  <2>2. UNCHANGED signalQueued /\ lastQueue' = p /\ pc = "idle" /\ pc' = "signal"
    BY <1>6 DEF PresentImage, PresentFrame, PresentQueued
  <2>3. \A q \in Queues, k \in Positions : Op(q, k, Signal)' <=> Op(q, k, Signal)
    BY <1>0, <2>1 DEF JoinBoth
  <2>4. \A q \in Queues, k \in Positions, o \in Presents : Op(q, k, o)' => q = p \/ Op(q, k, o)
    BY <1>0, <2>1 DEF JoinBoth
  <2> QED
    BY <2>2, <2>3, <2>4 DEF Signaled
<1> QED
  BY <1>1, <1>2, <1>3, <1>4, <1>5, <1>6, StepKinds DEF Quiet, Presented

-----------------------------------------------------------------------------
(* What is destroyed                                                       *)

\* Where presents and work come from
LEMMA PresentsFrom ==
    ASSUME TypeInv, [Next]_vars, NEW q \in Queues, NEW k \in Positions, NEW o \in Presents,
           Op(q, k, o)'
    PROVE  \/ \E j \in Positions : Op(q, j, o)
           \/ /\ Presented /\ pc = "idle" /\ o.handle = live
              /\ \E i \in Images : o.wait = Rendered(epoch, i)
<1>0. \A c \in Presents : c \in Ops /\ c \notin Works
  BY PresentsAre
<1>1. CASE Quiet \/ SubmitPresentSignal \/ DeviceStep
  BY <1>1, OldOps
<1>2. ASSUME NEW i \in Images, NEW p \in Queues, PresentImageFails(i, p)
      PROVE  Op(q, k, o)
  <2>1. Rejects(p, imageFrames[i], Rendered(epoch, i))
    BY <1>2, PresentImageRejects
  <2> QED
    BY <1>0, <2>1 DEF Rejects
<1>3. ASSUME NEW i \in Images, NEW p \in Queues, NEW b \in BOOLEAN, PresentImage(i, p, b)
      PROVE  \/ Op(q, k, o)
             \/ Presented /\ pc = "idle" /\ o.handle = live /\ o.wait = Rendered(epoch, i)
  <2>1. PICK n \in Positions, a \in Works, c \in Presents :
          JoinBoth(p, n, a, c) /\ c.handle = live /\ c.wait = Rendered(epoch, i)
    BY <1>3, PresentImageJoins, OpsAre
  <2>2. Presented /\ pc = "idle"
    BY <1>3 DEF Presented, PresentImage, PresentFrame
  <2> QED
    BY <1>0, <2>1, <2>2 DEF JoinBoth
<1> QED
  BY <1>1, <1>2, <1>3, StepKinds DEF Presented

LEMMA WorksFrom ==
    ASSUME TypeInv, [Next]_vars, NEW q \in Queues, NEW k \in Positions, NEW o \in Works,
           Op(q, k, o)'
    PROVE  \/ \E j \in Positions, w \in Works : Op(q, j, w) /\ o.signal \in {None, w.signal}
           \/ /\ Presented /\ pc = "idle"
              /\ \E i \in Images : o.signal \in {None, Rendered(epoch, i)}
<1>0. \A c \in Works : c \in Ops /\ c \notin Presents
  BY WorksAre
<1>1. CASE Quiet \/ SubmitPresentSignal \/ DeviceStep
  BY <1>1, OldOps
<1>2. ASSUME NEW i \in Images, NEW p \in Queues, PresentImageFails(i, p)
      PROVE  \/ \E j \in Positions, w \in Works : Op(q, j, w) /\ o.signal \in {None, w.signal}
             \/ Presented /\ pc = "idle" /\ o.signal \in {None, Rendered(epoch, i)}
  <2>1. Rejects(p, imageFrames[i], Rendered(epoch, i))
    BY <1>2, PresentImageRejects
  <2>2. Presented /\ pc = "idle"
    BY <1>2 DEF Presented, PresentImageFails, PresentFrame
  <2> QED
    BY <2>1, <2>2 DEF Rejects
<1>3. ASSUME NEW i \in Images, NEW p \in Queues, NEW b \in BOOLEAN, PresentImage(i, p, b)
      PROVE  Op(q, k, o) \/ (Presented /\ pc = "idle" /\ o.signal = Rendered(epoch, i))
  <2>1. PICK n \in Positions, a \in Works, c \in Presents :
          JoinBoth(p, n, a, c) /\ a.signal = Rendered(epoch, i)
    BY <1>3, PresentImageJoins, OpsAre
  <2>2. Presented /\ pc = "idle"
    BY <1>3 DEF Presented, PresentImage, PresentFrame
  <2> QED
    BY <1>0, <2>1, <2>2 DEF JoinBoth
<1> QED
  BY <1>1, <1>2, <1>3, StepKinds DEF Presented

LEMMA HandledInit == Init => Handled
BY DEF Init, SwapchainInit, Handled, Op

LEMMA HandledStep == TypeInv /\ Signaled /\ Handled /\ [Next]_vars => Handled'
<1> SUFFICES ASSUME TypeInv, Signaled, Handled, [Next]_vars PROVE Handled'
  OBVIOUS
<1>0. /\ live \in Int /\ \A h \in Handles : h \in Int
      /\ retired \subseteq Int /\ destroyed \subseteq Int
      /\ \A o \in Presents : o.handle \in Int
  BY PartsStep, PresentsAre DEF HandlesTyped, Handles
<1>1. ASSUME (Reset \/ ResetFails \/ FinishDrop), RetireOld \/ DropSwapchain
      PROVE  \A q \in Queues, k \in Positions, o \in Presents : ~Op(q, k, o)'
  <2>1. SignalsWaited /\ pc # "signal"
    BY <1>1 DEF Reset, ResetFails, FinishDrop, RetireOld, DropSwapchain
  <2>2. queue' = queue
    BY <1>1, QuietKeeps DEF Quiet
  <2> QED
    BY <2>1, <2>2, NoPresentAtAll DEF Op
<1>2. CASE Reset /\ recreatePending
  <2>1. PICK n \in ImageCounts : Recreate(n, PendingImages)
    BY <1>2 DEF Reset
  <2>2. /\ retired' = {live} /\ live' = live + 1 /\ destroyed' = destroyed \cup retired
        /\ pc # "dropped" /\ RetireOld
    BY <1>2, <2>1 DEF Recreate, RetireOld, Reset
  <2> QED
    BY <1>0, <1>1, <1>2, <2>2 DEF Handled
<1>3. CASE ResetFails
  <2>1. /\ retired' = {} /\ live' = live /\ destroyed' = destroyed \cup retired
        /\ pc # "dropped" /\ RetireOld
    BY <1>3 DEF ResetFails, RecreateFails, RetireOld
  <2> QED
    BY <1>0, <1>1, <1>3, <2>1 DEF Handled
<1>4. CASE FinishDrop
  <2>1. retired' = {} /\ live' = live /\ pc' = "dropped" /\ DropSwapchain
    BY <1>4 DEF FinishDrop, DropSwapchain
  <2> QED
    BY <1>0, <1>1, <1>4, <2>1 DEF Handled
<1>5. CASE ~FinishDrop /\ ~ResetFails /\ ~(Reset /\ recreatePending)
  <2>1. UNCHANGED <<live, retired, destroyed>> /\ (pc = "dropped" => pc' = "dropped")
    <3>1. CASE Reset
      BY <1>5, <3>1 DEF Reset
    <3>2. CASE \E i \in Images, b \in BOOLEAN : AcquireImage(i, b)
      BY <3>2 DEF AcquireImage, Acquire
    <3>3. CASE \E b \in BOOLEAN : AcquireNothing(b)
      BY <3>3 DEF AcquireNothing, AcquireFails
    <3>4. CASE LimitInFlight \/ BeginAcquire
      BY <3>4 DEF LimitInFlight, BeginAcquire, swapchainVars, hostVars
    <3>5. CASE SetGraphchainInfo \/ DropGraphchain \/ SubmitPresentSignal
      BY <3>5 DEF SetGraphchainInfo, SetInfo, DropGraphchain, SubmitPresentSignal, SubmitSignal
    <3>6. CASE UNCHANGED vars
      BY <3>6 DEF vars, swapchainVars, hostVars, graphchainVars, clientVars
    <3>7. CASE DeviceStep
      BY <3>7, DeviceTakes DEF hostVars, graphchainVars, clientVars
    <3>8. CASE Presented
      BY <3>8 DEF Presented, PresentImageFails, PresentImage, PresentFrame, PresentRejected,
         PresentQueued
    <3> QED
      BY <1>5, <3>1, <3>2, <3>3, <3>4, <3>5, <3>6, <3>7, <3>8 DEF Next, Continue, Call, Presented
  <2>2. ASSUME NEW q \in Queues, NEW k \in Positions, NEW o \in Presents, Op(q, k, o)'
        PROVE  o.handle <= live /\ o.handle \notin destroyed
    <3>1. \/ \E j \in Positions : Op(q, j, o)
          \/ pc = "idle" /\ o.handle = live
      BY <2>2, PresentsFrom
    <3> QED
      BY <1>0, <3>1 DEF Handled
  <2> QED
    BY <2>1, <2>2 DEF Handled
<1> QED
  BY <1>2, <1>3, <1>4, <1>5

LEMMA DrainedInit == Init => Drained
BY DEF Init, Drained

LEMMA DrainedStep == TypeInv /\ Fenced /\ Drained /\ [Next]_vars => Drained'
<1> SUFFICES ASSUME TypeInv, Fenced, Drained, [Next]_vars, pc' \in {"dropping", "dropped"}
             PROVE  /\ \A q \in Queues, k \in Positions, o \in Works : ~Op(q, k, o)'
                    /\ OneQueue => \A q \in Queues, k \in Positions, o \in Ops : ~Op(q, k, o)'
  BY DEF Drained
<1>1. CASE DropGraphchain
  <2>1. FencesWaited /\ queue[lastQueue] = <<>> /\ lastQueue \in Queues
    BY <1>1, PartsStep DEF DropGraphchain, ClientTyped
  <2>2. queue' = queue
    BY <1>1, QuietKeeps DEF Quiet
  <2> QED
    BY <2>1, <2>2, NoWorkAtAll DEF OneQueue, Op
<1>2. CASE ~DropGraphchain
  <2>1. pc \in {"dropping", "dropped"} /\ (Quiet \/ DeviceStep)
    <3>1. CASE DeviceStep \/ UNCHANGED vars
      BY <3>1 DEF DeviceStep, Quiet, vars, graphchainVars, clientVars
    <3>2. CASE FinishDrop
      BY <3>2 DEF FinishDrop, Quiet
    <3> QED
      BY <1>2, <3>1, <3>2 DEF Next, Continue, Call, Reset, ResetFails, AcquireImage,
         AcquireNothing, SubmitPresentSignal, LimitInFlight, BeginAcquire, PresentImageFails,
         PresentImage, PresentFrame, SetGraphchainInfo
  <2>2. CASE Quiet
    BY <2>1, <2>2, QuietKeeps DEF Drained, Op
  <2>3. CASE DeviceStep
    <3>1. PICK p \in Queues, n \in Positions, a \in Ops : Leaves(p, n, a)
      BY <2>3, DeviceTakes
    <3>2. \A k \in Positions : k + 1 \in Positions
      BY DEF Positions
    <3>3. \A o \in Works : o \in Ops
      BY WorksAre
    <3> QED
      BY <2>1, <3>1, <3>2, <3>3 DEF Leaves, Drained
  <2> QED
    BY <2>1, <2>2, <2>3
<1> QED
  BY <1>1, <1>2

LEMMA NamedInit == Init => Named
BY DEF Init, SwapchainInit, Named, Op, ResetAlone

\* A recreation finds no work, and presents only where it is a lone reset.
LEMMA NamedReset ==
    ASSUME TypeInv, Fenced, Signaled, Named, Reset
    PROVE  Named'
<1>0. /\ HandlesTyped /\ StrategyTyped /\ epoch \in Int /\ Epochs \subseteq Int
      /\ \A o \in Presents : o \in Ops
  BY TypeParts, PresentsAre DEF StrategyTyped, Epochs
<1>1. queue' = queue /\ FencesWaited /\ pc = "recreate"
  BY QuietKeeps DEF Quiet, Reset
<1>2. \A q \in Queues, k \in Positions, o \in Works : ~Op(q, k, o)'
  BY <1>1, NoWorkAtAll DEF Op
<1>3. ~recreatePending' /\ ~resetPending' /\ pc' = "slot"
  BY DEF Reset, Recreate
<1>4. /\ epoch' = epoch + 1 /\ retiredEpochs' = {epoch}
      /\ freedEpochs' = freedEpochs \cup retiredEpochs
  BY DEF Reset, ResetStrategy
<1>5. \A e \in retiredEpochs' : e < epoch'
  BY <1>0, <1>4
<1>6. \A e \in freedEpochs' : e < epoch'
  <2> SUFFICES ASSUME NEW e \in freedEpochs' PROVE e < epoch'
    OBVIOUS
  <2>1. e < epoch /\ e \in Int
    BY <1>0, <1>1, <1>4 DEF Named, StrategyTyped
  <2> QED
    BY <1>0, <1>4, <2>1
<1>7. CASE recreatePending
  <2>1. SignalsWaited
    BY <1>7 DEF Reset, Recreate, RetireOld
  <2>2. \A q \in Queues, k \in Positions, o \in Presents : ~Op(q, k, o)'
    BY <1>1, <2>1, NoPresentAtAll DEF Op
  <2> QED
    BY <1>2, <1>3, <1>5, <1>6, <2>2 DEF Named, ResetAlone
<1>8. CASE ~recreatePending
  <2>1. ResetAlone /\ ~clamped
    BY <1>1, <1>8 DEF Named, ResetAlone
  <2>2. ~clamped'
    BY <1>8, <2>1 DEF Reset
  <2>3. ASSUME NEW q \in Queues, NEW k \in Positions, NEW o \in Presents,
               NEW e \in Epochs, NEW i \in Images, Op(q, k, o)', o.wait = Rendered(e, i)
        PROVE  e <= epoch' /\ e \notin freedEpochs'
    <3>1. Op(q, k, o)
      BY <1>1, <2>3 DEF Op
    <3>2. e = epoch /\ e \notin freedEpochs
      BY <1>1, <2>1, <2>3, <3>1 DEF Named
    <3>3. e \notin retiredEpochs
      BY <1>0, <3>2 DEF Named
    <3> QED
      BY <1>0, <1>4, <3>2, <3>3
  <2> QED
    BY <1>2, <1>3, <1>5, <1>6, <2>2, <2>3 DEF Named, ResetAlone
<1> QED
  BY <1>7, <1>8

\* The other steps leave the names as they are.
LEMMA NamedOthers ==
    ASSUME TypeInv, Named, [Next]_vars, ~Reset
    PROVE  Named'
<1>0. /\ HandlesTyped /\ StrategyTyped /\ ClientTyped /\ epoch \in Int /\ Epochs \subseteq Int
  BY TypeParts DEF StrategyTyped, Epochs
<1>1. UNCHANGED epoch
  <2>1. CASE DeviceStep \/ UNCHANGED vars
    BY <2>1 DEF DeviceStep, vars, graphchainVars, strategyVars
  <2> QED
    BY <2>1 DEF Next, Continue, Call, ResetFails, AcquireImage, AcquireNothing,
       SubmitPresentSignal, LimitInFlight, FinishDrop, BeginAcquire, PresentImageFails,
       PresentImage, PresentFrame, SetGraphchainInfo, DropGraphchain, strategyVars
<1>2. /\ retiredEpochs' \subseteq retiredEpochs
      /\ pc' \notin {"dropping", "dropped"} =>
            pc \notin {"dropping", "dropped"} /\ freedEpochs' = freedEpochs
  <2>1. CASE DeviceStep \/ UNCHANGED vars
    BY <2>1 DEF DeviceStep, vars, graphchainVars, strategyVars, clientVars
  <2> QED
    BY <2>1 DEF Next, Continue, Call, ResetFails, AcquireImage, AcquireNothing,
       SubmitPresentSignal, LimitInFlight, FinishDrop, BeginAcquire, PresentImageFails,
       PresentImage, PresentFrame, SetGraphchainInfo, DropGraphchain, strategyVars
<1>3. /\ pc' = "slot" => ~recreatePending' /\ ~resetPending'
      /\ pc' = "recreate" => recreatePending' \/ resetPending'
      /\ ResetAlone' => ~clamped'
      /\ clamped' => clamped
      /\ ResetAlone' => ResetAlone \/ clamped
  <2>1. CASE DeviceStep
    BY <2>1, DeviceTakes DEF Named, ResetAlone, hostVars, graphchainVars, clientVars
  <2>2. CASE UNCHANGED vars
    BY <2>2 DEF Named, ResetAlone, vars, swapchainVars, hostVars, graphchainVars, clientVars
  <2>3. CASE ResetFails
    BY <2>3 DEF ResetFails, RecreateFails, ResetAlone
  <2>4. CASE \E i \in Images, b \in BOOLEAN : AcquireImage(i, b)
    BY <1>0, <2>4 DEF AcquireImage, Acquire, Named, ResetAlone, ClientTyped, HandlesTyped
  <2>5. CASE \E b \in BOOLEAN : AcquireNothing(b)
    BY <1>0, <2>5 DEF AcquireNothing, AcquireFails, Named, ResetAlone, ClientTyped, HandlesTyped
  <2>6. CASE SubmitPresentSignal \/ FinishDrop \/ DropGraphchain
    BY <2>6 DEF SubmitPresentSignal, SubmitSignal, FinishDrop, DropSwapchain, DropGraphchain,
       Named, ResetAlone
  <2>7. CASE LimitInFlight \/ BeginAcquire
    BY <2>7 DEF LimitInFlight, BeginAcquire, Named, ResetAlone, swapchainVars, hostVars
  <2>8. CASE Presented
    BY <2>8 DEF Presented, PresentImageFails, PresentRejected, PresentImage, PresentQueued,
       PresentFrame, Named, ResetAlone
  <2>9. CASE SetGraphchainInfo
    <3>1. pc' = "idle" /\ clamped' = FALSE
      BY <2>9 DEF SetGraphchainInfo
    <3>2. \/ resetPending' = resetPending /\ (recreatePending => recreatePending')
          \/ clamped
          \/ recreatePending'
      BY <2>9 DEF SetGraphchainInfo, SetInfo
    <3> QED
      BY <3>1, <3>2 DEF ResetAlone
  <2> QED
    BY <2>1, <2>2, <2>3, <2>4, <2>5, <2>6, <2>7, <2>8, <2>9 DEF Next, Continue, Call, Presented
<1>4. ASSUME NEW q \in Queues, NEW k \in Positions, NEW o \in Works, Op(q, k, o)'
      PROVE  o.signal = None \/ \E i \in Images : o.signal = Rendered(epoch, i)
  BY <1>4, WorksFrom DEF Named
<1>5. ASSUME NEW q \in Queues, NEW k \in Positions, NEW o \in Presents,
             NEW e \in Epochs, NEW i \in Images, Op(q, k, o)', o.wait = Rendered(e, i)
      PROVE  /\ e <= epoch
             /\ pc' \notin {"dropping", "dropped"} => e \notin freedEpochs'
             /\ clamped' \/ ResetAlone' => e = epoch
  <2>1. CASE \E j \in Positions : Op(q, j, o)
    BY <1>2, <1>3, <1>5, <2>1 DEF Named
  <2>2. CASE pc = "idle" /\ \E j \in Images : o.wait = Rendered(epoch, j)
    <3>1. e = epoch
      BY <1>0, <1>5, <2>2, SemaphoresAre DEF StrategyTyped
    <3>2. epoch \notin freedEpochs
      BY <1>0, <2>2 DEF Named
    <3> QED
      BY <1>0, <1>2, <3>1, <3>2
  <2> QED
    BY <1>5, <2>1, <2>2, PresentsFrom
<1> QED
  BY <1>0, <1>1, <1>2, <1>3, <1>4, <1>5 DEF Named

\* What holds between any two steps, of whatever client
Inv == TypeInv /\ Fenced /\ Signaled /\ Named /\ Handled /\ Drained

LEMMA Invariance == Spec => []Inv
<1>1. Init => Inv
  BY TypeInit, FencedInit, SignaledInit, NamedInit, HandledInit, DrainedInit DEF Inv
<1>2. Inv /\ [Next]_vars => Inv'
  BY TypeStep, FencedStep, SignaledStep, NamedReset, NamedOthers, HandledStep, DrainedStep
     DEF Inv
<1> QED
  BY <1>1, <1>2, PTL DEF Spec

LEMMA NothingInUse ==
    ASSUME Inv, pc \in {"dropping", "dropped"} => OneQueue
    PROVE  NothingDestroyedInUse
<1>0. /\ queue \in [Queues -> Seq(Ops)] /\ StrategyTyped /\ HandlesTyped
      /\ epoch \in Int
  BY TypeParts DEF Inv, StrategyTyped, Epochs
<1>1. ASSUME NEW op \in Unfinished
      PROVE  /\ \A e \in freedEpochs, i \in Images :
                    ~Waits(op, Rendered(e, i)) /\ ~Signals(op, Rendered(e, i))
             /\ pc \in {"dropping", "dropped"} => \A f \in Frames : ~Waits(op, Acquired(f))
  <2>1. op \in Ops
    BY <1>0, UnfinishedAre
  <2>2. PICK q \in Queues, k \in Positions : Op(q, k, op)
    BY <1>0, UnfinishedAre
  <2>3. pc \notin {"dropping", "dropped"}
    BY <2>1, <2>2 DEF Inv, Drained
  <2>4. ASSUME NEW e \in freedEpochs, NEW i \in Images
        PROVE  ~Waits(op, Rendered(e, i)) /\ ~Signals(op, Rendered(e, i))
    <3>1. e < epoch /\ e \in Epochs
      BY <1>0, <2>3 DEF Inv, Named, StrategyTyped
    <3>2. CASE op \in Works
      <4>1. ~Waits(op, Rendered(e, i))
        BY <3>1, <3>2, WorksAre, SemaphoresAre DEF Waits
      <4>2. ~Signals(op, Rendered(e, i))
        <5>1. op.signal = None \/ \E j \in Images : op.signal = Rendered(epoch, j)
          BY <2>2, <3>2 DEF Inv, Named
        <5>2. Rendered(e, i) # None /\ \A j \in Images : Rendered(epoch, j) # Rendered(e, i)
          BY <1>0, <3>1, SemaphoresAre DEF StrategyTyped
        <5> QED
          BY <5>1, <5>2 DEF Signals
      <4> QED
        BY <4>1, <4>2
    <3>3. CASE op \in Presents
      <4>1. op.wait # Rendered(e, i)
        BY <2>2, <2>3, <3>1, <3>3 DEF Inv, Named
      <4> QED
        BY <3>3, <4>1, PresentsAre DEF Waits, Signals
    <3>4. CASE op = Signal
      BY <3>4, OpsAre DEF Waits, Signals
    <3> QED
      BY <2>1, <3>2, <3>3, <3>4 DEF Ops
  <2> QED
    BY <2>3, <2>4
<1>2. \A h \in destroyed, i \in Images : ~Presenting(h, i)
  BY <1>0, WaitsAre DEF Inv, Handled, HandlesTyped
<1> QED
  BY <1>1, <1>2 DEF NothingDestroyedInUse

\* Until the graphchain is dropped, on however many queues its images are presented,
\* neither a rendered semaphore nor a swapchain handle is destroyed that a submission
\* or a present names.
THEOREM NothingDestroyedBefore ==
    Spec => [](pc \notin {"dropping", "dropped"} => NothingDestroyedInUse)
<1>1. Inv => (pc \notin {"dropping", "dropped"} => NothingDestroyedInUse)
  BY NothingInUse
<1> QED
  BY <1>1, Invariance, PTL

\* With one present queue that is true of the drop as well, and of the semaphores of
\* the acquisitions.
THEOREM NothingDestroyed ==
    ASSUME OneQueue
    PROVE  Spec => []NothingDestroyedInUse
<1>1. Inv => NothingDestroyedInUse
  BY NothingInUse
<1> QED
  BY <1>1, Invariance, PTL

-----------------------------------------------------------------------------
(* What Graphchain uses again: command buffers, the semaphores of           *)
(* acquisitions and of presents, and images.  All of it is about a client   *)
(* that presents an image before it acquires the next one, as the frame     *)
(* loop of the window does.  A client that holds an image while a failed    *)
(* acquisition rotates the slots gets that image's slot again.              *)

\* The client presents an image before it acquires the next one.
HeldOne ==
    /\ \A i, j \in held : i = j
    /\ pc \in {"recreate", "slot"} => held = {}

\* A slot has one submission pending, none while its image is held.
OneWork ==
    /\ \A p, q \in Queues, j, k \in Positions, o, w \in Works :
         Op(p, j, o) /\ Op(q, k, w) /\ o.owner = w.owner => p = q /\ j = k
    /\ \A i \in held : ~fenceQueued[imageFrames[i]]
    /\ \A f \in Frames : semaphore[Acquired(f)] = "signaled" =>
         \/ \E i \in held : imageFrames[i] = f
         \/ \E q \in Queues, k \in Positions, o \in Works : Op(q, k, o) /\ o.owner = f

\* An image is held, presented or with the engine.
OnePresent ==
    /\ held \subseteq taken
    /\ \A i \in taken : engine[live][i] = "acquired"
    /\ \A q \in Queues, k \in Positions, o \in Presents : Op(q, k, o) =>
         engine[o.handle][o.image] = "queued"
    /\ \A p, q \in Queues, j, k \in Positions, o, w \in Presents :
         Op(p, j, o) /\ Op(q, k, w) /\ o.handle = w.handle /\ o.image = w.image =>
            p = q /\ j = k
    /\ \A q \in Queues, k \in Positions, o \in Presents, i \in Images :
         Op(q, k, o) /\ o.wait = Rendered(epoch, i) => o.handle = live

\* A rendered semaphore is signaled by one submission, for one present.
Paired ==
    /\ \A p, q \in Queues, j, k \in Positions, o, w \in Works :
         Op(p, j, o) /\ Op(q, k, w) /\ o.signal = w.signal /\ o.signal # None => p = q /\ j = k
    /\ \A p, q \in Queues, j, k \in Positions, o, w \in Presents :
         Op(p, j, o) /\ Op(q, k, w) /\ o.wait = w.wait => p = q /\ j = k
    /\ \A q \in Queues, k \in Positions, o \in Works : Op(q, k, o) /\ o.signal # None =>
         /\ semaphore[o.signal] = "idle"
         /\ \E p \in Queues, j \in Positions, w \in Presents : Op(p, j, w) /\ w.wait = o.signal
    /\ \A e \in Epochs, i \in Images : semaphore[Rendered(e, i)] = "signaled" =>
         \E p \in Queues, j \in Positions, w \in Presents : Op(p, j, w) /\ w.wait = Rendered(e, i)

ReuseInv == HeldOne /\ OneWork /\ OnePresent /\ Paired

-----------------------------------------------------------------------------
(* What leaves a queue                                                     *)

LEMMA LeavesFrom ==
    ASSUME NEW p \in Queues, NEW n \in Positions, NEW a \in Ops, Leaves(p, n, a),
           NEW q \in Queues, NEW k \in Positions, NEW o \in Ops, Op(q, k, o)'
    PROVE  \E m \in Positions : Op(q, m, o) /\ m = IF q # p \/ k < n THEN k ELSE k + 1
<1>1. k + 1 \in Positions
  BY DEF Positions
<1>2. ((q # p \/ k < n) /\ Op(q, k, o)) \/ (q = p /\ k >= n /\ Op(q, k + 1, o))
  BY DEF Leaves
<1> QED
  BY <1>1, <1>2 DEF Positions

\* Two operations that stay stay apart.
LEMMA LeavesTwo ==
    ASSUME NEW p \in Queues, NEW n \in Positions, NEW a \in Ops, Leaves(p, n, a),
           NEW q \in Queues, NEW r \in Queues, NEW j \in Positions, NEW k \in Positions,
           NEW o \in Ops, NEW w \in Ops, Op(q, j, o)', Op(r, k, w)'
    PROVE  \E x, y \in Positions : Op(q, x, o) /\ Op(r, y, w) /\ (q = r /\ x = y => j = k)
<1>1. PICK x \in Positions : Op(q, x, o) /\ x = IF q # p \/ j < n THEN j ELSE j + 1
  BY LeavesFrom
<1>2. PICK y \in Positions : Op(r, y, w) /\ y = IF r # p \/ k < n THEN k ELSE k + 1
  BY LeavesFrom
<1>3. q = r /\ x = y => j = k
  BY <1>1, <1>2 DEF Positions
<1> QED
  BY <1>1, <1>2, <1>3

\* Every other operation stays.
LEMMA LeavesOthers ==
    ASSUME NEW p \in Queues, NEW n \in Positions, NEW a \in Ops, Leaves(p, n, a),
           NEW q \in Queues, NEW k \in Positions, NEW o \in Ops, Op(q, k, o), q # p \/ k # n
    PROVE  \E m \in Positions : Op(q, m, o)'
<1>1. CASE q # p \/ k < n
  BY <1>1 DEF Leaves
<1>2. CASE q = p /\ k > n
  <2>1. PICK m \in Positions : m = k - 1 /\ m >= n /\ m + 1 = k
    BY <1>2 DEF Positions
  <2> QED
    BY <1>2, <2>1 DEF Leaves
<1> QED
  BY <1>1, <1>2 DEF Positions

\* What a step of the device does to the semaphores and the engine
Executed(a) ==
    \/ /\ a \in Works /\ semaphore[a.wait] = "signaled" /\ engine' = engine
       /\ semaphore' = [s \in Semaphores |->
            IF s = a.wait THEN "idle"
            ELSE IF s = a.signal THEN "signaled" ELSE semaphore[s]]
    \/ /\ a \in Presents /\ semaphore[a.wait] = "signaled"
       /\ semaphore' = [semaphore EXCEPT ![a.wait] = "idle"]
       /\ engine' = [engine EXCEPT ![a.handle] = [i \in Images |->
            IF i = a.image THEN "shown" ELSE IF @[i] = "shown" THEN "free" ELSE @[i]]]
    \/ a = Signal /\ engine' = engine /\ semaphore' = semaphore

LEMMA DeviceExecutes ==
    ASSUME TypeInv, DeviceStep
    PROVE  \E p \in Queues, n \in Positions, a \in Ops : Leaves(p, n, a) /\ Executed(a)
<1>0. queue \in [Queues -> Seq(Ops)]
  BY DEF TypeInv
<1>1. PICK p \in Queues :
        \/ \E k \in DOMAIN queue[p] : ExecuteWork(p, k) \/ ExecutePresent(p, k)
        \/ ExecuteSignal(p)
  BY DEF DeviceStep, Device
<1>2. CASE \E k \in DOMAIN queue[p] : ExecuteWork(p, k) \/ ExecutePresent(p, k)
  <2>1. PICK n \in DOMAIN queue[p] : ExecuteWork(p, n) \/ ExecutePresent(p, n)
    BY <1>2
  <2>2. queue' = Pull(queue, p, n)
    BY <2>1 DEF ExecuteWork, ExecutePresent, Pull
  <2>3. /\ n \in Positions
        /\ queue[p][n] \in Ops /\ Leaves(p, n, queue[p][n])
    BY <1>0, <2>2, DeviceLeaves
  <2>4. PICK a \in Ops : a = queue[p][n]
    BY <2>3
  <2>5. CASE ExecuteWork(p, n)
    <3>1. a \in Works
      BY <2>4, <2>5, KindsAre DEF ExecuteWork, WorkReady
    <3>2. Executed(a)
      BY <2>4, <2>5, <3>1 DEF ExecuteWork, WorkReady, Executed
    <3> QED
      BY <2>3, <2>4, <3>2
  <2>6. CASE ExecutePresent(p, n)
    <3>1. a \in Presents
      BY <2>4, <2>6, KindsAre DEF ExecutePresent, IsPresent
    <3>2. Executed(a)
      BY <2>4, <2>6, <3>1 DEF ExecutePresent, Executed
    <3> QED
      BY <2>3, <2>4, <3>2
  <2> QED
    BY <2>1, <2>5, <2>6
<1>3. CASE ExecuteSignal(p)
  <2>1. Leaves(p, 1, Signal) /\ 1 \in Positions /\ Signal \in Ops
    BY <1>0, <1>3, ExecuteSignalLeaves DEF Positions, Ops
  <2>2. Executed(Signal)
    BY <1>3 DEF ExecuteSignal, Executed
  <2> QED
    BY <2>1, <2>2
<1> QED
  BY <1>1, <1>2, <1>3

-----------------------------------------------------------------------------
(* The client                                                              *)

LEMMA HeldOneInit == Init => HeldOne
BY DEF Init, HeldOne

LEMMA HeldOneStep ==
    ASSUME MaxHeld = 1
    PROVE  TypeInv /\ HeldOne /\ [Next]_vars => HeldOne'
<1> SUFFICES ASSUME TypeInv, HeldOne, [Next]_vars PROVE HeldOne'
  OBVIOUS
<1>1. CASE BeginAcquire
  <2>1. held' = held /\ Cardinality(held) < 1
    BY <1>1 DEF BeginAcquire
  <2>2. IsFiniteSet(held)
    BY ImagesAre, FS_Subset, PartsStep DEF ClientTyped
  <2>3. held = {}
    BY <2>1, <2>2, FS_EmptySet, FS_CardinalityType
  <2> QED
    BY <2>1, <2>3 DEF HeldOne
<1>2. CASE \E i \in Images, b \in BOOLEAN : AcquireImage(i, b)
  BY <1>2 DEF AcquireImage, HeldOne
<1>3. CASE Presented
  BY <1>3 DEF Presented, PresentImageFails, PresentImage, PresentFrame, HeldOne
<1>4. CASE DeviceStep \/ UNCHANGED vars
  BY <1>4 DEF DeviceStep, vars, graphchainVars, clientVars, HeldOne
<1> QED
  BY <1>1, <1>2, <1>3, <1>4 DEF Next, Continue, Call, Presented, HeldOne, Reset, ResetFails,
     AcquireNothing, SubmitPresentSignal, LimitInFlight, FinishDrop, SetGraphchainInfo,
     DropGraphchain

\* The rendered semaphore of an image that the client holds is out of use.
LEMMA RenderedIdle ==
    ASSUME TypeInv, OnePresent, Paired, NEW i \in held
    PROVE  /\ semaphore[Rendered(epoch, i)] = "idle"
           /\ \A q \in Queues, k \in Positions, o \in Presents :
                Op(q, k, o) => o.wait # Rendered(epoch, i)
           /\ \A q \in Queues, k \in Positions, o \in Works :
                Op(q, k, o) => o.signal # Rendered(epoch, i)
<1>0. HandlesTyped /\ epoch \in Epochs /\ i \in Images
  BY TypeParts DEF StrategyTyped, ClientTyped
<1>1. engine[live][i] = "acquired"
  BY DEF OnePresent
<1>2. ASSUME NEW q \in Queues, NEW k \in Positions, NEW o \in Presents, Op(q, k, o)
      PROVE  o.wait # Rendered(epoch, i)
  <2> SUFFICES ASSUME o.wait = Rendered(epoch, i) PROVE FALSE
    OBVIOUS
  <2>1. o.handle = live
    BY <1>0, <1>2 DEF OnePresent
  <2>2. o.image = i
    BY <1>0, PresentsAre, SemaphoresAre
  <2> QED
    BY <1>1, <1>2, <2>1, <2>2 DEF OnePresent
<1>3. \A q \in Queues, k \in Positions, o \in Works :
        Op(q, k, o) => o.signal # Rendered(epoch, i)
  BY <1>0, <1>2, SemaphoresAre DEF Paired
<1>4. Rendered(epoch, i) \in Semaphores
  BY <1>0, SemaphoresAre
<1> QED
  BY <1>0, <1>2, <1>3, <1>4 DEF Paired, HandlesTyped

\* A present that is rejected leaves its slot's work, with nothing to signal.
LEMMA RejectJoins ==
    ASSUME TypeInv, OnePresent, Paired, NEW i \in Images, NEW p \in Queues,
           PresentImageFails(i, p)
    PROVE  /\ semaphore' = semaphore
           /\ Work(imageFrames[i], Acquired(imageFrames[i]), None) \in Works
           /\ \E n \in Positions :
                Joins(p, n, Work(imageFrames[i], Acquired(imageFrames[i]), None))
<1>1. imageFrames[i] \in Frames /\ epoch \in Epochs /\ i \in held
  BY TypeParts DEF SlotsTyped, StrategyTyped, PresentImageFails, PresentFrame
<1>2. PICK f \in Frames, s \in RenderedSemaphores : f = imageFrames[i] /\ s = Rendered(epoch, i)
  BY <1>1, SemaphoresAre
<1>3. semaphore[s] = "idle" /\ \A q \in Queues, k \in Positions, o \in Works :
        Op(q, k, o) => o.signal # s
  BY <1>1, <1>2, RenderedIdle
<1>4. PICK w, u : w = Work(f, Acquired(f), s) /\ u = Work(f, Acquired(f), None)
  OBVIOUS
<1>5. /\ w \in Works /\ w \in Ops /\ w.signal = s /\ w.kind = "work"
      /\ u \in Works /\ u \in Ops /\ [w EXCEPT !.signal = None] = u
  <2>1. w \in Works /\ u \in Works
    BY <1>4 DEF Works
  <2>2. [w EXCEPT !.signal = None] = u
    BY <1>4 DEF Work
  <2> QED
    BY <1>4, <2>1, <2>2, WorksAre, OpsAre
<1>6. PICK Q \in [Queues -> Seq(Ops)] : Q = queue
  BY DEF TypeInv
<1>7. PICK M, N : M = Push(Q, p, w) /\ N = queue'
  OBVIOUS
<1>8. M \in [Queues -> Seq(Ops)]
  BY <1>5, <1>7, AppendsAt
<1>9. PICK n \in Positions : Grown(Q, M, p, n, w)
  BY <1>5, <1>7, AppendsAt
<1>10. PresentRejected(M, i, s)
  BY <1>2, <1>4, <1>6, <1>7 DEF PresentImageFails, SubmitFrame, RenderedSemaphore, Push
<1>11. /\ semaphore' = semaphore
       /\ N = [q \in Queues |-> [k \in DOMAIN M[q] |-> Unsignaled(M[q][k], s)]]
  BY <1>3, <1>7, <1>10 DEF PresentRejected, Unsignaled
<1>12. \A q \in Queues : DOMAIN N[q] = DOMAIN M[q]
                         /\ \A k \in DOMAIN M[q] : N[q][k] = Unsignaled(M[q][k], s)
  BY <1>11
<1>13. \A q \in Queues : \A k \in DOMAIN M[q] : M[q][k] \in Ops
  BY <1>8, QueueKinds
<1>14. Unsignaled(w, s) = u
  BY <1>5 DEF Unsignaled
<1>15. ASSUME NEW q \in Queues, NEW k \in Positions, NEW o \in Ops, Op(q, k, o)
       PROVE  Unsignaled(o, s) = o
  BY <1>3, <1>15, KindsAre DEF Unsignaled
<1>16. ASSUME NEW q \in Queues, NEW k \in Positions, NEW o \in Ops
       PROVE  (k \in DOMAIN N[q] /\ N[q][k] = o) <=>
                Op(q, k, o) \/ (q = p /\ k = n /\ o = u)
  <2>1. CASE k \in DOMAIN M[q]
    <3>1. PICK a \in Ops : a = M[q][k]
      BY <1>13, <2>1
    <3>2. N[q][k] = Unsignaled(a, s) /\ k \in DOMAIN N[q]
      BY <1>12, <2>1, <3>1
    <3>3. CASE q = p /\ k = n
      <4>1. a = w
        BY <1>5, <1>9, <2>1, <3>1, <3>3 DEF Grown
      <4>2. ~Op(q, k, o)
        BY <1>6, <1>9, <3>3 DEF Grown, Op, Positions
      <4> QED
        BY <1>14, <3>2, <3>3, <4>1, <4>2
    <3>4. CASE ~(q = p /\ k = n)
      <4>1. Op(q, k, a)
        BY <1>6, <1>9, <2>1, <3>1, <3>4 DEF Grown, Op
      <4>2. N[q][k] = a
        BY <1>15, <3>2, <4>1
      <4> QED
        BY <3>2, <3>4, <4>1, <4>2 DEF Op
    <3> QED
      BY <3>3, <3>4
  <2>2. CASE k \notin DOMAIN M[q]
    <3>1. k \notin DOMAIN N[q]
      BY <1>12, <2>2
    <3>2. ~Op(q, k, o) /\ ~(q = p /\ k = n)
      BY <1>5, <1>6, <1>9, <2>2 DEF Grown, Op
    <3> QED
      BY <3>1, <3>2
  <2> QED
    BY <2>1, <2>2
<1>17. \A k \in Positions, o \in Ops : Op(p, k, o) => k < n
  BY <1>6, <1>9 DEF Grown, Op
<1>18. Joins(p, n, u)
  BY <1>7, <1>16, <1>17 DEF Joins, Op
<1> QED
  BY <1>2, <1>4, <1>5, <1>11, <1>18

\* However a present ends, its slot's work has joined the queue, at one place.
LEMMA PresentAddsWork ==
    ASSUME TypeInv, OnePresent, Paired, NEW i \in Images, NEW p \in Queues,
           PresentImageFails(i, p) \/ \E b \in BOOLEAN : PresentImage(i, p, b)
    PROVE  /\ semaphore' = semaphore
           /\ \E n \in Positions, a \in Works :
                /\ a.owner = imageFrames[i]
                /\ a.signal = None \/ a.signal = Rendered(epoch, i)
                /\ \A q \in Queues, k \in Positions, o \in Works :
                     Op(q, k, o)' <=> Op(q, k, o) \/ (q = p /\ k = n /\ o = a)
<1>0. \A o \in Works : o \in Ops /\ o \notin Presents
  BY WorksAre
<1>1. CASE PresentImageFails(i, p)
  <2>1. PICK n \in Positions, a \in Works :
          Joins(p, n, a) /\ a = Work(imageFrames[i], Acquired(imageFrames[i]), None)
    BY <1>1, RejectJoins
  <2> QED
    BY <1>0, <1>1, <2>1, RejectJoins, OpsAre DEF Joins
<1>2. ASSUME NEW b \in BOOLEAN, PresentImage(i, p, b)
      PROVE  /\ semaphore' = semaphore
             /\ \E n \in Positions, a \in Works :
                  /\ a.owner = imageFrames[i] /\ a.signal = Rendered(epoch, i)
                  /\ \A q \in Queues, k \in Positions, o \in Works :
                       Op(q, k, o)' <=> Op(q, k, o) \/ (q = p /\ k = n /\ o = a)
  <2>1. PICK n \in Positions, a \in Works, c \in Presents :
          /\ JoinBoth(p, n, a, c)
          /\ a.owner = imageFrames[i] /\ a.signal = Rendered(epoch, i)
    BY <1>2, PresentImageJoins, OpsAre
  <2>2. semaphore' = semaphore
    BY <1>2 DEF PresentImage, PresentQueued
  <2> QED
    BY <1>0, <2>1, <2>2 DEF JoinBoth
<1> QED
  BY <1>1, <1>2

\* The steps that change neither work nor what OneWork says of slots
LEMMA OtherSteps ==
    ASSUME TypeInv,
           \/ SubmitPresentSignal \/ LimitInFlight \/ FinishDrop \/ BeginAcquire
           \/ SetGraphchainInfo \/ DropGraphchain \/ UNCHANGED vars
    PROVE  /\ UNCHANGED <<semaphore, engine, taken, live, epoch, held, slotVars, panicked>>
           /\ \A q \in Queues, k \in Positions, o \in Works \cup Presents :
                Op(q, k, o)' <=> Op(q, k, o)
<1>0. \A o \in Works \cup Presents : o \in Ops /\ o # Signal
  BY WorksAre, PresentsAre
<1>1. CASE SubmitPresentSignal
  <2>1. PICK n \in Positions : Joins(lastQueue, n, Signal)
    BY <1>1, SubmitSignalJoins DEF SubmitPresentSignal, TypeInv, TypeOK
  <2> QED
    BY <1>0, <1>1, <2>1 DEF Joins, SubmitPresentSignal, SubmitSignal, slotVars, strategyVars
<1>2. CASE \/ LimitInFlight \/ FinishDrop \/ BeginAcquire \/ SetGraphchainInfo
           \/ DropGraphchain \/ UNCHANGED vars
  <2>1. UNCHANGED <<semaphore, engine, taken, live, epoch, held, slotVars, panicked>>
    <3>1. CASE LimitInFlight \/ BeginAcquire \/ UNCHANGED vars
      BY <3>1 DEF LimitInFlight, BeginAcquire, vars, swapchainVars, hostVars, deviceVars,
         graphchainVars, slotVars, strategyVars, clientVars
    <3>2. CASE FinishDrop \/ SetGraphchainInfo \/ DropGraphchain
      BY <3>2 DEF FinishDrop, DropSwapchain, SetGraphchainInfo, SetInfo, DropGraphchain,
         deviceVars, strategyVars, slotVars
    <3> QED
      BY <1>2, <3>1, <3>2
  <2>2. queue' = queue
    BY <1>2, QuietKeeps DEF Quiet
  <2> QED
    BY <2>1, <2>2 DEF Op
<1> QED
  BY <1>1, <1>2

-----------------------------------------------------------------------------
(* Command buffers and the semaphores of acquisitions                      *)

LEMMA OneWorkInit == Init => OneWork
<1> HAVE Init
<1>1. \A s \in Semaphores : semaphore[s] = "idle"
  BY DEF Init, SwapchainInit
<1>2. held = {} /\ \A q \in Queues, k \in Positions, o \in Works : ~Op(q, k, o)
  BY DEF Init, SwapchainInit, Op
<1> QED
  BY <1>1, <1>2, SemaphoresAre DEF OneWork

LEMMA OneWorkAcquires ==
    ASSUME TypeInv, Fenced, HeldOne, OneWork,
           \/ \E i \in Images, b \in BOOLEAN : AcquireImage(i, b)
           \/ \E b \in BOOLEAN : AcquireNothing(b)
    PROVE  OneWork'
<1>0. HandlesTyped /\ SlotsTyped
  BY TypeParts
<1>1. PICK f \in Frames : f = NextFrame
  BY SlotCounts
<1>2. /\ SlotFree(f) /\ fenceQueued' = [fenceQueued EXCEPT ![f] = FALSE] /\ held = {}
  BY <1>1 DEF AcquireImage, AcquireNothing, PrepareFrame, HeldOne
<1>3. \A q \in Queues, k \in Positions, o \in Works : Op(q, k, o)' <=> Op(q, k, o)
  BY QuietKeeps DEF Quiet, Op
<1>4. ASSUME NEW i \in Images, NEW b \in BOOLEAN, AcquireImage(i, b)
      PROVE  OneWork'
  <2>1. /\ imageFrames' = [imageFrames EXCEPT ![i] = f] /\ held' = {i}
        /\ semaphore' = [semaphore EXCEPT ![Acquired(f)] = "signaled"]
    BY <1>1, <1>2, <1>4 DEF AcquireImage, Acquire
  <2>2. \A j \in held' : ~fenceQueued'[imageFrames'[j]]
    BY <1>0, <1>2, <2>1 DEF SlotsTyped
  <2>3. ASSUME NEW g \in Frames, semaphore'[Acquired(g)] = "signaled"
        PROVE  \/ \E j \in held' : imageFrames'[j] = g
               \/ \E q \in Queues, k \in Positions, o \in Works : Op(q, k, o)' /\ o.owner = g
    <3>1. CASE g = f
      BY <1>0, <2>1, <3>1 DEF SlotsTyped
    <3>2. CASE g # f
      <4>1. semaphore[Acquired(g)] = "signaled"
        BY <1>0, <2>1, <2>3, <3>2, SemaphoresAre DEF HandlesTyped
      <4> QED
        BY <1>2, <1>3, <4>1 DEF OneWork
    <3> QED
      BY <3>1, <3>2
  <2> QED
    BY <1>3, <2>2, <2>3 DEF OneWork
<1>5. ASSUME NEW b \in BOOLEAN, AcquireNothing(b)
      PROVE  OneWork'
  <2>1. held' = {} /\ semaphore' = semaphore
    BY <1>2, <1>5 DEF AcquireNothing, AcquireFails, deviceVars
  <2> QED
    BY <1>2, <1>3, <2>1 DEF OneWork
<1> QED
  BY <1>4, <1>5

LEMMA OneWorkPresents ==
    ASSUME TypeInv, Fenced, HeldOne, OneWork, OnePresent, Paired,
           NEW i \in Images, NEW p \in Queues,
           PresentImageFails(i, p) \/ \E b \in BOOLEAN : PresentImage(i, p, b)
    PROVE  OneWork'
<1>1. /\ i \in held /\ held' = {} /\ imageFrames' = imageFrames
  BY DEF PresentImageFails, PresentImage, PresentFrame, HeldOne
<1>2. PICK n \in Positions, a \in Works :
        /\ a.owner = imageFrames[i]
        /\ \A q \in Queues, k \in Positions, o \in Works :
             Op(q, k, o)' <=> Op(q, k, o) \/ (q = p /\ k = n /\ o = a)
  BY PresentAddsWork
<1>3. semaphore' = semaphore
  BY PresentAddsWork
<1>4. \A q \in Queues, k \in Positions, o \in Works : Op(q, k, o) => o.owner # imageFrames[i]
  BY <1>1 DEF OneWork, Fenced
<1>5. ASSUME NEW q \in Queues, NEW r \in Queues, NEW j \in Positions, NEW k \in Positions,
             NEW o \in Works, NEW w \in Works, Op(q, j, o)', Op(r, k, w)', o.owner = w.owner
      PROVE  q = r /\ j = k
  BY <1>2, <1>4, <1>5 DEF OneWork
<1>6. ASSUME NEW f \in Frames, semaphore'[Acquired(f)] = "signaled"
      PROVE  \E q \in Queues, k \in Positions, o \in Works : Op(q, k, o)' /\ o.owner = f
  <2>1. CASE \E j \in held : imageFrames[j] = f
    <3>1. imageFrames[i] = f
      BY <1>1, <2>1 DEF HeldOne
    <3> QED
      BY <1>2, <3>1
  <2>2. CASE \E q \in Queues, k \in Positions, o \in Works : Op(q, k, o) /\ o.owner = f
    BY <1>2, <2>2
  <2> QED
    BY <1>3, <1>6, <2>1, <2>2 DEF OneWork
<1> QED
  BY <1>1, <1>5, <1>6 DEF OneWork

LEMMA OneWorkDevice ==
    ASSUME TypeInv, OneWork, DeviceStep
    PROVE  OneWork'
<1>0. HandlesTyped /\ \A o \in Works : o \in Ops
  BY TypeParts, WorksAre
<1>1. PICK p \in Queues, n \in Positions, a \in Ops : Leaves(p, n, a) /\ Executed(a)
  BY DeviceExecutes
<1>2. UNCHANGED <<held, fenceQueued, imageFrames>>
  BY DEF DeviceStep, graphchainVars, slotVars, clientVars
<1>3. ASSUME NEW q \in Queues, NEW r \in Queues, NEW j \in Positions, NEW k \in Positions,
             NEW o \in Works, NEW w \in Works, Op(q, j, o)', Op(r, k, w)', o.owner = w.owner
      PROVE  q = r /\ j = k
  <2>1. PICK x, y \in Positions :
          Op(q, x, o) /\ Op(r, y, w) /\ (q = r /\ x = y => j = k)
    BY <1>0, <1>1, <1>3, LeavesTwo
  <2> QED
    BY <1>3, <2>1 DEF OneWork
<1>4. ASSUME NEW f \in Frames, semaphore'[Acquired(f)] = "signaled"
      PROVE  \/ \E i \in held : imageFrames[i] = f
             \/ \E q \in Queues, k \in Positions, o \in Works : Op(q, k, o)' /\ o.owner = f
  <2>1. semaphore[Acquired(f)] = "signaled" /\ ~(a \in Works /\ a.owner = f)
    <3>1. Acquired(f) \in Semaphores /\ Acquired(f) \notin RenderedSemaphores \cup {None}
      BY SemaphoresAre, NoneAssumption DEF RenderedSemaphores
    <3>2. CASE a \in Works
      <4>1. a.wait = Acquired(a.owner) /\ a.signal \in RenderedSemaphores \cup {None}
        BY <3>2, WorksAre
      <4>2. a \notin Presents /\ a # Signal
        BY <3>2, WorksAre
      <4> QED
        BY <1>1, <1>4, <3>1, <4>1, <4>2 DEF Executed
    <3>3. CASE a \in Presents
      <4>1. a.wait \in RenderedSemaphores /\ a \notin Works /\ a # Signal
        BY <3>3, PresentsAre, SemaphoresAre
      <4> QED
        BY <1>0, <1>1, <1>4, <3>1, <4>1 DEF Executed, HandlesTyped
    <3>4. CASE a = Signal
      BY <1>1, <1>4, <3>4, WorksAre, PresentsAre DEF Executed
    <3> QED
      BY <1>1, <3>2, <3>3, <3>4 DEF Executed
  <2>2. CASE \E q \in Queues, k \in Positions, o \in Works : Op(q, k, o) /\ o.owner = f
    <3>1. PICK q \in Queues, k \in Positions, o \in Works : Op(q, k, o) /\ o.owner = f
      BY <2>2
    <3>2. q # p \/ k # n
      BY <1>0, <1>1, <2>1, <3>1, OpIsOne DEF Leaves
    <3> QED
      BY <1>0, <1>1, <3>1, <3>2, LeavesOthers
  <2> QED
    BY <2>1, <2>2 DEF OneWork
<1> QED
  BY <1>2, <1>3, <1>4 DEF OneWork

LEMMA OneWorkStep ==
    TypeInv /\ Fenced /\ ReuseInv /\ [Next]_vars => OneWork'
<1> SUFFICES ASSUME TypeInv, Fenced, ReuseInv, [Next]_vars PROVE OneWork'
  OBVIOUS
<1>0. HeldOne /\ OneWork /\ OnePresent /\ Paired
  BY DEF ReuseInv
<1>1. CASE Reset \/ ResetFails
  <2>1. FencesWaited /\ held = {} /\ held' = {} /\ semaphore' = semaphore
    BY <1>0, <1>1 DEF Reset, ResetFails, Recreate, RecreateFails, deviceVars, HeldOne
  <2>2. \A q \in Queues, k \in Positions, o \in Works : ~Op(q, k, o) /\ ~Op(q, k, o)'
    BY <1>1, <2>1, NoWorkAtAll, QuietKeeps DEF Quiet, Op
  <2> QED
    BY <1>0, <2>1, <2>2 DEF OneWork
<1>2. CASE \/ SubmitPresentSignal \/ LimitInFlight \/ FinishDrop \/ BeginAcquire
           \/ SetGraphchainInfo \/ DropGraphchain \/ UNCHANGED vars
  BY <1>0, <1>2, OtherSteps DEF OneWork, slotVars
<1> QED
  BY <1>0, <1>1, <1>2, OneWorkAcquires, OneWorkPresents, OneWorkDevice DEF Next, Continue, Call

-----------------------------------------------------------------------------
(* Images                                                                  *)

LEMMA OnePresentInit == Init => OnePresent
BY DEF Init, SwapchainInit, OnePresent, Op

LEMMA OnePresentReset ==
    ASSUME TypeInv, Signaled, Named, HeldOne, OnePresent, Reset \/ ResetFails
    PROVE  OnePresent'
<1>0. StrategyTyped /\ StrategyTyped' /\ HandlesTyped /\ queue' = queue
  BY TypeParts, TypeReset, TypeResetFails, QuietKeeps DEF Quiet
<1>1. held = {} /\ held' = {} /\ pc # "signal"
  BY DEF Reset, ResetFails, HeldOne
<1>2. CASE Reset /\ recreatePending
  <2>1. SignalsWaited /\ taken' = {}
    BY <1>2 DEF Reset, Recreate, RetireOld
  <2>2. \A q \in Queues, k \in Positions, o \in Presents : ~Op(q, k, o)'
    BY <1>0, <1>1, <2>1, NoPresentAtAll DEF Op
  <2> QED
    BY <1>1, <2>1, <2>2 DEF OnePresent
<1>3. CASE ResetFails
  <2>1. UNCHANGED <<taken, engine, live, epoch>>
    BY <1>3 DEF ResetFails, RecreateFails, deviceVars
  <2> QED
    BY <1>0, <1>1, <2>1 DEF OnePresent, Op
<1>4. CASE Reset /\ ~recreatePending
  <2>1. UNCHANGED <<taken, engine, live>> /\ epoch' = epoch + 1
    BY <1>4 DEF Reset, ResetStrategy, deviceVars
  <2>2. ASSUME NEW q \in Queues, NEW k \in Positions, NEW o \in Presents, NEW i \in Images,
               Op(q, k, o)', o.wait = Rendered(epoch', i)
        PROVE  FALSE
    <3>1. Op(q, k, o)
      BY <1>0, <2>2 DEF Op
    <3>2. epoch' <= epoch
      BY <1>0, <2>2, <3>1 DEF Named, StrategyTyped
    <3> QED
      BY <1>0, <2>1, <3>2 DEF StrategyTyped, Epochs
  <2> QED
    BY <1>0, <1>1, <2>1, <2>2 DEF OnePresent, Op
<1> QED
  BY <1>2, <1>3, <1>4

\* An image the engine hands out was neither held nor presented.
LEMMA OnePresentAcquires ==
    ASSUME TypeInv, HeldOne, OnePresent, NEW i \in Images, NEW b \in BOOLEAN, AcquireImage(i, b)
    PROVE  OnePresent' /\ i \notin taken
<1>0. HandlesTyped /\ queue' = queue /\ \A o \in Presents : o.handle \in Handles /\ o.image \in Images
  BY TypeParts, QuietKeeps, PresentsAre DEF Quiet
<1>1. /\ engine[live][i] = "free" /\ engine' = [engine EXCEPT ![live][i] = "acquired"]
      /\ taken' = taken \cup {i} /\ held' = held \cup {i} /\ UNCHANGED <<live, epoch>>
  BY DEF AcquireImage, Acquire
<1>2. i \notin taken
  BY <1>1 DEF OnePresent
<1>3. \A h \in Handles, j \in Images : h # live \/ j # i => engine'[h][j] = engine[h][j]
  BY <1>0, <1>1 DEF HandlesTyped
<1>4. engine'[live][i] = "acquired"
  BY <1>0, <1>1 DEF HandlesTyped
<1>5. \A j \in taken' : engine'[live][j] = "acquired"
  BY <1>0, <1>1, <1>3, <1>4 DEF OnePresent, HandlesTyped
<1>6. \A q \in Queues, k \in Positions, o \in Presents : Op(q, k, o)' =>
        engine'[o.handle][o.image] = "queued"
  BY <1>0, <1>1, <1>3 DEF OnePresent, Op
<1> QED
  BY <1>0, <1>1, <1>2, <1>5, <1>6 DEF OnePresent, Op

LEMMA OnePresentPresents ==
    ASSUME TypeInv, OnePresent, NEW i \in Images, NEW p \in Queues, NEW b \in BOOLEAN,
           PresentImage(i, p, b)
    PROVE  OnePresent'
<1>0. /\ HandlesTyped /\ epoch \in Epochs
      /\ \A o \in Presents : /\ o.handle \in Handles /\ o.image \in Images
                             /\ o \in Ops /\ o \notin Works
  BY TypeParts, PresentsAre DEF StrategyTyped
<1>1. /\ i \in held /\ held' = held \ {i} /\ taken' = taken \ {i} /\ UNCHANGED <<live, epoch>>
      /\ engine' = [engine EXCEPT ![live][i] = "queued"]
  BY DEF PresentImage, PresentFrame, PresentQueued
<1>2. engine[live][i] = "acquired"
  BY <1>1 DEF OnePresent
<1>3. /\ \A h \in Handles, j \in Images : h # live \/ j # i => engine'[h][j] = engine[h][j]
      /\ engine'[live][i] = "queued"
  BY <1>0, <1>1 DEF HandlesTyped
<1>4. PICK n \in Positions, a \in Works, c \in Presents :
        /\ JoinBoth(p, n, a, c)
        /\ c.handle = live /\ c.image = i /\ c.wait = Rendered(epoch, i)
  BY PresentImageJoins, OpsAre
<1>5. \A q \in Queues, k \in Positions, o \in Presents :
        Op(q, k, o)' <=> Op(q, k, o) \/ (q = p /\ k = n + 1 /\ o = c)
  BY <1>0, <1>4 DEF JoinBoth
<1>6. \A q \in Queues, k \in Positions, o \in Presents :
        Op(q, k, o) => o.handle # live \/ o.image # i
  BY <1>2 DEF OnePresent
<1>7. \A j \in taken' : engine'[live][j] = "acquired"
  BY <1>0, <1>1, <1>3 DEF OnePresent, HandlesTyped
<1>8. \A q \in Queues, k \in Positions, o \in Presents : Op(q, k, o)' =>
        engine'[o.handle][o.image] = "queued"
  BY <1>0, <1>3, <1>4, <1>5, <1>6 DEF OnePresent
<1>9. ASSUME NEW q \in Queues, NEW r \in Queues, NEW j \in Positions, NEW k \in Positions,
             NEW o \in Presents, NEW w \in Presents, Op(q, j, o)', Op(r, k, w)',
             o.handle = w.handle, o.image = w.image
      PROVE  q = r /\ j = k
  BY <1>4, <1>5, <1>6, <1>9 DEF OnePresent
<1>10. ASSUME NEW q \in Queues, NEW k \in Positions, NEW o \in Presents, NEW j \in Images,
              Op(q, k, o)', o.wait = Rendered(epoch, j)
       PROVE  o.handle = live
  BY <1>4, <1>5, <1>10 DEF OnePresent
<1> QED
  BY <1>1, <1>7, <1>8, <1>9, <1>10 DEF OnePresent

LEMMA OnePresentDevice ==
    ASSUME TypeInv, OnePresent, DeviceStep
    PROVE  OnePresent'
<1>0. /\ HandlesTyped
      /\ \A o \in Presents : /\ o.handle \in Handles /\ o.image \in Images
                             /\ o \in Ops /\ o \notin Works /\ o # Signal
  BY TypeParts, PresentsAre
<1>1. PICK p \in Queues, n \in Positions, a \in Ops : Leaves(p, n, a) /\ Executed(a)
  BY DeviceExecutes
<1>2. UNCHANGED <<held, taken, live, epoch>>
  BY DeviceTakes DEF hostVars, graphchainVars, strategyVars, clientVars
<1>3. ASSUME NEW q \in Queues, NEW r \in Queues, NEW j \in Positions, NEW k \in Positions,
             NEW o \in Presents, NEW w \in Presents, Op(q, j, o)', Op(r, k, w)',
             o.handle = w.handle, o.image = w.image
      PROVE  q = r /\ j = k
  <2>1. PICK x, y \in Positions :
          Op(q, x, o) /\ Op(r, y, w) /\ (q = r /\ x = y => j = k)
    BY <1>0, <1>1, <1>3, LeavesTwo
  <2> QED
    BY <1>3, <2>1 DEF OnePresent
<1>4. \A q \in Queues, k \in Positions, o \in Presents : Op(q, k, o)' =>
        \E m \in Positions : /\ Op(q, m, o) /\ (q # p \/ m # n)
  <2> SUFFICES ASSUME NEW q \in Queues, NEW k \in Positions, NEW o \in Presents, Op(q, k, o)'
               PROVE  \E m \in Positions : Op(q, m, o) /\ (q # p \/ m # n)
    OBVIOUS
  <2>1. PICK m \in Positions : Op(q, m, o) /\ m = IF q # p \/ k < n THEN k ELSE k + 1
    BY <1>0, <1>1, LeavesFrom
  <2> QED
    BY <2>1 DEF Positions
<1>5. \A q \in Queues, k \in Positions, o \in Presents, i \in Images :
        Op(q, k, o)' /\ o.wait = Rendered(epoch, i) => o.handle = live
  BY <1>4 DEF OnePresent
<1>6. CASE a \notin Presents
  <2>1. engine' = engine
    BY <1>1, <1>6 DEF Executed
  <2> QED
    BY <1>2, <1>3, <1>4, <1>5, <2>1 DEF OnePresent
<1>7. CASE a \in Presents
  <2>1. engine' = [engine EXCEPT ![a.handle] = [i \in Images |->
            IF i = a.image THEN "shown" ELSE IF @[i] = "shown" THEN "free" ELSE @[i]]]
    BY <1>0, <1>1, <1>7 DEF Executed
  <2>2. \A h \in Handles, i \in Images :
          (h # a.handle \/ i # a.image) /\ engine[h][i] # "shown" => engine'[h][i] = engine[h][i]
    BY <1>0, <1>7, <2>1 DEF HandlesTyped
  <2>3. Op(p, n, a) /\ engine[a.handle][a.image] = "queued"
    BY <1>1, <1>7 DEF Leaves, OnePresent
  <2>4. \A i \in taken : engine'[live][i] = "acquired"
    <3> SUFFICES ASSUME NEW i \in taken PROVE engine'[live][i] = "acquired"
      OBVIOUS
    <3>1. engine[live][i] = "acquired" /\ i \in Images /\ live \in Handles
      BY <1>0 DEF OnePresent, HandlesTyped
    <3>2. live # a.handle \/ i # a.image
      BY <2>3, <3>1
    <3> QED
      BY <2>2, <3>1, <3>2
  <2>5. ASSUME NEW q \in Queues, NEW k \in Positions, NEW o \in Presents, Op(q, k, o)'
        PROVE  engine'[o.handle][o.image] = "queued"
    <3>1. PICK m \in Positions : Op(q, m, o) /\ (q # p \/ m # n)
      BY <1>4, <2>5
    <3>2. o.handle # a.handle \/ o.image # a.image
      BY <1>7, <2>3, <3>1 DEF OnePresent
    <3>3. engine[o.handle][o.image] = "queued"
      BY <3>1 DEF OnePresent
    <3> QED
      BY <1>0, <2>2, <3>2, <3>3
  <2> QED
    BY <1>2, <1>3, <1>5, <2>4, <2>5 DEF OnePresent
<1> QED
  BY <1>6, <1>7

LEMMA OnePresentStep ==
    TypeInv /\ Signaled /\ Named /\ ReuseInv /\ [Next]_vars => OnePresent'
<1> SUFFICES ASSUME TypeInv, Signaled, Named, ReuseInv, [Next]_vars PROVE OnePresent'
  OBVIOUS
<1>0. HeldOne /\ OneWork /\ OnePresent /\ Paired /\ \A o \in Presents : o \in Ops /\ o \notin Works
  BY PresentsAre DEF ReuseInv
<1>1. CASE \E b \in BOOLEAN : AcquireNothing(b)
  <2>1. UNCHANGED <<held, taken, live, epoch, engine, queue>>
    BY <1>1 DEF AcquireNothing, AcquireFails, deviceVars
  <2> QED
    BY <1>0, <2>1 DEF OnePresent, Op
<1>2. CASE \/ SubmitPresentSignal \/ LimitInFlight \/ FinishDrop \/ BeginAcquire
           \/ SetGraphchainInfo \/ DropGraphchain \/ UNCHANGED vars
  BY <1>0, <1>2, OtherSteps DEF OnePresent
<1>3. ASSUME NEW i \in Images, NEW p \in Queues, PresentImageFails(i, p)
      PROVE  OnePresent'
  <2>1. UNCHANGED <<taken, live, epoch, engine>> /\ held' \subseteq held
    BY <1>3 DEF PresentImageFails, PresentFrame, PresentRejected
  <2>2. \A q \in Queues, k \in Positions, o \in Presents : Op(q, k, o)' <=> Op(q, k, o)
    BY <1>0, <1>3, PresentImageRejects DEF Rejects
  <2> QED
    BY <1>0, <2>1, <2>2 DEF OnePresent
<1> QED
  BY <1>0, <1>1, <1>2, <1>3, OnePresentReset, OnePresentAcquires, OnePresentPresents,
     OnePresentDevice DEF Next, Continue, Call

-----------------------------------------------------------------------------
(* Rendered semaphores                                                     *)

LEMMA PairedInit == Init => Paired
<1> HAVE Init
<1>1. \A s \in Semaphores : semaphore[s] = "idle"
  BY DEF Init, SwapchainInit
<1>2. \A q \in Queues, k \in Positions, o \in Ops : ~Op(q, k, o)
  BY DEF Init, SwapchainInit, Op
<1>3. \A o \in Works \cup Presents : o \in Ops
  BY WorksAre, PresentsAre
<1> QED
  BY <1>1, <1>2, <1>3, SemaphoresAre DEF Paired

LEMMA PairedReset ==
    ASSUME TypeInv, Fenced, Signaled, Paired, Reset \/ ResetFails
    PROVE  Paired'
<1>1. FencesWaited /\ queue' = queue /\ semaphore' = semaphore
  BY QuietKeeps DEF Quiet, Reset, Recreate, ResetFails, RecreateFails, deviceVars
<1>2. \A q \in Queues, k \in Positions, o \in Works : ~Op(q, k, o)'
  BY <1>1, NoWorkAtAll DEF Op
<1> QED
  BY <1>1, <1>2 DEF Paired, Op

LEMMA PairedPresents ==
    ASSUME TypeInv, OnePresent, Paired, NEW i \in Images, NEW p \in Queues, NEW b \in BOOLEAN,
           PresentImage(i, p, b)
    PROVE  Paired'
<1>0. /\ i \in held /\ HandlesTyped
      /\ \A o \in Presents : o \in Ops /\ o \notin Works
      /\ \A o \in Works : o \in Ops /\ o \notin Presents
  BY TypeParts, WorksAre, PresentsAre DEF PresentImage, PresentFrame
<1>1. PICK s : s = Rendered(epoch, i)
  OBVIOUS
<1>2. /\ semaphore[s] = "idle"
      /\ \A q \in Queues, k \in Positions, o \in Presents : Op(q, k, o) => o.wait # s
      /\ \A q \in Queues, k \in Positions, o \in Works : Op(q, k, o) => o.signal # s
  BY <1>0, <1>1, RenderedIdle
<1>3. PICK n \in Positions, a \in Works, c \in Presents :
        JoinBoth(p, n, a, c) /\ a.signal = s /\ c.wait = s
  BY <1>1, PresentImageJoins, OpsAre
<1>4. /\ \A q \in Queues, k \in Positions, o \in Works :
            Op(q, k, o)' <=> Op(q, k, o) \/ (q = p /\ k = n /\ o = a)
      /\ \A q \in Queues, k \in Positions, o \in Presents :
            Op(q, k, o)' <=> Op(q, k, o) \/ (q = p /\ k = n + 1 /\ o = c)
  BY <1>0, <1>3 DEF JoinBoth
<1>5. semaphore' = semaphore
  BY DEF PresentImage, PresentQueued
<1>6. n + 1 \in Positions
  BY DEF Positions
<1>7. Op(p, n + 1, c)'
  <2>1. PICK m \in Positions : m = n + 1
    BY <1>6
  <2>2. Op(p, m, c)'
    BY <1>4, <2>1
  <2> QED
    BY <2>1, <2>2
<1>8. ASSUME NEW q \in Queues, NEW r \in Queues, NEW j \in Positions, NEW k \in Positions,
             NEW o \in Works, NEW w \in Works, Op(q, j, o)', Op(r, k, w)',
             o.signal = w.signal, o.signal # None
      PROVE  q = r /\ j = k
  BY <1>2, <1>3, <1>4, <1>8 DEF Paired
<1>9. ASSUME NEW q \in Queues, NEW r \in Queues, NEW j \in Positions, NEW k \in Positions,
             NEW o \in Presents, NEW w \in Presents, Op(q, j, o)', Op(r, k, w)', o.wait = w.wait
      PROVE  q = r /\ j = k
  BY <1>2, <1>3, <1>4, <1>9 DEF Paired
<1>10. ASSUME NEW q \in Queues, NEW k \in Positions, NEW o \in Works, Op(q, k, o)',
              o.signal # None
       PROVE  /\ semaphore'[o.signal] = "idle"
              /\ \E r \in Queues, j \in Positions, w \in Presents :
                    Op(r, j, w)' /\ w.wait = o.signal
  <2>1. CASE Op(q, k, o)
    BY <1>4, <1>5, <1>10, <2>1 DEF Paired
  <2>2. CASE o = a
    BY <1>2, <1>3, <1>5, <1>6, <1>7, <2>2
  <2> QED
    BY <1>4, <1>10, <2>1, <2>2
<1> QED
  BY <1>4, <1>5, <1>8, <1>9, <1>10 DEF Paired

LEMMA PairedRejects ==
    ASSUME TypeInv, OnePresent, Paired, NEW i \in Images, NEW p \in Queues,
           PresentImageFails(i, p)
    PROVE  Paired'
<1>0. /\ \A o \in Presents : o \in Ops /\ o \notin Works
      /\ \A o \in Works : o \in Ops /\ o \notin Presents
  BY WorksAre, PresentsAre
<1>1. PICK n \in Positions, a \in Works : Joins(p, n, a) /\ a.signal = None
  BY RejectJoins, OpsAre
<1>2. /\ \A q \in Queues, k \in Positions, o \in Works :
            Op(q, k, o)' <=> Op(q, k, o) \/ (q = p /\ k = n /\ o = a)
      /\ \A q \in Queues, k \in Positions, o \in Presents : Op(q, k, o)' <=> Op(q, k, o)
  BY <1>0, <1>1 DEF Joins
<1>3. semaphore' = semaphore
  BY RejectJoins
<1>4. \A q \in Queues, k \in Positions, o \in Works :
        Op(q, k, o)' /\ o.signal # None => Op(q, k, o)
  BY <1>1, <1>2
<1> QED
  BY <1>2, <1>3, <1>4 DEF Paired

LEMMA PairedDevice ==
    ASSUME TypeInv, Paired, DeviceStep
    PROVE  Paired'
<1>0. /\ HandlesTyped
      /\ \A o \in Presents : /\ o \in Ops /\ o \notin Works /\ o # Signal
                             /\ o.wait \in RenderedSemaphores
      /\ \A o \in Works : /\ o \in Ops /\ o \notin Presents /\ o # Signal
                          /\ o.signal \in RenderedSemaphores \cup {None}
                          /\ o.wait \in Semaphores \ RenderedSemaphores
      /\ RenderedSemaphores \subseteq Semaphores /\ None \notin RenderedSemaphores
  <2>1. \A f \in Frames : Acquired(f) \in Semaphores \ RenderedSemaphores
    BY SemaphoresAre DEF RenderedSemaphores
  <2> QED
    BY <2>1, TypeParts, WorksAre, PresentsAre, SemaphoresAre
<1>1. PICK p \in Queues, n \in Positions, a \in Ops : Leaves(p, n, a) /\ Executed(a)
  BY DeviceExecutes
<1>2. ASSUME NEW q \in Queues, NEW r \in Queues, NEW j \in Positions, NEW k \in Positions,
             NEW o \in Works, NEW w \in Works, Op(q, j, o)', Op(r, k, w)',
             o.signal = w.signal, o.signal # None
      PROVE  q = r /\ j = k
  <2>1. PICK x, y \in Positions :
          Op(q, x, o) /\ Op(r, y, w) /\ (q = r /\ x = y => j = k)
    BY <1>0, <1>1, <1>2, LeavesTwo
  <2> QED
    BY <1>2, <2>1 DEF Paired
<1>3. ASSUME NEW q \in Queues, NEW r \in Queues, NEW j \in Positions, NEW k \in Positions,
             NEW o \in Presents, NEW w \in Presents, Op(q, j, o)', Op(r, k, w)', o.wait = w.wait
      PROVE  q = r /\ j = k
  <2>1. PICK x, y \in Positions :
          Op(q, x, o) /\ Op(r, y, w) /\ (q = r /\ x = y => j = k)
    BY <1>0, <1>1, <1>3, LeavesTwo
  <2> QED
    BY <1>3, <2>1 DEF Paired
\* A present that the step does not execute is still there.
<1>4. ASSUME NEW s, \E q \in Queues, k \in Positions, o \in Presents : Op(q, k, o) /\ o.wait = s,
             a \in Presents => a.wait # s
      PROVE  \E q \in Queues, k \in Positions, o \in Presents : Op(q, k, o)' /\ o.wait = s
  <2>1. PICK q \in Queues, k \in Positions, o \in Presents : Op(q, k, o) /\ o.wait = s
    BY <1>4
  <2>2. q # p \/ k # n
    BY <1>0, <1>1, <1>4, <2>1, OpIsOne DEF Leaves
  <2> QED
    BY <1>0, <1>1, <2>1, <2>2, LeavesOthers
<1>5. ASSUME NEW q \in Queues, NEW k \in Positions, NEW o \in Works, Op(q, k, o)',
             o.signal # None
      PROVE  /\ semaphore'[o.signal] = "idle"
             /\ \E r \in Queues, j \in Positions, w \in Presents :
                    Op(r, j, w)' /\ w.wait = o.signal
  <2>1. PICK m \in Positions : Op(q, m, o) /\ m = IF q # p \/ k < n THEN k ELSE k + 1
    BY <1>0, <1>1, <1>5, LeavesFrom
  <2>2. q # p \/ m # n
    BY <2>1 DEF Positions
  <2>3. /\ semaphore[o.signal] = "idle" /\ o.signal \in RenderedSemaphores
        /\ \E r \in Queues, j \in Positions, w \in Presents : Op(r, j, w) /\ w.wait = o.signal
    BY <1>0, <1>5, <2>1 DEF Paired
  <2>4. a \in Presents => a.wait # o.signal
    BY <1>0, <1>1, <2>3 DEF Executed
  <2>5. a \in Works => a.signal # o.signal
    BY <1>1, <1>5, <2>1, <2>2 DEF Leaves, Paired
  <2>6. semaphore'[o.signal] = "idle"
    <3>1. CASE a \in Works
      BY <1>0, <1>1, <2>3, <2>5, <3>1 DEF Executed
    <3>2. CASE a \in Presents
      BY <1>0, <1>1, <2>3, <2>4, <3>2 DEF Executed, HandlesTyped
    <3>3. CASE a = Signal
      BY <1>0, <1>1, <2>3, <3>3 DEF Executed
    <3> QED
      BY <1>1, <3>1, <3>2, <3>3 DEF Executed
  <2> QED
    BY <1>4, <2>3, <2>4, <2>6
<1>6. ASSUME NEW e \in Epochs, NEW i \in Images, semaphore'[Rendered(e, i)] = "signaled"
      PROVE  \E r \in Queues, j \in Positions, w \in Presents :
                Op(r, j, w)' /\ w.wait = Rendered(e, i)
  <2>1. PICK s \in RenderedSemaphores : s = Rendered(e, i)
    BY SemaphoresAre
  <2>2. a \in Presents => a.wait # s
    <3>1. HAVE a \in Presents
    <3>2. semaphore' = [semaphore EXCEPT ![a.wait] = "idle"]
      BY <1>0, <1>1, <3>1 DEF Executed
    <3> QED
      BY <1>0, <1>6, <2>1, <3>1, <3>2 DEF HandlesTyped
  <2>3. \E q \in Queues, k \in Positions, o \in Presents : Op(q, k, o) /\ o.wait = s
    <3>1. CASE semaphore[s] = "signaled"
      BY <2>1, <3>1 DEF Paired
    <3>2. CASE a \in Works /\ a.signal = s
      BY <1>0, <1>1, <3>2 DEF Leaves, Paired
    <3>3. semaphore[s] = "signaled" \/ (a \in Works /\ a.signal = s)
      <4>1. CASE a \in Works
        BY <1>0, <1>1, <1>6, <2>1, <4>1 DEF Executed
      <4>2. CASE a \in Presents
        BY <1>0, <1>1, <1>6, <2>1, <2>2, <4>2 DEF Executed, HandlesTyped
      <4>3. CASE a = Signal
        BY <1>0, <1>1, <1>6, <2>1, <4>3 DEF Executed
      <4> QED
        BY <1>1, <4>1, <4>2, <4>3 DEF Executed
    <3> QED
      BY <3>1, <3>2, <3>3
  <2> QED
    BY <1>4, <2>1, <2>2, <2>3
<1> QED
  BY <1>2, <1>3, <1>5, <1>6 DEF Paired

LEMMA PairedStep ==
    TypeInv /\ Fenced /\ Signaled /\ ReuseInv /\ [Next]_vars => Paired'
<1> SUFFICES ASSUME TypeInv, Fenced, Signaled, ReuseInv, [Next]_vars PROVE Paired'
  OBVIOUS
<1>0. OnePresent /\ Paired
  BY DEF ReuseInv
<1>1. CASE \/ \E i \in Images, b \in BOOLEAN : AcquireImage(i, b)
           \/ \E b \in BOOLEAN : AcquireNothing(b)
  <2>1. PICK f \in Frames : f = NextFrame
    BY SlotCounts
  <2>2. queue' = queue
    BY <1>1, QuietKeeps DEF Quiet
  <2>3. semaphore' = semaphore \/ semaphore' = [semaphore EXCEPT ![Acquired(f)] = "signaled"]
    BY <1>1, <2>1 DEF AcquireImage, Acquire, AcquireNothing, AcquireFails, deviceVars
  <2>4. HandlesTyped /\ \A s \in RenderedSemaphores : s \in Semaphores /\ s # Acquired(f)
    BY TypeParts, SemaphoresAre DEF RenderedSemaphores
  <2>5. \A s \in RenderedSemaphores : semaphore'[s] = semaphore[s]
    BY <2>3, <2>4 DEF HandlesTyped
  <2>6. /\ \A o \in Works : o.signal \in RenderedSemaphores \cup {None}
        /\ \A e \in Epochs, i \in Images : Rendered(e, i) \in RenderedSemaphores
    BY WorksAre, SemaphoresAre
  <2> QED
    BY <1>0, <2>2, <2>5, <2>6 DEF Paired, Op
<1>2. CASE \/ SubmitPresentSignal \/ LimitInFlight \/ FinishDrop \/ BeginAcquire
           \/ SetGraphchainInfo \/ DropGraphchain \/ UNCHANGED vars
  BY <1>0, <1>2, OtherSteps DEF Paired
<1> QED
  BY <1>0, <1>1, <1>2, PairedReset, PairedPresents, PairedRejects, PairedDevice
     DEF Next, Continue, Call

-----------------------------------------------------------------------------
(* What follows                                                            *)

LEMMA ReuseInvariance ==
    ASSUME MaxHeld = 1
    PROVE  Spec => []ReuseInv
<1>1. Init => ReuseInv
  BY HeldOneInit, OneWorkInit, OnePresentInit, PairedInit DEF ReuseInv
<1>2. Inv /\ ReuseInv /\ [Next]_vars => ReuseInv'
  BY HeldOneStep, OneWorkStep, OnePresentStep, PairedStep DEF Inv, ReuseInv
<1> QED
  BY <1>1, <1>2, Invariance, PTL DEF Spec

\* A slot's command buffer is in one place of one queue at most.
THEOREM CommandBuffersNotPending ==
    ASSUME MaxHeld = 1
    PROVE  Spec => []CommandBufferNotPending
<1>1. Inv /\ ReuseInv => CommandBufferNotPending
  <2> HAVE Inv /\ ReuseInv
  <2>1. PICK Q \in [Queues -> Seq(Ops)] : Q = queue
    BY DEF Inv, TypeInv
  <2>2. ASSUME NEW p \in Queues, NEW q \in Queues, NEW j \in DOMAIN Q[p], NEW k \in DOMAIN Q[q],
               Q[p][j].kind = "work", Q[q][k].kind = "work", Q[p][j].owner = Q[q][k].owner
        PROVE  p = q /\ j = k
    <3>1. j \in Positions /\ k \in Positions /\ Q[p][j] \in Ops /\ Q[q][k] \in Ops
      BY QueueKinds
    <3>2. PICK o, w \in Ops : o = Q[p][j] /\ w = Q[q][k]
      BY <3>1
    <3>3. o \in Works /\ w \in Works
      BY <2>2, <3>2, KindsAre
    <3> QED
      BY <2>1, <2>2, <3>1, <3>2, <3>3 DEF ReuseInv, OneWork, Op
  <2> QED
    BY <2>1, <2>2 DEF CommandBufferNotPending
<1> QED
  BY <1>1, Invariance, ReuseInvariance, PTL

\* A command buffer that finishes signals a semaphore that is not signaled yet.
THEOREM RenderedSignaledOnce ==
    ASSUME MaxHeld = 1
    PROVE  Spec => []RenderedNotSignaledTwice
<1>1. Inv /\ ReuseInv => RenderedNotSignaledTwice
  <2> SUFFICES ASSUME Inv, ReuseInv, NEW q \in Queues, NEW k \in DOMAIN queue[q],
                      WorkReady(q, k), queue[q][k].signal # None
               PROVE  semaphore[queue[q][k].signal] = "idle"
    BY DEF RenderedNotSignaledTwice
  <2>1. PICK Q \in [Queues -> Seq(Ops)] : Q = queue
    BY DEF Inv, TypeInv
  <2>2. PICK o \in Ops : o = queue[q][k]
    BY <2>1, QueueKinds
  <2>3. k \in Positions
    BY <2>1, QueueKinds
  <2>4. o \in Works
    BY <2>2, KindsAre DEF WorkReady
  <2> QED
    BY <2>2, <2>3, <2>4 DEF ReuseInv, Paired, Op
<1> QED
  BY <1>1, Invariance, ReuseInvariance, PTL

\* The semaphore of an acquisition is not signaled, and nothing will wait for it.
THEOREM AcquiresSafely ==
    ASSUME MaxHeld = 1
    PROVE  Spec => AcquiresWithIdleSemaphore
<1>1. Inv /\ ReuseInv /\ [Next]_vars =>
        [\A i \in taken' \ taken :
            LET s == Acquired(imageFrames'[i])
            IN  semaphore[s] = "idle" /\ \A op \in Unfinished : ~Waits(op, s)]_vars
  <2> SUFFICES ASSUME Inv, ReuseInv, [Next]_vars, NEW i \in taken' \ taken
               PROVE  /\ semaphore[Acquired(imageFrames'[i])] = "idle"
                      /\ \A op \in Unfinished : ~Waits(op, Acquired(imageFrames'[i]))
    OBVIOUS
  <2>0. TypeInv /\ Fenced /\ HeldOne /\ OneWork
    BY DEF Inv, ReuseInv
  <2>1. PICK n \in Images, b \in BOOLEAN : AcquireImage(n, b)
    <3>1. ~(Reset \/ ResetFails)
      BY DEF Reset, Recreate, ResetFails, RecreateFails
    <3>2. ~Presented
      BY DEF Presented, PresentImageFails, PresentImage, PresentRejected, PresentQueued
    <3>3. ~(DeviceStep \/ \E b \in BOOLEAN : AcquireNothing(b))
      BY <2>0, DeviceTakes DEF hostVars, AcquireNothing, AcquireFails
    <3>4. ~(\/ SubmitPresentSignal \/ LimitInFlight \/ FinishDrop \/ BeginAcquire
            \/ SetGraphchainInfo \/ DropGraphchain \/ UNCHANGED vars)
      BY <2>0, OtherSteps
    <3> QED
      BY <3>1, <3>2, <3>3, <3>4 DEF Next, Continue, Call, Presented
  <2>2. HandlesTyped /\ SlotsTyped /\ queue \in [Queues -> Seq(Ops)]
    BY <2>0, TypeParts
  <2>3. PICK f \in Frames : f = NextFrame
    BY <2>0, SlotCounts
  <2>4. /\ i = n /\ imageFrames' = [imageFrames EXCEPT ![n] = f] /\ SlotFree(f) /\ held = {}
    BY <2>0, <2>1, <2>3 DEF AcquireImage, Acquire, HeldOne
  <2>5. imageFrames'[i] = f
    BY <2>2, <2>4 DEF SlotsTyped
  <2>6. \A q \in Queues, k \in Positions, o \in Works : Op(q, k, o) => o.owner # f
    BY <2>0, <2>4, NoWorkIn
  <2>7. semaphore[Acquired(f)] = "idle"
    <3>1. semaphore[Acquired(f)] # "signaled"
      BY <2>0, <2>4, <2>6 DEF OneWork
    <3> QED
      BY <2>2, <3>1, SemaphoresAre DEF HandlesTyped
  <2>8. ASSUME NEW op \in Unfinished
        PROVE  ~Waits(op, Acquired(f))
    <3>1. PICK q \in Queues, k \in Positions : Op(q, k, op) /\ op \in Ops
      BY <2>2, UnfinishedAre
    <3>2. CASE op \in Works
      <4>1. op.owner # f /\ op.owner \in Frames /\ op.wait = Acquired(op.owner)
        BY <2>6, <3>1, <3>2, WorksAre
      <4> QED
        BY <4>1, SemaphoresAre DEF Waits
    <3>3. CASE op \in Presents
      BY <3>3, PresentsAre, SemaphoresAre DEF Waits
    <3>4. CASE op = Signal
      BY <3>4, OpsAre DEF Waits
    <3> QED
      BY <3>1, <3>2, <3>3, <3>4 DEF Ops
  <2> QED
    BY <2>5, <2>7, <2>8
<1> QED
  BY <1>1, Invariance, ReuseInvariance, PTL DEF Spec, AcquiresWithIdleSemaphore

\* The slot of an image that the engine returns is not empty.  Builds with debug assertions
\* are covered with present wait only: without it a rejected present does fail one.
THEOREM AssertionsHold ==
    ASSUME MaxHeld = 1, DebugAssertions => PresentWait = {TRUE}
    PROVE  Spec => []NoAssertionFails
<1>1. Init => NoAssertionFails
  BY DEF Init, SwapchainInit, NoAssertionFails
<1>2. Inv /\ ReuseInv /\ NoAssertionFails /\ [Next]_vars => NoAssertionFails'
  <2> SUFFICES ASSUME Inv, ReuseInv, ~panicked, [Next]_vars PROVE ~panicked'
    BY DEF NoAssertionFails
  <2>0. TypeInv /\ HeldOne /\ OnePresent
    BY DEF Inv, ReuseInv
  <2>1. ASSUME NEW i \in Images, NEW b \in BOOLEAN, AcquireImage(i, b)
        PROVE  ~panicked'
    BY <2>0, <2>1, OnePresentAcquires DEF AcquireImage, Acquire
  <2>2. CASE Presented
    <3>1. DebugAssertions => usePresentWait
      <4>1. usePresentWait \in PresentWait
        BY <2>0, TypeParts DEF HandlesTyped
      <4>2. HAVE DebugAssertions
      <4>3. PresentWait = {TRUE}
        BY <4>2
      <4>4. usePresentWait = TRUE
        BY <4>1, <4>3
      <4> QED
        BY <4>4
    <3> QED
      BY <2>2, <3>1 DEF Presented, PresentImageFails, PresentRejected, PresentImage,
         PresentQueued
  <2>3. CASE Reset \/ ResetFails
    BY <2>3 DEF Reset, Recreate, ResetFails, RecreateFails
  <2>4. CASE DeviceStep \/ \E b \in BOOLEAN : AcquireNothing(b)
    BY <2>0, <2>4, DeviceTakes DEF hostVars, AcquireNothing, AcquireFails
  <2>5. CASE \/ SubmitPresentSignal \/ LimitInFlight \/ FinishDrop \/ BeginAcquire
             \/ SetGraphchainInfo \/ DropGraphchain \/ UNCHANGED vars
    BY <2>0, <2>5, OtherSteps
  <2> QED
    BY <2>1, <2>2, <2>3, <2>4, <2>5 DEF Next, Continue, Call, Presented
<1> QED
  BY <1>1, <1>2, Invariance, ReuseInvariance, PTL DEF Spec
=============================================================================
