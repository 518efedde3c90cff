------------------------- MODULE QueueOwnershipProofs -------------------------
(***************************************************************************)
(* Theorems about QueueOwnership, for any number of submissions, ranges,   *)
(* queues, queue families and command buffers: types, execution tracking,  *)
(* exclusive waits, and that no range of an exclusive resource loses its   *)
(* contents on its way between queues.                                     *)
(*                                                                         *)
(* For the contents: the host decides from the owner it has published,     *)
(* while the GPU is many batches behind.  The invariant says who uses a    *)
(* range, in which order the GPU gets to them (Before), that each gets it  *)
(* from the last one before it (Sources), where it is when nobody is       *)
(* before (Places), and that the published owner is where the last one     *)
(* leaves it (OwnerKnown).                                                 *)
(***************************************************************************)
EXTENDS QueueOwnership, SequenceTheorems, TLAPS

-----------------------------------------------------------------------------
(* What is on the queues                                                   *)

BatchesOf(q) == {gpuQueue[q][i] : i \in DOMAIN gpuQueue[q]}
Work == UNION {BatchesOf(q) : q \in Queues}

Mains == {b \in Work : b.cb = Nil}
Releases == {b \in Work : b.cb # Nil}

\* b is queued behind a.
Behind(a, b) ==
    \E q \in Queues : \E i, j \in DOMAIN gpuQueue[q] :
        i < j /\ gpuQueue[q][i] = a /\ gpuQueue[q][j] = b

\* A submission has one main command buffer, and one release for each command
\* buffer that it leased.
BatchesDistinct ==
    \A p, q \in Queues : \A i \in DOMAIN gpuQueue[p], j \in DOMAIN gpuQueue[q] :
        /\ gpuQueue[p][i].of = gpuQueue[q][j].of
        /\ gpuQueue[p][i].cb = gpuQueue[q][j].cb
        => p = q /\ i = j

-----------------------------------------------------------------------------
(* Command buffers and semaphores                                          *)

Unsent(s) == stage[s] \in {"new", "recording", "finishing", "recorded"}
Sent(s) == stage[s] \in {"sent", "attached"}

\* A command buffer is leased to one submission, or cached, or yet to be created.
LeasedOnce ==
    /\ \A s, t \in Submissions : s # t => leases[s] \cap leases[t] = {}
    /\ \A s \in Submissions : leases[s] \cap cache = {}
    /\ \A s \in Submissions : \A cb \in leases[s] : home[cb] # Nil
    /\ \A cb \in cache : home[cb] # Nil

\* A submission leases for what it has released, waits for all of it once it is
\* recorded, and holds it until it is executed.
WaitsForLeases ==
    \A s \in Submissions :
        /\ stage[s] \in {"new", "recording"} => released[s] = {} /\ leases[s] = {}
        /\ Unsent(s) /\ leases[s] = {} => released[s] = {}
        /\ stage[s] \in {"recorded", "sent"} => waits[s] = leases[s]
        /\ stage[s] \notin {"recorded", "sent"} => waits[s] = {}
        /\ stage[s] \in {"discarded", "dropped"} /\ leases[s] # {} => s \in executed

\* Whatever is sent is queued until it is executed.
SentIsQueued ==
    \A s \in Submissions :
        /\ Sent(s) /\ s \notin executed =>
              \E b \in Mains : b.of = s
        /\ s \in executed => ~Unsent(s)

MainsMatch ==
    \A q \in Queues : \A b \in BatchesOf(q) : b.cb = Nil =>
        /\ Sent(b.of) /\ b.of \notin executed
        /\ target[b.of] = q
        /\ b.ranges = claims[b.of]
        /\ b.waits = leases[b.of]
        /\ b.of \notin b.after
        /\ \A t \in b.after : ~Unsent(t)

ReleasesMatch ==
    \A q \in Queues : \A b \in BatchesOf(q) : b.cb # Nil =>
        /\ stage[b.of] \in {"finishing", "recorded", "sent", "attached"}
        /\ b.of \notin executed
        /\ b.cb \in leases[b.of]
        /\ q \in released[b.of]
        /\ b.ranges = groups[b.of][q]
        /\ semaphore[b.cb] = "signaling"

\* The semaphore of a leased command buffer is not free before the submission that
\* leased it is executed, all others are free.
SemaphoresFree ==
    \A cb \in CmdBufs :
        semaphore[cb] = "unsignaled" <=> \A s \in Submissions \ executed : cb \notin leases[s]

LeaseInv ==
    /\ TypeOK
    /\ BatchesDistinct
    /\ LeasedOnce
    /\ WaitsForLeases
    /\ SentIsQueued
    /\ MainsMatch
    /\ ReleasesMatch
    /\ SemaphoresFree

-----------------------------------------------------------------------------
(* Queues                                                                  *)

LEMMA QueueType ==
    ASSUME TypeOK, NEW q \in Queues
    PROVE  /\ gpuQueue[q] \in Seq(Batch)
           /\ \A i \in DOMAIN gpuQueue[q] : gpuQueue[q][i] \in Batch
<1>1. gpuQueue[q] \in Seq(Batch)
  BY DEF TypeOK
<1> QED
  BY <1>1

LEMMA WorkType ==
    ASSUME TypeOK
    PROVE  /\ \A b \in Work : /\ b \in Batch
                              /\ b.of \in Submissions
                              /\ b.cb \in CmdBufs \cup {Nil}
                              /\ b.waits \subseteq CmdBufs
                              /\ b.after \subseteq Submissions
                              /\ b.ranges \subseteq Ranges
           /\ \A q \in Queues : BatchesOf(q) \subseteq Work
<1>1. \A b \in Work : b \in Batch
  BY QueueType DEF Work, BatchesOf
<1> QED
  BY <1>1 DEF Batch, Work

\* What appending a batch changes.
LEMMA AppendWork ==
    ASSUME TypeOK, NEW q \in Queues, NEW b \in Batch,
           gpuQueue' = [gpuQueue EXCEPT ![q] = Append(@, b)]
    PROVE  /\ gpuQueue' \in [Queues -> Seq(Batch)]
           /\ \A p \in Queues : BatchesOf(p)' = IF p = q THEN BatchesOf(q) \cup {b} ELSE BatchesOf(p)
           /\ Work' = Work \cup {b}
           /\ \A a, c : Behind(a, c) => Behind(a, c)'
           /\ \A a \in BatchesOf(q) : Behind(a, b)'
           /\ (BatchesDistinct /\ \A c \in Work : c.of # b.of \/ c.cb # b.cb) => BatchesDistinct'
<1> DEFINE n == Len(gpuQueue[q])
<1>1. gpuQueue[q] \in Seq(Batch) /\ gpuQueue \in [Queues -> Seq(Batch)]
  BY QueueType DEF TypeOK
<1>2. /\ gpuQueue'[q] \in Seq(Batch)
      /\ n \in Nat /\ DOMAIN gpuQueue[q] = 1..n /\ DOMAIN gpuQueue'[q] = 1..(n + 1)
      /\ \A i \in 1..n : gpuQueue'[q][i] = gpuQueue[q][i]
      /\ gpuQueue'[q][n + 1] = b
  BY <1>1, AppendProperties, LenProperties
<1>3. \A p \in Queues : p # q => gpuQueue'[p] = gpuQueue[p]
  BY <1>1
<1>4. gpuQueue' \in [Queues -> Seq(Batch)]
  BY <1>1, <1>2
<1>5. \A p \in Queues : BatchesOf(p)' = IF p = q THEN BatchesOf(q) \cup {b} ELSE BatchesOf(p)
  <2>1. BatchesOf(q)' = BatchesOf(q) \cup {b}
    BY <1>2 DEF BatchesOf
  <2> QED
    BY <2>1, <1>3 DEF BatchesOf
<1>6. Work' = Work \cup {b}
  BY <1>5 DEF Work
<1>7. ASSUME NEW a, NEW c, Behind(a, c)
      PROVE  Behind(a, c)'
  <2>1. PICK p \in Queues : \E i, j \in DOMAIN gpuQueue[p] :
            i < j /\ gpuQueue[p][i] = a /\ gpuQueue[p][j] = c
    BY <1>7 DEF Behind
  <2>2. PICK i \in DOMAIN gpuQueue[p], j \in DOMAIN gpuQueue[p] :
            i < j /\ gpuQueue[p][i] = a /\ gpuQueue[p][j] = c
    BY <2>1
  <2>3. /\ i \in DOMAIN gpuQueue'[p] /\ j \in DOMAIN gpuQueue'[p]
        /\ gpuQueue'[p][i] = a /\ gpuQueue'[p][j] = c
    BY <2>2, <1>2, <1>3
  <2> QED
    BY <2>2, <2>3 DEF Behind
<1>8. ASSUME NEW a \in BatchesOf(q)
      PROVE  Behind(a, b)'
  <2>1. PICK i \in 1..n : gpuQueue[q][i] = a
    BY <1>2 DEF BatchesOf
  <2>2. /\ i \in DOMAIN gpuQueue'[q] /\ n + 1 \in DOMAIN gpuQueue'[q] /\ i < n + 1
        /\ gpuQueue'[q][i] = a /\ gpuQueue'[q][n + 1] = b
    BY <2>1, <1>2
  <2> QED
    BY <2>2 DEF Behind
<1>9. ASSUME BatchesDistinct, \A c \in Work : c.of # b.of \/ c.cb # b.cb
      PROVE  BatchesDistinct'
  <2> SUFFICES ASSUME NEW p \in Queues, NEW r \in Queues,
                      NEW i \in DOMAIN gpuQueue'[p], NEW j \in DOMAIN gpuQueue'[r],
                      gpuQueue'[p][i].of = gpuQueue'[r][j].of,
                      gpuQueue'[p][i].cb = gpuQueue'[r][j].cb
               PROVE  p = r /\ i = j
    BY DEF BatchesDistinct
  <2>1. \A o \in Queues : \A k \in DOMAIN gpuQueue[o] :
            gpuQueue[o][k].of # b.of \/ gpuQueue[o][k].cb # b.cb
    BY <1>9 DEF Work, BatchesOf
  <2>2. CASE p = q /\ i = n + 1
    <3>1. CASE r = q /\ j = n + 1
      BY <2>2, <3>1
    <3>2. CASE ~(r = q /\ j = n + 1)
      BY <2>1, <2>2, <3>2, <1>2, <1>3
    <3> QED
      BY <3>1, <3>2
  <2>3. CASE ~(p = q /\ i = n + 1)
    <3>1. i \in DOMAIN gpuQueue[p] /\ gpuQueue'[p][i] = gpuQueue[p][i]
      BY <2>3, <1>2, <1>3
    <3>2. CASE r = q /\ j = n + 1
      BY <2>1, <3>1, <3>2, <1>2
    <3>3. CASE ~(r = q /\ j = n + 1)
      <4>1. j \in DOMAIN gpuQueue[r] /\ gpuQueue'[r][j] = gpuQueue[r][j]
        BY <3>3, <1>2, <1>3
      <4> QED
        BY <3>1, <4>1, <1>9 DEF BatchesDistinct
    <3> QED
      BY <3>2, <3>3
  <2> QED
    BY <2>2, <2>3
<1> QED
  BY <1>4, <1>5, <1>6, <1>7, <1>8, <1>9

\* What executing the first batch of a queue changes.
LEMMA TailWork ==
    ASSUME TypeOK, BatchesDistinct, NEW q \in Queues, gpuQueue[q] # <<>>,
           gpuQueue' = [gpuQueue EXCEPT ![q] = Tail(@)]
    PROVE  LET h == Head(gpuQueue[q])
           IN  /\ gpuQueue' \in [Queues -> Seq(Batch)]
               /\ h \in BatchesOf(q)
               /\ \A p \in Queues : BatchesOf(p)' = BatchesOf(p) \ {h}
               /\ Work' = Work \ {h}
               /\ \A a, b : Behind(a, b) /\ a # h => Behind(a, b)'
               /\ \A a : ~Behind(a, h)
               /\ BatchesDistinct'
<1> DEFINE h == Head(gpuQueue[q])
           n == Len(gpuQueue[q])
<1>1. gpuQueue[q] \in Seq(Batch) /\ gpuQueue \in [Queues -> Seq(Batch)]
  BY QueueType DEF TypeOK
<1>2. /\ gpuQueue'[q] \in Seq(Batch)
      /\ n \in Nat \ {0} /\ DOMAIN gpuQueue[q] = 1..n /\ DOMAIN gpuQueue'[q] = 1..(n - 1)
      /\ \A i \in 1..(n - 1) : gpuQueue'[q][i] = gpuQueue[q][i + 1]
      /\ h = gpuQueue[q][1]
  <2>1. gpuQueue'[q] = Tail(gpuQueue[q])
    BY <1>1
  <2>2. /\ n \in Nat /\ DOMAIN gpuQueue[q] = 1..n /\ n # 0
    BY <1>1, LenProperties, EmptySeq
  <2>3. /\ Tail(gpuQueue[q]) \in Seq(Batch) /\ Len(Tail(gpuQueue[q])) = n - 1
        /\ \A i \in 1..(n - 1) : Tail(gpuQueue[q])[i] = gpuQueue[q][i + 1]
    BY <1>1, HeadTailProperties
  <2>4. h = gpuQueue[q][1]
    BY <1>1
  <2> QED
    BY <2>1, <2>2, <2>3, <2>4, LenProperties
<1>3. \A p \in Queues : p # q => gpuQueue'[p] = gpuQueue[p]
  BY <1>1
<1>4. gpuQueue' \in [Queues -> Seq(Batch)]
  BY <1>1, <1>2
<1>5. h \in BatchesOf(q)
  BY <1>2 DEF BatchesOf
\* The first batch is nowhere else.
<1>6. \A p \in Queues : \A i \in DOMAIN gpuQueue[p] : gpuQueue[p][i] = h => p = q /\ i = 1
  BY <1>2 DEF BatchesDistinct
<1>7. \A p \in Queues : BatchesOf(p)' = BatchesOf(p) \ {h}
  <2>1. BatchesOf(q)' \subseteq BatchesOf(q) \ {h}
    <3> SUFFICES ASSUME NEW i \in 1..(n - 1)
                 PROVE  gpuQueue'[q][i] \in BatchesOf(q) \ {h}
      BY <1>2 DEF BatchesOf
    <3>1. i + 1 \in DOMAIN gpuQueue[q] /\ i + 1 # 1
      BY <1>2
    <3> QED
      BY <3>1, <1>2, <1>6 DEF BatchesOf
  <2>2. BatchesOf(q) \ {h} \subseteq BatchesOf(q)'
    <3> SUFFICES ASSUME NEW i \in 1..n, gpuQueue[q][i] # h
                 PROVE  gpuQueue[q][i] \in BatchesOf(q)'
      BY <1>2 DEF BatchesOf
    <3>1. i - 1 \in 1..(n - 1) /\ (i - 1) + 1 = i
      BY <1>2
    <3> QED
      BY <3>1, <1>2 DEF BatchesOf
  <2>3. \A p \in Queues : p # q => BatchesOf(p)' = BatchesOf(p) /\ h \notin BatchesOf(p)
    BY <1>3, <1>6 DEF BatchesOf
  <2> QED
    BY <2>1, <2>2, <2>3
<1>8. Work' = Work \ {h}
  BY <1>7 DEF Work
<1>9. ASSUME NEW a, NEW b, Behind(a, b), a # h
      PROVE  Behind(a, b)'
  <2>1. PICK p \in Queues : \E i, j \in DOMAIN gpuQueue[p] :
            i < j /\ gpuQueue[p][i] = a /\ gpuQueue[p][j] = b
    BY <1>9 DEF Behind
  <2>2. PICK i \in DOMAIN gpuQueue[p], j \in DOMAIN gpuQueue[p] :
            i < j /\ gpuQueue[p][i] = a /\ gpuQueue[p][j] = b
    BY <2>1
  <2>3. CASE p # q
    BY <2>2, <2>3, <1>3 DEF Behind
  <2>4. CASE p = q
    <3>1. i \in 1..n /\ j \in 1..n /\ i < j /\ i # 1
      BY <2>2, <2>4, <1>2, <1>9
    <3>2. /\ i - 1 \in 1..(n - 1) /\ (i - 1) + 1 = i
          /\ j - 1 \in 1..(n - 1) /\ (j - 1) + 1 = j
          /\ i - 1 < j - 1
      BY <3>1, <1>2
    <3>3. /\ i - 1 \in DOMAIN gpuQueue'[p] /\ j - 1 \in DOMAIN gpuQueue'[p]
          /\ gpuQueue'[p][i - 1] = a /\ gpuQueue'[p][j - 1] = b
      BY <3>2, <2>2, <2>4, <1>2
    <3> QED
      BY <3>2, <3>3 DEF Behind
  <2> QED
    BY <2>3, <2>4
<1>10. ASSUME NEW a, Behind(a, h)
       PROVE  FALSE
  <2>1. PICK p \in Queues : \E i, j \in DOMAIN gpuQueue[p] : i < j /\ gpuQueue[p][j] = h
    BY <1>10 DEF Behind
  <2> QED
    BY <2>1, <1>2, <1>6
<1>11. BatchesDistinct'
  <2> SUFFICES ASSUME NEW p \in Queues, NEW r \in Queues,
                      NEW i \in DOMAIN gpuQueue'[p], NEW j \in DOMAIN gpuQueue'[r],
                      gpuQueue'[p][i].of = gpuQueue'[r][j].of,
                      gpuQueue'[p][i].cb = gpuQueue'[r][j].cb
               PROVE  p = r /\ i = j
    BY DEF BatchesDistinct
  <2> DEFINE k == IF p = q THEN i + 1 ELSE i
             l == IF r = q THEN j + 1 ELSE j
  <2>1. k \in DOMAIN gpuQueue[p] /\ gpuQueue'[p][i] = gpuQueue[p][k]
    BY <1>2, <1>3
  <2>2. l \in DOMAIN gpuQueue[r] /\ gpuQueue'[r][j] = gpuQueue[r][l]
    BY <1>2, <1>3
  <2>3. p = r /\ k = l
    BY <2>1, <2>2 DEF BatchesDistinct
  <2> QED
    BY <2>3, <1>2, <1>3, LenProperties, QueueType
<1> QED
  BY <1>4, <1>5, <1>7, <1>8, <1>9, <1>10, <1>11

-----------------------------------------------------------------------------
(* Types                                                                   *)

LEMMA FamilyType == \A q \in Queues : Family(q) \in Families
BY DEF Families

LEMMA TypeInit == Init => TypeOK
<1> SUFFICES ASSUME Init PROVE TypeOK
  OBVIOUS
<1>1. <<>> \in Seq(Batch)
  OBVIOUS
<1>2. [q \in Queues |-> <<>>] \in [Queues -> Seq(Batch)]
  BY <1>1
<1>3. owner \in [Ranges -> Queues \cup {Nil}]
  BY OwnersAssumption DEF Init
<1>4. gpuOwner \in [Ranges -> (Families \X Families) \cup {<<Nil, Nil>>}]
  <2>1. \A r \in Ranges : owner[r] # Nil => Family(owner[r]) \in Families
    BY <1>3, FamilyType
  <2> QED
    BY <2>1 DEF Init
<1>5. target \in [Submissions -> Queues]
  BY TargetsAssumption DEF Init
<1> QED
  BY <1>2, <1>3, <1>4, <1>5 DEF Init, TypeOK, Stages, States

\* A release of s on queue q, and the main command buffer of s.
ReleaseOf(s, q, cb) ==
    [of |-> s, cb |-> cb, ranges |-> groups[s][q], waits |-> {},
     after |-> Pending(groups[s][q], s)]

MainOf(s) ==
    [of |-> s, cb |-> Nil, ranges |-> claims[s], waits |-> waits[s],
     after |-> Pending(claims[s], s)]

LEMMA NewBatchType ==
    ASSUME TypeOK, NEW s \in Submissions
    PROVE  /\ \A q \in Queues, cb \in CmdBufs : ReleaseOf(s, q, cb) \in Batch
           /\ MainOf(s) \in Batch
BY DEF ReleaseOf, MainOf, Pending, Batch, TypeOK

LEMMA LeaseType ==
    ASSUME TypeOK, NEW cb \in CmdBufs, NEW q \in Queues, Lease(cb, Family(q))
    PROVE  /\ home' \in [CmdBufs -> Families \cup {Nil}]
           /\ cache' \in SUBSET CmdBufs
BY FamilyType DEF Lease, TypeOK

LEMMA TypeStep == TypeOK /\ [Next]_vars => TypeOK'
<1> SUFFICES ASSUME TypeOK, [Next]_vars PROVE TypeOK'
  OBVIOUS
<1>1. ASSUME NEW s \in Submissions, NEW R \in (SUBSET Ranges) \ {{}}, Record(s, R)
      PROVE  TypeOK'
  <2>1. claims' \in [Submissions -> SUBSET Ranges]
    BY <1>1 DEF Record, TypeOK
  <2>2. groups' \in [Submissions -> [Queues -> SUBSET Ranges]]
    BY <1>1 DEF Record, TypeOK
  <2>3. stage' \in [Submissions -> Stages]
    BY <1>1 DEF Record, TypeOK, Stages
  <2>4. disputed' \in SUBSET Ranges
    BY <1>1 DEF Record, TypeOK
  <2> QED
    BY <1>1, <2>1, <2>2, <2>3, <2>4 DEF Record, TypeOK, poolVars, gpuVars
<1>2. ASSUME NEW s \in Submissions, Finish(s)
      PROVE  TypeOK'
  BY <1>2 DEF Finish, TypeOK, Stages, poolVars, gpuVars
<1>3. ASSUME NEW s \in Submissions, NEW q \in Queues, NEW cb \in CmdBufs,
             SubmitRelease(s, q, cb)
      PROVE  TypeOK'
  <2>1. gpuQueue' \in [Queues -> Seq(Batch)]
    BY <1>3, AppendWork, NewBatchType DEF SubmitRelease, ReleaseOf
  <2>2. home' \in [CmdBufs -> Families \cup {Nil}] /\ cache' \in SUBSET CmdBufs
    BY <1>3, LeaseType DEF SubmitRelease
  <2>3. semaphore' \in [CmdBufs -> {"unsignaled", "signaling", "signaled"}]
    BY <1>3 DEF SubmitRelease, TypeOK
  <2>4. /\ released' \in [Submissions -> SUBSET Queues]
        /\ leases' \in [Submissions -> SUBSET CmdBufs]
        /\ fences' \in [Submissions -> SUBSET CmdBufs]
    BY <1>3 DEF SubmitRelease, TypeOK
  <2> QED
    BY <1>3, <2>1, <2>2, <2>3, <2>4 DEF SubmitRelease, TypeOK
<1>4. ASSUME NEW s \in Submissions, Finished(s)
      PROVE  TypeOK'
  BY <1>4 DEF Finished, TypeOK, Stages, poolVars, gpuVars
<1>5. ASSUME NEW s \in Submissions, Send(s)
      PROVE  TypeOK'
  <2>1. gpuQueue' \in [Queues -> Seq(Batch)]
    BY <1>5, AppendWork, NewBatchType DEF Send, MainOf, TypeOK
  <2>2. stage' \in [Submissions -> Stages]
    BY <1>5 DEF Send, TypeOK, Stages
  <2> QED
    BY <1>5, <2>1, <2>2 DEF Send, TypeOK, poolVars
<1>6. ASSUME NEW s \in Submissions, Attach(s)
      PROVE  TypeOK'
  <2>1. /\ owner' \in [Ranges -> Queues \cup {Nil}]
        /\ stage' \in [Submissions -> Stages]
        /\ waits' \in [Submissions -> SUBSET CmdBufs]
    BY <1>6 DEF Attach, TypeOK, Stages
  <2>2. tracking' \in [Submissions -> States]
    BY <1>6 DEF Attach, TypeOK, States
  <2> QED
    BY <1>6, <2>1, <2>2 DEF Attach, TypeOK, poolVars, gpuVars
<1>7. ASSUME NEW s \in Submissions, Observe(s)
      PROVE  TypeOK'
  BY <1>7 DEF Observe, TypeOK, Stages, States, poolVars, gpuVars
<1>8. ASSUME NEW s \in Submissions, Abandon(s)
      PROVE  TypeOK'
  BY <1>8 DEF Abandon, TypeOK, Stages, poolVars, gpuVars
<1>9. ASSUME NEW s \in Submissions, NEW cb \in CmdBufs, ReturnCmdBuf(s, cb)
      PROVE  TypeOK'
  BY <1>9 DEF ReturnCmdBuf, TypeOK, gpuVars
<1>10. ASSUME NEW s \in Submissions, NEW cb \in CmdBufs, WaitRelease(s, cb)
       PROVE  TypeOK'
  BY <1>10 DEF WaitRelease, TypeOK, poolVars, gpuVars
<1>11. ASSUME NEW s \in Submissions, DropCommands(s)
       PROVE  TypeOK'
  <2>1. tracking' \in [Submissions -> States]
    BY <1>11 DEF DropCommands, TypeOK, States
  <2>2. stage' \in [Submissions -> Stages]
    BY <1>11 DEF DropCommands, TypeOK, Stages
  <2> QED
    BY <1>11, <2>1, <2>2 DEF DropCommands, TypeOK, poolVars, gpuVars
<1>12. ASSUME NEW q \in Queues, ExecuteRelease(q)
       PROVE  TypeOK'
  <2> DEFINE b == Head(gpuQueue[q])
  <2>1. gpuQueue[q] \in Seq(Batch) /\ gpuQueue[q] # <<>> /\ b.cb # Nil
    BY <1>12, QueueType DEF ExecuteRelease
  <2>2. b \in Batch /\ Tail(gpuQueue[q]) \in Seq(Batch)
    BY <2>1, HeadTailProperties
  <2>3. b.of \in Submissions /\ b.cb \in CmdBufs
    BY <2>1, <2>2 DEF Batch
  <2>4. gpuQueue' \in [Queues -> Seq(Batch)]
    BY <1>12, <2>2 DEF ExecuteRelease, TypeOK
  <2>5. gpuOwner' \in [Ranges -> (Families \X Families) \cup {<<Nil, Nil>>}]
    <3>1. <<Family(q), Family(target[b.of])>> \in Families \X Families
      BY <2>3, FamilyType DEF TypeOK
    <3> QED
      BY <1>12, <3>1 DEF ExecuteRelease, TypeOK
  <2>6. defined' \in [Ranges -> BOOLEAN]
    BY <1>12 DEF ExecuteRelease, TypeOK
  <2>7. semaphore' \in [CmdBufs -> {"unsignaled", "signaling", "signaled"}]
    BY <1>12, <2>3 DEF ExecuteRelease, TypeOK
  <2> QED
    BY <1>12, <2>4, <2>5, <2>6, <2>7 DEF ExecuteRelease, TypeOK, hostVars, poolVars
<1>13. ASSUME NEW q \in Queues, ExecuteMain(q)
       PROVE  TypeOK'
  <2> DEFINE b == Head(gpuQueue[q])
  <2>1. gpuQueue[q] \in Seq(Batch) /\ gpuQueue[q] # <<>>
    BY <1>13, QueueType DEF ExecuteMain
  <2>2. b \in Batch /\ Tail(gpuQueue[q]) \in Seq(Batch)
    BY <2>1, HeadTailProperties
  <2>3. b.of \in Submissions
    BY <2>2 DEF Batch
  <2>4. gpuQueue' \in [Queues -> Seq(Batch)]
    BY <1>13, <2>2 DEF ExecuteMain, TypeOK
  <2>5. gpuOwner' \in [Ranges -> (Families \X Families) \cup {<<Nil, Nil>>}]
    <3>1. <<Family(q), Family(q)>> \in Families \X Families
      BY FamilyType
    <3> QED
      BY <1>13, <3>1 DEF ExecuteMain, TypeOK
  <2>6. defined' \in [Ranges -> BOOLEAN]
    BY <1>13 DEF ExecuteMain, TypeOK
  <2>7. semaphore' \in [CmdBufs -> {"unsignaled", "signaling", "signaled"}]
    BY <1>13 DEF ExecuteMain, TypeOK
  <2>8. executed' \in SUBSET Submissions
    BY <1>13, <2>3 DEF ExecuteMain, TypeOK
  <2> QED
    BY <1>13, <2>4, <2>5, <2>6, <2>7, <2>8 DEF ExecuteMain, TypeOK, hostVars, poolVars
<1>14. CASE UNCHANGED vars
  BY <1>14 DEF TypeOK, vars, hostVars, poolVars, gpuVars
<1> QED
  BY <1>1, <1>2, <1>3, <1>4, <1>5, <1>6, <1>7, <1>8, <1>9, <1>10, <1>11, <1>12, <1>13,
     <1>14 DEF Next, Submission, Proceed, Gpu

\* Every variable keeps its type: in particular the queue a range was last used on
\* and the family that the GPU arrives at are a queue and a family, or nobody.
THEOREM TypeCorrect == Spec => []TypeOK
<1> QED
  BY TypeInit, TypeStep, PTL DEF Spec

-----------------------------------------------------------------------------
(* Command buffers and semaphores                                          *)

LEMMA SameQueues ==
    ASSUME gpuQueue' = gpuQueue
    PROVE  /\ \A q \in Queues : BatchesOf(q)' = BatchesOf(q)
           /\ Work' = Work /\ Mains' = Mains /\ Releases' = Releases
           /\ \A a, b : Behind(a, b)' <=> Behind(a, b)
           /\ BatchesDistinct => BatchesDistinct'
BY DEF BatchesOf, Work, Mains, Releases, Behind, BatchesDistinct

LEMMA LeaseInit == Init => LeaseInv
<1> SUFFICES ASSUME Init PROVE LeaseInv
  OBVIOUS
<1>1. \A q \in Queues : gpuQueue[q] = <<>> /\ DOMAIN gpuQueue[q] = {}
  BY DEF Init
<1>2. Work = {} /\ \A q \in Queues : BatchesOf(q) = {}
  BY <1>1 DEF Work, BatchesOf
<1>3. BatchesDistinct
  BY <1>1 DEF BatchesDistinct
<1>4. LeasedOnce /\ WaitsForLeases /\ SemaphoresFree
  BY DEF Init, LeasedOnce, WaitsForLeases, SemaphoresFree
<1>5. SentIsQueued /\ MainsMatch /\ ReleasesMatch
  BY <1>2 DEF Init, SentIsQueued, Sent, MainsMatch, Mains, ReleasesMatch
<1> QED
  BY <1>3, <1>4, <1>5, TypeInit DEF LeaseInv

\* A step of the host that leaves command buffers and queues alone.
LEMMA LeaseHost ==
    ASSUME LeaseInv, TypeOK', NEW s \in Submissions,
           UNCHANGED <<poolVars, gpuQueue, semaphore, executed, leases, released, target>>,
           \A t \in Submissions \ {s} : stage'[t] = stage[t] /\ waits'[t] = waits[t]
                                        /\ claims'[t] = claims[t] /\ groups'[t] = groups[t],
           \/ /\ stage[s] = "new" /\ stage'[s] \in {"recording", "discarded"}
              /\ waits'[s] = waits[s]
           \/ /\ stage[s] = "recording" /\ stage'[s] \in {"recording", "finishing", "discarded"}
              /\ waits'[s] = waits[s]
           \/ /\ UNCHANGED <<claims, groups>>
              /\ \/ /\ stage[s] = "finishing" /\ stage'[s] = "recorded" /\ waits'[s] = leases[s]
                 \/ /\ stage[s] = "sent" /\ stage'[s] = "attached" /\ waits'[s] = {}
                 \/ /\ stage[s] = "attached" /\ stage'[s] = "discarded" /\ waits'[s] = waits[s]
                    /\ s \in executed
                 \/ /\ stage[s] \in {"finishing", "recorded"} /\ stage'[s] = "discarded"
                    /\ leases[s] = {} /\ waits'[s] = waits[s]
                 \/ /\ stage[s] = "discarded" /\ stage'[s] = "dropped"
                    /\ waits'[s] = waits[s]
    PROVE  LeaseInv'
<1>1. /\ gpuQueue' = gpuQueue /\ semaphore' = semaphore /\ executed' = executed
      /\ leases' = leases /\ released' = released /\ target' = target
      /\ home' = home /\ cache' = cache
  BY DEF poolVars
<1>2. BatchesDistinct' /\ LeasedOnce' /\ SemaphoresFree'
  BY <1>1, SameQueues DEF LeaseInv, LeasedOnce, SemaphoresFree
<1>3. WaitsForLeases'
  BY <1>1 DEF LeaseInv, WaitsForLeases, Unsent
<1>4. SentIsQueued'
  BY <1>1, SameQueues DEF LeaseInv, SentIsQueued, Sent, Unsent
<1>5. MainsMatch'
  <2> SUFFICES ASSUME NEW q \in Queues, NEW b \in BatchesOf(q), b.cb = Nil
               PROVE  /\ Sent(b.of)' /\ b.of \notin executed
                      /\ b.ranges = claims'[b.of]
                      /\ \A t \in b.after : ~Unsent(t)'
    BY <1>1, SameQueues DEF LeaseInv, MainsMatch
  <2>1. /\ b.of \in Submissions /\ b.after \subseteq Submissions
        /\ Sent(b.of) /\ b.of \notin executed /\ b.ranges = claims[b.of]
        /\ \A t \in b.after : ~Unsent(t)
    BY WorkType DEF LeaseInv, MainsMatch
  <2>2. Sent(b.of)' /\ claims'[b.of] = claims[b.of]
    BY <2>1 DEF Sent
  <2>3. \A t \in b.after : ~Unsent(t)'
    BY <2>1 DEF Unsent
  <2> QED
    BY <2>1, <2>2, <2>3
<1>6. ReleasesMatch'
  <2> SUFFICES ASSUME NEW q \in Queues, NEW b \in BatchesOf(q), b.cb # Nil
               PROVE  /\ stage'[b.of] \in {"finishing", "recorded", "sent", "attached"}
                      /\ b.ranges = groups'[b.of][q]
    BY <1>1, SameQueues DEF LeaseInv, ReleasesMatch
  <2>1. /\ b.of \in Submissions /\ b.cb \in leases[b.of] /\ b.of \notin executed
        /\ stage[b.of] \in {"finishing", "recorded", "sent", "attached"}
        /\ b.ranges = groups[b.of][q]
    BY WorkType DEF LeaseInv, ReleasesMatch
  <2> QED
    BY <2>1
<1> QED
  BY <1>2, <1>3, <1>4, <1>5, <1>6 DEF LeaseInv

LEMMA LeaseReturn ==
    ASSUME LeaseInv, TypeOK', NEW s \in Submissions, NEW cb \in CmdBufs, ReturnCmdBuf(s, cb)
    PROVE  LeaseInv'
<1>1. /\ gpuQueue' = gpuQueue /\ semaphore' = semaphore /\ executed' = executed
      /\ stage' = stage /\ waits' = waits /\ claims' = claims /\ groups' = groups
      /\ released' = released /\ target' = target /\ home' = home
      /\ cache' = cache \cup {cb}
      /\ leases' = [leases EXCEPT ![s] = @ \ {cb}]
      /\ stage[s] = "discarded" /\ cb \in leases[s]
  BY DEF ReturnCmdBuf, gpuVars
<1>2. /\ leases \in [Submissions -> SUBSET CmdBufs]
      /\ leases'[s] = leases[s] \ {cb}
      /\ \A t \in Submissions \ {s} : leases'[t] = leases[t]
  BY <1>1 DEF LeaseInv, TypeOK
<1>3. s \in executed
  BY <1>1 DEF LeaseInv, WaitsForLeases
<1>4. BatchesDistinct'
  BY <1>1, SameQueues DEF LeaseInv
<1>5. LeasedOnce'
  BY <1>1, <1>2 DEF LeaseInv, LeasedOnce
<1>6. WaitsForLeases'
  BY <1>1, <1>2 DEF LeaseInv, WaitsForLeases, Unsent
<1>7. SentIsQueued'
  BY <1>1, SameQueues DEF LeaseInv, SentIsQueued, Sent, Unsent
<1>8. MainsMatch'
  <2> SUFFICES ASSUME NEW q \in Queues, NEW b \in BatchesOf(q), b.cb = Nil
               PROVE  b.waits = leases'[b.of]
    BY <1>1, SameQueues DEF LeaseInv, MainsMatch, Sent, Unsent
  <2>1. b.of \in Submissions /\ b.of \notin executed /\ b.waits = leases[b.of]
    BY WorkType DEF LeaseInv, MainsMatch
  <2> QED
    BY <2>1, <1>2, <1>3
<1>9. ReleasesMatch'
  <2> SUFFICES ASSUME NEW q \in Queues, NEW b \in BatchesOf(q), b.cb # Nil
               PROVE  b.cb \in leases'[b.of]
    BY <1>1, SameQueues DEF LeaseInv, ReleasesMatch
  <2>1. b.of \in Submissions /\ b.of \notin executed /\ b.cb \in leases[b.of]
    BY WorkType DEF LeaseInv, ReleasesMatch
  <2> QED
    BY <2>1, <1>2, <1>3
<1>10. SemaphoresFree'
  BY <1>1, <1>2, <1>3 DEF LeaseInv, SemaphoresFree
<1> QED
  BY <1>4, <1>5, <1>6, <1>7, <1>8, <1>9, <1>10 DEF LeaseInv

\* A command buffer that is leased for a release is leased to nobody else.
LEMMA LeasedIsFree ==
    ASSUME LeaseInv, NEW cb \in CmdBufs, NEW q \in Queues, Lease(cb, Family(q))
    PROVE  /\ \A t \in Submissions : cb \notin leases[t]
           /\ semaphore[cb] = "unsignaled"
           /\ \A b \in Work : b.cb # cb
<1>1. cb # Nil
  BY NilAssumption
<1>2. \A t \in Submissions : cb \notin leases[t]
  BY DEF LeaseInv, LeasedOnce, Lease
<1>3. semaphore[cb] = "unsignaled"
  BY <1>2 DEF LeaseInv, SemaphoresFree
<1>4. ASSUME NEW b \in Work, b.cb = cb
      PROVE  FALSE
  <2>1. b.cb \in leases[b.of] /\ b.of \in Submissions
    BY <1>1, <1>4, WorkType DEF LeaseInv, ReleasesMatch, Work
  <2> QED
    BY <2>1, <1>2, <1>4
<1> QED
  BY <1>2, <1>3, <1>4

LEMMA LeaseSubmit ==
    ASSUME LeaseInv, TypeOK', NEW s \in Submissions, NEW q \in Queues, NEW cb \in CmdBufs,
           SubmitRelease(s, q, cb)
    PROVE  LeaseInv'
<1> DEFINE b == ReleaseOf(s, q, cb)
<1>1. /\ executed' = executed /\ stage' = stage /\ waits' = waits /\ claims' = claims
      /\ groups' = groups /\ target' = target
      /\ stage[s] = "finishing" /\ q \notin released[s] /\ Lease(cb, Family(q))
      /\ gpuQueue' = [gpuQueue EXCEPT ![q] = Append(@, b)]
      /\ b \in Batch /\ b.of = s /\ b.cb = cb /\ b.ranges = groups[s][q]
      /\ cb # Nil
  BY NewBatchType, NilAssumption DEF LeaseInv, SubmitRelease, ReleaseOf
<1>2. /\ leases'[s] = leases[s] \cup {cb} /\ released'[s] = released[s] \cup {q}
      /\ semaphore'[cb] = "signaling"
      /\ \A t \in Submissions \ {s} : leases'[t] = leases[t] /\ released'[t] = released[t]
      /\ \A c \in CmdBufs \ {cb} : semaphore'[c] = semaphore[c]
  BY DEF SubmitRelease, LeaseInv, TypeOK
<1>3. /\ \A t \in Submissions : cb \notin leases[t]
      /\ \A c \in Work : c.cb # cb
  BY <1>1, LeasedIsFree
<1>4. s \notin executed
  BY <1>1 DEF LeaseInv, SentIsQueued, Unsent
<1>5. /\ \A p \in Queues : BatchesOf(p)' = IF p = q THEN BatchesOf(q) \cup {b} ELSE BatchesOf(p)
      /\ Work' = Work \cup {b}
      /\ BatchesDistinct'
  BY <1>1, <1>3, AppendWork DEF LeaseInv
<1>6. Mains' = Mains
  BY <1>1, <1>5 DEF Mains
<1>7. LeasedOnce'
  <2>1. /\ cache' \subseteq cache /\ cb \notin cache'
        /\ home'[cb] # Nil
        /\ \A c \in CmdBufs : home[c] # Nil => home'[c] # Nil
    <3>1. Family(q) # Nil
      BY FamilyType, NilAssumption
    <3> QED
      BY <1>1, <3>1 DEF Lease, LeaseInv, LeasedOnce, TypeOK
  <2>2. \A t, u \in Submissions : t # u => leases'[t] \cap leases'[u] = {}
    BY <1>2, <1>3 DEF LeaseInv, LeasedOnce
  <2>3. \A t \in Submissions : leases'[t] \cap cache' = {}
    BY <1>2, <2>1 DEF LeaseInv, LeasedOnce
  <2>4. \A t \in Submissions : \A c \in leases'[t] : home'[c] # Nil
    BY ZenonT(40), <1>2, <2>1 DEF LeaseInv, LeasedOnce, TypeOK
  <2>5. \A c \in cache' : home'[c] # Nil
    BY <2>1 DEF LeaseInv, LeasedOnce, TypeOK
  <2> QED
    BY <2>2, <2>3, <2>4, <2>5 DEF LeasedOnce
<1>8. WaitsForLeases'
  BY <1>1, <1>2, <1>4 DEF LeaseInv, WaitsForLeases, Unsent
<1>9. SentIsQueued'
  BY <1>1, <1>6 DEF LeaseInv, SentIsQueued, Sent, Unsent
<1>10. MainsMatch'
  <2> SUFFICES ASSUME NEW p \in Queues, NEW c \in BatchesOf(p), c.cb = Nil
               PROVE  c.waits = leases'[c.of]
    BY <1>1, <1>5 DEF LeaseInv, MainsMatch, Sent, Unsent
  <2>1. c.of \in Submissions /\ Sent(c.of) /\ c.waits = leases[c.of]
    BY WorkType DEF LeaseInv, MainsMatch
  <2> QED
    BY <2>1, <1>1, <1>2 DEF Sent
<1>11. ReleasesMatch'
  <2> SUFFICES ASSUME NEW p \in Queues, NEW c \in BatchesOf(p)', c.cb # Nil
               PROVE  /\ stage[c.of] \in {"finishing", "recorded", "sent", "attached"}
                      /\ c.of \notin executed
                      /\ c.cb \in leases'[c.of]
                      /\ p \in released'[c.of]
                      /\ c.ranges = groups[c.of][p]
                      /\ semaphore'[c.cb] = "signaling"
    BY <1>1 DEF ReleasesMatch
  <2>1. CASE c \in BatchesOf(p)
    <3>1. /\ c.of \in Submissions /\ c.cb \in CmdBufs /\ c.cb # cb
          /\ stage[c.of] \in {"finishing", "recorded", "sent", "attached"}
          /\ c.of \notin executed /\ c.cb \in leases[c.of] /\ p \in released[c.of]
          /\ c.ranges = groups[c.of][p] /\ semaphore[c.cb] = "signaling"
      BY <2>1, <1>3, WorkType DEF LeaseInv, ReleasesMatch
    <3> QED
      BY <3>1, <1>2
  <2>2. CASE c \notin BatchesOf(p)
    <3>1. p = q /\ c = b
      BY <2>2, <1>5
    <3> QED
      BY <3>1, <1>1, <1>2, <1>4
  <2> QED
    BY <2>1, <2>2
<1>12. SemaphoresFree'
  BY <1>1, <1>2, <1>3, <1>4 DEF LeaseInv, SemaphoresFree
<1> QED
  BY <1>5, <1>7, <1>8, <1>9, <1>10, <1>11, <1>12 DEF LeaseInv

LEMMA LeaseSend ==
    ASSUME LeaseInv, TypeOK', NEW s \in Submissions, Send(s)
    PROVE  LeaseInv'
<1> DEFINE b == MainOf(s)
           q == target[s]
<1>1. /\ executed' = executed /\ waits' = waits /\ claims' = claims /\ groups' = groups
      /\ target' = target /\ leases' = leases /\ released' = released
      /\ home' = home /\ cache' = cache /\ semaphore' = semaphore
      /\ stage[s] = "recorded"
      /\ gpuQueue' = [gpuQueue EXCEPT ![q] = Append(@, b)]
      /\ q \in Queues
      /\ b \in Batch /\ b.of = s /\ b.cb = Nil /\ b.ranges = claims[s] /\ b.waits = waits[s]
  BY NewBatchType DEF LeaseInv, Send, MainOf, TypeOK, poolVars
<1>2. /\ stage'[s] = "sent"
      /\ \A t \in Submissions \ {s} : stage'[t] = stage[t]
  BY DEF Send, LeaseInv, TypeOK
<1>3. s \notin executed /\ waits[s] = leases[s]
  BY <1>1 DEF LeaseInv, SentIsQueued, WaitsForLeases, Unsent
<1>4. \A t \in b.after : ~Unsent(t) /\ t # s
  BY DEF MainOf, Pending, Unsent
<1>5. \A c \in Work : c.of # b.of \/ c.cb # b.cb
  BY <1>1 DEF Work, LeaseInv, MainsMatch, Sent
<1>6. /\ \A p \in Queues : BatchesOf(p)' = IF p = q THEN BatchesOf(q) \cup {b} ELSE BatchesOf(p)
      /\ Work' = Work \cup {b}
      /\ BatchesDistinct'
  BY <1>1, <1>5, AppendWork DEF LeaseInv
<1>7. LeasedOnce' /\ SemaphoresFree'
  BY <1>1 DEF LeaseInv, LeasedOnce, SemaphoresFree
<1>8. WaitsForLeases'
  BY <1>1, <1>2 DEF LeaseInv, WaitsForLeases, Unsent
<1>9. SentIsQueued'
  <2>1. Mains' = Mains \cup {b}
    BY <1>1, <1>6 DEF Mains
  <2> QED
    BY <1>1, <1>2, <1>3, <2>1 DEF LeaseInv, SentIsQueued, Sent, Unsent
<1>10. MainsMatch'
  <2> SUFFICES ASSUME NEW p \in Queues, NEW c \in BatchesOf(p)', c.cb = Nil
               PROVE  /\ Sent(c.of)' /\ c.of \notin executed
                      /\ target[c.of] = p
                      /\ c.ranges = claims[c.of]
                      /\ c.waits = leases[c.of]
                      /\ c.of \notin c.after
                      /\ \A t \in c.after : ~Unsent(t)'
    BY <1>1 DEF MainsMatch
  <2>1. CASE c \in BatchesOf(p)
    <3>1. c.of \in Submissions /\ c.after \subseteq Submissions
      BY <2>1, WorkType DEF LeaseInv
    <3> QED
      BY <2>1, <3>1, <1>2 DEF LeaseInv, MainsMatch, Sent, Unsent
  <2>2. CASE c \notin BatchesOf(p)
    <3>1. p = q /\ c = b
      BY <2>2, <1>6
    <3>2. b.after \subseteq Submissions
      BY <1>1 DEF Batch
    <3> QED
      BY <3>1, <3>2, <1>1, <1>2, <1>3, <1>4 DEF Sent, Unsent
  <2> QED
    BY <2>1, <2>2
<1>11. ReleasesMatch'
  <2> SUFFICES ASSUME NEW p \in Queues, NEW c \in BatchesOf(p), c.cb # Nil
               PROVE  stage'[c.of] \in {"finishing", "recorded", "sent", "attached"}
    BY <1>1, <1>6 DEF LeaseInv, ReleasesMatch
  <2>1. /\ c.of \in Submissions
        /\ stage[c.of] \in {"finishing", "recorded", "sent", "attached"}
    BY WorkType DEF LeaseInv, ReleasesMatch
  <2> QED
    BY <2>1, <1>2
<1> QED
  BY <1>6, <1>7, <1>8, <1>9, <1>10, <1>11 DEF LeaseInv

LEMMA LeaseExecuteRelease ==
    ASSUME LeaseInv, TypeOK', NEW q \in Queues, ExecuteRelease(q)
    PROVE  LeaseInv'
<1> DEFINE b == Head(gpuQueue[q])
<1>1. /\ executed' = executed /\ waits' = waits /\ claims' = claims /\ groups' = groups
      /\ target' = target /\ leases' = leases /\ released' = released
      /\ home' = home /\ cache' = cache /\ stage' = stage
      /\ gpuQueue[q] # <<>> /\ gpuQueue' = [gpuQueue EXCEPT ![q] = Tail(@)]
      /\ b.cb # Nil
      /\ semaphore' = [semaphore EXCEPT ![b.cb] = "signaled"]
  BY DEF ExecuteRelease, hostVars, poolVars
<1>2. /\ b \in BatchesOf(q)
      /\ \A p \in Queues : BatchesOf(p)' = BatchesOf(p) \ {b}
      /\ Work' = Work \ {b}
      /\ BatchesDistinct'
  BY <1>1, TailWork DEF LeaseInv
<1>3. /\ b.of \in Submissions \ executed /\ b.cb \in CmdBufs /\ b.cb \in leases[b.of]
      /\ semaphore[b.cb] = "signaling"
  BY <1>1, <1>2, WorkType DEF LeaseInv, ReleasesMatch
<1>4. Mains' = Mains
  BY <1>1, <1>2 DEF Mains
<1>5. LeasedOnce' /\ WaitsForLeases' /\ SentIsQueued'
  BY <1>1, <1>4 DEF LeaseInv, LeasedOnce, WaitsForLeases, SentIsQueued, Sent, Unsent
<1>6. MainsMatch'
  BY <1>1, <1>2 DEF LeaseInv, MainsMatch, Sent, Unsent
<1>7. ReleasesMatch'
  <2> SUFFICES ASSUME NEW p \in Queues, NEW c \in BatchesOf(p), c # b, c.cb # Nil
               PROVE  semaphore'[c.cb] = "signaling"
    BY <1>1, <1>2 DEF LeaseInv, ReleasesMatch
  <2>1. /\ c.of \in Submissions /\ c.cb \in CmdBufs /\ c.cb \in leases[c.of]
        /\ semaphore[c.cb] = "signaling"
    BY WorkType DEF LeaseInv, ReleasesMatch
  <2>2. c.cb # b.cb
    <3> SUFFICES ASSUME c.cb = b.cb PROVE FALSE
      OBVIOUS
    <3>1. c.of = b.of
      BY <2>1, <1>3 DEF LeaseInv, LeasedOnce
    <3> QED
      BY <3>1, <1>2 DEF LeaseInv, BatchesDistinct, BatchesOf
  <2> QED
    BY <2>1, <2>2, <1>1, <1>3 DEF LeaseInv, TypeOK
<1>8. SemaphoresFree'
  <2>1. semaphore'[b.cb] = "signaled"
        /\ \A c \in CmdBufs \ {b.cb} : semaphore'[c] = semaphore[c]
    BY <1>1, <1>3 DEF LeaseInv, TypeOK
  <2> QED
    BY <2>1, <1>1, <1>3 DEF LeaseInv, SemaphoresFree
<1> QED
  BY <1>2, <1>5, <1>6, <1>7, <1>8 DEF LeaseInv

LEMMA LeaseExecuteMain ==
    ASSUME LeaseInv, TypeOK', NEW q \in Queues, ExecuteMain(q)
    PROVE  LeaseInv'
<1> DEFINE b == Head(gpuQueue[q])
<1>1. /\ executed' = executed \cup {b.of}
      /\ waits' = waits /\ claims' = claims /\ groups' = groups
      /\ target' = target /\ leases' = leases /\ released' = released
      /\ home' = home /\ cache' = cache /\ stage' = stage
      /\ gpuQueue[q] # <<>> /\ gpuQueue' = [gpuQueue EXCEPT ![q] = Tail(@)]
      /\ b.cb = Nil
      /\ \A cb \in b.waits : semaphore[cb] = "signaled"
      /\ semaphore' = [cb \in CmdBufs |-> IF cb \in b.waits THEN "unsignaled" ELSE semaphore[cb]]
  BY DEF ExecuteMain, Ready, hostVars, poolVars
<1>2. /\ b \in BatchesOf(q)
      /\ \A p \in Queues : BatchesOf(p)' = BatchesOf(p) \ {b}
      /\ Work' = Work \ {b}
      /\ BatchesDistinct'
  BY <1>1, TailWork DEF LeaseInv
<1>3. /\ b.of \in Submissions \ executed /\ b.waits = leases[b.of] /\ Sent(b.of)
  BY <1>1, <1>2, WorkType DEF LeaseInv, MainsMatch
<1>4. Mains' = Mains \ {b} /\ Releases' = Releases
  BY <1>1, <1>2 DEF Mains, Releases
\* A submission has one main command buffer.
<1>5. \A p \in Queues : \A c \in BatchesOf(p) : c.cb = Nil /\ c.of = b.of => c = b
  BY <1>1, <1>2 DEF LeaseInv, BatchesDistinct, BatchesOf
<1>6. LeasedOnce' /\ WaitsForLeases'
  BY <1>1 DEF LeaseInv, LeasedOnce, WaitsForLeases, Unsent
<1>7. SentIsQueued'
  BY <1>1, <1>3, <1>4 DEF LeaseInv, SentIsQueued, Sent, Unsent
<1>8. MainsMatch'
  BY <1>1, <1>2, <1>5 DEF LeaseInv, MainsMatch, Sent, Unsent
<1>9. ReleasesMatch'
  <2> SUFFICES ASSUME NEW p \in Queues, NEW c \in BatchesOf(p), c.cb # Nil
               PROVE  c.of # b.of /\ semaphore'[c.cb] = "signaling"
    BY <1>1, <1>2 DEF LeaseInv, ReleasesMatch
  <2>1. /\ c.of \in Submissions /\ c.cb \in CmdBufs /\ c.cb \in leases[c.of]
        /\ semaphore[c.cb] = "signaling"
    BY WorkType DEF LeaseInv, ReleasesMatch
  <2>2. c.cb \notin b.waits
    BY <2>1, <1>1
  <2> QED
    BY <2>1, <2>2, <1>1, <1>3
<1>10. SemaphoresFree'
  <2> SUFFICES ASSUME NEW cb \in CmdBufs
               PROVE  semaphore'[cb] = "unsignaled"
                        <=> \A t \in Submissions \ executed' : cb \notin leases[t]
    BY <1>1 DEF SemaphoresFree
  <2>1. CASE cb \in leases[b.of]
    BY <2>1, <1>1, <1>3 DEF LeaseInv, LeasedOnce
  <2>2. CASE cb \notin leases[b.of]
    BY <2>2, <1>1, <1>3 DEF LeaseInv, SemaphoresFree
  <2> QED
    BY <2>1, <2>2
<1> QED
  BY <1>2, <1>6, <1>7, <1>8, <1>9, <1>10 DEF LeaseInv

\* Nothing that has submitted a release is abandoned.
LEMMA LeaseStep ==
    ASSUME MayAbandon = FALSE, LeaseInv, [Next]_vars
    PROVE  LeaseInv'
<1>1. TypeOK /\ TypeOK'
  BY TypeStep DEF LeaseInv
<1>2. ASSUME NEW s \in Submissions, NEW R \in (SUBSET Ranges) \ {{}}, Record(s, R)
      PROVE  LeaseInv'
  BY <1>1, <1>2, LeaseHost DEF Record, TypeOK, poolVars, gpuVars
<1>3. ASSUME NEW s \in Submissions, Finish(s)
      PROVE  LeaseInv'
  BY <1>1, <1>3, LeaseHost DEF Finish, TypeOK, poolVars, gpuVars
<1>4. ASSUME NEW s \in Submissions, NEW q \in Queues, NEW cb \in CmdBufs,
             SubmitRelease(s, q, cb)
      PROVE  LeaseInv'
  BY <1>1, <1>4, LeaseSubmit
<1>5. ASSUME NEW s \in Submissions, Finished(s)
      PROVE  LeaseInv'
  BY <1>1, <1>5, LeaseHost DEF Finished, TypeOK, poolVars, gpuVars
<1>6. ASSUME NEW s \in Submissions, Send(s)
      PROVE  LeaseInv'
  BY <1>1, <1>6, LeaseSend
<1>7. ASSUME NEW s \in Submissions, Attach(s)
      PROVE  LeaseInv'
  BY <1>1, <1>7, LeaseHost DEF Attach, TypeOK, poolVars, gpuVars
<1>8. ASSUME NEW s \in Submissions, Observe(s)
      PROVE  LeaseInv'
  BY <1>1, <1>8, LeaseHost DEF Observe, TypeOK, poolVars, gpuVars
<1>9. ASSUME NEW s \in Submissions, Abandon(s)
      PROVE  LeaseInv'
  BY <1>1, <1>9, LeaseHost DEF Abandon, TypeOK, poolVars, gpuVars
<1>10. ASSUME NEW s \in Submissions, NEW cb \in CmdBufs, ReturnCmdBuf(s, cb)
       PROVE  LeaseInv'
  BY <1>1, <1>10, LeaseReturn
<1>11. ASSUME NEW s \in Submissions, DropCommands(s)
       PROVE  LeaseInv'
  BY <1>1, <1>11, LeaseHost DEF DropCommands, TypeOK, poolVars, gpuVars
<1>12. ASSUME NEW q \in Queues, ExecuteRelease(q)
       PROVE  LeaseInv'
  BY <1>1, <1>12, LeaseExecuteRelease
<1>13. ASSUME NEW q \in Queues, ExecuteMain(q)
       PROVE  LeaseInv'
  BY <1>1, <1>13, LeaseExecuteMain
<1>14. ASSUME \/ UNCHANGED vars
              \/ \E s \in Submissions, cb \in CmdBufs : WaitRelease(s, cb)
       PROVE  LeaseInv'
  <2>1. /\ gpuQueue' = gpuQueue /\ semaphore' = semaphore /\ executed' = executed
        /\ leases' = leases /\ released' = released /\ target' = target /\ waits' = waits
        /\ stage' = stage /\ claims' = claims /\ groups' = groups
        /\ home' = home /\ cache' = cache
    BY <1>14 DEF vars, hostVars, poolVars, gpuVars, WaitRelease
  <2>2. BatchesDistinct' /\ LeasedOnce' /\ SemaphoresFree' /\ WaitsForLeases'
    BY <2>1, SameQueues
       DEF LeaseInv, LeasedOnce, SemaphoresFree, WaitsForLeases, Unsent
  <2>3. SentIsQueued' /\ MainsMatch' /\ ReleasesMatch'
    BY <2>1, SameQueues
       DEF LeaseInv, SentIsQueued, MainsMatch, ReleasesMatch, Sent, Unsent
  <2> QED
    BY <1>1, <2>2, <2>3 DEF LeaseInv
<1> QED
  BY <1>2, <1>3, <1>4, <1>5, <1>6, <1>7, <1>8, <1>9, <1>10, <1>11, <1>12, <1>13, <1>14
     DEF Next, Submission, Proceed, Gpu

\* A release semaphore has one waiter at most, if no submission is abandoned once it
\* has submitted a release.
THEOREM WaitsExclude ==
    MayAbandon = FALSE => (Spec => []WaitsAreExclusive)
<1> SUFFICES ASSUME MayAbandon = FALSE
             PROVE  Spec => []WaitsAreExclusive
  OBVIOUS
<1>1. LeaseInv => WaitsAreExclusive
  <2> SUFFICES ASSUME LeaseInv, NEW s \in Submissions, NEW t \in Submissions, s # t
               PROVE  waits[s] \cap waits[t] = {}
    BY DEF WaitsAreExclusive
  <2>1. waits[s] \subseteq leases[s] /\ waits[t] \subseteq leases[t]
    BY DEF LeaseInv, WaitsForLeases
  <2> QED
    BY <2>1 DEF LeaseInv, LeasedOnce
<1>2. LeaseInv /\ [Next]_vars => LeaseInv'
  BY LeaseStep
<1> QED
  BY LeaseInit, <1>1, <1>2, PTL DEF Spec

\* A command buffer that is leased for a release, and its semaphore, are not in use,
\* if no submission is abandoned once it has submitted a release.
THEOREM ReleasesReuse ==
    MayAbandon = FALSE => (Spec => ReleaseReusable)
<1> SUFFICES ASSUME MayAbandon = FALSE
             PROVE  Spec => ReleaseReusable
  OBVIOUS
<1> DEFINE Leased ==
        \A s \in Submissions, cb \in CmdBufs :
         cb \in leases'[s] \ leases[s] =>
            /\ semaphore[cb] = "unsignaled"
            /\ \A t \in Submissions : ~Unfinished(t, cb)
<1>1. LeaseInv /\ [Next]_vars => [Leased]_vars
  <2> SUFFICES ASSUME LeaseInv, [Next]_vars,
                      NEW s \in Submissions, NEW cb \in CmdBufs,
                      cb \in leases'[s], cb \notin leases[s]
               PROVE  /\ semaphore[cb] = "unsignaled"
                      /\ \A t \in Submissions : ~Unfinished(t, cb)
    OBVIOUS
  <2>1. \E q \in Queues : SubmitRelease(s, q, cb)
    <3>1. ASSUME NEW t \in Submissions, NEW q \in Queues, NEW c \in CmdBufs,
                 SubmitRelease(t, q, c)
          PROVE  SubmitRelease(s, q, cb)
      <4>1. s = t /\ cb = c
        BY <3>1 DEF SubmitRelease, LeaseInv, TypeOK
      <4> QED
        BY <3>1, <4>1
    <3>2. ASSUME NEW t \in Submissions, NEW c \in CmdBufs, ReturnCmdBuf(t, c)
          PROVE  FALSE
      BY <3>2 DEF ReturnCmdBuf, LeaseInv, TypeOK
    <3>3. \/ leases' = leases
          \/ \E t \in Submissions, c \in CmdBufs :
                ReturnCmdBuf(t, c) \/ \E q \in Queues : SubmitRelease(t, q, c)
      BY DEF Next, Submission, Proceed, Gpu, vars, hostVars, Record, Finish, Finished, Send,
             Attach, Observe, Abandon, WaitRelease, DropCommands, ExecuteRelease, ExecuteMain
    <3> QED
      BY <3>1, <3>2, <3>3
  <2>2. PICK q \in Queues : Lease(cb, Family(q))
    BY <2>1 DEF SubmitRelease
  <2>3. semaphore[cb] = "unsignaled" /\ \A b \in Work : b.cb # cb
    BY <2>2, LeasedIsFree
  <2> QED
    BY <2>3 DEF Unfinished, Work, BatchesOf
<1>2. LeaseInv /\ [Next]_vars => LeaseInv'
  BY LeaseStep
<1> QED
  BY LeaseInit, <1>1, <1>2, PTL DEF Spec, ReleaseReusable

-----------------------------------------------------------------------------
(* What is reported of the execution of commands                           *)

Reported == {"SUBMITTED", "EXECUTED", "SUBMITTED_ABANDONED"}

\* The GPU has, or had, the main command buffer of s.
Dispatched(s) == s \in executed \/ \E b \in Mains : b.of = s

TrackingInv ==
    /\ TypeOK
    /\ \A s \in Submissions :
        /\ tracking[s] \in Reported => stage[s] \in {"attached", "discarded", "dropped"}
        /\ tracking[s] = "EXECUTED" => s \in executed
        /\ Dispatched(s) => stage[s] = "sent" \/ tracking[s] \in Reported
        /\ stage[s] = "attached" => tracking[s] \in Reported
        /\ stage[s] \notin {"discarded", "dropped"} => tracking[s] # "ABANDONED"

LEMMA TrackingInit == Init => TrackingInv
<1> SUFFICES ASSUME Init PROVE TrackingInv
  OBVIOUS
<1>1. \A q \in Queues : DOMAIN gpuQueue[q] = {}
  BY DEF Init
<1>2. Mains = {}
  BY <1>1 DEF Mains, Work, BatchesOf
<1> QED
  BY <1>2, TypeInit DEF Init, TrackingInv, Reported, Dispatched

\* What a step changes of what is reported of s.
TrackingMoves(s) ==
    \/ tracking'[s] = tracking[s]
    \/ stage[s] = "sent" /\ stage'[s] = "attached" /\ tracking[s] = "PENDING"
       /\ tracking'[s] = "SUBMITTED"
    \/ stage[s] = "attached" /\ stage'[s] = "discarded" /\ tracking[s] = "SUBMITTED"
       /\ s \in executed /\ tracking'[s] = "EXECUTED"
    \/ stage[s] = "discarded" /\ stage'[s] = "dropped" /\ tracking[s] = "PENDING"
       /\ tracking'[s] = "ABANDONED"
    \/ stage[s] = "discarded" /\ stage'[s] = "dropped" /\ tracking[s] = "SUBMITTED"
       /\ tracking'[s] = "SUBMITTED_ABANDONED"

\* What a step changes of the stage of s.
StageMoves(s) ==
    \/ stage'[s] = stage[s]
    \/ stage'[s] \in {"recording", "finishing", "recorded"} /\ tracking'[s] = tracking[s]
       /\ Unsent(s)
    \/ stage[s] = "recorded" /\ stage'[s] = "sent" /\ tracking'[s] = tracking[s]
    \/ stage[s] = "sent" /\ stage'[s] = "attached" /\ tracking'[s] # "PENDING"
    \/ stage[s] = "attached" /\ stage'[s] = "discarded"
    \/ Unsent(s) /\ stage'[s] = "discarded" /\ tracking'[s] = tracking[s]
    \/ stage[s] = "discarded" /\ stage'[s] = "dropped"

LEMMA TrackingMoved ==
    ASSUME TrackingInv, [Next]_vars, NEW s \in Submissions
    PROVE  TrackingMoves(s) /\ StageMoves(s)
<1>1. /\ stage \in [Submissions -> Stages] /\ tracking \in [Submissions -> States]
      /\ stage[s] = "attached" => tracking[s] \in Reported
  BY DEF TrackingInv, TypeOK
<1>2. ASSUME NEW t \in Submissions, Finish(t) \/ Finished(t) \/ Send(t) \/ Abandon(t)
      PROVE  TrackingMoves(s) /\ StageMoves(s)
  BY <1>1, <1>2 DEF Finish, Finished, Send, Abandon, TrackingMoves, StageMoves, Unsent
<1>3. ASSUME NEW t \in Submissions, Attach(t)
      PROVE  TrackingMoves(s) /\ StageMoves(s)
  BY <1>1, <1>3 DEF Attach, TrackingMoves, StageMoves
<1>4. ASSUME NEW t \in Submissions, Observe(t)
      PROVE  TrackingMoves(s) /\ StageMoves(s)
  BY <1>1, <1>4 DEF Observe, TrackingMoves, StageMoves, Reported
<1>5. ASSUME NEW t \in Submissions, DropCommands(t)
      PROVE  TrackingMoves(s) /\ StageMoves(s)
  BY <1>1, <1>5 DEF DropCommands, TrackingMoves, StageMoves
<1>6. \/ stage' = stage /\ tracking' = tracking
      \/ \E t \in Submissions :
            \/ \E R \in (SUBSET Ranges) \ {{}} : Record(t, R)
            \/ Finish(t) \/ Finished(t) \/ Send(t) \/ Abandon(t)
            \/ Attach(t) \/ Observe(t) \/ DropCommands(t)
  BY ZenonT(40) DEF Next, Submission, Proceed, Gpu, vars, hostVars, SubmitRelease, ReturnCmdBuf,
         WaitRelease, ExecuteRelease, ExecuteMain
<1>7. ASSUME NEW t \in Submissions, NEW R \in (SUBSET Ranges) \ {{}}, Record(t, R)
      PROVE  TrackingMoves(s) /\ StageMoves(s)
  BY <1>1, <1>7 DEF Record, TrackingMoves, StageMoves, Unsent
<1>8. CASE stage' = stage /\ tracking' = tracking
  BY <1>8 DEF TrackingMoves, StageMoves
<1> QED
  BY <1>2, <1>3, <1>4, <1>5, <1>6, <1>7, <1>8

\* A queue only loses batches when one is executed.
LEMMA TailSubset ==
    ASSUME TypeOK, NEW q \in Queues, gpuQueue[q] # <<>>,
           gpuQueue' = [gpuQueue EXCEPT ![q] = Tail(@)]
    PROVE  Head(gpuQueue[q]) \in Work /\ Work' \subseteq Work
<1>1. gpuQueue[q] \in Seq(Batch) /\ gpuQueue \in [Queues -> Seq(Batch)]
  BY QueueType DEF TypeOK
<1>2. /\ DOMAIN gpuQueue[q] = 1..Len(gpuQueue[q]) /\ Len(gpuQueue[q]) \in Nat \ {0}
      /\ Head(gpuQueue[q]) = gpuQueue[q][1]
  BY <1>1, LenProperties, EmptySeq
<1>3. /\ DOMAIN gpuQueue'[q] = 1..(Len(gpuQueue[q]) - 1)
      /\ \A i \in DOMAIN gpuQueue'[q] :
            gpuQueue'[q][i] = gpuQueue[q][i + 1] /\ i + 1 \in DOMAIN gpuQueue[q]
  BY <1>1, <1>2, HeadTailProperties, LenProperties
<1>4. \A p \in Queues : p # q => gpuQueue'[p] = gpuQueue[p]
  BY <1>1
<1>5. \A p \in Queues : BatchesOf(p)' \subseteq BatchesOf(p)
  BY <1>3, <1>4 DEF BatchesOf
<1>6. Head(gpuQueue[q]) \in BatchesOf(q)
  BY <1>2 DEF BatchesOf
<1> QED
  BY <1>5, <1>6 DEF Work

LEMMA TrackingStep ==
    ASSUME TrackingInv, [Next]_vars
    PROVE  TrackingInv'
<1>1. TypeOK'
  BY TypeStep DEF TrackingInv
<1>2. stage \in [Submissions -> Stages] /\ tracking \in [Submissions -> States]
  BY DEF TrackingInv, TypeOK
<1>g. \/ gpuQueue' = gpuQueue /\ executed' = executed
      \/ \E t \in Submissions :
            Send(t) \/ \E q \in Queues, cb \in CmdBufs : SubmitRelease(t, q, cb)
      \/ \E q \in Queues : ExecuteRelease(q) \/ ExecuteMain(q)
  BY DEF Next, Submission, Proceed, Gpu, vars, gpuVars, Record, Finish, Finished, Attach,
         Observe, Abandon, ReturnCmdBuf, WaitRelease, DropCommands
\* The GPU is given main command buffers by Send only.
<1>3. ASSUME NEW s \in Submissions, Dispatched(s)'
      PROVE  Dispatched(s) \/ stage'[s] = "sent"
  <2>1. ASSUME NEW t \in Submissions, NEW q \in Queues, NEW cb \in CmdBufs,
               SubmitRelease(t, q, cb)
        PROVE  Dispatched(s)
    <3> DEFINE b == ReleaseOf(t, q, cb)
    <3>1. b \in Batch /\ b.cb # Nil
      BY NewBatchType, NilAssumption DEF TrackingInv, ReleaseOf
    <3>2. gpuQueue' = [gpuQueue EXCEPT ![q] = Append(@, b)] /\ executed' = executed
      BY <2>1 DEF SubmitRelease, ReleaseOf
    <3>3. Work' = Work \cup {b}
      BY <3>1, <3>2, AppendWork DEF TrackingInv
    <3> QED
      BY <1>3, <3>1, <3>2, <3>3 DEF Dispatched, Mains
  <2>2. ASSUME NEW t \in Submissions, Send(t)
        PROVE  Dispatched(s) \/ stage'[s] = "sent"
    <3> DEFINE b == MainOf(t)
    <3>1. b \in Batch /\ b.of = t
      BY NewBatchType DEF TrackingInv, MainOf
    <3>2. /\ gpuQueue' = [gpuQueue EXCEPT ![target[t]] = Append(@, b)] /\ executed' = executed
          /\ target[t] \in Queues /\ stage'[t] = "sent"
      BY <2>2 DEF Send, TrackingInv, TypeOK, MainOf
    <3>3. Work' = Work \cup {b}
      BY <3>1, <3>2, AppendWork DEF TrackingInv
    <3> QED
      BY <1>3, <3>1, <3>2, <3>3 DEF Dispatched, Mains
  <2>3. ASSUME NEW q \in Queues, ExecuteRelease(q) \/ ExecuteMain(q)
        PROVE  Dispatched(s)
    <3> DEFINE h == Head(gpuQueue[q])
    <3>1. /\ gpuQueue[q] # <<>> /\ gpuQueue' = [gpuQueue EXCEPT ![q] = Tail(@)]
          /\ executed' = executed \/ (h.cb = Nil /\ executed' = executed \cup {h.of})
      BY <2>3 DEF ExecuteRelease, ExecuteMain
    <3>2. h \in Work /\ Work' \subseteq Work
      BY <3>1, TailSubset DEF TrackingInv
    <3> QED
      BY <1>3, <3>1, <3>2 DEF Dispatched, Mains
  <2>4. CASE gpuQueue' = gpuQueue /\ executed' = executed
    BY <1>3, <2>4 DEF Dispatched, Mains, Work, BatchesOf
  <2> QED
    BY <1>g, <2>1, <2>2, <2>3, <2>4
<1>4. executed \subseteq executed'
  <2>1. ASSUME NEW t \in Submissions, NEW q \in Queues, NEW cb \in CmdBufs,
               SubmitRelease(t, q, cb)
        PROVE  executed \subseteq executed'
    BY <2>1 DEF SubmitRelease
  <2>2. ASSUME NEW q \in Queues, ExecuteRelease(q) \/ ExecuteMain(q)
        PROVE  executed \subseteq executed'
    BY <2>2 DEF ExecuteRelease, ExecuteMain
  <2>3. ASSUME NEW t \in Submissions, Send(t)
        PROVE  executed \subseteq executed'
    BY <2>3 DEF Send
  <2> QED
    BY <1>g, <2>1, <2>2, <2>3
<1> SUFFICES ASSUME NEW s \in Submissions
             PROVE  /\ tracking'[s] \in Reported => stage'[s] \in {"attached", "discarded", "dropped"}
                    /\ tracking'[s] = "EXECUTED" => s \in executed'
                    /\ Dispatched(s)' => stage'[s] = "sent" \/ tracking'[s] \in Reported
                    /\ stage'[s] = "attached" => tracking'[s] \in Reported
                    /\ stage'[s] \notin {"discarded", "dropped"} => tracking'[s] # "ABANDONED"
  BY <1>1 DEF TrackingInv, Reported
<1>5. /\ tracking[s] \in Reported => stage[s] \in {"attached", "discarded", "dropped"}
      /\ tracking[s] = "EXECUTED" => s \in executed
      /\ Dispatched(s) => stage[s] = "sent" \/ tracking[s] \in Reported
      /\ stage[s] = "attached" => tracking[s] \in Reported
      /\ stage[s] \notin {"discarded", "dropped"} => tracking[s] # "ABANDONED"
      /\ stage[s] \in Stages /\ tracking[s] \in States
      /\ stage'[s] \in Stages /\ tracking'[s] \in States
  BY <1>1, <1>2 DEF TrackingInv, TypeOK
<1>6. TrackingMoves(s) /\ StageMoves(s)
  BY TrackingMoved
<1>7. tracking'[s] \in Reported => stage'[s] \in {"attached", "discarded", "dropped"}
  BY <1>5, <1>6 DEF TrackingMoves, StageMoves, Reported, Unsent
<1>8. tracking'[s] = "EXECUTED" => s \in executed'
  BY <1>4, <1>5, <1>6 DEF TrackingMoves
<1>9. stage'[s] = "attached" => tracking'[s] \in Reported
  BY <1>5, <1>6 DEF TrackingMoves, StageMoves, Reported, States
<1>10. Dispatched(s)' => stage'[s] = "sent" \/ tracking'[s] \in Reported
  <2>1. CASE Dispatched(s)' /\ stage'[s] # "sent"
    <3>1. stage[s] = "sent" \/ tracking[s] \in Reported
      BY <1>3, <1>5, <2>1
    <3>2. stage[s] = "sent" => stage'[s] = "attached"
      BY <1>6, <2>1 DEF StageMoves, Unsent
    <3>3. tracking[s] \in Reported => tracking'[s] \in Reported
      BY <1>6 DEF TrackingMoves, Reported
    <3> QED
      BY <1>9, <3>1, <3>2, <3>3
  <2> QED
    BY <2>1
<1>11. stage'[s] \notin {"discarded", "dropped"} => tracking'[s] # "ABANDONED"
  BY <1>5, <1>6 DEF TrackingMoves, StageMoves, Unsent
<1> QED
  BY <1>7, <1>8, <1>9, <1>10, <1>11

\* What is reported of the execution of a submission is true and is never taken back,
\* whether or not submissions are abandoned half way.
THEOREM TrackingTells == Spec => TrackingTruthful
<1> DEFINE Told ==
        \A s \in Submissions :
         /\ tracking'[s] \in {"SUBMITTED", "EXECUTED", "SUBMITTED_ABANDONED"} =>
              stage[s] \notin {"new", "recording", "finishing", "recorded"}
         /\ tracking'[s] = "EXECUTED" => s \in executed
         /\ tracking'[s] = "ABANDONED" =>
              s \notin executed
              /\ \A q \in Queues : \A i \in DOMAIN gpuQueue'[q] :
                   gpuQueue'[q][i].of = s => gpuQueue'[q][i].cb # Nil
         /\ tracking[s] = "SUBMITTED" =>
              tracking'[s] \in {"SUBMITTED", "EXECUTED", "SUBMITTED_ABANDONED"}
         /\ tracking[s] \in {"EXECUTED", "ABANDONED"} => tracking'[s] = tracking[s]
<1>1. TrackingInv /\ [Next]_vars => TrackingInv'
  BY TrackingStep
<1>2. TrackingInv /\ [Next]_vars => [Told]_vars
  <2> SUFFICES ASSUME TrackingInv, [Next]_vars, NEW s \in Submissions
               PROVE  /\ tracking'[s] \in Reported =>
                            stage[s] \notin {"new", "recording", "finishing", "recorded"}
                      /\ tracking'[s] = "EXECUTED" => s \in executed
                      /\ tracking'[s] = "ABANDONED" =>
                            s \notin executed
                            /\ \A q \in Queues : \A i \in DOMAIN gpuQueue'[q] :
                                 gpuQueue'[q][i].of = s => gpuQueue'[q][i].cb # Nil
                      /\ tracking[s] = "SUBMITTED" => tracking'[s] \in Reported
                      /\ tracking[s] \in {"EXECUTED", "ABANDONED"} => tracking'[s] = tracking[s]
    BY DEF Reported
  <2>1. TrackingInv'
    BY TrackingStep
  <2>2. TrackingMoves(s) /\ StageMoves(s)
    BY TrackingMoved
  <2>3. /\ tracking[s] \in Reported => stage[s] \in {"attached", "discarded", "dropped"}
        /\ tracking[s] = "EXECUTED" => s \in executed
        /\ Dispatched(s) => stage[s] = "sent" \/ tracking[s] \in Reported
        /\ Dispatched(s)' => stage'[s] = "sent" \/ tracking'[s] \in Reported
        /\ tracking'[s] = "ABANDONED" => stage'[s] \in {"discarded", "dropped"}
        /\ tracking[s] = "ABANDONED" => stage[s] \in {"discarded", "dropped"}
    BY <2>1 DEF TrackingInv, Reported
  <2>4. tracking'[s] = "ABANDONED" => ~Dispatched(s)'
    BY <2>3 DEF Reported
  <2>5. tracking'[s] = "ABANDONED" => ~Dispatched(s)
    BY <2>2, <2>3 DEF Reported, TrackingMoves
  <2>6. ~Dispatched(s)' => \A q \in Queues : \A i \in DOMAIN gpuQueue'[q] :
                              gpuQueue'[q][i].of = s => gpuQueue'[q][i].cb # Nil
    BY DEF Dispatched, Mains, Work, BatchesOf
  <2>7. ~Dispatched(s) => s \notin executed
    BY DEF Dispatched
  <2> QED
    BY <2>2, <2>3, <2>4, <2>5, <2>6, <2>7 DEF TrackingMoves, Reported
<1> QED
  BY TrackingInit, <1>1, <1>2, PTL DEF Spec, TrackingTruthful

-----------------------------------------------------------------------------
(* Who has a range, and who gets it next                                   *)

\* Those that were sent, are not executed, and use the range.
Claimants(r) == {s \in Submissions \ executed : Sent(s) /\ r \in claims[s]}

\* Of these, the ones that s comes after.
Before(s, r) ==
    {t \in Claimants(r) \ {s} : \A b \in Mains : b.of = s => t \in b.after}

\* Of those in C, l is executed last.
Last(C, l, r) == l \in C /\ C \ {l} \subseteq Before(l, r)

Waiting(s, r) ==
    /\ r \in claims[s] /\ s \notin executed
    /\ Unpublished(s) \/ stage[s] = "attached"

\* The release of r that s has submitted, if it is not executed.
Releasing(s, r) == \E b \in Releases : b.of = s /\ r \in b.ranges
Released(s, r) == \E q \in released[s] : r \in groups[s][q]
Arrived(s, r) == Released(s, r) /\ ~Releasing(s, r)

Own(q) == <<Family(q), Family(q)>>

\* Submissions that use a range and are not published leave it in one family, which
\* has it, if there are several.
UsersAgree ==
    \A s, t \in Submissions : s # t /\ Unpublished(s) /\ Unpublished(t) =>
        \A r \in (claims[s] \cap claims[t]) \ disputed :
            /\ Family(target[s]) = Family(target[t])
            /\ \A q \in Queues : r \notin groups[s][q]

\* What a submission releases, and from where.
GroupsMatch ==
    /\ \A s \in Submissions, q \in Queues :
        /\ groups[s][q] \subseteq claims[s]
        /\ groups[s][q] # {} => Family(q) # Family(target[s])
        /\ stage[s] \in {"recorded", "sent", "attached"} /\ groups[s][q] # {}
              => q \in released[s]
    /\ \A s \in Submissions, p, q \in Queues : p # q => groups[s][p] \cap groups[s][q] = {}
    /\ \A s \in Submissions : stage[s] = "new" => claims[s] = {}

\* Of two that use a range, one comes after the other.
Ordered ==
    \A r \in Ranges : \A s, t \in Claimants(r) :
        s # t => s \in Before(t, r) \/ t \in Before(s, r)

\* Whom a submission gets a range from: the last of those before it, which is on the
\* queue that releases the range, before the release; or on a queue of its family.
Sources ==
    \A s \in Submissions, r \in Ranges \ disputed : Waiting(s, r) /\ Before(s, r) # {} =>
        \E l \in Submissions :
            /\ Last(Before(s, r), l, r)
            /\ \A q \in Queues : r \in groups[s][q] => target[l] = q
            /\ (\A q \in Queues : r \notin groups[s][q]) => Family(target[l]) = Family(target[s])
            /\ \A b \in Releases : b.of = s /\ r \in b.ranges =>
                  \E a \in Mains : a.of = l /\ Behind(a, b)

\* Where the range is when nobody is before it.
Places ==
    \A s \in Submissions, r \in Ranges \ disputed : Waiting(s, r) =>
        /\ Arrived(s, r) => Before(s, r) = {}
        /\ Before(s, r) = {} =>
            /\ \A q \in Queues : r \in groups[s][q] =>
                  gpuOwner[r] = IF Arrived(s, r) THEN <<Family(q), Family(target[s])>>
                                ELSE Own(q)
            /\ (\A q \in Queues : r \notin groups[s][q]) =>
                  gpuOwner[r] \in {Own(target[s]), <<Nil, Nil>>}

\* A release comes after submissions that were sent, and that its own comes after.
AfterIsBefore ==
    \A b \in Releases : \A t \in b.after :
        /\ t \in Submissions /\ ~Unsent(t)
        /\ t \notin executed => \A r \in b.ranges \cap claims[t] : t \in Before(b.of, r)

\* A submission releases once from each queue.
ReleasedOnce ==
    \A q \in Queues : \A b, c \in BatchesOf(q) :
        b.cb # Nil /\ c.cb # Nil /\ b.of = c.of => b = c

\* Unless somebody has begun to move the range, or has not published it yet, the host
\* knows where it will be.
Settled(r) ==
    \A s \in Submissions : Unpublished(s) /\ r \in claims[s] =>
        stage[s] # "sent" /\ ~Released(s, r)

OwnerKnown ==
    \A r \in Ranges \ disputed : Settled(r) =>
        /\ Claimants(r) # {} => \E l \in Submissions : Last(Claimants(r), l, r) /\ target[l] = owner[r]
        /\ Claimants(r) = {} =>
              gpuOwner[r] = IF owner[r] = Nil THEN <<Nil, Nil>> ELSE Own(owner[r])

\* What is sent and yet to be published is the last.
SentIsLast ==
    \A s \in Submissions : stage[s] = "sent" => \A r \in claims[s] :
        /\ s \notin executed => Last(Claimants(r), s, r)
        /\ s \in executed => Claimants(r) = {}
        /\ s \in executed /\ r \notin disputed => gpuOwner[r] = Own(target[s])

OwnerInv ==
    /\ LeaseInv
    /\ UsersAgree
    /\ GroupsMatch
    /\ Ordered
    /\ Sources
    /\ Places
    /\ AfterIsBefore
    /\ ReleasedOnce
    /\ OwnerKnown
    /\ SentIsLast
    /\ ContentsDefined

-----------------------------------------------------------------------------
(* First consequences                                                      *)

LEMMA BatchFacts ==
    ASSUME LeaseInv
    PROVE  /\ \A b \in Mains :
                /\ b.of \in Submissions \ executed /\ Sent(b.of)
                /\ b \in BatchesOf(target[b.of])
                /\ b.ranges = claims[b.of]
                /\ b.waits = leases[b.of]
                /\ \A t \in b.after : ~Unsent(t)
           /\ \A c \in Releases :
                /\ c.of \in Submissions \ executed
                /\ stage[c.of] \in {"finishing", "recorded", "sent", "attached"}
                /\ c.cb \in leases[c.of] /\ semaphore[c.cb] = "signaling"
                /\ \E q \in released[c.of] :
                      q \in Queues /\ c \in BatchesOf(q) /\ c.ranges = groups[c.of][q]
<1>1. \A b \in Work : b.of \in Submissions /\ \E q \in Queues : b \in BatchesOf(q)
  BY WorkType DEF LeaseInv, Work
<1> QED
  BY <1>1 DEF LeaseInv, MainsMatch, ReleasesMatch, Mains, Releases

\* What is not sent yet comes after all that is.
LEMMA UnsentIsAfter ==
    ASSUME LeaseInv, NEW s \in Submissions, Unsent(s), NEW r \in Ranges
    PROVE  /\ s \notin executed /\ s \notin Claimants(r)
           /\ Before(s, r) = Claimants(r)
           /\ \A b \in Mains : b.of # s
<1>1. s \notin executed /\ ~Sent(s)
  BY DEF LeaseInv, SentIsQueued, Sent, Unsent
<1>2. \A b \in Mains : b.of # s
  BY <1>1, BatchFacts
<1> QED
  BY <1>1, <1>2 DEF Claimants, Before

LEMMA ClaimantsWait ==
    ASSUME NEW s, NEW r, s \in Claimants(r)
    PROVE  Waiting(s, r) /\ s \in Submissions /\ Sent(s) /\ r \in claims[s]
BY DEF Claimants, Waiting, Sent, Unpublished

\* All that use a range come after the one nobody is before, if that is sent or moves
\* the range.
LEMMA FirstIsBefore ==
    ASSUME OwnerInv, NEW r \in Ranges \ disputed, NEW s \in Submissions,
           NEW t \in Submissions, s # t, Waiting(s, r), Waiting(t, r), Before(s, r) = {},
           Sent(s) \/ \E q \in Queues : r \in groups[s][q]
    PROVE  s \in Before(t, r) /\ Sent(s) /\ ~Arrived(t, r)
<1>1. /\ r \in claims[s] /\ r \in claims[t] /\ s \notin executed /\ t \notin executed
      /\ Unsent(s) \/ Sent(s)
      /\ Unsent(t) \/ Sent(t)
      /\ Unsent(s) => Unpublished(s)
      /\ Unsent(t) => Unpublished(t)
  BY DEF Waiting, Unpublished, Unsent, Sent
<1>3. Sent(s)
  <2> SUFFICES ASSUME Unsent(s), \E q \in Queues : r \in groups[s][q] PROVE FALSE
    BY <1>1
  <2>0. ~Unsent(t)
    BY <1>1 DEF OwnerInv, UsersAgree
  <2>1. t \in Claimants(r)
    BY <1>1, <2>0 DEF Claimants
  <2> QED
    BY <2>1, UnsentIsAfter DEF OwnerInv
<1>4. s \in Claimants(r)
  BY <1>1, <1>3 DEF Claimants
<1>5. s \in Before(t, r)
  <2>1. CASE Unsent(t)
    BY <2>1, <1>4, UnsentIsAfter DEF OwnerInv
  <2>2. CASE Sent(t)
    <3>1. t \in Claimants(r)
      BY <2>2, <1>1 DEF Claimants
    <3> QED
      BY <3>1, <1>4 DEF OwnerInv, Ordered
  <2> QED
    BY <1>1, <2>1, <2>2
<1> QED
  BY <1>3, <1>5 DEF OwnerInv, Places

LEMMA OwnerInit == Init => OwnerInv
<1> SUFFICES ASSUME Init PROVE OwnerInv
  OBVIOUS
<1>1. \A q \in Queues : BatchesOf(q) = {}
  BY DEF Init, BatchesOf
<1>2. Releases = {} /\ Mains = {}
  BY <1>1 DEF Mains, Releases, Work
<1>3. \A s \in Submissions : claims[s] = {} /\ stage[s] = "new"
  BY DEF Init
<1>4. \A r \in Ranges : Claimants(r) = {}
  BY <1>3 DEF Claimants
<1>5. \A s \in Submissions, r \in Ranges : ~Waiting(s, r)
  BY <1>3 DEF Waiting
<1>6. LeaseInv
  BY LeaseInit
<1>7. UsersAgree /\ GroupsMatch
  BY <1>3 DEF Init, UsersAgree, GroupsMatch
<1>8. Ordered /\ Sources /\ Places
  BY <1>4, <1>5 DEF Ordered, Sources, Places
<1>9. AfterIsBefore /\ ReleasedOnce
  BY <1>1, <1>2 DEF AfterIsBefore, ReleasedOnce
<1>10. OwnerKnown /\ SentIsLast /\ ContentsDefined
  BY <1>3, <1>4 DEF Init, OwnerKnown, SentIsLast, ContentsDefined, Own
<1> QED
  BY <1>6, <1>7, <1>8, <1>9, <1>10 DEF OwnerInv

-----------------------------------------------------------------------------
(* Every step keeps the invariant                                          *)

\* Steps of the host that move no range: what is queued and who owns what stay.
LEMMA OwnerHost ==
    ASSUME OwnerInv, LeaseInv', NEW s \in Submissions,
           gpuQueue' = gpuQueue, executed' = executed, gpuOwner' = gpuOwner,
           defined' = defined, claims' = claims, groups' = groups, target' = target,
           owner' = owner, released' = released, disputed' = disputed,
           \A t \in Submissions \ {s} : stage'[t] = stage[t],
           \/ stage'[s] = stage[s]
           \/ stage[s] = "recording" /\ stage'[s] = "finishing"
           \/ stage[s] = "finishing" /\ stage'[s] = "recorded"
              /\ \A q \in Queues : groups[s][q] # {} => q \in released[s]
           \/ stage[s] = "attached" /\ s \in executed /\ stage'[s] = "discarded"
           \/ Unsent(s) /\ released[s] = {} /\ stage'[s] = "discarded"
           \/ stage[s] = "discarded" /\ stage'[s] = "dropped"
    PROVE  OwnerInv'
<1>1. /\ \A q \in Queues : BatchesOf(q)' = BatchesOf(q)
      /\ Mains' = Mains /\ Releases' = Releases
      /\ \A a, b : Behind(a, b)' <=> Behind(a, b)
  BY DEF BatchesOf, Mains, Releases, Work, Behind
<1>2. ASSUME NEW t \in Submissions
      PROVE  /\ t \notin executed => (Sent(t)' <=> Sent(t))
             /\ Unpublished(t)' => Unpublished(t)
             /\ stage'[t] = "attached" => stage[t] = "attached"
             /\ stage'[t] = "sent" => stage[t] = "sent"
             /\ stage'[t] = "new" => stage[t] = "new"
             /\ Unpublished(t) /\ ~Unpublished(t)' => stage[t] # "sent" /\ released[t] = {}
             /\ stage[t] = "sent" => stage'[t] = "sent"
             /\ stage'[t] \in {"recorded", "sent", "attached"} =>
                   \/ stage[t] \in {"recorded", "sent", "attached"}
                   \/ \A q \in Queues : groups[t][q] # {} => q \in released[t]
  BY DEF Sent, Unpublished, Unsent
<1>3. \A r \in Ranges : Claimants(r)' = Claimants(r)
  BY <1>2 DEF Claimants
<1>4. \A t \in Submissions, r \in Ranges : Before(t, r)' = Before(t, r)
  BY <1>1, <1>3 DEF Before
<1>5. \A t \in Submissions, r \in Ranges :
          /\ Waiting(t, r)' => Waiting(t, r)
          /\ Released(t, r)' <=> Released(t, r)
          /\ Arrived(t, r)' <=> Arrived(t, r)
  BY <1>1, <1>2 DEF Waiting, Arrived, Released, Releasing
<1>6. UsersAgree'
  BY <1>2 DEF OwnerInv, UsersAgree
<1>7. GroupsMatch'
  BY <1>2 DEF OwnerInv, GroupsMatch
<1>8. Ordered'
  <2>1. \A r \in Ranges : Claimants(r) \subseteq Submissions
    BY DEF Claimants
  <2> QED
    BY <1>3, <1>4, <2>1 DEF OwnerInv, Ordered
<1>9. Sources'
  BY <1>1, <1>4, <1>5 DEF OwnerInv, Sources, Last
<1>10. Places'
  BY <1>4, <1>5 DEF OwnerInv, Places, Own
<1>11. AfterIsBefore'
  <2>1. \A b \in Releases : b.of \in Submissions /\ b.ranges \subseteq Ranges
    BY WorkType DEF OwnerInv, LeaseInv, Releases
  <2>2. \A t \in Submissions : ~Unsent(t) => ~Unsent(t)'
    BY DEF Unsent
  <2> QED
    BY <1>1, <1>4, <2>1, <2>2 DEF OwnerInv, AfterIsBefore
<1>12. ReleasedOnce'
  BY <1>1 DEF OwnerInv, ReleasedOnce
<1>13. \A r \in Ranges : Settled(r)' => Settled(r)
  BY <1>2, <1>5 DEF Settled, Released
<1>14. OwnerKnown'
  BY <1>3, <1>4, <1>13 DEF OwnerInv, OwnerKnown, Last, Own
<1>15. SentIsLast'
  BY <1>2, <1>3, <1>4 DEF OwnerInv, SentIsLast, Last, Own, LeaseInv, TypeOK
<1>16. ContentsDefined'
  BY DEF OwnerInv, ContentsDefined
<1> QED
  BY <1>6, <1>7, <1>8, <1>9, <1>10, <1>11, <1>12, <1>14, <1>15, <1>16 DEF OwnerInv

\* A range is claimed: where it will come from is what the host knows of it.
LEMMA OwnerRecord ==
    ASSUME OwnerInv, LeaseInv', NEW s \in Submissions, NEW R \in SUBSET Ranges, Record(s, R)
    PROVE  OwnerInv'
<1>1. /\ stage[s] \in {"new", "recording"} /\ Unsent(s)
      /\ \A r \in R : ~BeingSubmitted(r)
      /\ disputed' = disputed \cup {r \in R \ claims[s] : Disputes(r, s)}
      /\ stage' = [stage EXCEPT ![s] = "recording"]
      /\ claims' = [claims EXCEPT ![s] = @ \cup R]
      /\ groups' = [groups EXCEPT ![s] =
                    [q \in Queues |-> @[q] \cup {r \in R \ claims[s] :
                                                   TransferSource(r, target[s]) = q}]]
      /\ owner' = owner /\ target' = target /\ released' = released
      /\ gpuQueue' = gpuQueue /\ gpuOwner' = gpuOwner /\ defined' = defined
      /\ executed' = executed
  BY DEF Record, gpuVars, Unsent
<1>2. TypeOK /\ LeaseInv
  BY DEF OwnerInv, LeaseInv
<1>3. /\ \A q \in Queues : BatchesOf(q)' = BatchesOf(q)
      /\ Mains' = Mains /\ Releases' = Releases
      /\ \A a, b : Behind(a, b)' <=> Behind(a, b)
  BY <1>1 DEF BatchesOf, Mains, Releases, Work, Behind
<1>4. /\ stage'[s] = "recording" /\ claims'[s] = claims[s] \cup R
      /\ released[s] = {}
      /\ stage[s] = "new" => claims[s] = {}
      /\ \A q \in Queues : groups'[s][q] =
            groups[s][q] \cup {r \in R \ claims[s] : TransferSource(r, target[s]) = q}
      /\ \A q \in Queues : groups[s][q] \subseteq claims[s]
  BY <1>1, <1>2 DEF TypeOK, LeaseInv, WaitsForLeases, OwnerInv, GroupsMatch
<1>5. \A t \in Submissions \ {s} :
          stage'[t] = stage[t] /\ claims'[t] = claims[t] /\ groups'[t] = groups[t]
  BY <1>1, <1>2 DEF TypeOK
<1>6. \A r \in Ranges : Claimants(r)' = Claimants(r)
  BY <1>1, <1>4, <1>5 DEF Claimants, Sent
<1>7. \A t \in Submissions, r \in Ranges : Before(t, r)' = Before(t, r)
  BY <1>3, <1>6 DEF Before
\* Nothing of s is queued yet.
<1>8. /\ \A r \in Ranges : Before(s, r) = Claimants(r)
      /\ \A b \in Releases : b.of # s
  BY <1>1, <1>2, UnsentIsAfter, BatchFacts
<1>9. \A t \in Submissions \ {s}, r \in Ranges :
          /\ Waiting(t, r)' <=> Waiting(t, r)
          /\ Released(t, r)' <=> Released(t, r)
          /\ Arrived(t, r)' <=> Arrived(t, r)
          /\ Unpublished(t)' <=> Unpublished(t)
  BY <1>1, <1>3, <1>5 DEF Waiting, Unpublished, Arrived, Released, Releasing
<1>10. \A r \in Ranges : ~Released(s, r) /\ ~Released(s, r)'
  BY <1>1, <1>4 DEF Released
<1>11. \A r \in claims[s] : Waiting(s, r) /\ Unpublished(s)
  <2> SUFFICES ASSUME NEW r \in claims[s] PROVE Waiting(s, r) /\ Unpublished(s)
    OBVIOUS
  <2>1. stage[s] = "recording" /\ s \notin executed
    BY <1>1, <1>2, <1>4, UnsentIsAfter, WorkType DEF LeaseInv, SentIsQueued
  <2> QED
    BY <2>1 DEF Waiting, Unpublished
\* The ranges that are new, and who has them.
<1>12. ASSUME NEW r \in (R \ claims[s]) \ disputed'
       PROVE  /\ Settled(r) /\ r \notin disputed
              /\ \A t \in Submissions \ {s} : Unpublished(t) /\ r \in claims[t] =>
                    /\ Family(target[t]) = Family(target[s])
                    /\ \A q \in Queues : r \notin groups[t][q] /\ r \notin groups'[s][q]
              /\ \A q \in Queues : r \in groups'[s][q] <=>
                    owner[r] = q /\ Family(q) # Family(target[s])
              /\ owner[r] \in Queues \cup {Nil} /\ r \in Ranges
              /\ (\A q \in Queues : r \notin groups'[s][q]) =>
                    owner[r] = Nil \/ Family(owner[r]) = Family(target[s])
  <2>0. ~Disputes(r, s) /\ r \notin disputed
    BY <1>1
  <2>1. ASSUME NEW t \in Submissions \ {s}, Unpublished(t), r \in claims[t]
        PROVE  /\ Family(target[t]) = Family(target[s]) /\ TransferSource(r, target[s]) = Nil
               /\ \A q \in Queues : r \notin groups[t][q] /\ r \notin groups'[s][q]
    BY <2>0, <2>1, <1>4, NilAssumption DEF Disputes
  <2>2. Settled(r)
    <3> SUFFICES ASSUME NEW t \in Submissions, Unpublished(t), r \in claims[t]
                 PROVE  stage[t] # "sent" /\ ~Released(t, r)
      BY DEF Settled
    <3>1. t # s /\ stage[t] # "sent"
      BY <1>1 DEF BeingSubmitted
    <3>2. released[t] \subseteq Queues
      BY <1>2 DEF TypeOK
    <3> QED
      BY <2>1, <3>1, <3>2 DEF Released
  <2>3. owner[r] \in Queues \cup {Nil} /\ r \in Ranges
    BY <1>2 DEF TypeOK
  <2>4. \A q \in Queues : r \in groups'[s][q] <=> owner[r] = q /\ Family(q) # Family(target[s])
    BY <1>4, NilAssumption DEF TransferSource
  <2> QED
    BY <2>0, <2>1, <2>2, <2>3, <2>4
\* For the others nothing changes.
<1>13. ASSUME NEW r \in claims[s], NEW q \in Queues
       PROVE  r \in groups'[s][q] <=> r \in groups[s][q]
  BY <1>4
<1>14. UsersAgree'
  <2>1. ASSUME NEW t \in Submissions \ {s}, Unpublished(t),
               NEW r \in (claims[t] \cap claims'[s]) \ disputed'
        PROVE  /\ Family(target[t]) = Family(target[s])
               /\ \A q \in Queues : r \notin groups[t][q] /\ r \notin groups'[s][q]
    <3>1. CASE r \in claims[s]
      BY <2>1, <3>1, <1>1, <1>11, <1>13 DEF OwnerInv, UsersAgree
    <3>2. CASE r \notin claims[s]
      BY <2>1, <3>2, <1>4, <1>12
    <3> QED
      BY <3>1, <3>2
  <2> SUFFICES ASSUME NEW t \in Submissions, NEW u \in Submissions, t # u,
                      Unpublished(t)', Unpublished(u)',
                      NEW r \in (claims'[t] \cap claims'[u]) \ disputed'
               PROVE  /\ Family(target[t]) = Family(target[u])
                      /\ \A q \in Queues : r \notin groups'[t][q]
    BY <1>1 DEF UsersAgree
  <2>0. ASSUME NEW v \in {t, u} \ {s}
        PROVE  Unpublished(v) /\ claims'[v] = claims[v] /\ groups'[v] = groups[v]
    BY <1>5 DEF Unpublished
  <2>2. CASE t = s
    <3>1. u \in Submissions \ {s} /\ Unpublished(u) /\ r \in (claims[u] \cap claims'[s]) \ disputed'
      BY <2>0, <2>2
    <3> QED
      BY <2>1, <2>2, <3>1
  <2>3. CASE u = s
    <3>1. t \in Submissions \ {s} /\ Unpublished(t) /\ r \in (claims[t] \cap claims'[s]) \ disputed'
      BY <2>0, <2>3
    <3> QED
      BY <2>0, <2>1, <2>3, <3>1
  <2>4. CASE t # s /\ u # s
    <3>1. /\ Unpublished(t) /\ Unpublished(u) /\ r \in (claims[t] \cap claims[u]) \ disputed
          /\ groups'[t] = groups[t]
      BY <2>0, <2>4, <1>1
    <3> QED
      BY <3>1 DEF OwnerInv, UsersAgree
  <2> QED
    BY <2>2, <2>3, <2>4
<1>15. GroupsMatch'
  <2>1. ASSUME NEW q \in Queues
        PROVE  /\ groups'[s][q] \subseteq claims'[s]
               /\ groups'[s][q] # {} => Family(q) # Family(target[s])
    <3>1. \A r \in Ranges : TransferSource(r, target[s]) = q => Family(q) # Family(target[s])
      BY NilAssumption DEF TransferSource
    <3> QED
      BY <3>1, <1>4 DEF OwnerInv, GroupsMatch
  <2>2. ASSUME NEW p \in Queues, NEW q \in Queues, p # q
        PROVE  groups'[s][p] \cap groups'[s][q] = {}
    BY <2>2, <1>4 DEF OwnerInv, GroupsMatch
  <2> QED
    BY <2>1, <2>2, <1>1, <1>4, <1>5 DEF OwnerInv, GroupsMatch
<1>16. Ordered' /\ AfterIsBefore' /\ ReleasedOnce'
  <2>1. \A r \in Ranges : Claimants(r) \subseteq Submissions
    BY DEF Claimants
  <2>2. \A b \in Releases : b.of \in Submissions /\ b.ranges \subseteq Ranges
    BY <1>2, WorkType DEF Releases
  <2>3. Ordered' /\ ReleasedOnce'
    BY <1>1, <1>3, <1>6, <1>7, <2>1 DEF OwnerInv, Ordered, ReleasedOnce
  <2>4. \A t \in Submissions : ~Unsent(t) => ~Unsent(t)' /\ claims'[t] = claims[t]
    BY <1>1, <1>5 DEF Unsent
  <2>5. AfterIsBefore'
    BY <1>1, <1>3, <1>7, <2>2, <2>4 DEF OwnerInv, AfterIsBefore
  <2> QED
    BY <2>3, <2>5
<1>17. Sources'
  <2> SUFFICES ASSUME NEW t \in Submissions, NEW r \in Ranges \ disputed', Waiting(t, r)', Before(t, r) # {}
               PROVE  \E l \in Submissions :
                        /\ Last(Before(t, r), l, r)
                        /\ \A q \in Queues : r \in groups'[t][q] => target[l] = q
                        /\ (\A q \in Queues : r \notin groups'[t][q])
                              => Family(target[l]) = Family(target[t])
                        /\ \A b \in Releases : b.of = t /\ r \in b.ranges =>
                              \E a \in Mains : a.of = l /\ Behind(a, b)
    BY <1>1, <1>3, <1>7 DEF Sources, Last
  <2>1. CASE t # s
    BY <2>1, <1>1, <1>5, <1>9 DEF OwnerInv, Sources
  <2>2. CASE t = s /\ r \in claims[s]
    BY <2>2, <1>1, <1>11, <1>13 DEF OwnerInv, Sources
  <2>3. CASE t = s /\ r \notin claims[s]
    <3>1. r \in (R \ claims[s]) \ disputed'
      BY <2>3, <1>4 DEF Waiting
    <3>2. PICK l \in Submissions : Last(Claimants(r), l, r) /\ target[l] = owner[r]
      BY <3>1, <1>8, <1>12, <2>3 DEF OwnerInv, OwnerKnown
    <3>3. target[l] \in Queues
      BY <1>2 DEF TypeOK
    <3> QED
      BY <2>3, <3>1, <3>2, <3>3, <1>8, <1>12, NilAssumption
  <2> QED
    BY <2>1, <2>2, <2>3
<1>18. Places'
  <2> SUFFICES ASSUME NEW t \in Submissions, NEW r \in Ranges \ disputed', Waiting(t, r)'
               PROVE  /\ Arrived(t, r)' => Before(t, r) = {}
                      /\ Before(t, r) = {} =>
                            /\ \A q \in Queues : r \in groups'[t][q] =>
                                  gpuOwner[r] = IF Arrived(t, r)'
                                                  THEN <<Family(q), Family(target[t])>>
                                                  ELSE Own(q)
                            /\ (\A q \in Queues : r \notin groups'[t][q]) =>
                                  gpuOwner[r] \in {Own(target[t]), <<Nil, Nil>>}
    BY <1>1, <1>7 DEF Places, Own
  <2>1. CASE t # s
    BY <2>1, <1>1, <1>5, <1>9 DEF OwnerInv, Places
  <2>2. CASE t = s /\ r \in claims[s]
    BY <2>2, <1>1, <1>10, <1>11, <1>13 DEF OwnerInv, Places, Arrived
  <2>3. CASE t = s /\ r \notin claims[s]
    <3>1. r \in (R \ claims[s]) \ disputed'
      BY <2>3, <1>4 DEF Waiting
    <3>2. Before(t, r) = {} => gpuOwner[r] = IF owner[r] = Nil THEN <<Nil, Nil>> ELSE Own(owner[r])
      BY <3>1, <1>8, <1>12, <2>3 DEF OwnerInv, OwnerKnown
    <3> QED
      BY <2>3, <3>1, <3>2, <1>10, <1>12, NilAssumption DEF Arrived, Own
  <2> QED
    BY <2>1, <2>2, <2>3
<1>19. OwnerKnown'
  <2>1. \A r \in Ranges : Settled(r)' => Settled(r)
    <3> SUFFICES ASSUME NEW r \in Ranges, Settled(r)', NEW t \in Submissions,
                        Unpublished(t), r \in claims[t]
                 PROVE  stage[t] # "sent" /\ ~Released(t, r)
      BY DEF Settled
    <3>1. CASE t = s
      BY <3>1, <1>1, <1>10
    <3>2. CASE t # s
      BY <3>2, <1>5, <1>9 DEF Settled
    <3> QED
      BY <3>1, <3>2
  <2> QED
    BY <2>1, <1>1, <1>6, <1>7 DEF OwnerInv, OwnerKnown, Last, Own
<1>20. SentIsLast'
  <2> SUFFICES ASSUME NEW t \in Submissions, stage'[t] = "sent", NEW r \in claims'[t]
               PROVE  /\ t \notin executed => Last(Claimants(r), t, r)'
                      /\ t \in executed => Claimants(r)' = {}
                      /\ t \in executed /\ r \notin disputed' => gpuOwner[r] = Own(target[t])
    BY <1>1 DEF SentIsLast, Own
  <2>1. t # s /\ r \in claims[t] /\ stage[t] = "sent" /\ r \in Ranges
    BY <1>2, <1>4, <1>5 DEF TypeOK
  <2> QED
    BY <2>1, <1>1, <1>6, <1>7 DEF OwnerInv, SentIsLast, Last
<1>21. ContentsDefined'
  BY <1>1 DEF OwnerInv, ContentsDefined
<1> QED
  BY <1>14, <1>15, <1>16, <1>17, <1>18, <1>19, <1>20, <1>21 DEF OwnerInv

\* A release is queued behind the main command buffer it takes its ranges from.
LEMMA OwnerSubmit ==
    ASSUME OwnerInv, LeaseInv', NEW s \in Submissions, NEW q \in Queues, NEW cb \in CmdBufs,
           SubmitRelease(s, q, cb)
    PROVE  OwnerInv'
<1>0. PICK b : b = ReleaseOf(s, q, cb)
  OBVIOUS
<1>1. /\ stage[s] = "finishing" /\ Unsent(s) /\ Unpublished(s)
      /\ groups[s][q] # {} /\ q \notin released[s]
      /\ gpuQueue' = [gpuQueue EXCEPT ![q] = Append(@, b)]
      /\ released' = [released EXCEPT ![s] = @ \cup {q}]
      /\ stage' = stage /\ claims' = claims /\ groups' = groups
      /\ owner' = owner /\ target' = target
      /\ gpuOwner' = gpuOwner /\ defined' = defined
      /\ executed' = executed /\ disputed' = disputed
  BY <1>0 DEF SubmitRelease, ReleaseOf, Unsent, Unpublished
<1>2. TypeOK /\ LeaseInv
  BY DEF OwnerInv, LeaseInv
<1>3. /\ b \in Batch /\ b.of = s /\ b.cb = cb /\ b.cb # Nil /\ b.ranges = groups[s][q]
      /\ b.after = Pending(groups[s][q], s)
  BY <1>0, <1>2, NewBatchType, NilAssumption DEF ReleaseOf
<1>4. /\ \A p \in Queues : BatchesOf(p)' = IF p = q THEN BatchesOf(q) \cup {b} ELSE BatchesOf(p)
      /\ Mains' = Mains /\ Releases' = Releases \cup {b}
      /\ \A a, c : Behind(a, c) => Behind(a, c)'
      /\ \A a \in BatchesOf(q) : Behind(a, b)'
  <2>1. /\ \A p \in Queues : BatchesOf(p)' = IF p = q THEN BatchesOf(q) \cup {b} ELSE BatchesOf(p)
        /\ Work' = Work \cup {b}
        /\ \A a, c : Behind(a, c) => Behind(a, c)'
        /\ \A a \in BatchesOf(q) : Behind(a, b)'
    BY <1>1, <1>2, <1>3, AppendWork
  <2>2. Mains' = Mains /\ Releases' = Releases \cup {b}
    BY <1>3, <2>1 DEF Mains, Releases
  <2> QED
    BY <2>1, <2>2
<1>5. \A r \in Ranges : Claimants(r)' = Claimants(r)
  BY <1>1 DEF Claimants, Sent
<1>6. \A t \in Submissions, r \in Ranges : Before(t, r)' = Before(t, r)
  BY <1>4, <1>5 DEF Before
<1>7. \A r \in Ranges : Before(s, r) = Claimants(r) /\ s \notin Claimants(r)
  BY <1>1, <1>2, UnsentIsAfter
<1>8. \A p, o \in Queues : p # o => groups[s][p] \cap groups[s][o] = {}
  BY DEF OwnerInv, GroupsMatch
<1>9. \A t \in Submissions : released[t] \subseteq released'[t] /\ released'[t] \subseteq Queues
  BY <1>1, <1>2 DEF TypeOK
<1>10. \A t \in Submissions, r \in Ranges : Arrived(t, r)' <=> Arrived(t, r)
  <2> SUFFICES ASSUME NEW t \in Submissions, NEW r \in Ranges
               PROVE  Arrived(t, r)' <=> Arrived(t, r)
    OBVIOUS
  <2>1. CASE t # s \/ r \notin groups[s][q]
    <3>1. Released(t, r)' <=> Released(t, r)
      BY <2>1, <1>1, <1>2 DEF Released, TypeOK
    <3>2. Releasing(t, r)' <=> Releasing(t, r)
      BY <2>1, <1>3, <1>4 DEF Releasing
    <3> QED
      BY <3>1, <3>2 DEF Arrived
  <2>2. CASE t = s /\ r \in groups[s][q]
    <3>1. Releasing(t, r)'
      BY <2>2, <1>3, <1>4 DEF Releasing
    <3>2. ~Released(t, r)
      BY <2>2, <1>1, <1>2, <1>8 DEF Released, TypeOK
    <3> QED
      BY <3>1, <3>2 DEF Arrived
  <2> QED
    BY <2>1, <2>2
<1>11. \A t \in Submissions, r \in Ranges : Waiting(t, r)' <=> Waiting(t, r)
  BY <1>1 DEF Waiting, Unpublished
<1>12. UsersAgree' /\ GroupsMatch' /\ ContentsDefined'
  <2>1. UsersAgree'
    BY <1>1 DEF OwnerInv, UsersAgree, Unpublished
  <2>2. GroupsMatch'
    BY <1>1, <1>9 DEF OwnerInv, GroupsMatch
  <2>3. ContentsDefined'
    BY <1>1 DEF OwnerInv, ContentsDefined
  <2> QED
    BY <2>1, <2>2, <2>3
<1>13. Ordered'
  <2>1. \A r \in Ranges : Claimants(r) \subseteq Submissions
    BY DEF Claimants
  <2> QED
    BY <1>5, <1>6, <2>1 DEF OwnerInv, Ordered
<1>14. Sources'
  <2> SUFFICES ASSUME NEW t \in Submissions, NEW r \in Ranges \ disputed, Waiting(t, r), Before(t, r) # {}
               PROVE  \E l \in Submissions :
                        /\ Last(Before(t, r), l, r)
                        /\ \A p \in Queues : r \in groups[t][p] => target[l] = p
                        /\ (\A p \in Queues : r \notin groups[t][p])
                              => Family(target[l]) = Family(target[t])
                        /\ \A c \in Releases' : c.of = t /\ r \in c.ranges =>
                              \E a \in Mains : a.of = l /\ Behind(a, c)'
    BY <1>1, <1>4, <1>6, <1>11 DEF Sources, Last
  <2>1. PICK l \in Submissions :
            /\ Last(Before(t, r), l, r)
            /\ \A p \in Queues : r \in groups[t][p] => target[l] = p
            /\ (\A p \in Queues : r \notin groups[t][p])
                  => Family(target[l]) = Family(target[t])
            /\ \A c \in Releases : c.of = t /\ r \in c.ranges =>
                  \E a \in Mains : a.of = l /\ Behind(a, c)
    BY DEF OwnerInv, Sources
  <2>2. ASSUME t = s, r \in groups[s][q]
        PROVE  \E a \in Mains : a.of = l /\ Behind(a, b)'
    <3>1. l \in Claimants(r) /\ target[l] = q
      BY <2>1, <2>2, <1>7 DEF Last
    <3>2. PICK a \in Mains : a.of = l
      BY <1>2, <3>1, ClaimantsWait DEF Claimants, LeaseInv, SentIsQueued
    <3>3. a \in BatchesOf(q)
      BY <1>2, <3>1, <3>2, BatchFacts
    <3> QED
      BY <3>2, <3>3, <1>4
  <2> QED
    BY <2>1, <2>2, <1>3, <1>4
<1>15. Places'
  BY <1>1, <1>6, <1>10, <1>11 DEF OwnerInv, Places, Own
<1>16. AfterIsBefore'
  <2>1. ASSUME NEW t \in b.after
        PROVE  /\ t \in Submissions /\ ~Unsent(t)
               /\ \A r \in b.ranges \cap claims[t] : t \in Before(s, r)'
    <3>1. t \in Submissions \ (executed \cup {s}) /\ Sent(t)
      BY <1>3 DEF Pending, Sent
    <3>2. claims[t] \subseteq Ranges
      BY <1>2, <3>1 DEF TypeOK
    <3>3. \A r \in claims[t] : t \in Before(s, r)
      BY <3>1, <3>2, <1>7 DEF Claimants
    <3> QED
      BY <3>1, <3>2, <3>3, <1>6 DEF Sent, Unsent
  <2>2. \A c \in Releases : c.of \in Submissions /\ c.ranges \subseteq Ranges
    BY <1>2, WorkType DEF Releases
  <2>3. ASSUME NEW c \in Releases, NEW t \in c.after
        PROVE  /\ t \in Submissions /\ ~Unsent(t)
               /\ t \notin executed => \A r \in c.ranges \cap claims[t] : t \in Before(c.of, r)'
    BY <2>2, <1>6 DEF OwnerInv, AfterIsBefore
  <2>4. \A t : Unsent(t)' <=> Unsent(t)
    BY <1>1 DEF Unsent
  <2> QED
    BY <2>1, <2>3, <2>4, <1>1, <1>3, <1>4 DEF AfterIsBefore
<1>17. ReleasedOnce'
  <2>1. \A c \in BatchesOf(q) : c.cb # Nil => c.of # s
    BY <1>1, <1>2 DEF LeaseInv, ReleasesMatch
  <2> QED
    BY <2>1, <1>3, <1>4 DEF OwnerInv, ReleasedOnce
<1>18. OwnerKnown'
  <2>1. \A r \in Ranges : Settled(r)' => Settled(r)
    BY <1>1, <1>9 DEF Settled, Released, Unpublished
  <2> QED
    BY <2>1, <1>1, <1>5, <1>6 DEF OwnerInv, OwnerKnown, Last, Own
<1>19. SentIsLast'
  BY <1>1, <1>2, <1>5, <1>6 DEF OwnerInv, SentIsLast, Last, Own, TypeOK
<1> QED
  BY <1>12, <1>13, <1>14, <1>15, <1>16, <1>17, <1>18, <1>19 DEF OwnerInv

\* The main command buffer comes after everything that uses its ranges, and nothing
\* that has begun comes after it.
LEMMA OwnerSend ==
    ASSUME OwnerInv, LeaseInv', NEW s \in Submissions, Send(s)
    PROVE  OwnerInv'
<1>0. PICK b : b = MainOf(s)
  OBVIOUS
<1>1. /\ stage[s] = "recorded" /\ Unsent(s) /\ Unpublished(s)
      /\ stage' = [stage EXCEPT ![s] = "sent"]
      /\ gpuQueue' = [gpuQueue EXCEPT ![target[s]] = Append(@, b)]
      /\ released' = released /\ claims' = claims /\ groups' = groups
      /\ owner' = owner /\ target' = target
      /\ gpuOwner' = gpuOwner /\ defined' = defined
      /\ executed' = executed /\ disputed' = disputed
      /\ \A r \in claims[s] : ~BeingSubmitted(r)
  BY <1>0 DEF Send, MainOf, Unsent, Unpublished
<1>2. TypeOK /\ LeaseInv
  BY DEF OwnerInv, LeaseInv
<1>3. /\ b \in Batch /\ b.of = s /\ b.cb = Nil /\ b.after = Pending(claims[s], s)
      /\ target[s] \in Queues
  BY <1>0, <1>2, NewBatchType DEF MainOf, TypeOK
<1>4. /\ \A p \in Queues :
            BatchesOf(p)' = IF p = target[s] THEN BatchesOf(p) \cup {b} ELSE BatchesOf(p)
      /\ Mains' = Mains \cup {b} /\ Releases' = Releases
      /\ \A a, c : Behind(a, c) => Behind(a, c)'
  <2>1. /\ \A p \in Queues :
            BatchesOf(p)' = IF p = target[s] THEN BatchesOf(target[s]) \cup {b} ELSE BatchesOf(p)
        /\ Work' = Work \cup {b}
        /\ \A a, c : Behind(a, c) => Behind(a, c)'
    BY <1>1, <1>2, <1>3, AppendWork
  <2>2. Mains' = Mains \cup {b} /\ Releases' = Releases
    BY <1>3, <2>1 DEF Mains, Releases
  <2> QED
    BY <2>1, <2>2
<1>5. /\ stage'[s] = "sent" /\ s \notin executed
      /\ \A r \in Ranges : Before(s, r) = Claimants(r) /\ s \notin Claimants(r)
      /\ \A c \in Mains : c.of # s
  <2>1. stage'[s] = "sent"
    BY <1>1, <1>2 DEF TypeOK
  <2>2. s \notin executed
    BY <1>1, <1>2 DEF LeaseInv, SentIsQueued
  <2>3. \A r \in Ranges : Before(s, r) = Claimants(r) /\ s \notin Claimants(r)
    BY <1>1, <1>2, UnsentIsAfter
  <2>4. \A c \in Mains : c.of # s
    BY <1>1, <1>2, BatchFacts DEF Sent, Unsent
  <2> QED
    BY <2>1, <2>2, <2>3, <2>4
<1>6. \A t \in Submissions \ {s} : stage'[t] = stage[t]
  BY <1>1, <1>2 DEF TypeOK
<1>7. \A r \in Ranges :
          Claimants(r)' = IF r \in claims[s] THEN Claimants(r) \cup {s} ELSE Claimants(r)
  BY <1>1, <1>5, <1>6 DEF Claimants, Sent
<1>8. \A t \in Submissions :
          /\ Unpublished(t)' <=> Unpublished(t)
          /\ \A r \in Ranges : Waiting(t, r)' <=> Waiting(t, r)
          /\ \A r \in Ranges : Released(t, r)' <=> Released(t, r)
          /\ \A r \in Ranges : Arrived(t, r)' <=> Arrived(t, r)
  <2>1. \A t \in Submissions : Unpublished(t)' <=> Unpublished(t)
    BY <1>1, <1>5, <1>6 DEF Unpublished
  <2>2. \A t \in Submissions, r \in Ranges : Waiting(t, r)' <=> Waiting(t, r)
    BY <1>1, <1>5, <1>6, <2>1 DEF Waiting
  <2>3. \A t \in Submissions, r \in Ranges :
            (Released(t, r)' <=> Released(t, r)) /\ (Releasing(t, r)' <=> Releasing(t, r))
    BY <1>1, <1>4 DEF Released, Releasing
  <2> QED
    BY <2>1, <2>2, <2>3 DEF Arrived
\* Those that s comes after are those that had a claim.
<1>9. \A r \in claims[s] : r \in Ranges /\ Before(s, r)' = Claimants(r)
  <2> SUFFICES ASSUME NEW r \in claims[s]
               PROVE  r \in Ranges /\ Before(s, r)' = Claimants(r)
    OBVIOUS
  <2>1. r \in Ranges
    BY <1>2 DEF TypeOK
  <2>2. Claimants(r)' \ {s} = Claimants(r)
    BY <1>5, <1>7, <2>1
  <2>3. Claimants(r) \subseteq b.after
    BY <1>3, <1>5, <2>1 DEF Claimants, Pending, Sent
  <2>4. \A c \in Mains' : c.of = s => c = b
    BY <1>4, <1>5
  <2>5. b \in Mains' /\ b.of = s
    BY <1>3, <1>4
  <2> QED
    BY <2>1, <2>2, <2>3, <2>4, <2>5 DEF Before
\* What others use is not being sent; those that are sent do not come after s, and those
\* that are not yet will.
<1>10. ASSUME NEW t \in Submissions \ {s}, NEW r \in Ranges, Waiting(t, r)
       PROVE  \/ Before(t, r)' = Before(t, r)
              \/ /\ Unsent(t) /\ Unpublished(t) /\ r \in claims[s] /\ r \in claims[t]
                 /\ Before(t, r)' = Before(t, r) \cup {s} /\ Before(t, r) = Claimants(r)
  <2>1. \A c : c.of = t => (c \in Mains' <=> c \in Mains)
    BY <1>3, <1>4
  <2>2. CASE r \notin claims[s]
    BY <2>1, <2>2, <1>7 DEF Before
  <2>3. CASE r \in claims[s] /\ Sent(t)
    <3>2. t \notin executed
      BY <1>10 DEF Waiting
    <3>3. PICK c \in Mains : c.of = t
      BY <2>3, <3>2, <1>2 DEF LeaseInv, SentIsQueued
    <3>4. s \notin c.after
      BY <3>3, <1>1, <1>2, BatchFacts
    <3>5. Claimants(r)' = Claimants(r) \cup {s}
      BY <1>7, <2>3
    <3> QED
      BY <2>1, <3>3, <3>4, <3>5, <1>5 DEF Before
  <2>4. CASE r \in claims[s] /\ ~Sent(t)
    <3>1. Unsent(t) /\ Unpublished(t) /\ r \in claims[t]
      BY <2>4, <1>10 DEF Waiting, Unpublished, Sent, Unsent
    <3>2. Before(t, r) = Claimants(r) /\ t \notin Claimants(r) /\ \A c \in Mains : c.of # t
      BY <3>1, <1>2, UnsentIsAfter
    <3>3. Claimants(r)' = Claimants(r) \cup {s}
      BY <1>7, <2>4
    <3>4. Before(t, r)' = Claimants(r)' \ {t}
      BY <2>1, <3>2 DEF Before
    <3> QED
      BY <2>4, <3>1, <3>2, <3>3, <3>4
  <2> QED
    BY <2>2, <2>3, <2>4
<1>11. \A r \in Ranges : Waiting(s, r) => Before(s, r)' = Before(s, r)
  BY <1>5, <1>9 DEF Waiting
<1>12. \A r \in Ranges : \A t \in Claimants(r) :
          t \in Submissions /\ Before(t, r)' = Before(t, r)
  BY <1>10, <1>11, ClaimantsWait DEF Sent, Unsent
<1>13. ASSUME NEW t \in Submissions, NEW r \in Ranges, Before(t, r)' = Before(t, r), NEW l,
              Last(Before(t, r), l, r)
       PROVE  Last(Before(t, r), l, r)'
  <2>1. l \in Claimants(r)
    BY <1>13 DEF Last, Before
  <2> QED
    BY <2>1, <1>12, <1>13 DEF Last
<1>14. UsersAgree' /\ GroupsMatch' /\ ContentsDefined'
  <2>1. UsersAgree'
    BY <1>1, <1>8 DEF OwnerInv, UsersAgree
  <2>2. GroupsMatch'
    BY <1>1, <1>5, <1>6 DEF OwnerInv, GroupsMatch
  <2>3. ContentsDefined'
    BY <1>1 DEF OwnerInv, ContentsDefined
  <2> QED
    BY <2>1, <2>2, <2>3
<1>15. Ordered'
  <2> SUFFICES ASSUME NEW r \in Ranges, NEW t \in Claimants(r)', NEW u \in Claimants(r)', t # u
               PROVE  t \in Before(u, r)' \/ u \in Before(t, r)'
    BY DEF Ordered
  <2>1. CASE t \in Claimants(r) /\ u \in Claimants(r)
    BY <2>1, <1>12 DEF OwnerInv, Ordered
  <2>2. CASE r \in claims[s] /\ t = s /\ u \in Claimants(r)
    BY <2>2, <1>9
  <2>3. CASE r \in claims[s] /\ u = s /\ t \in Claimants(r)
    BY <2>3, <1>9
  <2> QED
    BY <2>1, <2>2, <2>3, <1>7
\* Where s comes before others that use the range too, all leave it where it is.
<1>16. ASSUME NEW t \in Submissions, NEW r \in Ranges \ disputed, Waiting(t, r),
              Before(t, r)' # Before(t, r)
       PROVE  /\ t # s /\ Last(Before(t, r), s, r)'
              /\ Family(target[s]) = Family(target[t])
              /\ \A p \in Queues : r \notin groups[t][p]
  <2>1. t # s
    BY <1>11, <1>16
  <2>2. /\ Unsent(t) /\ Unpublished(t) /\ r \in claims[s] /\ r \in claims[t]
        /\ Before(t, r)' = Before(t, r) \cup {s} /\ Before(t, r) = Claimants(r)
    BY <2>1, <1>10, <1>16
  <2>3. Last(Before(t, r), s, r)'
    BY <2>2, <1>9 DEF Last
  <2>4. Family(target[s]) = Family(target[t]) /\ \A p \in Queues : r \notin groups[t][p]
    BY <2>1, <2>2, <1>1 DEF OwnerInv, UsersAgree
  <2> QED
    BY <2>1, <2>3, <2>4
<1>17. Sources' /\ Places'
  <2>0. \A c \in Releases : c.of \in Submissions /\ \E p \in Queues : c.ranges = groups[c.of][p]
    BY <1>2, BatchFacts
  <2>1. Sources'
    <3> SUFFICES ASSUME NEW t \in Submissions, NEW r \in Ranges \ disputed, Waiting(t, r),
                        Before(t, r)' # {}
                 PROVE  \E l \in Submissions :
                          /\ Last(Before(t, r), l, r)'
                          /\ \A p \in Queues : r \in groups[t][p] => target[l] = p
                          /\ (\A p \in Queues : r \notin groups[t][p])
                                => Family(target[l]) = Family(target[t])
                          /\ \A c \in Releases : c.of = t /\ r \in c.ranges =>
                                \E a \in Mains' : a.of = l /\ Behind(a, c)'
      BY <1>1, <1>4, <1>8 DEF Sources
    <3>1. CASE Before(t, r)' = Before(t, r)
      BY <3>1, <1>4, <1>13 DEF OwnerInv, Sources
    <3>2. CASE Before(t, r)' # Before(t, r)
      BY <3>2, <2>0, <1>16
    <3> QED
      BY <3>1, <3>2
  <2>2. Places'
    <3> SUFFICES ASSUME NEW t \in Submissions, NEW r \in Ranges \ disputed, Waiting(t, r)
                 PROVE  /\ Arrived(t, r) => Before(t, r)' = {}
                        /\ Before(t, r)' = {} =>
                            /\ \A p \in Queues : r \in groups[t][p] =>
                                  gpuOwner[r] = IF Arrived(t, r)
                                                  THEN <<Family(p), Family(target[t])>>
                                                  ELSE Own(p)
                            /\ (\A p \in Queues : r \notin groups[t][p]) =>
                                  gpuOwner[r] \in {Own(target[t]), <<Nil, Nil>>}
      BY <1>1, <1>8 DEF Places, Own
    <3>1. CASE Before(t, r)' = Before(t, r)
      BY <3>1 DEF OwnerInv, Places
    <3>2. CASE Before(t, r)' # Before(t, r)
      <4>1. s \in Before(t, r)' /\ \A p \in Queues : r \notin groups[t][p]
        BY <3>2, <1>16 DEF Last
      <4>2. ~Arrived(t, r)
        BY <4>1, <1>2 DEF Arrived, Released, TypeOK
      <4> QED
        BY <4>1, <4>2
    <3> QED
      BY <3>1, <3>2
  <2> QED
    BY <2>1, <2>2
<1>18. AfterIsBefore'
  <2> SUFFICES ASSUME NEW c \in Releases, NEW t \in c.after
               PROVE  /\ t \in Submissions /\ ~Unsent(t)'
                      /\ t \notin executed =>
                            \A r \in c.ranges \cap claims[t] : t \in Before(c.of, r)'
    BY <1>1, <1>4 DEF AfterIsBefore
  <2>1. t \in Submissions /\ ~Unsent(t)'
    BY <1>5, <1>6 DEF OwnerInv, AfterIsBefore, Unsent
  <2>2. ASSUME t \notin executed, NEW r \in c.ranges \cap claims[t]
        PROVE  t \in Before(c.of, r)'
    <3>1. t \in Before(c.of, r)
      BY <2>2 DEF OwnerInv, AfterIsBefore
    <3>2. /\ c.of \in Submissions \ executed
          /\ stage[c.of] \in {"finishing", "recorded", "sent", "attached"}
          /\ \E q \in Queues : c.ranges = groups[c.of][q]
      BY <1>2, BatchFacts
    <3>3. r \in claims[c.of] /\ r \in Ranges
      BY <3>2, <1>2 DEF OwnerInv, GroupsMatch, TypeOK
    <3>4. Waiting(c.of, r)
      BY <3>2, <3>3 DEF Waiting, Unpublished
    <3> QED
      BY <3>1, <3>2, <3>3, <3>4, <1>10, <1>11
  <2> QED
    BY <2>1, <2>2
<1>19. ReleasedOnce'
  BY <1>3, <1>4 DEF OwnerInv, ReleasedOnce
<1>20. OwnerKnown'
  <2> SUFFICES ASSUME NEW r \in Ranges \ disputed, Settled(r)'
               PROVE  /\ Claimants(r)' # {} =>
                            \E l \in Submissions : Last(Claimants(r), l, r)' /\ target[l] = owner[r]
                      /\ Claimants(r)' = {} =>
                            gpuOwner[r] = IF owner[r] = Nil THEN <<Nil, Nil>> ELSE Own(owner[r])
    BY <1>1 DEF OwnerKnown, Own
  <2>1. r \notin claims[s]
    BY <1>1, <1>5, <1>8 DEF Settled
  <2>2. Settled(r)
    BY <2>1, <1>1, <1>6, <1>8 DEF Settled
  <2>3. Claimants(r)' = Claimants(r)
    BY <2>1, <1>7
  <2> QED
    BY <2>2, <2>3, <1>12 DEF OwnerInv, OwnerKnown, Last
<1>21. SentIsLast'
  <2> SUFFICES ASSUME NEW t \in Submissions, stage'[t] = "sent", NEW r \in claims[t]
               PROVE  /\ t \notin executed => Last(Claimants(r), t, r)'
                      /\ t \in executed => Claimants(r)' = {}
                      /\ t \in executed /\ r \notin disputed => gpuOwner[r] = Own(target[t])
    BY <1>1 DEF SentIsLast, Own
  <2>1. CASE t = s
    <3>1. /\ r \in Ranges /\ Before(s, r)' = Claimants(r)
          /\ Claimants(r)' = Claimants(r) \cup {s}
      BY <2>1, <1>7, <1>9
    <3> QED
      BY <2>1, <3>1, <1>5 DEF Last
  <2>2. CASE t # s
    <3>1. stage[t] = "sent" /\ r \in Ranges
      BY <2>2, <1>2, <1>6 DEF TypeOK
    <3>2. r \notin claims[s]
      BY <2>2, <3>1, <1>1 DEF BeingSubmitted
    <3>3. Claimants(r)' = Claimants(r)
      BY <3>1, <3>2, <1>7
    <3> QED
      BY <3>1, <3>3, <1>12 DEF OwnerInv, SentIsLast, Last
  <2> QED
    BY <2>1, <2>2
<1> QED
  BY <1>14, <1>15, <1>17, <1>18, <1>19, <1>20, <1>21 DEF OwnerInv

\* The owner that is published is the queue of the last that has a claim.
LEMMA OwnerAttach ==
    ASSUME OwnerInv, LeaseInv', NEW s \in Submissions, Attach(s)
    PROVE  OwnerInv'
<1>1. /\ stage[s] = "sent" /\ Unpublished(s)
      /\ stage' = [stage EXCEPT ![s] = "attached"]
      /\ owner' = [r \in Ranges |-> IF r \in claims[s] THEN target[s] ELSE owner[r]]
      /\ gpuQueue' = gpuQueue
      /\ released' = released /\ claims' = claims /\ groups' = groups /\ target' = target
      /\ gpuOwner' = gpuOwner /\ defined' = defined
      /\ executed' = executed /\ disputed' = disputed
  BY DEF Attach, gpuVars, Unpublished
<1>2. TypeOK /\ LeaseInv
  BY DEF OwnerInv, LeaseInv
<1>3. /\ \A q \in Queues : BatchesOf(q)' = BatchesOf(q)
      /\ Mains' = Mains /\ Releases' = Releases
      /\ \A a, c : Behind(a, c)' <=> Behind(a, c)
  BY <1>1 DEF BatchesOf, Mains, Releases, Work, Behind
<1>4. /\ stage'[s] = "attached"
      /\ \A t \in Submissions \ {s} : stage'[t] = stage[t]
  BY <1>1, <1>2 DEF TypeOK
<1>5. \A r \in Ranges : Claimants(r)' = Claimants(r)
  BY <1>1, <1>4 DEF Claimants, Sent
<1>6. \A t \in Submissions, r \in Ranges : Before(t, r)' = Before(t, r)
  BY <1>3, <1>5 DEF Before
<1>7. \A t \in Submissions, r \in Ranges :
          /\ Waiting(t, r)' <=> Waiting(t, r)
          /\ Arrived(t, r)' <=> Arrived(t, r)
  BY <1>1, <1>3, <1>4 DEF Waiting, Unpublished, Arrived, Released, Releasing
<1>8. UsersAgree' /\ GroupsMatch' /\ ContentsDefined'
  <2>1. UsersAgree'
    BY <1>1, <1>4 DEF OwnerInv, UsersAgree, Unpublished
  <2>2. GroupsMatch'
    BY <1>1, <1>4 DEF OwnerInv, GroupsMatch
  <2>3. ContentsDefined'
    BY <1>1 DEF OwnerInv, ContentsDefined
  <2> QED
    BY <2>1, <2>2, <2>3
<1>9. Ordered' /\ AfterIsBefore' /\ ReleasedOnce'
  <2>1. \A r \in Ranges : Claimants(r) \subseteq Submissions
    BY DEF Claimants
  <2>2. \A b \in Releases : b.of \in Submissions /\ b.ranges \subseteq Ranges
    BY <1>2, WorkType DEF Releases
  <2>3. Ordered' /\ ReleasedOnce'
    BY <1>3, <1>5, <1>6, <2>1 DEF OwnerInv, Ordered, ReleasedOnce
  <2>4. \A t \in Submissions : ~Unsent(t) => ~Unsent(t)'
    BY <1>1, <1>4 DEF Unsent
  <2>5. AfterIsBefore'
    BY <1>1, <1>3, <1>6, <2>2, <2>4 DEF OwnerInv, AfterIsBefore
  <2> QED
    BY <2>3, <2>5
<1>10. Sources'
  BY <1>1, <1>3, <1>6, <1>7 DEF OwnerInv, Sources, Last
<1>11. Places'
  BY <1>1, <1>6, <1>7 DEF OwnerInv, Places, Own
<1>12. OwnerKnown'
  <2> SUFFICES ASSUME NEW r \in Ranges \ disputed, Settled(r)'
               PROVE  /\ Claimants(r) # {} =>
                            \E l \in Submissions : Last(Claimants(r), l, r) /\ target[l] = owner'[r]
                      /\ Claimants(r) = {} =>
                            gpuOwner[r] = IF owner'[r] = Nil THEN <<Nil, Nil>> ELSE Own(owner'[r])
    BY <1>1, <1>5, <1>6 DEF OwnerKnown, Own, Last
  <2>1. CASE r \in claims[s]
    <3>1. owner'[r] = target[s] /\ target[s] \in Queues
      BY <2>1, <1>1, <1>2 DEF TypeOK
    <3>2. /\ s \notin executed => Last(Claimants(r), s, r)
          /\ s \in executed => Claimants(r) = {} /\ gpuOwner[r] = Own(target[s])
      BY <2>1, <1>1 DEF OwnerInv, SentIsLast
    <3>3. s \notin executed => s \in Claimants(r)
      BY <3>2 DEF Last
    <3>4. s \in Claimants(r) => s \notin executed
      BY DEF Claimants
    <3> QED
      BY <3>1, <3>2, <3>3, <3>4, NilAssumption
  <2>2. CASE r \notin claims[s]
    <3>1. owner'[r] = owner[r]
      BY <2>2, <1>1
    <3>2. Settled(r)
      BY <2>2, <1>1, <1>4 DEF Settled, Unpublished, Released
    <3> QED
      BY <3>1, <3>2 DEF OwnerInv, OwnerKnown
  <2> QED
    BY <2>1, <2>2
<1>13. SentIsLast'
  <2> SUFFICES ASSUME NEW t \in Submissions, stage'[t] = "sent", NEW r \in claims[t]
               PROVE  /\ t \notin executed => Last(Claimants(r), t, r)
                      /\ t \in executed => Claimants(r) = {}
                      /\ t \in executed /\ r \notin disputed => gpuOwner[r] = Own(target[t])
    BY <1>1, <1>2, <1>5, <1>6 DEF SentIsLast, Own, Last, TypeOK
  <2> QED
    BY <1>4 DEF OwnerInv, SentIsLast
<1> QED
  BY <1>8, <1>9, <1>10, <1>11, <1>12, <1>13 DEF OwnerInv

\* The GPU gets to a release when nobody is before the submission it is for: the
\* range is where the host took it to be.
LEMMA OwnerExecuteRelease ==
    ASSUME OwnerInv, LeaseInv', NEW q \in Queues, ExecuteRelease(q)
    PROVE  OwnerInv'
<1>0. PICK b : b = Head(gpuQueue[q])
  OBVIOUS
<1>d. PICK s : s = b.of
  OBVIOUS
<1>1. /\ gpuQueue[q] # <<>> /\ b.cb # Nil
      /\ gpuQueue' = [gpuQueue EXCEPT ![q] = Tail(@)]
      /\ stage' = stage /\ released' = released /\ claims' = claims /\ groups' = groups
      /\ owner' = owner /\ target' = target /\ executed' = executed
      /\ disputed' = disputed
      /\ gpuOwner' = [r \in Ranges |-> IF r \in b.ranges
                                         THEN <<Family(q), Family(target[s])>>
                                         ELSE gpuOwner[r]]
      /\ defined' = [r \in Ranges |-> defined[r] /\
                       (r \in b.ranges => /\ gpuOwner[r] = <<Family(q), Family(q)>>
                                          /\ \A t \in b.after : r \in claims[t] => t \in executed)]
  BY <1>0, <1>d DEF ExecuteRelease, hostVars
<1>2. TypeOK /\ LeaseInv
  BY DEF OwnerInv, LeaseInv
<1>3. /\ b \in BatchesOf(q)
      /\ \A p \in Queues : BatchesOf(p)' = BatchesOf(p) \ {b}
      /\ Work' = Work \ {b}
      /\ \A a, c : Behind(a, c) /\ a # b => Behind(a, c)'
      /\ \A a : ~Behind(a, b)
  BY <1>0, <1>1, <1>2, TailWork DEF LeaseInv
<1>4. Mains' = Mains /\ Releases' = Releases \ {b} /\ b \in Releases
  BY <1>1, <1>3 DEF Mains, Releases, Work
<1>5. /\ s \in Submissions /\ s \notin executed /\ q \in released[s] /\ b.ranges = groups[s][q]
      /\ Sent(s) \/ Unpublished(s)
      /\ \A r \in b.ranges : r \in Ranges /\ Waiting(s, r) /\ Released(s, r) /\ Releasing(s, r)
      /\ \A r \in b.ranges, p \in Queues : r \in groups[s][p] => p = q
  <2>1. /\ s \in Submissions /\ s \notin executed /\ q \in released[s] /\ b.ranges = groups[s][q]
        /\ stage[s] \in {"finishing", "recorded", "sent", "attached"}
    BY <1>1, <1>2, <1>3, <1>4, <1>d, BatchFacts DEF LeaseInv, ReleasesMatch
  <2>2. groups[s][q] \subseteq claims[s] /\ claims[s] \subseteq Ranges
    BY <1>2, <2>1 DEF OwnerInv, GroupsMatch, TypeOK
  <2>3. \A r \in b.ranges : Waiting(s, r) /\ Released(s, r) /\ Releasing(s, r)
    BY <2>1, <2>2, <1>4, <1>d DEF Waiting, Unpublished, Released, Releasing
  <2>4. \A r \in b.ranges, p \in Queues : r \in groups[s][p] => p = q
    BY <2>1 DEF OwnerInv, GroupsMatch
  <2> QED
    BY <2>1, <2>2, <2>3, <2>4 DEF Sent, Unpublished
<1>6. \A r \in Ranges : Claimants(r)' = Claimants(r)
  BY <1>1 DEF Claimants, Sent
<1>7. \A t \in Submissions, r \in Ranges : Before(t, r)' = Before(t, r)
  BY <1>4, <1>6 DEF Before
\* If somebody were before s, its main command buffer would be before the release.
<1>8. \A r \in b.ranges \ disputed : Before(s, r) = {}
  <2> SUFFICES ASSUME NEW r \in b.ranges \ disputed, Before(s, r) # {}
               PROVE  FALSE
    OBVIOUS
  <2>1. \E a : Behind(a, b)
    BY <1>4, <1>5, <1>d DEF OwnerInv, Sources
  <2> QED
    BY <2>1, <1>3
<1>9. \A r \in b.ranges \ disputed : gpuOwner[r] = Own(q) /\ ~Arrived(s, r)
  BY <1>5, <1>8 DEF OwnerInv, Places, Arrived
<1>10. \A r \in b.ranges \ disputed, t \in b.after : r \in claims[t] => t \in executed
  BY <1>4, <1>8, <1>d DEF OwnerInv, AfterIsBefore
<1>11. ContentsDefined'
  BY <1>1, <1>9, <1>10 DEF OwnerInv, ContentsDefined, Own
\* A submission has one release of the range.
<1>12. \A t \in Submissions, r \in Ranges :
           Arrived(t, r)' <=> Arrived(t, r) \/ (t = s /\ r \in b.ranges)
  <2> SUFFICES ASSUME NEW t \in Submissions, NEW r \in Ranges
               PROVE  Arrived(t, r)' <=> Arrived(t, r) \/ (t = s /\ r \in b.ranges)
    OBVIOUS
  <2>1. Released(t, r)' <=> Released(t, r)
    BY <1>1 DEF Released
  <2>2. CASE t = s /\ r \in b.ranges
    <3>1. ASSUME NEW c \in Releases \ {b}, c.of = s, r \in c.ranges
          PROVE  FALSE
      <4>1. c \in BatchesOf(q)
        BY <3>1, <2>2, <1>2, <1>5, BatchFacts
      <4>2. c.cb # Nil
        BY DEF Releases
      <4> QED
        BY <3>1, <4>1, <4>2, <1>1, <1>3, <1>d DEF OwnerInv, ReleasedOnce
    <3>2. ~Releasing(t, r)'
      BY <2>2, <3>1, <1>4 DEF Releasing
    <3> QED
      BY <2>1, <2>2, <3>2, <1>5 DEF Arrived
  <2>3. CASE ~(t = s /\ r \in b.ranges)
    <3>1. Releasing(t, r)' <=> Releasing(t, r)
      BY <2>3, <1>4, <1>d DEF Releasing
    <3> QED
      BY <2>1, <2>3, <3>1 DEF Arrived
  <2> QED
    BY <2>2, <2>3
<1>13. \A t \in Submissions, r \in Ranges : Waiting(t, r)' <=> Waiting(t, r)
  BY <1>1 DEF Waiting, Unpublished
<1>14. \A t \in Submissions, r \in b.ranges \ disputed :
           t # s /\ Waiting(t, r) => s \in Before(t, r) /\ Sent(s) /\ ~Arrived(t, r)
  BY <1>5, <1>8, FirstIsBefore
<1>15. UsersAgree' /\ GroupsMatch'
  BY <1>1 DEF OwnerInv, UsersAgree, GroupsMatch, Unpublished
<1>16. Ordered' /\ AfterIsBefore' /\ ReleasedOnce'
  <2>1. \A r \in Ranges : Claimants(r) \subseteq Submissions
    BY DEF Claimants
  <2>2. \A c \in Releases : c.of \in Submissions /\ c.ranges \subseteq Ranges
    BY <1>2, WorkType DEF Releases
  <2>3. Ordered'
    BY <1>6, <1>7, <2>1 DEF OwnerInv, Ordered
  <2>4. AfterIsBefore'
    <3>1. \A t : Unsent(t)' <=> Unsent(t)
      BY <1>1 DEF Unsent
    <3> QED
      BY <3>1, <1>1, <1>4, <1>7, <2>2 DEF OwnerInv, AfterIsBefore
  <2>5. ReleasedOnce'
    BY <1>3 DEF OwnerInv, ReleasedOnce
  <2> QED
    BY <2>3, <2>4, <2>5
<1>17. Sources'
  <2> SUFFICES ASSUME NEW t \in Submissions, NEW r \in Ranges \ disputed, Waiting(t, r), Before(t, r) # {}
               PROVE  \E l \in Submissions :
                        /\ Last(Before(t, r), l, r)
                        /\ \A p \in Queues : r \in groups[t][p] => target[l] = p
                        /\ (\A p \in Queues : r \notin groups[t][p])
                              => Family(target[l]) = Family(target[t])
                        /\ \A c \in Releases' : c.of = t /\ r \in c.ranges =>
                              \E a \in Mains : a.of = l /\ Behind(a, c)'
    BY <1>1, <1>4, <1>7, <1>13 DEF Sources, Last
  <2>1. \A a \in Mains : a # b
    BY <1>1 DEF Mains
  <2> QED
    BY <2>1, <1>3, <1>4 DEF OwnerInv, Sources
<1>18. Places'
  <2> SUFFICES ASSUME NEW t \in Submissions, NEW r \in Ranges \ disputed, Waiting(t, r)
               PROVE  /\ Arrived(t, r)' => Before(t, r) = {}
                      /\ Before(t, r) = {} =>
                            /\ \A p \in Queues : r \in groups[t][p] =>
                                  gpuOwner'[r] = IF Arrived(t, r)'
                                                   THEN <<Family(p), Family(target[t])>>
                                                   ELSE Own(p)
                            /\ (\A p \in Queues : r \notin groups[t][p]) =>
                                  gpuOwner'[r] \in {Own(target[t]), <<Nil, Nil>>}
    BY <1>1, <1>7, <1>13 DEF Places, Own
  <2>1. CASE r \notin b.ranges
    <3>1. gpuOwner'[r] = gpuOwner[r] /\ (Arrived(t, r)' <=> Arrived(t, r))
      BY <2>1, <1>1, <1>12
    <3> QED
      BY <3>1 DEF OwnerInv, Places
  <2>2. CASE r \in b.ranges /\ t = s
    <3>1. gpuOwner'[r] = <<Family(q), Family(target[s])>> /\ Arrived(t, r)'
      BY <2>2, <1>1, <1>12
    <3> QED
      BY <2>2, <3>1, <1>5, <1>8
  <2>3. CASE r \in b.ranges /\ t # s
    <3>1. s \in Before(t, r) /\ ~Arrived(t, r)'
      BY <2>3, <1>12, <1>14
    <3> QED
      BY <3>1
  <2> QED
    BY <2>1, <2>2, <2>3
<1>19. OwnerKnown'
  <2> SUFFICES ASSUME NEW r \in Ranges \ disputed, Settled(r)
               PROVE  /\ Claimants(r) # {} =>
                            \E l \in Submissions : Last(Claimants(r), l, r) /\ target[l] = owner[r]
                      /\ Claimants(r) = {} =>
                            gpuOwner'[r] = IF owner[r] = Nil THEN <<Nil, Nil>> ELSE Own(owner[r])
    BY <1>1, <1>6, <1>7 DEF OwnerKnown, Own, Last, Settled, Released, Unpublished
  <2>1. CASE r \notin b.ranges
    BY <2>1, <1>1 DEF OwnerInv, OwnerKnown
  <2>2. CASE r \in b.ranges
    <3>1. ~Unpublished(s)
      BY <2>2, <1>5 DEF Settled, Waiting
    <3>2. s \in Claimants(r)
      BY <2>2, <3>1, <1>5 DEF Claimants, Waiting
    <3> QED
      BY <3>2 DEF OwnerInv, OwnerKnown
  <2> QED
    BY <2>1, <2>2
<1>20. SentIsLast'
  <2>0. /\ stage' = stage /\ claims' = claims /\ target' = target /\ executed' = executed
        /\ disputed' = disputed
        /\ \A t \in Submissions : claims[t] \subseteq Ranges
    BY <1>1, <1>2 DEF TypeOK
  <2> SUFFICES ASSUME NEW t \in Submissions, stage[t] = "sent", NEW r \in claims[t]
               PROVE  /\ t \notin executed => Last(Claimants(r), t, r)
                      /\ t \in executed => Claimants(r) = {}
                      /\ t \in executed /\ r \notin disputed => gpuOwner'[r] = Own(target[t])
    BY <1>6, <1>7, <2>0 DEF SentIsLast, Own, Last
  <2>1. CASE r \notin b.ranges
    <3>1. gpuOwner'[r] = gpuOwner[r]
      BY <2>1, <1>1, <1>2 DEF TypeOK
    <3> QED
      BY <3>1 DEF OwnerInv, SentIsLast
  <2>2. CASE r \in b.ranges
    <3> SUFFICES ASSUME t \in executed, r \notin disputed PROVE FALSE
      BY DEF OwnerInv, SentIsLast
    <3>1. Claimants(r) = {} /\ t # s
      BY <1>5 DEF OwnerInv, SentIsLast
    <3>2. ~Sent(s)
      BY <2>2, <3>1, <1>5 DEF Claimants, Waiting
    <3>3. Unpublished(t)
      BY DEF Unpublished
    <3> QED
      BY <2>2, <3>1, <3>2, <3>3, <1>5 DEF OwnerInv, UsersAgree, Waiting
  <2> QED
    BY <2>1, <2>2
<1> QED
  BY <1>11, <1>15, <1>16, <1>17, <1>18, <1>19, <1>20 DEF OwnerInv

\* The GPU gets to a main command buffer when nobody is before it and all that was to
\* be released for it has arrived; what comes after it finds the range in its family.
LEMMA OwnerExecuteMain ==
    ASSUME OwnerInv, LeaseInv', NEW q \in Queues, ExecuteMain(q)
    PROVE  OwnerInv'
<1>0. PICK b : b = Head(gpuQueue[q])
  OBVIOUS
<1>d. PICK s : s = b.of
  OBVIOUS
<1> DEFINE acquired(r) == {Family(p) : p \in {p \in Queues : r \in groups[s][p]}}
           right(r) == IF acquired(r) = {}
                         THEN gpuOwner[r] \in {<<Family(q), Family(q)>>, <<Nil, Nil>>}
                         ELSE gpuOwner[r] \in acquired(r) \X {Family(q)}
<1>1. /\ gpuQueue[q] # <<>> /\ b.cb = Nil
      /\ gpuQueue' = [gpuQueue EXCEPT ![q] = Tail(@)]
      /\ stage' = stage /\ released' = released /\ claims' = claims /\ groups' = groups
      /\ owner' = owner /\ target' = target /\ disputed' = disputed
      /\ \A cb \in b.waits : semaphore[cb] = "signaled"
      /\ b.after \subseteq executed
      /\ executed' = executed \cup {s}
      /\ gpuOwner' = [r \in Ranges |-> IF r \in b.ranges THEN <<Family(q), Family(q)>>
                                         ELSE gpuOwner[r]]
      /\ defined' = [r \in Ranges |-> defined[r] /\ (r \in b.ranges => right(r))]
  BY <1>0, <1>d DEF ExecuteMain, Ready, hostVars
<1>2. TypeOK /\ LeaseInv
  BY DEF OwnerInv, LeaseInv
<1>3. /\ b \in BatchesOf(q)
      /\ \A p \in Queues : BatchesOf(p)' = BatchesOf(p) \ {b}
      /\ Work' = Work \ {b}
      /\ \A a, c : Behind(a, c) /\ a # b => Behind(a, c)'
  BY <1>0, <1>1, <1>2, TailWork DEF LeaseInv
<1>4. Mains' = Mains \ {b} /\ Releases' = Releases /\ b \in Mains
  BY <1>1, <1>3 DEF Mains, Releases, Work
<1>5. /\ s \in Submissions /\ s \notin executed /\ Sent(s) /\ target[s] = q
      /\ b.ranges = claims[s] /\ b.waits = leases[s]
      /\ claims[s] \subseteq Ranges
      /\ \A r \in claims[s] : s \in Claimants(r) /\ Waiting(s, r)
  <2>1. /\ s \in Submissions /\ s \notin executed /\ Sent(s) /\ target[s] = q
        /\ b.ranges = claims[s] /\ b.waits = leases[s]
    BY <1>1, <1>2, <1>3, <1>4, <1>d, BatchFacts DEF LeaseInv, MainsMatch
  <2>2. claims[s] \subseteq Ranges
    BY <1>2, <2>1 DEF TypeOK
  <2>3. \A r \in claims[s] : s \in Claimants(r)
    BY <2>1 DEF Claimants
  <2> QED
    BY <2>1, <2>2, <2>3, ClaimantsWait
\* Nobody is before s.
<1>6. \A r \in claims[s] : Before(s, r) = {}
  BY <1>1, <1>4, <1>d DEF Before, Claimants
\* Its releases are executed.
<1>7. /\ \A c \in Releases : c.of # s
      /\ \A r \in Ranges : ~Releasing(s, r)
  BY <1>1, <1>2, <1>5, BatchFacts DEF Releasing
<1>8. \A r \in claims[s] \ disputed : right(r)
  <2> SUFFICES ASSUME NEW r \in claims[s] \ disputed
               PROVE  right(r)
    OBVIOUS
  <2>1. r \in Ranges /\ Waiting(s, r) /\ Before(s, r) = {}
    BY <1>5, <1>6
  <2>2. CASE \E p \in Queues : r \in groups[s][p]
    <3>1. PICK p \in Queues : r \in groups[s][p]
      BY <2>2
    <3>2. p \in released[s]
      BY <3>1, <1>5 DEF OwnerInv, GroupsMatch, Sent
    <3>3. Arrived(s, r)
      BY <2>1, <3>1, <3>2, <1>7 DEF Arrived, Released
    <3>4. gpuOwner[r] = <<Family(p), Family(q)>>
      BY <2>1, <3>1, <3>3, <1>5 DEF OwnerInv, Places
    <3>5. Family(p) \in acquired(r)
      BY <3>1
    <3> QED
      BY <3>4, <3>5
  <2>3. CASE \A p \in Queues : r \notin groups[s][p]
    <3>1. gpuOwner[r] \in {Own(target[s]), <<Nil, Nil>>}
      BY <2>1, <2>3, <1>5 DEF OwnerInv, Places
    <3>2. acquired(r) = {}
      BY <2>3
    <3> QED
      BY <3>1, <3>2, <1>5 DEF Own
  <2> QED
    BY <2>2, <2>3
<1>9. ContentsDefined'
  BY <1>1, <1>5, <1>8 DEF OwnerInv, ContentsDefined
<1>10. \A r \in Ranges : gpuOwner'[r] = IF r \in claims[s] THEN Own(q) ELSE gpuOwner[r]
  BY <1>1, <1>5 DEF Own
<1>11. \A r \in Ranges : Claimants(r)' = Claimants(r) \ {s}
  BY <1>1 DEF Claimants, Sent
<1>12. \A t \in Submissions \ {s}, r \in Ranges : Before(t, r)' = Before(t, r) \ {s}
  <2> SUFFICES ASSUME NEW t \in Submissions \ {s}, NEW r \in Ranges
               PROVE  Before(t, r)' = Before(t, r) \ {s}
    OBVIOUS
  <2>1. \A c : c.of = t => (c \in Mains' <=> c \in Mains)
    BY <1>4, <1>d
  <2>2. Claimants(r)' = Claimants(r) \ {s}
    BY <1>11
  <2> QED
    BY <2>1, <2>2 DEF Before
<1>13. \A t \in Submissions, r \in Ranges : r \notin claims[s] => s \notin Before(t, r) /\ s \notin Claimants(r)
  BY DEF Before, Claimants
<1>14. \A t \in Submissions \ {s}, r \in claims[s] \ disputed :
           Waiting(t, r) => s \in Before(t, r) /\ ~Arrived(t, r)
  BY <1>5, <1>6, FirstIsBefore
<1>15. \A t \in Submissions, r \in Ranges :
           /\ Waiting(t, r)' <=> Waiting(t, r) /\ t # s
           /\ Arrived(t, r)' <=> Arrived(t, r)
  <2>1. \A t \in Submissions, r \in Ranges : Waiting(t, r)' <=> Waiting(t, r) /\ t # s
    BY <1>1 DEF Waiting, Unpublished
  <2>2. \A t \in Submissions, r \in Ranges : Arrived(t, r)' <=> Arrived(t, r)
    BY <1>1, <1>4 DEF Arrived, Released, Releasing
  <2> QED
    BY <2>1, <2>2
\* The last of some stays the last when s is gone, unless s was alone.
<1>16. ASSUME NEW r \in Ranges, NEW C \in SUBSET Claimants(r), NEW l \in C, Last(C, l, r)
       PROVE  /\ l = s => C \ {s} = {}
              /\ l # s => l \in C \ {s} /\ (C \ {s}) \ {l} \subseteq Before(l, r)'
  <2>1. l \in Submissions /\ r \in claims[l]
    BY <1>16 DEF Claimants
  <2>2. CASE l = s
    BY <2>1, <2>2, <1>6, <1>16 DEF Last
  <2>3. CASE l # s
    BY <2>1, <2>3, <1>12, <1>16 DEF Last
  <2> QED
    BY <2>2, <2>3
<1>17. UsersAgree' /\ GroupsMatch'
  BY <1>1 DEF OwnerInv, UsersAgree, GroupsMatch, Unpublished
<1>18. Ordered'
  <2> SUFFICES ASSUME NEW r \in Ranges, NEW t \in Claimants(r) \ {s}, NEW u \in Claimants(r) \ {s},
                      t # u
               PROVE  t \in Before(u, r)' \/ u \in Before(t, r)'
    BY <1>11 DEF Ordered
  <2>1. t \in Submissions /\ u \in Submissions
    BY DEF Claimants
  <2> QED
    BY <2>1, <1>12 DEF OwnerInv, Ordered
<1>19. AfterIsBefore'
  <2> SUFFICES ASSUME NEW c \in Releases, NEW t \in c.after
               PROVE  /\ t \in Submissions /\ ~Unsent(t)'
                      /\ t \notin executed \cup {s} =>
                            \A r \in c.ranges \cap claims[t] : t \in Before(c.of, r)'
    BY <1>1, <1>4 DEF AfterIsBefore
  <2>1. /\ t \in Submissions /\ ~Unsent(t)
        /\ t \notin executed => \A r \in c.ranges \cap claims[t] : t \in Before(c.of, r)
    BY DEF OwnerInv, AfterIsBefore
  <2>2. c.of \in Submissions \ {s} /\ c.ranges \subseteq Ranges
    BY <1>2, <1>7, WorkType DEF Releases
  <2>3. ~Unsent(t)'
    BY <2>1, <1>1 DEF Unsent
  <2> QED
    BY <2>1, <2>2, <2>3, <1>12
<1>20. ReleasedOnce'
  BY <1>3 DEF OwnerInv, ReleasedOnce
<1>21. Sources'
  <2> SUFFICES ASSUME NEW t \in Submissions \ {s}, NEW r \in Ranges \ disputed, Waiting(t, r),
                      Before(t, r) \ {s} # {}
               PROVE  \E l \in Submissions :
                        /\ l \in Before(t, r) \ {s}
                        /\ (Before(t, r) \ {s}) \ {l} \subseteq Before(l, r)'
                        /\ \A p \in Queues : r \in groups[t][p] => target[l] = p
                        /\ (\A p \in Queues : r \notin groups[t][p])
                              => Family(target[l]) = Family(target[t])
                        /\ \A c \in Releases : c.of = t /\ r \in c.ranges =>
                              \E a \in Mains' : a.of = l /\ Behind(a, c)'
    BY <1>1, <1>4, <1>12, <1>15 DEF Sources, Last
  <2>1. PICK l \in Submissions :
            /\ Last(Before(t, r), l, r)
            /\ \A p \in Queues : r \in groups[t][p] => target[l] = p
            /\ (\A p \in Queues : r \notin groups[t][p])
                  => Family(target[l]) = Family(target[t])
            /\ \A c \in Releases : c.of = t /\ r \in c.ranges =>
                  \E a \in Mains : a.of = l /\ Behind(a, c)
    BY DEF OwnerInv, Sources
  <2>2. Before(t, r) \subseteq Claimants(r) /\ l \in Before(t, r)
    BY <2>1 DEF Before, Last
  <2>3. l # s /\ l \in Before(t, r) \ {s} /\ (Before(t, r) \ {s}) \ {l} \subseteq Before(l, r)'
    BY <2>1, <2>2, <1>16
  <2>4. \A a \in Mains : a.of = l => a # b /\ a \in Mains'
    BY <2>3, <1>4, <1>d
  <2> QED
    BY <2>1, <2>3, <2>4, <1>3
<1>22. Places'
  <2> SUFFICES ASSUME NEW t \in Submissions \ {s}, NEW r \in Ranges \ disputed, Waiting(t, r)
               PROVE  /\ Arrived(t, r) => Before(t, r) \ {s} = {}
                      /\ Before(t, r) \ {s} = {} =>
                            /\ \A p \in Queues : r \in groups[t][p] =>
                                  gpuOwner'[r] = IF Arrived(t, r)
                                                   THEN <<Family(p), Family(target[t])>>
                                                   ELSE Own(p)
                            /\ (\A p \in Queues : r \notin groups[t][p]) =>
                                  gpuOwner'[r] \in {Own(target[t]), <<Nil, Nil>>}
    BY <1>1, <1>12, <1>15 DEF Places, Own
  <2>1. CASE r \notin claims[s]
    <3>1. gpuOwner'[r] = gpuOwner[r] /\ Before(t, r) \ {s} = Before(t, r)
      BY <2>1, <1>10, <1>13
    <3> QED
      BY <3>1 DEF OwnerInv, Places
  <2>2. CASE r \in claims[s]
    <3>1. s \in Before(t, r) /\ ~Arrived(t, r) /\ gpuOwner'[r] = Own(q)
      BY <2>2, <1>10, <1>14
    <3>2. PICK l \in Submissions :
              /\ Last(Before(t, r), l, r)
              /\ \A p \in Queues : r \in groups[t][p] => target[l] = p
              /\ (\A p \in Queues : r \notin groups[t][p])
                    => Family(target[l]) = Family(target[t])
      BY <3>1 DEF OwnerInv, Sources
    <3>3. Before(t, r) \ {s} = {} => l = s
      BY <3>2 DEF Last
    <3> QED
      BY <3>1, <3>2, <3>3, <1>5 DEF Own
  <2> QED
    BY <2>1, <2>2
<1>23. OwnerKnown'
  <2> SUFFICES ASSUME NEW r \in Ranges \ disputed, Settled(r)
               PROVE  /\ Claimants(r) \ {s} # {} =>
                            \E l \in Submissions :
                                /\ l \in Claimants(r) \ {s}
                                /\ (Claimants(r) \ {s}) \ {l} \subseteq Before(l, r)'
                                /\ target[l] = owner[r]
                      /\ Claimants(r) \ {s} = {} =>
                            gpuOwner'[r] = IF owner[r] = Nil THEN <<Nil, Nil>> ELSE Own(owner[r])
    BY <1>1, <1>11 DEF OwnerKnown, Own, Last, Settled, Released, Unpublished
  <2>1. CASE Claimants(r) # {}
    <3>1. PICK l \in Submissions : Last(Claimants(r), l, r) /\ target[l] = owner[r]
      BY <2>1 DEF OwnerInv, OwnerKnown
    <3>2. l \in Claimants(r)
      BY <3>1 DEF Last
    <3>3. CASE Claimants(r) \ {s} # {}
      BY <3>1, <3>2, <3>3, <1>16
    <3>4. CASE Claimants(r) \ {s} = {}
      <4>1. l = s /\ r \in claims[s]
        BY <3>2, <3>4 DEF Claimants
      <4> QED
        BY <3>1, <3>4, <4>1, <1>5, <1>10, NilAssumption
    <3> QED
      BY <3>3, <3>4
  <2>2. CASE Claimants(r) = {}
    <3>1. r \notin claims[s]
      BY <2>2, <1>5
    <3> QED
      BY <2>2, <3>1, <1>10 DEF OwnerInv, OwnerKnown
  <2> QED
    BY <2>1, <2>2
<1>24. SentIsLast'
  <2>0. /\ stage' = stage /\ claims' = claims /\ target' = target /\ executed' = executed \cup {s}
        /\ disputed' = disputed
        /\ \A t \in Submissions : claims[t] \subseteq Ranges
    BY <1>1, <1>2 DEF TypeOK
  <2> SUFFICES ASSUME NEW t \in Submissions, stage[t] = "sent", NEW r \in claims[t]
               PROVE  /\ t \notin executed \cup {s} =>
                            /\ t \in Claimants(r) \ {s}
                            /\ (Claimants(r) \ {s}) \ {t} \subseteq Before(t, r)'
                      /\ t \in executed \cup {s} =>
                            /\ Claimants(r) \ {s} = {}
                            /\ r \notin disputed => gpuOwner'[r] = Own(target[t])
    BY <1>11, <2>0 DEF SentIsLast, Own, Last
  <2>1. r \in Ranges
    BY <1>2 DEF TypeOK
  <2>2. CASE t \in executed
    <3>1. Claimants(r) = {} /\ (r \notin disputed => gpuOwner[r] = Own(target[t]))
      BY <2>2 DEF OwnerInv, SentIsLast
    <3>2. r \notin claims[s] /\ t # s
      BY <2>2, <3>1, <1>5
    <3> QED
      BY <2>1, <2>2, <3>1, <3>2, <1>10
  <2>3. CASE t \notin executed
    <3>1. Last(Claimants(r), t, r) /\ t \in Claimants(r)
      BY <2>3 DEF OwnerInv, SentIsLast, Last
    <3>2. /\ t = s => Claimants(r) \ {s} = {}
          /\ t # s => t \in Claimants(r) \ {s} /\ (Claimants(r) \ {s}) \ {t} \subseteq Before(t, r)'
      BY <2>1, <3>1, <1>16
    <3> QED
      BY <2>1, <2>3, <3>1, <3>2, <1>5, <1>10
  <2> QED
    BY <2>2, <2>3
<1> QED
  BY <1>9, <1>17, <1>18, <1>19, <1>20, <1>21, <1>22, <1>23, <1>24 DEF OwnerInv

LEMMA OwnerStep ==
    ASSUME MayAbandon = FALSE, OwnerInv, [Next]_vars
    PROVE  OwnerInv'
<1>1. LeaseInv /\ LeaseInv' /\ TypeOK
  BY LeaseStep DEF OwnerInv, LeaseInv
<1>2. ASSUME NEW s \in Submissions, NEW R \in (SUBSET Ranges) \ {{}}, Record(s, R)
      PROVE  OwnerInv'
  BY <1>1, <1>2, OwnerRecord
<1>3. ASSUME NEW s \in Submissions, Finish(s)
      PROVE  OwnerInv'
  BY <1>1, <1>3, OwnerHost DEF Finish, TypeOK, gpuVars
<1>4. ASSUME NEW s \in Submissions, NEW q \in Queues, NEW cb \in CmdBufs,
             SubmitRelease(s, q, cb)
      PROVE  OwnerInv'
  BY <1>1, <1>4, OwnerSubmit
<1>5. ASSUME NEW s \in Submissions, Finished(s)
      PROVE  OwnerInv'
  BY <1>1, <1>5, OwnerHost DEF Finished, TypeOK, gpuVars
<1>6. ASSUME NEW s \in Submissions, Send(s)
      PROVE  OwnerInv'
  BY <1>1, <1>6, OwnerSend
<1>7. ASSUME NEW s \in Submissions, Attach(s)
      PROVE  OwnerInv'
  BY <1>1, <1>7, OwnerAttach
<1>8. ASSUME NEW s \in Submissions, Observe(s)
      PROVE  OwnerInv'
  BY <1>1, <1>8, OwnerHost DEF Observe, TypeOK, gpuVars
<1>9. ASSUME NEW s \in Submissions, Abandon(s)
      PROVE  OwnerInv'
  <2>1. Unsent(s) /\ released[s] = {}
    BY <1>1, <1>9 DEF Abandon, Unsent, LeaseInv, WaitsForLeases
  <2> QED
    BY <1>1, <1>9, <2>1, OwnerHost DEF Abandon, TypeOK, gpuVars
<1>10. ASSUME NEW s \in Submissions, DropCommands(s)
       PROVE  OwnerInv'
  BY <1>1, <1>10, OwnerHost DEF DropCommands, TypeOK, gpuVars
<1>11. ASSUME NEW s \in Submissions, NEW cb \in CmdBufs, ReturnCmdBuf(s, cb) \/ WaitRelease(s, cb)
       PROVE  OwnerInv'
  BY <1>1, <1>11, OwnerHost DEF ReturnCmdBuf, WaitRelease, TypeOK, gpuVars
<1>12. ASSUME NEW q \in Queues, ExecuteRelease(q)
       PROVE  OwnerInv'
  BY <1>1, <1>12, OwnerExecuteRelease
<1>13. ASSUME NEW q \in Queues, ExecuteMain(q)
       PROVE  OwnerInv'
  BY <1>1, <1>13, OwnerExecuteMain
<1>14. CASE UNCHANGED vars
  <2>1. CASE \E s \in Submissions : TRUE
    BY <1>1, <1>14, <2>1, OwnerHost DEF vars, hostVars, gpuVars
  <2>2. CASE Submissions = {}
    <3>1. \A q \in Queues : \A b \in BatchesOf(q) : FALSE
      BY <1>1, <2>2, WorkType
    <3>2. \A q \in Queues : BatchesOf(q)' = BatchesOf(q)
      BY <1>14 DEF BatchesOf, vars, gpuVars
    <3>3. UsersAgree' /\ GroupsMatch' /\ Ordered' /\ Sources' /\ Places' /\ SentIsLast'
      BY <2>2 DEF UsersAgree, GroupsMatch, Ordered, Sources, Places, SentIsLast, Claimants
    <3>4. AfterIsBefore' /\ ReleasedOnce'
      BY <3>1, <3>2 DEF AfterIsBefore, ReleasedOnce, Releases, Work
    <3>5. OwnerKnown' /\ ContentsDefined'
      BY <1>14, <2>2 DEF OwnerInv, OwnerKnown, ContentsDefined, Settled, Claimants, Own, vars,
                         hostVars, gpuVars
    <3> QED
      BY <1>1, <3>3, <3>4, <3>5 DEF OwnerInv
  <2> QED
    BY <2>1, <2>2
<1> QED
  BY <1>2, <1>3, <1>4, <1>5, <1>6, <1>7, <1>8, <1>9, <1>10, <1>11, <1>12, <1>13, <1>14
     DEF Next, Submission, Proceed, Gpu

\* No range loses its contents on its way between queues, if no submission is abandoned
\* once it has submitted a release: no release and no access on the GPU finds a range
\* that another family owns, that is on its way elsewhere, or that is still in use.  Any
\* number of recorded submissions may share a range before either is submitted; excused
\* is what two of them plan to move, or want in different families (disputed).
THEOREM ContentsStayDefined ==
    MayAbandon = FALSE => (Spec => []ContentsDefined)
<1> SUFFICES ASSUME MayAbandon = FALSE
             PROVE  Spec => []ContentsDefined
  OBVIOUS
<1>1. OwnerInv => ContentsDefined
  BY DEF OwnerInv
<1>2. OwnerInv /\ [Next]_vars => OwnerInv'
  BY OwnerStep
<1> QED
  BY OwnerInit, <1>1, <1>2, PTL DEF Spec
=============================================================================
