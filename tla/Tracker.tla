------------------------------ MODULE Tracker -------------------------------
(***************************************************************************)
(* What the trackers of buffers and images have in common.  A tracker is   *)
(* an atomic word, which holds the one value of a uniform resource, and,   *)
(* behind a mutex, a map for a resource whose parts differ.  While the     *)
(* word is authoritative the map is stale; while the map is, the word says *)
(* so.  Threads call operations on the tracker; a thread is at a label     *)
(* between two of its accesses to what is shared.                          *)
(*                                                                         *)
(* src/src/driver/buffer.rs, src/src/driver/image.rs                       *)
(***************************************************************************)
EXTENDS RunMap, DenseMap

CONSTANTS
    Threads,
    Trackers,           \* the trackers to choose from, see TrackerAssumption
    None

SizeOf(k) == IF k.of = "buffer" THEN k.size ELSE CellCount(k.shape)

(* The ranges of a resource: bytes from the first up to the second, or a   *)
(* box of layers, levels and aspects.                                      *)
RangesOf(k) ==
    IF k.of = "buffer"
    THEN {r \in (0..k.size - 1) \X (1..k.size) : r[1] < r[2]}
    ELSE {r \in [layer : Nat, layers : Nat \ {0}, level : Nat, levels : Nat \ {0},
                 aspect : Nat, aspects : Nat \ {0}] :
            /\ r.layer + r.layers <= k.shape.layers
            /\ r.level + r.levels <= k.shape.levels
            /\ r.aspect + r.aspects <= k.shape.aspects}

(* A tracker is of a kind, belongs to a buffer of some bytes or an image   *)
(* of some shape, and lists the operations that each thread calls and the  *)
(* values in them, or, in "claims", the owners of its cells.  An image     *)
(* with one layer and level and two aspects keeps two words, which are     *)
(* independent of each other: only its claims are modelled.                *)
ASSUME TrackerAssumption ==
    \A k \in Trackers :
        /\ k.kind \in {"sharing", "access", "claims"} /\ k.of \in {"buffer", "image"}
        /\ IF k.of = "buffer" THEN k.size \in Nat \ {0}
           ELSE k.shape \in [layers : Nat \ {0}, levels : Nat \ {0}, aspects : {1, 2}]
        /\ DOMAIN k.ops \subseteq Threads
        /\ \A t \in DOMAIN k.ops : \A o \in k.ops[t] :
            o # None /\ o.ranges \in Seq(RangesOf(k)) \ {<<>>}
        /\ k.of = "image" /\ k.kind # "claims" => ~(k.shape.layers = 1 /\ k.shape.levels = 1 /\ k.shape.aspects = 2)

VARIABLES
    tracker,            \* the tracker, one of Trackers
    word,               \* the atomic
    store,              \* the map behind the mutex
    lock,               \* the thread that holds the mutex
    pc,                 \* thread -> label
    op,                 \* thread -> the operation it executes
    local,              \* thread -> what it loaded, or its cursor
    reply               \* thread -> its answer as far as it has one
trackerVars == <<tracker, word, store, lock, pc, op, local, reply>>

IsBuffer == tracker.of = "buffer"
Size == SizeOf(tracker)
Cells == 0..Size - 1

CellsOf(range) ==
    IF IsBuffer THEN range[1]..range[2] - 1 ELSE IndicesOf(tracker.shape, range)

WholeRange(range) ==
    IF IsBuffer THEN range = <<0, Size>> ELSE IsWholeImage(tracker.shape, range)

Everywhere(value) == [c \in Cells |-> value]

StoreOf(value) == IF IsBuffer THEN RunsOf(value) ELSE DenseOf(value)

StoredAt(c) == IF IsBuffer THEN RunValueAt(store, c) ELSE ValueAt(store, c)

Goto(t, label) == pc' = [pc EXCEPT ![t] = label]

Reply(t, answer) == reply' = [reply EXCEPT ![t] = answer]

(* What the operation of t answers with when the cells hold m.             *)
AnswerOf(t, m) == [c \in CellsOf(op[t].ranges[1]) |-> m[c]]

Users == DOMAIN tracker.ops

Begin(t, Label(_)) ==
    /\ pc[t] = "idle"
    /\ \E o \in tracker.ops[t] : op' = [op EXCEPT ![t] = o] /\ Goto(t, Label(o))
    /\ UNCHANGED <<tracker, word, store, lock, local, reply>>

Lock(t) ==
    /\ pc[t] = "lock" /\ lock = None
    /\ lock' = t
    /\ Goto(t, "locked")
    /\ UNCHANGED <<tracker, word, store, op, local, reply>>

Idle(t) ==
    /\ op' = [op EXCEPT ![t] = None]
    /\ local' = [local EXCEPT ![t] = None]
    /\ Reply(t, None)
    /\ Goto(t, "idle")

(* The guard is the last thing that an operation drops.                    *)
Unlock(t) ==
    /\ pc[t] = "unlock"
    /\ lock' = None
    /\ Idle(t)
    /\ UNCHANGED <<tracker, word, store>>

Return(t) ==
    /\ pc[t] = "return"
    /\ Idle(t)
    /\ UNCHANGED <<tracker, word, store, lock>>
=============================================================================
