------------------------------- MODULE Access -------------------------------
(***************************************************************************)
(* The tracker of the last access of each part of a resource.              *)
(*                                                                         *)
(* A buffer keeps a map of accesses behind its mutex and no word.  An      *)
(* image keeps a word [state, set]: the set of accesses of everything      *)
(* while the state is "uniform", else a promotion is under way or done and *)
(* the map counts.  An image with a single subresource never promotes.     *)
(* An access set is a set of sampled reads, or another access alone.       *)
(*                                                                         *)
(* src/src/driver/buffer.rs, src/src/driver/image.rs, Access, DenseAccess  *)
(***************************************************************************)
EXTENDS Tracker

Sampled == {"vertex", "fragment", "anyStage"}

IsWrite(access) == access \in {"write", "general"}

TrackedAccessAfter(previous, next) ==
    IF IsWrite(previous) /\ ~IsWrite(next) THEN "general" ELSE next

AfterAccess(previous, next) ==
    LET both == previous \cup {next}
    IN  IF ~(previous \subseteq Sampled /\ next \in Sampled) THEN {next}
        ELSE IF "anyStage" \in both THEN {"anyStage"} ELSE both

(* "mark" stands for the updates of with_access, which set a bit of a set. *)
Updated(o, previous) ==
    CASE o.do = "mark" -> previous \cup {o.value}
      [] o.do = "read" -> previous
      [] o.do = "swap" /\ IsBuffer -> TrackedAccessAfter(previous, o.value)
      [] o.do = "swap" /\ ~IsBuffer /\ o.keep -> AfterAccess(previous, o.value)
      [] o.do = "swap" /\ ~IsBuffer /\ ~o.keep -> {o.value}

Nothing == IF IsBuffer THEN "nothing" ELSE {"nothing"}

(* What may have been done to a cell of a tracker                          *)
AccessValues(k) ==
    LET sets == {{v} : v \in {"nothing"} \cup k.values} \cup SUBSET (k.values \cap Sampled)
    IN  IF k.of = "buffer" THEN {"nothing", "general"} \cup k.values
        ELSE (sets \cup {s \cup {"resolve"} : s \in sets}) \ {{}}

(* Only images are marked; an operation is about one range.                *)
ASSUME AccessAssumption ==
    \A k \in Trackers : k.kind = "access" =>
        \A t \in DOMAIN k.ops : \A o \in k.ops[t] :
            /\ Len(o.ranges) = 1
            /\ \/ o.do = "read"
               \/ o.do = "mark" /\ k.of = "image" /\ o.value = "resolve"
               \/ o.do = "swap" /\ o.value \in {"nothing"} \cup k.values

IsSingle == ~IsBuffer /\ Size = 1

AccessInit ==
    /\ word = IF IsBuffer THEN None ELSE [state |-> "uniform", set |-> Nothing]
    /\ store = IF IsBuffer THEN RunsOf(Nothing) ELSE None

CallAccess(t) == Begin(t, LAMBDA o : IF IsBuffer THEN "lock" ELSE "load")

(* What an updating operation does with the word it has just seen: it ends *)
(* here if it changes nothing; only all of the image can stay uniform.     *)
Decide(t, seen) ==
    LET o == op[t]
    IN  IF seen.state # "uniform"
        THEN Goto(t, "lock") /\ UNCHANGED <<local, reply>>
        ELSE IF Updated(o, seen.set) = seen.set
        THEN /\ Reply(t, AnswerOf(t, Everywhere(seen.set))) /\ Goto(t, "return")
             /\ UNCHANGED local
        ELSE IF WholeRange(o.ranges[1])
        THEN /\ local' = [local EXCEPT ![t] = seen] /\ Goto(t, "exchange")
             /\ UNCHANGED reply
        ELSE Goto(t, "lock") /\ UNCHANGED <<local, reply>>

(* A single subresource is swapped at once unless sampled reads add up.    *)
Accumulates(o) == o.do = "mark" \/ (o.keep /\ o.value \in Sampled)

SwapAtOnce(t) ==
    /\ pc[t] = "load" /\ IsSingle /\ op[t].do = "swap" /\ ~Accumulates(op[t])
    /\ word' = [word EXCEPT !.set = Updated(op[t], @)]
    /\ Reply(t, AnswerOf(t, Everywhere(word.set))) /\ Goto(t, "return")
    /\ UNCHANGED <<tracker, store, lock, op, local>>

LoadAccess(t) ==
    /\ pc[t] = "load" /\ op[t].do # "read"
    /\ IsSingle => Accumulates(op[t])
    /\ Decide(t, word)
    /\ UNCHANGED <<tracker, word, store, lock, op>>

(* Mutant: a failed exchange is tried again with the same expectation.     *)
ExchangeAgain(t) ==
    /\ pc[t] = "exchange"
    /\ word = local[t]
    /\ word' = [word EXCEPT !.set = Updated(op[t], @)]
    /\ Reply(t, AnswerOf(t, Everywhere(word.set))) /\ Goto(t, "return")
    /\ UNCHANGED <<tracker, store, lock, op, local>>

ExchangeAccess(t) ==
    /\ pc[t] = "exchange"
    /\ IF word = local[t]
       THEN /\ word' = [word EXCEPT !.set = Updated(op[t], @)]
            /\ Reply(t, AnswerOf(t, Everywhere(word.set))) /\ Goto(t, "return")
            /\ UNCHANGED local
       ELSE Decide(t, word) /\ UNCHANGED word
    /\ UNCHANGED <<tracker, store, lock, op>>

(* A reader loads twice: the state, then, if that is uniform, the set.     *)
LoadState(t) ==
    /\ pc[t] = "load" /\ op[t].do = "read"
    /\ Goto(t, IF word.state = "uniform" THEN "load_set" ELSE "lock")
    /\ UNCHANGED <<tracker, word, store, lock, op, local, reply>>

LoadSet(t) ==
    /\ pc[t] = "load_set"
    /\ Reply(t, AnswerOf(t, Everywhere(word.set))) /\ Goto(t, "return")
    /\ UNCHANGED <<tracker, word, store, lock, op, local>>

ReadAccessLocked(t) ==
    /\ pc[t] = "locked" /\ op[t].do = "read"
    /\ Reply(t, AnswerOf(t, IF ~IsBuffer /\ word.state = "uniform" THEN Everywhere(word.set)
                            ELSE [c \in Cells |-> StoredAt(c)]))
    /\ Goto(t, "unlock")
    /\ UNCHANGED <<tracker, word, store, lock, op, local>>

-----------------------------------------------------------------------------
(* ensure_dense: mark the promotion, capture the set, declare the map.     *)

MapCounts == IF IsBuffer THEN TRUE ELSE word.state = "dense"

(* Mutant: the set is captured while others may still exchange it.         *)
CaptureUnmarked(t) ==
    /\ pc[t] = "locked" /\ op[t].do # "read" /\ ~MapCounts
    /\ Goto(t, "capture")
    /\ UNCHANGED <<tracker, word, store, lock, op, local, reply>>

SetPromoting(t) ==
    /\ pc[t] = "locked" /\ op[t].do # "read" /\ ~MapCounts
    /\ word' = [word EXCEPT !.state = "promoting"]
    /\ Goto(t, "capture")
    /\ UNCHANGED <<tracker, store, lock, op, local, reply>>

Capture(t) ==
    /\ pc[t] = "capture"
    /\ store' = DenseOf(word.set)
    /\ Goto(t, "set_dense")
    /\ UNCHANGED <<tracker, word, lock, op, local, reply>>

NewCursor(o) == IF IsBuffer THEN Cursor(store, o.ranges[1]) ELSE DenseCursor

SetDense(t) ==
    /\ pc[t] = "set_dense"
    /\ word' = [word EXCEPT !.state = "dense"]
    /\ local' = [local EXCEPT ![t] = NewCursor(op[t])]
    /\ Reply(t, <<>>) /\ Goto(t, "pieces")
    /\ UNCHANGED <<tracker, store, lock, op>>

FindDense(t) ==
    /\ pc[t] = "locked" /\ op[t].do # "read"
    /\ MapCounts
    /\ local' = [local EXCEPT ![t] = NewCursor(op[t])]
    /\ Reply(t, <<>>) /\ Goto(t, "pieces")
    /\ UNCHANGED <<tracker, word, store, lock, op>>

Exhausted(t) ==
    IF IsBuffer THEN CursorDone(local[t]) ELSE DenseCursorDone(local[t], op[t].ranges[1])

(* An answer that has what m has where it had nothing yet                  *)
Extended(answer, cells, m) ==
    [c \in DOMAIN answer \cup cells |-> IF c \in DOMAIN answer THEN answer[c] ELSE m[c]]

(* One item of the iterator; what is left of it when it is dropped is      *)
(* taken too.                                                              *)
Yield(t, range, value) == Reply(t, Extended(reply[t], CellsOf(range), Everywhere(value)))

NextRun(t) ==
    /\ pc[t] = "pieces" /\ IsBuffer /\ ~Exhausted(t)
    /\ \E new \in {Updated(op[t], Value(store, local[t].read))} :
       \E piece \in {CursorNext(store, Size, local[t], new)} :
        /\ store' = piece.map
        /\ local' = [local EXCEPT ![t] = piece.cursor]
        /\ Yield(t, piece.range, piece.value)
    /\ UNCHANGED <<tracker, word, lock, pc, op>>

NextRectangle(t) ==
    LET shape == tracker.shape
        range == op[t].ranges[1]
    IN  /\ pc[t] = "pieces" /\ ~IsBuffer /\ ~Exhausted(t)
        /\ \E piece \in {DensePiece(store, shape, range, local[t])} :
           \E old \in {PieceValue(store, shape, piece)} :
            /\ store' = PieceMap(store, shape, local[t], piece, Updated(op[t], old))
            /\ local' = [local EXCEPT ![t] = PieceCursor(store, range, @, piece)]
            /\ Yield(t, piece, old)
        /\ UNCHANGED <<tracker, word, lock, pc, op>>

(* The guard of the map: what has become uniform leaves the map.           *)
TryDemote(t) ==
    /\ pc[t] = "pieces" /\ Exhausted(t)
    /\ word' = IF ~IsBuffer /\ word.state = "dense" /\ IsUniform(store)
               THEN [state |-> "uniform", set |-> store.values[1]] ELSE word
    /\ Goto(t, "unlock")
    /\ UNCHANGED <<tracker, store, lock, op, local, reply>>

AccessStep(t) ==
    \/ CallAccess(t) \/ LoadAccess(t) \/ SwapAtOnce(t) \/ ExchangeAccess(t)
    \/ LoadState(t) \/ LoadSet(t) \/ Lock(t) \/ ReadAccessLocked(t)
    \/ SetPromoting(t) \/ Capture(t) \/ SetDense(t) \/ FindDense(t)
    \/ NextRun(t) \/ NextRectangle(t) \/ TryDemote(t) \/ Unlock(t) \/ Return(t)

-----------------------------------------------------------------------------
(* The map without the gap that a cursor leaves in it until it is done     *)
Readable(t) ==
    IF IsBuffer /\ pc[t] = "pieces" /\ ~Exhausted(t)
    THEN SubSeq(store, 1, local[t].write - 1) \o SubSeq(store, local[t].read, Len(store))
    ELSE store

Promoting == lock # None /\ pc[lock] \in {"capture", "set_dense"}
Iterating == lock # None /\ pc[lock] = "pieces"

(* What the cells held before the operation under the lock gets to them    *)
Before == IF ~IsBuffer /\ word.state # "dense" THEN Everywhere(word.set)
          ELSE LET runs == IF Iterating THEN Readable(lock) ELSE store
               IN  [c \in Cells |-> IF IsBuffer THEN RunValueAt(runs, c) ELSE StoredAt(c)]

(* The cells it has yet to get to                                          *)
Remaining ==
    IF Promoting THEN CellsOf(op[lock].ranges[1])
    ELSE IF Iterating THEN CellsOf(op[lock].ranges[1]) \ DOMAIN reply[lock] ELSE {}

(* What the tracker says: an update under the lock takes effect as soon as *)
(* nobody without the lock can have a say.                                 *)
Accesses ==
    LET before == Before
        rest == Remaining
    IN  [c \in Cells |-> IF c \in rest THEN Updated(op[lock], before[c]) ELSE before[c]]

(* ... and has the answer that its iterator will have given                *)
AccessReply(t) ==
    IF t = lock /\ (Promoting \/ Iterating)
    THEN Extended(IF Promoting THEN <<>> ELSE reply[t], Remaining, Before)
    ELSE reply[t]
=============================================================================
