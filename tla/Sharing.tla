------------------------------ MODULE Sharing -------------------------------
(***************************************************************************)
(* The tracker of which queue owns each part of an exclusive resource.     *)
(* The word is an owner, or Dense while the map is authoritative.          *)
(*                                                                         *)
(* src/src/driver/buffer.rs and src/src/driver/image.rs, ExclusiveSharing  *)
(***************************************************************************)
EXTENDS Tracker

CONSTANT Dense          \* the word that is not an owner

Unknown == "unknown"    \* SharingMode::Exclusive(None)

(* Threads assign owners of the tracker's and read one range at a time.    *)
ASSUME SharingAssumption ==
    \A k \in Trackers : k.kind = "sharing" =>
        /\ Dense \notin {Unknown} \cup k.values
        /\ \A t \in DOMAIN k.ops : \A o \in k.ops[t] :
            \/ o.do = "set" /\ o.value \in k.values
            \/ o.do = "read" /\ Len(o.ranges) = 1

SharingInit ==
    /\ word = Unknown
    /\ store = IF IsBuffer THEN RunsOf(Unknown) ELSE None

SetWhole(o) == o.do = "set" /\ Len(o.ranges) = 1 /\ WholeRange(o.ranges[1])

CallSharing(t) == Begin(t, LAMBDA o : "load")

(* An assignment of what everything has already ends with the load that    *)
(* finds it so; for a buffer that goes for parts of it only.               *)
Unchanged(o) == word = o.value /\ ~(IsBuffer /\ SetWhole(o))

LoadOwner(t) ==
    LET o == op[t]
    IN  /\ pc[t] = "load"
        /\ CASE o.do = "read" /\ word # Dense ->
                    /\ Goto(t, "return") /\ Reply(t, AnswerOf(t, Everywhere(word)))
                    /\ UNCHANGED local
             [] o.do = "set" /\ Unchanged(o) ->
                    Goto(t, "return") /\ Reply(t, <<>>) /\ UNCHANGED local
             [] o.do = "set" /\ ~Unchanged(o) /\ SetWhole(o) /\ word # Dense ->
                    /\ Goto(t, "exchange") /\ local' = [local EXCEPT ![t] = word]
                    /\ UNCHANGED reply
             [] OTHER -> Goto(t, "lock") /\ UNCHANGED <<local, reply>>
        /\ UNCHANGED <<tracker, word, store, lock, op>>

(* compare_exchange, which loads again when it fails                       *)
ExchangeOwner(t) ==
    /\ pc[t] = "exchange"
    /\ IF word = local[t]
       THEN /\ word' = op[t].value
            /\ Reply(t, <<>>) /\ Goto(t, "return")
            /\ UNCHANGED local
       ELSE /\ local' = [local EXCEPT ![t] = word]
            /\ Goto(t, IF word = Dense THEN "lock" ELSE "exchange")
            /\ UNCHANGED <<word, reply>>
    /\ UNCHANGED <<tracker, store, lock, op>>

SetWholeLocked(t) ==
    /\ pc[t] = "locked" /\ SetWhole(op[t])
    /\ store' = StoreOf(op[t].value)
    /\ word' = op[t].value
    /\ Reply(t, <<>>) /\ Goto(t, "unlock")
    /\ UNCHANGED <<tracker, lock, op, local>>

(* What the map becomes when the owner of everything is captured: a buffer *)
(* trusts that its map was left with one run.                              *)
Captured(owner) ==
    IF IsBuffer THEN [store EXCEPT ![1][1] = owner] ELSE DenseOf(owner)

Promote(t) ==
    /\ pc[t] = "locked" /\ op[t].do = "set" /\ ~SetWhole(op[t])
    /\ IF word # Dense
       THEN word' = Dense /\ store' = Captured(word)
       ELSE UNCHANGED <<word, store>>
    /\ Reply(t, <<>>) /\ Goto(t, "ranges")
    /\ local' = [local EXCEPT ![t] = 0]
    /\ UNCHANGED <<tracker, lock, op>>

Assigned(s, value, range) ==
    IF IsBuffer THEN SetRange(s, Size, value, range)
    ELSE SetDenseRange(s, tracker.shape, value, range)

(* One range after the other; local counts them.                           *)
AssignRange(t) ==
    LET o == op[t]
    IN  /\ pc[t] = "ranges" /\ local[t] < Len(o.ranges)
        /\ store' = Assigned(store, o.value, o.ranges[local[t] + 1])
        /\ local' = [local EXCEPT ![t] = @ + 1]
        /\ UNCHANGED <<tracker, word, lock, pc, op, reply>>

StoreUniform == IF IsBuffer THEN Len(store) = 1 ELSE IsUniform(store)
FirstStored == IF IsBuffer THEN Value(store, 1) ELSE store.values[1]

(* A map that the ranges have left uniform gives way to the word.          *)
Demote(t) ==
    /\ pc[t] = "ranges" /\ local[t] = Len(op[t].ranges)
    /\ word' = IF StoreUniform THEN FirstStored ELSE word
    /\ Goto(t, "unlock")
    /\ UNCHANGED <<tracker, store, lock, op, local, reply>>

(* A reader that found the map authoritative looks again under the lock.   *)
ReadLocked(t) ==
    /\ pc[t] = "locked" /\ op[t].do = "read"
    /\ Reply(t, AnswerOf(t, IF word = Dense THEN [c \in Cells |-> StoredAt(c)]
                            ELSE Everywhere(word)))
    /\ Goto(t, "unlock")
    /\ UNCHANGED <<tracker, word, store, lock, op, local>>

SharingStep(t) ==
    \/ CallSharing(t) \/ LoadOwner(t) \/ ExchangeOwner(t) \/ Lock(t)
    \/ SetWholeLocked(t) \/ Promote(t) \/ AssignRange(t) \/ Demote(t)
    \/ ReadLocked(t) \/ Unlock(t) \/ Return(t)

-----------------------------------------------------------------------------
(* What the tracker says: an assignment under the lock takes effect as     *)
(* soon as nobody without the lock can have a say.                         *)
Owners ==
    LET writers == {t \in Users : pc[t] = "ranges"}
        covered == UNION {CellsOf(r) : r \in UNION {ToSet(op[t].ranges) : t \in writers}}
    IN  IF word # Dense THEN Everywhere(word)
        ELSE [c \in Cells |-> IF c \in covered
                              THEN op[CHOOSE t \in writers : TRUE].value ELSE StoredAt(c)]
=============================================================================
