----------------------------- MODULE AtomicMap ------------------------------
(***************************************************************************)
(* What the trackers of a resource promise: a map from cells (bytes of a   *)
(* buffer, subresources of an image) to values, which threads read and     *)
(* update with operations that take effect at once, somewhere between      *)
(* their call and their return.  An operation updates its cells and, when  *)
(* it answers, answers with what they held; a reader answers with what     *)
(* they held at some moment since its call.                                *)
(*                                                                         *)
(* src/src/driver/buffer.rs, src/src/driver/image.rs: the comments that    *)
(* name the linearization points of the trackers                           *)
(***************************************************************************)
CONSTANTS
    Threads,
    None                \* no operation, no answer yet

VARIABLES
    map,                \* cell -> value
    call,               \* thread -> its operation [cells, update, answers, reads]
    reply,              \* thread -> its answer
    past                \* thread -> what the map was since a reader's call
vars == <<map, call, reply, past>>

Answer(op, m) == IF op.answers THEN [c \in op.cells |-> m[c]] ELSE <<>>

Waiting(t) == call[t] # None /\ reply[t] = None

Init == /\ call = [t \in Threads |-> None]
        /\ reply = [t \in Threads |-> None]
        /\ past = [t \in Threads |-> {}]

Call(t) ==
    /\ call[t] = None
    /\ call'[t] # None /\ call' = [call EXCEPT ![t] = call'[t]]
    /\ call'[t].cells \subseteq DOMAIN map
    /\ past' = [past EXCEPT ![t] = IF call'[t].reads THEN {map} ELSE {}]
    /\ reply' = [reply EXCEPT ![t] = None]
    /\ UNCHANGED map

Update(t) ==
    /\ Waiting(t) /\ ~call[t].reads
    /\ LET op == call[t]
           m == map
       IN  /\ map' = [c \in DOMAIN m |-> IF c \in op.cells THEN op.update[m[c]] ELSE m[c]]
           /\ reply' = [reply EXCEPT ![t] = Answer(op, m)]
    /\ past' = [u \in Threads |-> IF Waiting(u) /\ call[u].reads
                                  THEN past[u] \cup {map'} ELSE past[u]]
    /\ UNCHANGED call

Read(t) ==
    /\ Waiting(t) /\ call[t].reads
    /\ \E m \in past[t] : reply' = [reply EXCEPT ![t] = Answer(call[t], m)]
    /\ past' = [past EXCEPT ![t] = {}]
    /\ UNCHANGED <<map, call>>

Return(t) ==
    /\ call[t] # None /\ reply[t] # None
    /\ call' = [call EXCEPT ![t] = None]
    /\ reply' = [reply EXCEPT ![t] = None]
    /\ UNCHANGED <<map, past>>

Next == \E t \in Threads : Call(t) \/ Update(t) \/ Read(t) \/ Return(t)

Spec == Init /\ [][Next]_vars
=============================================================================
