------------------------------ MODULE Tracking ------------------------------
(***************************************************************************)
(* The trackers of buffers and images, each as its threads may use it, the *)
(* claims of a recording, and the atomic map that all of them implement.   *)
(***************************************************************************)
EXTENDS Sharing, Access, Claims

VARIABLE past           \* thread -> what the map was since a reader's call
vars == <<trackerVars, past>>

IsSharing == tracker.kind = "sharing"
IsAccess == tracker.kind = "access"
IsClaims == tracker.kind = "claims"

Contents == IF IsSharing THEN Owners ELSE IF IsAccess THEN Accesses ELSE Sources

Init ==
    /\ tracker \in Trackers
    /\ IF IsSharing THEN SharingInit ELSE IF IsAccess THEN AccessInit ELSE ClaimsInit
    /\ lock = None
    /\ pc = [t \in Threads |-> "idle"]
    /\ op = [t \in Threads |-> None]
    /\ local = [t \in Threads |-> None]
    /\ reply = [t \in Threads |-> None]
    /\ past = [t \in Threads |-> {}]

Step(t) ==
    \/ IsSharing /\ SharingStep(t)
    \/ IsAccess /\ AccessStep(t)
    \/ IsClaims /\ ClaimsStep(t)

(* An auxiliary variable, which no step depends on                         *)
Remember ==
    past' = [t \in Threads |->
                IF op'[t] = None \/ reply'[t] # None THEN {}
                ELSE IF op'[t].do = "read" THEN past[t] \cup {Contents'} ELSE {}]

Next == (\E t \in Users : Step(t)) /\ Remember

(* Threads are scheduled; whether they call something is up to them.       *)
Works(t) == pc[t] # "idle" /\ Step(t)

Spec == Init /\ [][Next]_vars /\ \A t \in Threads : WF_trackerVars(t \in Users /\ Works(t))

-----------------------------------------------------------------------------
(* The values that cells of a tracker take                                 *)
ValuesOf(k) ==
    IF k.kind = "sharing" THEN {Unknown} \cup k.values
    ELSE IF k.kind = "claims" THEN {Ignored} \cup k.values
    ELSE AccessValues(k)

CellValues == ValuesOf(tracker)

Abstract(o) ==
    [cells |-> UNION {CellsOf(r) : r \in ToSet(o.ranges)},
     update |-> [v \in CellValues |->
                    CASE IsSharing -> IF o.do = "set" THEN o.value ELSE v
                      [] IsAccess -> Updated(o, v)
                      [] IsClaims -> Ignored],
     answers |-> o.do # "set",
     reads |-> o.do = "read"]

(* None stands for what is missing: it is no operation, answer or map.     *)
ASSUME NoneAssumption ==
    /\ None \notin Threads /\ None # <<>>
    /\ \A k \in Trackers :
        LET values == ValuesOf(k)
        IN  /\ None \notin [values : Seq(values), transitions : Nat]
            /\ None \notin [cells : SUBSET Nat, update : [values -> values],
                             answers : BOOLEAN, reads : BOOLEAN]
            /\ \A cells \in SUBSET (0..SizeOf(k) - 1) : None \notin [cells -> values]

Called == [t \in Threads |-> IF op[t] = None THEN None ELSE Abstract(op[t])]
Replied == [t \in Threads |-> IF IsAccess THEN AccessReply(t) ELSE reply[t]]

Map == INSTANCE AtomicMap WITH map <- Contents, call <- Called, reply <- Replied

-----------------------------------------------------------------------------
TypeOK ==
    /\ tracker \in Trackers
    /\ lock \in Users \cup {None}
    /\ \A t \in Threads :
        /\ pc[t] \in {"idle", "load", "load_set", "exchange", "lock", "locked", "ranges",
                      "capture", "set_dense", "pieces", "track", "tracked", "unlock", "return"}
        /\ op[t] \in (IF t \in Users THEN tracker.ops[t] ELSE {}) \cup {None}
        /\ pc[t] = "idle" <=> op[t] = None
    /\ Contents \in [Cells -> CellValues]

(* Operations of threads that race with promotions and demotions, take the *)
(* lock or not, and retry are atomic: each takes effect at one moment      *)
(* between its call and its return, and answers accordingly.  A command    *)
(* acquires each part of a resource from its owner if it is the first of   *)
(* the recording to use it, and only then.                                 *)
Linearizable == Map!Spec

(* When the lock is free the map is in the form that the next to take it   *)
(* relies on: runs start at zero, grow, differ from their neighbours, and  *)
(* there is one of them while the word is authoritative; the count of      *)
(* transitions is exact (the assertions of promote_and_set_ranges and of   *)
(* RunMapCursor::new, the "never a second scan" of DenseMap).  A map that  *)
(* is authoritative then exists, and differs somewhere.                    *)
(*   Claims of a buffer are disjoint, do not touch, and promote before they *)
(* have moved more ranges than it can have (the comments of BufferClaim);  *)
(* what is planned to be transferred has one owner, is planned once, and a *)
(* command that is yet to be recorded acquires it: no release is in vain.  *)
(*   The rest has its type at all times.                                   *)
Canonical(runs) ==
    /\ StartOf(runs, 1) = 0
    /\ \A r \in 2..Len(runs) : /\ StartOf(runs, r - 1) < StartOf(runs, r)
                               /\ StartOf(runs, r) < Size
                               /\ Value(runs, r - 1) # Value(runs, r)

Counted(map) ==
    /\ Len(map.values) \in {1, Size}
    /\ map.transitions = Cardinality({i \in 2..Len(map.values) : map.values[i - 1] # map.values[i]})

MapCountsUnlocked == IF IsSharing THEN word = Dense ELSE word.state # "uniform"

ClaimsInForm ==
    LET claims == store.claims
    IN  /\ claims.form \in {"ordered", "indexed"} =>
            /\ \A r, s \in claims.ranges : r = s \/ r[2] < s[1] \/ s[2] < r[1]
            /\ 2 * claims.shifted <= Size + 1
        /\ claims.form = "dense" => Counted(claims.map)

PlansInForm ==
    /\ \A p \in store.pending :
        /\ \E t \in ToSet(word.queue) : CellsOf(p.range) \subseteq CellsOf(op[t].ranges[1])
        /\ \A c \in CellsOf(p.range) : SourceAt(c) = p.from /\ c \in ClaimedCells
    /\ \A p, q \in store.pending : p = q \/ ~Intersects(p.range, q.range)

StoreInForm ==
    /\ TypeOK
    /\ IsClaims => ClaimsInForm /\ PlansInForm
    /\ ~IsClaims /\ lock = None =>
        IF IsBuffer
        THEN Canonical(store) /\ (IsSharing /\ word # Dense => Len(store) = 1)
        ELSE /\ store = None \/ Counted(store)
             /\ MapCountsUnlocked => store # None /\ ~IsUniform(store)

(* The items of an iterator have one old value each and do not overlap,    *)
(* and when it is exhausted they have covered its range: no barrier is     *)
(* forgotten and none is recorded twice (next_with of both cursors).       *)
PiecesCover ==
    [][\A t \in Threads : pc[t] = "pieces" => LET before == Before IN
            /\ DOMAIN reply[t] \subseteq DOMAIN reply'[t]
            /\ \A c \in DOMAIN reply'[t] \ DOMAIN reply[t] :
                    c \in CellsOf(op[t].ranges[1]) /\ reply'[t][c] = before[c]
            /\ pc'[t] # "pieces" => DOMAIN reply[t] = CellsOf(op[t].ranges[1])]_vars

(* Whatever the races, somebody's operation returns again and again while  *)
(* there are operations: no retry and no wait goes round for ever.         *)
SomebodyReturns ==
    <>[](\E t \in Threads : pc[t] # "idle")
        => []<><<\E t \in Threads : pc[t] # "idle" /\ pc'[t] = "idle">>_vars
=============================================================================
