------------------------------- MODULE Claims -------------------------------
(***************************************************************************)
(* What a recording does with an exclusive resource that other queue       *)
(* families may own.  Each part that a command uses is claimed once; what  *)
(* is claimed for the first time is planned to be transferred from its     *)
(* owners (their releases are submitted first); the barriers before the    *)
(* command then acquire what is planned.  The threads are the commands:    *)
(* all commands of a schedule are tracked, then recorded in this order.    *)
(*                                                                         *)
(* A tracker lists the owners of its cells, which stay as they are until   *)
(* the recording is submitted.  word is [queue, recording]: the commands   *)
(* that were tracked and not recorded yet.  store is [claims, pending]:    *)
(* what is claimed, and the transfers [range, from] that are planned.      *)
(*                                                                         *)
(* src/src/submission.rs, RecordingOwnership and track_pending_transfers   *)
(***************************************************************************)
EXTENDS Tracker

Ignored == "ignored"    \* QUEUE_FAMILY_IGNORED: nothing to transfer

(* The recording's own family and Exclusive(None) transfer nothing.        *)
TransferSource(owner) == IF owner \in {"own", "unknown"} THEN Ignored ELSE owner

SourceAt(c) == TransferSource(tracker.owners[c])

(* A command uses one range; values has the families that a cell may be    *)
(* acquired from.                                                          *)
ASSUME ClaimsAssumption ==
    \A k \in Trackers : k.kind = "claims" =>
        /\ \A c \in 0..SizeOf(k) - 1 : TransferSource(k.owners[c]) \in {Ignored} \cup k.values
        /\ \A t \in DOMAIN k.ops : \A o \in k.ops[t] : Len(o.ranges) = 1 /\ o.do = "use"

-----------------------------------------------------------------------------
(* Ranges have one side <<start, end>>, or three: aspects, layers, levels. *)

Sides(range) ==
    IF IsBuffer THEN <<range>>
    ELSE <<<<range.aspect, range.aspect + range.aspects>>,
           <<range.layer, range.layer + range.layers>>,
           <<range.level, range.level + range.levels>>>>

RangeOf(sides) ==
    IF IsBuffer THEN sides[1]
    ELSE [aspect |-> sides[1][1], aspects |-> sides[1][2] - sides[1][1],
          layer |-> sides[2][1], layers |-> sides[2][2] - sides[2][1],
          level |-> sides[3][1], levels |-> sides[3][2] - sides[3][1]]

Dimensions == IF IsBuffer THEN 1..1 ELSE 1..3

Covers(r, s) ==
    \A d \in Dimensions : Sides(r)[d][1] <= Sides(s)[d][1] /\ Sides(s)[d][2] <= Sides(r)[d][2]

Intersects(r, s) ==
    \A d \in Dimensions : Sides(r)[d][1] < Sides(s)[d][2] /\ Sides(s)[d][1] < Sides(r)[d][2]

(* The parts of a range between cuts, which are given for each side.       *)
Split(range, cuts) ==
    LET Within(d) == {c \in cuts[d] : Sides(range)[d][1] < c /\ c < Sides(range)[d][2]}
        Spans(d) == LET all == Within(d) \cup ToSet(Sides(range)[d])
                    IN  {s \in all \X all : s[1] < s[2] /\ \A c \in all : c <= s[1] \/ s[2] <= c}
    IN  IF IsBuffer THEN Spans(1)
        ELSE {RangeOf(<<a, y, m>>) : a \in Spans(1), y \in Spans(2), m \in Spans(3)}

(* Into which parts a map of the resource falls depends on the accesses    *)
(* that it had: a buffer's where owners differ or anywhere, an image's     *)
(* into aspects, or layers of them, or levels of these, here all alike.    *)
Grains ==
    LET changes == {c \in 1..Size - 1 : tracker.owners[c - 1] # tracker.owners[c]}
        all == 0..Size
    IN  IF IsBuffer THEN {<<changes>>, <<all>>}
        ELSE {<<all, {}, {}>>, <<all, all, {}>>, <<all, all, all>>}

SourceOf(range) == SourceAt(CHOOSE c \in CellsOf(range) : TRUE)

OneSource(range) == \A c, d \in CellsOf(range) : tracker.owners[c] = tracker.owners[d]

-----------------------------------------------------------------------------
(* Claims of a buffer are disjoint ranges that do not touch, in a vector,  *)
(* which is as good as a set, or in a tree once insertions have moved more *)
(* ranges of the vector than it has; nothing is claimed at first.          *)

ClaimBytes(claims, range) ==
    LET touching == {r \in claims.ranges : range[1] <= r[2] /\ r[1] <= range[2]}
        marks == {range[1], range[2]} \cup UNION {ToSet(r) : r \in touching}
        merged == <<Min(marks), Max(marks)>>
        free == {p \in Split(range, <<marks>>) : \A r \in touching : ~Covers(r, p)}
        moved == IF Cardinality(touching) = 1 THEN 0
                 ELSE Cardinality({r \in claims.ranges : range[2] < r[1]})
        ranges == (claims.ranges \ touching) \cup {merged}
        total == claims.shifted + moved
    IN  [free |-> free,
         claims |-> IF claims.form = "ordered" /\ ~(moved # 0 /\ total > Cardinality(claims.ranges))
                    THEN [form |-> "ordered", ranges |-> ranges, shifted |-> total]
                    ELSE [form |-> "indexed", ranges |-> ranges, shifted |-> 0]]

(* An image is claimed as a whole, by aspects if there are two of a single *)
(* subresource, or in a map of what is claimed.                            *)

AspectsOf(range) == range.aspect..range.aspect + range.aspects - 1

(* One item of the map's cursor, and all of the range, of at most so many. *)
TakePiece(s, range) ==
    LET shape == tracker.shape
        Taken(piece) ==
            [map |-> PieceMap(s.map, shape, s.cursor, piece, TRUE),
             cursor |-> PieceCursor(s.map, range, s.cursor, piece),
             free |-> s.free \cup {p \in {piece} : ~PieceValue(s.map, shape, p)}]
    IN  IF DenseCursorDone(s.cursor, range) THEN s
        ELSE CHOOSE r \in {Taken(p) : p \in {DensePiece(s.map, shape, range, s.cursor)}} : TRUE

SwapTrue(map, range) ==
    LET swap[n \in 0..Size] ==
            IF n = 0 THEN [map |-> map, cursor |-> DenseCursor, free |-> {}]
            ELSE CHOOSE s \in {TakePiece(p, range) : p \in {swap[n - 1]}} : TRUE
    IN  swap[Size]

FirstClaim(range) ==
    CASE WholeRange(range) -> [form |-> "whole"]
      [] ~WholeRange(range) /\ Size = 2 /\ tracker.shape.aspects = 2 ->
            [form |-> "aspects", aspects |-> AspectsOf(range)]
      [] OTHER -> [form |-> "dense", map |-> SwapTrue(DenseOf(FALSE), range).map]

ClaimSubresources(claims, range) ==
    CASE claims.form = "none" -> [free |-> {range}, claims |-> FirstClaim(range)]
      [] claims.form = "whole" -> [free |-> {}, claims |-> claims]
      [] claims.form = "aspects" ->
            LET rest == AspectsOf(range) \ claims.aspects
                all == claims.aspects \cup AspectsOf(range)
            IN  [free |-> {[range EXCEPT !.aspect = a, !.aspects = 1] : a \in rest},
                 claims |-> IF Cardinality(all) = 2 THEN [form |-> "whole"]
                            ELSE [form |-> "aspects", aspects |-> all]]
      [] claims.form = "dense" ->
            LET swap == SwapTrue(claims.map, range)
            IN  [free |-> swap.free,
                 claims |-> IF WholeRange(range) THEN [form |-> "whole"]
                            ELSE [form |-> "dense", map |-> swap.map]]

Claim(claims, range) ==
    IF IsBuffer THEN ClaimBytes(claims, range) ELSE ClaimSubresources(claims, range)

ClaimedCells ==
    LET claims == store.claims
    IN  CASE claims.form \in {"ordered", "indexed"} -> UNION {CellsOf(r) : r \in claims.ranges}
          [] claims.form = "none" -> {}
          [] claims.form = "whole" -> Cells
          [] claims.form = "aspects" -> claims.aspects
          [] claims.form = "dense" -> {c \in Cells : ValueAt(claims.map, c)}

-----------------------------------------------------------------------------
ClaimsInit ==
    /\ word = [queue |-> <<>>, recording |-> FALSE]
    /\ store = [claims |-> IF IsBuffer THEN [form |-> "ordered", ranges |-> {}, shifted |-> 0]
                           ELSE [form |-> "none"],
                pending |-> {}]

CallUse(t) == Begin(t, LAMBDA o : "track")

(* A transfer for each part of what is claimed that another family owns    *)
Plans(free) ==
    LET Parts(grain) == UNION {Split(r, grain) : r \in free}
        Planned(parts) == {p \in {[range |-> q, from |-> SourceOf(q)] : q \in parts} : p.from # Ignored}
    IN  {Planned(parts) : parts \in {p \in {Parts(g) : g \in Grains} : \A q \in p : OneSource(q)}}

TrackPendingTransfers(t) ==
    /\ pc[t] = "track" /\ ~word.recording
    /\ \E claim \in {Claim(store.claims, op[t].ranges[1])} : \E plan \in Plans(claim.free) :
            store' = [claims |-> claim.claims, pending |-> store.pending \cup plan]
    /\ word' = [word EXCEPT !.queue = Append(@, t)]
    /\ Goto(t, "tracked")
    /\ UNCHANGED <<tracker, lock, op, local, reply>>

(* The barriers of a range: it is cut where transfers begin and end.       *)
BarrierRanges(range, pending) ==
    LET overlaps == {p.range : p \in {q \in pending : Intersects(q.range, range)}}
    IN  Split(range, [d \in Dimensions |-> UNION {ToSet(Sides(r)[d]) : r \in overlaps}])

AcquiredFrom(part, pending) ==
    LET found == {p \in pending : Covers(p.range, part)}
    IN  IF found = {} THEN Ignored ELSE (CHOOSE p \in found : TRUE).from

(* The barriers before a command, for each part that the tracker hands     *)
(* out; they consume the transfers that they meet.                         *)
RecordBarriers(t) ==
    LET range == op[t].ranges[1]
        pending == store.pending
    IN  /\ pc[t] = "tracked" /\ t = Head(word.queue)
        /\ \E barriers \in {UNION {BarrierRanges(p, pending) : p \in Split(range, g)} : g \in Grains} :
            LET At(c) == CHOOSE b \in barriers : c \in CellsOf(b)
            IN  Reply(t, [c \in CellsOf(range) |-> AcquiredFrom(At(c), pending)])
        /\ store' = [store EXCEPT !.pending = {p \in @ : ~Intersects(p.range, range)}]
        /\ word' = [queue |-> Tail(word.queue), recording |-> Len(word.queue) > 1]
        /\ Goto(t, "return")
        /\ UNCHANGED <<tracker, lock, op, local>>

ClaimsStep(t) == CallUse(t) \/ TrackPendingTransfers(t) \/ RecordBarriers(t) \/ Return(t)

-----------------------------------------------------------------------------
(* Whom the barriers of the next command have to acquire a cell from       *)
Sources ==
    [c \in Cells |->
        IF c \in ClaimedCells
        THEN LET planned == {p \in store.pending : c \in CellsOf(p.range)}
             IN  IF planned = {} THEN Ignored ELSE (CHOOSE p \in planned : TRUE).from
        ELSE SourceAt(c)]
=============================================================================
