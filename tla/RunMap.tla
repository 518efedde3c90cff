------------------------------- MODULE RunMap -------------------------------
(***************************************************************************)
(* The run-length map in which a buffer keeps a value per byte: a sequence *)
(* of runs <<value, start>>, the first of which starts at zero.  Ranges    *)
(* are <<start, end>> with the end excluded.                               *)
(*                                                                         *)
(* src/src/driver/buffer.rs, RunMap and RunMapCursor                       *)
(***************************************************************************)
EXTENDS Integers, SequencesExt

Value(runs, r) == runs[r][1]
StartOf(runs, r) == runs[r][2]
End(runs, size, r) == IF r < Len(runs) THEN StartOf(runs, r + 1) ELSE size

RunsOf(value) == <<<<value, 0>>>>

RunIndexAt(runs, offset) ==
    Max({r \in DOMAIN runs : r = 1 \/ StartOf(runs, r) <= offset})

RunValueAt(runs, offset) == Value(runs, RunIndexAt(runs, offset))

(* Splitting the one run of a uniform map: at most three runs.             *)
SplitUniform(runs, size, value, range) ==
    LET previous == Value(runs, 1)
        left == IF range[1] = 0 THEN <<>> ELSE <<<<previous, 0>>>>
        right == IF range[2] < size THEN <<<<previous, range[2]>>>> ELSE <<>>
    IN  IF previous = value THEN runs ELSE left \o <<<<value, range[1]>>>> \o right

(* Mutant: what is left of the last run is not merged.                     *)
ReplaceRunsApart(runs, size, value, range) ==
    LET first == RunIndexAt(runs, range[1])
        last == RunIndexAt(runs, range[2])
        at == IF StartOf(runs, first) < range[1] THEN first + 1 ELSE first
        right == IF range[2] < size THEN <<<<Value(runs, last), range[2]>>>> ELSE <<>>
    IN  SubSeq(runs, 1, at - 1) \o <<<<value, range[1]>>>> \o right
            \o SubSeq(runs, last + 1, Len(runs))

(* The runs that the range covers or touches make way for its own run and, *)
(* unless it has the same value, for what is left of the last of them.     *)
ReplaceRuns(runs, size, value, range) ==
    LET first == RunIndexAt(runs, range[1])
        last == RunIndexAt(runs, range[2])
        at == IF StartOf(runs, first) < range[1] THEN first + 1 ELSE first
        kept == SubSeq(runs, 1, at - 1)
        middle == IF at = 1 \/ Value(runs, at - 1) # value
                  THEN <<<<value, range[1]>>>> ELSE <<>>
        right == IF range[2] < size /\ Value(runs, last) # value
                 THEN <<<<Value(runs, last), range[2]>>>> ELSE <<>>
    IN  kept \o middle \o right \o SubSeq(runs, last + 1, Len(runs))

SetRange(runs, size, value, range) ==
    LET first == RunIndexAt(runs, range[1])
    IN  CASE range = <<0, size>> -> RunsOf(value)
          [] range # <<0, size>> /\ Len(runs) = 1 -> SplitUniform(runs, size, value, range)
          [] OTHER -> IF Value(runs, first) = value /\ range[2] <= End(runs, size, first)
                      THEN runs
                      ELSE ReplaceRuns(runs, size, value, range)

-----------------------------------------------------------------------------
(* A cursor assigns the bytes of a range run by run and hands out what was *)
(* there.  It writes behind the run it reads, so that the runs between the *)
(* two indices are a gap until its last step closes it.                    *)

Cursor(runs, range) ==
    LET r == RunIndexAt(runs, range[1])
    IN  [read |-> r, write |-> r, from |-> range[1], to |-> range[2]]

CursorDone(cur) == cur.from = cur.to

(* The rest of the range lies in a run that keeps its value.               *)
Untouched(runs, size, cur, value) ==
    /\ value = Value(runs, cur.read)
    /\ cur.to <= End(runs, size, cur.read)
    /\ cur.read = cur.write
    /\ cur.write = 1 \/ Value(runs, cur.write - 1) # value

(* The last step: what is left of the run that was cut, and the gap.       *)
CloseGap(runs, size, cur, old, oldEnd, new) ==
    LET cut == oldEnd > cur.to /\ old # new
        inGap == cut /\ cur.write < cur.read
        filled == IF inGap THEN ReplaceAt(runs, cur.write, <<old, cur.to>>)
                  ELSE IF cut THEN InsertAt(runs, cur.read, <<old, cur.to>>)
                  ELSE runs
        write == IF inGap THEN cur.write + 1 ELSE cur.write
        merges == cur.read <= Len(filled) /\ Value(filled, cur.read) = Value(filled, write - 1)
        read == IF merges THEN cur.read + 1 ELSE cur.read
    IN  SubSeq(filled, 1, write - 1) \o SubSeq(filled, read, Len(filled))

(* One run of the range takes the value new.                               *)
CursorNext(runs, size, cur, new) ==
    LET old == Value(runs, cur.read)
        oldEnd == End(runs, size, cur.read)
        end == IF cur.to < oldEnd THEN cur.to ELSE oldEnd
        inside == StartOf(runs, cur.read) < cur.from
        split == inside /\ old # new
        start == IF inside /\ ~split THEN StartOf(runs, cur.read) ELSE cur.from
        runs1 == IF split THEN InsertAt(runs, cur.read + 1, <<old, cur.from>>) ELSE runs
        at == IF split THEN cur.write + 1 ELSE cur.write
        put == at = 1 \/ Value(runs1, at - 1) # new
        runs2 == IF put THEN ReplaceAt(runs1, at, <<new, start>>) ELSE runs1
        cur2 == [cur EXCEPT !.read = IF split THEN @ + 2 ELSE @ + 1,
                            !.write = IF put THEN at + 1 ELSE at,
                            !.from = end]
    IN  IF Untouched(runs, size, cur, new)
        THEN [map |-> runs, cursor |-> [cur EXCEPT !.from = cur.to],
              value |-> old, range |-> <<cur.from, cur.to>>]
        ELSE [map |-> IF end = cur.to
                      THEN CloseGap(runs2, size, cur2, old, oldEnd, new) ELSE runs2,
              cursor |-> cur2, value |-> old, range |-> <<cur.from, end>>]
=============================================================================
