------------------------------ MODULE Barriers ------------------------------
(***************************************************************************)
(* How src/submission.rs synchronizes the accesses of recorded commands to *)
(* one buffer or image: the tracker of the resource, the barriers before a *)
(* compute or transfer execution, the barriers before a render pass and    *)
(* the dependencies between its subpasses.  Commands are recorded and      *)
(* executed in this order on one queue; SyncRules judges each access.      *)
(*                                                                         *)
(* The resource is a set of Cells that ranges are made of; an execution    *)
(* makes one access to one range of it (the guide asks for one execution   *)
(* per access where they conflict).  A render pass is a sequence of draws: *)
(* the executions of a graphics command, after merging.  An image has one  *)
(* layout in a render pass.  Only barriers of the resource are taken       *)
(* into account: others in the same call order more.                       *)
(***************************************************************************)
EXTENDS SyncRules, SequencesExt

CONSTANTS Cells, Outside, Draws, MaxDraws, MaxAccesses, MaxRecords,
    ReadersPassOn   \* see ImageBarrier

Reads == {"TransferRead", "ComputeShaderReadOther", "ComputeShaderReadSampledImage",
          "VertexShaderReadOther", "FragmentShaderReadOther", "VertexShaderReadSampledImage",
          "FragmentShaderReadSampledImage", "AnyShaderReadOther"}
Writes == {"TransferWrite", "ComputeShaderWrite", "VertexShaderWrite", "FragmentShaderWrite",
           "ColorAttachmentWrite"}
ReadWrites == {"ColorAttachmentReadWrite", "General"}
Accesses == Reads \cup Writes \cup ReadWrites \cup {"Nothing"}

Sampled == {"ComputeShaderReadSampledImage", "VertexShaderReadSampledImage",
            "FragmentShaderReadSampledImage"}
Attached == {"ColorAttachmentWrite", "ColorAttachmentReadWrite"}
ImageOnly == Sampled \cup Attached

ASSUME BarriersAssumption ==
    /\ Outside \subseteq {"TransferRead", "TransferWrite", "ComputeShaderReadOther",
                          "ComputeShaderWrite", "ComputeShaderReadSampledImage"}
    /\ Draws \subseteq {"VertexShaderReadOther", "FragmentShaderReadOther",
                        "VertexShaderReadSampledImage", "FragmentShaderReadSampledImage",
                        "VertexShaderWrite", "FragmentShaderWrite"} \cup Attached
    /\ MaxDraws \in Nat \ {0} /\ MaxDraws <= MaxSubpasses
    /\ MaxAccesses \in Nat /\ MaxRecords \in Nat /\ ReadersPassOn \in BOOLEAN

VARIABLES
    isImage,   \* whether the resource is an image
    tracked,   \* the accesses the resource remembers for each cell
    history,   \* stages of the earlier commands of this record call
    pass,      \* the draws of the current render pass, <<>> outside of one
    drawn,     \* how many of them were executed
    memory,    \* the cells as the device has them
    faults,    \* what was wrong with some access so far
    accesses,  \* number of accesses recorded
    records    \* number of record calls

vars == <<isImage, tracked, history, pass, drawn, memory, faults, accesses, records>>

(***************************************************************************)
(* Access types                                                            *)
(***************************************************************************)
IsWrite(access) == access \in Writes \cup ReadWrites
IsRead(access) == access \in Reads \cup ReadWrites

StagesOf(access) ==
    CASE access = "Nothing" -> {}
      [] access \in {"General", "AnyShaderReadOther"} -> Stages
      [] access \in {"TransferRead", "TransferWrite"} -> {"transfer"}
      [] access \in {"ComputeShaderReadOther", "ComputeShaderWrite",
                     "ComputeShaderReadSampledImage"} -> {"compute"}
      [] access \in {"VertexShaderReadOther", "VertexShaderWrite",
                     "VertexShaderReadSampledImage"} -> {"vertex"}
      [] access \in {"FragmentShaderReadOther", "FragmentShaderWrite",
                     "FragmentShaderReadSampledImage"} -> {"fragment"}
      [] access \in Attached -> {"color"}

StageOf(access) == CHOOSE stage \in StagesOf(access) : TRUE

FlagsOf(access) ==
    (IF IsRead(access) THEN {"read"} ELSE {}) \cup (IF IsWrite(access) THEN {"write"} ELSE {})

LayoutOf(access) ==
    CASE ~isImage \/ access = "Nothing" -> "undefined"
      [] isImage /\ access = "TransferRead" -> "source"
      [] isImage /\ access = "TransferWrite" -> "destination"
      [] isImage /\ access \in Sampled -> "sampled"
      [] isImage /\ access \in Attached -> "color"
      [] OTHER -> "general"

(***************************************************************************)
(* The tracker                                                             *)
(***************************************************************************)
\* Mutant: a reader makes the buffer forget the write before it.
ForgetsWriter(previous, access) == {access}

\* What a buffer remembers: readers do not push a writer out.
AfterBufferAccess(previous, access) ==
    IF (\E p \in previous : IsWrite(p)) /\ ~IsWrite(access) THEN {"General"} ELSE {access}

\* What an image remembers: sampled readers accumulate.
AfterImageAccess(previous, access) ==
    IF previous \cup {access} \subseteq Sampled THEN previous \cup {access} ELSE {access}

\* Mutant: only the stage of the last reader of a render pass is remembered.
TrackedAsItIs(access) == access

\* Readers of a buffer in a render pass are tracked as reads of any stage.
TrackedInPass(access) == IF IsWrite(access) THEN access ELSE "AnyShaderReadOther"

(***************************************************************************)
(* Barriers: from what a cell remembers to the next access                 *)
(***************************************************************************)
BarrierStages(previous) == UNION {StagesOf(p) : p \in previous}
PreviousWrites(previous) == \E p \in previous : IsWrite(p)
PreviousLayout(previous) == LayoutOf(CHOOSE p \in previous : TRUE)

BufferBarrier(previous, access) ==
    [at |-> 0, src |-> BarrierStages(previous), dst |-> StagesOf(access),
     from |-> IF PreviousWrites(previous) THEN {"write"} ELSE {},
     to |-> IF PreviousWrites(previous) THEN FlagsOf(access) ELSE {},
     old |-> "undefined", new |-> "undefined"]

\* vk_sync makes the contents of an image visible to the next access if there is
\* something to be made visible.  ReadersPassOn: also if only reads came before
\* and the layout stays, as memory_barrier2 does for what needs synchronization2.
ImageBarrier(previous, access, discard) ==
    LET old == IF discard THEN "undefined" ELSE PreviousLayout(previous) IN
    [at |-> 0, src |-> BarrierStages(previous), dst |-> StagesOf(access),
     from |-> IF PreviousWrites(previous) THEN {"write"} ELSE {},
     to |-> IF ReadersPassOn \/ PreviousWrites(previous) \/ old # LayoutOf(access)
            THEN FlagsOf(access) ELSE {},
     old |-> old, new |-> LayoutOf(access)]

\* A sampled read that is among those already waited for needs no barrier.
CanElideSampledRead(previous, access) == previous \subseteq Sampled /\ access \in previous

ExecutionBarriers(previous, access) ==
    IF ~isImage THEN {BufferBarrier(previous, access)}
    ELSE IF CanElideSampledRead(previous, access) THEN {}
    ELSE {ImageBarrier(previous, access, previous = {"Nothing"})}

Uses(draws, cell) == {i \in DOMAIN draws : cell \in draws[i].cells}
FirstUse(draws, cell) ==
    CHOOSE i \in Uses(draws, cell) : \A j \in Uses(draws, cell) : i <= j

\* Before a pass, a buffer has a barrier for each type of access to a cell, an
\* image one for the first use of it.
PassBarriers(previous, draws, cell) ==
    IF Uses(draws, cell) = {} THEN {}
    ELSE IF isImage
    THEN LET access == draws[FirstUse(draws, cell)].access IN
         {ImageBarrier(previous, access, previous = {"Nothing"} \/ ~IsRead(access))}
    ELSE {BufferBarrier(previous, draws[i].access) :
              i \in {i \in Uses(draws, cell) : previous # {"Nothing"} \/ IsWrite(draws[i].access)}}

\* The first use of an image replaces what it remembers, the others add to it.
TrackedAfterPass(previous, draws, cell) ==
    LET After(before, access) ==
            IF isImage THEN AfterImageAccess(before, access)
            ELSE AfterBufferAccess(before, TrackedInPass(access))
        after[i \in 0 .. Len(draws)] ==
            IF i = 0 THEN IF isImage THEN {} ELSE previous
            ELSE IF cell \in draws[i].cells THEN After(after[i - 1], draws[i].access)
            ELSE after[i - 1]
    IN IF Uses(draws, cell) = {} THEN previous ELSE after[Len(draws)]

(***************************************************************************)
(* Subpasses                                                               *)
(***************************************************************************)
\* What allows a draw to share its subpass.
Eligible(draw) ==
    \/ draw.access \in Attached
    \/ draw.access \in Reads /\ (isImage => draw.access \in Sampled)

\* Whether draw i may share the subpass of the one before: it does if all else
\* that is compared agrees, too.
MayAppend(draws, i) ==
    /\ i > 1 /\ Eligible(draws[i]) /\ Eligible(draws[i - 1])
    /\ {draws[i].access, draws[i - 1].access} \cap Attached # {} =>
           /\ draws[i].access = "ColorAttachmentReadWrite"
           /\ draws[i - 1].access \in Attached

SubpassOf(draws, i) == Cardinality({j \in 1 .. i : ~draws[j].appended})
Group(draws, k) == {draws[i] : i \in {i \in DOMAIN draws : SubpassOf(draws, i) = k}}

\* What is proven of a draw's access to the resource.
Class(draw) ==
    CASE draw.access \in Attached -> "AttachmentLocal"
      [] ~isImage /\ draw.access \in Reads -> "ReadOnlyBuffer"
      [] draw.access \in Sampled -> "ReadOnlyImage"
      [] OTHER -> "Other"

GroupClass(group) ==
    IF \E draw \in group : \A other \in group : Class(other) = Class(draw)
    THEN Class(CHOOSE draw \in group : TRUE) ELSE "Other"

\* Complete scopes that chain: writers of a buffer, readers of a storage image.
ChainedScope(draw) ==
    IF draw.access \in (IF isImage THEN {"VertexShaderReadOther", "FragmentShaderReadOther"}
                        ELSE {"VertexShaderWrite", "FragmentShaderWrite"})
    THEN <<draw.access, draw.cells>> ELSE <<>>

GroupScope(group) ==
    LET scopes == {ChainedScope(draw) : draw \in group} IN
    IF Cardinality(scopes) = 1 THEN CHOOSE scope \in scopes : TRUE ELSE <<>>

(***************************************************************************)
(* Subpass dependencies                                                    *)
(***************************************************************************)
IsBufferReader(draws, k) == GroupClass(Group(draws, k)) = "ReadOnlyBuffer"
BufferReaders(draws, k) == {i \in 1 .. k - 1 : IsBufferReader(draws, i)}

\* The last group before k is replaced by k instead of being kept beside it.
Retires(draws, k, kept) ==
    /\ kept # {}
    /\ \A reader \in BufferReaders(draws, k) : reader < Max(kept)
    /\ GroupScope(Group(draws, k)) # <<>>
    /\ GroupScope(Group(draws, k)) = GroupScope(Group(draws, Max(kept)))

\* The groups that subpass k depends on, without the readers of a buffer.
KeptBefore(draws, k) ==
    LET kept[j \in 0 .. k - 1] ==
            IF j = 0 THEN {}
            ELSE IF IsBufferReader(draws, j) THEN kept[j - 1]
            ELSE IF Retires(draws, j, kept[j - 1]) THEN (kept[j - 1] \ {Max(kept[j - 1])}) \cup {j}
            ELSE kept[j - 1] \cup {j}
    IN kept[k - 1]

\* Without writers no subpass waits for another.
PassIsReadOnly(draws) ==
    \E class \in {"ReadOnlyBuffer", "ReadOnlyImage"} :
        \A i \in DOMAIN draws : Class(draws[i]) = class

Dependency(at, src, from, group, byRegion) ==
    [at |-> at, src |-> src, from |-> from, byRegion |-> byRegion,
     dst |-> UNION {StagesOf(draw.access) : draw \in group},
     to |-> UNION {FlagsOf(draw.access) : draw \in group}]

ExternalDependency(draws, k) ==
    Dependency(0, GraphicsStages \cup (history \ GraphicsStages), Flags, Group(draws, k), FALSE)

InternalDependency(draws, i, k) ==
    LET group == Group(draws, i) IN
    Dependency(i, UNION {StagesOf(draw.access) : draw \in group},
               UNION {FlagsOf(draw.access) : draw \in group}, Group(draws, k),
               GroupClass(group) = "AttachmentLocal"
                   /\ GroupClass(Group(draws, k)) = "AttachmentLocal")

Dependencies(draws, k) ==
    {ExternalDependency(draws, k)}
    \cup {InternalDependency(draws, i, k) :
              i \in IF PassIsReadOnly(draws) THEN {}
                    ELSE KeptBefore(draws, k)
                         \cup (IF IsBufferReader(draws, k) THEN {} ELSE BufferReaders(draws, k))}

(***************************************************************************)
(* Recording                                                               *)
(***************************************************************************)
Init ==
    /\ isImage \in BOOLEAN
    /\ tracked = [cell \in Cells |-> {"Nothing"}]
    /\ history = {}
    /\ pass = <<>> /\ drawn = 0
    /\ memory = [cell \in Cells |-> Untouched]
    /\ faults = {}
    /\ accesses = 0 /\ records = 0

\* The device gets the barriers of each cell, and later makes an access.
Prepared(barriers) == [cell \in Cells |-> AfterScopes(memory[cell], barriers[cell])]
BarrierFaults(barriers) == UNION {ScopeFaults(memory[cell], barriers[cell]) : cell \in Cells}

Accessed(before, access, cells, place) ==
    [cell \in Cells |->
        IF cell \in cells
        THEN AfterAccess(before[cell], Operation(StageOf(access), FlagsOf(access), place))
        ELSE before[cell]]
FaultsOf(before, access, cells, place) ==
    UNION {AccessFaults(before[cell], StageOf(access), FlagsOf(access), place, LayoutOf(access)) :
               cell \in cells}

Suits(access) == isImage \/ access \notin ImageOnly
Ranges == (SUBSET Cells) \ {{}}

\* An execution of a compute or transfer command, after its barriers.
Execute(access, cells) ==
    LET barriers == [cell \in Cells |->
                        IF cell \in cells THEN ExecutionBarriers(tracked[cell], access) ELSE {}] IN
    /\ pass = <<>> /\ accesses < MaxAccesses
    /\ accesses' = accesses + 1
    /\ tracked' = [cell \in Cells |->
           IF cell \notin cells THEN tracked[cell]
           ELSE IF isImage THEN AfterImageAccess(tracked[cell], access)
           ELSE AfterBufferAccess(tracked[cell], access)]
    /\ history' = history \cup StagesOf(access)
    /\ memory' = Accessed(Prepared(barriers), access, cells, 0)
    /\ faults' = faults \cup BarrierFaults(barriers)
                        \cup FaultsOf(Prepared(barriers), access, cells, 0)
    /\ UNCHANGED <<isImage, pass, drawn, records>>

\* Sequences of draws that may be one render pass: an image has one layout, and
\* one range of it is attached.
IsPass(draws) ==
    \A i, j \in DOMAIN draws :
        /\ LayoutOf(draws[i].access) = LayoutOf(draws[j].access)
        /\ draws[i].access \in Attached => draws[i].cells = draws[j].cells

\* Tracking and barriers of all draws, before the render pass begins.
BeginPass(draws) ==
    LET barriers == [cell \in Cells |-> PassBarriers(tracked[cell], draws, cell)] IN
    /\ pass' = draws /\ drawn' = 0
    /\ accesses' = accesses + Len(draws)
    /\ tracked' = [cell \in Cells |-> TrackedAfterPass(tracked[cell], draws, cell)]
    /\ memory' = Prepared(barriers)
    /\ faults' = faults \cup BarrierFaults(barriers)
    /\ UNCHANGED <<isImage, history, records>>

\* The next draw, in a subpass that begins with it or that it shares.
Draw ==
    LET draw == pass[drawn + 1]
        subpass == SubpassOf(pass, drawn + 1)
        before == [cell \in Cells |->
            IF draw.appended THEN memory[cell]
            ELSE [memory[cell] EXCEPT
                      !.past = {Enter(op, subpass, Dependencies(pass, subpass)) : op \in @}]] IN
    /\ drawn < Len(pass)
    /\ drawn' = drawn + 1
    /\ memory' = Accessed(before, draw.access, draw.cells, subpass)
    /\ faults' = faults \cup FaultsOf(before, draw.access, draw.cells, subpass)
    /\ UNCHANGED <<isImage, tracked, history, pass, accesses, records>>

EndPass ==
    /\ pass # <<>> /\ drawn = Len(pass)
    /\ pass' = <<>> /\ drawn' = 0
    /\ history' = history \cup UNION {StagesOf(pass[i].access) : i \in DOMAIN pass}
    /\ memory' = [cell \in Cells |->
                     [memory[cell] EXCEPT !.past = {Leave(op) : op \in @}]]
    /\ UNCHANGED <<isImage, tracked, faults, accesses, records>>

\* Another record call plans its render passes without the commands of this one.
Record ==
    /\ pass = <<>> /\ history # {} /\ records < MaxRecords /\ accesses < MaxAccesses
    /\ records' = records + 1
    /\ history' = {}
    /\ UNCHANGED <<isImage, tracked, pass, drawn, memory, faults, accesses>>

Plan ==
    pass = <<>> /\ \E n \in 1 .. Min({MaxDraws, MaxAccesses - accesses}), layout \in Layouts :
        LET choices == {a \in Draws : Suits(a) /\ LayoutOf(a) = layout} IN
        \E draws \in [1 .. n -> [access: choices, cells: Ranges]] :
            \E joins \in SUBSET {i \in 1 .. n : MayAppend(draws, i)} :
                /\ IsPass(draws)
                /\ BeginPass([i \in 1 .. n |-> [access |-> draws[i].access, cells |-> draws[i].cells,
                                                appended |-> i \in joins]])

Next ==
    \/ \E access \in {a \in Outside : Suits(a)}, cells \in Ranges : Execute(access, cells)
    \/ Plan
    \/ Draw
    \/ EndPass
    \/ Record

Spec == Init /\ [][Next]_vars

(***************************************************************************)
(* Properties                                                              *)
(***************************************************************************)
TypeOK ==
    /\ isImage \in BOOLEAN
    /\ tracked \in [Cells -> (SUBSET Accesses) \ {{}}]
    /\ history \subseteq Stages
    /\ Len(pass) <= MaxDraws
    /\ \A i \in DOMAIN pass : pass[i] \in [access: Draws, cells: Ranges, appended: BOOLEAN]
    /\ drawn \in 0 .. Len(pass)
    /\ \A cell \in Cells : /\ memory[cell].layout \in Layouts
                           /\ memory[cell].contents \in {"unwritten", "kept", "lost"}
    /\ faults \subseteq {"unordered", "unavailable", "layout", "stale", "lost"}
    /\ accesses \in 0 .. MaxAccesses /\ records \in 0 .. MaxRecords

\* Every access and every layout transition comes after the earlier accesses it conflicts
\* with and finds earlier writes available and the image in the layout it was told: whatever
\* the tracker forgot, whatever edge between subpasses was left out.
AccessesOrdered == TypeOK /\ faults \cap {"unordered", "unavailable", "layout"} = {}

\* Every read sees the last write, also past readers of other stages, and no barrier discards
\* what is read later.
ReadsSeeWrites == faults \cap {"stale", "lost"} = {}

==============================================================================
