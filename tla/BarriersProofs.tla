---------------------------- MODULE BarriersProofs ----------------------------
(***************************************************************************)
(* The barriers and the subpass dependencies that submission.rs records    *)
(* are enough: for any cells, any sequence of executions, render passes    *)
(* and record calls, any accesses of BarriersAssumption, and passes of any *)
(* length, nothing that SyncRules finds wrong can happen.                  *)
(*                                                                         *)
(* A cell is at rest (Still) or used by the current pass (Mid).  At rest   *)
(* the tracker remembers, of each access that may still matter, a stage    *)
(* its chain ends in, so the next barrier waits for it; it remembers a     *)
(* write until that was made available.  In a pass, each access is         *)
(* followed by the subpasses begun since, except where neither writes      *)
(* (Tied), and the tracker is already what it has to be after the pass.    *)
(***************************************************************************)
EXTENDS Barriers, FiniteSetTheorems, SequenceTheorems, NaturalsInduction,
        WellFoundedInduction, TLAPS

-----------------------------------------------------------------------------
(* The invariant                                                            *)

Used == Outside \cup Draws

LayoutIn(image, access) ==
    CASE ~image \/ access = "Nothing" -> "undefined"
      [] image /\ access = "TransferRead" -> "source"
      [] image /\ access = "TransferWrite" -> "destination"
      [] image /\ access \in Sampled -> "sampled"
      [] image /\ access \in Attached -> "color"
      [] OTHER -> "general"

IsOp(op) ==
    op \in [stage: Stages \cup {"transition"}, flags: SUBSET Flags, at: Nat,
            after: SUBSET Stages, chain: SUBSET (Nat \X Stages),
            available: BOOLEAN, visible: SUBSET (Nat \X Stages)]

\* What a tracker may remember of a cell
TrackedForm(image, tr) ==
    \/ tr = {"Nothing"}
    \/ \E access \in Used : tr = {access} /\ (image \/ access \notin ImageOnly)
    \/ image /\ tr # {} /\ tr \subseteq Used \cap Sampled
    \/ ~image /\ tr \in {{"General"}, {"AnyShaderReadOther"}}

\* An access that is behind, with what the tracker remembers: the next barrier waits for
\* it, makes it available, and in a buffer visible; a sampled reader that needs no barrier
\* is ordered after it already and sees it.
OpStill(image, tr, op) ==
    /\ IsOp(op) /\ op.at = 0
    /\ \E stage \in BarrierStages(tr) : <<0, stage>> \in op.chain
    /\ Wrote(op) => op.available \/ (PreviousWrites(tr) /\ op.stage \in BarrierStages(tr))
    /\ ~image /\ Wrote(op) => PreviousWrites(tr)
    /\ tr \subseteq Sampled /\ "ComputeShaderReadSampledImage" \in tr /\ Wrote(op) =>
           /\ "compute" \in op.after
           /\ ReadersPassOn => <<0, "compute">> \in op.visible

IsMemory(mem) ==
    mem \in [layout: Layouts, contents: {"unwritten", "kept", "lost"}, past: {mem.past}]

Still(image, tr, mem) ==
    /\ TrackedForm(image, tr) /\ IsMemory(mem)
    /\ tr = {"Nothing"} => mem = Untouched
    /\ \A access \in tr : mem.layout = LayoutIn(image, access)
    /\ mem.contents # "lost"
    /\ \A op \in mem.past : OpStill(image, tr, op)

\* A render pass as it was planned
PassForm(image, draws) ==
    /\ draws \in Seq([access: Draws, cells: Ranges, appended: BOOLEAN])
    /\ \A i \in DOMAIN draws : image \/ draws[i].access \notin ImageOnly
    /\ \A i, j \in DOMAIN draws :
           /\ LayoutIn(image, draws[i].access) = LayoutIn(image, draws[j].access)
           /\ draws[i].access \in Attached => draws[i].cells = draws[j].cells
    /\ \A i \in DOMAIN draws : draws[i].appended =>
           /\ i > 1
           /\ \A j \in {i - 1, i} :
                  \/ draws[j].access \in Attached
                  \/ draws[j].access \in Reads /\ (image => draws[j].access \in Sampled)

GroupStages(draws, k) == UNION {StagesOf(draw.access) : draw \in Group(draws, k)}
GroupReads(draws, k) == \E draw \in Group(draws, k) : IsRead(draw.access)
GroupWrites(draws, k) == \E draw \in Group(draws, k) : IsWrite(draw.access)

\* Subpasses that are in order: all but those that only read, unless an image is read in
\* the general layout.
Tied(image, draws, i, k) ==
    \/ image /\ \E j \in DOMAIN draws : draws[j].access \notin Sampled
    \/ GroupWrites(draws, i) \/ GroupWrites(draws, k)

\* Subpass k comes after an access.
Follows(draws, op, k) ==
    /\ {k} \X GroupStages(draws, k) \subseteq op.chain
    /\ Wrote(op) => op.available
    /\ Wrote(op) /\ GroupReads(draws, k) => {k} \X GroupStages(draws, k) \subseteq op.visible

LastUse(draws, cell) == CHOOSE i \in Uses(draws, cell) : \A j \in Uses(draws, cell) : j <= i

\* An access to a cell that the pass uses, when n draws were executed and subpass `top` has
\* begun: the subpasses since are behind it, as far as they have to be.
OpMid(image, draws, n, top, cell, op) ==
    /\ IsOp(op)
    /\ op.at = 0 =>
           /\ <<0, StageOf(draws[FirstUse(draws, cell)].access)>> \in op.chain
           /\ Wrote(op) => op.available
           /\ \A k \in 1 .. top : Follows(draws, op, k)
    /\ op.at # 0 =>
           /\ <<op.at, op.stage>> \in op.chain
           /\ \E j \in 1 .. n : /\ cell \in draws[j].cells
                                /\ op.at = SubpassOf(draws, j)
                                /\ op.stage = StageOf(draws[j].access)
                                /\ op.flags = FlagsOf(draws[j].access)
           /\ \A k \in op.at + 1 .. top :
                  Tied(image, draws, op.at, k) => Follows(draws, op, k)
    /\ \A j \in 1 .. n : cell \in draws[j].cells /\ IsWrite(draws[j].access) =>
           op.at >= SubpassOf(draws, j)

\* What the tracker says of it already
TrackedMid(image, draws, cell, tr, mem) ==
    LET last == draws[LastUse(draws, cell)].access IN
    IF image
    THEN tr = IF last \in Sampled THEN {draws[i].access : i \in Uses(draws, cell)} ELSE {last}
    ELSE IF IsWrite(last) THEN tr = {last}
    ELSE \/ tr = {"General"}
         \/ /\ tr = {"AnyShaderReadOther"}
            /\ \A op \in mem.past : ~Wrote(op)
            /\ \A i \in Uses(draws, cell) : ~IsWrite(draws[i].access)

Mid(image, draws, n, cell, tr, mem) ==
    LET first == FirstUse(draws, cell) IN
    /\ TrackedMid(image, draws, cell, tr, mem) /\ IsMemory(mem)
    /\ mem.layout = LayoutIn(image, draws[first].access)
    /\ mem.contents = "lost" => n < first /\ ~IsRead(draws[first].access)
    /\ \A op \in mem.past : OpMid(image, draws, n, SubpassOf(draws, n), cell, op)

CellForm(image, draws, n, cell, tr, mem) ==
    IF Uses(draws, cell) = {} THEN Still(image, tr, mem)
    ELSE Mid(image, draws, n, cell, tr, mem)

\* Only without ReadersPassOn a reader may find a stale value.
Tolerated == IF ReadersPassOn THEN {} ELSE {"stale"}

CellsForm == \A cell \in Cells : CellForm(isImage, pass, drawn, cell, tracked[cell], memory[cell])

\* Types that the rest does not tell
Bounds ==
    /\ isImage \in BOOLEAN /\ tracked = [cell \in Cells |-> tracked[cell]]
    /\ history \subseteq Stages
    /\ Len(pass) <= MaxDraws /\ drawn \in 0 .. Len(pass)
    /\ accesses \in 0 .. MaxAccesses /\ records \in 0 .. MaxRecords

BarriersInv ==
    /\ Bounds
    /\ PassForm(isImage, pass)
    /\ CellsForm
    /\ faults \subseteq Tolerated

-----------------------------------------------------------------------------
(* Kinds of access                                                          *)

\* What commands make accesses of
LEMMA UsedAre ==
    Used \subseteq {"TransferRead", "TransferWrite", "ComputeShaderReadOther", "ComputeShaderWrite",
                    "ComputeShaderReadSampledImage", "VertexShaderReadOther",
                    "FragmentShaderReadOther", "VertexShaderReadSampledImage",
                    "FragmentShaderReadSampledImage", "VertexShaderWrite", "FragmentShaderWrite",
                    "ColorAttachmentWrite", "ColorAttachmentReadWrite"}
BY BarriersAssumption DEF Used, Attached

\* An access that a command makes reads or writes, in one stage.
LEMMA AccessIs ==
    ASSUME NEW access \in Used
    PROVE  /\ access \in Accesses /\ access # "Nothing"
           /\ access # "General" /\ access # "AnyShaderReadOther"
           /\ StageOf(access) \in Stages /\ StagesOf(access) = {StageOf(access)}
           /\ IsRead(access) \/ IsWrite(access)
           /\ access \in Reads => ~IsWrite(access)
           /\ access \in Sampled => access \in Reads /\ access \notin Attached
           /\ access \in Attached => IsWrite(access) /\ StageOf(access) = "color"
<1>1. \E stage \in Stages : StagesOf(access) = {stage}
  BY UsedAre DEF StagesOf, Stages, Sampled, Attached
<1>2. StageOf(access) \in Stages /\ StagesOf(access) = {StageOf(access)}
  BY <1>1 DEF StageOf
<1>3. /\ access \in Accesses /\ access # "Nothing"
      /\ access # "General" /\ access # "AnyShaderReadOther"
      /\ IsRead(access) \/ IsWrite(access)
  BY UsedAre DEF Accesses, Reads, Writes, ReadWrites, IsRead, IsWrite
<1>4. access \in Reads => ~IsWrite(access)
  BY DEF Reads, Writes, ReadWrites, IsWrite
<1>5. access \in Sampled => access \in Reads /\ access \notin Attached
  BY DEF Sampled, Reads, Attached
<1>6. ASSUME access \in Attached PROVE IsWrite(access) /\ StageOf(access) = "color"
  <2>1. IsWrite(access)
    BY <1>6 DEF Attached, Writes, ReadWrites, IsWrite
  <2>2. StagesOf(access) = {"color"}
    BY <1>6 DEF Attached, StagesOf, Sampled
  <2> QED
    BY <2>1, <2>2, <1>2
<1> QED
  BY <1>2, <1>3, <1>4, <1>5, <1>6

\* A draw's is in a stage of the graphics pipeline.
LEMMA DrawIs ==
    ASSUME NEW access \in Draws
    PROVE  access \in Used /\ StageOf(access) \in GraphicsStages
<1>1. access \in Used
  BY DEF Used
<1>2. StagesOf(access) \subseteq GraphicsStages
  BY BarriersAssumption DEF StagesOf, GraphicsStages, Sampled, Attached
<1> QED
  BY <1>1, <1>2, AccessIs

\* What the flags say
LEMMA FlagsAre ==
    ASSUME NEW access
    PROVE  /\ FlagsOf(access) \in SUBSET Flags
           /\ "read" \in FlagsOf(access) <=> IsRead(access)
           /\ "write" \in FlagsOf(access) <=> IsWrite(access)
BY DEF FlagsOf, Flags

\* The only sampled access that an execution makes
LEMMA OutsideIs ==
    ASSUME NEW access \in Outside
    PROVE  /\ access \in Used
           /\ access \in Sampled => access = "ComputeShaderReadSampledImage"
           /\ StageOf("ComputeShaderReadSampledImage") = "compute"
<1>1. access \in Sampled => access = "ComputeShaderReadSampledImage"
  BY BarriersAssumption DEF Sampled
<1>2. StagesOf("ComputeShaderReadSampledImage") = {"compute"}
  BY DEF StagesOf, Attached
<1> QED
  BY <1>1, <1>2 DEF Used, StageOf

\* What a tracker remembers but no command does
LEMMA TrackedAre ==
    /\ StagesOf("General") = Stages /\ IsWrite("General")
    /\ StagesOf("AnyShaderReadOther") = Stages /\ ~IsWrite("AnyShaderReadOther")
    /\ StagesOf("Nothing") = {} /\ ~IsWrite("Nothing")
    /\ "General" \notin Sampled /\ "AnyShaderReadOther" \notin Sampled /\ "Nothing" \notin Sampled
BY DEF StagesOf, IsWrite, Writes, ReadWrites, Sampled, Attached

\* Layouts of an image
LEMMA LayoutIs ==
    ASSUME isImage \in BOOLEAN, NEW access
    PROVE  /\ LayoutOf(access) = LayoutIn(isImage, access)
           /\ LayoutIn(isImage, access) \in Layouts
<1>1. LayoutOf(access) = LayoutIn(isImage, access)
  BY DEF LayoutOf, LayoutIn
<1>2. LayoutIn(TRUE, access) \in Layouts
  <2>1. CASE access \in Sampled \cup Attached \cup {"Nothing", "TransferRead", "TransferWrite"}
    BY <2>1 DEF LayoutIn, Layouts, Sampled, Attached
  <2>2. CASE access \notin Sampled \cup Attached \cup {"Nothing", "TransferRead", "TransferWrite"}
    BY <2>2 DEF LayoutIn, Layouts
  <2> QED
    BY <2>1, <2>2
<1>3. LayoutIn(FALSE, access) \in Layouts
  BY DEF LayoutIn, Layouts
<1>4. isImage = TRUE \/ isImage = FALSE
  OBVIOUS
<1> QED
  BY <1>1, <1>2, <1>3, <1>4

\* A buffer has none, nor has what was never accessed.
LEMMA NoLayout ==
    ASSUME NEW access
    PROVE  /\ LayoutIn(FALSE, access) = "undefined"
           /\ \A image \in BOOLEAN : LayoutIn(image, "Nothing") = "undefined"
BY DEF LayoutIn, Sampled, Attached

\* An image whose accesses have one layout has all of them attached, or all sampled, or none.
LEMMA LayoutTells ==
    ASSUME NEW a \in Used, NEW b \in Used, LayoutIn(TRUE, a) = LayoutIn(TRUE, b)
    PROVE  /\ a \in Attached <=> b \in Attached
           /\ a \in Sampled <=> b \in Sampled
           /\ LayoutIn(TRUE, a) # "undefined"
BY UsedAre DEF LayoutIn, Attached, Sampled

\* A nonempty set of natural numbers has a least element.
LEMMA LeastNat ==
    ASSUME NEW T \in SUBSET Nat, NEW k \in T
    PROVE  \E n \in T : \A m \in T : n <= m
<1>1. IsWellFoundedOn(OpToRel(<,Nat), Nat)
  BY NatLessThanWellFounded
<1>2. \E x \in T : \A y \in T : ~ (<<y, x>> \in OpToRel(<,Nat))
  BY <1>1, WFMin
<1>3. ASSUME NEW x \in Nat, NEW y \in Nat, ~ (<<y, x>> \in OpToRel(<,Nat))
      PROVE  x <= y
  BY <1>3 DEF OpToRel
<1> QED
  BY <1>2, <1>3

\* A bounded one has a greatest, which Max finds.
LEMMA GreatestNat ==
    ASSUME NEW T \in SUBSET Nat, NEW k \in T, NEW b \in Nat, \A n \in T : n <= b
    PROVE  Max(T) \in T /\ \A m \in T : m <= Max(T)
<1> DEFINE D == {d \in Nat : b - d \in T}
<1>1. b - k \in D
  OBVIOUS
<1>2. PICK d \in D : \A e \in D : d <= e
  <2> HIDE DEF D
  <2> QED
    BY <1>1, LeastNat DEF D
<1>3. \A m \in T : b - m \in D
  OBVIOUS
<1>4. \A m \in T : m <= b - d
  <2> TAKE m \in T
  <2>1. d <= b - m
    BY <1>2, <1>3
  <2>2. d \in Nat /\ m \in Nat
    BY <1>2
  <2> QED
    BY <2>1, <2>2
<1>5. \E n \in T : \A m \in T : n >= m
  BY <1>2, <1>4
<1> QED
  BY <1>5 DEF Max

-----------------------------------------------------------------------------
(* Subpasses                                                                *)

\* A draw begins a subpass or is appended to the one before.
LEMMA SubpassSteps ==
    ASSUME NEW draws, NEW i \in Nat
    PROVE  /\ SubpassOf(draws, i) \in Nat
           /\ SubpassOf(draws, 0) = 0
           /\ draws[i + 1].appended => SubpassOf(draws, i + 1) = SubpassOf(draws, i)
           /\ ~draws[i + 1].appended => SubpassOf(draws, i + 1) = SubpassOf(draws, i) + 1
<1> DEFINE Begin(n) == {j \in 1 .. n : ~draws[j].appended}
<1>1. IsFiniteSet(Begin(i))
  <2>1. IsFiniteSet(1 .. i) /\ Begin(i) \subseteq 1 .. i
    BY FS_Interval
  <2> QED
    BY <2>1, FS_Subset
<1>2. Cardinality(Begin(i)) \in Nat
  BY <1>1, FS_CardinalityType
<1>3. Cardinality(Begin(0)) = 0
  <2>1. Begin(0) = {}
    OBVIOUS
  <2> QED
    BY <2>1, FS_EmptySet
<1>4. ASSUME draws[i + 1].appended PROVE Begin(i + 1) = Begin(i)
  BY <1>4
<1>5. ASSUME ~draws[i + 1].appended PROVE Cardinality(Begin(i + 1)) = Cardinality(Begin(i)) + 1
  <2>1. Begin(i + 1) = Begin(i) \cup {i + 1} /\ i + 1 \notin Begin(i)
    BY <1>5
  <2> QED
    BY <2>1, <1>1, FS_AddElement
<1> QED
  BY <1>2, <1>3, <1>4, <1>5 DEF SubpassOf

\* Later draws are in later subpasses.
LEMMA SubpassMonotone ==
    ASSUME NEW draws, NEW i \in Nat, NEW j \in Nat, i <= j
    PROVE  SubpassOf(draws, i) <= SubpassOf(draws, j)
<1> DEFINE Begin(n) == {k \in 1 .. n : ~draws[k].appended}
<1>1. IsFiniteSet(Begin(j)) /\ Begin(i) \subseteq Begin(j)
  <2>1. IsFiniteSet(1 .. j) /\ Begin(j) \subseteq 1 .. j
    BY FS_Interval
  <2>2. IsFiniteSet(Begin(j))
    BY <2>1, FS_Subset
  <2>3. 1 .. i \subseteq 1 .. j
    OBVIOUS
  <2> QED
    BY <2>2, <2>3
<1> QED
  BY <1>1, FS_Subset DEF SubpassOf

\* The first draw begins the first one.
LEMMA SubpassCounts ==
    ASSUME NEW image, NEW draws, PassForm(image, draws), NEW i \in DOMAIN draws
    PROVE  i \in 1 .. Len(draws) /\ SubpassOf(draws, i) \in Nat /\ SubpassOf(draws, i) >= 1
<1>1. DOMAIN draws = 1 .. Len(draws) /\ Len(draws) \in Nat
  BY DEF PassForm
<1>2. ~draws[1].appended
  BY <1>1 DEF PassForm
<1>3. SubpassOf(draws, 0 + 1) = SubpassOf(draws, 0) + 1 /\ SubpassOf(draws, 0) = 0
  BY <1>2, SubpassSteps
<1>4. SubpassOf(draws, 1) <= SubpassOf(draws, i)
  BY <1>1, SubpassMonotone
<1> QED
  BY <1>1, <1>3, <1>4, SubpassSteps

\* Every number up to the current one is that of a draw.
LEMMA SubpassHasDraw ==
    ASSUME NEW draws, NEW n \in Nat, NEW k \in 1 .. SubpassOf(draws, n)
    PROVE  \E j \in 1 .. n : SubpassOf(draws, j) = k
<1> DEFINE T == {j \in Nat : SubpassOf(draws, j) >= k}
<1>1. n \in T
  BY SubpassSteps
<1>2. PICK j \in T : \A m \in T : j <= m
  <2> HIDE DEF T
  <2> QED
    BY <1>1, LeastNat DEF T
<1>3. j # 0
  BY <1>2, SubpassSteps
<1>4. j - 1 \in Nat /\ j - 1 \notin T /\ j <= n
  BY <1>1, <1>2, <1>3
<1>5. SubpassOf(draws, j - 1) < k /\ SubpassOf(draws, j) >= k
  BY <1>2, <1>4, SubpassSteps
<1>6. SubpassOf(draws, j) <= SubpassOf(draws, j - 1) + 1
  <2>1. (j - 1) + 1 = j
    BY <1>2
  <2> QED
    BY <2>1, <1>4, SubpassSteps
<1>7. SubpassOf(draws, j) = k
  <2>1. SubpassOf(draws, j) \in Nat /\ SubpassOf(draws, j - 1) \in Nat /\ k \in Nat
    BY <1>2, <1>4, SubpassSteps
  <2> QED
    BY <2>1, <1>5, <1>6
<1> QED
  BY <1>2, <1>3, <1>4, <1>7

\* Draws in between are appended.
LEMMA SubpassShared ==
    ASSUME NEW draws, NEW j \in Nat, NEW i \in Nat, j < i,
           SubpassOf(draws, j) = SubpassOf(draws, i)
    PROVE  draws[j + 1].appended /\ draws[i].appended
<1>1. /\ SubpassOf(draws, j + 1) <= SubpassOf(draws, i)
      /\ SubpassOf(draws, j) <= SubpassOf(draws, i - 1)
  BY SubpassMonotone
<1>2. draws[j + 1].appended
  BY <1>1, SubpassSteps
<1>3. i - 1 \in Nat /\ (i - 1) + 1 = i
  OBVIOUS
<1>4. ~draws[i].appended => SubpassOf(draws, i) = SubpassOf(draws, i - 1) + 1
  BY <1>3, SubpassSteps
<1>5. draws[i].appended
  BY <1>1, <1>3, <1>4, SubpassSteps
<1> QED
  BY <1>2, <1>5

\* What the draws of a pass access
LEMMA PassAccess ==
    ASSUME NEW image, NEW draws, PassForm(image, draws), NEW i \in DOMAIN draws
    PROVE  /\ draws[i].access \in Draws /\ draws[i].access \in Used
           /\ draws[i].cells \in Ranges /\ draws[i].appended \in BOOLEAN
           /\ DOMAIN draws = 1 .. Len(draws) /\ Len(draws) \in Nat
           /\ i \in 1 .. Len(draws) /\ i \in Nat
<1> DEFINE R == [access: Draws, cells: Ranges, appended: BOOLEAN]
<1>1. draws \in Seq(R)
  BY DEF PassForm
<1>2. DOMAIN draws = 1 .. Len(draws) /\ Len(draws) \in Nat /\ draws[i] \in R
  <2> HIDE DEF R
  <2> QED
    BY <1>1
<1>3. i \in 1 .. Len(draws) /\ i \in Nat
  BY <1>2
<1> QED
  BY <1>2, <1>3 DEF Used

\* If one draw of an image is attached or sampled, all are.
LEMMA PassTells ==
    ASSUME NEW image \in BOOLEAN, NEW draws, PassForm(image, draws),
           NEW i \in DOMAIN draws, NEW j \in DOMAIN draws
    PROVE  /\ draws[i].access \in Attached <=> draws[j].access \in Attached
           /\ draws[i].access \in Sampled <=> draws[j].access \in Sampled
           /\ draws[i].access \in ImageOnly => image
           /\ image => LayoutIn(image, draws[i].access) # "undefined"
           /\ LayoutIn(image, draws[i].access) = LayoutIn(image, draws[j].access)
<1>1. draws[i].access \in Used /\ draws[j].access \in Used
  BY PassAccess
<1>2. LayoutIn(image, draws[i].access) = LayoutIn(image, draws[j].access)
  BY DEF PassForm
<1>3. ~image => draws[i].access \notin ImageOnly /\ draws[j].access \notin ImageOnly
  BY DEF PassForm
<1>4. image = TRUE \/ image = FALSE
  OBVIOUS
<1>5. CASE image = TRUE
  BY <1>1, <1>2, <1>5, LayoutTells
<1>6. CASE image = FALSE
  BY <1>2, <1>3, <1>6 DEF ImageOnly
<1> QED
  BY <1>4, <1>5, <1>6

\* Draws that share a subpass are all attached, or they all only read.
LEMMA SharingDraws ==
    ASSUME NEW image \in BOOLEAN, NEW draws, PassForm(image, draws),
           NEW i \in DOMAIN draws, NEW j \in DOMAIN draws, i # j,
           SubpassOf(draws, i) = SubpassOf(draws, j)
    PROVE  \/ draws[i].access \in Attached /\ draws[j].access \in Attached
           \/ /\ draws[i].access \in Reads /\ draws[j].access \in Reads
              /\ image => draws[i].access \in Sampled
<1> DEFINE Fits(a) == a \in Attached \/ (a \in Reads /\ (image => a \in Sampled))
<1>1. ASSUME NEW k \in DOMAIN draws, NEW m \in DOMAIN draws, k < m,
             SubpassOf(draws, k) = SubpassOf(draws, m)
      PROVE  Fits(draws[k].access) /\ Fits(draws[m].access)
  <2>1. k \in Nat /\ m \in Nat /\ DOMAIN draws = 1 .. Len(draws) /\ Len(draws) \in Nat
    BY PassAccess
  <2>2. draws[k + 1].appended /\ draws[m].appended /\ k + 1 \in DOMAIN draws
    BY <1>1, <2>1, SubpassShared
  <2>3. \A d \in DOMAIN draws : draws[d].appended =>
            Fits(draws[d - 1].access) /\ Fits(draws[d].access)
    BY DEF PassForm
  <2>4. Fits(draws[(k + 1) - 1].access) /\ Fits(draws[m].access)
    <3> HIDE DEF Fits
    <3> QED
      BY <2>2, <2>3
  <2>5. (k + 1) - 1 = k
    BY <2>1
  <2> QED
    BY <2>4, <2>5
<1>2. i \in Nat /\ j \in Nat
  BY PassAccess
<1>3. Fits(draws[i].access) /\ Fits(draws[j].access)
  <2>1. i < j \/ j < i
    BY <1>2
  <2> HIDE DEF Fits
  <2> QED
    BY <2>1, <1>1
<1>4. draws[i].access \in Attached <=> draws[j].access \in Attached
  BY PassTells
<1> QED
  BY <1>3, <1>4

\* The first and the last draw of a cell
LEMMA UsesAre ==
    ASSUME NEW image, NEW draws, PassForm(image, draws), NEW cell, Uses(draws, cell) # {}
    PROVE  /\ FirstUse(draws, cell) \in Uses(draws, cell)
           /\ LastUse(draws, cell) \in Uses(draws, cell)
           /\ \A i \in Uses(draws, cell) :
                  /\ FirstUse(draws, cell) <= i /\ i <= LastUse(draws, cell)
                  /\ i \in DOMAIN draws /\ cell \in draws[i].cells
           /\ \A i \in DOMAIN draws : cell \in draws[i].cells => i \in Uses(draws, cell)
<1> DEFINE U == Uses(draws, cell)
<1>1. U \in SUBSET Nat /\ DOMAIN draws = 1 .. Len(draws) /\ Len(draws) \in Nat
      /\ \A i \in U : i <= Len(draws)
  BY DEF PassForm, Uses
<1>2. PICK k \in U : TRUE
  OBVIOUS
<1>3. \E i \in U : \A j \in U : i <= j
  <2> HIDE DEF U
  <2> QED
    BY <1>1, <1>2, LeastNat
<1>4. \E i \in U : \A j \in U : j <= i
  <2> HIDE DEF U
  <2> QED
    BY <1>1, <1>2, GreatestNat
<1>5. FirstUse(draws, cell) \in U /\ \A j \in U : FirstUse(draws, cell) <= j
  BY <1>3 DEF FirstUse
<1>6. LastUse(draws, cell) \in U /\ \A j \in U : j <= LastUse(draws, cell)
  BY <1>4 DEF LastUse
<1>7. U = {i \in DOMAIN draws : cell \in draws[i].cells}
  BY DEF Uses
<1> QED
  BY <1>5, <1>6, <1>7

-----------------------------------------------------------------------------
(* Groups of draws                                                          *)

\* What a draw adds to its group
LEMMA GroupHas ==
    ASSUME NEW image, NEW draws, PassForm(image, draws), NEW i \in DOMAIN draws
    PROVE  /\ draws[i] \in Group(draws, SubpassOf(draws, i))
           /\ StageOf(draws[i].access) \in GroupStages(draws, SubpassOf(draws, i))
           /\ IsRead(draws[i].access) => GroupReads(draws, SubpassOf(draws, i))
           /\ IsWrite(draws[i].access) => GroupWrites(draws, SubpassOf(draws, i))
<1>1. draws[i] \in Group(draws, SubpassOf(draws, i))
  BY DEF Group
<1>2. StageOf(draws[i].access) \in StagesOf(draws[i].access)
  BY PassAccess, AccessIs
<1> QED
  BY <1>1, <1>2 DEF GroupStages, GroupReads, GroupWrites

\* What is in a group comes from a draw.
LEMMA GroupDraw ==
    ASSUME NEW draws, NEW k, NEW draw \in Group(draws, k)
    PROVE  \E i \in DOMAIN draws : draws[i] = draw /\ SubpassOf(draws, i) = k
BY DEF Group

\* The stages of a group
LEMMA GroupStagesAre ==
    ASSUME NEW image, NEW draws, PassForm(image, draws), NEW k
    PROVE  GroupStages(draws, k) \subseteq GraphicsStages /\ GroupStages(draws, k) \subseteq Stages
<1>1. ASSUME NEW draw \in Group(draws, k) PROVE StagesOf(draw.access) \subseteq GraphicsStages
  <2>1. PICK i \in DOMAIN draws : draws[i] = draw
    BY GroupDraw
  <2> QED
    BY <2>1, PassAccess, DrawIs, AccessIs
<1>2. GraphicsStages \subseteq Stages
  BY DEF GraphicsStages, Stages
<1> QED
  BY <1>1, <1>2 DEF GroupStages

\* The kind of a group is that of all its draws, or none.
LEMMA GroupClassIs ==
    ASSUME NEW draws, NEW k, NEW draw \in Group(draws, k)
    PROVE  /\ GroupClass(Group(draws, k)) \in {Class(draw), "Other"}
           /\ (\A other \in Group(draws, k) : Class(other) = Class(draw)) =>
                  GroupClass(Group(draws, k)) = Class(draw)
<1>1. (CHOOSE d \in Group(draws, k) : TRUE) \in Group(draws, k)
  OBVIOUS
<1>2. ASSUME NEW d \in Group(draws, k), \A other \in Group(draws, k) : Class(other) = Class(d)
      PROVE  GroupClass(Group(draws, k)) = Class(draw)
  BY <1>1, <1>2 DEF GroupClass
<1> QED
  BY <1>2 DEF GroupClass

\* What is proven of a draw
LEMMA ClassIs ==
    ASSUME isImage \in BOOLEAN, NEW draws, PassForm(isImage, draws), NEW i \in DOMAIN draws
    PROVE  /\ Class(draws[i]) = "AttachmentLocal" =>
                  draws[i].access \in Attached /\ StageOf(draws[i].access) = "color"
           /\ Class(draws[i]) = "ReadOnlyBuffer" => ~isImage /\ ~IsWrite(draws[i].access)
           /\ ~isImage /\ ~IsWrite(draws[i].access) => Class(draws[i]) = "ReadOnlyBuffer"
           /\ Class(draws[i]) = "ReadOnlyImage" => draws[i].access \in Sampled
<1> DEFINE a == draws[i].access
<1>1. a \in Used /\ (a \in ImageOnly => isImage)
  BY PassAccess, PassTells
<1>2. a \in Attached => StageOf(a) = "color" /\ IsWrite(a)
  BY <1>1, AccessIs
<1>3. a \in Reads <=> ~IsWrite(a)
  BY <1>1, AccessIs DEF IsRead, IsWrite
<1>4. Class(draws[i]) = CASE a \in Attached -> "AttachmentLocal"
                          [] ~isImage /\ a \in Reads -> "ReadOnlyBuffer"
                          [] a \in Sampled -> "ReadOnlyImage"
                          [] OTHER -> "Other"
  BY DEF Class
<1>5. a \in Sampled => a \in Reads /\ isImage /\ a \notin Attached
  BY <1>1, AccessIs DEF ImageOnly
<1> HIDE DEF a
<1>6. isImage = TRUE \/ isImage = FALSE
  OBVIOUS
<1>7. a \in Attached => Class(draws[i]) = "AttachmentLocal"
  BY <1>2, <1>3, <1>4, <1>5
<1>8. a \notin Attached /\ ~isImage /\ a \in Reads => Class(draws[i]) = "ReadOnlyBuffer"
  BY <1>4, <1>5
<1>9. a \notin Attached /\ a \in Sampled => Class(draws[i]) = "ReadOnlyImage"
  BY <1>4, <1>5
<1>10. a \notin Attached /\ a \notin Sampled /\ ~(~isImage /\ a \in Reads) =>
           Class(draws[i]) = "Other"
  BY <1>4
<1> QED
  BY <1>2, <1>3, <1>5, <1>7, <1>8, <1>9, <1>10 DEF a

\* The groups of a buffer that only read are its readers.
LEMMA ReaderGroup ==
    ASSUME isImage \in BOOLEAN, NEW draws, PassForm(isImage, draws),
           NEW i \in DOMAIN draws, NEW k, SubpassOf(draws, i) = k
    PROVE  /\ IsBufferReader(draws, k) => ~isImage /\ ~GroupWrites(draws, k)
           /\ ~isImage /\ ~GroupWrites(draws, k) => IsBufferReader(draws, k)
<1>1. draws[i] \in Group(draws, k)
  BY GroupHas
<1>2. ASSUME IsBufferReader(draws, k) PROVE ~isImage /\ ~GroupWrites(draws, k)
  <2>1. ASSUME NEW d \in Group(draws, k) PROVE ~isImage /\ ~IsWrite(d.access)
    <3>1. Class(d) = "ReadOnlyBuffer"
      BY <1>2, GroupClassIs DEF IsBufferReader
    <3> QED
      BY <3>1, GroupDraw, ClassIs
  <2> QED
    BY <1>1, <2>1 DEF GroupWrites
<1>3. ASSUME ~isImage, ~GroupWrites(draws, k) PROVE IsBufferReader(draws, k)
  <2>1. ASSUME NEW d \in Group(draws, k) PROVE Class(d) = "ReadOnlyBuffer"
    BY <1>3, GroupDraw, ClassIs DEF GroupWrites
  <2> QED
    BY <1>1, <2>1, GroupClassIs DEF IsBufferReader
<1> QED
  BY <1>2, <1>3

\* f is the function that KeptBefore defines by recursion.
IsKept(f, draws, k) ==
    f = [j \in 0 .. k - 1 |->
            IF j = 0 THEN {}
            ELSE IF IsBufferReader(draws, j) THEN f[j - 1]
            ELSE IF Retires(draws, j, f[j - 1]) THEN (f[j - 1] \ {Max(f[j - 1])}) \cup {j}
            ELSE f[j - 1] \cup {j}]

\* There is such a function.
LEMMA KeptExists ==
    ASSUME NEW draws, NEW k \in Nat
    PROVE  \E f : IsKept(f, draws, k + 1)
<1> DEFINE Step(j, s) == IF IsBufferReader(draws, j) THEN s
                         ELSE IF Retires(draws, j, s) THEN (s \ {Max(s)}) \cup {j}
                         ELSE s \cup {j}
           Has(n) == \E f : f = [j \in 0 .. n |-> IF j = 0 THEN {} ELSE Step(j, f[j - 1])]
           T == {n \in Nat : ~Has(n)}
<1>1. Has(k) => \E f : IsKept(f, draws, k + 1)
  <2>1. (k + 1) - 1 = k
    OBVIOUS
  <2> QED
    BY <2>1, Zenon DEF IsKept
<1> SUFFICES ASSUME k \in T PROVE FALSE
  BY <1>1
<1> HIDE DEF Step
<1>2. PICK n \in T : \A m \in T : n <= m
  <2> HIDE DEF T
  <2> QED
    BY LeastNat DEF T
<1>3. Has(0)
  <2>1. [j \in 0 .. 0 |-> {}] =
            [j \in 0 .. 0 |-> IF j = 0 THEN {} ELSE Step(j, [i \in 0 .. 0 |-> {}][j - 1])]
    OBVIOUS
  <2> QED
    BY <2>1
<1>4. n # 0 /\ n - 1 \in Nat /\ Has(n - 1)
  <2> HIDE DEF Has
  <2>1. n # 0 /\ n \in Nat
    BY <1>2, <1>3
  <2>2. n - 1 \in Nat /\ ~(n <= n - 1)
    BY <2>1
  <2> QED
    BY <1>2, <2>1, <2>2
<1>5. PICK f : f = [j \in 0 .. n - 1 |-> IF j = 0 THEN {} ELSE Step(j, f[j - 1])]
  BY <1>4
<1> DEFINE h == [j \in 0 .. n |-> IF j = n THEN Step(n, f[n - 1]) ELSE f[j]]
<1>6. \A j \in 0 .. n : h[j] = IF j = 0 THEN {} ELSE Step(j, h[j - 1])
  <2>1. n \in Nat /\ n # 0
    BY <1>2, <1>4
  <2>2. \A j \in 0 .. n - 1 : f[j] = IF j = 0 THEN {} ELSE Step(j, f[j - 1])
    BY <1>5, Zenon
  <2>3. h[n] = Step(n, f[n - 1]) /\ \A j \in 0 .. n - 1 : h[j] = f[j]
    BY <2>1
  <2>4. \A j \in 0 .. n : j = n \/ (j \in 0 .. n - 1 /\ (j # 0 => j - 1 \in 0 .. n - 1))
    BY <2>1
  <2>5. n - 1 \in 0 .. n - 1
    BY <2>1
  <2> HIDE DEF h
  <2> QED
    BY <2>1, <2>2, <2>3, <2>4, <2>5
<1>7. h = [j \in 0 .. n |-> IF j = 0 THEN {} ELSE Step(j, h[j - 1])]
  BY <1>6
<1> QED
  BY <1>2, <1>7

\* The kept groups are earlier ones, with the last of those that are no readers.
LEMMA KeptAre ==
    ASSUME NEW draws, NEW k \in Nat,
           NEW i \in 1 .. k, ~IsBufferReader(draws, i),
           \A g \in i + 1 .. k : IsBufferReader(draws, g)
    PROVE  i \in KeptBefore(draws, k + 1)
<1> DEFINE IsF(f) == IsKept(f, draws, k + 1)
<1>1. \E f : IsF(f)
  BY KeptExists
<1>2. PICK f : f = (CHOOSE g : IsF(g)) /\ IsF(f)
  BY <1>1
<1>3. KeptBefore(draws, k + 1) = f[(k + 1) - 1]
  BY <1>2 DEF KeptBefore, IsKept
<1>4. (k + 1) - 1 = k
  OBVIOUS
<1> HIDE DEF IsF
<1>5. \A j \in 0 .. k : f[j] = IF j = 0 THEN {}
                               ELSE IF IsBufferReader(draws, j) THEN f[j - 1]
                               ELSE IF Retires(draws, j, f[j - 1])
                               THEN (f[j - 1] \ {Max(f[j - 1])}) \cup {j}
                               ELSE f[j - 1] \cup {j}
  <2>1. f = [j \in 0 .. k |-> IF j = 0 THEN {}
                               ELSE IF IsBufferReader(draws, j) THEN f[j - 1]
                               ELSE IF Retires(draws, j, f[j - 1])
                               THEN (f[j - 1] \ {Max(f[j - 1])}) \cup {j}
                               ELSE f[j - 1] \cup {j}]
    BY <1>2, <1>4 DEF IsKept, IsF
  <2> QED
    BY <2>1, Zenon
<1>6. i \in f[i]
  <2>1. i \in 0 .. k /\ i # 0
    OBVIOUS
  <2>2. f[i] = IF Retires(draws, i, f[i - 1]) THEN (f[i - 1] \ {Max(f[i - 1])}) \cup {i}
               ELSE f[i - 1] \cup {i}
    BY <1>5, <2>1, Zenon
  <2> QED
    BY <2>2, Zenon
<1> DEFINE T == {j \in Nat : i <= j /\ j <= k /\ i \notin f[j]}
<1>7. ASSUME NEW n \in T, \A m \in T : n <= m PROVE FALSE
  <2>1. n \in Nat /\ n # i /\ i < n /\ n <= k
    BY <1>6, <1>7
  <2>2. n - 1 \notin T
    BY <2>1, <1>7
  <2>3. i \in f[n - 1]
    BY <2>1, <2>2
  <2>4. IsBufferReader(draws, n)
    BY <2>1
  <2>5. f[n] = f[n - 1]
    <3>1. n \in 0 .. k /\ n # 0
      BY <2>1
    <3> QED
      BY <1>5, <2>4, <3>1, Zenon
  <2> QED
    BY <1>7, <2>3, <2>5
<1>8. T = {}
  <2>1. T \in SUBSET Nat
    OBVIOUS
  <2> HIDE DEF T
  <2> QED
    BY <1>7, <2>1, LeastNat
<1>9. i \in f[k]
  BY <1>8
<1> QED
  BY <1>3, <1>4, <1>9

\* One that is no reader is kept, or a later one is.
LEMMA KeptSome ==
    ASSUME NEW draws, NEW m \in Nat, NEW i \in 1 .. m - 1, ~IsBufferReader(draws, i)
    PROVE  \E g \in i .. m - 1 : g \in KeptBefore(draws, m) /\ ~IsBufferReader(draws, g)
<1> DEFINE T == {g \in i .. m - 1 : ~IsBufferReader(draws, g)}
<1>1. T \in SUBSET Nat /\ i \in T /\ m - 1 \in Nat /\ \A g \in T : g <= m - 1
  OBVIOUS
<1>2. PICK g \in T : \A h \in T : h <= g
  <2> HIDE DEF T
  <2> QED
    BY <1>1, GreatestNat
<1>3. g \in 1 .. m - 1 /\ \A h \in g + 1 .. m - 1 : IsBufferReader(draws, h)
  BY <1>2
<1>4. g \in KeptBefore(draws, (m - 1) + 1)
  BY <1>1, <1>2, <1>3, KeptAre
<1>5. (m - 1) + 1 = m
  OBVIOUS
<1> QED
  BY <1>2, <1>4, <1>5

-----------------------------------------------------------------------------
(* What barriers and dependencies do to an access that was made             *)

\* The same access, as later ones know it
MoreOf(op, more) ==
    /\ IsOp(more)
    /\ more.at = op.at /\ more.stage = op.stage /\ more.flags = op.flags
    /\ op.after \subseteq more.after /\ op.chain \subseteq more.chain
    /\ op.visible \subseteq more.visible
    /\ op.available => more.available

\* What is known of an access
LEMMA OpParts ==
    ASSUME NEW op, IsOp(op)
    PROVE  /\ op.at \in Nat /\ op.stage \in Stages \cup {"transition"} /\ op.flags \subseteq Flags
           /\ op.after \subseteq Stages /\ op.chain \subseteq Nat \X Stages
           /\ op.available \in BOOLEAN /\ op.visible \subseteq Nat \X Stages
           /\ op = [stage |-> op.stage, flags |-> op.flags, at |-> op.at, after |-> op.after,
                    chain |-> op.chain, available |-> op.available, visible |-> op.visible]
BY DEF IsOp

\* What an access is made of
LEMMA OpMade ==
    ASSUME NEW stage \in Stages \cup {"transition"}, NEW flags \in SUBSET Flags, NEW at \in Nat,
           NEW after \in SUBSET Stages, NEW chain \in SUBSET (Nat \X Stages),
           NEW available \in BOOLEAN, NEW visible \in SUBSET (Nat \X Stages)
    PROVE  IsOp([stage |-> stage, flags |-> flags, at |-> at, after |-> after, chain |-> chain,
                 available |-> available, visible |-> visible])
BY DEF IsOp

\* A subpass begins: a dependency that meets the access orders the subpass after it.
LEMMA EnterIs ==
    ASSUME NEW op, IsOp(op), NEW k \in Nat, NEW deps, \A d \in deps : d.dst \subseteq Stages
    PROVE  /\ MoreOf(op, Enter(op, k, deps))
           /\ \A d \in deps : Meets(op, d) /\ Local(op, d) =>
                  /\ {k} \X d.dst \subseteq Enter(op, k, deps).chain
                  /\ MadeAvailable(op, d) => Enter(op, k, deps).available
                  /\ MadeAvailable(op, d) /\ "read" \in d.to =>
                         {k} \X d.dst \subseteq Enter(op, k, deps).visible
<1> DEFINE met == {d \in deps : Meets(op, d) /\ Local(op, d)}
           chain == op.chain \cup {k} \X (op.after \cup UNION {d.dst : d \in met})
           available == op.available \/ \E d \in met : MadeAvailable(op, d)
           visible == op.visible \cup UNION {MadeVisible(op, d, k) : d \in met}
           e == [stage |-> op.stage, flags |-> op.flags, at |-> op.at, after |-> op.after,
                 chain |-> chain, available |-> available, visible |-> visible]
<1>1. Enter(op, k, deps) = e
  <2>1. Enter(op, k, deps) = [op EXCEPT !.chain = chain, !.available = available,
                                        !.visible = visible]
    BY DEF Enter
  <2> HIDE DEF chain, available, visible
  <2> QED
    BY <2>1 DEF IsOp
<1>2. /\ op.at \in Nat /\ op.stage \in Stages \cup {"transition"} /\ op.flags \subseteq Flags
      /\ op.after \subseteq Stages /\ op.chain \subseteq Nat \X Stages
      /\ op.visible \subseteq Nat \X Stages
  BY OpParts
<1>3. chain \in SUBSET (Nat \X Stages) /\ op.chain \subseteq chain
  <2>1. op.after \cup UNION {d.dst : d \in met} \subseteq Stages
    BY <1>2
  <2> QED
    BY <1>2, <2>1
<1>4. ASSUME NEW d \in deps PROVE MadeVisible(op, d, k) \subseteq Nat \X Stages
  BY <1>4 DEF MadeVisible
<1>5. visible \in SUBSET (Nat \X Stages) /\ op.visible \subseteq visible
  BY <1>2, <1>4
<1>6. available \in BOOLEAN /\ (op.available => available)
  OBVIOUS
<1>7. IsOp(e)
  <2> HIDE DEF chain, available, visible
  <2> QED
    BY <1>2, <1>3, <1>5, <1>6, OpMade
<1>8. MoreOf(op, e)
  <2> HIDE DEF chain, available, visible
  <2> QED
    BY <1>3, <1>5, <1>6, <1>7 DEF MoreOf
<1>9. ASSUME NEW d \in deps, Meets(op, d), Local(op, d)
      PROVE  /\ {k} \X d.dst \subseteq chain
             /\ MadeAvailable(op, d) => available
             /\ MadeAvailable(op, d) /\ "read" \in d.to => {k} \X d.dst \subseteq visible
  <2>1. d \in met
    BY <1>9
  <2>2. MadeAvailable(op, d) /\ "read" \in d.to => MadeVisible(op, d, k) = {k} \X d.dst
    BY <1>9 DEF MadeVisible
  <2>3. d.dst \subseteq UNION {c.dst : c \in met}
    BY <2>1
  <2>4. MadeVisible(op, d, k) \subseteq visible
    BY <2>1
  <2> QED
    BY <2>1, <2>2, <2>3, <2>4
<1>10. e.chain = chain /\ e.available = available /\ e.visible = visible
  OBVIOUS
<1> HIDE DEF e, chain, available, visible
<1> QED
  BY <1>1, <1>8, <1>9, <1>10

\* Barriers: one that meets the access orders what comes next after it.
LEMMA BarriersAre ==
    ASSUME NEW op, IsOp(op), NEW scopes, \A s \in scopes : s.dst \subseteq Stages
    PROVE  /\ MoreOf(op, AfterBarriers(op, scopes))
           /\ \A s \in scopes : Meets(op, s) =>
                  /\ s.dst \subseteq AfterBarriers(op, scopes).after
                  /\ {0} \X s.dst \subseteq AfterBarriers(op, scopes).chain
                  /\ MadeAvailable(op, s) => AfterBarriers(op, scopes).available
                  /\ MadeAvailable(op, s) /\ "read" \in s.to =>
                         {0} \X s.dst \subseteq AfterBarriers(op, scopes).visible
<1> DEFINE met == {s \in scopes : Meets(op, s)}
           dst == UNION {s.dst : s \in met}
           available == op.available \/ \E s \in met : MadeAvailable(op, s)
           visible == op.visible \cup UNION {MadeVisible(op, s, 0) : s \in met}
           chain == op.chain \cup {0} \X dst
           after == op.after \cup dst
           e == [stage |-> op.stage, flags |-> op.flags, at |-> op.at, after |-> after,
                 chain |-> chain, available |-> available, visible |-> visible]
<1>1. AfterBarriers(op, scopes) = e
  <2>1. AfterBarriers(op, scopes) = [op EXCEPT !.after = after, !.chain = chain,
                                               !.available = available, !.visible = visible]
    BY DEF AfterBarriers
  <2> HIDE DEF after, chain, available, visible
  <2> QED
    BY <2>1 DEF IsOp
<1>2. /\ op.at \in Nat /\ op.stage \in Stages \cup {"transition"} /\ op.flags \subseteq Flags
      /\ op.after \subseteq Stages /\ op.chain \subseteq Nat \X Stages
      /\ op.visible \subseteq Nat \X Stages
  BY OpParts
<1>3. dst \subseteq Stages
  OBVIOUS
<1>4. /\ after \in SUBSET Stages /\ op.after \subseteq after
      /\ chain \in SUBSET (Nat \X Stages) /\ op.chain \subseteq chain
  <2> HIDE DEF dst
  <2> QED
    BY <1>2, <1>3
<1>5. ASSUME NEW s \in scopes PROVE MadeVisible(op, s, 0) \subseteq Nat \X Stages
  BY <1>5 DEF MadeVisible
<1>6. visible \in SUBSET (Nat \X Stages) /\ op.visible \subseteq visible
  BY <1>2, <1>5
<1>7. available \in BOOLEAN /\ (op.available => available)
  OBVIOUS
<1>8. IsOp(e)
  <2> HIDE DEF after, chain, available, visible
  <2> QED
    BY <1>2, <1>4, <1>6, <1>7, OpMade
<1>9. MoreOf(op, e)
  <2> HIDE DEF after, chain, available, visible
  <2> QED
    BY <1>4, <1>6, <1>7, <1>8 DEF MoreOf
<1>10. ASSUME NEW s \in scopes, Meets(op, s)
       PROVE  /\ s.dst \subseteq after /\ {0} \X s.dst \subseteq chain
              /\ MadeAvailable(op, s) => available
              /\ MadeAvailable(op, s) /\ "read" \in s.to => {0} \X s.dst \subseteq visible
  <2>1. s \in met
    BY <1>10
  <2>2. MadeAvailable(op, s) /\ "read" \in s.to => MadeVisible(op, s, 0) = {0} \X s.dst
    BY <1>10 DEF MadeVisible
  <2>3. s.dst \subseteq dst
    BY <2>1
  <2>4. MadeVisible(op, s, 0) \subseteq visible
    BY <2>1
  <2> QED
    BY <2>1, <2>2, <2>3, <2>4
<1>11. e.after = after /\ e.chain = chain /\ e.available = available /\ e.visible = visible
  OBVIOUS
<1> HIDE DEF e, after, chain, available, visible
<1> QED
  BY <1>1, <1>9, <1>10, <1>11

\* The render pass ends.
LEMMA LeaveIs ==
    ASSUME NEW op, IsOp(op)
    PROVE  /\ IsOp(Leave(op)) /\ Leave(op).at = 0
           /\ Leave(op).stage = op.stage /\ Leave(op).flags = op.flags
           /\ Leave(op).after = op.after /\ Leave(op).available = op.available
           /\ \A k, stage : <<k, stage>> \in op.chain => <<0, stage>> \in Leave(op).chain
           /\ \A stage : <<0, stage>> \in op.visible => <<0, stage>> \in Leave(op).visible
<1> DEFINE chain == {0} \X {pair[2] : pair \in op.chain}
           visible == {pair \in op.visible : pair[1] = 0}
           e == [stage |-> op.stage, flags |-> op.flags, at |-> 0, after |-> op.after,
                 chain |-> chain, available |-> op.available, visible |-> visible]
<1>1. Leave(op) = e
  <2>1. Leave(op) = [op EXCEPT !.at = 0, !.chain = chain, !.visible = visible]
    BY DEF Leave
  <2> HIDE DEF chain, visible
  <2> QED
    BY <2>1 DEF IsOp
<1>2. /\ op.at \in Nat /\ op.stage \in Stages \cup {"transition"} /\ op.flags \subseteq Flags
      /\ op.after \subseteq Stages /\ op.chain \subseteq Nat \X Stages
      /\ op.available \in BOOLEAN /\ op.visible \subseteq Nat \X Stages
  BY OpParts
<1>3. chain \in SUBSET (Nat \X Stages)
  <2>1. {pair[2] : pair \in op.chain} \subseteq Stages
    BY <1>2
  <2> QED
    BY <2>1
<1>4. visible \in SUBSET (Nat \X Stages)
  BY <1>2
<1>5. IsOp(e)
  <2> HIDE DEF chain, visible
  <2> QED
    BY <1>2, <1>3, <1>4, OpMade
<1>6. ASSUME NEW k, NEW stage, <<k, stage>> \in op.chain PROVE <<0, stage>> \in chain
  <2>1. <<k, stage>>[2] = stage
    OBVIOUS
  <2>2. stage \in {pair[2] : pair \in op.chain}
    BY <1>6, <2>1
  <2> QED
    BY <2>2
<1>7. ASSUME NEW stage, <<0, stage>> \in op.visible PROVE <<0, stage>> \in visible
  BY <1>7
<1> HIDE DEF chain, visible
<1> QED
  BY <1>1, <1>5, <1>6, <1>7

\* More of an access that is behind is still behind.
LEMMA StillMore ==
    ASSUME NEW image, NEW tr, NEW op, OpStill(image, tr, op), NEW more, MoreOf(op, more)
    PROVE  OpStill(image, tr, more)
<1>1. Wrote(more) <=> Wrote(op)
  BY DEF MoreOf, Wrote
<1> QED
  BY <1>1, Zenon DEF OpStill, MoreOf

\* So is one after a render pass that does not use the cell.
LEMMA StillLeave ==
    ASSUME NEW image, NEW tr, NEW op, OpStill(image, tr, op)
    PROVE  OpStill(image, tr, Leave(op))
<1>1. IsOp(op)
  BY DEF OpStill
<1>2. Wrote(Leave(op)) <=> Wrote(op)
  BY <1>1, LeaveIs DEF Wrote
<1> QED
  BY <1>1, <1>2, LeaveIs, Zenon DEF OpStill

-----------------------------------------------------------------------------
(* Dependencies of a subpass                                                *)

\* Where the dependencies of subpass k come from
Sources(draws, k) ==
    IF PassIsReadOnly(draws) THEN {}
    ELSE KeptBefore(draws, k)
         \cup (IF IsBufferReader(draws, k) THEN {} ELSE BufferReaders(draws, k))

\* All of them lead to the stages of its group.
LEMMA DependenciesLead ==
    ASSUME NEW draws, PassForm(isImage, draws), NEW k, NEW d \in Dependencies(draws, k)
    PROVE  /\ d.dst = GroupStages(draws, k) /\ d.dst \subseteq Stages
           /\ GroupReads(draws, k) => "read" \in d.to
<1>1. \E at, src, from, byRegion : d = Dependency(at, src, from, Group(draws, k), byRegion)
  BY DEF Dependencies, ExternalDependency, InternalDependency
<1>2. PICK at, src, from, byRegion : d = Dependency(at, src, from, Group(draws, k), byRegion)
  BY <1>1
<1>3. /\ d.dst = UNION {StagesOf(draw.access) : draw \in Group(draws, k)}
      /\ d.to = UNION {FlagsOf(draw.access) : draw \in Group(draws, k)}
  BY <1>2 DEF Dependency
<1>4. d.dst = GroupStages(draws, k)
  BY <1>3 DEF GroupStages
<1>5. ASSUME GroupReads(draws, k) PROVE "read" \in d.to
  <2>1. PICK draw \in Group(draws, k) : IsRead(draw.access)
    BY <1>5 DEF GroupReads
  <2>2. "read" \in FlagsOf(draw.access)
    BY <2>1, FlagsAre
  <2> QED
    BY <1>3, <2>1, <2>2
<1> QED
  BY <1>4, <1>5, GroupStagesAre

\* One that meets the access puts the subpass behind it.
LEMMA DependencyOrders ==
    ASSUME NEW draws, PassForm(isImage, draws), NEW k \in Nat, NEW op, IsOp(op),
           NEW d \in Dependencies(draws, k), Meets(op, d), Local(op, d),
           Wrote(op) => MadeAvailable(op, d)
    PROVE  Follows(draws, Enter(op, k, Dependencies(draws, k)), k)
<1> DEFINE deps == Dependencies(draws, k)
           e == Enter(op, k, deps)
<1>1. \A c \in deps : c.dst = GroupStages(draws, k) /\ c.dst \subseteq Stages
                      /\ (GroupReads(draws, k) => "read" \in c.to)
  BY DependenciesLead
<1>2. /\ MoreOf(op, e)
      /\ {k} \X d.dst \subseteq e.chain
      /\ MadeAvailable(op, d) => e.available
      /\ MadeAvailable(op, d) /\ "read" \in d.to => {k} \X d.dst \subseteq e.visible
  <2> HIDE DEF deps
  <2> QED
    BY <1>1, EnterIs DEF deps
<1>3. Wrote(e) => Wrote(op)
  BY <1>2 DEF MoreOf, Wrote
<1> HIDE DEF e
<1> QED
  BY <1>1, <1>2, <1>3, Zenon DEF Follows, e

\* The external dependency does, for what came before the pass.
LEMMA ExternalOrders ==
    ASSUME NEW draws, PassForm(isImage, draws), NEW k \in Nat, NEW op, IsOp(op),
           Wrote(op) => op.available,
           NEW stage \in GraphicsStages, <<0, stage>> \in op.chain
    PROVE  Follows(draws, Enter(op, k, Dependencies(draws, k)), k)
<1> DEFINE d == ExternalDependency(draws, k)
<1>1. d \in Dependencies(draws, k)
  BY DEF Dependencies
<1>2. d.at = 0 /\ GraphicsStages \subseteq d.src /\ d.byRegion = FALSE
  BY DEF ExternalDependency, Dependency
<1>3. Meets(op, d)
  BY <1>2 DEF Meets
<1>4. Local(op, d)
  BY <1>2 DEF Local
<1>5. Wrote(op) => MadeAvailable(op, d)
  BY DEF MadeAvailable
<1> HIDE DEF d
<1> QED
  BY <1>1, <1>3, <1>4, <1>5, DependencyOrders

\* A dependency on a source
LEMMA InternalIs ==
    ASSUME NEW draws, NEW k, NEW i \in Sources(draws, k)
    PROVE  /\ InternalDependency(draws, i, k) \in Dependencies(draws, k)
           /\ InternalDependency(draws, i, k).at = i
           /\ InternalDependency(draws, i, k).src = GroupStages(draws, i)
           /\ GroupWrites(draws, i) => "write" \in InternalDependency(draws, i, k).from
           /\ InternalDependency(draws, i, k).byRegion =>
                  GroupClass(Group(draws, i)) = "AttachmentLocal"
<1> DEFINE d == InternalDependency(draws, i, k)
<1>1. d \in Dependencies(draws, k)
  BY DEF Dependencies, Sources
<1>2. /\ d.at = i /\ d.src = UNION {StagesOf(draw.access) : draw \in Group(draws, i)}
      /\ d.from = UNION {FlagsOf(draw.access) : draw \in Group(draws, i)}
      /\ d.byRegion => GroupClass(Group(draws, i)) = "AttachmentLocal"
  BY DEF InternalDependency, Dependency
<1> HIDE DEF d
<1>3. ASSUME GroupWrites(draws, i) PROVE "write" \in d.from
  <2>1. PICK draw \in Group(draws, i) : IsWrite(draw.access)
    BY <1>3 DEF GroupWrites
  <2>2. "write" \in FlagsOf(draw.access)
    BY <2>1, FlagsAre
  <2> QED
    BY <1>2, <2>1, <2>2
<1> QED
  BY <1>1, <1>2, <1>3 DEF d, GroupStages

\* What is not sampled in an image is never.
LEMMA TiedImage ==
    ASSUME isImage = TRUE, NEW draws, PassForm(isImage, draws), NEW i, NEW k,
           Tied(isImage, draws, i, k)
    PROVE  \E j \in DOMAIN draws : draws[j].access \notin Sampled
<1>1. ASSUME NEW g, GroupWrites(draws, g)
      PROVE  \E j \in DOMAIN draws : draws[j].access \notin Sampled
  <2>1. PICK draw \in Group(draws, g) : IsWrite(draw.access)
    BY <1>1 DEF GroupWrites
  <2>2. PICK j \in DOMAIN draws : draws[j] = draw
    BY GroupDraw
  <2>3. draws[j].access \notin Sampled
    BY <2>1, <2>2, PassAccess, AccessIs
  <2> QED
    BY <2>3
<1> QED
  BY <1>1 DEF Tied

\* A pass with subpasses that are in order is not read-only.
LEMMA TiedPass ==
    ASSUME isImage \in BOOLEAN, NEW draws, PassForm(isImage, draws), NEW i, NEW k,
           Tied(isImage, draws, i, k)
    PROVE  ~PassIsReadOnly(draws)
<1>1. ASSUME NEW j \in DOMAIN draws, IsWrite(draws[j].access)
      PROVE  Class(draws[j]) \notin {"ReadOnlyBuffer", "ReadOnlyImage"}
  <2>1. draws[j].access \notin Sampled
    BY <1>1, PassAccess, AccessIs
  <2> QED
    BY <1>1, <2>1, ClassIs
<1>2. ASSUME NEW j \in DOMAIN draws, isImage, draws[j].access \notin Sampled
      PROVE  Class(draws[j]) \notin {"ReadOnlyBuffer", "ReadOnlyImage"}
  BY <1>2, ClassIs
<1>3. ASSUME NEW g, GroupWrites(draws, g)
      PROVE  \E j \in DOMAIN draws : IsWrite(draws[j].access)
  BY <1>3, GroupDraw DEF GroupWrites
<1>4. \E j \in DOMAIN draws : Class(draws[j]) \notin {"ReadOnlyBuffer", "ReadOnlyImage"}
  BY <1>1, <1>2, <1>3 DEF Tied
<1> QED
  BY <1>4 DEF PassIsReadOnly

\* A subpass that begins comes after the accesses of each earlier one it is tied to.
LEMMA InternalOrders ==
    ASSUME isImage \in BOOLEAN, NEW draws, PassForm(isImage, draws),
           NEW j \in DOMAIN draws, NEW l \in DOMAIN draws, NEW i, NEW m,
           i = SubpassOf(draws, j), m = SubpassOf(draws, l), i < m,
           NEW op, IsOp(op), op.at = i, <<i, op.stage>> \in op.chain,
           op.stage = StageOf(draws[j].access), op.flags = FlagsOf(draws[j].access),
           \A g \in i + 1 .. m - 1 : Tied(isImage, draws, i, g) => Follows(draws, op, g),
           Tied(isImage, draws, i, m)
    PROVE  Follows(draws, Enter(op, m, Dependencies(draws, m)), m)
<1>1. i \in Nat /\ m \in Nat /\ i \in 1 .. m - 1 /\ l \in Nat
  BY SubpassCounts
<1>2. Sources(draws, m) =
          KeptBefore(draws, m)
          \cup (IF IsBufferReader(draws, m) THEN {} ELSE BufferReaders(draws, m))
  BY TiedPass DEF Sources
<1>3. ASSUME NEW g \in i .. m - 1, InternalDependency(draws, g, m).byRegion, g \in Sources(draws, m)
      PROVE  op.stage = "color"
  <2>1. g \in 1 .. SubpassOf(draws, l)
    BY <1>1
  <2>2. PICK p \in 1 .. l : SubpassOf(draws, p) = g
    BY <1>1, <2>1, SubpassHasDraw
  <2>3. p \in DOMAIN draws
    BY PassAccess
  <2>4. Class(draws[p]) = "AttachmentLocal"
    <3>1. GroupClass(Group(draws, g)) = "AttachmentLocal"
      BY <1>3, InternalIs
    <3>2. draws[p] \in Group(draws, g)
      BY <2>2, <2>3, GroupHas
    <3> QED
      BY <3>1, <3>2, GroupClassIs
  <2>5. draws[j].access \in Attached
    BY <2>3, <2>4, ClassIs, PassTells
  <2> QED
    BY <2>5, PassAccess, AccessIs
<1>4. ASSUME i \in Sources(draws, m)
      PROVE  Follows(draws, Enter(op, m, Dependencies(draws, m)), m)
  <2> DEFINE d == InternalDependency(draws, i, m)
  <2>1. d \in Dependencies(draws, m) /\ d.at = i /\ d.src = GroupStages(draws, i)
        /\ (GroupWrites(draws, i) => "write" \in d.from)
    BY <1>4, InternalIs
  <2>2. op.stage \in d.src
    BY <2>1, GroupHas
  <2>3. Meets(op, d)
    BY <2>1, <2>2 DEF Meets
  <2>4. Local(op, d)
    <3>1. i \in i .. m - 1
      BY <1>1
    <3> QED
      BY <1>3, <1>4, <3>1 DEF Local
  <2>5. ASSUME Wrote(op) PROVE MadeAvailable(op, d)
    <3>1. IsWrite(draws[j].access)
      BY <2>5, FlagsAre DEF Wrote
    <3>2. "write" \in d.from
      BY <2>1, <3>1, GroupHas
    <3> QED
      BY <2>1, <2>2, <2>5, <3>2 DEF MadeAvailable
  <2> HIDE DEF d
  <2> QED
    BY <1>1, <2>1, <2>3, <2>4, <2>5, DependencyOrders
<1>5. ASSUME NEW g \in i + 1 .. m - 1, g \in Sources(draws, m), Follows(draws, op, g)
      PROVE  Follows(draws, Enter(op, m, Dependencies(draws, m)), m)
  <2> DEFINE d == InternalDependency(draws, g, m)
  <2>1. d \in Dependencies(draws, m) /\ d.at = g /\ d.src = GroupStages(draws, g)
    BY <1>5, InternalIs
  <2>2. g \in 1 .. SubpassOf(draws, l) /\ g \in i .. m - 1
    BY <1>1
  <2>3. PICK p \in 1 .. l : SubpassOf(draws, p) = g
    BY <1>1, <2>2, SubpassHasDraw
  <2>4. p \in DOMAIN draws
    BY PassAccess
  <2>5. StageOf(draws[p].access) \in GroupStages(draws, g)
    BY <2>3, <2>4, GroupHas
  <2>6. Meets(op, d)
    <3>1. <<g, StageOf(draws[p].access)>> \in op.chain
      BY <1>5, <2>5 DEF Follows
    <3> QED
      BY <2>1, <2>5, <3>1 DEF Meets
  <2>7. Local(op, d)
    BY <1>3, <1>5, <2>2 DEF Local
  <2>8. Wrote(op) => MadeAvailable(op, d)
    BY <1>5 DEF Follows, MadeAvailable
  <2> HIDE DEF d
  <2> QED
    BY <1>1, <2>1, <2>6, <2>7, <2>8, DependencyOrders
<1>6. CASE IsBufferReader(draws, i)
  <2>1. ~isImage /\ ~GroupWrites(draws, i)
    BY <1>6, ReaderGroup
  <2>2. GroupWrites(draws, m)
    BY <2>1 DEF Tied
  <2>3. ~IsBufferReader(draws, m)
    BY <2>2, ReaderGroup
  <2>4. i \in BufferReaders(draws, m)
    BY <1>1, <1>6 DEF BufferReaders
  <2> QED
    BY <1>2, <1>4, <2>3, <2>4
<1>7. CASE ~IsBufferReader(draws, i)
  <2>1. PICK g \in i .. m - 1 : g \in KeptBefore(draws, m)
    BY <1>1, <1>7, KeptSome
  <2>2. g \in Sources(draws, m)
    BY <1>2, <2>1
  <2>3. Tied(isImage, draws, i, g)
    <3>1. CASE isImage = TRUE
      BY <3>1, TiedImage DEF Tied
    <3>2. CASE isImage = FALSE
      <4>1. GroupWrites(draws, i)
        BY <1>7, <3>2, ReaderGroup
      <4> QED
        BY <4>1 DEF Tied
    <3> QED
      BY <3>1, <3>2
  <2>4. g = i \/ g \in i + 1 .. m - 1
    BY <1>1
  <2> QED
    BY <1>4, <1>5, <2>2, <2>3, <2>4
<1> QED
  BY <1>6, <1>7

-----------------------------------------------------------------------------
(* A draw                                                                   *)

\* A subpass that an access is behind of stays so.
LEMMA FollowsMore ==
    ASSUME NEW draws, NEW k, NEW op, Follows(draws, op, k), NEW more, MoreOf(op, more)
    PROVE  Follows(draws, more, k)
<1>1. Wrote(more) <=> Wrote(op)
  BY DEF MoreOf, Wrote
<1> QED
  BY <1>1 DEF Follows, MoreOf

\* The subpass of the next draw begins.
LEMMA EnterMid ==
    ASSUME isImage \in BOOLEAN, NEW draws, PassForm(isImage, draws), NEW n \in Nat,
           n + 1 \in DOMAIN draws, ~draws[n + 1].appended,
           NEW cell, Uses(draws, cell) # {},
           NEW op, OpMid(isImage, draws, n, SubpassOf(draws, n), cell, op),
           NEW m, m = SubpassOf(draws, n + 1)
    PROVE  OpMid(isImage, draws, n, m, cell, Enter(op, m, Dependencies(draws, m)))
<1> DEFINE deps == Dependencies(draws, m)
           e == Enter(op, m, deps)
<1>1. m \in Nat /\ SubpassOf(draws, n) \in Nat /\ m = SubpassOf(draws, n) + 1
      /\ m - 1 = SubpassOf(draws, n)
  BY SubpassSteps
<1>2. IsOp(op) /\ MoreOf(op, e)
  <2>1. \A d \in deps : d.dst \subseteq Stages
    BY DependenciesLead
  <2>2. IsOp(op)
    BY DEF OpMid
  <2> HIDE DEF deps
  <2> QED
    BY <1>1, <2>1, <2>2, EnterIs
<1> HIDE DEF e
<1>3. IsOp(e) /\ e.at = op.at /\ e.stage = op.stage /\ e.flags = op.flags
      /\ op.chain \subseteq e.chain /\ (op.available => e.available) /\ (Wrote(e) => Wrote(op))
      /\ op.at \in Nat
  BY <1>2, OpParts DEF MoreOf, Wrote
<1>4. ASSUME op.at = 0
      PROVE  /\ <<0, StageOf(draws[FirstUse(draws, cell)].access)>> \in e.chain
             /\ Wrote(e) => e.available
             /\ \A k \in 1 .. m : Follows(draws, e, k)
  <2>1. /\ <<0, StageOf(draws[FirstUse(draws, cell)].access)>> \in op.chain
        /\ Wrote(op) => op.available
        /\ \A k \in 1 .. SubpassOf(draws, n) : Follows(draws, op, k)
    BY <1>4 DEF OpMid
  <2>2. StageOf(draws[FirstUse(draws, cell)].access) \in GraphicsStages
    BY UsesAre, PassAccess, DrawIs
  <2>3. Follows(draws, e, m)
    BY <1>1, <1>2, <2>1, <2>2, ExternalOrders DEF e
  <2>4. ASSUME NEW k \in 1 .. m, k # m PROVE Follows(draws, e, k)
    <3>1. k \in 1 .. SubpassOf(draws, n)
      BY <1>1, <2>4
    <3> QED
      BY <1>2, <2>1, <3>1, FollowsMore
  <2> QED
    BY <1>3, <2>1, <2>3, <2>4
<1>5. ASSUME op.at # 0
      PROVE  /\ <<e.at, e.stage>> \in e.chain
             /\ \E j \in 1 .. n : /\ cell \in draws[j].cells
                                  /\ e.at = SubpassOf(draws, j)
                                  /\ e.stage = StageOf(draws[j].access)
                                  /\ e.flags = FlagsOf(draws[j].access)
             /\ \A k \in e.at + 1 .. m : Tied(isImage, draws, e.at, k) => Follows(draws, e, k)
  <2>1. /\ <<op.at, op.stage>> \in op.chain
        /\ \E j \in 1 .. n : /\ cell \in draws[j].cells
                             /\ op.at = SubpassOf(draws, j)
                             /\ op.stage = StageOf(draws[j].access)
                             /\ op.flags = FlagsOf(draws[j].access)
        /\ \A k \in op.at + 1 .. SubpassOf(draws, n) :
               Tied(isImage, draws, op.at, k) => Follows(draws, op, k)
    BY <1>5 DEF OpMid
  <2>2. PICK j \in 1 .. n : /\ cell \in draws[j].cells
                            /\ op.at = SubpassOf(draws, j)
                            /\ op.stage = StageOf(draws[j].access)
                            /\ op.flags = FlagsOf(draws[j].access)
    BY <2>1
  <2>3. j \in DOMAIN draws /\ j \in Nat /\ j <= n
    BY PassAccess
  <2>4. op.at <= SubpassOf(draws, n) /\ op.at < m
    BY <1>1, <1>3, <2>2, <2>3, SubpassMonotone
  <2>5. ASSUME Tied(isImage, draws, op.at, m) PROVE Follows(draws, e, m)
    BY <1>1, <1>2, <2>1, <2>2, <2>3, <2>4, <2>5, InternalOrders DEF e
  <2>6. ASSUME NEW k \in op.at + 1 .. m, k # m, Tied(isImage, draws, op.at, k)
        PROVE  Follows(draws, e, k)
    <3>1. k \in op.at + 1 .. SubpassOf(draws, n)
      BY <1>1, <1>3, <2>6
    <3> QED
      BY <1>2, <2>1, <2>6, <3>1, FollowsMore
  <2> QED
    BY <1>3, <2>1, <2>5, <2>6
<1>6. \A j \in 1 .. n : cell \in draws[j].cells /\ IsWrite(draws[j].access) =>
          e.at >= SubpassOf(draws, j)
  BY <1>3 DEF OpMid
<1> QED
  BY <1>3, <1>4, <1>5, <1>6 DEF OpMid, e

\* Draw n + 1 in its subpass comes after what it conflicts with and sees what was written.
LEMMA AccessMid ==
    ASSUME isImage \in BOOLEAN, NEW draws, PassForm(isImage, draws), NEW n \in Nat,
           n + 1 \in DOMAIN draws, NEW cell, cell \in draws[n + 1].cells,
           NEW m, m = SubpassOf(draws, n + 1),
           NEW op, OpMid(isImage, draws, n, m, cell, op),
           NEW access, access = draws[n + 1].access
    PROVE  /\ Wrote(op) \/ IsWrite(access) => Ordered(op, StageOf(access), m)
           /\ Wrote(op) /\ IsWrite(access) => op.available \/ RasterOrder(op, StageOf(access), m)
           /\ Wrote(op) /\ IsRead(access) => Visible(op, StageOf(access), m)
<1>1. m \in Nat /\ m >= 1 /\ IsOp(op) /\ op.at \in Nat
  BY SubpassCounts, OpParts DEF OpMid
<1>2. /\ StageOf(access) \in GroupStages(draws, m)
      /\ IsRead(access) => GroupReads(draws, m)
      /\ IsWrite(access) => GroupWrites(draws, m)
  BY GroupHas
<1>3. ASSUME Follows(draws, op, m), op.at # m
      PROVE  /\ Ordered(op, StageOf(access), m)
             /\ Wrote(op) => op.available
             /\ Wrote(op) /\ IsRead(access) => Visible(op, StageOf(access), m)
  <2>1. <<m, StageOf(access)>> \in op.chain
    BY <1>2, <1>3 DEF Follows
  <2>2. Wrote(op) /\ IsRead(access) => <<m, StageOf(access)>> \in op.visible
    BY <1>2, <1>3 DEF Follows
  <2>3. Wrote(op) => op.available
    BY <1>3 DEF Follows
  <2> QED
    BY <1>3, <2>1, <2>2, <2>3 DEF Ordered, Visible
<1>4. CASE op.at = 0
  <2>1. Follows(draws, op, m)
    BY <1>1, <1>4 DEF OpMid
  <2> QED
    BY <1>1, <1>3, <1>4, <2>1
<1>5. CASE op.at # 0
  <2>1. PICK j \in 1 .. n : /\ op.at = SubpassOf(draws, j)
                            /\ op.stage = StageOf(draws[j].access)
                            /\ op.flags = FlagsOf(draws[j].access)
    BY <1>5 DEF OpMid
  <2>2. j \in DOMAIN draws /\ j \in Nat /\ j <= n + 1 /\ j # n + 1
    BY PassAccess
  <2>3. op.at <= m
    BY <2>1, <2>2, SubpassMonotone
  <2>4. Wrote(op) <=> IsWrite(draws[j].access)
    BY <2>1, FlagsAre DEF Wrote
  <2>5. Wrote(op) => GroupWrites(draws, op.at)
    BY <2>1, <2>2, <2>4, GroupHas
  <2>6. CASE op.at # m
    <3>1. Wrote(op) \/ IsWrite(access) => Tied(isImage, draws, op.at, m)
      BY <1>2, <2>5 DEF Tied
    <3>2. m \in op.at + 1 .. m
      BY <1>1, <2>3, <2>6
    <3>3. Wrote(op) \/ IsWrite(access) => Follows(draws, op, m)
      BY <1>5, <3>1, <3>2 DEF OpMid
    <3> QED
      BY <1>3, <2>6, <3>3
  <2>7. CASE op.at = m
    <3>1. \/ draws[j].access \in Attached /\ access \in Attached
          \/ draws[j].access \in Reads /\ access \in Reads
      BY <2>1, <2>2, <2>7, SharingDraws
    <3>2. draws[j].access \in Used /\ access \in Used
      BY <2>2, PassAccess
    <3>3. CASE draws[j].access \in Attached /\ access \in Attached
      <4>1. RasterOrder(op, StageOf(access), m)
        BY <1>1, <2>1, <2>7, <3>2, <3>3, AccessIs DEF RasterOrder
      <4> QED
        BY <4>1 DEF Ordered, Visible
    <3>4. CASE draws[j].access \in Reads /\ access \in Reads
      BY <2>4, <3>2, <3>4, AccessIs
    <3> QED
      BY <3>1, <3>3, <3>4
  <2> QED
    BY <2>6, <2>7
<1> QED
  BY <1>4, <1>5

\* An access stays as it is known unless the draw replaces it.
LEMMA KeepMid ==
    ASSUME NEW image, NEW draws, PassForm(image, draws), NEW n \in Nat,
           n + 1 \in DOMAIN draws, NEW cell, NEW m,
           cell \in draws[n + 1].cells => ~IsWrite(draws[n + 1].access),
           NEW op, OpMid(image, draws, n, m, cell, op)
    PROVE  OpMid(image, draws, n + 1, m, cell, op)
<1>1. 1 .. n \subseteq 1 .. n + 1
  OBVIOUS
<1>2. ASSUME NEW j \in 1 .. n + 1, cell \in draws[j].cells, IsWrite(draws[j].access)
      PROVE  op.at >= SubpassOf(draws, j)
  <2>1. j \in 1 .. n
    BY <1>2
  <2> QED
    BY <1>2, <2>1 DEF OpMid
<1>3. /\ IsOp(op)
      /\ op.at = 0 =>
             /\ <<0, StageOf(draws[FirstUse(draws, cell)].access)>> \in op.chain
             /\ Wrote(op) => op.available
             /\ \A k \in 1 .. m : Follows(draws, op, k)
  BY DEF OpMid
<1>4. ASSUME op.at # 0
      PROVE  /\ <<op.at, op.stage>> \in op.chain
             /\ \E j \in 1 .. n + 1 : /\ cell \in draws[j].cells
                                      /\ op.at = SubpassOf(draws, j)
                                      /\ op.stage = StageOf(draws[j].access)
                                      /\ op.flags = FlagsOf(draws[j].access)
             /\ \A k \in op.at + 1 .. m : Tied(image, draws, op.at, k) => Follows(draws, op, k)
  BY <1>1, <1>4 DEF OpMid
<1> QED
  BY <1>2, <1>3, <1>4 DEF OpMid

\* The access of draw n + 1
LEMMA NewMid ==
    ASSUME NEW image, NEW draws, PassForm(image, draws), NEW n \in Nat,
           n + 1 \in DOMAIN draws, NEW cell, cell \in draws[n + 1].cells,
           NEW m, m = SubpassOf(draws, n + 1), NEW access, access = draws[n + 1].access
    PROVE  OpMid(image, draws, n + 1, m, cell, Operation(StageOf(access), FlagsOf(access), m))
<1> DEFINE op == Operation(StageOf(access), FlagsOf(access), m)
<1>1. m \in Nat /\ m >= 1
  BY SubpassCounts
<1>2. op = [stage |-> StageOf(access), flags |-> FlagsOf(access), at |-> m, after |-> {},
            chain |-> {<<m, StageOf(access)>>}, available |-> FALSE, visible |-> {}]
  BY DEF Operation
<1>3. StageOf(access) \in Stages /\ FlagsOf(access) \in SUBSET Flags
  BY PassAccess, AccessIs, FlagsAre
<1>4. IsOp(op)
  <2>1. {} \in SUBSET Stages /\ {} \in SUBSET (Nat \X Stages) /\ FALSE \in BOOLEAN
        /\ {<<m, StageOf(access)>>} \in SUBSET (Nat \X Stages)
        /\ StageOf(access) \in Stages \cup {"transition"}
    BY <1>1, <1>3
  <2> HIDE DEF op
  <2> QED
    BY <1>1, <1>2, <1>3, <2>1, OpMade
<1>5. op.at = m /\ op.stage = StageOf(access) /\ op.flags = FlagsOf(access)
      /\ op.chain = {<<m, StageOf(access)>>}
  BY <1>2
<1> HIDE DEF op
<1>6. \A j \in 1 .. n + 1 : m >= SubpassOf(draws, j)
  BY <1>1, SubpassMonotone, SubpassSteps
<1>7. n + 1 \in 1 .. n + 1
  OBVIOUS
<1>8. \A k : k \notin m + 1 .. m
  BY <1>1
<1> QED
  BY <1>1, <1>4, <1>5, <1>6, <1>7, <1>8 DEF OpMid, op

-----------------------------------------------------------------------------
(* A cell as the device has it                                              *)

\* Its accesses change.
LEMMA PastIs ==
    ASSUME NEW mem, IsMemory(mem), NEW past
    PROVE  /\ IsMemory([mem EXCEPT !.past = past])
           /\ [mem EXCEPT !.past = past].layout = mem.layout
           /\ [mem EXCEPT !.past = past].contents = mem.contents
           /\ [mem EXCEPT !.past = past].past = past
BY DEF IsMemory

\* One is made.
LEMMA AccessMade ==
    ASSUME NEW mem, IsMemory(mem), NEW op
    PROVE  /\ IsMemory(AfterAccess(mem, op))
           /\ AfterAccess(mem, op).layout = mem.layout
           /\ AfterAccess(mem, op).contents = IF Wrote(op) THEN "kept" ELSE mem.contents
           /\ AfterAccess(mem, op).past = IF Wrote(op) THEN {op} ELSE mem.past \cup {op}
<1> DEFINE contents == IF Wrote(op) THEN "kept" ELSE mem.contents
           past == IF Wrote(op) THEN {op} ELSE mem.past \cup {op}
           new == [layout |-> mem.layout, contents |-> contents, past |-> past]
<1>1. mem = [layout |-> mem.layout, contents |-> mem.contents, past |-> mem.past]
      /\ mem.layout \in Layouts /\ mem.contents \in {"unwritten", "kept", "lost"}
  BY DEF IsMemory
<1>2. AfterAccess(mem, op) = [mem EXCEPT !.past = past, !.contents = contents]
  BY DEF AfterAccess
<1>3. AfterAccess(mem, op) = new
  <2> HIDE DEF past, contents
  <2> QED
    BY <1>1, <1>2
<1>4. contents \in {"unwritten", "kept", "lost"}
  BY <1>1
<1>5. IsMemory(new)
  <2> HIDE DEF past, contents
  <2> QED
    BY <1>1, <1>4 DEF IsMemory
<1>6. new.layout = mem.layout /\ new.contents = contents /\ new.past = past
  OBVIOUS
<1> HIDE DEF new
<1> QED
  BY <1>3, <1>5, <1>6

\* An access that comes after what it conflicts with is not wrong, but where readers do not
\* pass on what they see it may miss a write.
LEMMA NoAccessFaults ==
    ASSUME NEW mem, NEW access, NEW stage, NEW place, NEW layout, layout = mem.layout,
           \A op \in mem.past :
               /\ Wrote(op) \/ IsWrite(access) => Ordered(op, stage, place)
               /\ Wrote(op) /\ IsWrite(access) => op.available \/ RasterOrder(op, stage, place)
               /\ Wrote(op) /\ IsRead(access) /\ ReadersPassOn => Visible(op, stage, place),
           IsRead(access) => mem.contents # "lost"
    PROVE  AccessFaults(mem, stage, FlagsOf(access), place, layout)
               \subseteq Tolerated
<1>1. /\ "read" \in FlagsOf(access) <=> IsRead(access)
      /\ "write" \in FlagsOf(access) <=> IsWrite(access)
  BY FlagsAre
<1>2. ~\E op \in {op \in mem.past : Wrote(op) \/ "write" \in FlagsOf(access)} :
           ~Ordered(op, stage, place)
  BY <1>1
<1>3. ~("write" \in FlagsOf(access)
        /\ \E op \in mem.past : /\ Wrote(op) /\ ~op.available
                                /\ ~RasterOrder(op, stage, place))
  BY <1>1
<1>4. ReadersPassOn => ~("read" \in FlagsOf(access)
                         /\ \E op \in mem.past : Wrote(op) /\ ~Visible(op, stage, place))
  BY <1>1
<1>5. ~("read" \in FlagsOf(access) /\ mem.contents = "lost")
  BY <1>1
<1> QED
  BY <1>2, <1>3, <1>4, <1>5 DEF AccessFaults, Tolerated

\* What is still behind stays so with accesses that are.
LEMMA StillPast ==
    ASSUME NEW image, NEW tr, NEW mem, Still(image, tr, mem), NEW past,
           \A op \in past : OpStill(image, tr, op), mem.past = {} => past = {}
    PROVE  Still(image, tr, [mem EXCEPT !.past = past])
<1>1. IsMemory(mem)
  BY DEF Still
<1>2. ASSUME tr = {"Nothing"} PROVE [mem EXCEPT !.past = past] = Untouched
  <2>1. mem = [layout |-> "undefined", contents |-> "unwritten", past |-> {}]
    BY <1>2 DEF Still, Untouched
  <2>2. past = {}
    BY <2>1
  <2> QED
    BY <2>1, <2>2 DEF Untouched
<1> DEFINE new == [mem EXCEPT !.past = past]
<1>3. IsMemory(new) /\ new.layout = mem.layout /\ new.contents = mem.contents /\ new.past = past
  BY <1>1, PastIs
<1> HIDE DEF new
<1> QED
  BY <1>2, <1>3, Zenon DEF Still, new

-----------------------------------------------------------------------------
(* A draw and a cell                                                        *)

\* What the device has when the subpass of draw n + 1 has begun
Begun(draws, n, mem) ==
    IF draws[n + 1].appended THEN mem
    ELSE [mem EXCEPT !.past = {Enter(op, SubpassOf(draws, n + 1),
                                     Dependencies(draws, SubpassOf(draws, n + 1))) : op \in @}]

\* What is known of a cell then
BegunForm(image, draws, n, cell, tr, mem) ==
    LET first == FirstUse(draws, cell) IN
    /\ TrackedMid(image, draws, cell, tr, mem) /\ IsMemory(mem)
    /\ mem.layout = LayoutIn(image, draws[first].access)
    /\ mem.contents = "lost" => n < first /\ ~IsRead(draws[first].access)
    /\ \A op \in mem.past : OpMid(image, draws, n, SubpassOf(draws, n + 1), cell, op)

\* The subpass begins.
LEMMA BegunMid ==
    ASSUME isImage \in BOOLEAN, NEW draws, PassForm(isImage, draws), NEW n \in Nat,
           n + 1 \in DOMAIN draws, NEW cell, Uses(draws, cell) # {}, NEW tr, NEW mem,
           Mid(isImage, draws, n, cell, tr, mem)
    PROVE  BegunForm(isImage, draws, n, cell, tr, Begun(draws, n, mem))
<1> DEFINE m == SubpassOf(draws, n + 1)
           new == Begun(draws, n, mem)
<1>1. IsMemory(mem) /\ \A op \in mem.past :
          OpMid(isImage, draws, n, SubpassOf(draws, n), cell, op)
  BY DEF Mid
<1>2. CASE draws[n + 1].appended
  <2>1. m = SubpassOf(draws, n)
    BY <1>2, SubpassSteps
  <2>2. new = mem
    BY <1>2 DEF Begun
  <2> QED
    BY <2>1, <2>2 DEF Mid, BegunForm
<1>3. CASE ~draws[n + 1].appended
  <2> DEFINE E(op) == Enter(op, m, Dependencies(draws, m))
  <2>1. new = [mem EXCEPT !.past = {E(op) : op \in mem.past}]
    <3>1. new = [mem EXCEPT !.past = {E(op) : op \in @}]
      BY <1>3 DEF Begun
    <3> HIDE DEF E
    <3> QED
      BY <1>1, <3>1 DEF IsMemory
  <2>2. /\ IsMemory(new) /\ new.layout = mem.layout /\ new.contents = mem.contents
        /\ new.past = {E(op) : op \in mem.past}
    <3> HIDE DEF new, E
    <3> QED
      BY <1>1, <2>1, PastIs
  <2>3. \A op \in mem.past : OpMid(isImage, draws, n, m, cell, E(op))
    BY <1>1, <1>3, EnterMid
  <2>4. \A op \in mem.past : Wrote(E(op)) <=> Wrote(op)
    <3>1. ASSUME NEW op \in mem.past PROVE Wrote(E(op)) <=> Wrote(op)
      <4>1. IsOp(op) /\ m \in Nat
        <5>1. n + 1 \in Nat
          OBVIOUS
        <5> QED
          BY <1>1, <5>1, SubpassSteps DEF OpMid
      <4>2. \A d \in Dependencies(draws, m) : d.dst \subseteq Stages
        BY DependenciesLead
      <4>3. MoreOf(op, E(op))
        BY <4>1, <4>2, EnterIs
      <4> QED
        BY <4>3 DEF MoreOf, Wrote
    <3> QED
      BY <3>1
  <2> HIDE DEF new, E
  <2>5. TrackedMid(isImage, draws, cell, tr, new)
    <3>1. (\A op \in mem.past : ~Wrote(op)) => \A op \in new.past : ~Wrote(op)
      BY <2>2, <2>4
    <3>2. TrackedMid(isImage, draws, cell, tr, mem)
      BY DEF Mid
    <3> QED
      BY <3>1, <3>2, Zenon DEF TrackedMid
  <2>6. \A op \in new.past : OpMid(isImage, draws, n, m, cell, op)
    BY <2>2, <2>3
  <2> QED
    BY <2>2, <2>5, <2>6 DEF BegunForm, Mid, new
<1> QED
  BY <1>2, <1>3

\* The draw is in order.
LEMMA DrawFaults ==
    ASSUME isImage \in BOOLEAN, NEW draws, PassForm(isImage, draws), NEW n \in Nat,
           n + 1 \in DOMAIN draws, NEW cell, cell \in draws[n + 1].cells, NEW tr, NEW mem,
           BegunForm(isImage, draws, n, cell, tr, mem)
    PROVE  AccessFaults(mem, StageOf(draws[n + 1].access), FlagsOf(draws[n + 1].access),
                        SubpassOf(draws, n + 1), LayoutOf(draws[n + 1].access))
               \subseteq Tolerated
<1> DEFINE a == draws[n + 1].access
           m == SubpassOf(draws, n + 1)
<1>1. n + 1 \in Uses(draws, cell)
  BY DEF Uses
<1>2. /\ FirstUse(draws, cell) \in DOMAIN draws /\ FirstUse(draws, cell) <= n + 1
      /\ FirstUse(draws, cell) \in Nat
  BY <1>1, UsesAre, PassAccess
<1>3. mem.layout = LayoutOf(a)
  <2>1. LayoutOf(a) = LayoutIn(isImage, a)
    BY LayoutIs
  <2> QED
    BY <1>2, <2>1, PassTells DEF BegunForm
<1>4. IsRead(a) => mem.contents # "lost"
  <2>1. ASSUME mem.contents = "lost" PROVE ~IsRead(a)
    <3>1. n < FirstUse(draws, cell) /\ ~IsRead(draws[FirstUse(draws, cell)].access)
      BY <2>1 DEF BegunForm
    <3>2. FirstUse(draws, cell) = n + 1
      BY <1>2, <3>1
    <3> QED
      BY <3>1, <3>2
  <2> QED
    BY <2>1
<1>5. \A op \in mem.past :
          /\ Wrote(op) \/ IsWrite(a) => Ordered(op, StageOf(a), m)
          /\ Wrote(op) /\ IsWrite(a) => op.available \/ RasterOrder(op, StageOf(a), m)
          /\ Wrote(op) /\ IsRead(a) => Visible(op, StageOf(a), m)
  BY AccessMid DEF BegunForm
<1> HIDE DEF a, m
<1>6. AccessFaults(mem, StageOf(a), FlagsOf(a), m, LayoutOf(a))
          \subseteq Tolerated
  BY <1>3, <1>4, <1>5, NoAccessFaults
<1> QED
  BY <1>6 DEF a, m

\* The draw is made.
LEMMA DrawMid ==
    ASSUME isImage \in BOOLEAN, NEW draws, PassForm(isImage, draws), NEW n \in Nat,
           n + 1 \in DOMAIN draws, NEW cell, Uses(draws, cell) # {}, NEW tr, NEW mem,
           BegunForm(isImage, draws, n, cell, tr, mem),
           NEW new, new = IF cell \in draws[n + 1].cells
                          THEN AfterAccess(mem, Operation(StageOf(draws[n + 1].access),
                                                          FlagsOf(draws[n + 1].access),
                                                          SubpassOf(draws, n + 1)))
                          ELSE mem
    PROVE  Mid(isImage, draws, n + 1, cell, tr, new)
<1> DEFINE a == draws[n + 1].access
           m == SubpassOf(draws, n + 1)
           first == FirstUse(draws, cell)
<1>1. first \in Uses(draws, cell) /\ first \in DOMAIN draws /\ first \in Nat
  BY UsesAre, PassAccess
<1>2. /\ TrackedMid(isImage, draws, cell, tr, mem) /\ IsMemory(mem)
      /\ mem.layout = LayoutIn(isImage, draws[first].access)
      /\ mem.contents = "lost" => n < first /\ ~IsRead(draws[first].access)
      /\ \A op \in mem.past : OpMid(isImage, draws, n, m, cell, op)
  BY DEF BegunForm
<1>3. CASE cell \notin draws[n + 1].cells
  <2>1. new = mem
    BY <1>3
  <2>2. \A op \in mem.past : OpMid(isImage, draws, n + 1, m, cell, op)
    BY <1>2, <1>3, KeepMid
  <2>3. first # n + 1
    BY <1>1, <1>3 DEF Uses
  <2>4. n < first => n + 1 < first
    BY <1>1, <2>3
  <2> QED
    BY <1>2, <2>1, <2>2, <2>4 DEF Mid
<1>4. CASE cell \in draws[n + 1].cells
  <2> DEFINE op == Operation(StageOf(a), FlagsOf(a), m)
  <2>1. op.flags = FlagsOf(a)
    BY DEF Operation
  <2>2. OpMid(isImage, draws, n + 1, m, cell, op)
    BY <1>4, NewMid
  <2>3. Wrote(op) <=> IsWrite(a)
    <3> HIDE DEF op, a
    <3> QED
      BY <2>1, FlagsAre DEF Wrote
  <2>4. new = AfterAccess(mem, op)
    BY <1>4
  <2> HIDE DEF op
  <2>5. /\ IsMemory(new) /\ new.layout = mem.layout
        /\ new.contents = IF Wrote(op) THEN "kept" ELSE mem.contents
        /\ new.past = IF Wrote(op) THEN {op} ELSE mem.past \cup {op}
    BY <1>2, <2>4, AccessMade
  <2>6. ASSUME NEW p \in new.past PROVE OpMid(isImage, draws, n + 1, m, cell, p)
    <3>1. CASE p = op
      BY <2>2, <3>1
    <3>2. CASE p # op
      <4>1. ~IsWrite(a) /\ p \in mem.past
        BY <2>3, <2>5, <2>6, <3>2
      <4>2. OpMid(isImage, draws, n, m, cell, p)
        BY <1>2, <4>1
      <4> QED
        BY <4>1, <4>2, KeepMid
    <3> QED
      BY <3>1, <3>2
  <2>7. new.contents # "lost"
    <3>1. ASSUME mem.contents = "lost" PROVE Wrote(op)
      <4>1. n + 1 \in Uses(draws, cell)
        BY <1>4 DEF Uses
      <4>2. first <= n + 1
        BY <4>1, UsesAre
      <4>3. first = n + 1
        BY <1>1, <1>2, <3>1, <4>2
      <4> QED
        BY <1>2, <2>3, <3>1, <4>3, PassAccess, AccessIs
    <3> QED
      BY <2>5, <3>1
  <2>8. TrackedMid(isImage, draws, cell, tr, new)
    <3>1. ASSUME \A p \in mem.past : ~Wrote(p),
                 \A i \in Uses(draws, cell) : ~IsWrite(draws[i].access)
          PROVE  \A p \in new.past : ~Wrote(p)
      <4>1. n + 1 \in Uses(draws, cell)
        BY <1>4 DEF Uses
      <4>2. ~Wrote(op)
        BY <2>3, <3>1, <4>1
      <4> QED
        BY <2>5, <3>1, <4>2
    <3> QED
      BY <1>2, <3>1, Zenon DEF TrackedMid
  <2> QED
    BY <1>2, <2>5, <2>6, <2>7, <2>8 DEF Mid
<1> QED
  BY <1>3, <1>4

\* A cell that the pass does not use
LEMMA BegunStill ==
    ASSUME NEW draws, PassForm(isImage, draws), NEW n \in Nat, NEW tr, NEW mem,
           Still(isImage, tr, mem)
    PROVE  Still(isImage, tr, Begun(draws, n, mem))
<1> DEFINE m == SubpassOf(draws, n + 1)
           E(op) == Enter(op, m, Dependencies(draws, m))
           past == {E(op) : op \in mem.past}
<1>1. ASSUME NEW op \in mem.past PROVE OpStill(isImage, tr, E(op))
  <2>1. OpStill(isImage, tr, op) /\ IsOp(op) /\ m \in Nat
    BY SubpassSteps DEF Still, OpStill
  <2>2. \A d \in Dependencies(draws, m) : d.dst \subseteq Stages
    BY DependenciesLead
  <2>3. MoreOf(op, E(op))
    BY <2>1, <2>2, EnterIs
  <2> QED
    BY <2>1, <2>3, StillMore
<1>2. ASSUME ~draws[n + 1].appended PROVE Begun(draws, n, mem) = [mem EXCEPT !.past = past]
  <2>1. Begun(draws, n, mem) = [mem EXCEPT !.past = {E(op) : op \in @}]
    BY <1>2 DEF Begun
  <2>2. IsMemory(mem)
    BY DEF Still
  <2> HIDE DEF E
  <2> QED
    BY <2>1, <2>2 DEF IsMemory
<1>3. (\A op \in past : OpStill(isImage, tr, op)) /\ (mem.past = {} => past = {})
  <2> HIDE DEF E
  <2> QED
    BY <1>1
<1>4. Still(isImage, tr, [mem EXCEPT !.past = past])
  <2> HIDE DEF past
  <2> QED
    BY <1>3, StillPast
<1>5. draws[n + 1].appended => Begun(draws, n, mem) = mem
  BY DEF Begun
<1> QED
  BY <1>2, <1>4, <1>5

-----------------------------------------------------------------------------
(* The end of a render pass                                                 *)

\* What a set of one access says
LEMMA OneAccess ==
    ASSUME NEW access
    PROVE  /\ BarrierStages({access}) = StagesOf(access)
           /\ PreviousWrites({access}) <=> IsWrite(access)
BY DEF BarrierStages, PreviousWrites

\* The last use of a cell is in a subpass, and no access to it is from a later one.
LEMMA LastOf ==
    ASSUME NEW image, NEW draws, PassForm(image, draws), NEW cell, Uses(draws, cell) # {},
           NEW l, l = LastUse(draws, cell), NEW n, n = Len(draws),
           NEW op, OpMid(image, draws, n, SubpassOf(draws, n), cell, op)
    PROVE  /\ l \in DOMAIN draws /\ cell \in draws[l].cells /\ l \in 1 .. n
           /\ SubpassOf(draws, l) \in 1 .. SubpassOf(draws, n)
           /\ IsOp(op)
           /\ op.at = 0 =>
                  /\ <<0, StageOf(draws[FirstUse(draws, cell)].access)>> \in op.chain
                  /\ Wrote(op) => op.available
                  /\ Follows(draws, op, SubpassOf(draws, l))
           /\ op.at # 0 /\ op.at < SubpassOf(draws, l)
              /\ Tied(image, draws, op.at, SubpassOf(draws, l)) =>
                  Follows(draws, op, SubpassOf(draws, l))
           /\ IsWrite(draws[l].access) => op.at >= SubpassOf(draws, l)
<1>1. l \in DOMAIN draws /\ cell \in draws[l].cells /\ l \in 1 .. n /\ l \in Nat
      /\ n \in Nat /\ DOMAIN draws = 1 .. n
  BY UsesAre, PassAccess
<1>2. SubpassOf(draws, l) \in 1 .. SubpassOf(draws, n) /\ SubpassOf(draws, n) \in Nat
  <2>1. SubpassOf(draws, l) <= SubpassOf(draws, n)
    BY <1>1, SubpassMonotone
  <2> QED
    BY <1>1, <2>1, SubpassCounts, SubpassSteps
<1>3. IsOp(op) /\ op.at \in Nat
  BY OpParts DEF OpMid
<1>4. ASSUME op.at # 0, op.at < SubpassOf(draws, l), Tied(image, draws, op.at, SubpassOf(draws, l))
      PROVE  Follows(draws, op, SubpassOf(draws, l))
  <2>1. SubpassOf(draws, l) \in op.at + 1 .. SubpassOf(draws, n)
    BY <1>2, <1>3, <1>4
  <2> QED
    BY <1>4, <2>1 DEF OpMid
<1>5. ASSUME op.at = 0
      PROVE  /\ <<0, StageOf(draws[FirstUse(draws, cell)].access)>> \in op.chain
             /\ Wrote(op) => op.available
             /\ Follows(draws, op, SubpassOf(draws, l))
  BY <1>2, <1>5 DEF OpMid
<1>6. IsWrite(draws[l].access) => op.at >= SubpassOf(draws, l)
  BY <1>1 DEF OpMid
<1> QED
  BY <1>1, <1>2, <1>3, <1>4, <1>5, <1>6

\* An access of the pass is that of a draw up to the last use.
LEMMA LastFrom ==
    ASSUME NEW image, NEW draws, PassForm(image, draws), NEW cell, Uses(draws, cell) # {},
           NEW l, l = LastUse(draws, cell), NEW n, n = Len(draws),
           NEW op, OpMid(image, draws, n, SubpassOf(draws, n), cell, op), op.at # 0
    PROVE  \E j \in Uses(draws, cell) :
               /\ j \in DOMAIN draws
               /\ op.at = SubpassOf(draws, j) /\ op.at <= SubpassOf(draws, l)
               /\ op.stage = StageOf(draws[j].access)
               /\ <<op.at, StageOf(draws[j].access)>> \in op.chain
               /\ Wrote(op) <=> IsWrite(draws[j].access)
<1>1. l \in Nat /\ DOMAIN draws = 1 .. n
  BY UsesAre, PassAccess
<1>2. PICK j \in 1 .. n : /\ cell \in draws[j].cells
                          /\ op.at = SubpassOf(draws, j)
                          /\ op.stage = StageOf(draws[j].access)
                          /\ op.flags = FlagsOf(draws[j].access)
  BY DEF OpMid
<1>3. j \in DOMAIN draws /\ j \in Uses(draws, cell) /\ j \in Nat
  BY <1>1, <1>2 DEF Uses
<1>4. j <= l
  BY <1>3, UsesAre
<1>5. op.at <= SubpassOf(draws, l)
  BY <1>1, <1>2, <1>3, <1>4, SubpassMonotone
<1>6. Wrote(op) <=> IsWrite(draws[j].access)
  BY <1>2, FlagsAre DEF Wrote
<1>7. <<op.at, op.stage>> \in op.chain
  BY DEF OpMid
<1> QED
  BY <1>2, <1>3, <1>5, <1>6, <1>7

\* An access that is left behind, with what the next barrier has to find
LEMMA LeaveBehind ==
    ASSUME NEW image, NEW tr, NEW op, IsOp(op),
           \E k, stage : stage \in BarrierStages(tr) /\ <<k, stage>> \in op.chain,
           Wrote(op) => op.available \/ (PreviousWrites(tr) /\ op.stage \in BarrierStages(tr)),
           ~image /\ Wrote(op) => PreviousWrites(tr),
           "ComputeShaderReadSampledImage" \notin tr
    PROVE  OpStill(image, tr, Leave(op))
<1>1. /\ IsOp(Leave(op)) /\ Leave(op).at = 0
      /\ Leave(op).stage = op.stage /\ Leave(op).flags = op.flags
      /\ Leave(op).available = op.available
      /\ \A k, stage : <<k, stage>> \in op.chain => <<0, stage>> \in Leave(op).chain
  BY LeaveIs
<1>2. Wrote(Leave(op)) <=> Wrote(op)
  BY <1>1 DEF Wrote
<1>3. \E stage \in BarrierStages(tr) : <<0, stage>> \in Leave(op).chain
  BY <1>1
<1> QED
  BY <1>1, <1>2, <1>3, Zenon DEF OpStill

\* No draw makes the sampled read of compute shaders.
LEMMA NoComputeDraw ==
    "ComputeShaderReadSampledImage" \notin Draws /\ "General" \notin Draws
    /\ "AnyShaderReadOther" \notin Draws /\ "Nothing" \notin Draws
BY BarriersAssumption DEF Attached

\* An access to a buffer
LEMMA EndBuffer ==
    ASSUME isImage = FALSE, NEW draws, PassForm(isImage, draws), NEW n, n = Len(draws),
           NEW cell, Uses(draws, cell) # {}, NEW tr, NEW mem,
           TrackedMid(isImage, draws, cell, tr, mem), NEW op \in mem.past,
           OpMid(isImage, draws, n, SubpassOf(draws, n), cell, op)
    PROVE  OpStill(isImage, tr, Leave(op))
<1> DEFINE l == LastUse(draws, cell)
           a == draws[l].access
<1>1. l \in DOMAIN draws /\ IsOp(op) /\ a \in Draws /\ a \in Used
  BY LastOf, PassAccess
<1>2. StagesOf(a) = {StageOf(a)} /\ (a \in Reads => ~IsWrite(a)) /\ a \notin ImageOnly
  BY <1>1, AccessIs, PassTells
<1>3. CASE IsWrite(a)
  <2>1. tr = {a}
    BY <1>3 DEF TrackedMid
  <2>2. op.at >= SubpassOf(draws, l) /\ SubpassOf(draws, l) >= 1 /\ SubpassOf(draws, l) \in Nat
    BY <1>1, <1>3, LastOf, SubpassCounts
  <2>3. PICK j \in Uses(draws, cell) :
          /\ j \in DOMAIN draws
          /\ op.at = SubpassOf(draws, j) /\ op.at <= SubpassOf(draws, l)
          /\ op.stage = StageOf(draws[j].access)
          /\ <<op.at, StageOf(draws[j].access)>> \in op.chain
          /\ Wrote(op) <=> IsWrite(draws[j].access)
    BY <2>2, LastFrom
  <2>4. SubpassOf(draws, j) = SubpassOf(draws, l)
    BY <2>2, <2>3, SubpassCounts
  <2>5. j = l
    <3>1. draws[j].access \in Attached => draws[j].access \in ImageOnly
      BY DEF ImageOnly
    <3>2. draws[j].access \notin ImageOnly
      BY <2>3, PassTells
    <3> QED
      BY <1>1, <1>2, <1>3, <2>3, <2>4, <3>1, <3>2, SharingDraws
  <2>6. BarrierStages(tr) = {StageOf(a)} /\ PreviousWrites(tr)
    BY <1>2, <1>3, <2>1, OneAccess
  <2>7. "ComputeShaderReadSampledImage" \notin tr
    BY <1>1, <2>1, NoComputeDraw
  <2> HIDE DEF a
  <2>8. op.stage = StageOf(a) /\ <<op.at, StageOf(a)>> \in op.chain
    BY <2>3, <2>5 DEF a
  <2> QED
    BY <1>1, <2>6, <2>7, <2>8, LeaveBehind
<1>4. CASE ~IsWrite(a)
  <2>1. \/ tr = {"General"}
        \/ tr = {"AnyShaderReadOther"} /\ \A p \in mem.past : ~Wrote(p)
    BY <1>4 DEF TrackedMid
  <2>2. BarrierStages(tr) = Stages /\ (Wrote(op) => PreviousWrites(tr))
        /\ "ComputeShaderReadSampledImage" \notin tr
    BY <2>1, OneAccess, TrackedAre
  <2>3. \E k, stage : stage \in Stages /\ <<k, stage>> \in op.chain
    <3>1. CASE op.at = 0
      <4>1. <<0, StageOf(draws[FirstUse(draws, cell)].access)>> \in op.chain
        BY <3>1, LastOf
      <4> QED
        BY <4>1, UsesAre, PassAccess, AccessIs
    <3>2. CASE op.at # 0
      <4>1. PICK j \in Uses(draws, cell) :
              /\ j \in DOMAIN draws
              /\ op.at = SubpassOf(draws, j) /\ op.at <= SubpassOf(draws, l)
              /\ op.stage = StageOf(draws[j].access)
              /\ <<op.at, StageOf(draws[j].access)>> \in op.chain
              /\ Wrote(op) <=> IsWrite(draws[j].access)
        BY <3>2, LastFrom
      <4> QED
        BY <4>1, PassAccess, AccessIs
    <3> QED
      BY <3>1, <3>2
  <2>4. ASSUME Wrote(op) PROVE op.available \/ op.stage \in Stages
    <3>1. CASE op.at = 0
      BY <2>4, <3>1, LastOf
    <3>2. CASE op.at # 0
      <4>1. PICK j \in Uses(draws, cell) :
              /\ j \in DOMAIN draws
              /\ op.at = SubpassOf(draws, j) /\ op.at <= SubpassOf(draws, l)
              /\ op.stage = StageOf(draws[j].access)
              /\ <<op.at, StageOf(draws[j].access)>> \in op.chain
              /\ Wrote(op) <=> IsWrite(draws[j].access)
        BY <3>2, LastFrom
      <4> QED
        BY <4>1, PassAccess, AccessIs
    <3> QED
      BY <3>1, <3>2
  <2> QED
    BY <1>1, <2>2, <2>3, <2>4, LeaveBehind
<1> QED
  BY <1>3, <1>4

\* An access to an image
LEMMA EndImage ==
    ASSUME isImage = TRUE, NEW draws, PassForm(isImage, draws), NEW n, n = Len(draws),
           NEW cell, Uses(draws, cell) # {}, NEW tr, NEW mem,
           TrackedMid(isImage, draws, cell, tr, mem), NEW op \in mem.past,
           OpMid(isImage, draws, n, SubpassOf(draws, n), cell, op)
    PROVE  OpStill(isImage, tr, Leave(op))
<1> DEFINE l == LastUse(draws, cell)
           a == draws[l].access
<1>1. l \in DOMAIN draws /\ l \in Uses(draws, cell) /\ IsOp(op) /\ a \in Draws /\ a \in Used
  BY LastOf, UsesAre, PassAccess
<1>2. \A i \in DOMAIN draws : draws[i].access \in Sampled <=> a \in Sampled
  BY <1>1, PassTells
<1>3. CASE a \in Sampled
  <2>1. tr = {draws[i].access : i \in Uses(draws, cell)}
    BY <1>3 DEF TrackedMid
  <2>2. ASSUME NEW i \in Uses(draws, cell)
        PROVE  StageOf(draws[i].access) \in BarrierStages(tr) /\ i \in DOMAIN draws
               /\ draws[i].access # "ComputeShaderReadSampledImage"
    <3>1. i \in DOMAIN draws
      BY UsesAre
    <3>2. StageOf(draws[i].access) \in StagesOf(draws[i].access)
      BY <3>1, PassAccess, AccessIs
    <3>3. draws[i].access \in tr
      BY <2>1
    <3> QED
      BY <3>1, <3>2, <3>3, PassAccess, NoComputeDraw DEF BarrierStages
  <2>3. "ComputeShaderReadSampledImage" \notin tr
    BY <2>1, <2>2
  <2>4. \E k, stage : stage \in BarrierStages(tr) /\ <<k, stage>> \in op.chain
    <3>1. CASE op.at = 0
      <4>1. <<0, StageOf(draws[FirstUse(draws, cell)].access)>> \in op.chain
        BY <3>1, LastOf
      <4> QED
        BY <2>2, <4>1, UsesAre
    <3>2. CASE op.at # 0
      <4>1. PICK j \in Uses(draws, cell) :
              /\ j \in DOMAIN draws
              /\ op.at = SubpassOf(draws, j) /\ op.at <= SubpassOf(draws, l)
              /\ op.stage = StageOf(draws[j].access)
              /\ <<op.at, StageOf(draws[j].access)>> \in op.chain
              /\ Wrote(op) <=> IsWrite(draws[j].access)
        BY <3>2, LastFrom
      <4> QED
        BY <2>2, <4>1
    <3> QED
      BY <3>1, <3>2
  <2>5. ASSUME Wrote(op) PROVE op.available
    <3>1. CASE op.at = 0
      BY <2>5, <3>1, LastOf
    <3>2. CASE op.at # 0
      <4>1. PICK j \in Uses(draws, cell) :
              /\ j \in DOMAIN draws
              /\ op.at = SubpassOf(draws, j) /\ op.at <= SubpassOf(draws, l)
              /\ op.stage = StageOf(draws[j].access)
              /\ <<op.at, StageOf(draws[j].access)>> \in op.chain
              /\ Wrote(op) <=> IsWrite(draws[j].access)
        BY <3>2, LastFrom
      <4> QED
        BY <1>2, <1>3, <2>5, <4>1, PassAccess, AccessIs
    <3> QED
      BY <3>1, <3>2
  <2> QED
    BY <1>1, <2>3, <2>4, <2>5, LeaveBehind
<1>4. CASE a \notin Sampled
  <2>1. tr = {a}
    BY <1>4 DEF TrackedMid
  <2>2. BarrierStages(tr) = {StageOf(a)} /\ (PreviousWrites(tr) <=> IsWrite(a))
        /\ "ComputeShaderReadSampledImage" \notin tr
    BY <1>1, <2>1, OneAccess, AccessIs, NoComputeDraw
  <2>3. \A i, k : Tied(isImage, draws, i, k)
    BY <1>1, <1>4 DEF Tied
  <2>4. StageOf(a) \in GroupStages(draws, SubpassOf(draws, l))
    BY <1>1, GroupHas
  <2>5. ASSUME Follows(draws, op, SubpassOf(draws, l)) PROVE OpStill(isImage, tr, Leave(op))
    <3>1. <<SubpassOf(draws, l), StageOf(a)>> \in op.chain
      BY <2>4, <2>5 DEF Follows
    <3>2. Wrote(op) => op.available
      BY <2>5 DEF Follows
    <3> HIDE DEF a
    <3> QED
      BY <1>1, <2>2, <3>1, <3>2, LeaveBehind
  <2>6. CASE op.at = 0
    BY <2>5, <2>6, LastOf
  <2>7. CASE op.at # 0
    <3>1. PICK j \in Uses(draws, cell) :
            /\ j \in DOMAIN draws
            /\ op.at = SubpassOf(draws, j) /\ op.at <= SubpassOf(draws, l)
            /\ op.stage = StageOf(draws[j].access)
            /\ <<op.at, StageOf(draws[j].access)>> \in op.chain
            /\ Wrote(op) <=> IsWrite(draws[j].access)
      BY <2>7, LastFrom
    <3>2. op.at \in Nat /\ SubpassOf(draws, l) \in Nat
      BY <1>1, <3>1, SubpassCounts
    <3>3. CASE op.at < SubpassOf(draws, l)
      BY <2>3, <2>5, <2>7, <3>3, LastOf
    <3>4. CASE op.at = SubpassOf(draws, l)
      <4>1. StageOf(draws[j].access) = StageOf(a) /\ (IsWrite(draws[j].access) => IsWrite(a))
        <5>1. CASE j = l
          BY <5>1
        <5>2. CASE j # l
          <6>1. draws[j].access \in Attached /\ a \in Attached
            BY <1>1, <1>2, <1>4, <3>1, <3>4, <5>2, SharingDraws
          <6> QED
            BY <1>1, <3>1, <6>1, AccessIs, PassAccess
        <5> QED
          BY <5>1, <5>2
      <4> HIDE DEF a
      <4> QED
        BY <1>1, <2>2, <3>1, <4>1, LeaveBehind
    <3>5. op.at < SubpassOf(draws, l) \/ op.at = SubpassOf(draws, l)
      BY <3>1, <3>2
    <3> HIDE DEF l
    <3> QED
      BY <3>3, <3>4, <3>5
  <2> QED
    BY <2>6, <2>7
<1> QED
  BY <1>3, <1>4

\* What a tracker remembers after a pass
LEMMA EndTracked ==
    ASSUME isImage \in BOOLEAN, NEW draws, PassForm(isImage, draws),
           NEW cell, Uses(draws, cell) # {}, NEW tr, NEW mem,
           TrackedMid(isImage, draws, cell, tr, mem)
    PROVE  /\ TrackedForm(isImage, tr) /\ tr # {"Nothing"}
           /\ \A access \in tr :
                  LayoutIn(isImage, access) = LayoutIn(isImage, draws[FirstUse(draws, cell)].access)
<1> DEFINE l == LastUse(draws, cell)
           a == draws[l].access
<1>1. l \in DOMAIN draws /\ FirstUse(draws, cell) \in DOMAIN draws /\ l \in Uses(draws, cell)
  BY UsesAre
<1>2. a \in Draws /\ a \in Used
  BY <1>1, PassAccess
<1>3. \A i \in DOMAIN draws :
          LayoutIn(isImage, draws[i].access)
              = LayoutIn(isImage, draws[FirstUse(draws, cell)].access)
  BY <1>1, PassTells
<1>4. CASE isImage = TRUE
  <2>1. CASE a \in Sampled
    <3>1. tr = {draws[i].access : i \in Uses(draws, cell)}
      BY <1>4, <2>1 DEF TrackedMid
    <3>2. ASSUME NEW access \in tr
          PROVE  /\ access \in Used \cap Sampled
                 /\ LayoutIn(isImage, access) =
                        LayoutIn(isImage, draws[FirstUse(draws, cell)].access)
      <4>1. PICK i \in Uses(draws, cell) : access = draws[i].access
        BY <3>1
      <4>2. i \in DOMAIN draws
        BY UsesAre
      <4> QED
        BY <1>1, <1>3, <2>1, <4>1, <4>2, PassAccess, PassTells
    <3>3. a \in tr
      BY <1>1, <3>1
    <3> HIDE DEF a
    <3>4. tr # {"Nothing"}
      BY <3>2, TrackedAre
    <3>5. tr # {} /\ tr \subseteq Used \cap Sampled
      BY <3>2, <3>3
    <3> QED
      BY <1>4, <3>2, <3>4, <3>5, Zenon DEF TrackedForm
  <2>2. CASE a \notin Sampled
    <3>1. tr = {a}
      BY <1>4, <2>2 DEF TrackedMid
    <3>2. tr # {"Nothing"}
      BY <1>2, <3>1, NoComputeDraw
    <3>3. TrackedForm(isImage, tr)
      BY <1>2, <1>4, <3>1 DEF TrackedForm
    <3> QED
      BY <1>1, <1>3, <3>1, <3>2, <3>3
  <2> QED
    BY <2>1, <2>2
<1>5. CASE isImage = FALSE
  <2>1. tr \in {{a}, {"General"}, {"AnyShaderReadOther"}}
    BY <1>5 DEF TrackedMid
  <2>2. a \notin ImageOnly
    BY <1>1, <1>5, PassTells
  <2>3. TrackedForm(isImage, tr)
    BY <1>2, <1>5, <2>1, <2>2 DEF TrackedForm
  <2>4. tr # {"Nothing"}
    BY <1>2, <2>1, NoComputeDraw
  <2> QED
    BY <1>5, <2>3, <2>4, NoLayout
<1> QED
  BY <1>4, <1>5

\* A cell that the pass used is at rest again.
LEMMA EndMid ==
    ASSUME isImage \in BOOLEAN, NEW draws, PassForm(isImage, draws), NEW n, n = Len(draws),
           NEW cell, Uses(draws, cell) # {}, NEW tr, NEW mem,
           Mid(isImage, draws, n, cell, tr, mem)
    PROVE  Still(isImage, tr, [mem EXCEPT !.past = {Leave(op) : op \in @}])
<1> DEFINE past == {Leave(op) : op \in mem.past}
           new == [mem EXCEPT !.past = past]
<1>1. IsMemory(mem) /\ TrackedMid(isImage, draws, cell, tr, mem)
  BY DEF Mid
<1>2. [mem EXCEPT !.past = {Leave(op) : op \in @}] = new
  BY <1>1 DEF IsMemory
<1>3. IsMemory(new) /\ new.layout = mem.layout /\ new.contents = mem.contents /\ new.past = past
  <2> HIDE DEF past
  <2> QED
    BY <1>1, PastIs
<1>4. ASSUME NEW op \in mem.past PROVE OpStill(isImage, tr, Leave(op))
  <2>1. OpMid(isImage, draws, n, SubpassOf(draws, n), cell, op)
    BY DEF Mid
  <2>2. isImage = TRUE \/ isImage = FALSE
    OBVIOUS
  <2> QED
    BY <1>1, <2>1, <2>2, EndBuffer, EndImage
<1>5. mem.contents # "lost"
  <2>1. FirstUse(draws, cell) \in 1 .. n /\ n \in Nat
    BY UsesAre, PassAccess
  <2>2. ~(n < FirstUse(draws, cell))
    BY <2>1
  <2> QED
    BY <2>2 DEF Mid
<1>6. /\ TrackedForm(isImage, tr) /\ tr # {"Nothing"}
      /\ \A access \in tr :
             LayoutIn(isImage, access) = LayoutIn(isImage, draws[FirstUse(draws, cell)].access)
  BY <1>1, EndTracked
<1>7. mem.layout = LayoutIn(isImage, draws[FirstUse(draws, cell)].access)
  BY DEF Mid
<1>8. \A op \in new.past : OpStill(isImage, tr, op)
  BY <1>3, <1>4
<1> HIDE DEF new
<1> QED
  BY <1>2, <1>3, <1>5, <1>6, <1>7, <1>8 DEF Still

\* One that it did not use still is.
LEMMA EndStill ==
    ASSUME NEW tr, NEW mem, Still(isImage, tr, mem)
    PROVE  Still(isImage, tr, [mem EXCEPT !.past = {Leave(op) : op \in @}])
<1> DEFINE past == {Leave(op) : op \in mem.past}
<1>1. [mem EXCEPT !.past = {Leave(op) : op \in @}] = [mem EXCEPT !.past = past]
  BY DEF Still, IsMemory
<1>2. ASSUME NEW op \in mem.past PROVE OpStill(isImage, tr, Leave(op))
  BY StillLeave DEF Still
<1>3. (\A op \in past : OpStill(isImage, tr, op)) /\ (mem.past = {} => past = {})
  BY <1>2
<1> HIDE DEF past
<1> QED
  BY <1>1, <1>3, StillPast

-----------------------------------------------------------------------------
(* What a tracker remembers of a pass                                       *)

\* A draw is added.
AfterDraw(before, access) ==
    IF isImage THEN AfterImageAccess(before, access)
    ELSE AfterBufferAccess(before, TrackedInPass(access))

\* f is the function that TrackedAfterPass defines by recursion.
IsTracked(f, previous, draws, cell, n) ==
    f = [i \in 0 .. n |->
            IF i = 0 THEN IF isImage THEN {} ELSE previous
            ELSE IF cell \in draws[i].cells THEN AfterDraw(f[i - 1], draws[i].access)
            ELSE f[i - 1]]

\* There is such a function.
LEMMA TrackedExists ==
    ASSUME NEW previous, NEW draws, NEW cell, NEW k \in Nat
    PROVE  \E f : IsTracked(f, previous, draws, cell, k)
<1> DEFINE Step(i, s) == IF cell \in draws[i].cells THEN AfterDraw(s, draws[i].access) ELSE s
           Base == IF isImage THEN {} ELSE previous
           Has(n) == \E f : f = [i \in 0 .. n |-> IF i = 0 THEN Base ELSE Step(i, f[i - 1])]
           T == {n \in Nat : ~Has(n)}
<1>1. Has(k) => \E f : IsTracked(f, previous, draws, cell, k)
  BY Zenon DEF IsTracked
<1> SUFFICES ASSUME k \in T PROVE FALSE
  BY <1>1
<1> HIDE DEF Step, Base
<1>2. PICK n \in T : \A m \in T : n <= m
  <2> HIDE DEF T
  <2> QED
    BY LeastNat DEF T
<1>3. Has(0)
  <2>1. [i \in 0 .. 0 |-> Base] =
            [i \in 0 .. 0 |-> IF i = 0 THEN Base ELSE Step(i, [j \in 0 .. 0 |-> Base][i - 1])]
    OBVIOUS
  <2> QED
    BY <2>1
<1>4. n # 0 /\ n - 1 \in Nat /\ Has(n - 1)
  <2> HIDE DEF Has
  <2>1. n # 0 /\ n \in Nat
    BY <1>2, <1>3
  <2>2. n - 1 \in Nat /\ ~(n <= n - 1)
    BY <2>1
  <2> QED
    BY <1>2, <2>1, <2>2
<1>5. PICK f : f = [i \in 0 .. n - 1 |-> IF i = 0 THEN Base ELSE Step(i, f[i - 1])]
  BY <1>4
<1> DEFINE h == [i \in 0 .. n |-> IF i = n THEN Step(n, f[n - 1]) ELSE f[i]]
<1>6. \A i \in 0 .. n : h[i] = IF i = 0 THEN Base ELSE Step(i, h[i - 1])
  <2>1. n \in Nat /\ n # 0
    BY <1>2, <1>4
  <2>2. \A i \in 0 .. n - 1 : f[i] = IF i = 0 THEN Base ELSE Step(i, f[i - 1])
    BY <1>5, Zenon
  <2>3. h[n] = Step(n, f[n - 1]) /\ \A i \in 0 .. n - 1 : h[i] = f[i]
    BY <2>1
  <2>4. \A i \in 0 .. n : i = n \/ (i \in 0 .. n - 1 /\ (i # 0 => i - 1 \in 0 .. n - 1))
    BY <2>1
  <2>5. n - 1 \in 0 .. n - 1
    BY <2>1
  <2> HIDE DEF h
  <2> QED
    BY <2>1, <2>2, <2>3, <2>4, <2>5
<1>7. h = [i \in 0 .. n |-> IF i = 0 THEN Base ELSE Step(i, h[i - 1])]
  BY <1>6
<1> QED
  BY <1>2, <1>7

\* The steps of the recursion, for a cell that the pass uses
TrackedSteps(f, previous, draws, cell, tr) ==
    /\ f[0] = IF isImage THEN {} ELSE previous
    /\ \A i \in 1 .. Len(draws) :
           f[i] = IF cell \in draws[i].cells THEN AfterDraw(f[i - 1], draws[i].access) ELSE f[i - 1]
    /\ tr = f[Len(draws)]

\* Such steps lead to what a tracker remembers.
LEMMA TrackedFunction ==
    ASSUME NEW previous, NEW draws, PassForm(isImage, draws),
           NEW cell, Uses(draws, cell) # {}
    PROVE  \E f : TrackedSteps(f, previous, draws, cell, TrackedAfterPass(previous, draws, cell))
<1> DEFINE IsF(f) == IsTracked(f, previous, draws, cell, Len(draws))
<1>1. Len(draws) \in Nat
  BY UsesAre, PassAccess
<1>2. \E f : IsF(f)
  BY <1>1, TrackedExists
<1>3. PICK f : f = (CHOOSE g : IsF(g)) /\ IsF(f)
  BY <1>2
<1>4. TrackedAfterPass(previous, draws, cell) = f[Len(draws)]
  BY <1>3, Zenon DEF TrackedAfterPass, IsTracked, AfterDraw
<1>5. \A i \in 0 .. Len(draws) :
          f[i] = IF i = 0 THEN IF isImage THEN {} ELSE previous
                 ELSE IF cell \in draws[i].cells THEN AfterDraw(f[i - 1], draws[i].access)
                 ELSE f[i - 1]
  <2>1. f = [i \in 0 .. Len(draws) |->
                IF i = 0 THEN IF isImage THEN {} ELSE previous
                ELSE IF cell \in draws[i].cells THEN AfterDraw(f[i - 1], draws[i].access)
                ELSE f[i - 1]]
    BY <1>3 DEF IsTracked
  <2> QED
    BY <2>1, Zenon
<1> HIDE DEF IsF
<1>6. 0 \in 0 .. Len(draws) /\ \A i \in 1 .. Len(draws) : i \in 0 .. Len(draws) /\ i # 0
  BY <1>1
<1>7. f[0] = IF isImage THEN {} ELSE previous
  BY <1>5, <1>6, Zenon
<1>8. \A i \in 1 .. Len(draws) :
          f[i] = IF cell \in draws[i].cells THEN AfterDraw(f[i - 1], draws[i].access) ELSE f[i - 1]
  BY <1>5, <1>6, Zenon
<1> QED
  BY <1>4, <1>7, <1>8 DEF TrackedSteps

\* After the last use nothing is added.
LEMMA TrackedLast ==
    ASSUME NEW previous, NEW draws, PassForm(isImage, draws),
           NEW cell, Uses(draws, cell) # {}, NEW f, NEW tr,
           TrackedSteps(f, previous, draws, cell, tr), NEW l, l = LastUse(draws, cell)
    PROVE  tr = AfterDraw(f[l - 1], draws[l].access)
<1>1. l \in DOMAIN draws /\ cell \in draws[l].cells /\ l \in 1 .. Len(draws)
      /\ DOMAIN draws = 1 .. Len(draws) /\ Len(draws) \in Nat /\ l \in Nat
  BY UsesAre, PassAccess
<1>2. f[l] = AfterDraw(f[l - 1], draws[l].access)
  BY <1>1 DEF TrackedSteps
<1> DEFINE T == {i \in Nat : l <= i /\ i <= Len(draws) /\ f[i] # f[l]}
<1>3. ASSUME NEW i \in T, \A j \in T : i <= j PROVE FALSE
  <2>1. i \in Nat /\ l < i /\ i <= Len(draws) /\ i # 0
    BY <1>1, <1>3
  <2>2. f[i - 1] = f[l]
    <3>1. i - 1 \notin T
      BY <1>3, <2>1
    <3> QED
      BY <1>1, <2>1, <3>1
  <2>3. cell \notin draws[i].cells
    <3>1. cell \in draws[i].cells => i \in Uses(draws, cell)
      BY <1>1, <2>1 DEF Uses
    <3>2. i \in Uses(draws, cell) => i <= l
      BY UsesAre
    <3> QED
      BY <1>1, <2>1, <3>1, <3>2
  <2>4. f[i] = f[i - 1]
    BY <1>1, <2>1, <2>3 DEF TrackedSteps
  <2> QED
    BY <1>3, <2>2, <2>4
<1>4. T = {}
  <2>1. T \in SUBSET Nat
    OBVIOUS
  <2> HIDE DEF T
  <2> QED
    BY <1>3, <2>1, LeastNat
<1>5. f[Len(draws)] = f[l]
  BY <1>1, <1>4
<1> QED
  BY <1>2, <1>5 DEF TrackedSteps

\* A buffer does not forget that something was written.
LEMMA TrackedWrites ==
    ASSUME isImage = FALSE, NEW previous, NEW draws, PassForm(isImage, draws),
           NEW cell, Uses(draws, cell) # {}, NEW f, NEW tr,
           TrackedSteps(f, previous, draws, cell, tr),
           NEW k \in 0 .. Len(draws),
           PreviousWrites(previous)
               \/ \E j \in Uses(draws, cell) : j <= k /\ IsWrite(draws[j].access)
    PROVE  PreviousWrites(f[k])
<1> DEFINE W(i) == PreviousWrites(previous)
                       \/ \E j \in Uses(draws, cell) : j <= i /\ IsWrite(draws[j].access)
           T == {i \in Nat : i <= Len(draws) /\ W(i) /\ ~PreviousWrites(f[i])}
<1>1. DOMAIN draws = 1 .. Len(draws) /\ Len(draws) \in Nat
  BY UsesAre, PassAccess
<1>2. ASSUME NEW i \in T, \A j \in T : i <= j PROVE FALSE
  <2>1. i \in Nat /\ i <= Len(draws) /\ W(i) /\ ~PreviousWrites(f[i])
    BY <1>2
  <2>2. i # 0
    <3>1. ASSUME i = 0 PROVE FALSE
      <4>1. \A j \in Uses(draws, cell) : ~(j <= 0)
        BY <1>1 DEF Uses
      <4>2. PreviousWrites(previous)
        BY <2>1, <3>1, <4>1
      <4>3. f[0] = previous
        BY DEF TrackedSteps
      <4> QED
        BY <2>1, <3>1, <4>2, <4>3
    <3> QED
      BY <3>1
  <2>3. i - 1 \in Nat /\ i - 1 <= Len(draws) /\ i \in 1 .. Len(draws) /\ i - 1 \notin T
    BY <1>1, <1>2, <2>1, <2>2
  <2>4. f[i] = IF cell \in draws[i].cells THEN AfterDraw(f[i - 1], draws[i].access) ELSE f[i - 1]
    BY <2>3 DEF TrackedSteps
  <2>5. CASE cell \notin draws[i].cells
    <3>1. \A j \in Uses(draws, cell) : j <= i => j <= i - 1
      BY <1>1, <2>1, <2>5 DEF Uses
    <3>2. W(i - 1)
      BY <2>1, <3>1
    <3>3. PreviousWrites(f[i - 1])
      BY <2>3, <3>2
    <3> QED
      BY <2>1, <2>4, <2>5, <3>3
  <2>6. CASE cell \in draws[i].cells
    <3> DEFINE a == TrackedInPass(draws[i].access)
    <3>1. f[i] = AfterBufferAccess(f[i - 1], a)
      BY <2>4, <2>6 DEF AfterDraw
    <3>2. CASE IsWrite(draws[i].access)
      <4>1. a = draws[i].access
        BY <3>2 DEF TrackedInPass
      <4>2. f[i] = {a}
        BY <3>1, <3>2, <4>1 DEF AfterBufferAccess
      <4> QED
        BY <2>1, <3>2, <4>1, <4>2, OneAccess
    <3>3. CASE ~IsWrite(draws[i].access)
      <4>1. \A j \in Uses(draws, cell) : j <= i /\ IsWrite(draws[j].access) => j <= i - 1
        <5>1. \A j \in Uses(draws, cell) : j \in Nat
          BY <1>1 DEF Uses
        <5> QED
          BY <2>1, <3>3, <5>1
      <4>2. W(i - 1)
        BY <2>1, <4>1
      <4>3. PreviousWrites(f[i - 1])
        BY <2>3, <4>2
      <4>4. a = "AnyShaderReadOther" /\ ~IsWrite(a)
        BY <3>3, TrackedAre DEF TrackedInPass
      <4>5. f[i] = {"General"}
        BY <3>1, <4>3, <4>4 DEF AfterBufferAccess, PreviousWrites
      <4> QED
        BY <2>1, <4>5, OneAccess, TrackedAre
    <3> QED
      BY <3>2, <3>3
  <2> QED
    BY <2>5, <2>6
<1>3. T = {}
  <2>1. T \in SUBSET Nat
    OBVIOUS
  <2> HIDE DEF T
  <2> QED
    BY <1>2, <2>1, LeastNat
<1> QED
  BY <1>1, <1>3

\* An image that is only sampled remembers all its readers.
LEMMA TrackedSampled ==
    ASSUME isImage = TRUE, NEW previous, NEW draws, PassForm(isImage, draws),
           NEW cell, Uses(draws, cell) # {}, NEW f, NEW tr,
           TrackedSteps(f, previous, draws, cell, tr),
           \A j \in DOMAIN draws : draws[j].access \in Sampled
    PROVE  tr = {draws[i].access : i \in Uses(draws, cell)}
<1> DEFINE R(i) == {draws[j].access : j \in {j \in Uses(draws, cell) : j <= i}}
           T == {i \in Nat : i <= Len(draws) /\ f[i] # R(i)}
<1>1. DOMAIN draws = 1 .. Len(draws) /\ Len(draws) \in Nat
      /\ \A j \in Uses(draws, cell) : j \in 1 .. Len(draws) /\ j \in Nat
  BY UsesAre, PassAccess
<1>2. ASSUME NEW i \in T, \A j \in T : i <= j PROVE FALSE
  <2>1. i \in Nat /\ i <= Len(draws) /\ f[i] # R(i)
    BY <1>2
  <2>2. i # 0
    <3>1. R(0) = {}
      BY <1>1
    <3>2. f[0] = {}
      BY DEF TrackedSteps
    <3> QED
      BY <2>1, <3>1, <3>2
  <2>3. i - 1 \in Nat /\ i - 1 <= Len(draws) /\ i \in 1 .. Len(draws) /\ i - 1 \notin T
    BY <1>1, <1>2, <2>1, <2>2
  <2>4. f[i - 1] = R(i - 1)
    BY <2>3
  <2>5. f[i] = IF cell \in draws[i].cells THEN AfterDraw(f[i - 1], draws[i].access) ELSE f[i - 1]
    BY <2>3 DEF TrackedSteps
  <2>6. CASE cell \notin draws[i].cells
    <3>1. i \notin Uses(draws, cell)
      BY <2>6 DEF Uses
    <3>2. {j \in Uses(draws, cell) : j <= i} = {j \in Uses(draws, cell) : j <= i - 1}
      BY <1>1, <2>1, <3>1
    <3> QED
      BY <2>1, <2>4, <2>5, <2>6, <3>2
  <2>7. CASE cell \in draws[i].cells
    <3>1. i \in Uses(draws, cell)
      BY <1>1, <2>3, <2>7 DEF Uses
    <3>2. {j \in Uses(draws, cell) : j <= i} = {j \in Uses(draws, cell) : j <= i - 1} \cup {i}
      <4>1. \A j \in Uses(draws, cell) : j <= i <=> j <= i - 1 \/ j = i
        BY <1>1, <2>1
      <4> QED
        BY <3>1, <4>1
    <3>3. R(i) = R(i - 1) \cup {draws[i].access}
      BY <3>2
    <3>4. R(i) \subseteq Sampled
      BY <1>1
    <3>5. f[i] = AfterImageAccess(f[i - 1], draws[i].access)
      BY <2>5, <2>7 DEF AfterDraw
    <3> HIDE DEF R
    <3>6. f[i] = R(i)
      BY <2>4, <3>3, <3>4, <3>5 DEF AfterImageAccess
    <3> QED
      BY <2>1, <3>6
  <2> QED
    BY <2>6, <2>7
<1>3. T = {}
  <2>1. T \in SUBSET Nat
    OBVIOUS
  <2> HIDE DEF T
  <2> QED
    BY <1>2, <2>1, LeastNat
<1>4. f[Len(draws)] = R(Len(draws))
  BY <1>1, <1>3
<1>5. {j \in Uses(draws, cell) : j <= Len(draws)} = Uses(draws, cell)
  BY <1>1
<1> QED
  BY <1>4, <1>5 DEF TrackedSteps

\* So the tracker says what it has to, before a pass.
LEMMA TrackedBefore ==
    ASSUME isImage \in BOOLEAN, NEW previous, NEW draws, PassForm(isImage, draws),
           NEW cell, Uses(draws, cell) # {}, NEW mem,
           ~isImage /\ ~PreviousWrites(previous) => \A op \in mem.past : ~Wrote(op)
    PROVE  TrackedMid(isImage, draws, cell, TrackedAfterPass(previous, draws, cell), mem)
<1> DEFINE tr == TrackedAfterPass(previous, draws, cell)
           l == LastUse(draws, cell)
           a == draws[l].access
<1>1. PICK f : TrackedSteps(f, previous, draws, cell, tr)
  BY TrackedFunction
<1> HIDE DEF tr
<1>2. tr = AfterDraw(f[l - 1], a)
  BY <1>1, TrackedLast
<1>3. l \in DOMAIN draws /\ l \in Uses(draws, cell) /\ l \in 1 .. Len(draws)
      /\ \A j \in Uses(draws, cell) : j <= l /\ j \in Nat
  BY UsesAre, PassAccess
<1>4. CASE isImage = TRUE
  <2>1. CASE a \in Sampled
    <3>1. \A j \in DOMAIN draws : draws[j].access \in Sampled
      BY <1>3, <2>1, PassTells
    <3>2. tr = {draws[i].access : i \in Uses(draws, cell)}
      BY <1>1, <1>4, <3>1, TrackedSampled
    <3> QED
      BY <1>4, <2>1, <3>2 DEF TrackedMid, tr
  <2>2. CASE a \notin Sampled
    <3>1. tr = {a}
      BY <1>2, <1>4, <2>2 DEF AfterDraw, AfterImageAccess
    <3> QED
      BY <1>4, <2>2, <3>1 DEF TrackedMid, tr
  <2> QED
    BY <2>1, <2>2
<1>5. CASE isImage = FALSE
  <2>1. tr = AfterBufferAccess(f[l - 1], TrackedInPass(a))
    BY <1>2, <1>5 DEF AfterDraw
  <2>2. CASE IsWrite(a)
    <3>1. tr = {a}
      BY <2>1, <2>2 DEF TrackedInPass, AfterBufferAccess
    <3> QED
      BY <1>5, <2>2, <3>1 DEF TrackedMid, tr
  <2>3. CASE ~IsWrite(a)
    <3>1. TrackedInPass(a) = "AnyShaderReadOther" /\ ~IsWrite(TrackedInPass(a))
      BY <2>3, TrackedAre DEF TrackedInPass
    <3>2. CASE PreviousWrites(f[l - 1])
      <4>1. tr = {"General"}
        BY <2>1, <3>1, <3>2 DEF AfterBufferAccess, PreviousWrites
      <4> QED
        BY <1>5, <2>3, <4>1 DEF TrackedMid, tr
    <3>3. CASE ~PreviousWrites(f[l - 1])
      <4>1. tr = {"AnyShaderReadOther"}
        BY <2>1, <3>1, <3>3 DEF AfterBufferAccess, PreviousWrites
      <4>2. l - 1 \in 0 .. Len(draws)
        BY <1>3
      <4>3. ~PreviousWrites(previous)
            /\ ~\E j \in Uses(draws, cell) : j <= l - 1 /\ IsWrite(draws[j].access)
        BY <1>1, <1>5, <3>3, <4>2, TrackedWrites
      <4>4. \A j \in Uses(draws, cell) : ~IsWrite(draws[j].access)
        <5>1. \A j \in Uses(draws, cell) : j = l \/ j <= l - 1
          BY <1>3
        <5> QED
          BY <2>3, <4>3, <5>1
      <4>5. \A op \in mem.past : ~Wrote(op)
        BY <1>5, <4>3
      <4> HIDE DEF a
      <4> QED
        BY <1>5, <2>3, <4>1, <4>4, <4>5, Zenon DEF TrackedMid, tr, a, l
    <3> QED
      BY <3>2, <3>3
  <2> QED
    BY <2>2, <2>3
<1> QED
  BY <1>4, <1>5

-----------------------------------------------------------------------------
(* Barriers before an access                                                *)

\* A barrier from what the tracker remembers to the stages of an access
ScopeFor(tr, access, scope) ==
    /\ scope.at = 0 /\ scope.src = BarrierStages(tr) /\ scope.dst = StagesOf(access)
    /\ PreviousWrites(tr) => "write" \in scope.from

\* An earlier access that the barrier for one has waited for
Waited(access, op) ==
    /\ IsOp(op) /\ op.at = 0
    /\ StageOf(access) \in op.after /\ <<0, StageOf(access)>> \in op.chain
    /\ Wrote(op) => op.available
    /\ Wrote(op) /\ IsRead(access) /\ ReadersPassOn => <<0, StageOf(access)>> \in op.visible

\* All of a cell
AllWaited(access, mem) == IsMemory(mem) /\ \A op \in mem.past : Waited(access, op)

\* No write that the tracker does not know
WritesKnown(tr, mem) == \A op \in mem.past : Wrote(op) => PreviousWrites(tr)

\* The barrier of a buffer is such.
LEMMA BarrierFor ==
    ASSUME NEW tr, NEW access
    PROVE  /\ ScopeFor(tr, access, BufferBarrier(tr, access))
           /\ PreviousWrites(tr) => BufferBarrier(tr, access).to = FlagsOf(access)
           /\ BufferBarrier(tr, access).old = BufferBarrier(tr, access).new
BY DEF ScopeFor, BufferBarrier

\* So is that of an image, with a layout transition.
LayoutFor(tr, access, scope) ==
    /\ ScopeFor(tr, access, scope)
    /\ scope.new = LayoutOf(access) /\ scope.old \in {"undefined", PreviousLayout(tr)}
    /\ tr = {"Nothing"} => scope.old = "undefined"
    /\ ReadersPassOn \/ scope.old # scope.new => scope.to = FlagsOf(access)

\* What is still behind is in the scope of such a barrier.
LEMMA StillMeets ==
    ASSUME NEW image, NEW tr, NEW op, OpStill(image, tr, op),
           NEW access, NEW scope, ScopeFor(tr, access, scope)
    PROVE  Meets(op, scope) /\ (Wrote(op) => MadeAvailable(op, scope))
<1>1. PICK stage \in BarrierStages(tr) : <<0, stage>> \in op.chain
  BY DEF OpStill
<1>2. Meets(op, scope)
  BY <1>1 DEF Meets, ScopeFor
<1>3. ASSUME Wrote(op) PROVE MadeAvailable(op, scope)
  BY <1>3 DEF OpStill, ScopeFor, MadeAvailable
<1> QED
  BY <1>2, <1>3

\* The barrier waits for it.
LEMMA BarrierWaits ==
    ASSUME NEW image, NEW tr, NEW op, OpStill(image, tr, op),
           NEW access \in Used, NEW scopes, \A s \in scopes : s.dst \subseteq Stages,
           NEW scope \in scopes, ScopeFor(tr, access, scope),
           Wrote(op) /\ IsRead(access) /\ ReadersPassOn => "read" \in scope.to
    PROVE  /\ Waited(access, AfterBarriers(op, scopes))
           /\ MoreOf(op, AfterBarriers(op, scopes))
<1> DEFINE e == AfterBarriers(op, scopes)
<1>1. Meets(op, scope) /\ (Wrote(op) => MadeAvailable(op, scope))
  BY StillMeets
<1>2. IsOp(op) /\ op.at = 0
  BY DEF OpStill
<1>3. /\ MoreOf(op, e)
      /\ scope.dst \subseteq e.after /\ {0} \X scope.dst \subseteq e.chain
      /\ MadeAvailable(op, scope) => e.available
      /\ MadeAvailable(op, scope) /\ "read" \in scope.to => {0} \X scope.dst \subseteq e.visible
  BY <1>1, <1>2, BarriersAre
<1>4. StageOf(access) \in scope.dst
  BY AccessIs DEF ScopeFor
<1> HIDE DEF e
<1>5. Wrote(e) => Wrote(op)
  BY <1>3 DEF MoreOf, Wrote
<1>6. IsOp(e) /\ e.at = 0
  BY <1>2, <1>3 DEF MoreOf
<1>7. <<0, StageOf(access)>> \in {0} \X scope.dst
  BY <1>4
<1>8. StageOf(access) \in e.after /\ <<0, StageOf(access)>> \in e.chain
  BY <1>3, <1>4, <1>7
<1>9. Wrote(e) => e.available
  BY <1>1, <1>3, <1>5
<1>10. Wrote(e) /\ IsRead(access) /\ ReadersPassOn => <<0, StageOf(access)>> \in e.visible
  BY <1>1, <1>3, <1>5, <1>7
<1> QED
  BY <1>3, <1>6, <1>8, <1>9, <1>10 DEF Waited, e

\* Barriers without a layout transition
LEMMA PlainScopes ==
    ASSUME NEW mem, IsMemory(mem), NEW scopes, \A s \in scopes : s.old = s.new
    PROVE  /\ AfterScopes(mem, scopes) =
                  [mem EXCEPT !.past = {AfterBarriers(op, scopes) : op \in mem.past}]
           /\ ScopeFaults(mem, scopes) = {}
<1>1. Transitions(scopes) = {}
  BY DEF Transitions
<1> DEFINE B(op) == AfterBarriers(op, scopes)
<1>2. AfterScopes(mem, scopes) = [mem EXCEPT !.past = {B(op) : op \in @}]
  BY <1>1 DEF AfterScopes
<1>3. AfterScopes(mem, scopes) = [mem EXCEPT !.past = {B(op) : op \in mem.past}]
  <2> HIDE DEF B
  <2> QED
    BY <1>2 DEF IsMemory
<1> QED
  BY <1>1, <1>3 DEF ScopeFaults

\* A barrier with one
LEMMA TransitionScope ==
    ASSUME NEW mem, NEW s, s.old # s.new
    PROVE  /\ AfterScopes(mem, {s}) =
                  [layout |-> s.new,
                   contents |-> IF s.old = "undefined" /\ mem.contents = "kept" THEN "lost"
                                ELSE mem.contents,
                   past |-> {Transition(s)}]
           /\ (\A op \in mem.past : Meets(op, s) /\ (Wrote(op) => MadeAvailable(op, s)))
              /\ s.old \in {mem.layout, "undefined"} => ScopeFaults(mem, {s}) = {}
<1>1. Transitions({s}) = {s} /\ (CHOOSE t \in {s} : TRUE) = s
  BY DEF Transitions
<1>2. Transitions({s}) # {}
  BY <1>1
<1>3. AfterScopes(mem, {s}) =
                  [layout |-> s.new,
                   contents |-> IF s.old = "undefined" /\ mem.contents = "kept" THEN "lost"
                                ELSE mem.contents,
                   past |-> {Transition(s)}]
  BY <1>1, <1>2 DEF AfterScopes
<1> QED
  BY <1>1, <1>3 DEF ScopeFaults

\* What a transition is to later accesses
LEMMA TransitionWaited ==
    ASSUME NEW tr, NEW access \in Used, NEW s, ScopeFor(tr, access, s),
           IsRead(access) /\ ReadersPassOn => "read" \in s.to
    PROVE  Waited(access, Transition(s))
<1> DEFINE visible == IF "read" \in s.to THEN {0} \X s.dst ELSE {}
           t == [stage |-> "transition", flags |-> {"write"}, at |-> 0, after |-> s.dst,
                 chain |-> {0} \X s.dst, available |-> TRUE, visible |-> visible]
<1>1. Transition(s) = t
  BY DEF Transition
<1>2. s.dst = {StageOf(access)} /\ StageOf(access) \in Stages
  BY AccessIs DEF ScopeFor
<1>3. {0} \X s.dst = {<<0, StageOf(access)>>} /\ {<<0, StageOf(access)>>} \subseteq Nat \X Stages
  BY <1>2
<1>4. visible \in SUBSET (Nat \X Stages)
  BY <1>3
<1>5. IsOp(t)
  <2>1. /\ "transition" \in Stages \cup {"transition"} /\ {"write"} \in SUBSET Flags /\ 0 \in Nat
        /\ s.dst \in SUBSET Stages /\ {0} \X s.dst \in SUBSET (Nat \X Stages) /\ TRUE \in BOOLEAN
    BY <1>2, <1>3 DEF Flags
  <2> HIDE DEF visible
  <2> QED
    BY <1>4, <2>1, OpMade
<1>6. IsRead(access) /\ ReadersPassOn => <<0, StageOf(access)>> \in visible
  BY <1>3
<1> HIDE DEF visible
<1>7. /\ t.at = 0 /\ t.after = s.dst /\ t.chain = {0} \X s.dst /\ t.available = TRUE
      /\ t.visible = visible
  OBVIOUS
<1> HIDE DEF t
<1> QED
  BY <1>1, <1>2, <1>3, <1>5, <1>6, <1>7 DEF Waited

\* What a tracker of an image tells of its layout
LEMMA StillLayout ==
    ASSUME isImage = TRUE, NEW tr, NEW mem, Still(isImage, tr, mem)
    PROVE  /\ tr # {"Nothing"} => PreviousLayout(tr) = mem.layout /\ mem.layout # "undefined"
           /\ tr = {"Nothing"} => mem.layout = "undefined" /\ mem.contents = "unwritten"
                                  /\ mem.past = {}
<1> DEFINE p == CHOOSE p \in tr : TRUE
<1>1. ASSUME tr # {"Nothing"}
      PROVE  p \in tr /\ p \in Used
  <2>1. tr # {} /\ tr \subseteq Used
    BY <1>1 DEF Still, TrackedForm
  <2> QED
    BY <2>1
<1>2. ASSUME tr # {"Nothing"}
      PROVE  PreviousLayout(tr) = mem.layout /\ mem.layout # "undefined"
  <2>1. PreviousLayout(tr) = LayoutOf(p)
    BY DEF PreviousLayout
  <2> HIDE DEF p
  <2>2. LayoutOf(p) = LayoutIn(isImage, p)
    BY LayoutIs
  <2>3. LayoutIn(TRUE, p) # "undefined"
    BY <1>1, <1>2, LayoutTells
  <2> QED
    BY <1>1, <1>2, <2>1, <2>2, <2>3 DEF Still
<1>3. ASSUME tr = {"Nothing"}
      PROVE  mem.layout = "undefined" /\ mem.contents = "unwritten" /\ mem.past = {}
  BY <1>3 DEF Still, Untouched
<1> QED
  BY <1>2, <1>3

\* A cell of an image after its barrier for an access
ImageReady(tr, access, scope, new) ==
    /\ AllWaited(access, new) /\ new.layout = LayoutOf(access)
    /\ new.contents = "lost" => scope.old = "undefined" /\ tr # {"Nothing"}

\* It is as it has to be for that.
LEMMA ImageWaits ==
    ASSUME isImage = TRUE, NEW tr, NEW mem, Still(isImage, tr, mem), NEW access \in Used,
           NEW s, LayoutFor(tr, access, s)
    PROVE  /\ ScopeFaults(mem, {s}) = {}
           /\ ImageReady(tr, access, s, AfterScopes(mem, {s}))
<1>1. /\ ScopeFor(tr, access, s) /\ s.new = LayoutOf(access)
      /\ s.old \in {"undefined", PreviousLayout(tr)}
      /\ tr = {"Nothing"} => s.old = "undefined"
      /\ ReadersPassOn \/ s.old # s.new => s.to = FlagsOf(access)
  BY DEF LayoutFor
<1> DEFINE new == AfterScopes(mem, {s})
<1> SUFFICES /\ ScopeFaults(mem, {s}) = {}
             /\ IsMemory(new) /\ new.layout = LayoutOf(access)
             /\ new.contents = "lost" => s.old = "undefined" /\ tr # {"Nothing"}
             /\ \A op \in new.past : Waited(access, op)
  BY DEF AllWaited, ImageReady
<1>2. LayoutOf(access) # "undefined" /\ LayoutOf(access) \in Layouts
  BY LayoutIs, LayoutTells
<1>3. IsMemory(mem) /\ mem.contents # "lost" /\ \A op \in mem.past : OpStill(isImage, tr, op)
  BY DEF Still
<1>4. \A op \in mem.past : Meets(op, s) /\ (Wrote(op) => MadeAvailable(op, s))
  BY <1>1, <1>3, StillMeets
<1>5. "read" \in FlagsOf(access) <=> IsRead(access)
  BY FlagsAre
<1>6. CASE s.old = s.new
  <2>1. /\ new = [mem EXCEPT !.past = {AfterBarriers(op, {s}) : op \in mem.past}]
        /\ ScopeFaults(mem, {s}) = {}
    BY <1>3, <1>6, PlainScopes
  <2> HIDE DEF new
  <2>2. /\ IsMemory(new) /\ new.layout = mem.layout /\ new.contents = mem.contents
        /\ new.past = {AfterBarriers(op, {s}) : op \in mem.past}
    <3> DEFINE past == {AfterBarriers(op, {s}) : op \in mem.past}
    <3>1. new = [mem EXCEPT !.past = past]
      BY <2>1
    <3> HIDE DEF past
    <3>2. /\ IsMemory([mem EXCEPT !.past = past])
          /\ [mem EXCEPT !.past = past].layout = mem.layout
          /\ [mem EXCEPT !.past = past].contents = mem.contents
          /\ [mem EXCEPT !.past = past].past = past
      BY <1>3, PastIs
    <3>3. IsMemory(new) /\ new.layout = mem.layout /\ new.contents = mem.contents
          /\ new.past = past
      BY <3>1, <3>2, Zenon
    <3> QED
      BY <3>3 DEF past
  <2>3. mem.layout = LayoutOf(access)
    BY <1>1, <1>2, <1>6, StillLayout
  <2>4. \A t \in {s} : t.dst \subseteq Stages
    BY <1>1, AccessIs DEF ScopeFor
  <2>5. ASSUME NEW op \in mem.past PROVE Waited(access, AfterBarriers(op, {s}))
    <3>1. ReadersPassOn /\ IsRead(access) => "read" \in s.to
      BY <1>1, <1>5
    <3> QED
      BY <1>1, <1>3, <2>4, <3>1, BarrierWaits
  <2> QED
    BY <1>3, <2>1, <2>2, <2>3, <2>5
<1>7. CASE s.old # s.new
  <2>1. s.old \in {mem.layout, "undefined"}
    BY <1>1, StillLayout
  <2>2. ScopeFaults(mem, {s}) = {}
    BY <1>4, <1>7, <2>1, TransitionScope
  <2> DEFINE contents == IF s.old = "undefined" /\ mem.contents = "kept" THEN "lost"
                         ELSE mem.contents
  <2>3. new = [layout |-> s.new, contents |-> contents, past |-> {Transition(s)}]
    BY <1>7, TransitionScope
  <2>4. contents \in {"unwritten", "kept", "lost"}
    BY <1>3 DEF IsMemory
  <2>5. contents = "lost" => s.old = "undefined" /\ tr # {"Nothing"}
    BY <1>1, <1>3, StillLayout
  <2> HIDE DEF contents, new
  <2>6. new.layout = LayoutOf(access) /\ new.contents = contents /\ new.past = {Transition(s)}
    BY <1>1, <2>3
  <2>7. IsMemory(new)
    BY <1>1, <1>2, <2>3, <2>4 DEF IsMemory
  <2>8. Waited(access, Transition(s))
    BY <1>1, <1>5, <1>7, TransitionWaited
  <2> QED
    BY <2>2, <2>5, <2>6, <2>7, <2>8
<1> QED
  BY <1>6, <1>7

\* A cell of a buffer after its barriers for an access
BufferReady(tr, access, mem, new) ==
    /\ AllWaited(access, new) /\ WritesKnown(tr, new)
    /\ new.layout = mem.layout /\ new.contents = mem.contents

\* It is, too.
LEMMA BufferWaits ==
    ASSUME isImage = FALSE, NEW tr, NEW mem, Still(isImage, tr, mem), NEW access \in Used,
           NEW scopes, BufferBarrier(tr, access) \in scopes \/ mem.past = {},
           \A s \in scopes : \E a \in Used : s = BufferBarrier(tr, a)
    PROVE  /\ ScopeFaults(mem, scopes) = {}
           /\ BufferReady(tr, access, mem, AfterScopes(mem, scopes))
<1> DEFINE new == AfterScopes(mem, scopes)
<1>1. \A s \in scopes : s.old = s.new /\ s.dst \subseteq Stages
  BY BarrierFor, AccessIs DEF ScopeFor
<1>2. IsMemory(mem) /\ \A op \in mem.past : OpStill(isImage, tr, op)
  BY DEF Still
<1>3. /\ new = [mem EXCEPT !.past = {AfterBarriers(op, scopes) : op \in mem.past}]
      /\ ScopeFaults(mem, scopes) = {}
  BY <1>1, <1>2, PlainScopes
<1>4. /\ IsMemory(new) /\ new.layout = mem.layout /\ new.contents = mem.contents
      /\ new.past = {AfterBarriers(op, scopes) : op \in mem.past}
  BY <1>2, <1>3, PastIs
<1>5. ASSUME NEW op \in mem.past
      PROVE  /\ Waited(access, AfterBarriers(op, scopes))
             /\ Wrote(AfterBarriers(op, scopes)) => PreviousWrites(tr)
  <2> DEFINE s == BufferBarrier(tr, access)
  <2>1. s \in scopes /\ ScopeFor(tr, access, s)
    BY BarrierFor
  <2>2. Wrote(op) => PreviousWrites(tr)
    BY <1>2 DEF OpStill
  <2>3. Wrote(op) /\ IsRead(access) => "read" \in s.to
    BY <2>2, BarrierFor, FlagsAre
  <2> HIDE DEF s
  <2>4. Waited(access, AfterBarriers(op, scopes)) /\ MoreOf(op, AfterBarriers(op, scopes))
    BY <1>1, <1>2, <2>1, <2>3, BarrierWaits
  <2> QED
    BY <2>2, <2>4 DEF MoreOf, Wrote
<1>6. \A op \in new.past : Waited(access, op) /\ (Wrote(op) => PreviousWrites(tr))
  BY <1>4, <1>5
<1> QED
  BY <1>3, <1>4, <1>6 DEF AllWaited, WritesKnown, BufferReady

-----------------------------------------------------------------------------
(* Before a pass                                                            *)

\* What waits for the first draw of a cell is as the pass needs it.
LEMMA WaitedMid ==
    ASSUME NEW image, NEW draws, NEW cell, NEW op,
           Waited(draws[FirstUse(draws, cell)].access, op)
    PROVE  OpMid(image, draws, 0, SubpassOf(draws, 0), cell, op)
<1>1. SubpassOf(draws, 0) = 0
  BY SubpassSteps
<1>2. (\A k : k \notin 1 .. 0) /\ op.at = 0
  BY DEF Waited
<1> QED
  BY <1>1, <1>2 DEF Waited, OpMid

\* A cell that the pass uses
LEMMA BeginMid ==
    ASSUME isImage \in BOOLEAN, NEW draws, PassForm(isImage, draws),
           NEW cell, Uses(draws, cell) # {}, NEW tr, NEW mem, Still(isImage, tr, mem),
           NEW scopes, scopes = PassBarriers(tr, draws, cell)
    PROVE  /\ ScopeFaults(mem, scopes) = {}
           /\ Mid(isImage, draws, 0, cell, TrackedAfterPass(tr, draws, cell),
                  AfterScopes(mem, scopes))
<1> DEFINE first == FirstUse(draws, cell)
           a == draws[first].access
           new == AfterScopes(mem, scopes)
           trn == TrackedAfterPass(tr, draws, cell)
<1>1. first \in Uses(draws, cell) /\ first \in DOMAIN draws /\ first \in Nat /\ 0 < first
  BY UsesAre, PassAccess
<1>2. a \in Used /\ LayoutOf(a) = LayoutIn(isImage, a)
  BY <1>1, PassAccess, LayoutIs
<1>3. ASSUME AllWaited(a, new), new.layout = LayoutOf(a), new.contents = "lost" => ~IsRead(a),
             isImage \/ WritesKnown(tr, new)
      PROVE  Mid(isImage, draws, 0, cell, trn, new)
  <2>1. TrackedMid(isImage, draws, cell, trn, new)
    <3>1. ~isImage /\ ~PreviousWrites(tr) => \A op \in new.past : ~Wrote(op)
      BY <1>3 DEF WritesKnown
    <3> HIDE DEF new
    <3> QED
      BY <3>1, TrackedBefore
  <2>2. \A op \in new.past : OpMid(isImage, draws, 0, SubpassOf(draws, 0), cell, op)
    BY <1>3, WaitedMid DEF AllWaited
  <2> HIDE DEF new, trn
  <2> QED
    BY <1>1, <1>2, <1>3, <2>1, <2>2 DEF Mid, AllWaited
<1>4. CASE isImage = TRUE
  <2> DEFINE s == ImageBarrier(tr, a, tr = {"Nothing"} \/ ~IsRead(a))
  <2>1. scopes = {s}
    BY <1>1, <1>4 DEF PassBarriers
  <2> HIDE DEF a
  <2>2. LayoutFor(tr, a, s)
    BY DEF LayoutFor, ScopeFor, ImageBarrier
  <2>3. tr # {"Nothing"} /\ IsRead(a) => s.old = PreviousLayout(tr)
    BY DEF ImageBarrier
  <2> HIDE DEF s
  <2>4. ScopeFaults(mem, {s}) = {} /\ ImageReady(tr, a, s, AfterScopes(mem, {s}))
    BY <1>2, <1>4, <2>2, ImageWaits
  <2>5. ImageReady(tr, a, s, new)
    BY <2>1, <2>4
  <2> HIDE DEF s, new, trn
  <2>6. /\ ScopeFaults(mem, {s}) = {}
        /\ AllWaited(a, new) /\ new.layout = LayoutOf(a)
        /\ new.contents = "lost" => s.old = "undefined" /\ tr # {"Nothing"}
    BY <2>4, <2>5 DEF ImageReady
  <2>7. new.contents = "lost" => ~IsRead(a)
    BY <1>4, <2>3, <2>6, StillLayout
  <2>8. Mid(isImage, draws, 0, cell, trn, new)
    BY <1>3, <1>4, <2>6, <2>7
  <2> QED
    BY <2>1, <2>6, <2>8 DEF new, trn
<1>5. CASE isImage = FALSE
  <2> DEFINE I == {i \in Uses(draws, cell) : tr # {"Nothing"} \/ IsWrite(draws[i].access)}
  <2>1. scopes = {BufferBarrier(tr, draws[i].access) : i \in I}
    BY <1>1, <1>5 DEF PassBarriers
  <2>2. BufferBarrier(tr, a) \in scopes \/ mem.past = {}
    <3>1. CASE tr = {"Nothing"}
      BY <3>1 DEF Still, Untouched
    <3>2. CASE tr # {"Nothing"}
      <4>1. first \in I
        BY <1>1, <3>2
      <4> QED
        BY <2>1, <4>1
    <3> QED
      BY <3>1, <3>2
  <2>3. \A s \in scopes : \E b \in Used : s = BufferBarrier(tr, b)
    <3>1. \A i \in I : draws[i].access \in Used
      BY UsesAre, PassAccess
    <3> QED
      BY <2>1, <3>1
  <2> HIDE DEF a, I
  <2>4. ScopeFaults(mem, scopes) = {} /\ BufferReady(tr, a, mem, new)
    BY <1>2, <1>5, <2>2, <2>3, BufferWaits
  <2> HIDE DEF new
  <2>5. /\ ScopeFaults(mem, scopes) = {}
        /\ AllWaited(a, new) /\ WritesKnown(tr, new)
        /\ new.layout = mem.layout /\ new.contents = mem.contents
    BY <2>4 DEF BufferReady
  <2>6. new.layout = LayoutOf(a) /\ new.contents # "lost"
    <3>1. LayoutOf(a) = "undefined"
      BY <1>2, <1>5, NoLayout
    <3>2. mem.layout = "undefined" /\ mem.contents # "lost"
      <4>1. \E b \in tr : TRUE
        BY DEF Still, TrackedForm
      <4> QED
        BY <1>5, <4>1, NoLayout DEF Still
    <3> HIDE DEF new
    <3> QED
      BY <2>5, <3>1, <3>2
  <2> HIDE DEF trn
  <2>7. Mid(isImage, draws, 0, cell, trn, new)
    BY <1>3, <1>5, <2>5, <2>6
  <2> QED
    BY <2>5, <2>7 DEF new, trn
<1> QED
  BY <1>4, <1>5

\* One without barriers
LEMMA NoBarriers ==
    ASSUME NEW image, NEW tr, NEW mem, Still(image, tr, mem)
    PROVE  ScopeFaults(mem, {}) = {} /\ Still(image, tr, AfterScopes(mem, {}))
<1> DEFINE past == {AfterBarriers(op, {}) : op \in mem.past}
<1>1. AfterScopes(mem, {}) = [mem EXCEPT !.past = past] /\ ScopeFaults(mem, {}) = {}
  BY PlainScopes DEF Still
<1>2. ASSUME NEW op \in mem.past PROVE OpStill(image, tr, AfterBarriers(op, {}))
  <2>1. OpStill(image, tr, op) /\ IsOp(op)
    BY DEF Still, OpStill
  <2>2. MoreOf(op, AfterBarriers(op, {}))
    BY <2>1, BarriersAre
  <2> QED
    BY <2>1, <2>2, StillMore
<1>3. (\A op \in past : OpStill(image, tr, op)) /\ (mem.past = {} => past = {})
  BY <1>2
<1> HIDE DEF past
<1> QED
  BY <1>1, <1>3, StillPast

-----------------------------------------------------------------------------
(* An execution outside of a pass                                           *)

\* It finds nothing wrong after its barrier.
LEMMA WaitedFaults ==
    ASSUME NEW mem, NEW access, mem.layout = LayoutOf(access), mem.contents # "lost",
           \A op \in mem.past : Waited(access, op)
    PROVE  AccessFaults(mem, StageOf(access), FlagsOf(access), 0, LayoutOf(access))
               \subseteq Tolerated
<1> DEFINE stage == StageOf(access)
<1>1. ASSUME NEW op \in mem.past
      PROVE  /\ Wrote(op) \/ IsWrite(access) => Ordered(op, stage, 0)
             /\ Wrote(op) /\ IsWrite(access) => op.available \/ RasterOrder(op, stage, 0)
             /\ Wrote(op) /\ IsRead(access) /\ ReadersPassOn => Visible(op, stage, 0)
  <2>1. Waited(access, op)
    OBVIOUS
  <2> QED
    BY <2>1 DEF Waited, Ordered, Visible
<1> HIDE DEF stage
<1>2. AccessFaults(mem, stage, FlagsOf(access), 0, LayoutOf(access))
          \subseteq Tolerated
  BY <1>1, NoAccessFaults
<1> QED
  BY <1>2 DEF stage

\* Its own access, for the next one
LEMMA NewStill ==
    ASSUME NEW image, NEW tr, NEW access \in Used, StageOf(access) \in BarrierStages(tr),
           IsWrite(access) => tr = {access}
    PROVE  /\ OpStill(image, tr, Operation(StageOf(access), FlagsOf(access), 0))
           /\ Wrote(Operation(StageOf(access), FlagsOf(access), 0)) <=> IsWrite(access)
<1> DEFINE op == Operation(StageOf(access), FlagsOf(access), 0)
<1>1. op = [stage |-> StageOf(access), flags |-> FlagsOf(access), at |-> 0, after |-> {},
            chain |-> {<<0, StageOf(access)>>}, available |-> FALSE, visible |-> {}]
  BY DEF Operation
<1>2. /\ op.at = 0 /\ op.stage = StageOf(access) /\ op.flags = FlagsOf(access)
      /\ op.chain = {<<0, StageOf(access)>>}
  BY <1>1
<1>3. IsOp(op)
  <2>1. {} \in SUBSET Stages /\ {} \in SUBSET (Nat \X Stages) /\ FALSE \in BOOLEAN /\ 0 \in Nat
        /\ {<<0, StageOf(access)>>} \in SUBSET (Nat \X Stages)
        /\ StageOf(access) \in Stages \cup {"transition"} /\ FlagsOf(access) \in SUBSET Flags
    BY AccessIs, FlagsAre
  <2> HIDE DEF op
  <2> QED
    BY <1>1, <2>1, OpMade
<1> HIDE DEF op
<1>4. Wrote(op) <=> IsWrite(access)
  BY <1>2, FlagsAre DEF Wrote
<1>5. IsWrite(access) => PreviousWrites(tr) /\ ~(tr \subseteq Sampled)
  BY OneAccess, AccessIs
<1> QED
  BY <1>2, <1>3, <1>4, <1>5 DEF OpStill, op

\* What it waited for, for the next one
LEMMA WaitedStill ==
    ASSUME NEW image, NEW tr, NEW access \in Outside, NEW op, Waited(access, op),
           StageOf(access) \in BarrierStages(tr),
           ~image /\ Wrote(op) => PreviousWrites(tr),
           tr \subseteq Sampled => access \in Sampled
    PROVE  OpStill(image, tr, op)
<1>1. access \in Sampled => StageOf(access) = "compute" /\ IsRead(access)
  BY OutsideIs, AccessIs
<1>2. IsOp(op) /\ op.at = 0 /\ (Wrote(op) => op.available)
      /\ \E stage \in BarrierStages(tr) : <<0, stage>> \in op.chain
  BY DEF Waited
<1>3. ASSUME tr \subseteq Sampled, Wrote(op)
      PROVE  "compute" \in op.after /\ (ReadersPassOn => <<0, "compute">> \in op.visible)
  BY <1>1, <1>3 DEF Waited
<1> QED
  BY <1>2, <1>3 DEF OpStill

\* Its cell, if there was a barrier for it
LEMMA ExecuteWaited ==
    ASSUME isImage \in BOOLEAN, NEW access \in Outside, NEW tr, NEW mem,
           TrackedForm(isImage, tr), tr # {"Nothing"},
           \A a \in tr : mem.layout = LayoutIn(isImage, a),
           mem.layout = LayoutOf(access), mem.contents # "lost", AllWaited(access, mem),
           StageOf(access) \in BarrierStages(tr), IsWrite(access) => tr = {access},
           isImage \/ IsWrite(access) \/ WritesKnown(tr, mem),
           tr \subseteq Sampled => access \in Sampled,
           NEW new, new = AfterAccess(mem, Operation(StageOf(access), FlagsOf(access), 0))
    PROVE  /\ AccessFaults(mem, StageOf(access), FlagsOf(access), 0, LayoutOf(access))
                  \subseteq Tolerated
           /\ Still(isImage, tr, new)
<1> DEFINE op == Operation(StageOf(access), FlagsOf(access), 0)
<1>1. OpStill(isImage, tr, op) /\ (Wrote(op) <=> IsWrite(access))
  BY OutsideIs, NewStill
<1>2. new = AfterAccess(mem, op)
  OBVIOUS
<1> HIDE DEF op
<1>3. /\ IsMemory(new) /\ new.layout = mem.layout
      /\ new.contents = IF Wrote(op) THEN "kept" ELSE mem.contents
      /\ new.past = IF Wrote(op) THEN {op} ELSE mem.past \cup {op}
  <2> DEFINE made == AfterAccess(mem, op)
  <2>1. IsMemory(mem)
    BY DEF AllWaited
  <2>2. /\ IsMemory(made) /\ made.layout = mem.layout
        /\ made.contents = IF Wrote(op) THEN "kept" ELSE mem.contents
        /\ made.past = IF Wrote(op) THEN {op} ELSE mem.past \cup {op}
    BY <2>1, AccessMade
  <2>3. new = made
    BY <1>2
  <2> HIDE DEF made
  <2> QED
    BY <2>2, <2>3, Zenon
<1>4. ASSUME NEW p \in mem.past, ~IsWrite(access) PROVE OpStill(isImage, tr, p)
  <2>1. Waited(access, p) /\ (~isImage /\ Wrote(p) => PreviousWrites(tr))
    BY <1>4 DEF AllWaited, WritesKnown
  <2> QED
    BY <2>1, WaitedStill
<1>5. \A p \in new.past : OpStill(isImage, tr, p)
  BY <1>1, <1>3, <1>4
<1>6. new.contents # "lost"
  BY <1>3
<1>7. Still(isImage, tr, new)
  BY <1>3, <1>5, <1>6 DEF Still
<1> QED
  BY <1>7, WaitedFaults DEF AllWaited

\* A buffer
LEMMA ExecuteBuffer ==
    ASSUME isImage = FALSE, NEW access \in Outside, access \notin ImageOnly,
           NEW tr, NEW mem, Still(isImage, tr, mem),
           NEW before, before = AfterScopes(mem, ExecutionBarriers(tr, access)),
           NEW new, new = AfterAccess(before, Operation(StageOf(access), FlagsOf(access), 0))
    PROVE  /\ ScopeFaults(mem, ExecutionBarriers(tr, access)) = {}
           /\ AccessFaults(before, StageOf(access), FlagsOf(access), 0, LayoutOf(access))
                  \subseteq Tolerated
           /\ Still(isImage, AfterBufferAccess(tr, access), new)
<1> DEFINE trn == AfterBufferAccess(tr, access)
           scopes == ExecutionBarriers(tr, access)
<1>1. access \in Used /\ access # "Nothing" /\ StageOf(access) \in Stages
      /\ StagesOf(access) = {StageOf(access)} /\ (access \in Sampled => access \in ImageOnly)
  BY OutsideIs, AccessIs DEF ImageOnly
<1>2. scopes = {BufferBarrier(tr, access)}
  BY DEF ExecutionBarriers
<1> HIDE DEF scopes
<1>3. /\ ScopeFaults(mem, scopes) = {}
      /\ AllWaited(access, before) /\ WritesKnown(tr, before)
      /\ before.layout = mem.layout /\ before.contents = mem.contents
  <2>1. before = AfterScopes(mem, scopes)
    BY DEF scopes
  <2>2. BufferBarrier(tr, access) \in scopes /\ \A s \in scopes : s = BufferBarrier(tr, access)
    BY <1>2
  <2>3. ScopeFaults(mem, scopes) = {} /\ BufferReady(tr, access, mem, AfterScopes(mem, scopes))
    BY <1>1, <2>2, BufferWaits
  <2>4. BufferReady(tr, access, mem, before)
    BY <2>1, <2>3
  <2> QED
    BY <2>3, <2>4 DEF BufferReady
<1>4. before.layout = LayoutOf(access) /\ before.contents # "lost" /\ before.layout = "undefined"
  <2>1. LayoutOf(access) = "undefined"
    BY LayoutIs, NoLayout
  <2>2. \E b \in tr : TRUE
    BY DEF Still, TrackedForm
  <2>3. mem.layout = "undefined" /\ mem.contents # "lost"
    BY <2>2, NoLayout DEF Still
  <2> QED
    BY <1>3, <2>1, <2>3
<1>5. \/ trn = {"General"} /\ ~IsWrite(access)
      \/ trn = {access} /\ (IsWrite(access) \/ ~PreviousWrites(tr))
  BY DEF AfterBufferAccess, PreviousWrites
<1> HIDE DEF trn
<1>6. TrackedForm(isImage, trn) /\ trn # {"Nothing"}
      /\ (\A a \in trn : before.layout = LayoutIn(isImage, a))
  <2>1. \A a \in trn : LayoutIn(isImage, a) = "undefined"
    BY NoLayout
  <2>2. TrackedForm(isImage, trn) /\ trn # {"Nothing"}
    BY <1>1, <1>5 DEF TrackedForm
  <2> QED
    BY <1>4, <2>1, <2>2
<1>7. /\ StageOf(access) \in BarrierStages(trn) /\ (IsWrite(access) => trn = {access})
      /\ ~(trn \subseteq Sampled)
      /\ IsWrite(access) \/ WritesKnown(trn, before)
  <2>1. CASE trn = {"General"} /\ ~IsWrite(access)
    BY <1>1, <2>1, OneAccess, TrackedAre DEF WritesKnown
  <2>2. CASE trn = {access} /\ (IsWrite(access) \/ ~PreviousWrites(tr))
    BY <1>1, <1>3, <2>2, OneAccess DEF WritesKnown
  <2> QED
    BY <1>5, <2>1, <2>2
<1>8. isImage \in BOOLEAN
  OBVIOUS
<1>9. /\ AccessFaults(before, StageOf(access), FlagsOf(access), 0, LayoutOf(access))
             \subseteq Tolerated
      /\ Still(isImage, trn, new)
  BY <1>3, <1>4, <1>6, <1>7, <1>8, ExecuteWaited
<1> QED
  BY <1>3, <1>9 DEF trn, scopes

\* Sampled accesses have one layout.
LEMMA SampledLayout ==
    ASSUME NEW a \in Sampled
    PROVE  LayoutIn(TRUE, a) = "sampled"
BY DEF LayoutIn, Sampled, Attached

\* An image, with a barrier
LEMMA ExecuteImage ==
    ASSUME isImage = TRUE, NEW access \in Outside,
           NEW tr, NEW mem, Still(isImage, tr, mem), ~CanElideSampledRead(tr, access),
           NEW before, before = AfterScopes(mem, ExecutionBarriers(tr, access)),
           NEW new, new = AfterAccess(before, Operation(StageOf(access), FlagsOf(access), 0))
    PROVE  /\ ScopeFaults(mem, ExecutionBarriers(tr, access)) = {}
           /\ AccessFaults(before, StageOf(access), FlagsOf(access), 0, LayoutOf(access))
                  \subseteq Tolerated
           /\ Still(isImage, AfterImageAccess(tr, access), new)
<1> DEFINE trn == AfterImageAccess(tr, access)
           s == ImageBarrier(tr, access, tr = {"Nothing"})
<1>1. access \in Used /\ access # "Nothing" /\ StageOf(access) \in Stages
      /\ StagesOf(access) = {StageOf(access)}
      /\ (access \in Sampled => ~IsWrite(access))
  BY OutsideIs, AccessIs
<1>2. ExecutionBarriers(tr, access) = {s}
  BY DEF ExecutionBarriers
<1>3. LayoutFor(tr, access, s)
  BY DEF LayoutFor, ScopeFor, ImageBarrier
<1>4. tr # {"Nothing"} => s.old = PreviousLayout(tr)
  BY DEF ImageBarrier
<1> HIDE DEF s
<1>5. /\ ScopeFaults(mem, {s}) = {}
      /\ AllWaited(access, before) /\ before.layout = LayoutOf(access)
      /\ before.contents # "lost"
  <2>1. before = AfterScopes(mem, {s})
    BY <1>2
  <2>2. ScopeFaults(mem, {s}) = {} /\ ImageReady(tr, access, s, AfterScopes(mem, {s}))
    BY <1>1, <1>3, ImageWaits
  <2>3. ImageReady(tr, access, s, before)
    BY <2>1, <2>2
  <2>4. before.contents # "lost"
    BY <1>4, <2>3, StillLayout DEF ImageReady
  <2> QED
    BY <2>2, <2>3, <2>4 DEF ImageReady
<1>6. \/ trn = tr \cup {access} /\ tr \cup {access} \subseteq Sampled
      \/ trn = {access}
  BY DEF AfterImageAccess
<1>7. LayoutOf(access) = LayoutIn(isImage, access)
  BY LayoutIs
<1> HIDE DEF trn
<1>8. TrackedForm(isImage, trn) /\ trn # {"Nothing"}
      /\ (\A a \in trn : before.layout = LayoutIn(isImage, a))
      /\ StageOf(access) \in BarrierStages(trn) /\ (IsWrite(access) => trn = {access})
      /\ (trn \subseteq Sampled => access \in Sampled)
  <2>1. CASE trn = {access}
    <3>1. TrackedForm(isImage, trn)
      BY <1>1, <2>1 DEF TrackedForm
    <3> QED
      BY <1>1, <1>5, <1>7, <2>1, <3>1, OneAccess
  <2>2. CASE trn = tr \cup {access} /\ tr \cup {access} \subseteq Sampled
    <3>1. tr \subseteq Used
      <4>1. tr # {"Nothing"} /\ tr # {"General"}
        BY <2>2, TrackedAre
      <4> QED
        BY <4>1 DEF Still, TrackedForm
    <3>2. TrackedForm(isImage, trn) /\ trn # {"Nothing"}
      <4>1. trn # {} /\ trn \subseteq Used \cap Sampled
        BY <1>1, <2>2, <3>1
      <4> QED
        BY <4>1, TrackedAre DEF TrackedForm
    <3>3. \A a \in trn : LayoutIn(isImage, a) = "sampled"
      BY <2>2, SampledLayout
    <3>4. before.layout = "sampled"
      BY <1>5, <1>7, <2>2, SampledLayout
    <3>5. StageOf(access) \in BarrierStages(trn)
      BY <1>1, <2>2 DEF BarrierStages
    <3> QED
      BY <1>1, <2>2, <3>2, <3>3, <3>4, <3>5
  <2> QED
    BY <1>6, <2>1, <2>2
<1>9. isImage \in BOOLEAN
  OBVIOUS
<1>10. /\ AccessFaults(before, StageOf(access), FlagsOf(access), 0, LayoutOf(access))
              \subseteq Tolerated
       /\ Still(isImage, trn, new)
  BY <1>5, <1>8, <1>9, ExecuteWaited
<1> QED
  BY <1>2, <1>5, <1>10 DEF trn

\* A sampled read without one
LEMMA ExecuteElided ==
    ASSUME isImage = TRUE, NEW access \in Outside,
           NEW tr, NEW mem, Still(isImage, tr, mem), CanElideSampledRead(tr, access),
           NEW before, before = AfterScopes(mem, ExecutionBarriers(tr, access)),
           NEW new, new = AfterAccess(before, Operation(StageOf(access), FlagsOf(access), 0))
    PROVE  /\ ScopeFaults(mem, ExecutionBarriers(tr, access)) = {}
           /\ AccessFaults(before, StageOf(access), FlagsOf(access), 0, LayoutOf(access))
                  \subseteq Tolerated
           /\ Still(isImage, AfterImageAccess(tr, access), new)
<1>1. tr \subseteq Sampled /\ access \in tr /\ access \in Sampled
  BY DEF CanElideSampledRead
<1>2. /\ access \in Used /\ access = "ComputeShaderReadSampledImage"
      /\ StageOf(access) = "compute" /\ ~IsWrite(access)
      /\ StagesOf(access) = {StageOf(access)}
  BY <1>1, OutsideIs, AccessIs
<1>3. ExecutionBarriers(tr, access) = {}
  BY DEF ExecutionBarriers
<1>4. ScopeFaults(mem, {}) = {} /\ Still(isImage, tr, before)
  BY <1>3, NoBarriers
<1>5. AfterImageAccess(tr, access) = tr
  BY <1>1 DEF AfterImageAccess
<1> DEFINE op == Operation(StageOf(access), FlagsOf(access), 0)
<1>6. StageOf(access) \in BarrierStages(tr)
  BY <1>1, <1>2 DEF BarrierStages
<1>7. OpStill(isImage, tr, op) /\ ~Wrote(op)
  BY <1>2, <1>6, NewStill
<1> HIDE DEF op
<1>8. IsMemory(before) /\ before.contents # "lost" /\ tr # {"Nothing"}
      /\ \A p \in before.past : OpStill(isImage, tr, p)
  BY <1>1, <1>2, <1>4, TrackedAre DEF Still
<1>9. /\ IsMemory(new) /\ new.layout = before.layout /\ new.contents = before.contents
      /\ new.past = before.past \cup {op}
  BY <1>7, <1>8, AccessMade DEF op
<1>10. \A p \in new.past : OpStill(isImage, tr, p)
  BY <1>7, <1>8, <1>9
<1>11. Still(isImage, tr, new)
  BY <1>4, <1>8, <1>9, <1>10 DEF Still
<1>12. before.layout = LayoutOf(access)
  BY <1>1, <1>4, LayoutIs DEF Still
<1> DEFINE stage == StageOf(access)
<1>13. ASSUME NEW p \in before.past
       PROVE  /\ Wrote(p) \/ IsWrite(access) => Ordered(p, stage, 0)
              /\ Wrote(p) /\ IsWrite(access) => p.available \/ RasterOrder(p, stage, 0)
              /\ Wrote(p) /\ IsRead(access) /\ ReadersPassOn => Visible(p, stage, 0)
  <2>1. Wrote(p) => "compute" \in p.after /\ (ReadersPassOn => <<0, "compute">> \in p.visible)
    BY <1>1, <1>2, <1>8 DEF OpStill
  <2> QED
    BY <1>2, <2>1 DEF Ordered, Visible
<1> HIDE DEF stage
<1>14. AccessFaults(before, stage, FlagsOf(access), 0, LayoutOf(access))
           \subseteq Tolerated
  BY <1>8, <1>12, <1>13, NoAccessFaults
<1> QED
  BY <1>3, <1>4, <1>5, <1>11, <1>14 DEF stage

-----------------------------------------------------------------------------
(* Steps                                                                    *)

\* What is known of a cell includes its types.
LEMMA CellTypes ==
    ASSUME NEW image, NEW draws, PassForm(image, draws), NEW n, NEW cell, NEW tr, NEW mem,
           CellForm(image, draws, n, cell, tr, mem)
    PROVE  /\ tr \in (SUBSET Accesses) \ {{}}
           /\ mem.layout \in Layouts /\ mem.contents \in {"unwritten", "kept", "lost"}
<1>1. {"Nothing", "General", "AnyShaderReadOther"} \subseteq Accesses
  BY DEF Accesses, Reads, ReadWrites
<1>2. Used \subseteq Accesses
  BY AccessIs
<1>3. CASE Uses(draws, cell) = {}
  <2>1. Still(image, tr, mem)
    BY <1>3 DEF CellForm
  <2>2. TrackedForm(image, tr) /\ IsMemory(mem)
    BY <2>1 DEF Still
  <2> QED
    BY <1>1, <1>2, <2>2 DEF TrackedForm, IsMemory
<1>4. CASE Uses(draws, cell) # {}
  <2>1. TrackedMid(image, draws, cell, tr, mem) /\ IsMemory(mem)
    BY <1>4 DEF CellForm, Mid
  <2>2. /\ LastUse(draws, cell) \in Uses(draws, cell)
        /\ \A i \in Uses(draws, cell) : draws[i].access \in Accesses
    BY <1>2, <1>4, UsesAre, PassAccess
  <2>3. tr \in (SUBSET Accesses) \ {{}}
    <3>1. \/ tr = {draws[i].access : i \in Uses(draws, cell)}
          \/ tr = {draws[LastUse(draws, cell)].access}
          \/ tr \in {{"General"}, {"AnyShaderReadOther"}}
      BY <2>1 DEF TrackedMid
    <3> QED
      BY <1>1, <2>2, <3>1
  <2> QED
    BY <2>1, <2>3 DEF IsMemory
<1> QED
  BY <1>3, <1>4

\* The forms agree on a cell outside of a pass.
LEMMA OutsidePass ==
    ASSUME NEW image
    PROVE  /\ PassForm(image, <<>>)
           /\ \A n, cell, tr, mem :
                  CellForm(image, <<>>, n, cell, tr, mem) <=> Still(image, tr, mem)
BY DEF PassForm, CellForm, Uses

\* An execution outside of a pass, for each cell
LEMMA ExecuteCell ==
    ASSUME isImage \in BOOLEAN, NEW access \in Outside, Suits(access), NEW cell, NEW cells,
           NEW tr, NEW mem, Still(isImage, tr, mem),
           NEW scopes, scopes = IF cell \in cells THEN ExecutionBarriers(tr, access) ELSE {},
           NEW before, before = AfterScopes(mem, scopes),
           NEW new, new = IF cell \in cells
                          THEN AfterAccess(before, Operation(StageOf(access), FlagsOf(access), 0))
                          ELSE before,
           NEW trn, trn = IF cell \notin cells THEN tr
                          ELSE IF isImage THEN AfterImageAccess(tr, access)
                          ELSE AfterBufferAccess(tr, access)
    PROVE  /\ ScopeFaults(mem, scopes) = {}
           /\ cell \in cells =>
                  AccessFaults(before, StageOf(access), FlagsOf(access), 0, LayoutOf(access))
                      \subseteq Tolerated
           /\ Still(isImage, trn, new)
<1>1. CASE cell \notin cells
  BY <1>1, NoBarriers
<1>2. CASE cell \in cells /\ isImage = FALSE
  <2>1. access \notin ImageOnly
    BY <1>2 DEF Suits
  <2> QED
    BY <1>2, <2>1, ExecuteBuffer
<1>3. CASE cell \in cells /\ isImage = TRUE /\ CanElideSampledRead(tr, access)
  BY <1>3, ExecuteElided
<1>4. CASE cell \in cells /\ isImage = TRUE /\ ~CanElideSampledRead(tr, access)
  BY <1>4, ExecuteImage
<1> QED
  BY <1>1, <1>2, <1>3, <1>4

\* A whole execution keeps the invariant: no barrier and no access is wrong in any cell.
LEMMA ExecuteStep ==
    ASSUME BarriersInv, NEW access \in Outside, Suits(access), NEW cells \in Ranges,
           Execute(access, cells)
    PROVE  BarriersInv'
<1> USE DEF BarriersInv
<1>1. isImage \in BOOLEAN /\ pass = <<>> /\ drawn = 0
  BY DEF Bounds, Execute
<1> DEFINE B(cell) == IF cell \in cells THEN ExecutionBarriers(tracked[cell], access) ELSE {}
           barriers == [cell \in Cells |-> B(cell)]
           before(cell) == AfterScopes(memory[cell], B(cell))
           op == Operation(StageOf(access), FlagsOf(access), 0)
<1>2. ASSUME NEW cell \in Cells
      PROVE  /\ ScopeFaults(memory[cell], B(cell)) = {}
             /\ cell \in cells =>
                    AccessFaults(before(cell), StageOf(access), FlagsOf(access), 0,
                                 LayoutOf(access)) \subseteq Tolerated
             /\ Still(isImage, tracked'[cell], memory'[cell])
  <2>1. Still(isImage, tracked[cell], memory[cell])
    BY <1>1, OutsidePass DEF CellsForm
  <2>2. memory'[cell] = IF cell \in cells THEN AfterAccess(before(cell), op) ELSE before(cell)
    BY DEF Execute, Accessed, Prepared
  <2>3. tracked'[cell] = IF cell \notin cells THEN tracked[cell]
                         ELSE IF isImage THEN AfterImageAccess(tracked[cell], access)
                         ELSE AfterBufferAccess(tracked[cell], access)
    BY DEF Execute
  <2> QED
    BY <1>1, <2>1, <2>2, <2>3, ExecuteCell
<1>3. CellsForm'
  <2>1. ASSUME NEW cell \in Cells
        PROVE  CellForm(isImage, <<>>, 0, cell, tracked'[cell], memory'[cell])
    BY <1>2, OutsidePass
  <2> QED
    BY <1>1, <2>1 DEF CellsForm, Execute
<1>4. faults' \subseteq Tolerated
  <2>1. BarrierFaults(barriers) = {}
    BY <1>2 DEF BarrierFaults
  <2>2. ASSUME NEW cell \in cells
        PROVE  AccessFaults(Prepared(barriers)[cell], StageOf(access), FlagsOf(access), 0,
                            LayoutOf(access)) \subseteq Tolerated
    <3>1. cell \in Cells
      BY DEF Ranges
    <3>2. Prepared(barriers)[cell] = before(cell)
      BY <3>1 DEF Prepared
    <3> QED
      BY <1>2, <3>1, <3>2
  <2>3. FaultsOf(Prepared(barriers), access, cells, 0) \subseteq Tolerated
    BY <2>2 DEF FaultsOf
  <2>4. faults' = faults \cup BarrierFaults(barriers)
                         \cup FaultsOf(Prepared(barriers), access, cells, 0)
    BY DEF Execute
  <2> QED
    BY <2>1, <2>3, <2>4
<1>5. Bounds'
  <2>1. StagesOf(access) \subseteq Stages
    BY OutsideIs, AccessIs
  <2>2. accesses' \in 0 .. MaxAccesses
    BY BarriersAssumption DEF Bounds, Execute
  <2>3. tracked' = [cell \in Cells |-> tracked'[cell]]
    BY DEF Execute
  <2>4. history' \subseteq Stages
    BY <2>1 DEF Bounds, Execute
  <2> QED
    BY <2>2, <2>3, <2>4 DEF Bounds, Execute
<1>6. PassForm(isImage, pass)'
  BY DEF Execute
<1> QED
  BY <1>3, <1>4, <1>5, <1>6

-----------------------------------------------------------------------------
(* A render pass begins.                                                    *)

\* What a render pass is planned from
PlanFrom(n, layout, draws, joins) ==
    /\ draws \in [1 .. n -> [access: {a \in Draws : Suits(a) /\ LayoutOf(a) = layout},
                              cells: Ranges]]
    /\ joins \subseteq {i \in 1 .. n : MayAppend(draws, i)}
    /\ IsPass(draws)

Planned(n, draws, joins) ==
    [i \in 1 .. n |->
        [access |-> draws[i].access, cells |-> draws[i].cells, appended |-> i \in joins]]

\* The draws of a plan are a pass, as they suit the resource and have one layout.
LEMMA PlannedForm ==
    ASSUME isImage \in BOOLEAN, NEW n \in Nat, NEW layout, NEW draws, NEW joins,
           PlanFrom(n, layout, draws, joins)
    PROVE  PassForm(isImage, Planned(n, draws, joins)) /\ Len(Planned(n, draws, joins)) = n
<1> DEFINE planned == Planned(n, draws, joins)
<1>1. /\ draws \in [1 .. n -> [access: {a \in Draws : Suits(a) /\ LayoutOf(a) = layout},
                                cells: Ranges]]
      /\ joins \subseteq {i \in 1 .. n : MayAppend(draws, i)} /\ IsPass(draws)
      /\ planned = [i \in 1 .. n |->
             [access |-> draws[i].access, cells |-> draws[i].cells, appended |-> i \in joins]]
  BY DEF PlanFrom, Planned
<1> HIDE DEF planned
<1>2. \A i \in 1 .. n :
          /\ draws[i].access \in Draws /\ draws[i].cells \in Ranges
          /\ Suits(draws[i].access)
  BY <1>1
<1>3. DOMAIN planned = 1 .. n /\ DOMAIN draws = 1 .. n
  BY <1>1
<1>4. ASSUME NEW i \in 1 .. n
      PROVE  /\ planned[i].access = draws[i].access /\ planned[i].cells = draws[i].cells
             /\ planned[i].appended <=> i \in joins
             /\ planned[i] \in [access: Draws, cells: Ranges, appended: BOOLEAN]
  <2> DEFINE c == draws[i].access
             r == draws[i].cells
             b == i \in joins
  <2>1. planned[i] = [access |-> c, cells |-> r, appended |-> b]
    BY <1>1
  <2>2. c \in Draws /\ r \in Ranges /\ b \in BOOLEAN
    BY <1>2
  <2> HIDE DEF c, r, b
  <2>3. planned[i].access = c /\ planned[i].cells = r /\ planned[i].appended = b
    BY <2>1
  <2>4. planned[i] \in [access: Draws, cells: Ranges, appended: BOOLEAN]
    BY <2>1, <2>2
  <2> QED
    BY <2>3, <2>4 DEF c, r, b
<1>5. planned \in Seq([access: Draws, cells: Ranges, appended: BOOLEAN])
  <2> DEFINE D == [access: Draws, cells: Ranges, appended: BOOLEAN]
  <2>1. planned \in [1 .. n -> D]
    BY <1>1, <1>4
  <2> HIDE DEF D
  <2>2. planned \in Seq(D)
    BY <2>1
  <2> QED
    BY <2>2 DEF D
<1>6. Len(planned) = n
  BY <1>3, <1>5
<1> HIDE DEF Ranges
<1>7. \A i \in DOMAIN planned : isImage \/ planned[i].access \notin ImageOnly
  BY <1>2, <1>3, <1>4 DEF Suits
<1>8. ASSUME NEW i \in DOMAIN planned, NEW j \in DOMAIN planned
      PROVE  /\ LayoutIn(isImage, planned[i].access) = LayoutIn(isImage, planned[j].access)
             /\ planned[i].access \in Attached => planned[i].cells = planned[j].cells
  <2>1. /\ LayoutOf(draws[i].access) = LayoutOf(draws[j].access)
        /\ draws[i].access \in Attached => draws[i].cells = draws[j].cells
    BY <1>1, <1>3 DEF IsPass
  <2> QED
    BY <1>3, <1>4, <2>1, LayoutIs
<1>9. ASSUME NEW i \in DOMAIN planned, planned[i].appended
      PROVE  /\ i > 1
             /\ \A j \in {i - 1, i} :
                    \/ planned[j].access \in Attached
                    \/ planned[j].access \in Reads /\ (isImage => planned[j].access \in Sampled)
  <2>1. i \in 1 .. n /\ MayAppend(draws, i)
    BY <1>1, <1>3, <1>4, <1>9
  <2>2. i > 1 /\ Eligible(draws[i]) /\ Eligible(draws[i - 1])
    BY <2>1 DEF MayAppend
  <2>3. i - 1 \in 1 .. n
    BY <2>1, <2>2
  <2> QED
    BY <1>4, <2>1, <2>2, <2>3 DEF Eligible
<1>10. PassForm(isImage, planned)
  BY <1>5, <1>7, <1>8, <1>9 DEF PassForm
<1> QED
  BY <1>6, <1>10 DEF planned

\* Each cell when a pass begins
LEMMA BeginCell ==
    ASSUME isImage \in BOOLEAN, NEW draws, PassForm(isImage, draws), NEW cell, NEW tr, NEW mem,
           Still(isImage, tr, mem)
    PROVE  /\ ScopeFaults(mem, PassBarriers(tr, draws, cell)) = {}
           /\ CellForm(isImage, draws, 0, cell, TrackedAfterPass(tr, draws, cell),
                       AfterScopes(mem, PassBarriers(tr, draws, cell)))
<1>1. CASE Uses(draws, cell) = {}
  <2>1. PassBarriers(tr, draws, cell) = {}
    BY <1>1 DEF PassBarriers
  <2>2. TrackedAfterPass(tr, draws, cell) = tr
    BY <1>1 DEF TrackedAfterPass
  <2>3. ScopeFaults(mem, {}) = {} /\ Still(isImage, tr, AfterScopes(mem, {}))
    BY NoBarriers
  <2> QED
    BY <1>1, <2>1, <2>2, <2>3 DEF CellForm
<1>2. CASE Uses(draws, cell) # {}
  BY <1>2, BeginMid DEF CellForm
<1> QED
  BY <1>1, <1>2

\* So does the start of any render pass that may be planned.
LEMMA PlanStep ==
    ASSUME BarriersInv, Plan
    PROVE  BarriersInv'
<1> USE DEF BarriersInv
<1>1. PICK n \in 1 .. Min({MaxDraws, MaxAccesses - accesses}), layout \in Layouts :
          LET choices == {a \in Draws : Suits(a) /\ LayoutOf(a) = layout} IN
          \E draws \in [1 .. n -> [access: choices, cells: Ranges]] :
              \E joins \in SUBSET {i \in 1 .. n : MayAppend(draws, i)} :
                  IsPass(draws)
                  /\ BeginPass([i \in 1 .. n |->
                         [access |-> draws[i].access, cells |-> draws[i].cells,
                          appended |-> i \in joins]])
  BY DEF Plan
<1>2. \E draws, joins : PlanFrom(n, layout, draws, joins) /\ BeginPass(Planned(n, draws, joins))
  <2>1. PICK draws \in [1 .. n -> [access: {a \in Draws : Suits(a) /\ LayoutOf(a) = layout},
                                   cells: Ranges]] :
            \E joins \in SUBSET {i \in 1 .. n : MayAppend(draws, i)} :
                IsPass(draws)
                /\ BeginPass([i \in 1 .. n |->
                       [access |-> draws[i].access, cells |-> draws[i].cells,
                        appended |-> i \in joins]])
    BY <1>1
  <2>2. PICK joins \in SUBSET {i \in 1 .. n : MayAppend(draws, i)} :
            IsPass(draws)
            /\ BeginPass([i \in 1 .. n |->
                   [access |-> draws[i].access, cells |-> draws[i].cells,
                    appended |-> i \in joins]])
    BY <2>1
  <2>3. PlanFrom(n, layout, draws, joins)
    BY <2>2 DEF PlanFrom
  <2>4. BeginPass(Planned(n, draws, joins))
    BY <2>2 DEF Planned
  <2> QED
    BY <2>3, <2>4
<1>3. PICK draws, joins :
           PlanFrom(n, layout, draws, joins) /\ BeginPass(Planned(n, draws, joins))
  BY <1>2
<1> DEFINE planned == Planned(n, draws, joins)
<1>4. n \in Nat /\ n <= MaxDraws /\ n <= MaxAccesses - accesses
  <2> DEFINE a == MaxDraws
             b == MaxAccesses - accesses
  <2>1. a \in Int /\ b \in Int
    BY BarriersAssumption DEF Bounds
  <2> HIDE DEF a, b
  <2>2. \E x \in {a, b} : \A y \in {a, b} : x <= y
    BY <2>1
  <2>3. Min({a, b}) \in {a, b} /\ \A y \in {a, b} : Min({a, b}) <= y
    BY <2>2 DEF Min
  <2> DEFINE m == Min({a, b})
  <2>4. n \in 1 .. m
    BY DEF a, b
  <2> HIDE DEF m
  <2>5. m \in Int /\ m <= a /\ m <= b
    BY <2>1, <2>3 DEF m
  <2>6. n \in Nat /\ n <= a /\ n <= b
    BY <2>1, <2>4, <2>5
  <2> QED
    BY <2>6 DEF a, b
<1>5. isImage \in BOOLEAN /\ pass = <<>>
  BY DEF Bounds, Plan
<1>6. PassForm(isImage, planned) /\ Len(planned) = n
  BY <1>4, <1>5, <1>3, PlannedForm
<1>7. BeginPass(planned)
  BY <1>3
<1> HIDE DEF planned
<1> DEFINE B(cell) == PassBarriers(tracked[cell], planned, cell)
           barriers == [cell \in Cells |-> B(cell)]
<1>8. ASSUME NEW cell \in Cells
      PROVE  /\ ScopeFaults(memory[cell], B(cell)) = {}
             /\ CellForm(isImage, planned, 0, cell, tracked'[cell], memory'[cell])
  <2>1. Still(isImage, tracked[cell], memory[cell])
    BY <1>5, OutsidePass DEF CellsForm
  <2>2. memory'[cell] = AfterScopes(memory[cell], B(cell))
    BY <1>7 DEF BeginPass, Prepared
  <2>3. tracked'[cell] = TrackedAfterPass(tracked[cell], planned, cell)
    BY <1>7 DEF BeginPass
  <2> QED
    BY <1>5, <1>6, <2>1, <2>2, <2>3, BeginCell
<1>9. /\ pass' = planned /\ drawn' = 0 /\ isImage' = isImage
      /\ accesses' = accesses + n /\ history' = history /\ records' = records
      /\ faults' = faults \cup BarrierFaults(barriers)
      /\ tracked' = [cell \in Cells |-> tracked'[cell]]
  BY <1>6, <1>7 DEF BeginPass
<1>10. CellsForm'
  BY <1>8, <1>9 DEF CellsForm
<1>11. faults' \subseteq Tolerated
  <2>1. BarrierFaults(barriers) = {}
    BY <1>8 DEF BarrierFaults
  <2> QED
    BY <1>9, <2>1
<1>12. Bounds'
  <2>1. /\ n \in Nat /\ n <= MaxDraws /\ accesses + n \in 0 .. MaxAccesses
    BY <1>4, BarriersAssumption DEF Bounds
  <2> QED
    BY <1>6, <1>9, <2>1 DEF Bounds
<1>13. PassForm(isImage, pass)'
  BY <1>6, <1>9
<1> QED
  BY <1>10, <1>11, <1>12, <1>13

-----------------------------------------------------------------------------
(* Draws, and the end of the pass                                           *)

\* Each cell when the next draw is made
LEMMA DrawCell ==
    ASSUME isImage \in BOOLEAN, NEW draws, PassForm(isImage, draws), NEW n \in Nat,
           n + 1 \in DOMAIN draws, NEW cell, NEW tr, NEW mem,
           CellForm(isImage, draws, n, cell, tr, mem),
           NEW before, before = Begun(draws, n, mem),
           NEW new, new = IF cell \in draws[n + 1].cells
                          THEN AfterAccess(before, Operation(StageOf(draws[n + 1].access),
                                                             FlagsOf(draws[n + 1].access),
                                                             SubpassOf(draws, n + 1)))
                          ELSE before
    PROVE  /\ cell \in draws[n + 1].cells =>
                  AccessFaults(before, StageOf(draws[n + 1].access), FlagsOf(draws[n + 1].access),
                               SubpassOf(draws, n + 1), LayoutOf(draws[n + 1].access))
                      \subseteq Tolerated
           /\ CellForm(isImage, draws, n + 1, cell, tr, new)
<1>1. cell \in draws[n + 1].cells => Uses(draws, cell) # {}
  BY DEF Uses
<1>2. CASE Uses(draws, cell) = {}
  <2>1. Still(isImage, tr, mem)
    BY <1>2 DEF CellForm
  <2>2. Still(isImage, tr, before)
    BY <2>1, BegunStill
  <2> QED
    BY <1>1, <1>2, <2>2 DEF CellForm
<1>3. CASE Uses(draws, cell) # {}
  <2>1. Mid(isImage, draws, n, cell, tr, mem)
    BY <1>3 DEF CellForm
  <2>2. BegunForm(isImage, draws, n, cell, tr, before)
    BY <1>3, <2>1, BegunMid
  <2>3. Mid(isImage, draws, n + 1, cell, tr, new)
    BY <1>3, <2>2, DrawMid
  <2>4. cell \in draws[n + 1].cells =>
            AccessFaults(before, StageOf(draws[n + 1].access), FlagsOf(draws[n + 1].access),
                         SubpassOf(draws, n + 1), LayoutOf(draws[n + 1].access))
                \subseteq Tolerated
    BY <2>2, DrawFaults
  <2> QED
    BY <1>3, <2>3, <2>4 DEF CellForm
<1> QED
  BY <1>2, <1>3

\* So does a draw, in whatever subpass.
LEMMA DrawStep ==
    ASSUME BarriersInv, Draw
    PROVE  BarriersInv'
<1> USE DEF BarriersInv
<1> DEFINE n == drawn
           a == pass[drawn + 1].access
           k == SubpassOf(pass, drawn + 1)
           before == [cell \in Cells |-> Begun(pass, drawn, memory[cell])]
<1>1. /\ isImage \in BOOLEAN /\ drawn \in Nat /\ drawn + 1 \in DOMAIN pass
      /\ drawn + 1 \in 0 .. Len(pass)
  <2>1. drawn \in 0 .. Len(pass) /\ drawn < Len(pass) /\ isImage \in BOOLEAN
    BY DEF Bounds, Draw
  <2>2. DOMAIN pass = 1 .. Len(pass) /\ Len(pass) \in Nat
    BY DEF PassForm
  <2> QED
    BY <2>1, <2>2
<1>2. /\ memory' = Accessed(before, a, pass[drawn + 1].cells, k)
      /\ faults' = faults \cup FaultsOf(before, a, pass[drawn + 1].cells, k)
      /\ drawn' = drawn + 1
      /\ UNCHANGED <<isImage, tracked, history, pass, accesses, records>>
  BY DEF Draw, Begun
<1>3. pass[drawn + 1].cells \subseteq Cells
  BY <1>1, PassAccess DEF Ranges
<1>4. ASSUME NEW cell \in Cells
      PROVE  /\ cell \in pass[drawn + 1].cells =>
                    AccessFaults(before[cell], StageOf(a), FlagsOf(a), k, LayoutOf(a))
                        \subseteq Tolerated
             /\ CellForm(isImage, pass, drawn + 1, cell, tracked[cell], memory'[cell])
  <2>1. before[cell] = Begun(pass, drawn, memory[cell])
    OBVIOUS
  <2>2. CellForm(isImage, pass, drawn, cell, tracked[cell], memory[cell])
    BY DEF CellsForm
  <2> HIDE DEF before
  <2>3. memory'[cell] = IF cell \in pass[drawn + 1].cells
                        THEN AfterAccess(before[cell], Operation(StageOf(a), FlagsOf(a), k))
                        ELSE before[cell]
    BY <1>2 DEF Accessed
  <2> QED
    BY <1>1, <2>1, <2>2, <2>3, DrawCell
<1> HIDE DEF before, a, k
<1>5. CellsForm'
  BY <1>2, <1>4 DEF CellsForm
<1>6. faults' \subseteq Tolerated
  <2>1. FaultsOf(before, a, pass[drawn + 1].cells, k) \subseteq Tolerated
    BY <1>3, <1>4 DEF FaultsOf
  <2> QED
    BY <1>2, <2>1
<1>7. Bounds'
  BY <1>1, <1>2 DEF Bounds
<1>8. PassForm(isImage, pass)'
  BY <1>2
<1> QED
  BY <1>5, <1>6, <1>7, <1>8

\* So does the end of the pass.
LEMMA EndPassStep ==
    ASSUME BarriersInv, EndPass
    PROVE  BarriersInv'
<1> USE DEF BarriersInv
<1>1. /\ isImage \in BOOLEAN /\ drawn = Len(pass) /\ pass' = <<>> /\ drawn' = 0
      /\ history' = history \cup UNION {StagesOf(pass[i].access) : i \in DOMAIN pass}
      /\ memory' = [cell \in Cells |-> [memory[cell] EXCEPT !.past = {Leave(op) : op \in @}]]
      /\ UNCHANGED <<isImage, tracked, faults, accesses, records>>
  BY DEF Bounds, EndPass
<1>2. ASSUME NEW cell \in Cells
      PROVE  Still(isImage, tracked[cell], memory'[cell])
  <2>1. CellForm(isImage, pass, drawn, cell, tracked[cell], memory[cell])
    BY DEF CellsForm
  <2>2. memory'[cell] = [memory[cell] EXCEPT !.past = {Leave(op) : op \in @}]
    BY <1>1
  <2>3. CASE Uses(pass, cell) = {}
    <3>1. Still(isImage, tracked[cell], memory[cell])
      BY <2>1, <2>3 DEF CellForm
    <3> QED
      BY <2>2, <3>1, EndStill
  <2>4. CASE Uses(pass, cell) # {}
    <3>1. Mid(isImage, pass, drawn, cell, tracked[cell], memory[cell])
      BY <2>1, <2>4 DEF CellForm
    <3> QED
      BY <1>1, <2>2, <2>4, <3>1, EndMid
  <2> QED
    BY <2>3, <2>4
<1>3. CellsForm'
  <2>1. \A cell \in Cells : CellForm(isImage, <<>>, 0, cell, tracked[cell], memory'[cell])
    BY <1>2, OutsidePass
  <2> QED
    BY <1>1, <2>1 DEF CellsForm
<1>4. history' \subseteq Stages
  <2>1. \A i \in DOMAIN pass : StagesOf(pass[i].access) \subseteq Stages
    BY PassAccess, AccessIs
  <2> QED
    BY <1>1, <2>1 DEF Bounds
<1>5. Bounds'
  <2>1. Len(<<>>) = 0 /\ 0 <= MaxDraws
    BY BarriersAssumption
  <2> QED
    BY <1>1, <1>4, <2>1 DEF Bounds
<1>6. PassForm(isImage, pass)'
  BY <1>1, OutsidePass
<1> QED
  BY <1>1, <1>3, <1>5, <1>6

-----------------------------------------------------------------------------
(* The theorems                                                             *)

\* The invariant holds at first.
LEMMA BarriersInit == Init => BarriersInv
<1> SUFFICES ASSUME Init PROVE BarriersInv
  OBVIOUS
<1> USE DEF Init
<1>1. Bounds
  BY BarriersAssumption DEF Bounds
<1>2. PassForm(isImage, pass)
  BY OutsidePass
<1>3. Still(isImage, {"Nothing"}, Untouched)
  <2>1. IsMemory(Untouched) /\ Untouched.past = {} /\ Untouched.contents = "unwritten"
        /\ Untouched.layout = "undefined"
    BY DEF IsMemory, Untouched, Layouts
  <2> QED
    BY <2>1, NoLayout DEF Still, TrackedForm
<1>4. CellsForm
  BY <1>3, OutsidePass DEF CellsForm
<1> QED
  BY <1>1, <1>2, <1>4 DEF BarriersInv

\* Every step keeps it.
LEMMA BarriersStep == BarriersInv /\ [Next]_vars => BarriersInv'
<1> SUFFICES ASSUME BarriersInv, [Next]_vars PROVE BarriersInv'
  OBVIOUS
<1>1. ASSUME NEW access \in {a \in Outside : Suits(a)}, NEW cells \in Ranges,
             Execute(access, cells)
      PROVE  BarriersInv'
  BY <1>1, ExecuteStep
<1>2. CASE Plan
  BY <1>2, PlanStep
<1>3. CASE Draw
  BY <1>3, DrawStep
<1>4. CASE EndPass
  BY <1>4, EndPassStep
<1>5. CASE Record
  <2>1. Bounds'
    BY <1>5, BarriersAssumption DEF Record, Bounds, BarriersInv
  <2> QED
    BY <1>5, <2>1 DEF Record, BarriersInv, CellsForm
<1>6. CASE UNCHANGED vars
  BY <1>6 DEF vars, BarriersInv, CellsForm, Bounds
<1> QED
  BY <1>1, <1>2, <1>3, <1>4, <1>5, <1>6 DEF Next

\* It includes the types.
LEMMA BarriersTypes == BarriersInv => TypeOK
<1> SUFFICES ASSUME BarriersInv PROVE TypeOK
  OBVIOUS
<1>1. \A cell \in Cells :
          /\ tracked[cell] \in (SUBSET Accesses) \ {{}}
          /\ memory[cell].layout \in Layouts
          /\ memory[cell].contents \in {"unwritten", "kept", "lost"}
  BY CellTypes DEF BarriersInv, CellsForm
<1>2. tracked \in [Cells -> (SUBSET Accesses) \ {{}}]
  <2>1. tracked = [cell \in Cells |-> tracked[cell]]
    BY DEF BarriersInv, Bounds
  <2> QED
    BY <1>1, <2>1
<1>3. \A i \in DOMAIN pass : pass[i] \in [access: Draws, cells: Ranges, appended: BOOLEAN]
  <2> DEFINE D == [access: Draws, cells: Ranges, appended: BOOLEAN]
  <2>1. pass \in Seq(D)
    BY DEF BarriersInv, PassForm
  <2> HIDE DEF D
  <2>2. \A i \in DOMAIN pass : pass[i] \in D
    BY <2>1
  <2> QED
    BY <2>2 DEF D
<1>4. faults \subseteq {"unordered", "unavailable", "layout", "stale", "lost"}
  BY DEF BarriersInv, Tolerated
<1> QED
  BY <1>1, <1>2, <1>3, <1>4 DEF TypeOK, BarriersInv, Bounds

\* The tracker knows enough of the accesses that are behind, and the planned pass of those
\* that it is about to make, in every reachable state.
THEOREM BarriersInvariant == Spec => []BarriersInv
BY BarriersInit, BarriersStep, PTL DEF Spec

\* However executions, render passes and record calls follow each other, whatever ranges they
\* access and whatever draws share a subpass: the barriers and subpass dependencies that
\* src/submission.rs records order every two accesses that conflict, make every write available
\* to the next one, and keep the image in the layout the commands expect.
THEOREM AccessesStayOrdered == Spec => []AccessesOrdered
<1>1. BarriersInv => AccessesOrdered
  BY BarriersTypes DEF BarriersInv, Tolerated, AccessesOrdered
<1> QED
  BY <1>1, BarriersInvariant, PTL

\* If a barrier between two reads passes on what the first one sees, then every read sees the
\* last write before it, and no barrier discards what is read later.
THEOREM ReadsSeeTheirWrites ==
    ASSUME ReadersPassOn
    PROVE  Spec => []ReadsSeeWrites
<1>1. BarriersInv => ReadsSeeWrites
  BY DEF BarriersInv, Tolerated, ReadsSeeWrites
<1> QED
  BY <1>1, BarriersInvariant, PTL

===============================================================================
