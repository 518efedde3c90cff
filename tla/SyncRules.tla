------------------------------ MODULE SyncRules ------------------------------
(***************************************************************************)
(* What Vulkan's synchronization chapter says of one part of a resource:   *)
(* which accesses a barrier or a subpass dependency orders, when a write   *)
(* is available and to whom it is visible, and what a layout transition    *)
(* is.  The memory is the judge of the Barriers module; nothing here is    *)
(* code of the repository.                                                 *)
(*                                                                         *)
(* A place is 0 for commands outside the current render pass, or the       *)
(* number of one of its subpasses.  An access ends up in the scope of a    *)
(* barrier in its own stage, and in any stage an earlier barrier ordered   *)
(* after it: `chain` has these as pairs of a place and a stage.  `after`   *)
(* has the stages ordered after it in every later command.                 *)
(***************************************************************************)
EXTENDS Naturals

CONSTANT MaxSubpasses

Stages == {"transfer", "compute", "vertex", "fragment", "color"}
GraphicsStages == {"vertex", "fragment", "color"}
Places == 0 .. MaxSubpasses
Flags == {"read", "write"}

\* An access that was made, as later accesses need to know it.
Operations == [stage: Stages \cup {"transition"}, flags: SUBSET Flags, at: Places,
               after: SUBSET Stages, chain: SUBSET (Places \X Stages),
               available: BOOLEAN, visible: SUBSET (Places \X Stages)]

\* One part of a resource: its layout, whether what was written is still
\* there, and the last write with the reads since.
Layouts == {"undefined", "color", "general", "sampled", "source", "destination"}
Memories == [layout: Layouts, contents: {"unwritten", "kept", "lost"},
             past: SUBSET Operations]

Untouched == [layout |-> "undefined", contents |-> "unwritten", past |-> {}]

Wrote(op) == "write" \in op.flags

Operation(stage, flags, at) ==
    [stage |-> stage, flags |-> flags, at |-> at, after |-> {}, chain |-> {<<at, stage>>},
     available |-> FALSE, visible |-> {}]

\* A scope is a barrier or a dependency: from the stages src at place `at`, with
\* the flags `from`, to the stages dst with the flags `to`.
Meets(op, scope) == \E stage \in scope.src : <<scope.at, stage>> \in op.chain

MadeAvailable(op, scope) ==
    \/ op.available
    \/ Wrote(op) /\ op.at = scope.at /\ op.stage \in scope.src /\ "write" \in scope.from

\* What is read is seen through the flag "read"; a later write needs no visibility.
MadeVisible(op, scope, place) ==
    IF Meets(op, scope) /\ MadeAvailable(op, scope) /\ "read" \in scope.to
    THEN {place} \X scope.dst ELSE {}

\* One call may record several barriers for the same part.
AfterBarriers(op, scopes) ==
    LET met == {s \in scopes : Meets(op, s)}
        dst == UNION {s.dst : s \in met} IN
    [op EXCEPT !.after = @ \cup dst,
               !.chain = @ \cup {0} \X dst,
               !.available = @ \/ \E s \in met : MadeAvailable(op, s),
               !.visible = @ \cup UNION {MadeVisible(op, s, 0) : s \in met}]

\* A layout transition is a write of the barrier itself, after its source scope
\* and before its destination scope.
Transition(scope) ==
    [stage |-> "transition", flags |-> {"write"}, at |-> 0,
     after |-> scope.dst, chain |-> {0} \X scope.dst, available |-> TRUE,
     visible |-> IF "read" \in scope.to THEN {0} \X scope.dst ELSE {}]

\* A dependency by region orders attachment accesses only.
Local(op, dependency) == ~dependency.byRegion \/ op.stage = "color"

\* Subpass `place` begins: `dependencies` lead into it.
Enter(op, place, dependencies) ==
    LET met == {d \in dependencies : Meets(op, d) /\ Local(op, d)} IN
    [op EXCEPT !.chain = @ \cup {place} \X (op.after \cup UNION {d.dst : d \in met}),
               !.available = @ \/ \E d \in met : MadeAvailable(op, d),
               !.visible = @ \cup UNION {MadeVisible(op, d, place) : d \in met}]

\* The render pass ends: its subpasses are behind.
Leave(op) ==
    [op EXCEPT !.at = 0,
               !.chain = {0} \X {pair[2] : pair \in op.chain},
               !.visible = {pair \in @ : pair[1] = 0}]

\* Blending and tests run in primitive order within a subpass.
RasterOrder(op, stage, place) == place # 0 /\ op.at = place /\ op.stage = "color" /\ stage = "color"

Ordered(op, stage, place) ==
    \/ stage \in op.after
    \/ op.at # place /\ <<place, stage>> \in op.chain
    \/ RasterOrder(op, stage, place)

Visible(op, stage, place) ==
    \/ {<<0, stage>>, <<place, stage>>} \cap op.visible # {}
    \/ RasterOrder(op, stage, place)

(***************************************************************************)
(* What is wrong with an access, or with the transition of a barrier.      *)
(***************************************************************************)
AccessFaults(memory, stage, flags, place, layout) ==
    LET conflicting == {op \in memory.past : Wrote(op) \/ "write" \in flags} IN
    (IF \E op \in conflicting : ~Ordered(op, stage, place) THEN {"unordered"} ELSE {})
    \cup (IF "write" \in flags
             /\ \E op \in memory.past : /\ Wrote(op) /\ ~op.available
                                        /\ ~RasterOrder(op, stage, place)
          THEN {"unavailable"} ELSE {})
    \cup (IF memory.layout # layout THEN {"layout"} ELSE {})
    \cup (IF "read" \in flags /\ \E op \in memory.past : Wrote(op) /\ ~Visible(op, stage, place)
          THEN {"stale"} ELSE {})
    \cup (IF "read" \in flags /\ memory.contents = "lost" THEN {"lost"} ELSE {})

Transitions(scopes) == {s \in scopes : s.old # s.new}

ScopeFaults(memory, scopes) ==
    LET transitions == Transitions(scopes) IN
    (IF \E s \in transitions, op \in memory.past : ~Meets(op, s) THEN {"unordered"} ELSE {})
    \cup (IF \E s \in transitions, op \in memory.past : Wrote(op) /\ ~MadeAvailable(op, s)
          THEN {"unavailable"} ELSE {})
    \cup (IF \E s \in transitions : s.old \notin {memory.layout, "undefined"}
          THEN {"layout"} ELSE {})

AfterAccess(memory, op) ==
    [memory EXCEPT !.past = IF Wrote(op) THEN {op} ELSE @ \cup {op},
                   !.contents = IF Wrote(op) THEN "kept" ELSE @]

AfterScopes(memory, scopes) ==
    IF Transitions(scopes) = {}
    THEN [memory EXCEPT !.past = {AfterBarriers(op, scopes) : op \in @}]
    ELSE LET scope == CHOOSE s \in Transitions(scopes) : TRUE IN
         [layout |-> scope.new,
          contents |-> IF scope.old = "undefined" /\ memory.contents = "kept" THEN "lost"
                       ELSE memory.contents,
          past |-> {Transition(scope)}]

==============================================================================
