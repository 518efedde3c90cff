----------------------------- MODULE Recording ------------------------------
(***************************************************************************)
(* Recording the commands of a graph, all of them or a selection at a time. *)
(*                                                                         *)
(* A selection is closed over its dependencies, reordered for locality,     *)
(* merged where neighbours fit one render pass, given its descriptor pools  *)
(* and render passes, recorded, and taken out of the graph; the timestamp   *)
(* queries written between and inside commands follow them by index.  The   *)
(* rest of the graph waits for the next selection.                          *)
(*                                                                         *)
(* src/src/submission.rs (Schedule, Submission), src/src/lib.rs (Graph)     *)
(***************************************************************************)
EXTENDS Integers, Sequences, FiniteSets, Functions

CONSTANTS
    N,              \* commands of the finalized graph
    R,              \* resources: graph nodes and resource sets, 1..R
    Execs,          \* executions of every command
    Mergeable,      \* whether commands may fit another's render pass
    GroupFactor,    \* resources per command from which equal chains are grouped
    MayFail,        \* leasing descriptor pools or render passes may fail
    MaxStale        \* bound: commands a failed lease had leased for

Commands == 1..N
Resources == 1..R

ASSUME SizeAssumption == N \in Nat /\ R \in Nat /\ GroupFactor \in Nat
ASSUME ExecsAssumption == Execs \in [Commands -> Nat \ {0}]
ASSUME ModeAssumption == Mergeable \subseteq BOOLEAN /\ MayFail \in BOOLEAN /\ MaxStale \in Nat

VARIABLES
    uses,       \* per command: the resources it accesses
    graphics,   \* per command: it is graphics, with the common attachments
    cmds,       \* Graph.cmds: per remaining command its executions <<command, n>>
    queries,    \* Graph.timestamp_queries that have not been taken
    resources,  \* Submission.recorded_commands: what each entry was leased for
    log,        \* the command buffer
    last        \* history: the last selection and what was recorded before it

vars == <<uses, graphics, cmds, queries, resources, log, last>>

\* A timestamp query: what it marks, and the indices that lead there.
Places == {"before", "after"}
Query(mark, cmd, exec, place) ==
    [mark |-> mark, cmd |-> cmd, exec |-> exec, place |-> place]

\* An execution in the command buffer, the timestamps written around it, and the
\* command its resources were leased for.  The final timestamps have no execution.
Entry(exec, before, after, with) ==
    [exec |-> exec, before |-> before, after |-> after, with |-> with]
Nothing == <<0, 0>>

CommandExecs(c) == [n \in 1..Execs[c] |-> <<c, n>>]

Exec == UNION {Range(CommandExecs(c)) : c \in Commands}

\* Timestamps wherever the graph lets one be written: before a command, after each
\* of its executions, and at the end.
AllQueries ==
    {Query(<<c, 0>>, c, 1, "before") : c \in 1..(N + 1)}
      \cup {Query(e, e[1], e[2], "after") : e \in Exec}
Marks == {q.mark : q \in AllQueries}

TypeOK ==
    /\ uses \in [Commands -> SUBSET Resources]
    /\ graphics \in [Commands -> BOOLEAN]
    /\ cmds \in Seq(Seq(Exec))
    /\ \A q \in queries : /\ q.mark \in Marks /\ q.place \in Places
                          /\ q.cmd \in 1..(Len(cmds) + 1) /\ q.exec \in Nat
    /\ resources \in Seq(Seq(Exec))
    /\ \A n \in DOMAIN log : log[n].exec \in Exec \cup {Nothing}

Init ==
    /\ uses \in [Commands -> SUBSET Resources]
    /\ graphics \in [Commands -> Mergeable]
    /\ cmds = [c \in Commands |-> CommandExecs(c)]
    /\ queries = AllQueries
    /\ resources = <<>>
    /\ log = <<>>
    /\ last = [kind |-> "none", resource |-> 0, before |-> {}, failed |-> FALSE]

-----------------------------------------------------------------------------
(* CommandAccessIndex: who accesses what, among the commands in g           *)

UsesOf(cmd) == UNION {uses[e[1]] : e \in Range(cmd)}
Users(g, r) == {i \in DOMAIN g : r \in UsesOf(g[i])}
Prefix(g, r, end) == {i \in Users(g, r) : i < end}

Smallest(S) == CHOOSE i \in S : \A j \in S : i <= j

\* Schedule::schedule_required_prefixes: selecting a user of a resource requires
\* its complete preceding prefix, of everything that user accesses.  What the
\* pending commands reach is the least such selection.
Preceding(g, i) == UNION {Prefix(g, r, i + 1) : r \in UsesOf(g[i])}

Required(g, start) ==
    {i \in DOMAIN g : \A S \in SUBSET DOMAIN g :
       start \subseteq S /\ (\A j \in S : Preceding(g, j) \subseteq S) => i \in S}

\* Submission::schedule_node_cmds
NodeSelection(g, r) == Required(g, Users(g, r))

\* Mutant: the prefix ends behind the first access to the target.
DependencySelectionInclusive(g, r) ==
    IF Users(g, r) = {} THEN {}
    ELSE LET first == Smallest(Users(g, r))
         IN Required(g, UNION {Prefix(g, s, first + 1) : s \in UsesOf(g[first]) \ {r}})

\* schedule_dependency_cmds_before_target_access: what the first command that
\* accesses the target reads, without that command.
DependencySelection(g, r) ==
    IF Users(g, r) = {} THEN {}
    ELSE LET first == Smallest(Users(g, r))
         IN Required(g, UNION {Prefix(g, s, first) : s \in UsesOf(g[first]) \ {r}})

-----------------------------------------------------------------------------
(* Schedule::reorder_cmds                                                  *)

\* Mutant: chains of the same length are taken to be the same.
ChainsByLength(g, S) ==
    IF R >= Cardinality(S) * GroupFactor
      THEN {r \in Resources :
              r = 1 \/ Cardinality(Users(g, r)) # Cardinality(Users(g, r - 1))}
      ELSE Resources

\* Resources whose chains are looked at: all of them, or, with many resources, the
\* first of every run of neighbours that have the same users.
ChainResources(g, S) ==
    IF R >= Cardinality(S) * GroupFactor
      THEN {r \in Resources : r = 1 \/ Users(g, r) # Users(g, r - 1)}
      ELSE Resources

\* add_resource_chain: per selected command an edge <<i, r>> from the selected user
\* of r before it.
Edges(g, S) ==
    [j \in S |->
       {e \in S \X UsesOf(g[j]) :
          /\ e[1] \in Users(g, e[2]) /\ e[1] < j
          /\ Users(g, e[2]) \cap S \cap ((e[1] + 1)..(j - 1)) = {}}]

\* remaining_predecessors: the counted edges, less those omitted with the chains
\* they equal, less those of commands that were placed.
Remaining(edges, chains, placed) ==
    LET omitted == {e \in edges : e[2] \notin chains}
    IN Cardinality(edges) - Cardinality(omitted)
         - Cardinality({e \in edges \ omitted : e[1] \in placed})

Ready(E, chains, placed) ==
    {j \in DOMAIN E \ placed : Remaining(E[j], chains, placed) = 0}

\* Of two ready commands the one with more predecessors, counting all resources,
\* goes first, then the one that was first in the graph.
Goes(E, i, j) ==
    LET more == Cardinality(E[i]) - Cardinality(E[j])
    IN more > 0 \/ (more = 0 /\ i <= j)

Sorted(S) ==
    [n \in 1..Cardinality(S) |-> CHOOSE i \in S : Cardinality({j \in S : j < i}) = n - 1]

Best(E, ready) == CHOOSE i \in ready : \A j \in ready : Goes(E, i, j)

\* The first n that are taken from the ready ones.
Placed(E, chains, n) ==
    LET place[i \in 0..n] ==
          IF i = 0 THEN <<>>
          ELSE LET s == place[i - 1]
               IN Append(s, Best(E, Ready(E, chains, Range(s))))
    IN place[n]

Reorder(g, S) ==
    IF Cardinality(S) < 3 THEN Sorted(S)
    ELSE Placed(Edges(g, S), ChainResources(g, S), Cardinality(S))

-----------------------------------------------------------------------------
(* Submission::merge_scheduled_cmds                                        *)

\* allow_merge_passes: both are graphics and their attachments go together.
AllowMerge(lhs, rhs) == graphics[lhs[1][1]] /\ graphics[rhs[1][1]]

\* Mutant: the executions that come first are not counted.
JoinLastAtStart(m, cmd) ==
    LET k == Len(m.cmds)
    IN [cmds |-> [m.cmds EXCEPT ![k] = @ \o cmd],
        at   |-> Append(m.at, <<k, 0>>)]

\* The n-th scheduled command joins the last of the merged ones, behind its
\* executions, or comes after it.
JoinLast(m, cmd) ==
    LET k == Len(m.cmds)
    IN [cmds |-> [m.cmds EXCEPT ![k] = @ \o cmd],
        at   |-> Append(m.at, <<k, Len(m.cmds[k])>>)]

StartNext(m, cmd) ==
    [cmds |-> Append(m.cmds, cmd),
     at   |-> Append(m.at, <<Len(m.cmds) + 1, 0>>)]

\* The scheduled commands as they are merged, and the new place of each of them:
\* its command, and the executions that now come before its own.
Merged(g, order) ==
    LET merge[n \in 0..Len(order)] ==
          IF n = 0 THEN [cmds |-> <<>>, at |-> <<>>]
          ELSE LET m   == merge[n - 1]
                   cmd == g[order[n]]
               IN IF m.cmds # <<>> /\ AllowMerge(m.cmds[Len(m.cmds)], cmd)
                    THEN JoinLast(m, cmd)
                    ELSE StartNext(m, cmd)
    IN merge[Len(order)]

\* Mutant: only what is behind the last scheduled command is put back.
UnscheduledTail(g, order) ==
    Sorted({i \in DOMAIN g : \A j \in Range(order) : i > j})

Unscheduled(g, order) == Sorted(DOMAIN g \ Range(order))

\* Mutant: the final queries stay in front of the last command.
NewPlaceShort(m, order, rest, i) ==
    CASE i \in Range(order) -> m.at[CHOOSE n \in DOMAIN order : order[n] = i]
      [] i \in Range(rest)  -> <<Len(m.cmds) + (CHOOSE n \in DOMAIN rest : rest[n] = i), 0>>
      [] OTHER -> <<Len(m.cmds) + Len(rest), 0>>

\* Where command i goes; what was behind the last command stays there.
NewPlace(m, order, rest, i) ==
    CASE i \in Range(order) -> m.at[CHOOSE n \in DOMAIN order : order[n] = i]
      [] i \in Range(rest)  -> <<Len(m.cmds) + (CHOOSE n \in DOMAIN rest : rest[n] = i), 0>>
      [] OTHER -> <<Len(m.cmds) + Len(rest) + 1, 0>>

\* Queries move with the command they are in.
MoveQueries(Q, m, order, rest) ==
    {[q EXCEPT !.cmd = NewPlace(m, order, rest, q.cmd)[1],
               !.exec = @ + NewPlace(m, order, rest, q.cmd)[2]] : q \in Q}

-----------------------------------------------------------------------------
(* Submission::record_scheduled_cmds                                       *)

MarksAt(Q, cmd, exec, place) ==
    {q.mark : q \in {q \in Q : q.cmd = cmd /\ q.exec = exec /\ q.place = place}}

\* record_cmd_indices for command i: its executions, with their timestamps.
Record(cmd, i, Q, with) ==
    [n \in DOMAIN cmd |->
       Entry(cmd[n], MarksAt(Q, i, n, "before"), MarksAt(Q, i, n, "after"), with)]

RecordEach(merged, Q, leased) ==
    LET record[i \in 0..Len(merged)] ==
          IF i = 0 THEN <<>>
          ELSE record[i - 1] \o Record(merged[i], i, Q, leased[i])
    IN record[Len(merged)]

\* Queries behind the last command are written when nothing remains; the others
\* that were not taken are counted from the first command that remains.  (Left out:
\* a queue without timestamps, which forgets the queries, and errors that leave the
\* command buffer half recorded.)
RecordScheduled(g, S) ==
    \E order \in {Reorder(g, S)} : \E m \in {Merged(cmds, order)} :
    LET rest == Unscheduled(cmds, order)
        moved == MoveQueries(queries, m, order, rest)
        leased == resources \o m.cmds
        end == Len(m.cmds) + 1
        final == IF rest = <<>> THEN MarksAt(moved, end, 1, "before") ELSE {}
        taken == {q \in moved : q.cmd < end \/ (rest = <<>> /\ q.cmd = end)}
    IN /\ log' = log \o RecordEach(m.cmds, moved, leased)
                     \o (IF final = {} THEN <<>>
                         ELSE <<Entry(Nothing, final, {}, <<>>)>>)
       /\ cmds' = [n \in DOMAIN rest |-> cmds[rest[n]]]
       /\ queries' = {[q EXCEPT !.cmd = @ - Len(m.cmds)] : q \in moved \ taken}
       /\ resources' = SubSeq(leased, 1, Len(resources))
       /\ UNCHANGED <<uses, graphics>>

\* lease_scheduled_resources fails after some commands: `?` leaves with the graph
\* merged and the resources of these commands in recorded_commands.  A failed first
\* selection takes the submission along, but that one may have been empty, and
\* Recording::record can be called again.  The bounds: this happens once,
\* after at most MaxStale commands.
LeaseFails(g, S) ==
    \E order \in {Reorder(g, S)} : \E m \in {Merged(cmds, order)} :
    LET rest == Unscheduled(cmds, order)
    IN /\ MayFail /\ ~last.failed
       /\ cmds' = m.cmds \o [n \in DOMAIN rest |-> cmds[rest[n]]]
       /\ queries' = MoveQueries(queries, m, order, rest)
       /\ \E n \in {n \in 0..(Len(m.cmds) - 1) : n <= MaxStale} :
             resources' = resources \o SubSeq(m.cmds, 1, n)
       /\ UNCHANGED <<uses, graphics, log>>

Position(e) == {n \in DOMAIN log : log[n].exec = e}
RecordedCommands == {c \in Commands : Position(<<c, 1>>) # {}}

Select(g, S, kind, r) ==
    /\ S # {}
    /\ \/ RecordScheduled(g, S) /\ last' = [kind |-> kind, resource |-> r,
                                  before |-> RecordedCommands, failed |-> last.failed]
       \/ LeaseFails(g, S) /\ last' = [last EXCEPT !.kind = "none", !.failed = TRUE]

\* Recording::record, RecordSelection::All
RecordAll == Select(cmds, DOMAIN cmds, "all", 0)

\* RecordSelection::Node; RecordSelection::Nodes is one after the other.
RecordNode(r) == Select(cmds, NodeSelection(cmds, r), "node", r)

\* RecordSelection::Dependencies: the index stops with the first target access.
RecordDependencies(r) ==
    /\ Users(cmds, r) # {}
    /\ LET g == SubSeq(cmds, 1, Smallest(Users(cmds, r)))
       IN Select(g, DependencySelection(g, r), "dependencies", r)

Next ==
    \/ RecordAll
    \/ \E r \in Resources : RecordNode(r) \/ RecordDependencies(r)

Spec == Init /\ [][Next]_vars

-----------------------------------------------------------------------------
(* Properties                                                              *)

RemainingExecs == UNION {Range(cmds[i]) : i \in DOMAIN cmds}

\* Nothing is lost or recorded twice by any sequence of selections: an execution
\* is in the command buffer once or in the graph, and a command is not torn apart;
\* what remains is a graph of the same type.
EachOnce ==
    /\ TypeOK
    /\ \A e \in Exec : /\ Cardinality(Position(e)) <= 1
                       /\ e \in RemainingExecs <=> Position(e) = {}
    /\ \A c \in RecordedCommands : \A n, m \in 1..Execs[c] :
         \A i \in Position(<<c, n>>), j \in Position(<<c, m>>) : i - j = n - m

\* "This preserves the original relative order for every shared-resource pair":
\* if a command is recorded, so is every earlier one it shares a resource with,
\* before it, however selections, reordering and merging took them.
HazardOrder ==
    \A c, d \in Commands :
        (c < d /\ uses[c] \cap uses[d] # {} /\ d \in RecordedCommands) =>
            /\ c \in RecordedCommands
            /\ \A i \in Position(<<c, 1>>), j \in Position(<<d, 1>>) : i < j

\* A timestamp is written where the graph asked for it, next to the execution that
\* it marks, and once: merging and partial recording move indices, not marks.
TimestampsInPlace ==
    \A n \in DOMAIN log :
        LET e == log[n].exec
        IN IF e = Nothing
             THEN log[n].before = {<<N + 1, 0>>} /\ n = Len(log)
             ELSE /\ log[n].before = (IF e[2] = 1 THEN {<<e[1], 0>>} ELSE {})
                  /\ log[n].after = {e}

\* Once everything is recorded all timestamps have been written.
TimestampsComplete ==
    (cmds = <<>> /\ log # <<>>) => queries = {} /\ log[Len(log)].exec = Nothing

\* After record(node) nothing that remains accesses the node; after
\* record(dependencies) no access to it was recorded, and the first command that
\* has one depends on nothing that remains.  Neither records more than it needs.
\* A failed attempt has merged commands, which then count as one.
SelectionExact ==
    LET new == RecordedCommands \ last.before
        accessing == {c \in Commands : last.resource \in uses[c]}
        first == Smallest(accessing \ last.before)
        needed(c) == \E d \in new : d > c /\ uses[c] \cap uses[d] # {}
    IN /\ last.kind = "node" /\ ~last.failed =>
            /\ accessing \subseteq RecordedCommands
            /\ \A c \in new : c \in accessing \/ needed(c)
       /\ last.kind = "dependencies" /\ ~last.failed =>
            /\ new \cap accessing = {}
            /\ \A c \in 1..(first - 1) :
                 uses[c] \cap uses[first] # {} => c \in RecordedCommands
            /\ \A c \in new : needed(c) \/ uses[c] \cap uses[first] # {}

\* A command is recorded with the resources that were leased for it.
ResourcesMatch ==
    \A n \in DOMAIN log : log[n].exec # Nothing => log[n].exec \in Range(log[n].with)
=============================================================================
