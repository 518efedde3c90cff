--------------------------- MODULE RecordingProofs ---------------------------
(***************************************************************************)
(* Proofs about Recording, for any graph and any sequence of selections.    *)
(*                                                                         *)
(* reorder_cmds, merge_scheduled_cmds and record_cmd_indices are taken one   *)
(* after the other: the order they give has each selected command once and   *)
(* keeps what shares a resource; the merged commands are whole; what is       *)
(* written is the merged commands.  The invariant RecInv sees the command     *)
(* buffer and the graph as rows of executions, which each step only moves.    *)
(* SelInv adds that, until a lease fails, every row is one command: then a     *)
(* selection records what it asks for and no more.                             *)
(***************************************************************************)
EXTENDS Recording, FiniteSetTheorems, SequenceTheorems, NaturalsInduction,
        WellFoundedInduction, TLAPS
-----------------------------------------------------------------------------
(* Least and greatest elements, and the sets in question                     *)

\* A nonempty set of natural numbers has a least element.
LEMMA LeastNat ==
    ASSUME NEW T \in SUBSET Nat, NEW k \in T
    PROVE  \E n \in T : \A m \in T : n <= m
<1>1. IsWellFoundedOn(OpToRel(<,Nat), Nat)
  BY NatLessThanWellFounded
<1>2. \E x \in T : \A y \in T : ~ (<<y, x>> \in OpToRel(<,Nat))
  BY <1>1, WFMin
<1>3. ASSUME NEW x \in Nat, NEW y \in Nat, ~ (<<y, x>> \in OpToRel(<,Nat))
      PROVE  x <= y
  BY <1>3 DEF OpToRel
<1> QED
  BY <1>2, <1>3

\* A bounded one has a greatest element.
LEMMA GreatestNat ==
    ASSUME NEW T \in SUBSET Nat, NEW k \in T, NEW b \in Nat, \A n \in T : n <= b
    PROVE  \E n \in T : \A m \in T : m <= n
<1> DEFINE D == {d \in Nat : b - d \in T}
<1>1. b - k \in D
  OBVIOUS
<1>2. PICK d \in D : \A e \in D : d <= e
  <2> HIDE DEF D
  <2> QED BY <1>1, LeastNat DEF D
<1>3. \A m \in T : b - m \in D
  OBVIOUS
<1>4. \A m \in T : m <= b - d
  <2> TAKE m \in T
  <2>1. d <= b - m
    BY <1>2, <1>3
  <2>2. d \in Nat /\ m \in Nat
    BY <1>2
  <2> QED BY <2>1, <2>2
<1> QED
  BY <1>2, <1>4

\* A selection of commands is finite, and so are its edges.
LEMMA SelectionFinite ==
    ASSUME NEW n \in Nat, NEW S \in SUBSET (1..n)
    PROVE  IsFiniteSet(S) /\ Cardinality(S) \in Nat
<1>1. IsFiniteSet(1..n)
  BY FS_Interval
<1> QED
  BY <1>1, FS_Subset, FS_CardinalityType

-----------------------------------------------------------------------------
(* Sorted                                                                    *)

\* Sorted(S) enumerates S in increasing order.
LEMMA SortedEnumerates ==
    ASSUME NEW n \in Nat, NEW S \in SUBSET (1..n)
    PROVE  /\ Sorted(S) \in [1..Cardinality(S) -> S]
           /\ \A i \in S : \E p \in 1..Cardinality(S) : Sorted(S)[p] = i
           /\ \A p, q \in 1..Cardinality(S) : p < q => Sorted(S)[p] < Sorted(S)[q]
<1> DEFINE k == Cardinality(S)
           Below(i) == {j \in S : j < i}
           rank == [i \in S |-> Cardinality(Below(i))]
<1>1. IsFiniteSet(S) /\ k \in Nat
  BY SelectionFinite
<1>2. \A i \in S : IsFiniteSet(Below(i)) /\ rank[i] \in Nat /\ rank[i] < k
  <2> TAKE i \in S
  <2>1. Below(i) \in SUBSET S /\ i \notin Below(i)
    OBVIOUS
  <2>2. IsFiniteSet(Below(i)) /\ Cardinality(Below(i)) <= k /\ Cardinality(Below(i)) # k
    BY <1>1, <2>1, FS_Subset
  <2> QED
    BY <1>1, <2>2, FS_CardinalityType
<1>3. \A i, j \in S : i < j => rank[i] < rank[j]
  <2> SUFFICES ASSUME NEW i \in S, NEW j \in S, i < j PROVE rank[i] < rank[j]
    OBVIOUS
  <2>1. \A m \in S : m \in Int
    OBVIOUS
  <2>2. \A m \in S : m < i => m < j
    BY <2>1
  <2>3. i \in Below(j) /\ i \notin Below(i)
    BY <2>1
  <2>4. Below(i) \subseteq Below(j) /\ i \in Below(j) /\ i \notin Below(i)
    <3> HIDE DEF rank, k
    <3> QED BY <2>2, <2>3
  <2>5. IsFiniteSet(Below(j))
    BY <1>2
  <2>6. Cardinality(Below(i)) <= Cardinality(Below(j)) /\ Cardinality(Below(i)) # Cardinality(Below(j))
    <3> HIDE DEF Below
    <3> QED BY <2>4, <2>5, FS_Subset
  <2> QED
    BY <1>2, <2>6
<1>4. \A i, j \in S : rank[i] < rank[j] => i < j
  <2> SUFFICES ASSUME NEW i \in S, NEW j \in S, rank[i] < rank[j], ~(i < j) PROVE FALSE
    OBVIOUS
  <2>1. i = j \/ j < i
    OBVIOUS
  <2> QED BY <1>2, <1>3, <2>1
<1>5. \A i, j \in S : rank[i] = rank[j] => i = j
  <2> SUFFICES ASSUME NEW i \in S, NEW j \in S, rank[i] = rank[j], i # j PROVE FALSE
    OBVIOUS
  <2>1. i < j \/ j < i
    OBVIOUS
  <2> QED BY <1>2, <1>3, <2>1
<1>6. rank \in Injection(S, 0..(k - 1))
  <2>1. rank \in [S -> 0..(k - 1)]
    <3>1. \A i \in S : rank[i] \in 0..(k - 1)
      BY <1>1, <1>2
    <3> QED BY <3>1
  <2> HIDE DEF rank
  <2>2. IsInjective(rank)
    BY <1>5, <2>1 DEF IsInjective
  <2> QED
    BY <2>1, <2>2 DEF Injection
<1>7. IsFiniteSet(0..(k - 1)) /\ Cardinality(0..(k - 1)) = k
  <2>1. PICK a, b : a = 0 /\ b = k - 1
    OBVIOUS
  <2>2. a \in Int /\ b \in Int
    BY <1>1, <2>1
  <2>3. IsFiniteSet(a..b) /\ Cardinality(a..b) = IF a > b THEN 0 ELSE b - a + 1
    BY <2>2, FS_Interval
  <2>4. (IF a > b THEN 0 ELSE b - a + 1) = k
    BY <1>1, <2>1
  <2> QED BY <2>1, <2>3, <2>4
<1>8. rank \in Surjection(S, 0..(k - 1))
  <2> HIDE DEF rank
  <2> QED BY <1>6, <1>7, FS_Injection
<1>9. \A p \in 1..k : \E i \in S : rank[i] = p - 1
  <2>1. \A t \in 0..(k - 1) : \E i \in S : rank[i] = t
    <3> HIDE DEF rank, k
    <3> QED BY <1>8 DEF Surjection
  <2> HIDE DEF rank, k
  <2>2. \A p \in 1..k : p - 1 \in 0..(k - 1)
    BY <1>1
  <2> QED BY <2>1, <2>2
<1>10. \A p \in 1..k : Sorted(S)[p] \in S /\ rank[Sorted(S)[p]] = p - 1
  BY <1>9 DEF Sorted
<1>11. Sorted(S) \in [1..k -> S]
  BY <1>10 DEF Sorted
<1> HIDE DEF rank
<1>12. \A i \in S : \E p \in 1..k : Sorted(S)[p] = i
  <2> TAKE i \in S
  <2>1. rank[i] + 1 \in 1..k /\ rank[i] \in Nat
    <3> HIDE DEF k, Below
    <3> QED BY <1>1, <1>2
  <2>2. Sorted(S)[rank[i] + 1] \in S /\ rank[Sorted(S)[rank[i] + 1]] = rank[i]
    BY <1>10, <2>1
  <2> QED
    BY <1>5, <2>1, <2>2
<1>13. \A p, q \in 1..k : p < q => Sorted(S)[p] < Sorted(S)[q]
  <2> SUFFICES ASSUME NEW p \in 1..k, NEW q \in 1..k, p < q
               PROVE  Sorted(S)[p] < Sorted(S)[q]
    OBVIOUS
  <2>1. rank[Sorted(S)[p]] < rank[Sorted(S)[q]]
    BY <1>1, <1>10
  <2> QED
    BY <1>4, <1>10, <2>1
<1> QED
  BY <1>11, <1>12, <1>13

-----------------------------------------------------------------------------
(* Reorder                                                                   *)

\* What Edges(g, S) is of: edges to earlier commands of the selection.
IsEdges(E, S) ==
    /\ E \in [S -> SUBSET (S \X Resources)]
    /\ \A j \in S : \A e \in E[j] : e[1] < j

\* The edges of j that are not omitted lead to placed commands.
Met(E, chains, placed, j) == \A e \in E[j] : e[2] \in chains => e[1] \in placed

\* A command is ready when all edges that count are met: the counters reach zero
\* with the last of them.
LEMMA ReadyIsMet ==
    ASSUME NEW n \in Nat, NEW S \in SUBSET (1..n), NEW E, IsEdges(E, S),
           NEW chains, NEW placed, NEW j \in S
    PROVE  j \in Ready(E, chains, placed) <=> j \notin placed /\ Met(E, chains, placed, j)
<1> DEFINE edges == E[j]
           omitted == {e \in edges : e[2] \notin chains}
           kept == edges \ omitted
           met == {e \in edges \ omitted : e[1] \in placed}
<1>1. IsFiniteSet(edges)
  <2>1. IsFiniteSet(S) /\ IsFiniteSet(Resources)
    BY SelectionFinite, FS_Interval, SizeAssumption DEF Resources
  <2>2. IsFiniteSet(S \X Resources)
    BY <2>1, FS_Product
  <2>3. edges \in SUBSET (S \X Resources)
    BY DEF IsEdges
  <2> QED
    BY <2>2, <2>3, FS_Subset
<1>2. DOMAIN E = S
  BY DEF IsEdges
<1> HIDE DEF edges
<1>3. IsFiniteSet(omitted) /\ IsFiniteSet(kept) /\ IsFiniteSet(met)
  BY <1>1, FS_Subset
<1>4. Cardinality(kept) = Cardinality(edges) - Cardinality(omitted)
  <2>1. edges \cap omitted = omitted
    OBVIOUS
  <2>2. Cardinality(kept) = Cardinality(edges) - Cardinality(edges \cap omitted)
    BY <1>1, FS_Difference
  <2> QED
    BY <2>1, <2>2
<1>5. Remaining(edges, chains, placed) = Cardinality(kept) - Cardinality(met)
  BY <1>4 DEF Remaining
<1>6. Cardinality(kept) \in Nat /\ Cardinality(met) \in Nat
  BY <1>3, FS_CardinalityType
<1>7. Remaining(edges, chains, placed) = 0 <=> Cardinality(kept) = Cardinality(met)
  BY <1>5, <1>6
<1>8. Cardinality(kept) = Cardinality(met) <=> kept = met
  <2>1. met \in SUBSET kept
    OBVIOUS
  <2> QED
    BY <1>3, <2>1, FS_Subset
<1>9. kept = met <=> \A e \in edges : e[2] \in chains => e[1] \in placed
  OBVIOUS
<1> QED
  BY <1>2, <1>7, <1>8, <1>9 DEF Ready, Met, edges

\* While commands of the selection are left, one of them is ready: the first.
LEMMA SomeReady ==
    ASSUME NEW n \in Nat, NEW S \in SUBSET (1..n), NEW E, IsEdges(E, S),
           NEW chains, NEW placed, NEW k \in S \ placed
    PROVE  \E j \in S : j \in Ready(E, chains, placed)
<1> DEFINE left == S \ placed
<1>1. \A x \in S : x \in Nat
  OBVIOUS
<1>2. PICK j \in left : \A i \in left : j <= i
  <2>1. left \in SUBSET Nat /\ k \in left
    BY <1>1
  <2> HIDE DEF left
  <2> QED
    BY <2>1, LeastNat
<1>3. Met(E, chains, placed, j)
  <2> SUFFICES ASSUME NEW e \in E[j], e[1] \notin placed PROVE FALSE
    BY DEF Met
  <2>1. PICK i : i = e[1]
    OBVIOUS
  <2>2. i \in S /\ i < j /\ i \notin placed
    BY <2>1 DEF IsEdges
  <2>3. i \in left
    BY <2>2
  <2>4. j <= i /\ i \in Int /\ j \in Int
    BY <1>1, <1>2, <2>3
  <2> QED
    BY <2>2, <2>4
<1> QED
  BY <1>2, <1>3, ReadyIsMet

\* The one that goes first among the ready commands is one of them.
LEMMA BestIsReady ==
    ASSUME NEW n \in Nat, NEW S \in SUBSET (1..n), NEW E, IsEdges(E, S),
           NEW ready \in SUBSET S, NEW k \in ready
    PROVE  Best(E, ready) \in ready
<1> DEFINE most == Cardinality(S \X Resources)
           count(i) == Cardinality(E[i])
           counts == {count(i) : i \in ready}
<1>1. IsFiniteSet(S \X Resources) /\ most \in Nat
  <2>1. IsFiniteSet(S) /\ IsFiniteSet(Resources)
    BY SelectionFinite, FS_Interval, SizeAssumption DEF Resources
  <2> QED
    BY <2>1, FS_Product, FS_CardinalityType
<1>2. \A i \in S : count(i) \in Nat /\ count(i) <= most
  <2> TAKE i \in S
  <2>1. E[i] \in SUBSET (S \X Resources)
    BY DEF IsEdges
  <2> QED
    BY <1>1, <2>1, FS_Subset, FS_CardinalityType
<1> HIDE DEF most, count
<1>3. PICK c \in counts : \A d \in counts : d <= c
  <2>1. counts \in SUBSET Nat /\ count(k) \in counts /\ \A d \in counts : d <= most
    BY <1>2
  <2> HIDE DEF counts
  <2> QED
    BY <1>1, <2>1, GreatestNat
<1> DEFINE top == {i \in ready : count(i) = c}
<1>4. PICK i \in top : \A j \in top : i <= j
  <2>1. \E i \in ready : i \in top
    BY <1>3
  <2>2. top \in SUBSET Nat
    OBVIOUS
  <2> HIDE DEF top
  <2> QED
    BY <2>1, <2>2, LeastNat
<1>5. i \in ready /\ \A j \in ready : Goes(E, i, j)
  <2>1. i \in ready /\ count(i) = c /\ c \in Nat
    BY <1>2, <1>4
  <2>2. ASSUME NEW j \in ready PROVE Goes(E, i, j)
    <3>1. count(j) <= c /\ count(j) \in Nat
      BY <1>2, <1>3
    <3>2. CASE count(j) = c
      <4>1. j \in top /\ i <= j
        BY <1>4, <3>2
      <4> QED
        BY <2>1, <3>1, <3>2, <4>1 DEF Goes, count
    <3>3. CASE count(j) < c
      <4>1. count(i) - count(j) > 0
        BY <2>1, <3>1, <3>3
      <4> QED
        BY <4>1 DEF Goes, count
    <3> QED
      BY <2>1, <3>1, <3>2, <3>3
  <2> QED BY <2>1, <2>2
<1> QED
  BY <1>5 DEF Best

\* f is the function that Placed defines by recursion.
IsPlace(f, E, chains, n) ==
    f = [i \in 0..n |->
           IF i = 0 THEN <<>>
           ELSE LET s == f[i - 1]
                IN Append(s, Best(E, Ready(E, chains, Range(s))))]

\* There is such a function.
LEMMA PlacedExists ==
    ASSUME NEW E, NEW chains, NEW n \in Nat
    PROVE  \E f : IsPlace(f, E, chains, n)
<1> DEFINE Next1(s) == Append(s, Best(E, Ready(E, chains, Range(s))))
           Has(k) == \E f : f = [i \in 0..k |-> IF i = 0 THEN <<>> ELSE Next1(f[i - 1])]
           T == {k \in Nat : ~Has(k)}
<1> SUFFICES ASSUME n \in T PROVE FALSE
  BY DEF IsPlace
<1> HIDE DEF Next1
<1>1. PICK k \in T : \A m \in T : k <= m
  <2> HIDE DEF T
  <2> QED BY LeastNat DEF T
<1>2. Has(0)
  <2>1. [i \in 0..0 |-> <<>>] =
          [i \in 0..0 |-> IF i = 0 THEN <<>> ELSE Next1([j \in 0..0 |-> <<>>][i - 1])]
    OBVIOUS
  <2> QED BY <2>1
<1>3. k # 0 /\ k - 1 \in Nat /\ Has(k - 1)
  <2> HIDE DEF Has
  <2>1. k # 0 /\ k \in Nat
    BY <1>1, <1>2
  <2>2. k - 1 \in Nat /\ ~(k <= k - 1)
    BY <2>1
  <2> QED BY <1>1, <2>1, <2>2
<1>4. PICK f : f = [i \in 0..(k - 1) |-> IF i = 0 THEN <<>> ELSE Next1(f[i - 1])]
  BY <1>3
<1> DEFINE h == [i \in 0..k |-> IF i = k THEN Next1(f[k - 1]) ELSE f[i]]
<1>5. \A i \in 0..k : h[i] = IF i = 0 THEN <<>> ELSE Next1(h[i - 1])
  BY <1>3, <1>4
<1>6. h = [i \in 0..k |-> IF i = 0 THEN <<>> ELSE Next1(h[i - 1])]
  BY <1>5
<1> QED
  BY <1>1, <1>6

\* An order in which the edges that count lead to earlier places.
InOrder(E, chains, order) ==
    \A q \in DOMAIN order : \A e \in E[order[q]] :
        e[2] \in chains => \E p \in 1..(q - 1) : order[p] = e[1]

\* A sequence of k different commands of S, every one behind what it waits for.
Partial(E, chains, S, order, k) ==
    /\ order \in Seq(S) /\ Len(order) = k
    /\ \A p, q \in 1..k : order[p] = order[q] => p = q
    /\ IsFiniteSet(Range(order)) /\ Cardinality(Range(order)) = k
    /\ InOrder(E, chains, order)

\* One more command is placed.
LEMMA PlaceOne ==
    ASSUME NEW n \in Nat, NEW S \in SUBSET (1..n), NEW E, IsEdges(E, S), NEW chains,
           NEW k \in Nat, k < Cardinality(S), NEW s, Partial(E, chains, S, s, k)
    PROVE  Partial(E, chains, S, Append(s, Best(E, Ready(E, chains, Range(s)))), k + 1)
<1> DEFINE ready == Ready(E, chains, Range(s))
           b == Best(E, ready)
           t == Append(s, b)
<1>1. /\ s \in Seq(S) /\ Len(s) = k /\ DOMAIN s = 1..k
      /\ \A p \in 1..k : s[p] \in S
      /\ Range(s) = {s[p] : p \in 1..k}
  BY DEF Partial, Range
<1>2. \E j \in S \ Range(s) : TRUE
  <2>1. Range(s) \in SUBSET S
    BY <1>1
  <2>2. S # Range(s)
    BY DEF Partial
  <2> QED BY <2>1, <2>2
<1>3. ready \in SUBSET S
  BY DEF Ready, IsEdges
<1>4. b \in ready
  <2>1. \E j \in S : j \in ready
    BY <1>2, SomeReady
  <2> HIDE DEF ready
  <2> QED BY <1>3, <2>1, BestIsReady
<1>5. b \in S /\ b \notin Range(s) /\ Met(E, chains, Range(s), b)
  <2> HIDE DEF b
  <2>1. b \in S
    BY <1>3, <1>4
  <2> QED
    BY <1>4, <2>1, ReadyIsMet DEF ready
<1> HIDE DEF b
<1>6. /\ t \in Seq(S) /\ Len(t) = k + 1 /\ DOMAIN t = 1..(k + 1)
      /\ \A p \in 1..k : t[p] = s[p]
      /\ t[k + 1] = b
  BY <1>1, <1>5
<1> HIDE DEF t
<1>7. \A p, q \in 1..(k + 1) : t[p] = t[q] => p = q
  <2> SUFFICES ASSUME NEW p \in 1..(k + 1), NEW q \in 1..(k + 1), t[p] = t[q]
               PROVE  p = q
    OBVIOUS
  <2>1. \A m \in 1..k : t[m] # b
    BY <1>1, <1>5, <1>6
  <2>2. \A l, m \in 1..k : s[l] = s[m] => l = m
    BY DEF Partial
  <2> QED
    BY <1>6, <2>1, <2>2
<1>8. Range(t) = Range(s) \cup {b}
  <2>1. ASSUME NEW p \in 1..(k + 1) PROVE t[p] \in Range(s) \cup {b}
    BY <1>1, <1>6
  <2>2. \A p \in 1..k : s[p] \in Range(t)
    BY <1>6 DEF Range
  <2>3. b \in Range(t)
    BY <1>6 DEF Range
  <2>4. Range(t) = {t[p] : p \in 1..(k + 1)}
    BY <1>6 DEF Range
  <2> QED
    BY <1>1, <2>1, <2>2, <2>3, <2>4
<1>9. IsFiniteSet(Range(t)) /\ Cardinality(Range(t)) = k + 1
  <2>1. IsFiniteSet(Range(s)) /\ Cardinality(Range(s)) = k
    BY DEF Partial
  <2> QED
    BY <1>5, <1>8, <2>1, FS_AddElement
<1>10. InOrder(E, chains, t)
  <2> SUFFICES ASSUME NEW q \in 1..(k + 1), NEW e, e \in E[t[q]], e[2] \in chains
               PROVE  \E p \in 1..(q - 1) : t[p] = e[1]
    BY <1>6 DEF InOrder
  <2>1. CASE q = k + 1
    <3>1. e[1] \in Range(s)
      BY <1>5, <1>6, <2>1 DEF Met
    <3> QED
      BY <1>1, <1>6, <2>1, <3>1
  <2>2. CASE q \in 1..k
    <3>1. \E p \in 1..(q - 1) : s[p] = e[1]
      BY <1>1, <1>6, <2>2 DEF Partial, InOrder
    <3> QED
      BY <1>6, <2>2, <3>1
  <2> QED
    BY <2>1, <2>2
<1> QED
  BY <1>6, <1>7, <1>9, <1>10 DEF Partial, t, b

\* All commands are placed.
LEMMA PlacedOrders ==
    ASSUME NEW n \in Nat, NEW S \in SUBSET (1..n), NEW E, IsEdges(E, S), NEW chains
    PROVE  Partial(E, chains, S, Placed(E, chains, Cardinality(S)), Cardinality(S))
<1> DEFINE c == Cardinality(S)
           Next1(s) == Append(s, Best(E, Ready(E, chains, Range(s))))
<1>1. c \in Nat
  BY SelectionFinite
<1> HIDE DEF c
<1>2. PICK f : /\ f = [i \in 0..c |-> IF i = 0 THEN <<>> ELSE Next1(f[i - 1])]
               /\ Placed(E, chains, c) = f[c]
  <2> DEFINE place == CHOOSE f : f = [i \in 0..c |->
                         IF i = 0 THEN <<>>
                         ELSE LET s == f[i - 1]
                              IN Append(s, Best(E, Ready(E, chains, Range(s))))]
  <2>1. place = [i \in 0..c |->
                         IF i = 0 THEN <<>>
                         ELSE LET s == place[i - 1]
                              IN Append(s, Best(E, Ready(E, chains, Range(s))))]
    <3>1. \E f : IsPlace(f, E, chains, c)
      BY <1>1, PlacedExists
    <3> QED BY <3>1, Zenon DEF IsPlace
  <2>2. Placed(E, chains, c) = place[c]
    BY DEF Placed
  <2> HIDE DEF place
  <2> QED
    BY <2>1, <2>2
<1> HIDE DEF Next1
<1> DEFINE T == {k \in 0..c : ~Partial(E, chains, S, f[k], k)}
<1>3. Partial(E, chains, S, f[0], 0)
  <2>1. f[0] = <<>>
    BY <1>1, <1>2
  <2>2. <<>> \in Seq(S) /\ Len(<<>>) = 0 /\ Range(<<>>) = {} /\ DOMAIN <<>> = {}
    BY DEF Range
  <2>3. IsFiniteSet({}) /\ Cardinality({}) = 0
    BY FS_EmptySet
  <2>4. Partial(E, chains, S, <<>>, 0)
    BY <2>2, <2>3 DEF Partial, InOrder
  <2> QED
    BY <2>1, <2>4
<1>4. ASSUME NEW k \in 0..c, k \in T PROVE FALSE
  <2>1. PICK m \in T : \A l \in T : m <= l
    <3>1. T \in SUBSET Nat
      BY <1>1
    <3> HIDE DEF T
    <3> QED BY <1>4, <3>1, LeastNat
  <2>2. m # 0 /\ m - 1 \in 0..c /\ m \in Nat /\ m - 1 < c /\ m - 1 \in Nat
    BY <1>1, <1>3, <2>1
  <2>3. Partial(E, chains, S, f[m - 1], m - 1)
    BY <2>1, <2>2
  <2>4. Partial(E, chains, S, Next1(f[m - 1]), m - 1 + 1)
    BY <2>2, <2>3, PlaceOne DEF c, Next1
  <2>5. f[m] = Next1(f[m - 1]) /\ m - 1 + 1 = m
    BY <1>2, <2>1, <2>2
  <2> QED
    BY <2>1, <2>4, <2>5
<1> QED
  BY <1>1, <1>2, <1>4 DEF c

\* What is asked of a graph here: its commands access resources that there are.
IsGraph(g, n) ==
    /\ n \in Nat /\ DOMAIN g = 1..n
    /\ \A i \in 1..n : UsesOf(g[i]) \subseteq Resources

\* The edges that add_resource_chain adds lead to earlier commands.
LEMMA EdgesAreEdges ==
    ASSUME NEW g, NEW n, IsGraph(g, n), NEW S \in SUBSET (1..n)
    PROVE  IsEdges(Edges(g, S), S)
<1>1. ASSUME NEW j \in S
      PROVE  /\ Edges(g, S)[j] \in SUBSET (S \X Resources)
             /\ \A e \in Edges(g, S)[j] : e[1] < j
  BY DEF Edges, IsGraph
<1>2. Edges(g, S) = [j \in S |-> Edges(g, S)[j]]
  BY DEF Edges
<1> QED
  BY <1>1, <1>2 DEF IsEdges

\* A chain that is not looked at equals one that is.
LEMMA ChainRepresents ==
    ASSUME NEW g, NEW S, NEW r \in Resources
    PROVE  \E t \in ChainResources(g, S) : t \in Resources /\ Users(g, t) = Users(g, r)
<1> DEFINE T == {t \in 1..r : \A s \in t..r : Users(g, s) = Users(g, r)}
<1>1. r \in Nat /\ r # 0 /\ R \in Nat /\ Resources = 1..R
  BY SizeAssumption DEF Resources
<1>2. r \in T
  BY <1>1
<1>3. PICK t \in T : \A s \in T : t <= s
  <2>1. T \in SUBSET Nat
    BY <1>1
  <2> HIDE DEF T
  <2> QED BY <1>2, <2>1, LeastNat
<1>4. t \in Resources /\ Users(g, t) = Users(g, r)
  BY <1>1, <1>3
<1>5. t = 1 \/ Users(g, t) # Users(g, t - 1)
  <2> SUFFICES ASSUME t # 1, Users(g, t) = Users(g, t - 1) PROVE FALSE
    OBVIOUS
  <2>1. t \in Nat /\ t - 1 \in 1..r /\ ~(t <= t - 1)
    BY <1>1, <1>3
  <2>2. \A s \in (t - 1)..r : s = t - 1 \/ s \in t..r
    BY <1>1, <2>1
  <2>3. t - 1 \in T
    BY <1>3, <1>4, <2>1, <2>2
  <2> QED
    BY <1>3, <2>1, <2>3
<1> QED
  BY <1>4, <1>5 DEF ChainResources

\* A selected user of a resource is behind every earlier selected one, because
\* each waits for the one before it.
LEMMA ChainIsOrdered ==
    ASSUME NEW g, NEW n, IsGraph(g, n), NEW S \in SUBSET (1..n), NEW chains, NEW order,
           NEW k, Partial(Edges(g, S), chains, S, order, k), Range(order) = S,
           NEW r \in chains, NEW i \in S, NEW j \in S, i < j,
           i \in Users(g, r), j \in Users(g, r)
    PROVE  \E p, q \in 1..Len(order) : order[p] = i /\ order[q] = j /\ p < q
<1> DEFINE Before(l, m) == \E p, q \in 1..Len(order) : order[p] = l /\ order[q] = m /\ p < q
           Chain == {m \in S : m \in Users(g, r)}
           T == {m \in Chain : \E l \in Chain : l < m /\ ~Before(l, m)}
<1>1. order \in Seq(S) /\ DOMAIN order = 1..Len(order) /\ Len(order) \in Nat
  BY DEF Partial
<1>2. \A p, q \in 1..Len(order) : order[p] = order[q] => p = q
  BY DEF Partial
<1>3. \A m \in S : m \in Nat
  OBVIOUS
<1> SUFFICES ASSUME ~Before(i, j) PROVE FALSE
  OBVIOUS
<1> HIDE DEF Before
<1>4. j \in T
  OBVIOUS
<1>5. PICK m \in T : \A l \in T : m <= l
  <2>1. T \in SUBSET Nat
    BY <1>3
  <2> HIDE DEF T
  <2> QED BY <1>4, <2>1, LeastNat
<1>6. PICK l \in Chain : l < m /\ ~Before(l, m)
  BY <1>5
<1> DEFINE U == {h \in Chain : h < m}
<1>7. PICK h \in U : \A x \in U : x <= h
  <2>1. m \in Nat /\ \A x \in Chain : x \in Nat
    BY <1>3, <1>5
  <2>2. U \in SUBSET Nat /\ l \in U /\ \A x \in U : x <= m
    <3> HIDE DEF T, Chain
    <3> QED BY <2>1, <1>6
  <2> HIDE DEF U
  <2> QED BY <2>1, <2>2, GreatestNat
<1>8. h \in Chain /\ h < m /\ h \in Nat /\ m \in Chain /\ m \in Nat /\ l \in Nat /\ l <= h
  BY <1>3, <1>5, <1>6, <1>7
<1>9. <<h, r>> \in Edges(g, S)[m]
  <2>1. r \in UsesOf(g[m]) /\ h \in S /\ m \in S /\ h \in Users(g, r)
    BY <1>8 DEF Users
  <2>2. Users(g, r) \cap S \cap ((h + 1)..(m - 1)) = {}
    <3> SUFFICES ASSUME NEW x \in S, x \in Users(g, r), x \in (h + 1)..(m - 1) PROVE FALSE
      OBVIOUS
    <3>1. x \in Nat /\ h < x /\ x < m
      BY <1>8, <1>3
    <3>2. x \in U
      BY <3>1
    <3> QED
      BY <1>7, <1>8, <3>1, <3>2
  <2> QED
    BY <1>8, <2>1, <2>2 DEF Edges
<1>10. Before(h, m)
  <2>1. PICK q \in 1..Len(order) : order[q] = m
    BY <1>1, <1>8 DEF Range
  <2>2. \E p \in 1..(q - 1) : order[p] = h
    <3>1. InOrder(Edges(g, S), chains, order)
      BY DEF Partial
    <3>2. <<h, r>>[1] = h /\ <<h, r>>[2] = r
      OBVIOUS
    <3> QED
      BY <1>1, <1>9, <2>1, <3>1, <3>2 DEF InOrder
  <2> QED
    BY <1>1, <2>1, <2>2 DEF Before
<1>11. l # h
  BY <1>6, <1>10
<1>12. h \notin T
  BY <1>5, <1>8
<1>13. Before(l, h)
  BY <1>6, <1>8, <1>11, <1>12
<1>14. Before(l, m)
  <2>1. PICK p, q \in 1..Len(order) : order[p] = l /\ order[q] = h /\ p < q
    BY <1>13 DEF Before
  <2>2. PICK s, t \in 1..Len(order) : order[s] = h /\ order[t] = m /\ s < t
    BY <1>10 DEF Before
  <2>3. q = s
    BY <1>2, <2>1, <2>2
  <2> QED
    BY <1>1, <2>1, <2>2, <2>3 DEF Before
<1> QED
  BY <1>6, <1>14

\* An order of the selected commands: each once, and those that share a resource
\* as they are in the graph.
IsOrder(g, S, order) ==
    /\ order \in Seq(S) /\ Range(order) = S
    /\ \A p, q \in 1..Len(order) : order[p] = order[q] => p = q
    /\ \A p, q \in 1..Len(order) :
         order[p] < order[q] /\ UsesOf(g[order[p]]) \cap UsesOf(g[order[q]]) # {} => p < q

\* Schedule::reorder_cmds: a reordered selection keeps the relative order of any two
\* commands that share a resource, whichever chains are looked at.
LEMMA ReorderIsOrder ==
    ASSUME NEW g, NEW n, IsGraph(g, n), NEW S \in SUBSET (1..n)
    PROVE  IsOrder(g, S, Reorder(g, S))
<1>1. n \in Nat /\ DOMAIN g = 1..n /\ \A i \in S : i \in Nat
  BY DEF IsGraph
<1>2. IsFiniteSet(S) /\ Cardinality(S) \in Nat
  BY <1>1, SelectionFinite
<1>3. CASE Cardinality(S) < 3
  <2> DEFINE order == Sorted(S)
             k == Cardinality(S)
  <2>1. /\ order \in [1..k -> S]
        /\ \A i \in S : \E p \in 1..k : order[p] = i
        /\ \A p, q \in 1..k : p < q => order[p] < order[q]
    BY <1>1, SortedEnumerates
  <2> HIDE DEF order, k
  <2>2. k \in Nat
    BY <1>2 DEF k
  <2>3. order \in Seq(S) /\ Len(order) = k /\ DOMAIN order = 1..k
    BY <2>1, <2>2
  <2>4. Range(order) = S
    BY <2>1, <2>3 DEF Range
  <2>5. \A p \in 1..k : order[p] \in Nat
    BY <1>1, <2>1
  <2>6. ASSUME NEW p \in 1..k, NEW q \in 1..k, order[p] <= order[q]
        PROVE  p <= q
    <3>1. q < p => order[q] < order[p]
      BY <2>1
    <3> QED
      BY <2>2, <2>5, <2>6, <3>1
  <2>7. \A p, q \in 1..k : order[p] = order[q] => p = q
    BY <2>2, <2>5, <2>6
  <2>8. \A p, q \in 1..k : order[p] < order[q] => p < q
    <3> SUFFICES ASSUME NEW p \in 1..k, NEW q \in 1..k, order[p] < order[q] PROVE p < q
      OBVIOUS
    <3>1. p <= q /\ p # q
      BY <2>5, <2>6
    <3> QED BY <2>2, <3>1
  <2>9. IsOrder(g, S, order)
    BY <2>3, <2>4, <2>7, <2>8 DEF IsOrder
  <2> QED
    BY <1>3, <2>9 DEF Reorder, order
<1>4. CASE ~(Cardinality(S) < 3)
  <2> DEFINE chains == ChainResources(g, S)
             order == Placed(Edges(g, S), chains, Cardinality(S))
  <2>1. Partial(Edges(g, S), chains, S, order, Cardinality(S))
    BY <1>1, EdgesAreEdges, PlacedOrders
  <2> HIDE DEF order, chains
  <2>2. /\ order \in Seq(S) /\ DOMAIN order = 1..Len(order)
        /\ \A p \in 1..Len(order) : order[p] \in S
    BY <2>1 DEF Partial
  <2>3. Range(order) = S
    <3>1. Range(order) \in SUBSET S
      BY <2>2 DEF Range
    <3> QED
      BY <1>2, <2>1, <3>1, FS_Subset DEF Partial
  <2>4. \A p, q \in 1..Len(order) : order[p] = order[q] => p = q
    BY <2>1 DEF Partial
  <2>5. ASSUME NEW p \in 1..Len(order), NEW q \in 1..Len(order), order[p] < order[q],
               NEW r \in UsesOf(g[order[p]]) \cap UsesOf(g[order[q]])
        PROVE  p < q
    <3>1. PICK i \in S : i = order[p]
      BY <2>2
    <3>2. PICK j \in S : j = order[q]
      BY <2>2
    <3>3. r \in Resources /\ i \in Users(g, r) /\ j \in Users(g, r)
      BY <1>1, <2>5, <3>1, <3>2 DEF IsGraph, Users
    <3>4. PICK t \in chains : t \in Resources /\ Users(g, t) = Users(g, r)
      BY <3>3, ChainRepresents DEF chains
    <3>5. \E a, b \in 1..Len(order) : order[a] = i /\ order[b] = j /\ a < b
      BY <2>1, <2>3, <2>5, <3>1, <3>2, <3>3, <3>4, ChainIsOrdered
    <3> QED
      BY <2>4, <3>1, <3>2, <3>5
  <2>6. IsOrder(g, S, order)
    BY <2>2, <2>3, <2>4, <2>5 DEF IsOrder
  <2> QED
    BY <1>4, <2>6 DEF Reorder, order, chains
<1> QED
  BY <1>3, <1>4

-----------------------------------------------------------------------------
(* The selections                                                            *)

\* With a command, a selection has every earlier one it shares a resource with.
IsClosed(g, S) ==
    /\ S \subseteq DOMAIN g
    /\ \A j \in S : \A i \in DOMAIN g :
         i < j /\ UsesOf(g[i]) \cap UsesOf(g[j]) # {} => i \in S

\* Schedule::schedule_required_prefixes leaves nothing out.
LEMMA RequiredIsClosed ==
    ASSUME NEW g, NEW n, IsGraph(g, n), NEW start
    PROVE  IsClosed(g, Required(g, start))
<1>1. SUFFICES ASSUME NEW j \in Required(g, start), NEW i \in DOMAIN g, i < j,
                      NEW r \in UsesOf(g[i]), r \in UsesOf(g[j])
               PROVE  i \in Required(g, start)
  BY DEF IsClosed, Required
<1>2. j \in DOMAIN g /\ DOMAIN g \subseteq Nat
  BY DEF Required, IsGraph
<1>3. i \in Preceding(g, j)
  <2>1. i \in Prefix(g, r, j + 1)
    BY <1>1, <1>2 DEF Prefix, Users
  <2> QED
    BY <1>1, <2>1 DEF Preceding
<1>4. ASSUME NEW S \in SUBSET DOMAIN g, start \subseteq S,
             \A k \in S : Preceding(g, k) \subseteq S
      PROVE  i \in S
  <2>1. j \in S
    BY <1>4 DEF Required
  <2> QED
    BY <1>3, <1>4, <2>1
<1> QED
  BY <1>1, <1>4 DEF Required

\* Of what a selection has, only its first commands have an earlier user.
LEMMA RequiredIsLeast ==
    ASSUME NEW g, NEW start \in SUBSET DOMAIN g, NEW i \in Required(g, start), i \notin start
    PROVE  \E j \in Required(g, start) : j # i /\ i \in Preceding(g, j)
<1> SUFFICES ASSUME \A j \in Required(g, start) : j # i => i \notin Preceding(g, j)
             PROVE  FALSE
  OBVIOUS
<1> DEFINE Q == Required(g, start)
           S == Q \ {i}
<1>1. Q \in SUBSET DOMAIN g
  BY DEF Required
<1>2. start \subseteq Q
  BY DEF Required
<1>3. ASSUME NEW j \in Q, NEW k \in Preceding(g, j)
      PROVE  k \in Q
  <2>1. k \in DOMAIN g
    BY <1>3 DEF Preceding, Prefix, Users
  <2>2. ASSUME NEW T \in SUBSET DOMAIN g, start \subseteq T,
               \A l \in T : Preceding(g, l) \subseteq T
        PROVE  k \in T
    <3>1. j \in T
      BY <2>2, <1>3 DEF Required
    <3> QED BY <1>3, <2>2, <3>1
  <2> QED BY <2>1, <2>2 DEF Required
<1>4. S \in SUBSET DOMAIN g /\ start \subseteq S
  BY <1>1, <1>2
<1>5. \A j \in S : Preceding(g, j) \subseteq S
  BY <1>3
<1>6. i \in S
  <2> HIDE DEF S
  <2> QED BY <1>4, <1>5 DEF Required
<1> QED BY <1>6

\* A closed selection of the first commands is one of all commands.
LEMMA ClosedInPrefix ==
    ASSUME NEW g, NEW n, IsGraph(g, n), g \in Seq(Seq(Exec)), NEW k \in 1..n, NEW S,
           IsClosed(SubSeq(g, 1, k), S)
    PROVE  IsClosed(g, S) /\ IsGraph(SubSeq(g, 1, k), k)
<1> DEFINE h == SubSeq(g, 1, k)
<1>1. n \in Nat /\ DOMAIN g = 1..n /\ Len(g) = n
  BY DEF IsGraph
<1>2. DOMAIN h = 1..k /\ \A i \in 1..k : h[i] = g[i]
  BY <1>1
<1> HIDE DEF h
<1>3. k \in Nat /\ 1..k \subseteq 1..n /\ \A i \in 1..n, j \in 1..k : i < j => i \in 1..k
  BY <1>1
<1>4. IsGraph(h, k)
  BY <1>2, <1>3 DEF IsGraph
<1>5. IsClosed(g, S)
  <2>1. S \subseteq 1..k
    BY <1>2 DEF IsClosed, h
  <2>2. ASSUME NEW j \in S, NEW i \in 1..n, i < j, UsesOf(g[i]) \cap UsesOf(g[j]) # {}
        PROVE  i \in S
    <3>1. j \in 1..k /\ i \in 1..k
      BY <1>3, <2>1, <2>2
    <3> QED
      BY <1>2, <2>2, <3>1 DEF IsClosed, h
  <2> QED
    BY <1>1, <1>3, <2>1, <2>2 DEF IsClosed
<1> QED
  BY <1>4, <1>5 DEF h

-----------------------------------------------------------------------------
(* Merged                                                                    *)

\* Row src is in out, as it is, behind the first o executions of row c.
FitsAt(src, out, c, o) ==
    /\ c \in 1..Len(out) /\ o \in Nat
    /\ o + Len(src) <= Len(out[c])
    /\ \A x \in 1..Len(src) : out[c][o + x] = src[x]

\* The y-th execution of row c is one of src.
CoversAt(src, at, c, y) == c = at[1] /\ \E x \in 1..Len(src) : y = at[2] + x

\* Place at, with all of src, is before place bt.
Precedes(src, at, bt) == at[1] < bt[1] \/ (at[1] = bt[1] /\ at[2] + Len(src) <= bt[2])

\* The first k of the rows in src, laid out at the places at: each is whole,
\* nothing else is there, and the places are in their order.
IsLaid(src, k, out, at) ==
    /\ out \in Seq(Seq(Exec)) /\ \A c \in 1..Len(out) : out[c] # <<>>
    /\ at \in Seq(Nat \X Nat) /\ Len(at) = k
    /\ \A n \in 1..k : FitsAt(src[n], out, at[n][1], at[n][2])
    /\ \A c \in 1..Len(out) : \A y \in 1..Len(out[c]) : \E n \in 1..k : CoversAt(src[n], at[n], c, y)
    /\ \A p, q \in 1..k : p < q => Precedes(src[p], at[p], at[q])

\* Rows none of which is empty.
AreRows(src) == src \in Seq(Seq(Exec)) /\ \A n \in DOMAIN src : src[n] # <<>>

\* A command that starts a row of its own.
LEMMA LaidNext ==
    ASSUME NEW src, AreRows(src), NEW k \in Nat, k < Len(src), NEW out, NEW at,
           IsLaid(src, k, out, at)
    PROVE  IsLaid(src, k + 1, Append(out, src[k + 1]), Append(at, <<Len(out) + 1, 0>>))
<1>1. PICK cmd : cmd = src[k + 1]
  OBVIOUS
<1>2. PICK l : l = Len(out)
  OBVIOUS
<1>3. PICK out2 : out2 = Append(out, cmd)
  OBVIOUS
<1>4. PICK at2 : at2 = Append(at, <<l + 1, 0>>)
  OBVIOUS
<1>5. cmd \in Seq(Exec) /\ cmd # <<>> /\ Len(cmd) \in Nat
  BY <1>1 DEF AreRows
<1>6. /\ out \in Seq(Seq(Exec)) /\ at \in Seq(Nat \X Nat) /\ Len(at) = k /\ l \in Nat
      /\ \A c \in 1..l : out[c] # <<>>
  BY <1>2 DEF IsLaid
<1>7. /\ out2 \in Seq(Seq(Exec)) /\ Len(out2) = l + 1 /\ out2[l + 1] = cmd
      /\ \A c \in 1..l : out2[c] = out[c]
  BY <1>2, <1>3, <1>5, <1>6
<1>8. /\ at2 \in Seq(Nat \X Nat) /\ Len(at2) = k + 1 /\ at2[k + 1] = <<l + 1, 0>>
      /\ \A n \in 1..k : at2[n] = at[n]
  BY <1>4, <1>6
<1>9. \A c \in 1..(l + 1) : out2[c] # <<>>
  <2>1. \A c \in 1..(l + 1) : c = l + 1 \/ c \in 1..l
    BY <1>6
  <2> QED BY <1>5, <1>6, <1>7, <2>1
<1>10. ASSUME NEW n \in 1..(k + 1) PROVE FitsAt(src[n], out2, at2[n][1], at2[n][2])
  <2>1. CASE n = k + 1
    <3>1. FitsAt(cmd, out2, l + 1, 0)
      BY <1>5, <1>6, <1>7 DEF FitsAt
    <3> QED BY <1>1, <1>8, <2>1, <3>1
  <2>2. CASE n \in 1..k
    <3>1. ASSUME NEW row, NEW c, NEW o, FitsAt(row, out, c, o) PROVE FitsAt(row, out2, c, o)
      <4>1. c \in 1..l /\ c \in 1..(l + 1) /\ out2[c] = out[c]
        BY <1>2, <1>6, <1>7, <3>1 DEF FitsAt
      <4> QED BY <1>7, <3>1, <4>1 DEF FitsAt
    <3> QED BY <1>8, <2>2, <3>1 DEF IsLaid
  <2> QED BY <2>1, <2>2
<1>11. ASSUME NEW c \in 1..(l + 1), NEW y \in 1..Len(out2[c])
       PROVE  \E n \in 1..(k + 1) : CoversAt(src[n], at2[n], c, y)
  <2>1. CASE c = l + 1
    <3>1. y \in 1..Len(cmd) /\ y = 0 + y
      BY <1>7, <2>1
    <3>2. CoversAt(cmd, <<l + 1, 0>>, c, y)
      BY <2>1, <3>1 DEF CoversAt
    <3>3. k + 1 \in 1..(k + 1) /\ CoversAt(src[k + 1], at2[k + 1], c, y)
      BY <1>1, <1>8, <3>2
    <3> QED BY <3>3
  <2>2. CASE c \in 1..l
    <3>1. y \in 1..Len(out[c])
      BY <1>7, <2>2
    <3>2. \E n \in 1..k : CoversAt(src[n], at[n], c, y)
      BY <1>2, <2>2, <3>1 DEF IsLaid
    <3> QED BY <1>8, <3>2
  <2> QED BY <1>6, <2>1, <2>2
<1>12. ASSUME NEW p \in 1..(k + 1), NEW q \in 1..(k + 1), p < q
       PROVE  Precedes(src[p], at2[p], at2[q])
  <2>1. p \in 1..k
    BY <1>12
  <2>2. CASE q = k + 1
    <3>1. at[p][1] \in 1..l
      BY <1>2, <2>1 DEF IsLaid, FitsAt
    <3>2. at[p][1] < <<l + 1, 0>>[1]
      BY <1>6, <3>1
    <3> QED BY <1>8, <2>1, <2>2, <3>2 DEF Precedes
  <2>3. CASE q \in 1..k
    BY <1>8, <1>12, <2>1, <2>3 DEF IsLaid
  <2> QED BY <2>2, <2>3
<1>13. IsLaid(src, k + 1, out2, at2)
  BY <1>7, <1>8, <1>9, <1>10, <1>11, <1>12 DEF IsLaid
<1> QED
  BY <1>1, <1>2, <1>3, <1>4, <1>13

\* A command that joins the last row.
LEMMA LaidJoined ==
    ASSUME NEW src, AreRows(src), NEW k \in Nat, k < Len(src), NEW out, NEW at,
           IsLaid(src, k, out, at), out # <<>>
    PROVE  IsLaid(src, k + 1, [out EXCEPT ![Len(out)] = out[Len(out)] \o src[k + 1]],
                  Append(at, <<Len(out), Len(out[Len(out)])>>))
<1>1. PICK cmd : cmd = src[k + 1]
  OBVIOUS
<1>2. PICK l : l = Len(out)
  OBVIOUS
<1>3. PICK end : end = out[l]
  OBVIOUS
<1>4. PICK o : o = Len(end)
  OBVIOUS
<1>5. PICK out2 : out2 = [out EXCEPT ![l] = end \o cmd]
  OBVIOUS
<1>6. PICK at2 : at2 = Append(at, <<l, o>>)
  OBVIOUS
<1>7. cmd \in Seq(Exec) /\ cmd # <<>> /\ Len(cmd) \in Nat
  BY <1>1 DEF AreRows
<1>8. /\ out \in Seq(Seq(Exec)) /\ at \in Seq(Nat \X Nat) /\ Len(at) = k /\ l \in Nat
      /\ \A c \in 1..l : out[c] # <<>> /\ out[c] \in Seq(Exec)
      /\ l \in 1..l
  BY <1>2 DEF IsLaid
<1>9. end \in Seq(Exec) /\ o \in Nat /\ end # <<>>
  BY <1>3, <1>4, <1>8
<1>10. PICK new : new = end \o cmd
  OBVIOUS
<1>11. /\ new \in Seq(Exec) /\ Len(new) = o + Len(cmd) /\ new # <<>>
       /\ \A y \in 1..o : new[y] = end[y]
       /\ \A x \in 1..Len(cmd) : new[o + x] = cmd[x]
  BY <1>4, <1>7, <1>9, <1>10
<1>12. /\ out2 \in Seq(Seq(Exec)) /\ Len(out2) = l /\ out2[l] = new
       /\ \A c \in 1..l : c # l => out2[c] = out[c]
  <2>1. DOMAIN out = 1..l
    BY <1>2, <1>8
  <2>2. out2 = [c \in 1..l |-> IF c = l THEN new ELSE out[c]]
    BY <1>5, <1>10, <2>1
  <2>3. out2[l] = new /\ \A c \in 1..l : c # l => out2[c] = out[c]
    BY <1>8, <2>2
  <2>4. out2 \in [1..l -> Seq(Exec)]
    BY <1>8, <1>11, <2>2
  <2> QED BY <1>8, <2>3, <2>4
<1>13. /\ at2 \in Seq(Nat \X Nat) /\ Len(at2) = k + 1 /\ at2[k + 1] = <<l, o>>
       /\ \A n \in 1..k : at2[n] = at[n]
  <2>1. PICK e : e = <<l, o>> /\ e \in Nat \X Nat
    <3>1. l \in Nat /\ o \in Nat
      BY <1>8, <1>9
    <3>2. <<l, o>> \in Nat \X Nat
      BY <3>1
    <3> QED BY <3>2, Zenon
  <2>2. at2 = Append(at, e) /\ at \in Seq(Nat \X Nat) /\ Len(at) = k
    BY <1>6, <1>8, <2>1
  <2>3. at2 \in Seq(Nat \X Nat) /\ Len(at2) = k + 1
    BY <2>1, <2>2
  <2>4. at2[k + 1] = e /\ \A n \in 1..k : at2[n] = at[n]
    BY <2>2
  <2> QED BY <2>1, <2>3, <2>4
<1>14. \A c \in 1..l : out2[c] # <<>>
  BY <1>8, <1>11, <1>12
<1>15. ASSUME NEW n \in 1..(k + 1) PROVE FitsAt(src[n], out2, at2[n][1], at2[n][2])
  <2>1. CASE n = k + 1
    <3>1. FitsAt(cmd, out2, l, o)
      <4>1. l \in 1..Len(out2) /\ out2[l] = new /\ o \in Nat
        BY <1>8, <1>9, <1>11, <1>12
      <4>2. o + Len(cmd) <= Len(new) /\ \A x \in 1..Len(cmd) : new[o + x] = cmd[x]
        <5>1. Len(new) = o + Len(cmd) /\ o + Len(cmd) \in Nat
          BY <1>7, <1>9, <1>11
        <5>2. \A x \in 1..Len(cmd) : new[o + x] = cmd[x]
          BY <1>11
        <5> QED BY <5>1, <5>2
      <4> QED BY <4>1, <4>2 DEF FitsAt
    <3> QED BY <1>1, <1>13, <2>1, <3>1
  <2>2. CASE n \in 1..k
    <3>1. PICK row : row = src[n] /\ row \in Seq(Exec) /\ Len(row) \in Nat
      BY <2>2 DEF AreRows
    <3>2. ASSUME NEW c, NEW d, FitsAt(row, out, c, d) PROVE FitsAt(row, out2, c, d)
      <4>1. CASE c = l
        <5>1. d \in Nat /\ d + Len(row) <= o /\ \A x \in 1..Len(row) : end[d + x] = row[x]
          BY <1>3, <1>4, <3>2, <4>1 DEF FitsAt
        <5>2. d + Len(row) <= Len(new)
          BY <1>7, <1>9, <1>11, <3>1, <5>1
        <5>3. \A x \in 1..Len(row) : d + x \in 1..o
          BY <1>9, <3>1, <5>1
        <5> QED BY <1>8, <1>11, <1>12, <4>1, <5>1, <5>2, <5>3 DEF FitsAt
      <4>2. CASE c # l
        BY <1>2, <1>12, <3>2, <4>2 DEF FitsAt
      <4> QED BY <4>1, <4>2
    <3> QED BY <1>13, <2>2, <3>1, <3>2 DEF IsLaid
  <2> QED BY <2>1, <2>2
<1>16. ASSUME NEW c \in 1..l, NEW y \in 1..Len(out2[c])
       PROVE  \E n \in 1..(k + 1) : CoversAt(src[n], at2[n], c, y)
  <2>1. CASE y \in 1..Len(out[c])
    <3>1. \E n \in 1..k : CoversAt(src[n], at[n], c, y)
      BY <1>2, <2>1 DEF IsLaid
    <3> QED BY <1>13, <3>1
  <2>2. CASE y \notin 1..Len(out[c])
    <3>1. c = l
      BY <1>12, <2>2
    <3>2. y - o \in 1..Len(cmd) /\ y = o + (y - o)
      BY <1>3, <1>4, <1>7, <1>9, <1>11, <1>12, <2>2, <3>1
    <3>3. CoversAt(cmd, <<l, o>>, c, y)
      BY <3>1, <3>2 DEF CoversAt
    <3> QED BY <1>1, <1>13, <3>3
  <2> QED BY <2>1, <2>2
<1>17. ASSUME NEW p \in 1..(k + 1), NEW q \in 1..(k + 1), p < q
       PROVE  Precedes(src[p], at2[p], at2[q])
  <2>1. p \in 1..k
    BY <1>17
  <2>2. CASE q = k + 1
    <3>1. PICK c, d : c = at[p][1] /\ d = at[p][2]
      OBVIOUS
    <3>2. FitsAt(src[p], out, c, d)
      BY <2>1, <3>1 DEF IsLaid
    <3>3. c < l \/ (c = l /\ d + Len(src[p]) <= o)
      BY <1>2, <1>3, <1>4, <1>8, <3>2 DEF FitsAt
    <3>4. <<l, o>>[1] = l /\ <<l, o>>[2] = o
      OBVIOUS
    <3> QED BY <1>13, <2>1, <2>2, <3>1, <3>3, <3>4 DEF Precedes
  <2>3. CASE q \in 1..k
    BY <1>13, <1>17, <2>1, <2>3 DEF IsLaid
  <2> QED BY <2>2, <2>3
<1>18. IsLaid(src, k + 1, out2, at2)
  BY <1>12, <1>13, <1>14, <1>15, <1>16, <1>17 DEF IsLaid
<1> QED
  BY <1>1, <1>2, <1>3, <1>4, <1>5, <1>6, <1>18

\* f is the function that Merged defines by recursion, for the first k commands.
IsMerging(f, g, order, k) ==
    f = [n \in 0..k |->
           IF n = 0 THEN [cmds |-> <<>>, at |-> <<>>]
           ELSE LET m   == f[n - 1]
                    cmd == g[order[n]]
                IN IF m.cmds # <<>> /\ AllowMerge(m.cmds[Len(m.cmds)], cmd)
                     THEN JoinLast(m, cmd)
                     ELSE StartNext(m, cmd)]

\* There is such a function.
LEMMA MergingExists ==
    ASSUME NEW g, NEW order, NEW n \in Nat
    PROVE  \E f : IsMerging(f, g, order, n)
<1> DEFINE One(m, i) == LET cmd == g[order[i]]
                        IN IF m.cmds # <<>> /\ AllowMerge(m.cmds[Len(m.cmds)], cmd)
                             THEN JoinLast(m, cmd)
                             ELSE StartNext(m, cmd)
           Zero == [cmds |-> <<>>, at |-> <<>>]
           Has(k) == \E f : f = [i \in 0..k |-> IF i = 0 THEN Zero ELSE One(f[i - 1], i)]
           T == {k \in Nat : ~Has(k)}
<1> SUFFICES ASSUME n \in T PROVE FALSE
  BY DEF IsMerging
<1> HIDE DEF One, Zero
<1>1. PICK k \in T : \A m \in T : k <= m
  <2> HIDE DEF T
  <2> QED BY LeastNat DEF T
<1>2. Has(0)
  <2>1. [i \in 0..0 |-> Zero] =
          [i \in 0..0 |-> IF i = 0 THEN Zero ELSE One([j \in 0..0 |-> Zero][i - 1], i)]
    OBVIOUS
  <2> QED BY <2>1
<1>3. k # 0 /\ k - 1 \in Nat /\ Has(k - 1)
  <2> HIDE DEF Has
  <2>1. k # 0 /\ k \in Nat
    BY <1>1, <1>2
  <2>2. k - 1 \in Nat /\ ~(k <= k - 1)
    BY <2>1
  <2> QED BY <1>1, <2>1, <2>2
<1>4. PICK f : f = [i \in 0..(k - 1) |-> IF i = 0 THEN Zero ELSE One(f[i - 1], i)]
  BY <1>3
<1> DEFINE h == [i \in 0..k |-> IF i = k THEN One(f[k - 1], k) ELSE f[i]]
<1>5. \A i \in 0..k : h[i] = IF i = 0 THEN Zero ELSE One(h[i - 1], i)
  BY <1>3, <1>4
<1>6. h = [i \in 0..k |-> IF i = 0 THEN Zero ELSE One(h[i - 1], i)]
  BY <1>5
<1> QED
  BY <1>1, <1>6

\* merge_scheduled_cmds: the scheduled commands are laid out one after the other.
LEMMA MergedIsLaid ==
    ASSUME NEW g, NEW order, NEW src, AreRows(src), order \in Seq(DOMAIN g),
           Len(src) = Len(order), \A n \in 1..Len(order) : src[n] = g[order[n]]
    PROVE  IsLaid(src, Len(order), Merged(g, order).cmds, Merged(g, order).at)
<1>1. PICK c : c = Len(order) /\ c \in Nat
  OBVIOUS
<1> DEFINE One(m, i) == LET cmd == g[order[i]]
                        IN IF m.cmds # <<>> /\ AllowMerge(m.cmds[Len(m.cmds)], cmd)
                             THEN JoinLast(m, cmd)
                             ELSE StartNext(m, cmd)
           Zero == [cmds |-> <<>>, at |-> <<>>]
<1>2. PICK f : /\ f = [n \in 0..c |-> IF n = 0 THEN Zero ELSE One(f[n - 1], n)]
               /\ Merged(g, order) = f[c]
  <2> DEFINE merge == CHOOSE f : f = [n \in 0..Len(order) |->
           IF n = 0 THEN [cmds |-> <<>>, at |-> <<>>]
           ELSE LET m   == f[n - 1]
                    cmd == g[order[n]]
                IN IF m.cmds # <<>> /\ AllowMerge(m.cmds[Len(m.cmds)], cmd)
                     THEN JoinLast(m, cmd)
                     ELSE StartNext(m, cmd)]
  <2>1. merge = [n \in 0..Len(order) |->
           IF n = 0 THEN [cmds |-> <<>>, at |-> <<>>]
           ELSE LET m   == merge[n - 1]
                    cmd == g[order[n]]
                IN IF m.cmds # <<>> /\ AllowMerge(m.cmds[Len(m.cmds)], cmd)
                     THEN JoinLast(m, cmd)
                     ELSE StartNext(m, cmd)]
    <3>1. \E f : IsMerging(f, g, order, Len(order))
      BY <1>1, MergingExists
    <3> QED BY <3>1, Zenon DEF IsMerging
  <2>2. Merged(g, order) = merge[Len(order)]
    BY DEF Merged
  <2> HIDE DEF merge
  <2> QED
    BY <1>1, <2>1, <2>2
<1>3. \A n \in 1..c : f[n] = One(f[n - 1], n)
  <2> HIDE DEF One, Zero
  <2> QED BY <1>1, <1>2
<1>4. f[0] = Zero
  <2> HIDE DEF One, Zero
  <2> QED BY <1>1, <1>2
<1> DEFINE T == {k \in 0..c : ~IsLaid(src, k, f[k].cmds, f[k].at)}
<1>5. IsLaid(src, 0, <<>>, <<>>)
  BY DEF IsLaid
<1>6. IsLaid(src, 0, f[0].cmds, f[0].at)
  BY <1>4, <1>5
<1>7. ASSUME NEW k \in 0..c, k \in T PROVE FALSE
  <2>1. PICK m \in T : \A l \in T : m <= l
    <3>1. T \in SUBSET Nat
      BY <1>1
    <3> HIDE DEF T
    <3> QED BY <1>7, <3>1, LeastNat
  <2>2. m # 0 /\ m \in Nat /\ m \in 1..c /\ m - 1 \in 0..c /\ m - 1 \in Nat /\ m - 1 < c
    BY <1>1, <1>6, <2>1
  <2>3. PICK p : p = m - 1
    OBVIOUS
  <2>4. PICK s : s = f[p]
    OBVIOUS
  <2>5. p \in Nat /\ p < c /\ m = p + 1 /\ p \in 0..c
    BY <2>2, <2>3
  <2>6. IsLaid(src, p, s.cmds, s.at)
    <3>1. ~(m <= p)
      BY <2>2, <2>3
    <3> HIDE DEF T
    <3>2. p \notin T
      BY <2>1, <3>1
    <3> QED BY <2>4, <2>5, <3>2 DEF T
  <2>7. PICK cmd : cmd = g[order[m]] /\ cmd = src[p + 1]
    BY <1>1, <2>2, <2>5
  <2>8. IsLaid(src, p + 1, StartNext(s, cmd).cmds, StartNext(s, cmd).at)
    <3>1. IsLaid(src, p + 1, Append(s.cmds, src[p + 1]), Append(s.at, <<Len(s.cmds) + 1, 0>>))
      BY <1>1, <2>5, <2>6, LaidNext
    <3> QED BY <2>7, <3>1 DEF StartNext
  <2>9. ASSUME s.cmds # <<>>
        PROVE  IsLaid(src, p + 1, JoinLast(s, cmd).cmds, JoinLast(s, cmd).at)
    <3>1. PICK a, b : a = s.cmds /\ b = s.at
      OBVIOUS
    <3>2. IsLaid(src, p + 1, [a EXCEPT ![Len(a)] = a[Len(a)] \o src[p + 1]],
                  Append(b, <<Len(a), Len(a[Len(a)])>>))
      BY <1>1, <2>5, <2>6, <2>9, <3>1, LaidJoined
    <3>3. /\ JoinLast(s, cmd).cmds = [a EXCEPT ![Len(a)] = a[Len(a)] \o src[p + 1]]
          /\ JoinLast(s, cmd).at = Append(b, <<Len(a), Len(a[Len(a)])>>)
      BY <2>7, <3>1 DEF JoinLast
    <3> QED BY <3>2, <3>3
  <2>10. f[m] = StartNext(s, cmd) \/ (s.cmds # <<>> /\ f[m] = JoinLast(s, cmd))
    BY <1>3, <2>2, <2>3, <2>4, <2>7
  <2>11. IsLaid(src, m, f[m].cmds, f[m].at)
    BY <2>5, <2>8, <2>9, <2>10
  <2> QED BY <2>1, <2>11
<1>8. c \in 0..c
  BY <1>1
<1> QED
  BY <1>1, <1>2, <1>7, <1>8

-----------------------------------------------------------------------------
(* RecordEach                                                                *)

Entries == [exec : Exec \cup {Nothing}, before : SUBSET Marks, after : SUBSET Marks,
            with : Seq(Exec)]

\* What record_cmd_indices writes for the x-th execution of command i.
EntryOf(merged, Q, leased, i, x) ==
    Entry(merged[i][x], MarksAt(Q, i, x, "before"), MarksAt(Q, i, x, "after"), leased[i])

\* Command i is in the log, whole, behind the first o entries.
WrittenAt(merged, Q, leased, written, i, o) ==
    /\ o \in Nat /\ o + Len(merged[i]) <= Len(written)
    /\ \A x \in 1..Len(merged[i]) : written[o + x] = EntryOf(merged, Q, leased, i, x)

\* The first k commands are written one after the other, and nothing else is.
IsWritten(merged, Q, leased, written, off, k) ==
    /\ written \in Seq(Entries)
    /\ off \in Seq(Nat) /\ Len(off) = k
    /\ \A i \in 1..k : WrittenAt(merged, Q, leased, written, i, off[i])
    /\ \A p \in 1..Len(written) : \E i \in 1..k : \E x \in 1..Len(merged[i]) : p = off[i] + x
    /\ \A i, j \in 1..k : i < j => off[i] + Len(merged[i]) <= off[j]

\* Commands and queries that can be written.
CanWrite(merged, Q, leased) ==
    /\ merged \in Seq(Seq(Exec))
    /\ \A q \in Q : q.mark \in Marks
    /\ \A i \in 1..Len(merged) : leased[i] \in Seq(Exec)

\* Writing one command more.
LEMMA WriteNext ==
    ASSUME NEW merged, NEW Q, NEW leased, CanWrite(merged, Q, leased), NEW k \in Nat,
           k < Len(merged), NEW written, NEW off, IsWritten(merged, Q, leased, written, off, k)
    PROVE  IsWritten(merged, Q, leased,
                     written \o Record(merged[k + 1], k + 1, Q, leased[k + 1]),
                     Append(off, Len(written)), k + 1)
<1>1. PICK cmd : cmd = merged[k + 1]
  OBVIOUS
<1>2. PICK o : o = Len(written)
  OBVIOUS
<1>3. PICK new : new = Record(cmd, k + 1, Q, leased[k + 1])
  OBVIOUS
<1>4. PICK all : all = written \o new
  OBVIOUS
<1>5. PICK off2 : off2 = Append(off, o)
  OBVIOUS
<1>6. k + 1 \in 1..Len(merged) /\ cmd \in Seq(Exec) /\ Len(cmd) \in Nat /\ DOMAIN cmd = 1..Len(cmd)
  BY <1>1 DEF CanWrite
<1>7. /\ written \in Seq(Entries) /\ o \in Nat /\ off \in Seq(Nat) /\ Len(off) = k
  BY <1>2 DEF IsWritten
<1>8. \A x \in 1..Len(cmd) : EntryOf(merged, Q, leased, k + 1, x) \in Entries
  <2>1. ASSUME NEW x \in 1..Len(cmd) PROVE EntryOf(merged, Q, leased, k + 1, x) \in Entries
    <3>1. cmd[x] \in Exec /\ leased[k + 1] \in Seq(Exec)
      BY <1>6 DEF CanWrite
    <3>2. \A i, y, place : MarksAt(Q, i, y, place) \in SUBSET Marks
      BY DEF MarksAt, CanWrite
    <3> QED BY <1>1, <3>1, <3>2 DEF EntryOf, Entry, Entries
  <2> QED BY <2>1
<1>9. /\ new = [x \in 1..Len(cmd) |-> EntryOf(merged, Q, leased, k + 1, x)]
  BY <1>1, <1>3, <1>6 DEF Record, EntryOf
<1>10. /\ new \in Seq(Entries) /\ Len(new) = Len(cmd)
       /\ \A x \in 1..Len(cmd) : new[x] = EntryOf(merged, Q, leased, k + 1, x)
  BY <1>6, <1>8, <1>9
<1>11. /\ all \in Seq(Entries) /\ Len(all) = o + Len(cmd)
       /\ \A p \in 1..o : all[p] = written[p]
       /\ \A x \in 1..Len(cmd) : all[o + x] = new[x]
  BY <1>2, <1>4, <1>6, <1>7, <1>10
<1>12. /\ off2 \in Seq(Nat) /\ Len(off2) = k + 1 /\ off2[k + 1] = o
       /\ \A i \in 1..k : off2[i] = off[i]
  BY <1>5, <1>7
<1>13. ASSUME NEW i \in 1..(k + 1) PROVE WrittenAt(merged, Q, leased, all, i, off2[i])
  <2>1. CASE i = k + 1
    BY <1>1, <1>6, <1>7, <1>10, <1>11, <1>12, <2>1 DEF WrittenAt
  <2>2. CASE i \in 1..k
    <3>1. PICK l : l = Len(merged[i]) /\ l \in Nat
      <4>1. i \in 1..Len(merged)
        BY <2>2
      <4>2. merged[i] \in Seq(Exec)
        BY <4>1 DEF CanWrite
      <4> QED BY <4>2
    <3>2. ASSUME NEW d, WrittenAt(merged, Q, leased, written, i, d)
          PROVE  WrittenAt(merged, Q, leased, all, i, d)
      <4>1. d \in Nat /\ d + l <= o
        BY <1>2, <3>1, <3>2 DEF WrittenAt
      <4>2. d + l <= Len(all)
        BY <1>6, <1>7, <1>11, <3>1, <4>1
      <4>3. \A x \in 1..l : d + x \in 1..o
        BY <1>7, <3>1, <4>1
      <4> QED BY <1>11, <3>1, <3>2, <4>1, <4>2, <4>3 DEF WrittenAt
    <3> QED BY <1>12, <2>2, <3>2 DEF IsWritten
  <2> QED BY <2>1, <2>2
<1>14. ASSUME NEW p \in 1..Len(all)
       PROVE  \E i \in 1..(k + 1) : \E x \in 1..Len(merged[i]) : p = off2[i] + x
  <2>1. CASE p \in 1..o
    <3>1. \E i \in 1..k : \E x \in 1..Len(merged[i]) : p = off[i] + x
      BY <1>2, <2>1 DEF IsWritten
    <3> QED BY <1>12, <3>1
  <2>2. CASE p \notin 1..o
    <3>1. p - o \in 1..Len(cmd) /\ p = o + (p - o)
      BY <1>6, <1>7, <1>11, <2>2
    <3>2. k + 1 \in 1..(k + 1)
      OBVIOUS
    <3> QED BY <1>1, <1>12, <3>1, <3>2
  <2> QED BY <2>1, <2>2
<1>15. ASSUME NEW i \in 1..(k + 1), NEW j \in 1..(k + 1), i < j
       PROVE  off2[i] + Len(merged[i]) <= off2[j]
  <2>1. i \in 1..k
    BY <1>15
  <2>2. CASE j = k + 1
    BY <1>2, <1>12, <2>1, <2>2 DEF IsWritten, WrittenAt
  <2>3. CASE j \in 1..k
    BY <1>12, <1>15, <2>1, <2>3 DEF IsWritten
  <2> QED BY <2>2, <2>3
<1>16. IsWritten(merged, Q, leased, all, off2, k + 1)
  BY <1>11, <1>12, <1>13, <1>14, <1>15 DEF IsWritten
<1> QED
  BY <1>1, <1>2, <1>3, <1>4, <1>5, <1>16

\* f is the function that RecordEach defines by recursion, for the first k commands.
IsRecording(f, merged, Q, leased, k) ==
    f = [i \in 0..k |->
           IF i = 0 THEN <<>>
           ELSE f[i - 1] \o Record(merged[i], i, Q, leased[i])]

\* There is such a function.
LEMMA RecordingExists ==
    ASSUME NEW merged, NEW Q, NEW leased, NEW n \in Nat
    PROVE  \E f : IsRecording(f, merged, Q, leased, n)
<1> DEFINE One(s, i) == s \o Record(merged[i], i, Q, leased[i])
           Has(k) == \E f : f = [i \in 0..k |-> IF i = 0 THEN <<>> ELSE One(f[i - 1], i)]
           T == {k \in Nat : ~Has(k)}
<1> SUFFICES ASSUME n \in T PROVE FALSE
  BY DEF IsRecording
<1> HIDE DEF One
<1>1. PICK k \in T : \A m \in T : k <= m
  <2> HIDE DEF T
  <2> QED BY LeastNat DEF T
<1>2. Has(0)
  <2>1. [i \in 0..0 |-> <<>>] =
          [i \in 0..0 |-> IF i = 0 THEN <<>> ELSE One([j \in 0..0 |-> <<>>][i - 1], i)]
    OBVIOUS
  <2> QED BY <2>1
<1>3. k # 0 /\ k - 1 \in Nat /\ Has(k - 1)
  <2> HIDE DEF Has
  <2>1. k # 0 /\ k \in Nat
    BY <1>1, <1>2
  <2>2. k - 1 \in Nat /\ ~(k <= k - 1)
    BY <2>1
  <2> QED BY <1>1, <2>1, <2>2
<1>4. PICK f : f = [i \in 0..(k - 1) |-> IF i = 0 THEN <<>> ELSE One(f[i - 1], i)]
  BY <1>3
<1> DEFINE h == [i \in 0..k |-> IF i = k THEN One(f[k - 1], k) ELSE f[i]]
<1>5. \A i \in 0..k : h[i] = IF i = 0 THEN <<>> ELSE One(h[i - 1], i)
  BY <1>3, <1>4
<1>6. h = [i \in 0..k |-> IF i = 0 THEN <<>> ELSE One(h[i - 1], i)]
  BY <1>5
<1> QED
  BY <1>1, <1>6

\* record_scheduled_cmds writes every merged command, one after the other.
LEMMA RecordEachWrites ==
    ASSUME NEW merged, NEW Q, NEW leased, CanWrite(merged, Q, leased)
    PROVE  \E off : IsWritten(merged, Q, leased, RecordEach(merged, Q, leased), off, Len(merged))
<1>1. PICK c : c = Len(merged) /\ c \in Nat
  BY DEF CanWrite
<1> DEFINE One(s, i) == s \o Record(merged[i], i, Q, leased[i])
<1>2. PICK f : /\ f = [i \in 0..c |-> IF i = 0 THEN <<>> ELSE One(f[i - 1], i)]
               /\ RecordEach(merged, Q, leased) = f[c]
  <2> DEFINE record == CHOOSE f : f = [i \in 0..Len(merged) |->
           IF i = 0 THEN <<>>
           ELSE f[i - 1] \o Record(merged[i], i, Q, leased[i])]
  <2>1. record = [i \in 0..Len(merged) |->
           IF i = 0 THEN <<>>
           ELSE record[i - 1] \o Record(merged[i], i, Q, leased[i])]
    <3>1. \E f : IsRecording(f, merged, Q, leased, Len(merged))
      BY <1>1, RecordingExists
    <3> QED BY <3>1, Zenon DEF IsRecording
  <2>2. RecordEach(merged, Q, leased) = record[Len(merged)]
    BY DEF RecordEach
  <2> HIDE DEF record
  <2> QED
    BY <1>1, <2>1, <2>2
<1>3. \A i \in 1..c : f[i] = One(f[i - 1], i)
  <2> HIDE DEF One
  <2> QED BY <1>1, <1>2
<1>4. f[0] = <<>>
  <2> HIDE DEF One
  <2> QED BY <1>1, <1>2
<1> DEFINE Good(k) == \E off : IsWritten(merged, Q, leased, f[k], off, k)
           T == {k \in 0..c : ~Good(k)}
<1>5. Good(0)
  <2>1. IsWritten(merged, Q, leased, <<>>, <<>>, 0)
    BY DEF IsWritten
  <2> QED BY <1>4, <2>1
<1>6. ASSUME NEW k \in 0..c, k \in T PROVE FALSE
  <2> HIDE DEF Good
  <2>1. PICK m \in T : \A l \in T : m <= l
    <3>1. T \in SUBSET Nat
      BY <1>1
    <3> HIDE DEF T
    <3> QED BY <1>6, <3>1, LeastNat
  <2>2. m # 0 /\ m \in Nat /\ m \in 1..c
    BY <1>1, <1>5, <2>1
  <2>3. PICK p : p = m - 1
    OBVIOUS
  <2>4. p \in Nat /\ p < c /\ m = p + 1 /\ p \in 0..c /\ ~(m <= p)
    BY <1>1, <2>2, <2>3
  <2>5. Good(p)
    BY <2>1, <2>4
  <2>6. PICK off : IsWritten(merged, Q, leased, f[p], off, p)
    BY <2>5 DEF Good
  <2>7. PICK s : s = f[p]
    OBVIOUS
  <2>8. IsWritten(merged, Q, leased, s \o Record(merged[p + 1], p + 1, Q, leased[p + 1]),
                  Append(off, Len(s)), p + 1)
    BY <1>1, <2>4, <2>6, <2>7, WriteNext
  <2>9. f[m] = s \o Record(merged[p + 1], p + 1, Q, leased[p + 1])
    BY <1>3, <2>2, <2>3, <2>4, <2>7
  <2>10. Good(m)
    BY <2>4, <2>8, <2>9 DEF Good
  <2> QED BY <2>1, <2>10
<1>7. c \in 0..c /\ Good(c)
  <2>1. c \in 0..c
    BY <1>1
  <2> HIDE DEF Good
  <2> QED BY <1>6, <2>1
<1> QED
  BY <1>1, <1>2, <1>7

-----------------------------------------------------------------------------
(* The graph after merging                                                   *)

\* The commands of g are in h, whole and nothing else, at these places; those that
\* share a resource are in the order they had.
IsRegrouped(g, h, place) ==
    /\ AreRows(h)
    /\ \A i \in 1..Len(g) : FitsAt(g[i], h, place[i][1], place[i][2])
    /\ \A c \in 1..Len(h) : \A y \in 1..Len(h[c]) :
         \E i \in 1..Len(g) : CoversAt(g[i], place[i], c, y)
    /\ \A i, j \in 1..Len(g) :
         i < j /\ UsesOf(g[i]) \cap UsesOf(g[j]) # {} => Precedes(g[i], place[i], place[j])

\* What was not scheduled is put back behind the merged commands.
PutBack(g, m, rest) == m.cmds \o [n \in DOMAIN rest |-> g[rest[n]]]

\* The commands in U, of n, in their order.
IsRest(rest, U, n) ==
    /\ rest \in Seq(1..n) /\ Range(rest) = U
    /\ \A p, q \in 1..Len(rest) : p < q => rest[p] < rest[q]
    /\ \A p, q \in 1..Len(rest) : rest[p] = rest[q] => p = q
    /\ \A p, q \in 1..Len(rest) : rest[p] < rest[q] => p < q

\* What is put back keeps its order.
LEMMA UnscheduledIsRest ==
    ASSUME NEW g, AreRows(g), NEW S \in SUBSET (1..Len(g)), NEW order, Range(order) = S
    PROVE  IsRest(Unscheduled(g, order), (1..Len(g)) \ S, Len(g))
<1> DEFINE U == (1..Len(g)) \ S
           k == Cardinality(U)
           rest == Sorted(U)
<1>1. Len(g) \in Nat /\ DOMAIN g = 1..Len(g)
  BY DEF AreRows
<1>2. Unscheduled(g, order) = rest
  BY <1>1 DEF Unscheduled
<1>3. U \in SUBSET (1..Len(g))
  OBVIOUS
<1> HIDE DEF U
<1>4. /\ k \in Nat
      /\ rest \in [1..k -> U]
      /\ \A i \in U : \E p \in 1..k : rest[p] = i
      /\ \A p, q \in 1..k : p < q => rest[p] < rest[q]
  BY <1>1, <1>3, SelectionFinite, SortedEnumerates
<1> HIDE DEF rest, k
<1>5. \A i \in U : i \in 1..Len(g) /\ i \in Nat
  BY <1>1, <1>3
<1>6. /\ rest \in Seq(1..Len(g)) /\ Len(rest) = k /\ DOMAIN rest = 1..k
  <2>1. rest \in [1..k -> 1..Len(g)]
    BY <1>4, <1>5
  <2> QED BY <1>4, <2>1
<1>7. Range(rest) = U
  BY <1>4, <1>6 DEF Range
<1>8. \A p \in 1..k : rest[p] \in Nat
  BY <1>4, <1>5
<1>9. ASSUME NEW p \in 1..k, NEW q \in 1..k, ~(p < q) PROVE ~(rest[p] < rest[q])
  <2>1. p = q \/ q < p
    BY <1>4, <1>9
  <2>2. q < p => rest[q] < rest[p]
    BY <1>4
  <2> QED BY <1>8, <2>1, <2>2
<1>10. ASSUME NEW p \in 1..k, NEW q \in 1..k, rest[p] = rest[q] PROVE p = q
  <2>1. p = q \/ q < p \/ p < q
    BY <1>4, <1>10
  <2> QED BY <1>4, <1>8, <1>10, <2>1
<1> QED
  BY <1>2, <1>4, <1>6, <1>7, <1>9, <1>10 DEF U, IsRest

\* merge_scheduled_cmds moves whole commands and keeps the order of any two that
\* share a resource.
LEMMA MergeRegroups ==
    ASSUME NEW g, AreRows(g), NEW S, IsClosed(g, S), NEW order, IsOrder(g, S, order),
           NEW m, m = Merged(g, order), NEW rest, rest = Unscheduled(g, order)
    PROVE  IsRegrouped(g, PutBack(g, m, rest),
                       [i \in 1..Len(g) |-> NewPlace(m, order, rest, i)])
<1>1. PICK len : len = Len(g) /\ len \in Nat
  BY DEF AreRows
<1>2. /\ g \in Seq(Seq(Exec)) /\ DOMAIN g = 1..len /\ S \in SUBSET (1..len)
      /\ \A i \in 1..len : g[i] \in Seq(Exec) /\ g[i] # <<>> /\ Len(g[i]) \in Nat
  BY <1>1 DEF AreRows, IsClosed
<1>3. /\ order \in Seq(S) /\ Range(order) = S /\ DOMAIN order = 1..Len(order)
      /\ Len(order) \in Nat /\ \A p \in 1..Len(order) : order[p] \in S
      /\ \A p, q \in 1..Len(order) : order[p] = order[q] => p = q
  BY DEF IsOrder
<1>4. /\ rest \in Seq(1..len) /\ Range(rest) = (1..len) \ S
      /\ DOMAIN rest = 1..Len(rest) /\ Len(rest) \in Nat
      /\ \A p \in 1..Len(rest) : rest[p] \in 1..len
      /\ \A p, q \in 1..Len(rest) : rest[p] = rest[q] => p = q
      /\ \A p, q \in 1..Len(rest) : rest[p] < rest[q] => p < q
  <2>1. S \in SUBSET (1..Len(g))
    BY <1>1, <1>2
  <2>2. IsRest(rest, (1..Len(g)) \ S, Len(g))
    BY <1>3, <2>1, UnscheduledIsRest
  <2>3. IsRest(rest, (1..len) \ S, len)
    BY <1>1, <2>2
  <2> QED BY <1>1, <2>3 DEF IsRest
<1> DEFINE src == [n \in 1..Len(order) |-> g[order[n]]]
<1>5. AreRows(src) /\ Len(src) = Len(order) /\ \A n \in 1..Len(order) : src[n] = g[order[n]]
  <2>1. \A n \in 1..Len(order) : g[order[n]] \in Seq(Exec) /\ g[order[n]] # <<>>
    BY <1>2, <1>3
  <2>2. src \in [1..Len(order) -> Seq(Exec)] /\ DOMAIN src = 1..Len(order)
    BY <2>1
  <2>3. src \in Seq(Seq(Exec)) /\ Len(src) = Len(order)
    BY <1>3, <2>2
  <2> QED BY <1>3, <2>1, <2>2, <2>3 DEF AreRows
<1>6. IsLaid(src, Len(order), m.cmds, m.at)
  <2>1. order \in [1..Len(order) -> DOMAIN g]
    <3>1. \A p \in 1..Len(order) : order[p] \in DOMAIN g
      BY <1>2, <1>3
    <3> QED BY <1>3, <3>1
  <2>2. order \in Seq(DOMAIN g)
    BY <1>3, <2>1
  <2> HIDE DEF src
  <2> QED BY <1>5, <2>2, MergedIsLaid
<1>7. PICK src2 : src2 = src
  OBVIOUS
<1>8. PICK out, at : out = m.cmds /\ at = m.at
  OBVIOUS
<1>9. PICK k : k = Len(out)
  OBVIOUS
<1>10. /\ k \in Nat /\ out \in Seq(Seq(Exec)) /\ DOMAIN out = 1..k
       /\ \A c \in 1..k : out[c] # <<>> /\ out[c] \in Seq(Exec)
       /\ at \in Seq(Nat \X Nat) /\ Len(at) = Len(order)
  BY <1>6, <1>8, <1>9 DEF IsLaid
<1>11. PICK back : back = [n \in DOMAIN rest |-> g[rest[n]]]
  OBVIOUS
<1>12. /\ back \in Seq(Seq(Exec)) /\ Len(back) = Len(rest)
       /\ \A n \in 1..Len(rest) : back[n] = g[rest[n]]
  BY <1>2, <1>4, <1>11
<1>13. PICK h : h = PutBack(g, m, rest)
  OBVIOUS
<1>14. /\ h \in Seq(Seq(Exec)) /\ Len(h) = k + Len(rest)
       /\ \A c \in 1..k : h[c] = out[c]
       /\ \A n \in 1..Len(rest) : h[k + n] = g[rest[n]]
  <2>1. h = out \o back
    BY <1>8, <1>11, <1>13 DEF PutBack
  <2>2. h \in Seq(Seq(Exec)) /\ Len(h) = k + Len(rest)
    <3>1. h \in Seq(Seq(Exec)) /\ Len(h) = Len(out) + Len(back)
      <4>1. out \in Seq(Seq(Exec)) /\ back \in Seq(Seq(Exec))
        BY <1>10, <1>12
      <4> QED BY <2>1, <4>1, ConcatProperties
    <3> QED BY <1>9, <1>12, <3>1
  <2>3. \A c \in 1..k : h[c] = out[c]
    BY <1>9, <1>10, <1>12, <2>1
  <2>4. \A n \in 1..Len(rest) : h[k + n] = back[n]
    BY <1>4, <1>9, <1>10, <1>12, <2>1
  <2> QED BY <1>12, <2>2, <2>3, <2>4
<1>15. AreRows(h)
  <2>1. ASSUME NEW c \in 1..(k + Len(rest)) PROVE h[c] # <<>>
    <3>1. CASE c \in 1..k
      BY <1>10, <1>14, <3>1
    <3>2. CASE c \notin 1..k
      <4>1. PICK n \in 1..Len(rest) : c = k + n
        <5>1. c - k \in 1..Len(rest) /\ c = k + (c - k)
          BY <1>4, <1>10, <3>2
        <5> QED BY <5>1
      <4> QED BY <1>2, <1>4, <1>14, <4>1
    <3> QED BY <3>1, <3>2
  <2> QED BY <1>14, <2>1 DEF AreRows
<1>16. PICK place : place = [i \in 1..len |-> NewPlace(m, order, rest, i)]
  OBVIOUS
<1>17. ASSUME NEW n \in 1..Len(order) PROVE place[order[n]] = at[n]
  <2>1. order[n] \in Range(order) /\ order[n] \in 1..len
    BY <1>2, <1>3
  <2>2. (CHOOSE p \in DOMAIN order : order[p] = order[n]) = n
    BY <1>3
  <2>3. order[n] \notin Range(rest)
    BY <1>3, <1>4
  <2>4. NewPlace(m, order, rest, order[n]) = m.at[CHOOSE p \in DOMAIN order : order[p] = order[n]]
    BY <2>1, <2>3 DEF NewPlace
  <2> QED BY <1>8, <1>16, <2>1, <2>2, <2>4
<1>18. ASSUME NEW n \in 1..Len(rest) PROVE place[rest[n]] = <<k + n, 0>>
  <2>1. rest[n] \in Range(rest) /\ rest[n] \in 1..len
    BY <1>4 DEF Range
  <2>2. rest[n] \notin Range(order)
    BY <1>3, <1>4, <2>1
  <2>3. (CHOOSE p \in DOMAIN rest : rest[p] = rest[n]) = n
    BY <1>4
  <2>4. NewPlace(m, order, rest, rest[n]) =
          <<Len(m.cmds) + (CHOOSE p \in DOMAIN rest : rest[p] = rest[n]), 0>>
    BY <2>1, <2>2 DEF NewPlace
  <2> QED BY <1>8, <1>9, <1>16, <2>1, <2>3, <2>4
<1>19. \A i \in S : \E n \in 1..Len(order) : order[n] = i
  BY <1>3 DEF Range
<1>20. \A i \in (1..len) \ S : \E n \in 1..Len(rest) : rest[n] = i
  BY <1>4 DEF Range
<1>21. ASSUME NEW i \in 1..len PROVE FitsAt(g[i], h, place[i][1], place[i][2])
  <2>1. CASE i \in S
    <3>1. PICK n \in 1..Len(order) : order[n] = i
      BY <1>19, <2>1
    <3>2. PICK c, o : c = at[n][1] /\ o = at[n][2]
      OBVIOUS
    <3>3. FitsAt(g[i], out, c, o)
      BY <1>5, <1>6, <1>8, <3>1, <3>2 DEF IsLaid
    <3>4. FitsAt(g[i], h, c, o)
      <4>1. c \in 1..k
        BY <1>9, <3>3 DEF FitsAt
      <4>2. c \in 1..Len(h) /\ h[c] = out[c]
        <5>1. c \in 1..(k + Len(rest))
          BY <1>4, <1>10, <4>1
        <5> QED BY <1>14, <4>1, <5>1
      <4> QED BY <3>3, <4>2 DEF FitsAt
    <3> QED BY <1>17, <3>1, <3>2, <3>4
  <2>2. CASE i \notin S
    <3>1. PICK n \in 1..Len(rest) : rest[n] = i
      BY <1>20, <2>2
    <3>2. FitsAt(g[i], h, k + n, 0)
      <4>1. k + n \in 1..Len(h) /\ h[k + n] = g[i]
        BY <1>4, <1>10, <1>14, <3>1
      <4> QED BY <1>2, <4>1 DEF FitsAt
    <3>3. place[i] = <<k + n, 0>>
      BY <1>18, <3>1
    <3>4. place[i][1] = k + n /\ place[i][2] = 0
      BY <3>3
    <3> QED BY <3>2, <3>4
  <2> QED BY <2>1, <2>2
<1>22. ASSUME NEW c \in 1..Len(h), NEW y \in 1..Len(h[c])
       PROVE  \E i \in 1..len : CoversAt(g[i], place[i], c, y)
  <2>1. CASE c \in 1..k
    <3>1. PICK n \in 1..Len(order) : CoversAt(src[n], at[n], c, y)
      <4> HIDE DEF src
      <4> QED BY <1>6, <1>8, <1>9, <1>14, <2>1 DEF IsLaid
    <3>2. order[n] \in 1..len /\ CoversAt(g[order[n]], place[order[n]], c, y)
      BY <1>2, <1>3, <1>5, <1>17, <3>1
    <3> QED BY <3>2
  <2>2. CASE c \notin 1..k
    <3>1. PICK n \in 1..Len(rest) : c = k + n
      <4>1. c - k \in 1..Len(rest) /\ c = k + (c - k)
        BY <1>4, <1>10, <1>14, <2>2
      <4> QED BY <4>1
    <3>2. rest[n] \in 1..len /\ h[c] = g[rest[n]] /\ place[rest[n]] = <<c, 0>>
      BY <1>4, <1>14, <1>18, <3>1
    <3>3. y \in Nat
      OBVIOUS
    <3>4. CoversAt(g[rest[n]], place[rest[n]], c, y)
      BY <3>2, <3>3 DEF CoversAt
    <3> QED BY <3>2, <3>4
  <2> QED BY <2>1, <2>2
<1>23. ASSUME NEW i \in 1..len, NEW j \in 1..len, i < j, UsesOf(g[i]) \cap UsesOf(g[j]) # {}
       PROVE  Precedes(g[i], place[i], place[j])
  <2>1. CASE j \in S
    <3>1. i \in S
      BY <1>2, <1>23, <2>1 DEF IsClosed
    <3>2. PICK p \in 1..Len(order) : order[p] = i
      BY <1>19, <3>1
    <3>3. PICK q \in 1..Len(order) : order[q] = j
      BY <1>19, <2>1
    <3>4. p < q
      BY <1>23, <3>2, <3>3 DEF IsOrder
    <3>5. Precedes(g[i], at[p], at[q])
      BY <1>5, <1>6, <1>8, <3>2, <3>4 DEF IsLaid
    <3> QED BY <1>17, <3>2, <3>3, <3>5
  <2>2. CASE j \notin S /\ i \in S
    <3>1. PICK p \in 1..Len(order) : order[p] = i
      BY <1>19, <2>2
    <3>2. PICK n \in 1..Len(rest) : rest[n] = j
      BY <1>20, <2>2
    <3>3. at[p][1] \in 1..k
      BY <1>6, <1>8, <1>9 DEF IsLaid, FitsAt
    <3>4. at[p][1] < <<k + n, 0>>[1]
      <4>1. PICK a : a = at[p][1] /\ a \in 1..k
        BY <3>3
      <4>2. <<k + n, 0>>[1] = k + n
        OBVIOUS
      <4>3. a < k + n
        <5>1. PICK c : c = k /\ c \in Nat
          BY <1>10
        <5>2. a \in 1..c /\ n \in Nat /\ n >= 1
          BY <4>1, <5>1
        <5> QED BY <5>1, <5>2
      <4> QED BY <4>1, <4>2, <4>3
    <3> QED BY <1>17, <1>18, <3>1, <3>2, <3>4 DEF Precedes
  <2>3. CASE j \notin S /\ i \notin S
    <3>1. PICK p \in 1..Len(rest) : rest[p] = i
      BY <1>20, <2>3
    <3>2. PICK q \in 1..Len(rest) : rest[q] = j
      BY <1>20, <2>3
    <3>3. p < q
      BY <1>4, <1>23, <3>1, <3>2
    <3>4. <<k + p, 0>>[1] < <<k + q, 0>>[1]
      BY <1>4, <1>10, <3>3
    <3> QED BY <1>18, <3>1, <3>2, <3>4 DEF Precedes
  <2> QED BY <2>1, <2>2, <2>3
<1> QED
  BY <1>1, <1>13, <1>15, <1>16, <1>21, <1>22, <1>23 DEF IsRegrouped

-----------------------------------------------------------------------------
(* The command buffer and the graph, as rows of executions                   *)

\* What executions are.
LEMMA ExecIs ==
    /\ \A e \in Exec : /\ e = <<e[1], e[2]>> /\ e[1] \in Commands /\ e[2] \in 1..Execs[e[1]]
                       /\ e[1] \in Nat /\ e[2] \in Nat
    /\ \A c \in Commands : \A n \in 1..Execs[c] : <<c, n>> \in Exec
    /\ \A c \in Commands : CommandExecs(c) \in Seq(Exec) /\ Len(CommandExecs(c)) = Execs[c]
                           /\ Execs[c] \in Nat /\ Execs[c] # 0
    /\ Nothing \notin Exec
<1>1. \A c \in Commands : Execs[c] \in Nat /\ Execs[c] # 0 /\ c \in Nat /\ c # 0
  BY ExecsAssumption, SizeAssumption DEF Commands
<1>2. ASSUME NEW e \in Exec
      PROVE  \E c \in Commands : \E n \in 1..Execs[c] : e = <<c, n>>
  BY DEF Exec, CommandExecs, Range
<1>3. ASSUME NEW c \in Commands, NEW n \in 1..Execs[c] PROVE <<c, n>> \in Exec
  <2>1. <<c, n>> \in Range(CommandExecs(c))
    BY DEF CommandExecs, Range
  <2> QED BY <2>1 DEF Exec
<1>4. ASSUME NEW e \in Exec
      PROVE  /\ e = <<e[1], e[2]>> /\ e[1] \in Commands /\ e[2] \in 1..Execs[e[1]]
             /\ e[1] \in Nat /\ e[2] \in Nat /\ e[1] # 0
  <2>1. PICK c \in Commands : \E n \in 1..Execs[c] : e = <<c, n>>
    BY <1>2
  <2>2. PICK n \in 1..Execs[c] : e = <<c, n>>
    BY <2>1
  <2>3. e[1] = c /\ e[2] = n /\ n \in Nat
    BY <1>1, <2>2
  <2> QED BY <1>1, <2>2, <2>3
<1>5. ASSUME NEW c \in Commands
      PROVE  CommandExecs(c) \in Seq(Exec) /\ Len(CommandExecs(c)) = Execs[c]
  <2>1. CommandExecs(c) \in [1..Execs[c] -> Exec]
    BY <1>3 DEF CommandExecs
  <2> QED BY <1>1, <2>1
<1>6. Nothing \notin Exec
  <2>1. Nothing[1] = 0
    BY DEF Nothing
  <2> QED BY <1>4, <2>1
<1> QED
  BY <1>1, <1>3, <1>4, <1>5, <1>6

\* Row 0 is what is recorded; the others are the commands that remain.
RowsOf(written, g) ==
    [i \in 0..Len(g) |-> IF i = 0 THEN [n \in DOMAIN written |-> written[n].exec] ELSE g[i]]

\* Execution e is of an earlier command, and the two share a resource.
Conflict(e, f) ==
    e \in Exec /\ f \in Exec /\ e[1] < f[1] /\ uses[e[1]] \cap uses[f[1]] # {}

Before(i, x, j, y) == i < j \/ (i = j /\ x < y)

\* A command is in one row and not torn, what conflicts is in order, and nothing
\* is lost.
Together(G) ==
    \A i, j \in DOMAIN G : \A x \in DOMAIN G[i], y \in DOMAIN G[j] :
        (G[i][x] \in Exec /\ G[j][y] \in Exec /\ G[i][x][1] = G[j][y][1])
          => i = j /\ x - y = G[i][x][2] - G[j][y][2]

Ordered(G) ==
    \A i, j \in DOMAIN G : \A x \in DOMAIN G[i], y \in DOMAIN G[j] :
        Conflict(G[i][x], G[j][y]) => Before(i, x, j, y)

Complete(G) == \A e \in Exec : \E i \in DOMAIN G : \E x \in DOMAIN G[i] : G[i][x] = e

IsSound(G) == Together(G) /\ Ordered(G) /\ Complete(G)

\* Rows with natural numbers as indices.
Indexed(G) == DOMAIN G \subseteq Nat /\ \A i \in DOMAIN G : DOMAIN G[i] \subseteq Nat

\* The rows of G are moved, whole, to rows of H: row i into row ro[i], behind the
\* first of[i].  Nothing else is there but Nothing, and no two that conflict change
\* their order.
Carries(G, H, ro, of) ==
    \A i \in DOMAIN G : \A x \in DOMAIN G[i] :
        ro[i] \in DOMAIN H /\ of[i] + x \in DOMAIN H[ro[i]] /\ H[ro[i]][of[i] + x] = G[i][x]

Comes(G, H, ro, of) ==
    \A k \in DOMAIN H : \A y \in DOMAIN H[k] :
        H[k][y] \in Exec => \E i \in DOMAIN G : \E x \in DOMAIN G[i] : k = ro[i] /\ y = of[i] + x

Respects(G, ro, of) ==
    \A i, j \in DOMAIN G : \A x \in DOMAIN G[i], y \in DOMAIN G[j] :
        i < j /\ Conflict(G[i][x], G[j][y]) => Before(ro[i], of[i] + x, ro[j], of[j] + y)

\* Rows that are moved this way stay sound.
LEMMA MovedStaysSound ==
    ASSUME NEW G, NEW H, NEW ro, NEW of, Indexed(G), Indexed(H),
           \A i \in DOMAIN G : of[i] \in Nat,
           Carries(G, H, ro, of), Comes(G, H, ro, of), Respects(G, ro, of), IsSound(G)
    PROVE  IsSound(H)
<1>1. ASSUME NEW k \in DOMAIN H, NEW y \in DOMAIN H[k], H[k][y] \in Exec
      PROVE  \E i \in DOMAIN G : \E x \in DOMAIN G[i] :
               k = ro[i] /\ y = of[i] + x /\ G[i][x] = H[k][y]
  BY <1>1 DEF Comes, Carries
<1>2. \A i \in DOMAIN G : i \in Nat /\ of[i] \in Nat /\ \A x \in DOMAIN G[i] : x \in Nat
  BY DEF Indexed
<1>3. ASSUME NEW k \in DOMAIN H, NEW l \in DOMAIN H, NEW y \in DOMAIN H[k], NEW z \in DOMAIN H[l],
             H[k][y] \in Exec, H[l][z] \in Exec
      PROVE  /\ H[k][y][1] = H[l][z][1] => k = l /\ y - z = H[k][y][2] - H[l][z][2]
             /\ Conflict(H[k][y], H[l][z]) => Before(k, y, l, z)
  <2>1. PICK i \in DOMAIN G : \E x \in DOMAIN G[i] : k = ro[i] /\ y = of[i] + x /\ G[i][x] = H[k][y]
    BY <1>1, <1>3
  <2>2. PICK x \in DOMAIN G[i] : k = ro[i] /\ y = of[i] + x /\ G[i][x] = H[k][y]
    BY <2>1
  <2>3. PICK j \in DOMAIN G : \E w \in DOMAIN G[j] : l = ro[j] /\ z = of[j] + w /\ G[j][w] = H[l][z]
    BY <1>1, <1>3
  <2>4. PICK w \in DOMAIN G[j] : l = ro[j] /\ z = of[j] + w /\ G[j][w] = H[l][z]
    BY <2>3
  <2>5. i \in Nat /\ j \in Nat /\ x \in Nat /\ w \in Nat /\ of[i] \in Nat /\ of[j] \in Nat
    BY <1>2
  <2>6. ASSUME H[k][y][1] = H[l][z][1]
        PROVE  k = l /\ y - z = H[k][y][2] - H[l][z][2]
    <3>1. i = j /\ x - w = G[i][x][2] - G[j][w][2]
      BY <1>3, <2>2, <2>4, <2>6 DEF IsSound, Together
    <3> QED BY <2>2, <2>4, <2>5, <3>1
  <2>7. ASSUME Conflict(H[k][y], H[l][z]) PROVE Before(k, y, l, z)
    <3>1. Conflict(G[i][x], G[j][w])
      BY <2>2, <2>4, <2>7
    <3>2. i < j \/ (i = j /\ x < w)
      BY <3>1 DEF IsSound, Ordered, Before
    <3>3. CASE i < j
      BY <2>2, <2>4, <3>1, <3>3 DEF Respects
    <3>4. CASE i = j /\ x < w
      <4>1. k = l /\ y < z
        BY <2>2, <2>4, <2>5, <3>4
      <4> QED BY <4>1 DEF Before
    <3> QED BY <3>2, <3>3, <3>4
  <2> QED BY <2>6, <2>7
<1>4. Together(H)
  BY <1>3 DEF Together
<1>5. Ordered(H)
  BY <1>3 DEF Ordered, Conflict
<1>6. Complete(H)
  <2> SUFFICES ASSUME NEW e \in Exec
               PROVE  \E k \in DOMAIN H : \E y \in DOMAIN H[k] : H[k][y] = e
    BY DEF Complete
  <2>1. PICK i \in DOMAIN G : \E x \in DOMAIN G[i] : G[i][x] = e
    BY DEF IsSound, Complete
  <2>2. PICK x \in DOMAIN G[i] : G[i][x] = e
    BY <2>1
  <2> QED BY <2>2 DEF Carries
<1> QED
  BY <1>4, <1>5, <1>6 DEF IsSound

\* What two executions share, their commands share.
LEMMA ConflictIsShared ==
    ASSUME NEW g, AreRows(g), NEW i \in 1..Len(g), NEW j \in 1..Len(g),
           NEW x \in 1..Len(g[i]), NEW y \in 1..Len(g[j]), Conflict(g[i][x], g[j][y])
    PROVE  UsesOf(g[i]) \cap UsesOf(g[j]) # {}
<1>1. ASSUME NEW row \in Seq(Exec), NEW z \in 1..Len(row) PROVE uses[row[z][1]] \subseteq UsesOf(row)
  <2>1. row[z] \in Range(row)
    BY DEF Range
  <2> QED BY <2>1 DEF UsesOf
<1>2. g[i] \in Seq(Exec) /\ g[j] \in Seq(Exec)
  BY DEF AreRows
<1>3. uses[g[i][x][1]] \subseteq UsesOf(g[i]) /\ uses[g[j][y][1]] \subseteq UsesOf(g[j])
  BY <1>1, <1>2
<1> QED
  BY <1>3 DEF Conflict

\* Merging keeps the rows sound.
LEMMA RegroupedIsSound ==
    ASSUME NEW written \in Seq(Entries), NEW g, AreRows(g), NEW h, NEW place,
           IsRegrouped(g, h, place), IsSound(RowsOf(written, g))
    PROVE  IsSound(RowsOf(written, h))
<1>1. Len(g) \in Nat /\ Len(h) \in Nat
  BY DEF IsRegrouped, AreRows
<1>2. PICK n, l : n = Len(g) /\ l = Len(h) /\ n \in Nat /\ l \in Nat
  BY <1>1
<1>3. PICK G, H : G = RowsOf(written, g) /\ H = RowsOf(written, h)
  OBVIOUS
<1>4. PICK w : w = [p \in DOMAIN written |-> written[p].exec]
  OBVIOUS
<1>5. /\ DOMAIN G = 0..n /\ G[0] = w /\ \A i \in 1..n : G[i] = g[i]
      /\ DOMAIN H = 0..l /\ H[0] = w /\ \A i \in 1..l : H[i] = h[i]
  BY <1>2, <1>3, <1>4 DEF RowsOf
<1>6. /\ DOMAIN w = 1..Len(written) /\ Len(written) \in Nat
      /\ \A i \in 1..n : DOMAIN g[i] = 1..Len(g[i]) /\ Len(g[i]) \in Nat
      /\ \A i \in 1..l : DOMAIN h[i] = 1..Len(h[i]) /\ Len(h[i]) \in Nat
  BY <1>2, <1>4 DEF IsRegrouped, AreRows
<1>7. PICK ro, of : /\ ro = [i \in 0..n |-> IF i = 0 THEN 0 ELSE place[i][1]]
                    /\ of = [i \in 0..n |-> IF i = 0 THEN 0 ELSE place[i][2]]
  OBVIOUS
<1>8. /\ ro[0] = 0 /\ of[0] = 0
      /\ \A i \in 1..n : FitsAt(g[i], h, ro[i], of[i])
  BY <1>2, <1>7 DEF IsRegrouped
<1>9. \A i \in 1..n : ro[i] \in 1..l /\ of[i] \in Nat
  BY <1>2, <1>8 DEF FitsAt
<1>10. Indexed(G) /\ Indexed(H) /\ \A i \in DOMAIN G : of[i] \in Nat
  <2>1. \A i \in 0..n : i = 0 \/ i \in 1..n
    BY <1>2
  <2>2. \A i \in 0..l : i = 0 \/ i \in 1..l
    BY <1>2
  <2>3. Indexed(G)
    BY <1>2, <1>5, <1>6, <2>1 DEF Indexed
  <2>4. Indexed(H)
    BY <1>2, <1>5, <1>6, <2>2 DEF Indexed
  <2> QED BY <1>2, <1>5, <1>8, <1>9, <2>1, <2>3, <2>4
<1>11. Carries(G, H, ro, of)
  <2> SUFFICES ASSUME NEW i \in 0..n, NEW x \in DOMAIN G[i]
               PROVE  /\ ro[i] \in DOMAIN H /\ of[i] + x \in DOMAIN H[ro[i]]
                      /\ H[ro[i]][of[i] + x] = G[i][x]
    BY <1>5 DEF Carries
  <2>1. CASE i = 0
    BY <1>2, <1>5, <1>6, <1>8, <2>1
  <2>2. CASE i \in 1..n
    <3>1. PICK c, o, row : c = ro[i] /\ o = of[i] /\ row = g[i]
      OBVIOUS
    <3>2. c \in 1..l /\ o \in Nat /\ x \in 1..Len(row) /\ Len(row) \in Nat
      BY <1>5, <1>6, <1>9, <2>2, <3>1
    <3>3. o + Len(row) <= Len(h[c]) /\ h[c][o + x] = row[x]
      BY <1>8, <2>2, <3>1, <3>2 DEF FitsAt
    <3>4. c \in DOMAIN H /\ H[c] = h[c] /\ DOMAIN h[c] = 1..Len(h[c]) /\ Len(h[c]) \in Nat
      BY <1>2, <1>5, <1>6, <3>2
    <3>5. o + x \in 1..Len(h[c])
      BY <3>2, <3>3, <3>4
    <3>6. G[i][x] = row[x]
      BY <1>5, <2>2, <3>1
    <3> QED BY <3>1, <3>3, <3>4, <3>5, <3>6
  <2> QED BY <1>2, <2>1, <2>2
<1>12. Comes(G, H, ro, of)
  <2> SUFFICES ASSUME NEW k \in 0..l, NEW y \in DOMAIN H[k]
               PROVE  \E i \in 0..n : \E x \in DOMAIN G[i] : k = ro[i] /\ y = of[i] + x
    BY <1>5 DEF Comes
  <2>1. CASE k = 0
    <3>1. y \in DOMAIN G[0] /\ k = ro[0] /\ y = of[0] + y /\ 0 \in 0..n
      BY <1>2, <1>5, <1>6, <1>8, <2>1
    <3> QED BY <3>1
  <2>2. CASE k \in 1..l
    <3>1. y \in 1..Len(h[k])
      BY <1>5, <1>6, <2>2
    <3>2. PICK i \in 1..n : CoversAt(g[i], place[i], k, y)
      BY <1>2, <2>2, <3>1 DEF IsRegrouped
    <3>3. PICK x \in 1..Len(g[i]) : k = ro[i] /\ y = of[i] + x
      <4>1. i \in 0..n /\ i # 0
        BY <1>2
      <4>2. ro[i] = place[i][1] /\ of[i] = place[i][2]
        BY <1>7, <4>1
      <4> QED BY <3>2, <4>2 DEF CoversAt
    <3>4. i \in 0..n /\ x \in DOMAIN G[i]
      BY <1>2, <1>5, <1>6
    <3> QED BY <3>3, <3>4
  <2> QED BY <1>2, <2>1, <2>2
<1>13. Respects(G, ro, of)
  <2> SUFFICES ASSUME NEW i \in 0..n, NEW j \in 0..n, NEW x \in DOMAIN G[i], NEW y \in DOMAIN G[j],
                      i < j, Conflict(G[i][x], G[j][y])
               PROVE  Before(ro[i], of[i] + x, ro[j], of[j] + y)
    BY <1>5 DEF Respects
  <2>1. j \in 1..n /\ ro[j] \in 1..l /\ of[j] \in Nat
    BY <1>2, <1>9
  <2>2. CASE i = 0
    <3>1. ro[i] < ro[j]
      BY <1>2, <1>8, <2>1, <2>2
    <3> QED BY <3>1 DEF Before
  <2>3. CASE i \in 1..n
    <3>1. x \in 1..Len(g[i]) /\ y \in 1..Len(g[j]) /\ Conflict(g[i][x], g[j][y])
      BY <1>5, <1>6, <2>1, <2>3
    <3>2. UsesOf(g[i]) \cap UsesOf(g[j]) # {}
      BY <1>2, <2>1, <2>3, <3>1, ConflictIsShared
    <3>3. Precedes(g[i], place[i], place[j])
      BY <1>2, <2>1, <2>3, <3>2 DEF IsRegrouped
    <3>4. ro[i] < ro[j] \/ (ro[i] = ro[j] /\ of[i] + Len(g[i]) <= of[j])
      BY <1>7, <2>3, <2>1, <3>3 DEF Precedes
    <3>5. of[i] + Len(g[i]) <= of[j] => of[i] + x < of[j] + y
      BY <1>6, <1>9, <2>1, <2>3, <3>1
    <3> QED BY <3>4, <3>5 DEF Before
  <2> QED BY <1>2, <2>2, <2>3
<1>14. IsSound(H)
  BY <1>3, <1>10, <1>11, <1>12, <1>13, MovedStaysSound
<1> QED
  BY <1>3, <1>14

\* Recording moves the first commands behind what was recorded and keeps the rows
\* sound.
LEMMA WrittenIsSound ==
    ASSUME NEW old \in Seq(Entries), NEW out, AreRows(out), NEW back, AreRows(back),
           IsSound(RowsOf(old, out \o back)),
           NEW Q, NEW leased, NEW new, NEW off, IsWritten(out, Q, leased, new, off, Len(out)),
           NEW final \in Seq(Entries), \A p \in 1..Len(final) : final[p].exec = Nothing
    PROVE  IsSound(RowsOf(old \o new \o final, back))
<1>1. PICK h : h = out \o back
  OBVIOUS
<1>2. PICK w2 : w2 = old \o new \o final
  OBVIOUS
<1>3. Len(out) \in Nat /\ Len(back) \in Nat /\ Len(old) \in Nat /\ Len(new) \in Nat
      /\ Len(final) \in Nat /\ new \in Seq(Entries)
  BY DEF AreRows, IsWritten
<1>4. PICK k, b : k = Len(out) /\ b = Len(back) /\ k \in Nat /\ b \in Nat
  BY <1>3
<1>5. PICK o, n, f : o = Len(old) /\ n = Len(new) /\ f = Len(final) /\ o \in Nat /\ n \in Nat /\ f \in Nat
  BY <1>3
<1>6. /\ h \in Seq(Seq(Exec)) /\ Len(h) = k + b
      /\ \A i \in 1..k : h[i] = out[i]
      /\ \A i \in 1..b : h[k + i] = back[i]
  <2>1. out \in Seq(Seq(Exec)) /\ back \in Seq(Seq(Exec))
    BY DEF AreRows
  <2>2. /\ h \in Seq(Seq(Exec)) /\ Len(h) = Len(out) + Len(back)
        /\ \A i \in 1..(Len(out) + Len(back)) :
             h[i] = IF i <= Len(out) THEN out[i] ELSE back[i - Len(out)]
    BY <1>1, <2>1, ConcatProperties
  <2>3. \A i \in 1..b : h[k + i] = back[i]
    <3>1. \A i \in 1..b : k + i \in 1..(k + b) /\ ~(k + i <= k) /\ (k + i) - k = i
      BY <1>4
    <3> QED BY <1>4, <2>2, <3>1
  <2>4. \A i \in 1..k : h[i] = out[i]
    BY <1>4, <2>2
  <2> QED BY <1>4, <2>2, <2>3, <2>4
<1>7. /\ w2 \in Seq(Entries) /\ Len(w2) = o + n + f
      /\ \A p \in 1..o : w2[p] = old[p]
      /\ \A p \in 1..n : w2[o + p] = new[p]
      /\ \A p \in 1..f : w2[o + n + p] = final[p]
  <2>1. PICK w1 : w1 = old \o new
    OBVIOUS
  <2>2. /\ w1 \in Seq(Entries) /\ Len(w1) = o + n
        /\ \A p \in 1..o : w1[p] = old[p]
        /\ \A p \in 1..n : w1[o + p] = new[p]
    BY <1>3, <1>5, <2>1
  <2>3. /\ w2 \in Seq(Entries) /\ Len(w2) = o + n + f
        /\ \A p \in 1..(o + n) : w2[p] = w1[p]
        /\ \A p \in 1..f : w2[o + n + p] = final[p]
    BY <1>2, <1>5, <2>1, <2>2
  <2>4. \A p \in 1..n : o + p \in 1..(o + n)
    BY <1>5
  <2>5. \A p \in 1..o : p \in 1..(o + n)
    BY <1>5
  <2> QED BY <2>2, <2>3, <2>4, <2>5
<1>8. PICK G, H : G = RowsOf(old, h) /\ H = RowsOf(w2, back)
  OBVIOUS
<1>9. /\ DOMAIN G = 0..(k + b) /\ DOMAIN G[0] = 1..o /\ \A p \in 1..o : G[0][p] = old[p].exec
      /\ \A i \in 1..k : G[i] = out[i]
      /\ \A i \in 1..b : G[k + i] = back[i]
  <2>1. DOMAIN G = 0..(k + b) /\ G[0] = [p \in DOMAIN old |-> old[p].exec]
        /\ \A i \in 1..(k + b) : G[i] = h[i]
    BY <1>4, <1>6, <1>8 DEF RowsOf
  <2>2. DOMAIN old = 1..o
    BY <1>5
  <2>3. \A i \in 1..k : i \in 1..(k + b)
    BY <1>4
  <2>4. \A i \in 1..b : k + i \in 1..(k + b)
    BY <1>4
  <2> QED BY <1>6, <2>1, <2>2, <2>3, <2>4
<1>10. /\ DOMAIN H = 0..b /\ DOMAIN H[0] = 1..(o + n + f)
       /\ \A p \in 1..(o + n + f) : H[0][p] = w2[p].exec
       /\ \A i \in 1..b : H[i] = back[i]
  <2>1. DOMAIN H = 0..b /\ H[0] = [p \in DOMAIN w2 |-> w2[p].exec]
        /\ \A i \in 1..b : H[i] = back[i]
    BY <1>4, <1>8 DEF RowsOf
  <2>2. DOMAIN w2 = 1..(o + n + f)
    BY <1>7
  <2> QED BY <2>1, <2>2
<1>11. /\ \A i \in 1..k : DOMAIN out[i] = 1..Len(out[i]) /\ Len(out[i]) \in Nat
       /\ \A i \in 1..b : DOMAIN back[i] = 1..Len(back[i]) /\ Len(back[i]) \in Nat
  BY <1>4 DEF AreRows
<1>12. PICK ro, of : /\ ro = [i \in 0..(k + b) |-> IF i <= k THEN 0 ELSE i - k]
                     /\ of = [i \in 0..(k + b) |-> IF i \in 1..k THEN o + off[i] ELSE 0]
  OBVIOUS
<1>13. /\ ro[0] = 0 /\ of[0] = 0
       /\ \A i \in 1..k : ro[i] = 0 /\ of[i] = o + off[i] /\ i \in 0..(k + b)
       /\ \A i \in 1..b : ro[k + i] = i /\ of[k + i] = 0 /\ k + i \in 0..(k + b)
  <2>1. \A i \in 1..k : i \in 0..(k + b) /\ i <= k
    BY <1>4
  <2>2. \A i \in 1..b : k + i \in 0..(k + b) /\ ~(k + i <= k) /\ k + i \notin 1..k /\ (k + i) - k = i
    BY <1>4
  <2>3. 0 \in 0..(k + b) /\ 0 <= k /\ 0 \notin 1..k
    BY <1>4
  <2> QED BY <1>12, <2>1, <2>2, <2>3
<1>14. \A i \in 0..(k + b) : i = 0 \/ i \in 1..k \/ \E j \in 1..b : i = k + j
  <2> SUFFICES ASSUME NEW i \in 0..(k + b), i # 0, i \notin 1..k PROVE \E j \in 1..b : i = k + j
    OBVIOUS
  <2>1. i - k \in 1..b /\ i = k + (i - k)
    BY <1>4
  <2> QED BY <2>1
<1>15. /\ \A i \in 1..k : /\ off[i] \in Nat /\ off[i] + Len(out[i]) <= n
                          /\ \A x \in 1..Len(out[i]) : new[off[i] + x].exec = out[i][x]
       /\ \A p \in 1..n : \E i \in 1..k : \E x \in 1..Len(out[i]) : p = off[i] + x
       /\ \A i, j \in 1..k : i < j => off[i] + Len(out[i]) <= off[j]
  <2>1. \A i, x : EntryOf(out, Q, leased, i, x).exec = out[i][x]
    BY DEF EntryOf, Entry
  <2>2. \A i \in 1..k : WrittenAt(out, Q, leased, new, i, off[i])
    BY <1>4 DEF IsWritten
  <2>3. \A i \in 1..k : /\ off[i] \in Nat /\ off[i] + Len(out[i]) <= n
                        /\ \A x \in 1..Len(out[i]) : new[off[i] + x].exec = out[i][x]
    <3> SUFFICES ASSUME NEW i \in 1..k
                 PROVE  /\ off[i] \in Nat /\ off[i] + Len(out[i]) <= n
                        /\ \A x \in 1..Len(out[i]) : new[off[i] + x].exec = out[i][x]
      OBVIOUS
    <3>1. WrittenAt(out, Q, leased, new, i, off[i])
      BY <2>2
    <3>2. off[i] \in Nat /\ off[i] + Len(out[i]) <= n
      BY <1>5, <3>1 DEF WrittenAt
    <3>3. \A x \in 1..Len(out[i]) : new[off[i] + x] = EntryOf(out, Q, leased, i, x)
      BY <3>1 DEF WrittenAt
    <3> QED BY <2>1, <3>2, <3>3
  <2> QED BY <1>4, <1>5, <2>3 DEF IsWritten
<1>16. ASSUME NEW i \in 0..(k + b), NEW x \in DOMAIN G[i] PROVE x \in Nat /\ x # 0
  <2>1. CASE i = 0
    BY <1>5, <1>9, <2>1
  <2>2. CASE i \in 1..k
    <3>1. x \in 1..Len(out[i]) /\ Len(out[i]) \in Nat
      BY <1>9, <1>11, <2>2
    <3> QED BY <3>1
  <2>3. CASE \E j \in 1..b : i = k + j
    <3>1. PICK j \in 1..b : i = k + j
      BY <2>3
    <3>2. x \in 1..Len(back[j]) /\ Len(back[j]) \in Nat
      BY <1>9, <1>11, <3>1
    <3> QED BY <3>2
  <2> QED BY <1>14, <2>1, <2>2, <2>3
<1>17. ASSUME NEW i \in 0..b, NEW y \in DOMAIN H[i] PROVE y \in Nat
  <2>1. CASE i = 0
    BY <1>5, <1>10, <2>1
  <2>2. CASE i \in 1..b
    <3>1. y \in 1..Len(back[i]) /\ Len(back[i]) \in Nat
      BY <1>10, <1>11, <2>2
    <3> QED BY <3>1
  <2> QED BY <1>4, <2>1, <2>2
<1>18. Indexed(G) /\ Indexed(H) /\ \A i \in DOMAIN G : of[i] \in Nat
  <2>1. Indexed(G)
    BY <1>4, <1>9, <1>16 DEF Indexed
  <2>2. Indexed(H)
    BY <1>4, <1>10, <1>17 DEF Indexed
  <2>3. ASSUME NEW i \in 0..(k + b) PROVE of[i] \in Nat
    <3>1. CASE i = 0
      BY <1>13, <3>1
    <3>2. CASE i \in 1..k
      <4>1. PICK d : d = off[i] /\ d \in Nat /\ of[i] = o + d
        BY <1>13, <1>15, <3>2
      <4> QED BY <1>5, <4>1
    <3>3. CASE \E j \in 1..b : i = k + j
      BY <1>13, <3>3
    <3> QED BY <1>14, <3>1, <3>2, <3>3
  <2> QED BY <1>9, <2>1, <2>2, <2>3
<1>19. Carries(G, H, ro, of)
  <2> SUFFICES ASSUME NEW i \in 0..(k + b), NEW x \in DOMAIN G[i]
               PROVE  /\ ro[i] \in DOMAIN H /\ of[i] + x \in DOMAIN H[ro[i]]
                      /\ H[ro[i]][of[i] + x] = G[i][x]
    BY <1>9 DEF Carries
  <2>1. 0 \in DOMAIN H
    BY <1>4, <1>10
  <2>2. CASE i = 0
    <3>1. x \in 1..o /\ x \in 1..(o + n + f) /\ of[i] + x = x /\ ro[i] = 0
      BY <1>5, <1>9, <1>13, <2>2
    <3> QED BY <1>7, <1>9, <1>10, <2>1, <2>2, <3>1
  <2>3. CASE i \in 1..k
    <3>1. x \in 1..Len(out[i]) /\ Len(out[i]) \in Nat /\ G[i][x] = out[i][x]
      BY <1>9, <1>11, <2>3
    <3>2. PICK d : d = off[i]
      OBVIOUS
    <3>3. d \in Nat /\ d + Len(out[i]) <= n /\ new[d + x].exec = out[i][x]
      BY <1>15, <2>3, <3>1, <3>2
    <3>4. x \in Nat /\ x # 0 /\ d + x <= n
      BY <1>5, <3>1, <3>3
    <3>5. d + x \in 1..n /\ o + d + x \in 1..(o + n + f) /\ o + (d + x) = o + d + x
      BY <1>5, <3>3, <3>4
    <3>6. w2[o + d + x] = new[d + x]
      BY <1>7, <3>5
    <3>7. ro[i] = 0 /\ of[i] = o + d
      BY <1>13, <2>3, <3>2
    <3> QED BY <1>10, <2>1, <3>1, <3>3, <3>5, <3>6, <3>7
  <2>4. CASE \E j \in 1..b : i = k + j
    <3>1. PICK j \in 1..b : i = k + j
      BY <2>4
    <3>2. ro[i] = j /\ of[i] = 0 /\ G[i] = back[j] /\ H[j] = back[j]
      BY <1>9, <1>10, <1>13, <3>1
    <3>3. j \in DOMAIN H /\ 0 + x = x
      BY <1>4, <1>10, <1>11, <3>2
    <3> QED BY <3>2, <3>3
  <2> QED BY <1>14, <2>2, <2>3, <2>4
<1>20. Comes(G, H, ro, of)
  <2> SUFFICES ASSUME NEW c \in 0..b, NEW y \in DOMAIN H[c], H[c][y] \in Exec
               PROVE  \E i \in 0..(k + b) : \E x \in DOMAIN G[i] : c = ro[i] /\ y = of[i] + x
    BY <1>9, <1>10 DEF Comes
  <2>1. CASE c = 0
    <3>1. y \in 1..(o + n + f) /\ w2[y].exec \in Exec
      BY <1>10, <2>1
    <3>2. CASE y \in 1..o
      <4>1. 0 \in 0..(k + b) /\ y \in DOMAIN G[0] /\ c = ro[0] /\ y = of[0] + y
        BY <1>4, <1>9, <1>13, <2>1, <3>2
      <4> QED BY <4>1
    <3>3. CASE y \notin 1..o /\ y <= o + n
      <4>1. PICK p \in 1..n : y = o + p
        <5>1. y - o \in 1..n /\ y = o + (y - o)
          BY <1>5, <3>1, <3>3
        <5> QED BY <5>1
      <4>2. PICK i \in 1..k : \E x \in 1..Len(out[i]) : p = off[i] + x
        BY <1>15
      <4>3. PICK x \in 1..Len(out[i]) : p = off[i] + x
        BY <4>2
      <4>4. PICK d : d = off[i] /\ d \in Nat /\ of[i] = o + d
        BY <1>13, <1>15
      <4>5. y = of[i] + x
        BY <1>5, <4>1, <4>3, <4>4
      <4>6. i \in 0..(k + b) /\ x \in DOMAIN G[i] /\ c = ro[i]
        BY <1>9, <1>11, <1>13, <2>1
      <4> QED BY <4>5, <4>6
    <3>4. CASE ~(y <= o + n)
      <4>1. PICK p \in 1..f : y = o + n + p
        <5>1. y - (o + n) \in 1..f /\ y = o + n + (y - (o + n))
          BY <1>5, <3>1, <3>4
        <5> QED BY <5>1
      <4>2. w2[y].exec = Nothing
        BY <1>5, <1>7, <4>1
      <4>3. Nothing \notin Exec
        BY ExecIs
      <4> QED BY <3>1, <4>2, <4>3
    <3> QED BY <3>2, <3>3, <3>4
  <2>2. CASE c \in 1..b
    <3>1. k + c \in 0..(k + b) /\ y \in DOMAIN G[k + c] /\ c = ro[k + c] /\ of[k + c] = 0
      BY <1>9, <1>10, <1>13, <2>2
    <3>2. y = 0 + y
      BY <1>10, <1>11, <2>2
    <3> QED BY <3>1, <3>2
  <2> QED BY <1>4, <2>1, <2>2
<1>21. Respects(G, ro, of)
  <2> SUFFICES ASSUME NEW i \in 0..(k + b), NEW j \in 0..(k + b),
                      NEW x \in DOMAIN G[i], NEW y \in DOMAIN G[j], i < j
               PROVE  Before(ro[i], of[i] + x, ro[j], of[j] + y)
    BY <1>9 DEF Respects
  <2>1. x \in Nat /\ y \in Nat /\ x # 0 /\ y # 0
    BY <1>16
  <2>2. CASE j \in 1..k
    <3>1. ro[i] = 0 /\ ro[j] = 0
      BY <1>4, <1>13, <1>14, <2>2
    <3>2. PICK d : d = off[j] /\ d \in Nat /\ of[j] = o + d
      BY <1>13, <1>15, <2>2
    <3>3. CASE i = 0
      <4>1. x \in 1..o /\ of[i] = 0
        BY <1>9, <1>13, <3>3
      <4>2. of[i] + x < of[j] + y
        <5>1. o \in Nat /\ y \in Nat /\ y > 0 /\ x <= o
          BY <1>5, <2>1, <4>1
        <5>2. x < (o + d) + y
          BY <2>1, <3>2, <5>1
        <5>3. of[i] + x = x
          BY <2>1, <4>1
        <5> QED BY <3>2, <5>2, <5>3
      <4> QED BY <3>1, <4>2 DEF Before
    <3>4. CASE i \in 1..k
      <4>1. PICK e : e = off[i] /\ e \in Nat /\ of[i] = o + e
        BY <1>13, <1>15, <3>4
      <4>2. x \in 1..Len(out[i]) /\ Len(out[i]) \in Nat
        BY <1>9, <1>11, <3>4
      <4>3. e + Len(out[i]) <= d
        BY <1>15, <2>2, <3>2, <3>4, <4>1
      <4>4. PICK l : l = Len(out[i]) /\ l \in Nat /\ x <= l /\ e + l <= d
        <5>1. PICK l : l = Len(out[i])
          OBVIOUS
        <5>2. l \in Nat /\ x \in 1..l /\ e + l <= d
          BY <4>2, <4>3, <5>1
        <5>3. x <= l
          BY <5>2
        <5> QED BY <5>1, <5>2, <5>3
      <4>5. o + e + x < o + d + y
        <5>1. o \in Nat /\ e \in Nat /\ d \in Nat /\ x \in Nat /\ y \in Nat /\ y > 0
          BY <1>5, <2>1, <3>2, <4>1
        <5>2. e + x <= d
          BY <4>4, <5>1
        <5> QED BY <5>1, <5>2
      <4>6. of[i] + x < of[j] + y
        BY <3>2, <4>1, <4>5
      <4> QED BY <3>1, <4>6 DEF Before
    <3>5. i = 0 \/ i \in 1..k
      BY <1>4, <2>2
    <3> QED BY <3>3, <3>4, <3>5
  <2>3. CASE \E q \in 1..b : j = k + q
    <3>1. PICK q \in 1..b : j = k + q
      BY <2>3
    <3>2. ro[j] = q
      BY <1>13, <3>1
    <3>3. ro[i] < q
      <4>1. CASE i = 0 \/ i \in 1..k
        BY <1>13, <4>1
      <4>2. CASE \E p \in 1..b : i = k + p
        BY <1>4, <1>13, <3>1, <4>2
      <4> QED BY <1>14, <4>1, <4>2
    <3> QED BY <3>2, <3>3 DEF Before
  <2> QED BY <1>14, <2>2, <2>3
<1>22. IsSound(G)
  BY <1>1, <1>8
<1>23. IsSound(H)
  BY <1>18, <1>19, <1>20, <1>21, <1>22, MovedStaysSound
<1> QED
  BY <1>2, <1>8, <1>23

-----------------------------------------------------------------------------
(* The timestamp queries                                                     *)

\* What the graph asks for: a timestamp behind each execution, one in front of each
\* command, and one at the end.
AskedBehind(g, i, x) == Query(g[i][x], i, x, "after")
AskedBefore(g, i, x) == Query(<<g[i][x][1], 0>>, i, x, "before")
AskedAtEnd(g) == Query(<<N + 1, 0>>, Len(g) + 1, 1, "before")

Asked(q, g) ==
    \/ \E i \in 1..Len(g) : \E x \in 1..Len(g[i]) :
         q = AskedBehind(g, i, x) \/ (g[i][x][2] = 1 /\ q = AskedBefore(g, i, x))
    \/ q = AskedAtEnd(g)

\* The queries are where the graph asks for a timestamp, all of them.
Asks(Q, g) ==
    /\ \A q \in Q : Asked(q, g)
    /\ \A i \in 1..Len(g) : \A x \in 1..Len(g[i]) :
         /\ AskedBehind(g, i, x) \in Q
         /\ g[i][x][2] = 1 => AskedBefore(g, i, x) \in Q
    /\ AskedAtEnd(g) \in Q

\* What is asked for is one of the timestamps there are.
LEMMA AskedIsMark ==
    ASSUME NEW g, AreRows(g), NEW q, Asked(q, g)
    PROVE  q.mark \in Marks /\ q.place \in Places /\ q.cmd \in 1..(Len(g) + 1) /\ q.exec \in Nat
<1>1. Len(g) \in Nat /\ N \in Nat /\ \A i \in 1..Len(g) : g[i] \in Seq(Exec) /\ Len(g[i]) \in Nat
  BY SizeAssumption DEF AreRows
<1>2. \A e \in Exec : e \in Marks /\ <<e[1], 0>> \in Marks
  <2> SUFFICES ASSUME NEW e \in Exec PROVE e \in Marks /\ <<e[1], 0>> \in Marks
    OBVIOUS
  <2>1. Query(e, e[1], e[2], "after") \in AllQueries
    BY DEF AllQueries
  <2>2. e[1] \in 1..(N + 1)
    BY <1>1, ExecIs DEF Commands
  <2>3. Query(<<e[1], 0>>, e[1], 1, "before") \in AllQueries
    BY <2>2 DEF AllQueries
  <2>4. Query(e, e[1], e[2], "after").mark = e /\ Query(<<e[1], 0>>, e[1], 1, "before").mark = <<e[1], 0>>
    BY DEF Query
  <2> QED BY <2>1, <2>3, <2>4 DEF Marks
<1>3. <<N + 1, 0>> \in Marks
  <2>1. Query(<<N + 1, 0>>, N + 1, 1, "before") \in AllQueries
    <3>1. N + 1 \in 1..(N + 1)
      BY <1>1
    <3> QED BY <3>1 DEF AllQueries
  <2>2. Query(<<N + 1, 0>>, N + 1, 1, "before").mark = <<N + 1, 0>>
    BY DEF Query
  <2> QED BY <2>1, <2>2 DEF Marks
<1>4. ASSUME NEW i \in 1..Len(g), NEW x \in 1..Len(g[i]),
             q = AskedBehind(g, i, x) \/ q = AskedBefore(g, i, x)
      PROVE  q.mark \in Marks /\ q.place \in Places /\ q.cmd \in 1..(Len(g) + 1) /\ q.exec \in Nat
  <2>1. g[i][x] \in Exec /\ i \in 1..(Len(g) + 1) /\ x \in Nat
    BY <1>1
  <2>2. /\ q.mark \in {g[i][x], <<g[i][x][1], 0>>} /\ q.place \in {"after", "before"}
        /\ q.cmd = i /\ q.exec = x
    BY <1>4 DEF AskedBehind, AskedBefore, Query
  <2> QED BY <1>2, <2>1, <2>2 DEF Places
<1>5. CASE q = AskedAtEnd(g)
  <2>1. q.mark = <<N + 1, 0>> /\ q.place = "before" /\ q.cmd = Len(g) + 1 /\ q.exec = 1
    BY <1>5 DEF AskedAtEnd, Query
  <2> QED BY <1>1, <1>3, <2>1 DEF Places
<1> QED
  BY <1>4, <1>5 DEF Asked

\* The timestamps around each execution of the graph are those it asks for.
Marked(g, Q) ==
    \A i \in 1..Len(g) : \A x \in 1..Len(g[i]) :
        /\ MarksAt(Q, i, x, "after") = {g[i][x]}
        /\ MarksAt(Q, i, x, "before") = (IF g[i][x][2] = 1 THEN {<<g[i][x][1], 0>>} ELSE {})

\* Queries that are where the graph asks for timestamps mark what they should.
LEMMA MarksFollow ==
    ASSUME NEW Q, NEW g, AreRows(g), Asks(Q, g)
    PROVE  /\ Marked(g, Q)
           /\ MarksAt(Q, Len(g) + 1, 1, "before") = {<<N + 1, 0>>}
<1>1. Len(g) \in Nat /\ \A i \in 1..Len(g) : Len(g[i]) \in Nat
  BY DEF AreRows
<1>2. ASSUME NEW i \in 1..Len(g), NEW x \in 1..Len(g[i])
      PROVE  MarksAt(Q, i, x, "after") = {g[i][x]}
  <2>1. ASSUME NEW q \in Q, q.cmd = i, q.exec = x, q.place = "after" PROVE q.mark = g[i][x]
    <3>1. Asked(q, g)
      BY DEF Asks
    <3>2. q # AskedAtEnd(g)
      BY <1>1, <2>1 DEF AskedAtEnd, Query
    <3>3. PICK j \in 1..Len(g) : \E y \in 1..Len(g[j]) :
             q = AskedBehind(g, j, y) \/ (g[j][y][2] = 1 /\ q = AskedBefore(g, j, y))
      BY <3>1, <3>2 DEF Asked
    <3>4. PICK y \in 1..Len(g[j]) :
             q = AskedBehind(g, j, y) \/ (g[j][y][2] = 1 /\ q = AskedBefore(g, j, y))
      BY <3>3
    <3>5. q # AskedBefore(g, j, y)
      BY <2>1 DEF AskedBefore, Query
    <3>6. q.cmd = j /\ q.exec = y /\ q.mark = g[j][y]
      BY <3>4, <3>5 DEF AskedBehind, Query
    <3> QED BY <2>1, <3>6
  <2>2. AskedBehind(g, i, x) \in Q
    BY DEF Asks
  <2>3. LET q == AskedBehind(g, i, x)
        IN q.cmd = i /\ q.exec = x /\ q.place = "after" /\ q.mark = g[i][x]
    BY DEF AskedBehind, Query
  <2> QED BY <2>1, <2>2, <2>3 DEF MarksAt
<1>3. ASSUME NEW i \in 1..Len(g), NEW x \in 1..Len(g[i])
      PROVE  MarksAt(Q, i, x, "before") = (IF g[i][x][2] = 1 THEN {<<g[i][x][1], 0>>} ELSE {})
  <2>1. ASSUME NEW q \in Q, q.cmd = i, q.exec = x, q.place = "before"
        PROVE  g[i][x][2] = 1 /\ q.mark = <<g[i][x][1], 0>>
    <3>1. Asked(q, g)
      BY DEF Asks
    <3>2. q # AskedAtEnd(g)
      BY <1>1, <2>1 DEF AskedAtEnd, Query
    <3>3. PICK j \in 1..Len(g) : \E y \in 1..Len(g[j]) :
             q = AskedBehind(g, j, y) \/ (g[j][y][2] = 1 /\ q = AskedBefore(g, j, y))
      BY <3>1, <3>2 DEF Asked
    <3>4. PICK y \in 1..Len(g[j]) :
             q = AskedBehind(g, j, y) \/ (g[j][y][2] = 1 /\ q = AskedBefore(g, j, y))
      BY <3>3
    <3>5. q # AskedBehind(g, j, y)
      BY <2>1 DEF AskedBehind, Query
    <3>6. q.cmd = j /\ q.exec = y /\ q.mark = <<g[j][y][1], 0>> /\ g[j][y][2] = 1
      BY <3>4, <3>5 DEF AskedBefore, Query
    <3> QED BY <2>1, <3>6
  <2>2. g[i][x][2] = 1 => AskedBefore(g, i, x) \in Q
    BY DEF Asks
  <2>3. LET q == AskedBefore(g, i, x)
        IN q.cmd = i /\ q.exec = x /\ q.place = "before" /\ q.mark = <<g[i][x][1], 0>>
    BY DEF AskedBefore, Query
  <2> QED BY <2>1, <2>2, <2>3 DEF MarksAt
<1>4. MarksAt(Q, Len(g) + 1, 1, "before") = {<<N + 1, 0>>}
  <2>1. ASSUME NEW q \in Q, q.cmd = Len(g) + 1 PROVE q.mark = <<N + 1, 0>>
    <3>1. Asked(q, g)
      BY DEF Asks
    <3>2. ASSUME NEW j \in 1..Len(g), NEW y \in 1..Len(g[j])
          PROVE  q # AskedBehind(g, j, y) /\ q # AskedBefore(g, j, y)
      BY <1>1, <2>1 DEF AskedBehind, AskedBefore, Query
    <3>3. q = AskedAtEnd(g)
      BY <3>1, <3>2 DEF Asked
    <3> QED BY <3>3 DEF AskedAtEnd, Query
  <2>2. AskedAtEnd(g) \in Q
    BY DEF Asks
  <2>3. LET q == AskedAtEnd(g)
        IN q.cmd = Len(g) + 1 /\ q.exec = 1 /\ q.place = "before" /\ q.mark = <<N + 1, 0>>
    BY DEF AskedAtEnd, Query
  <2> QED BY <2>1, <2>2, <2>3 DEF MarksAt
<1> QED
  BY <1>2, <1>3, <1>4 DEF Marked

\* Where a query goes.
Moved(q, place) == [q EXCEPT !.cmd = place[1], !.exec = @ + place[2]]

\* A query that moves is the same query at another place.
LEMMA QueryMoves ==
    ASSUME NEW mark, NEW c, NEW x, NEW place, NEW to
    PROVE  Moved(Query(mark, c, x, place), to) = Query(mark, to[1], x + to[2], place)
<1>1. PICK q : q = Query(mark, c, x, place)
  OBVIOUS
<1>2. PICK d, n : d = to[1] /\ n = x + to[2]
  OBVIOUS
<1>3. q = [mark |-> mark, cmd |-> c, exec |-> x, place |-> place]
  BY <1>1 DEF Query
<1>4. [q EXCEPT !.cmd = d, !.exec = n] = [mark |-> mark, cmd |-> d, exec |-> n, place |-> place]
  <2>1. PICK r : r = [q EXCEPT !.cmd = d, !.exec = n]
    OBVIOUS
  <2>2. DOMAIN r = DOMAIN q /\ DOMAIN q = {"mark", "cmd", "exec", "place"}
    BY <1>3, <2>1
  <2>3. r.mark = mark /\ r.cmd = d /\ r.exec = n /\ r.place = place
    BY <1>3, <2>1
  <2>4. r = [f \in {"mark", "cmd", "exec", "place"} |-> r[f]]
    BY <2>1, <2>2
  <2> QED BY <2>1, <2>2, <2>3, <2>4
<1>5. q.exec = x
  BY <1>3
<1>6. [q EXCEPT !.cmd = to[1], !.exec = @ + to[2]] = [q EXCEPT !.cmd = d, !.exec = n]
  BY <1>2, <1>5
<1> QED
  BY <1>1, <1>2, <1>4, <1>6 DEF Moved, Query

\* Queries that move with their commands stay where the graph asks for them.
LEMMA QueriesMove ==
    ASSUME NEW Q, NEW g, AreRows(g), Asks(Q, g), NEW h, NEW m, NEW order, NEW rest,
           IsRegrouped(g, h, [i \in 1..Len(g) |-> NewPlace(m, order, rest, i)]),
           NewPlace(m, order, rest, Len(g) + 1) = <<Len(h) + 1, 0>>
    PROVE  Asks(MoveQueries(Q, m, order, rest), h)
<1> DEFINE to(i) == NewPlace(m, order, rest, i)
<1>1. \A i \in 1..Len(g) : FitsAt(g[i], h, to(i)[1], to(i)[2])
  BY DEF IsRegrouped
<1>2. \A c \in 1..Len(h) : \A y \in 1..Len(h[c]) : \E i \in 1..Len(g) : CoversAt(g[i], to(i), c, y)
  BY DEF IsRegrouped
<1>3. MoveQueries(Q, m, order, rest) = {Moved(q, to(q.cmd)) : q \in Q}
  BY DEF MoveQueries, Moved
<1>4. to(Len(g) + 1) = <<Len(h) + 1, 0>>
  OBVIOUS
<1> HIDE DEF to
<1>5. PICK M : M = MoveQueries(Q, m, order, rest)
  OBVIOUS
<1>6. Len(g) \in Nat /\ Len(h) \in Nat /\ \A i \in 1..Len(g) : Len(g[i]) \in Nat
  BY DEF AreRows, IsRegrouped
<1> DEFINE Lands(i, x, c, y) ==
             /\ c \in 1..Len(h) /\ y \in 1..Len(h[c]) /\ h[c][y] = g[i][x]
             /\ Moved(AskedBehind(g, i, x), to(i)) = AskedBehind(h, c, y)
             /\ Moved(AskedBefore(g, i, x), to(i)) = AskedBefore(h, c, y)
<1>7. ASSUME NEW i \in 1..Len(g), NEW x \in 1..Len(g[i])
      PROVE  Lands(i, x, to(i)[1], to(i)[2] + x)
  <2>1. PICK c, o : c = to(i)[1] /\ o = to(i)[2]
    OBVIOUS
  <2>2. FitsAt(g[i], h, c, o)
    BY <1>1, <2>1
  <2>3. Len(h[c]) \in Nat
    BY <2>2 DEF IsRegrouped, AreRows, FitsAt
  <2>4. c \in 1..Len(h) /\ o \in Nat /\ x \in Nat /\ o + x \in 1..Len(h[c]) /\ h[c][o + x] = g[i][x]
    <3>1. o \in Nat /\ o + Len(g[i]) <= Len(h[c]) /\ Len(g[i]) \in Nat /\ x \in 1..Len(g[i])
      BY <1>6, <2>2 DEF FitsAt
    <3>2. o + x \in 1..Len(h[c])
      BY <2>3, <3>1
    <3> QED BY <2>2, <3>1, <3>2 DEF FitsAt
  <2>5. x + o = o + x
    BY <2>4
  <2>6. /\ Moved(AskedBehind(g, i, x), to(i)) = Query(g[i][x], c, x + o, "after")
        /\ Moved(AskedBefore(g, i, x), to(i)) = Query(<<g[i][x][1], 0>>, c, x + o, "before")
    BY <2>1, QueryMoves DEF AskedBehind, AskedBefore
  <2> QED BY <2>1, <2>4, <2>5, <2>6 DEF AskedBehind, AskedBefore
<1>8. Moved(AskedAtEnd(g), to(Len(g) + 1)) = AskedAtEnd(h)
  <2>1. to(Len(g) + 1)[1] = Len(h) + 1 /\ to(Len(g) + 1)[2] = 0
    BY <1>4
  <2>2. 1 + 0 = 1
    OBVIOUS
  <2> QED BY <2>1, <2>2, QueryMoves DEF AskedAtEnd
<1>9. \A i \in 1..Len(g) : \A x \in 1..Len(g[i]) :
          AskedBehind(g, i, x).cmd = i /\ AskedBefore(g, i, x).cmd = i
  BY DEF AskedBehind, AskedBefore, Query
<1>10. AskedAtEnd(g).cmd = Len(g) + 1
  BY DEF AskedAtEnd, Query
<1>11. ASSUME NEW p \in M PROVE Asked(p, h)
  <2>1. PICK q \in Q : p = Moved(q, to(q.cmd))
    BY <1>3, <1>5
  <2>2. Asked(q, g)
    BY DEF Asks
  <2>3. CASE q = AskedAtEnd(g)
    BY <1>8, <1>10, <2>1, <2>3 DEF Asked
  <2>4. CASE q # AskedAtEnd(g)
    <3>1. PICK i \in 1..Len(g) : \E x \in 1..Len(g[i]) :
            q = AskedBehind(g, i, x) \/ (g[i][x][2] = 1 /\ q = AskedBefore(g, i, x))
      BY <2>2, <2>4 DEF Asked
    <3>2. PICK x \in 1..Len(g[i]) :
            q = AskedBehind(g, i, x) \/ (g[i][x][2] = 1 /\ q = AskedBefore(g, i, x))
      BY <3>1
    <3>3. p = Moved(q, to(i))
      BY <1>9, <2>1, <3>2
    <3>4. PICK c, y : c = to(i)[1] /\ y = to(i)[2] + x
      OBVIOUS
    <3>5. Lands(i, x, c, y)
      BY <1>7, <3>4
    <3>6. p = AskedBehind(h, c, y) \/ (h[c][y][2] = 1 /\ p = AskedBefore(h, c, y))
      BY <3>2, <3>3, <3>5
    <3>7. c \in 1..Len(h) /\ y \in 1..Len(h[c])
      BY <3>5
    <3> QED BY <3>6, <3>7 DEF Asked
  <2> QED BY <2>3, <2>4
<1>12. \A q \in Q : Moved(q, to(q.cmd)) \in M
  BY <1>3, <1>5
<1>13. ASSUME NEW c \in 1..Len(h), NEW y \in 1..Len(h[c])
       PROVE  /\ AskedBehind(h, c, y) \in M
              /\ h[c][y][2] = 1 => AskedBefore(h, c, y) \in M
  <2>1. PICK i \in 1..Len(g) : CoversAt(g[i], to(i), c, y)
    BY <1>2
  <2>2. PICK x \in 1..Len(g[i]) : c = to(i)[1] /\ y = to(i)[2] + x
    BY <2>1 DEF CoversAt
  <2>3. /\ h[c][y] = g[i][x]
        /\ Moved(AskedBehind(g, i, x), to(i)) = AskedBehind(h, c, y)
        /\ Moved(AskedBefore(g, i, x), to(i)) = AskedBefore(h, c, y)
    <3>1. Lands(i, x, c, y)
      BY <1>7, <2>2
    <3> QED BY <3>1
  <2>4. /\ AskedBehind(g, i, x) \in Q
        /\ g[i][x][2] = 1 => AskedBefore(g, i, x) \in Q
    BY DEF Asks
  <2> QED BY <1>9, <1>12, <2>3, <2>4
<1>14. AskedAtEnd(h) \in M
  <2>1. AskedAtEnd(g) \in Q
    BY DEF Asks
  <2> QED BY <1>8, <1>10, <1>12, <2>1
<1> QED
  BY <1>5, <1>11, <1>13, <1>14 DEF Asks

\* The queries that are left when the first n commands are taken.
Left(Q, n) == {[q EXCEPT !.cmd = @ - n] : q \in {p \in Q : ~(p.cmd < n + 1)}}

\* The queries that were not taken are counted from the first command that remains.
LEMMA QueriesStay ==
    ASSUME NEW Q, NEW out, AreRows(out), NEW back, AreRows(back), Asks(Q, out \o back)
    PROVE  Asks(Left(Q, Len(out)), back)
<1>1. PICK h : h = out \o back
  OBVIOUS
<1>2. PICK k, b : k = Len(out) /\ b = Len(back) /\ k \in Nat /\ b \in Nat
  <2>1. Len(out) \in Nat /\ Len(back) \in Nat
    BY DEF AreRows
  <2> QED BY <2>1
<1>3. /\ Len(h) = k + b
      /\ \A i \in 1..b : h[k + i] = back[i]
  <2>1. /\ Len(h) = Len(out) + Len(back)
        /\ \A i \in 1..(Len(out) + Len(back)) :
             h[i] = IF i <= Len(out) THEN out[i] ELSE back[i - Len(out)]
    BY <1>1, ConcatProperties DEF AreRows
  <2>2. ASSUME NEW i \in 1..b PROVE h[k + i] = back[i]
    <3>1. k + i \in 1..(k + b) /\ ~(k + i <= k) /\ (k + i) - k = i
      BY <1>2
    <3> QED BY <1>2, <2>1, <3>1
  <2> QED BY <1>2, <2>1, <2>2
<1> DEFINE Back(q) == [q EXCEPT !.cmd = @ - k]
           M == {Back(q) : q \in {p \in Q : ~(p.cmd < k + 1)}}
<1>4. \A q : q \in M <=> \E p \in Q : ~(p.cmd < k + 1) /\ q = Back(p)
  OBVIOUS
<1>5. Asks(Q, h)
  BY <1>1
<1>6. ASSUME NEW i \in 1..b, NEW x \in 1..Len(back[i])
      PROVE  /\ k + i \in 1..Len(h) /\ x \in 1..Len(h[k + i]) /\ h[k + i][x] = back[i][x]
             /\ AskedBehind(h, k + i, x).cmd = k + i /\ AskedBefore(h, k + i, x).cmd = k + i
             /\ ~(k + i < k + 1)
             /\ Back(AskedBehind(h, k + i, x)) = AskedBehind(back, i, x)
             /\ Back(AskedBefore(h, k + i, x)) = AskedBefore(back, i, x)
  <2>1. k + i \in 1..Len(h) /\ x \in 1..Len(h[k + i]) /\ h[k + i][x] = back[i][x]
    BY <1>2, <1>3
  <2>2. (k + i) - k = i /\ ~(k + i < k + 1)
    BY <1>2
  <2>3. AskedBehind(h, k + i, x).cmd = k + i /\ AskedBefore(h, k + i, x).cmd = k + i
    BY DEF AskedBehind, AskedBefore, Query
  <2>4. /\ Back(AskedBehind(h, k + i, x)) = Query(h[k + i][x], (k + i) - k, x, "after")
        /\ Back(AskedBefore(h, k + i, x)) = Query(<<h[k + i][x][1], 0>>, (k + i) - k, x, "before")
    BY DEF AskedBehind, AskedBefore, Query
  <2> QED BY <2>1, <2>2, <2>3, <2>4 DEF AskedBehind, AskedBefore
<1>7. /\ AskedAtEnd(h).cmd = (k + b) + 1 /\ ~((k + b) + 1 < k + 1)
      /\ Back(AskedAtEnd(h)) = AskedAtEnd(back)
  <2>1. AskedAtEnd(h).cmd = (k + b) + 1 /\ ~((k + b) + 1 < k + 1) /\ ((k + b) + 1) - k = b + 1
    BY <1>2, <1>3 DEF AskedAtEnd, Query
  <2>2. Back(AskedAtEnd(h)) = Query(<<N + 1, 0>>, ((k + b) + 1) - k, 1, "before")
    BY <1>3 DEF AskedAtEnd, Query
  <2> QED BY <1>2, <2>1, <2>2 DEF AskedAtEnd
<1> HIDE DEF Back, M
<1>8. ASSUME NEW q \in M PROVE Asked(q, back)
  <2>1. PICK p \in Q : ~(p.cmd < k + 1) /\ q = Back(p)
    BY <1>4
  <2>2. Asked(p, h)
    BY <1>5 DEF Asks
  <2>3. CASE p = AskedAtEnd(h)
    BY <1>7, <2>1, <2>3 DEF Asked
  <2>4. CASE p # AskedAtEnd(h)
    <3>1. PICK c \in 1..Len(h) : \E x \in 1..Len(h[c]) :
            p = AskedBehind(h, c, x) \/ (h[c][x][2] = 1 /\ p = AskedBefore(h, c, x))
      BY <2>2, <2>4 DEF Asked
    <3>2. PICK x \in 1..Len(h[c]) :
            p = AskedBehind(h, c, x) \/ (h[c][x][2] = 1 /\ p = AskedBefore(h, c, x))
      BY <3>1
    <3>3. p.cmd = c
      BY <3>2 DEF AskedBehind, AskedBefore, Query
    <3>4. PICK i \in 1..b : c = k + i
      <4>1. c - k \in 1..b /\ c = k + (c - k)
        BY <1>2, <1>3, <2>1, <3>3
      <4> QED BY <4>1
    <3>5. x \in 1..Len(back[i])
      BY <1>3, <3>4
    <3>6. /\ h[c][x] = back[i][x]
          /\ Back(AskedBehind(h, c, x)) = AskedBehind(back, i, x)
          /\ Back(AskedBefore(h, c, x)) = AskedBefore(back, i, x)
      BY <1>6, <3>4, <3>5
    <3>7. q = AskedBehind(back, i, x) \/ (back[i][x][2] = 1 /\ q = AskedBefore(back, i, x))
      BY <2>1, <3>2, <3>6
    <3> QED BY <1>2, <3>5, <3>7 DEF Asked
  <2> QED BY <2>3, <2>4
<1>9. ASSUME NEW i \in 1..b, NEW x \in 1..Len(back[i])
      PROVE  /\ AskedBehind(back, i, x) \in M
             /\ back[i][x][2] = 1 => AskedBefore(back, i, x) \in M
  <2>1. PICK c : c = k + i
    OBVIOUS
  <2>2. /\ c \in 1..Len(h) /\ x \in 1..Len(h[c]) /\ h[c][x] = back[i][x]
        /\ AskedBehind(h, c, x).cmd = c /\ AskedBefore(h, c, x).cmd = c /\ ~(c < k + 1)
        /\ Back(AskedBehind(h, c, x)) = AskedBehind(back, i, x)
        /\ Back(AskedBefore(h, c, x)) = AskedBefore(back, i, x)
    BY <1>6, <2>1
  <2>3. /\ AskedBehind(h, c, x) \in Q
        /\ h[c][x][2] = 1 => AskedBefore(h, c, x) \in Q
    BY <1>5, <2>2 DEF Asks
  <2> QED BY <1>4, <2>2, <2>3
<1>10. AskedAtEnd(back) \in M
  <2>1. AskedAtEnd(h) \in Q
    BY <1>5 DEF Asks
  <2> QED BY <1>4, <1>7, <2>1
<1>11. Asks(M, back)
  BY <1>2, <1>8, <1>9, <1>10 DEF Asks
<1> QED
  BY <1>2, <1>11 DEF M, Back, Left

-----------------------------------------------------------------------------
(* The timestamps in the command buffer                                      *)

\* Only executions were written so far.
AllExecs(w) == \A n \in DOMAIN w : w[n].exec \in Exec

\* TimestampsInPlace, of what was written.
Stamped(w) ==
    \A n \in DOMAIN w :
        LET e == w[n].exec
        IN IF e = Nothing
             THEN w[n].before = {<<N + 1, 0>>} /\ n = Len(w)
             ELSE /\ w[n].before = (IF e[2] = 1 THEN {<<e[1], 0>>} ELSE {})
                  /\ w[n].after = {e}

\* What is written has its timestamps.
LEMMA WrittenIsStamped ==
    ASSUME NEW old \in Seq(Entries), AllExecs(old), Stamped(old),
           NEW out, AreRows(out), NEW Q, NEW leased, NEW new, NEW off,
           IsWritten(out, Q, leased, new, off, Len(out)), Marked(out, Q)
    PROVE  AllExecs(old \o new) /\ Stamped(old \o new)
<1>1. Len(old) \in Nat /\ Len(new) \in Nat /\ Len(out) \in Nat
  BY DEF IsWritten, AreRows
<1>2. PICK w : w = old \o new
  OBVIOUS
<1>3. /\ DOMAIN w = 1..(Len(old) + Len(new)) /\ DOMAIN old = 1..Len(old)
      /\ \A n \in 1..Len(old) : w[n] = old[n]
      /\ \A p \in 1..Len(new) : w[Len(old) + p] = new[p]
  <2>1. new \in Seq(Entries)
    BY DEF IsWritten
  <2> QED BY <1>1, <1>2, <2>1
<1>4. Nothing \notin Exec
  BY ExecIs
<1> DEFINE Good(entry) ==
             /\ entry.exec \in Exec
             /\ entry.before = (IF entry.exec[2] = 1 THEN {<<entry.exec[1], 0>>} ELSE {})
             /\ entry.after = {entry.exec}
<1>5. ASSUME NEW n \in 1..Len(old) PROVE Good(old[n])
  <2>1. n \in DOMAIN old
    BY <1>3
  <2>2. old[n].exec \in Exec /\ old[n].exec # Nothing
    BY <1>4, <2>1 DEF AllExecs
  <2>3. PICK e, entry : e = old[n].exec /\ entry = old[n]
    OBVIOUS
  <2>4. /\ entry.before = (IF e[2] = 1 THEN {<<e[1], 0>>} ELSE {})
        /\ entry.after = {e}
    BY <2>1, <2>2, <2>3 DEF Stamped
  <2> QED BY <2>2, <2>3, <2>4
<1>6. ASSUME NEW p \in 1..Len(new) PROVE Good(new[p])
  <2>1. PICK i \in 1..Len(out) : \E x \in 1..Len(out[i]) : p = off[i] + x
    BY DEF IsWritten
  <2>2. PICK x \in 1..Len(out[i]) : p = off[i] + x
    BY <2>1
  <2>3. new[p] = EntryOf(out, Q, leased, i, x)
    BY <2>2 DEF IsWritten, WrittenAt
  <2>4. out[i][x] \in Exec
    BY DEF AreRows
  <2>5. /\ MarksAt(Q, i, x, "after") = {out[i][x]}
        /\ MarksAt(Q, i, x, "before") = (IF out[i][x][2] = 1 THEN {<<out[i][x][1], 0>>} ELSE {})
    BY DEF Marked
  <2>6. PICK e : e = out[i][x]
    OBVIOUS
  <2>7. /\ new[p].exec = e
        /\ new[p].before = MarksAt(Q, i, x, "before")
        /\ new[p].after = MarksAt(Q, i, x, "after")
    BY <2>3, <2>6 DEF EntryOf, Entry
  <2> QED BY <2>4, <2>5, <2>6, <2>7
<1>7. ASSUME NEW n \in DOMAIN w PROVE Good(w[n])
  <2> HIDE DEF Good
  <2>1. CASE n \in 1..Len(old)
    <3>1. w[n] = old[n]
      BY <1>3, <2>1
    <3> QED BY <1>5, <2>1, <3>1
  <2>2. CASE n \notin 1..Len(old)
    <3>1. PICK p \in 1..Len(new) : n = Len(old) + p
      <4>1. n - Len(old) \in 1..Len(new) /\ n = Len(old) + (n - Len(old))
        BY <1>1, <1>3, <2>2
      <4> QED BY <4>1
    <3>2. w[n] = new[p]
      BY <1>3, <3>1
    <3> QED BY <1>6, <3>2
  <2> QED BY <2>1, <2>2
<1> HIDE DEF Good
<1>8. AllExecs(w)
  BY <1>7 DEF AllExecs, Good
<1>9. Stamped(w)
  <2> SUFFICES ASSUME NEW n \in DOMAIN w
               PROVE  /\ w[n].exec # Nothing
                      /\ w[n].before = (IF w[n].exec[2] = 1 THEN {<<w[n].exec[1], 0>>} ELSE {})
                      /\ w[n].after = {w[n].exec}
    BY DEF Stamped
  <2> QED BY <1>4, <1>7 DEF Good
<1> QED
  BY <1>2, <1>8, <1>9

\* The final timestamps end the command buffer.
LEMMA EndIsStamped ==
    ASSUME NEW w \in Seq(Entries), AllExecs(w), Stamped(w), NEW e \in Entries,
           e.exec = Nothing, e.before = {<<N + 1, 0>>}
    PROVE  /\ Stamped(w \o <<e>>)
           /\ w \o <<e>> # <<>>
           /\ (w \o <<e>>)[Len(w \o <<e>>)].exec = Nothing
<1>1. Len(w) \in Nat /\ DOMAIN w = 1..Len(w)
  OBVIOUS
<1>2. PICK v : v = w \o <<e>>
  OBVIOUS
<1>3. /\ DOMAIN v = 1..(Len(w) + 1) /\ Len(v) = Len(w) + 1
      /\ \A n \in 1..Len(w) : v[n] = w[n]
      /\ v[Len(w) + 1] = e
  BY <1>1, <1>2
<1>4. Nothing \notin Exec
  BY ExecIs
<1>5. Stamped(v)
  <2> SUFFICES ASSUME NEW n \in DOMAIN v
               PROVE  IF v[n].exec = Nothing
                        THEN v[n].before = {<<N + 1, 0>>} /\ n = Len(v)
                        ELSE /\ v[n].before = (IF v[n].exec[2] = 1 THEN {<<v[n].exec[1], 0>>} ELSE {})
                             /\ v[n].after = {v[n].exec}
    BY DEF Stamped
  <2>1. CASE n = Len(w) + 1
    BY <1>3, <2>1
  <2>2. CASE n # Len(w) + 1
    <3>1. n \in 1..Len(w) /\ v[n] = w[n]
      BY <1>1, <1>3, <2>2
    <3>2. w[n].exec \in Exec
      BY <1>1, <3>1 DEF AllExecs
    <3> QED BY <1>1, <1>4, <3>1, <3>2 DEF Stamped
  <2> QED BY <2>1, <2>2
<1> QED
  BY <1>1, <1>2, <1>3, <1>5

-----------------------------------------------------------------------------
(* The inductive invariant                                                   *)

\* While something remains, or nothing was recorded, the queries are where the graph
\* asks for timestamps, and the command buffer has executions alone.
Open(g, Q, w) == (g # <<>> \/ w = <<>>) => Asks(Q, g) /\ AllExecs(w)

\* Then nothing is asked for, and the final timestamps were written.
Closed(g, Q, w) == (g = <<>> /\ w # <<>>) => Q = {} /\ w[Len(w)].exec = Nothing

IsConsistent(w, g, Q) ==
    /\ w \in Seq(Entries)
    /\ AreRows(g)
    /\ IsSound(RowsOf(w, g))
    /\ Stamped(w)
    /\ Open(g, Q, w)
    /\ Closed(g, Q, w)

RecInv ==
    /\ uses \in [Commands -> SUBSET Resources]
    /\ graphics \in [Commands -> BOOLEAN]
    /\ resources \in Seq(Seq(Exec))
    /\ IsConsistent(log, cmds, queries)

-----------------------------------------------------------------------------
(* Merging, as RecordScheduled and LeaseFails have it                        *)

\* The merged commands are rows.
LEMMA MergedAreRows ==
    ASSUME NEW g, AreRows(g), NEW S, IsClosed(g, S), NEW order, IsOrder(g, S, order)
    PROVE  AreRows(Merged(g, order).cmds)
<1>1. PICK c : c = Len(order) /\ c \in Nat
  BY DEF IsOrder
<1>2. /\ order \in Seq(DOMAIN g) /\ Len(order) = c
      /\ \A p \in 1..c : order[p] \in DOMAIN g
  <2>1. order \in Seq(S) /\ S \subseteq DOMAIN g
    BY DEF IsOrder, IsClosed
  <2>2. \A p \in 1..c : order[p] \in DOMAIN g
    BY <1>1, <2>1
  <2>3. order \in [1..c -> DOMAIN g]
    BY <1>1, <2>1, <2>2
  <2> QED BY <1>1, <2>2, <2>3
<1> DEFINE src == [n \in 1..c |-> g[order[n]]]
<1>3. AreRows(src) /\ Len(src) = c /\ \A n \in 1..c : src[n] = g[order[n]]
  <2>1. \A n \in 1..c : g[order[n]] \in Seq(Exec) /\ g[order[n]] # <<>>
    BY <1>2 DEF AreRows
  <2>2. src \in [1..c -> Seq(Exec)] /\ DOMAIN src = 1..c
    BY <2>1
  <2>3. src \in Seq(Seq(Exec)) /\ Len(src) = c
    BY <1>1, <2>2
  <2> QED BY <2>1, <2>2, <2>3 DEF AreRows
<1>4. IsLaid(src, c, Merged(g, order).cmds, Merged(g, order).at)
  <2> HIDE DEF src
  <2> QED BY <1>1, <1>2, <1>3, MergedIsLaid
<1> QED
  BY <1>4 DEF IsLaid, AreRows

\* What waits for the next selection are rows.
LEMMA RestAreRows ==
    ASSUME NEW g, AreRows(g), NEW S, IsClosed(g, S), NEW order, IsOrder(g, S, order),
           NEW rest, rest = Unscheduled(g, order)
    PROVE  /\ AreRows([n \in DOMAIN rest |-> g[rest[n]]])
           /\ Len([n \in DOMAIN rest |-> g[rest[n]]]) = Len(rest) /\ Len(rest) \in Nat
           /\ DOMAIN rest = 1..Len(rest)
           /\ rest = <<>> <=> [n \in DOMAIN rest |-> g[rest[n]]] = <<>>
           /\ Range(rest) = (1..Len(g)) \ S
<1>1. S \in SUBSET (1..Len(g)) /\ Range(order) = S
  BY DEF IsClosed, IsOrder, AreRows
<1>2. IsRest(rest, (1..Len(g)) \ S, Len(g))
  BY <1>1, UnscheduledIsRest
<1>3. PICK l : l = Len(rest) /\ l \in Nat
  BY <1>2 DEF IsRest
<1>4. DOMAIN rest = 1..l /\ \A n \in 1..l : rest[n] \in 1..Len(g)
  BY <1>2, <1>3 DEF IsRest
<1>5. PICK back : back = [n \in DOMAIN rest |-> g[rest[n]]]
  OBVIOUS
<1>6. \A n \in 1..l : g[rest[n]] \in Seq(Exec) /\ g[rest[n]] # <<>>
  BY <1>4 DEF AreRows
<1>7. back \in [1..l -> Seq(Exec)] /\ \A n \in 1..l : back[n] # <<>>
  BY <1>4, <1>5, <1>6
<1>8. AreRows(back) /\ Len(back) = l
  <2>1. back \in Seq(Seq(Exec)) /\ Len(back) = l /\ DOMAIN back = 1..l
    BY <1>3, <1>7
  <2> QED BY <1>7, <2>1 DEF AreRows
<1>9. rest = <<>> <=> back = <<>>
  <2>1. rest \in Seq(1..Len(g))
    BY <1>2 DEF IsRest
  <2>2. rest = <<>> <=> l = 0
    BY <1>3, <2>1
  <2>3. back = <<>> <=> l = 0
    BY <1>3, <1>8 DEF AreRows
  <2> QED BY <2>2, <2>3
<1> QED
  BY <1>2, <1>3, <1>4, <1>5, <1>8, <1>9 DEF IsRest

\* Sound rows, and queries that are where they are asked for.
IsState(written, g, Q) == AreRows(g) /\ IsSound(RowsOf(written, g)) /\ Asks(Q, g)

\* After merging, what is scheduled and what is not together still are a graph with
\* sound rows, and its queries are where it asks for timestamps.
LEMMA MergedIsState ==
    ASSUME NEW written \in Seq(Entries), NEW g, NEW Q, IsState(written, g, Q), g # <<>>,
           NEW S, IsClosed(g, S), NEW order, IsOrder(g, S, order),
           NEW m, m = Merged(g, order), NEW rest, rest = Unscheduled(g, order)
    PROVE  /\ IsState(written, PutBack(g, m, rest), MoveQueries(Q, m, order, rest))
           /\ PutBack(g, m, rest) # <<>>
<1>1. AreRows(g) /\ IsSound(RowsOf(written, g)) /\ Asks(Q, g)
  BY DEF IsState
<1>2. PICK h : h = PutBack(g, m, rest)
  OBVIOUS
<1>3. IsRegrouped(g, h, [i \in 1..Len(g) |-> NewPlace(m, order, rest, i)])
  BY <1>1, <1>2, MergeRegroups
<1>4. IsSound(RowsOf(written, h))
  BY <1>1, <1>3, RegroupedIsSound
<1>5. AreRows(h)
  BY <1>3 DEF IsRegrouped
<1>6. NewPlace(m, order, rest, Len(g) + 1) = <<Len(h) + 1, 0>>
  <2>1. PICK back : back = [n \in DOMAIN rest |-> g[rest[n]]]
    OBVIOUS
  <2>2. AreRows(m.cmds)
    BY <1>1, MergedAreRows
  <2>3. AreRows(back) /\ Len(back) = Len(rest) /\ Range(rest) = (1..Len(g)) \ S
    BY <1>1, <2>1, RestAreRows
  <2>4. Len(h) = Len(m.cmds) + Len(rest)
    <3>1. h = m.cmds \o back
      BY <1>2, <2>1 DEF PutBack
    <3>2. PICK out : out = m.cmds
      OBVIOUS
    <3>3. out \in Seq(Seq(Exec)) /\ back \in Seq(Seq(Exec))
      BY <2>2, <2>3, <3>2 DEF AreRows
    <3>4. Len(out \o back) = Len(out) + Len(back)
      BY <3>3, ConcatProperties
    <3> QED BY <2>3, <3>1, <3>2, <3>4
  <2>5. Range(order) \subseteq 1..Len(g) /\ Range(rest) \subseteq 1..Len(g) /\ Len(g) + 1 \notin 1..Len(g)
    <3>1. Range(order) \subseteq DOMAIN g /\ DOMAIN g = 1..Len(g) /\ Len(g) \in Nat
      BY <1>1 DEF IsOrder, IsClosed, AreRows
    <3>2. Range(rest) \subseteq 1..Len(g)
      BY <2>3
    <3> QED BY <3>1, <3>2
  <2>6. Len(g) + 1 \notin Range(order) /\ Len(g) + 1 \notin Range(rest)
    BY <2>5
  <2>7. NewPlace(m, order, rest, Len(g) + 1) = <<Len(m.cmds) + Len(rest) + 1, 0>>
    BY <2>6 DEF NewPlace
  <2> QED BY <2>4, <2>7
<1>7. Asks(MoveQueries(Q, m, order, rest), h)
  BY <1>1, <1>3, <1>6, QueriesMove
<1>8. h # <<>>
  <2>1. 1 \in 1..Len(g)
    BY <1>1 DEF AreRows
  <2>2. PICK c : c \in 1..Len(h)
    BY <1>3, <2>1 DEF IsRegrouped, FitsAt
  <2> QED BY <1>5, <2>2 DEF AreRows
<1> QED
  BY <1>2, <1>4, <1>5, <1>7, <1>8 DEF IsState

-----------------------------------------------------------------------------
(* Recording                                                                 *)

\* What RecordScheduled writes and leaves, of the merged commands out.
Final(out, moved, rest) == IF rest = <<>> THEN MarksAt(moved, Len(out) + 1, 1, "before") ELSE {}

Taken(out, moved, rest) ==
    {q \in moved : q.cmd < Len(out) + 1 \/ (rest = <<>> /\ q.cmd = Len(out) + 1)}

LogWith(written, out, moved, leased, final) ==
    written \o RecordEach(out, moved, leased)
      \o (IF final = {} THEN <<>> ELSE <<Entry(Nothing, final, {}, <<>>)>>)

QueriesWithout(out, moved, taken) == {[q EXCEPT !.cmd = @ - Len(out)] : q \in moved \ taken}

\* The command buffer, the graph and the queries that RecordScheduled leaves, of
\* those that it finds.
IsRecorded(written, g, Q, order, leased, w, h, P) ==
    LET m     == Merged(g, order)
        rest  == Unscheduled(g, order)
        moved == MoveQueries(Q, m, order, rest)
    IN /\ w = LogWith(written, m.cmds, moved, leased, Final(m.cmds, moved, rest))
       /\ h = [n \in DOMAIN rest |-> g[rest[n]]]
       /\ P = QueriesWithout(m.cmds, moved, Taken(m.cmds, moved, rest))

\* A selection that can be recorded: with a command it has what precedes it, and it
\* is ordered as reorder_cmds orders it.
IsSelection(g, S, order) == IsClosed(g, S) /\ IsOrder(g, S, order)

AreLeased(leased, out) == \A i \in 1..Len(out) : leased[i] \in Seq(Exec)

\* After recording, the command buffer and the graph with what remains are
\* consistent.
LEMMA RecordedIsConsistent ==
    ASSUME NEW written, NEW g, NEW Q, IsConsistent(written, g, Q), g # <<>>,
           NEW order, NEW S, IsSelection(g, S, order),
           NEW leased, AreLeased(leased, Merged(g, order).cmds),
           NEW w, NEW back, NEW P, IsRecorded(written, g, Q, order, leased, w, back, P)
    PROVE  IsConsistent(w, back, P)
<1>1. PICK m : m = Merged(g, order)
  OBVIOUS
<1>2. PICK rest : rest = Unscheduled(g, order)
  OBVIOUS
<1>3. PICK moved : moved = MoveQueries(Q, m, order, rest)
  OBVIOUS
<1>4. PICK final : final = Final(m.cmds, moved, rest)
  OBVIOUS
<1>5. PICK taken : taken = Taken(m.cmds, moved, rest)
  OBVIOUS
<1>6. /\ w = LogWith(written, m.cmds, moved, leased, final)
      /\ back = [n \in DOMAIN rest |-> g[rest[n]]]
      /\ P = QueriesWithout(m.cmds, moved, taken)
  BY <1>1, <1>2, <1>3, <1>4, <1>5 DEF IsRecorded
<1>7. IsClosed(g, S) /\ IsOrder(g, S, order) /\ \A i \in 1..Len(m.cmds) : leased[i] \in Seq(Exec)
  BY <1>1 DEF IsSelection, AreLeased
<1>8. /\ written \in Seq(Entries) /\ AllExecs(written) /\ Stamped(written)
      /\ IsState(written, g, Q) /\ AreRows(g)
  BY DEF IsConsistent, Open, IsState
<1>9. PICK out, h : out = m.cmds /\ h = out \o back
  OBVIOUS
<1>10. IsState(written, h, moved)
  <2>1. h = PutBack(g, m, rest)
    BY <1>9, <1>6 DEF PutBack
  <2> QED BY <1>8, <1>1, <1>2, <1>3, <1>7, <2>1, MergedIsState
<1>11. AreRows(out) /\ AreRows(back) /\ (rest = <<>> <=> back = <<>>)
  <2>1. AreRows(out)
    BY <1>8, <1>9, <1>1, <1>7, MergedAreRows
  <2>2. AreRows(back) /\ (rest = <<>> <=> back = <<>>)
    BY <1>8, <1>2, <1>6, <1>7, RestAreRows
  <2> QED BY <2>1, <2>2
<1>12. AreRows(h) /\ IsSound(RowsOf(written, out \o back)) /\ Asks(moved, out \o back)
  BY <1>9, <1>10 DEF IsState
<1>13. PICK k : k = Len(out) /\ k \in Nat
  BY <1>11 DEF AreRows
<1>14. Len(h) = k + Len(back) /\ Len(back) \in Nat /\ \A i \in 1..k : h[i] = out[i]
  <2>1. out \in Seq(Seq(Exec)) /\ back \in Seq(Seq(Exec))
    BY <1>11 DEF AreRows
  <2>2. /\ Len(h) = Len(out) + Len(back)
        /\ \A i \in 1..(Len(out) + Len(back)) :
             h[i] = IF i <= Len(out) THEN out[i] ELSE back[i - Len(out)]
    BY <1>9, <2>1, ConcatProperties
  <2>3. Len(back) \in Nat
    BY <2>1
  <2>4. \A i \in 1..k : i \in 1..(k + Len(back)) /\ i <= k
    BY <1>13, <2>3
  <2> QED BY <1>13, <2>2, <2>3, <2>4
<1>15. Marked(h, moved) /\ MarksAt(moved, Len(h) + 1, 1, "before") = {<<N + 1, 0>>}
  BY <1>9, <1>12, MarksFollow
<1>16. Marked(out, moved)
  <2>1. \A i \in 1..k : i \in 1..Len(h)
    BY <1>13, <1>14
  <2> QED BY <1>13, <1>14, <1>15, <2>1 DEF Marked
<1>17. CanWrite(out, moved, leased)
  <2>1. \A q \in moved : q.mark \in Marks
    BY <1>9, <1>12, AskedIsMark DEF Asks
  <2> QED BY <1>9, <1>11, <1>7, <2>1 DEF CanWrite, AreRows
<1>18. PICK new : new = RecordEach(out, moved, leased)
  OBVIOUS
<1>19. PICK off : IsWritten(out, moved, leased, new, off, Len(out))
  BY <1>17, <1>18, RecordEachWrites
<1>20. AllExecs(written \o new) /\ Stamped(written \o new)
  BY <1>8, <1>11, <1>16, <1>19, WrittenIsStamped
<1>21. new \in Seq(Entries)
  BY <1>19 DEF IsWritten
<1>22. PICK v : v = written \o new /\ v \in Seq(Entries)
  BY <1>8, <1>21, ConcatProperties
<1>23. PICK end : end = (IF final = {} THEN <<>> ELSE <<Entry(Nothing, final, {}, <<>>)>>)
  OBVIOUS
<1>24. PICK Q2 : Q2 = QueriesWithout(out, moved, taken)
  OBVIOUS
<1>25. LogWith(written, m.cmds, moved, leased, final) = v \o end
  BY <1>9, <1>18, <1>22, <1>23 DEF LogWith
<1>26. CASE rest # <<>>
  <2>1. final = {} /\ end = <<>> /\ v \o end = v
    BY <1>22, <1>23, <1>26, <1>4 DEF Final
  <2>2. moved \ taken = {p \in moved : ~(p.cmd < Len(out) + 1)}
    BY <1>9, <1>26, <1>5 DEF Taken
  <2>3. Asks(Q2, back)
    <3>1. Q2 = Left(moved, Len(out))
      BY <1>24, <2>2 DEF Left, QueriesWithout
    <3> QED BY <1>11, <1>12, <3>1, QueriesStay
  <2>4. IsSound(RowsOf(v \o end, back))
    <3>1. end \in Seq(Entries) /\ \A p \in 1..Len(end) : end[p].exec = Nothing
      BY <2>1
    <3> QED BY <1>8, <1>11, <1>12, <1>19, <1>22, <3>1, WrittenIsSound
  <2>5. IsConsistent(v \o end, back, Q2)
    BY <1>11, <1>20, <1>22, <1>26, <2>1, <2>3, <2>4 DEF IsConsistent, Open, Closed
  <2> QED BY <1>9, <1>24, <1>25, <1>6, <2>5
<1>27. CASE rest = <<>>
  <2>1. back = <<>> /\ Len(back) = 0 /\ Len(h) = Len(out)
    BY <1>11, <1>13, <1>14, <1>27
  <2>2. final = {<<N + 1, 0>>}
    BY <1>9, <1>15, <1>27, <1>4, <2>1 DEF Final
  <2>3. PICK e : e = Entry(Nothing, final, {}, <<>>)
    OBVIOUS
  <2>4. e \in Entries /\ e.exec = Nothing /\ e.before = {<<N + 1, 0>>}
    <3>1. <<N + 1, 0>> \in Marks
      <4>1. AskedAtEnd(h) \in moved /\ AreRows(h) /\ Asked(AskedAtEnd(h), h)
        BY <1>9, <1>12 DEF Asks
      <4>2. AskedAtEnd(h).mark \in Marks
        BY <4>1, AskedIsMark
      <4> QED BY <4>2 DEF AskedAtEnd, Query
    <3>2. <<>> \in Seq(Exec)
      OBVIOUS
    <3> QED BY <2>2, <2>3, <3>1, <3>2 DEF Entry, Entries
  <2>5. end = <<e>>
    BY <1>23, <2>2, <2>3
  <2>6. Q2 = {}
    <3>1. ASSUME NEW q \in moved PROVE q \in taken
      <4>1. q.cmd \in 1..(Len(out) + 1)
        BY <1>9, <1>12, <2>1, AskedIsMark DEF Asks
      <4>2. q.cmd < Len(out) + 1 \/ q.cmd = Len(out) + 1
        BY <1>13, <4>1
      <4> QED BY <1>9, <1>27, <1>5, <4>2 DEF Taken
    <3> QED BY <1>24, <3>1 DEF QueriesWithout
  <2>7. IsSound(RowsOf(v \o end, back))
    <3>1. end \in Seq(Entries) /\ \A p \in 1..Len(end) : end[p].exec = Nothing
      BY <2>4, <2>5
    <3> QED BY <1>8, <1>11, <1>12, <1>19, <1>22, <3>1, WrittenIsSound
  <2>8. /\ Stamped(v \o end) /\ v \o end # <<>>
        /\ (v \o end)[Len(v \o end)].exec = Nothing
    BY <1>20, <1>22, <2>4, <2>5, EndIsStamped
  <2>9. v \o end \in Seq(Entries)
    BY <1>22, <2>4, <2>5, ConcatProperties
  <2>10. IsConsistent(v \o end, back, Q2)
    BY <1>11, <2>1, <2>6, <2>7, <2>8, <2>9 DEF IsConsistent, Open, Closed
  <2> QED BY <1>9, <1>24, <1>25, <1>6, <2>10
<1> QED
  BY <1>26, <1>27

-----------------------------------------------------------------------------
(* The invariant is inductive                                                *)

\* The graph that Init has.
LEMMA InitIsConsistent ==
    ASSUME Init
    PROVE  RecInv
<1>1. N \in Nat
  BY SizeAssumption
<1>2. PICK g : g = [c \in Commands |-> CommandExecs(c)]
  OBVIOUS
<1>3. /\ AreRows(g) /\ Len(g) = N /\ DOMAIN g = 1..N
      /\ \A c \in 1..N : Len(g[c]) = Execs[c] /\ DOMAIN g[c] = 1..Execs[c] /\ g[c] \in Seq(Exec)
      /\ \A c \in 1..N : \A x \in 1..Execs[c] : g[c][x] = <<c, x>>
  <2>1. \A c \in 1..N : CommandExecs(c) \in Seq(Exec) /\ Len(CommandExecs(c)) = Execs[c]
                        /\ Execs[c] \in Nat /\ Execs[c] # 0
    BY ExecIs DEF Commands
  <2>2. \A c \in 1..N : CommandExecs(c) # <<>>
    BY <2>1
  <2>3. g \in [1..N -> Seq(Exec)] /\ \A c \in 1..N : g[c] = CommandExecs(c)
    BY <1>2, <2>1 DEF Commands
  <2>4. g \in Seq(Seq(Exec)) /\ Len(g) = N /\ DOMAIN g = 1..N
    BY <1>1, <2>3
  <2>5. AreRows(g)
    BY <2>2, <2>3, <2>4 DEF AreRows
  <2>6. \A c \in 1..N : DOMAIN CommandExecs(c) = 1..Execs[c]
                        /\ \A x \in 1..Execs[c] : CommandExecs(c)[x] = <<c, x>>
    BY DEF CommandExecs
  <2> QED BY <2>1, <2>3, <2>4, <2>5, <2>6
<1>4. PICK G : G = RowsOf(<<>>, g)
  OBVIOUS
<1>5. /\ DOMAIN G = 0..N /\ DOMAIN G[0] = {}
      /\ \A i \in 1..N : G[i] = g[i]
  <2>1. G = [i \in 0..N |-> IF i = 0 THEN [n \in DOMAIN <<>> |-> <<>>[n].exec] ELSE g[i]]
    BY <1>3, <1>4 DEF RowsOf
  <2>2. 0 \in 0..N /\ \A i \in 1..N : i \in 0..N /\ i # 0
    BY <1>1
  <2>3. G[0] = [n \in DOMAIN <<>> |-> <<>>[n].exec]
    BY <2>1, <2>2
  <2>4. DOMAIN G[0] = {}
    BY <2>3
  <2> QED BY <2>1, <2>2, <2>4
<1>6. ASSUME NEW i \in DOMAIN G, NEW x \in DOMAIN G[i]
      PROVE  i \in 1..N /\ x \in 1..Execs[i] /\ G[i][x] = <<i, x>>
  <2>1. i # 0 /\ i \in 1..N
    BY <1>1, <1>5
  <2> QED BY <1>3, <1>5, <2>1
<1>7. \A i \in 1..N : i \in DOMAIN G /\ DOMAIN G[i] = 1..Execs[i]
  BY <1>1, <1>3, <1>5
<1>8. IsSound(G)
  <2>1. ASSUME NEW i \in DOMAIN G, NEW j \in DOMAIN G, NEW x \in DOMAIN G[i], NEW y \in DOMAIN G[j],
               G[i][x][1] = G[j][y][1]
        PROVE  i = j /\ x - y = G[i][x][2] - G[j][y][2]
    <3>1. G[i][x] = <<i, x>> /\ G[j][y] = <<j, y>>
      BY <1>6
    <3> QED BY <2>1, <3>1
  <2>2. ASSUME NEW i \in DOMAIN G, NEW j \in DOMAIN G, NEW x \in DOMAIN G[i], NEW y \in DOMAIN G[j],
               Conflict(G[i][x], G[j][y])
        PROVE  Before(i, x, j, y)
    <3>1. G[i][x] = <<i, x>> /\ G[j][y] = <<j, y>>
      BY <1>6
    <3> QED BY <2>2, <3>1 DEF Conflict, Before
  <2>3. ASSUME NEW e \in Exec PROVE \E i \in DOMAIN G : \E x \in DOMAIN G[i] : G[i][x] = e
    <3>1. PICK i, x : i = e[1] /\ x = e[2]
      OBVIOUS
    <3>2. e = <<i, x>> /\ i \in 1..N /\ x \in 1..Execs[i]
      BY <3>1, ExecIs DEF Commands
    <3>3. i \in DOMAIN G /\ x \in DOMAIN G[i] /\ G[i][x] = e
      BY <1>6, <1>7, <3>2
    <3> QED BY <3>3
  <2>4. Together(G)
    BY <2>1 DEF Together
  <2>5. Ordered(G)
    BY <2>2 DEF Ordered
  <2>6. Complete(G)
    BY <2>3 DEF Complete
  <2> QED BY <2>4, <2>5, <2>6 DEF IsSound
<1>9. Asks(AllQueries, g)
  <2>1. ASSUME NEW q \in AllQueries PROVE Asked(q, g)
    <3>1. CASE \E c \in 1..(N + 1) : q = Query(<<c, 0>>, c, 1, "before")
      <4>1. PICK c \in 1..(N + 1) : q = Query(<<c, 0>>, c, 1, "before")
        BY <3>1
      <4>2. CASE c = N + 1
        BY <1>3, <4>1, <4>2 DEF Asked, AskedAtEnd
      <4>3. CASE c # N + 1
        <5>1. c \in 1..N /\ c \in Commands
          BY <1>1, <4>3 DEF Commands
        <5>2. 1 \in 1..Len(g[c]) /\ g[c][1] = <<c, 1>>
          <6>1. Execs[c] \in Nat /\ Execs[c] # 0
            BY <5>1, ExecsAssumption
          <6>2. 1 \in 1..Execs[c]
            BY <6>1
          <6> QED BY <1>3, <5>1, <6>2
        <5>3. q = AskedBefore(g, c, 1) /\ g[c][1][2] = 1
          BY <4>1, <5>2 DEF AskedBefore
        <5> QED BY <1>3, <5>1, <5>2, <5>3 DEF Asked
      <4> QED BY <4>2, <4>3
    <3>2. CASE \E e \in Exec : q = Query(e, e[1], e[2], "after")
      <4>1. PICK e \in Exec : q = Query(e, e[1], e[2], "after")
        BY <3>2
      <4>2. PICK i, x : i = e[1] /\ x = e[2]
        OBVIOUS
      <4>3. e = <<i, x>> /\ i \in 1..N /\ x \in 1..Execs[i]
        BY <4>2, ExecIs DEF Commands
      <4>4. i \in 1..Len(g) /\ x \in 1..Len(g[i]) /\ g[i][x] = e
        BY <1>3, <4>3
      <4>5. q = AskedBehind(g, i, x)
        BY <4>1, <4>2, <4>4 DEF AskedBehind
      <4> QED BY <4>4, <4>5 DEF Asked
    <3> QED BY <3>1, <3>2 DEF AllQueries
  <2>2. ASSUME NEW i \in 1..Len(g), NEW x \in 1..Len(g[i])
        PROVE  /\ AskedBehind(g, i, x) \in AllQueries
               /\ g[i][x][2] = 1 => AskedBefore(g, i, x) \in AllQueries
    <3>1. i \in 1..N /\ x \in 1..Execs[i] /\ g[i][x] = <<i, x>> /\ g[i][x] \in Exec
      BY <1>3
    <3>2. AskedBehind(g, i, x) = Query(<<i, x>>, <<i, x>>[1], <<i, x>>[2], "after")
      BY <3>1 DEF AskedBehind
    <3>3. AskedBehind(g, i, x) \in AllQueries
      BY <3>1, <3>2 DEF AllQueries
    <3>4. g[i][x][2] = 1 => AskedBefore(g, i, x) = Query(<<i, 0>>, i, 1, "before")
      BY <3>1 DEF AskedBefore
    <3>5. i \in 1..(N + 1)
      BY <1>1, <3>1
    <3> QED BY <3>3, <3>4, <3>5 DEF AllQueries
  <2>3. AskedAtEnd(g) \in AllQueries
    <3>1. N + 1 \in 1..(N + 1)
      BY <1>1
    <3> QED BY <1>3, <3>1 DEF AskedAtEnd, AllQueries
  <2> QED BY <2>1, <2>2, <2>3 DEF Asks
<1>10. IsConsistent(<<>>, g, AllQueries)
  <2>1. <<>> \in Seq(Entries) /\ Stamped(<<>>) /\ AllExecs(<<>>)
    BY DEF Stamped, AllExecs
  <2> QED BY <1>3, <1>4, <1>8, <1>9, <2>1 DEF IsConsistent, Open, Closed
<1>11. log = <<>> /\ cmds = g /\ queries = AllQueries
  BY <1>2 DEF Init
<1>12. /\ uses \in [Commands -> SUBSET Resources] /\ resources \in Seq(Seq(Exec))
       /\ graphics \in [Commands -> BOOLEAN]
  BY ModeAssumption DEF Init
<1> QED
  BY <1>10, <1>11, <1>12 DEF RecInv

\* Consistency is about the accesses of commands, which do not change.
LEMMA ConsistentNext ==
    ASSUME NEW w, NEW g, NEW Q, IsConsistent(w, g, Q), uses' = uses,
           log' = w, cmds' = g, queries' = Q
    PROVE  IsConsistent(log, cmds, queries)'
<1>1. PICK G : G = RowsOf(w, g)
  OBVIOUS
<1>2. IsSound(G)
  BY <1>1 DEF IsConsistent
<1>3. IsSound(G)'
  BY <1>2 DEF IsSound, Together, Ordered, Complete, Conflict
<1>4. IsSound(RowsOf(w, g))'
  BY <1>1, <1>3
<1>5. IsConsistent(w, g, Q)'
  BY <1>4 DEF IsConsistent
<1> QED
  BY <1>5 DEF IsConsistent

\* A selection is recorded.
LEMMA RecordKeeps ==
    ASSUME RecInv, NEW g, NEW S, cmds # <<>>, IsSelection(cmds, S, Reorder(g, S)),
           RecordScheduled(g, S)
    PROVE  RecInv'
<1>1. PICK h, Q, written, res : h = cmds /\ Q = queries /\ written = log /\ res = resources
  OBVIOUS
<1>2. PICK order : order = Reorder(g, S)
  OBVIOUS
<1>3. PICK out : out = Merged(h, order).cmds
  OBVIOUS
<1>4. PICK leased : leased = res \o out
  OBVIOUS
<1>5. /\ IsRecorded(written, h, Q, order, leased, log', cmds', queries')
      /\ resources' = SubSeq(leased, 1, Len(res)) /\ uses' = uses /\ graphics' = graphics
  <2> DEFINE Effect(ord, m) ==
        LET rest  == Unscheduled(cmds, ord)
            moved == MoveQueries(queries, m, ord, rest)
            lent  == resources \o m.cmds
        IN /\ log' = LogWith(log, m.cmds, moved, lent, Final(m.cmds, moved, rest))
           /\ cmds' = [n \in DOMAIN rest |-> cmds[rest[n]]]
           /\ queries' = QueriesWithout(m.cmds, moved, Taken(m.cmds, moved, rest))
           /\ resources' = SubSeq(lent, 1, Len(resources))
           /\ UNCHANGED <<uses, graphics>>
  <2>1. \E ord \in {Reorder(g, S)} : \E m \in {Merged(cmds, ord)} : Effect(ord, m)
    BY Zenon DEF RecordScheduled, LogWith, Final, Taken, QueriesWithout
  <2> HIDE DEF Effect
  <2>2. Effect(order, Merged(h, order))
    BY <1>1, <1>2, <2>1
  <2> USE DEF Effect
  <2> QED
    BY <1>1, <1>3, <1>4, <2>2, Zenon DEF IsRecorded
<1>6. /\ IsConsistent(written, h, Q) /\ h # <<>> /\ IsSelection(h, S, order)
      /\ res \in Seq(Seq(Exec))
  BY <1>1, <1>2 DEF RecInv
<1>7. out \in Seq(Seq(Exec))
  <2>1. AreRows(out)
    BY <1>3, <1>6, MergedAreRows DEF IsConsistent, IsSelection
  <2> QED BY <2>1 DEF AreRows
<1>8. AreLeased(leased, out) /\ SubSeq(leased, 1, Len(res)) \in Seq(Seq(Exec))
  <2>1. leased \in Seq(Seq(Exec)) /\ Len(leased) = Len(res) + Len(out)
    BY <1>4, <1>6, <1>7, ConcatProperties
  <2>2. Len(res) \in Nat /\ Len(out) \in Nat
    BY <1>6, <1>7
  <2>3. PICK a, b : a = Len(res) /\ b = Len(out) /\ a \in Nat /\ b \in Nat
    BY <2>2
  <2>4. \A i \in 1..b : i \in 1..(a + b)
    BY <2>3
  <2>5. \A i \in 1..a : i \in 1..(a + b)
    BY <2>3
  <2>6. \A i \in 1..(a + b) : leased[i] \in Seq(Exec)
    BY <2>1, <2>3
  <2>7. SubSeq(leased, 1, a) \in Seq(Seq(Exec))
    <3>1. SubSeq(leased, 1, a) = [i \in 1..a |-> leased[i]]
      BY <2>1, <2>3
    <3>2. [i \in 1..a |-> leased[i]] \in [1..a -> Seq(Exec)]
      BY <2>5, <2>6
    <3> QED BY <2>3, <3>1, <3>2
  <2> QED BY <2>3, <2>4, <2>6, <2>7 DEF AreLeased
<1>9. PICK w, h2, Q2 : w = log' /\ h2 = cmds' /\ Q2 = queries'
  OBVIOUS
<1>10. IsConsistent(w, h2, Q2)
  <2>1. AreLeased(leased, Merged(h, order).cmds)
    BY <1>3, <1>8
  <2>2. IsRecorded(written, h, Q, order, leased, w, h2, Q2)
    BY <1>5, <1>9
  <2> QED BY <1>6, <2>1, <2>2, RecordedIsConsistent
<1>11. IsConsistent(log, cmds, queries)'
  BY <1>5, <1>9, <1>10, ConsistentNext
<1>12. (resources \in Seq(Seq(Exec)))'
  BY <1>5, <1>8
<1>13. (uses \in [Commands -> SUBSET Resources] /\ graphics \in [Commands -> BOOLEAN])'
  BY <1>5 DEF RecInv
<1> QED
  BY <1>11, <1>12, <1>13 DEF RecInv

\* Leasing fails after commands were merged.
LEMMA LeaseFailsKeeps ==
    ASSUME RecInv, NEW g, NEW S, cmds # <<>>, IsSelection(cmds, S, Reorder(g, S)),
           LeaseFails(g, S)
    PROVE  RecInv'
<1>1. PICK h, Q, written, res : h = cmds /\ Q = queries /\ written = log /\ res = resources
  OBVIOUS
<1>2. PICK order : order = Reorder(g, S)
  OBVIOUS
<1>3. PICK m : m = Merged(h, order)
  OBVIOUS
<1>4. PICK rest : rest = Unscheduled(h, order)
  OBVIOUS
<1>5. PICK h2, Q2 : h2 = PutBack(h, m, rest) /\ Q2 = MoveQueries(Q, m, order, rest)
  OBVIOUS
<1>6. /\ log' = written /\ cmds' = h2 /\ queries' = Q2
      /\ \E n \in {n \in 0..(Len(m.cmds) - 1) : n <= MaxStale} :
           resources' = res \o SubSeq(m.cmds, 1, n)
      /\ uses' = uses /\ graphics' = graphics
  BY <1>1, <1>2, <1>3, <1>4, <1>5 DEF LeaseFails, PutBack
<1>7. /\ IsConsistent(written, h, Q) /\ h # <<>> /\ IsClosed(h, S) /\ IsOrder(h, S, order)
      /\ res \in Seq(Seq(Exec))
  BY <1>1, <1>2 DEF RecInv, IsSelection
<1>8. written \in Seq(Entries) /\ AllExecs(written) /\ Stamped(written) /\ IsState(written, h, Q)
  BY <1>7 DEF IsConsistent, Open, IsState
<1>9. IsState(written, h2, Q2) /\ h2 # <<>>
  BY <1>3, <1>4, <1>5, <1>7, <1>8, MergedIsState
<1>10. IsConsistent(written, h2, Q2)
  BY <1>8, <1>9 DEF IsState, IsConsistent, Open, Closed
<1>11. IsConsistent(log, cmds, queries)'
  BY <1>6, <1>10, ConsistentNext
<1>12. PICK out : out = m.cmds
  OBVIOUS
<1>13. out \in Seq(Seq(Exec)) /\ Len(out) \in Nat
  <2>1. AreRows(out)
    BY <1>3, <1>7, <1>12, MergedAreRows DEF IsConsistent
  <2> QED BY <2>1 DEF AreRows
<1>14. PICK n \in 0..(Len(out) - 1) : resources' = res \o SubSeq(out, 1, n)
  BY <1>6, <1>12
<1>15. SubSeq(out, 1, n) \in Seq(Seq(Exec))
  <2>1. n \in Nat /\ \A i \in 1..n : i \in 1..Len(out)
    BY <1>13
  <2>2. \A i \in 1..n : out[i] \in Seq(Exec)
    BY <1>13, <2>1
  <2>3. SubSeq(out, 1, n) = [i \in 1..n |-> out[i]]
    BY <1>13, <2>1
  <2>4. [i \in 1..n |-> out[i]] \in [1..n -> Seq(Exec)]
    BY <2>2
  <2> QED BY <2>1, <2>3, <2>4
<1>16. (resources \in Seq(Seq(Exec)))'
  BY <1>7, <1>14, <1>15, ConcatProperties
<1>17. (uses \in [Commands -> SUBSET Resources] /\ graphics \in [Commands -> BOOLEAN])'
  BY <1>6 DEF RecInv
<1> QED
  BY <1>11, <1>16, <1>17 DEF RecInv

\* The commands access resources that there are.
LEMMA CommandsAreGraph ==
    ASSUME RecInv
    PROVE  IsGraph(cmds, Len(cmds)) /\ cmds \in Seq(Seq(Exec))
<1>1. cmds \in Seq(Seq(Exec)) /\ Len(cmds) \in Nat /\ DOMAIN cmds = 1..Len(cmds)
  BY DEF RecInv, IsConsistent, AreRows
<1>2. ASSUME NEW i \in 1..Len(cmds) PROVE UsesOf(cmds[i]) \subseteq Resources
  <2>1. cmds[i] \in Seq(Exec)
    BY <1>1
  <2>2. ASSUME NEW e \in Range(cmds[i]) PROVE uses[e[1]] \subseteq Resources
    <3>1. e \in Exec
      BY <2>1 DEF Range
    <3> QED BY <3>1, ExecIs DEF RecInv
  <2> QED BY <2>2 DEF UsesOf
<1> QED
  BY <1>1, <1>2 DEF IsGraph

\* A selection of the first k commands, as Next takes it.
IsSelected(k, S, kind, r) ==
    /\ IsClosed(SubSeq(cmds, 1, k), S)
    /\ kind = "node" => S = NodeSelection(cmds, r)
    /\ kind = "dependencies" =>
         /\ Users(cmds, r) # {} /\ k = Smallest(Users(cmds, r))
         /\ S = DependencySelection(SubSeq(cmds, 1, k), r)

Kinds == {"none", "all", "node", "dependencies"}

\* Every step records a closed selection of all commands, or of the first ones.
LEMMA NextSelects ==
    ASSUME RecInv, Next
    PROVE  \E k \in 1..Len(cmds), kind \in Kinds, r \in Nat, S \in SUBSET (1..Len(cmds)) :
             IsSelected(k, S, kind, r) /\ Select(SubSeq(cmds, 1, k), S, kind, r)
<1>1. /\ cmds \in Seq(Seq(Exec)) /\ IsGraph(cmds, Len(cmds)) /\ Len(cmds) \in Nat
      /\ DOMAIN cmds = 1..Len(cmds)
  <2>1. cmds \in Seq(Seq(Exec)) /\ IsGraph(cmds, Len(cmds))
    BY CommandsAreGraph
  <2> QED BY <2>1
<1>2. ASSUME NEW S, NEW kind, NEW r, IsClosed(cmds, S), Select(cmds, S, kind, r)
      PROVE  /\ Len(cmds) \in 1..Len(cmds) /\ SubSeq(cmds, 1, Len(cmds)) = cmds
             /\ S \in SUBSET (1..Len(cmds))
  <2>1. S # {} /\ S \subseteq 1..Len(cmds)
    BY <1>1, <1>2 DEF Select, IsClosed
  <2>2. Len(cmds) \in 1..Len(cmds)
    <3>1. PICK l : l = Len(cmds) /\ l \in Nat
      BY <1>1
    <3>2. PICK i \in S : i \in 1..l
      BY <2>1, <3>1
    <3>3. l \in 1..l
      BY <3>1, <3>2
    <3> QED BY <3>1, <3>3
  <2>3. SubSeq(cmds, 1, Len(cmds)) = cmds
    BY <1>1
  <2> QED BY <2>1, <2>2, <2>3
<1>3. CASE RecordAll
  <2>1. IsClosed(cmds, DOMAIN cmds)
    BY DEF IsClosed
  <2>2. Select(cmds, DOMAIN cmds, "all", 0)
    BY <1>3 DEF RecordAll
  <2>3. /\ Len(cmds) \in 1..Len(cmds) /\ SubSeq(cmds, 1, Len(cmds)) = cmds
        /\ DOMAIN cmds \in SUBSET (1..Len(cmds))
    BY <1>2, <2>1, <2>2
  <2>4. IsSelected(Len(cmds), DOMAIN cmds, "all", 0)
    BY <2>1, <2>3 DEF IsSelected
  <2>5. Select(SubSeq(cmds, 1, Len(cmds)), DOMAIN cmds, "all", 0)
    BY <2>2, <2>3
  <2>6. "all" \in Kinds /\ 0 \in Nat
    BY DEF Kinds
  <2> QED BY <2>3, <2>4, <2>5, <2>6, Zenon
<1>4. ASSUME NEW r \in Resources, RecordNode(r)
      PROVE  \E k \in 1..Len(cmds), kind \in Kinds, s \in Nat, S \in SUBSET (1..Len(cmds)) :
               IsSelected(k, S, kind, s) /\ Select(SubSeq(cmds, 1, k), S, kind, s)
  <2>1. PICK S : S = NodeSelection(cmds, r)
    OBVIOUS
  <2>2. IsClosed(cmds, S)
    BY <1>1, <2>1, RequiredIsClosed DEF NodeSelection
  <2>3. Select(cmds, S, "node", r)
    BY <1>4, <2>1 DEF RecordNode
  <2>4. /\ Len(cmds) \in 1..Len(cmds) /\ SubSeq(cmds, 1, Len(cmds)) = cmds
        /\ S \in SUBSET (1..Len(cmds))
    BY <1>2, <2>2, <2>3
  <2>5. IsSelected(Len(cmds), S, "node", r)
    BY <2>1, <2>2, <2>4 DEF IsSelected
  <2>6. Select(SubSeq(cmds, 1, Len(cmds)), S, "node", r)
    BY <2>3, <2>4
  <2>7. "node" \in Kinds /\ r \in Nat
    BY DEF Kinds, Resources
  <2> QED BY <2>4, <2>5, <2>6, <2>7, Zenon
<1>5. ASSUME NEW r \in Resources, RecordDependencies(r)
      PROVE  \E k \in 1..Len(cmds), kind \in Kinds, s \in Nat, S \in SUBSET (1..Len(cmds)) :
               IsSelected(k, S, kind, s) /\ Select(SubSeq(cmds, 1, k), S, kind, s)
  <2>1. PICK k : k = Smallest(Users(cmds, r))
    OBVIOUS
  <2>2. PICK g : g = SubSeq(cmds, 1, k)
    OBVIOUS
  <2>3. PICK S : S = DependencySelection(g, r)
    OBVIOUS
  <2>4. Users(cmds, r) # {} /\ Select(g, S, "dependencies", r)
    BY <1>5, <2>1, <2>2, <2>3 DEF RecordDependencies
  <2>5. k \in 1..Len(cmds)
    <3>1. Users(cmds, r) \in SUBSET Nat /\ Users(cmds, r) \subseteq 1..Len(cmds)
      BY <1>1 DEF Users
    <3>2. \E i \in Users(cmds, r) : \A j \in Users(cmds, r) : i <= j
      BY <2>4, <3>1, LeastNat
    <3>3. k \in Users(cmds, r)
      BY <2>1, <3>2 DEF Smallest
    <3> QED BY <3>1, <3>3
  <2>6. k \in Nat /\ DOMAIN g = 1..k /\ \A i \in 1..k : i \in 1..Len(cmds) /\ g[i] = cmds[i]
    BY <1>1, <2>2, <2>5
  <2>7. IsGraph(g, k)
    BY <1>1, <2>6 DEF IsGraph
  <2>8. IsClosed(g, S)
    <3>1. IsClosed(g, {})
      BY DEF IsClosed
    <3> QED BY <2>3, <2>7, <3>1, RequiredIsClosed DEF DependencySelection
  <2>9. S \in SUBSET (1..Len(cmds))
    BY <2>6, <2>8 DEF IsClosed
  <2>10. IsSelected(k, S, "dependencies", r)
    BY <2>1, <2>2, <2>3, <2>4, <2>8 DEF IsSelected
  <2>11. Select(SubSeq(cmds, 1, k), S, "dependencies", r)
    BY <2>2, <2>4
  <2>12. "dependencies" \in Kinds /\ r \in Nat
    BY DEF Kinds, Resources
  <2> QED BY <2>5, <2>9, <2>10, <2>11, <2>12, Zenon
<1> QED
  BY <1>3, <1>4, <1>5 DEF Next

\* A closed selection of all commands, or of the first ones, can be recorded.
LEMMA CanRecord ==
    ASSUME RecInv, NEW k \in 1..Len(cmds), NEW S, IsClosed(SubSeq(cmds, 1, k), S)
    PROVE  cmds # <<>> /\ IsSelection(cmds, S, Reorder(SubSeq(cmds, 1, k), S))
<1>1. IsGraph(cmds, Len(cmds)) /\ cmds \in Seq(Seq(Exec))
  BY CommandsAreGraph
<1>2. PICK g : g = SubSeq(cmds, 1, k)
  OBVIOUS
<1>3. IsClosed(cmds, S) /\ IsGraph(g, k) /\ IsClosed(g, S)
  BY <1>1, <1>2, ClosedInPrefix
<1>4. /\ Len(cmds) \in Nat /\ cmds # <<>> /\ k \in Nat
      /\ DOMAIN g = 1..k /\ \A i \in 1..k : g[i] = cmds[i]
  BY <1>1, <1>2
<1>5. S \in SUBSET (1..k)
  BY <1>3, <1>4 DEF IsClosed
<1>6. PICK order : order = Reorder(g, S)
  OBVIOUS
<1>7. IsOrder(g, S, order)
  BY <1>3, <1>5, <1>6, ReorderIsOrder
<1>8. IsOrder(cmds, S, order)
  <2>1. \A p \in 1..Len(order) : order[p] \in 1..k
    <3>1. order \in Seq(S)
      BY <1>7 DEF IsOrder
    <3>2. \A p \in 1..Len(order) : order[p] \in S
      BY <3>1
    <3> QED BY <1>5, <3>2
  <2>2. \A p \in 1..Len(order) : g[order[p]] = cmds[order[p]]
    BY <1>4, <2>1
  <2> QED BY <1>7, <2>2 DEF IsOrder
<1>9. IsSelection(cmds, S, Reorder(g, S))
  BY <1>3, <1>6, <1>8 DEF IsSelection
<1> QED
  BY <1>2, <1>4, <1>9

\* Every selection, recorded or not, keeps the invariant.
LEMMA NextKeeps ==
    ASSUME RecInv, Next
    PROVE  RecInv'
<1>1. PICK k \in 1..Len(cmds), kind \in Kinds, r \in Nat, S \in SUBSET (1..Len(cmds)) :
        IsSelected(k, S, kind, r) /\ Select(SubSeq(cmds, 1, k), S, kind, r)
  BY NextSelects
<1>2. cmds # <<>> /\ IsSelection(cmds, S, Reorder(SubSeq(cmds, 1, k), S))
  BY <1>1, CanRecord DEF IsSelected
<1>3. RecordScheduled(SubSeq(cmds, 1, k), S) \/ LeaseFails(SubSeq(cmds, 1, k), S)
  BY <1>1 DEF Select
<1> QED
  BY <1>2, <1>3, RecordKeeps, LeaseFailsKeeps

\* So does a step that changes nothing.
LEMMA StutterKeeps ==
    ASSUME RecInv, UNCHANGED vars
    PROVE  RecInv'
<1>1. PICK w, g, Q : w = log /\ g = cmds /\ Q = queries
  OBVIOUS
<1>2. log' = w /\ cmds' = g /\ queries' = Q /\ uses' = uses /\ IsConsistent(w, g, Q)
  BY <1>1 DEF RecInv, vars
<1>3. IsConsistent(log, cmds, queries)'
  BY <1>2, ConsistentNext
<1> QED
  BY <1>3 DEF RecInv, vars

\* The invariant holds in every reachable state.
THEOREM Inductive == Spec => []RecInv
<1>1. Init => RecInv
  BY InitIsConsistent
<1>2. RecInv /\ [Next]_vars => RecInv'
  BY NextKeeps, StutterKeeps
<1> QED
  BY <1>1, <1>2, PTL DEF Spec

-----------------------------------------------------------------------------
(* What it says of the command buffer                                        *)

\* The rows, read as the properties read them.
LEMMA RowsAre ==
    ASSUME RecInv
    PROVE  /\ \A e \in Exec : \A n \in Position(e) :
                n \in Nat /\ n \in DOMAIN log /\ log[n].exec = e
           /\ \A e \in Exec : \A f \in Exec : \A i \in Position(e) : \A j \in Position(f) :
                /\ e[1] = f[1] => i - j = e[2] - f[2]
                /\ Conflict(e, f) => i < j
           /\ \A e \in Exec : \A f \in Exec : Conflict(e, f) /\ Position(f) # {} => Position(e) # {}
           /\ \A e \in Exec : \A f \in Exec :
                e[1] = f[1] /\ Position(f) # {} =>
                  f \notin RemainingExecs /\ e \notin RemainingExecs
           /\ \A e \in Exec : e \in RemainingExecs \/ Position(e) # {}
<1>1. PICK w, g : w = log /\ g = cmds
  OBVIOUS
<1>2. PICK G : G = RowsOf(w, g)
  OBVIOUS
<1>3. /\ w \in Seq(Entries) /\ AreRows(g) /\ IsSound(G) /\ Len(g) \in Nat
      /\ DOMAIN w = 1..Len(w) /\ Len(w) \in Nat /\ DOMAIN g = 1..Len(g)
  <2>1. w \in Seq(Entries) /\ AreRows(g) /\ IsSound(G)
    BY <1>1, <1>2 DEF RecInv, IsConsistent
  <2> QED BY <2>1 DEF AreRows
<1>4. /\ DOMAIN G = 0..Len(g)
      /\ 0 \in DOMAIN G /\ DOMAIN G[0] = DOMAIN w /\ \A n \in DOMAIN w : G[0][n] = w[n].exec
      /\ \A i \in 1..Len(g) : i \in DOMAIN G /\ G[i] = g[i]
  BY <1>2, <1>3 DEF RowsOf
<1>5. \A e : \A n \in Position(e) : n \in Nat /\ n \in DOMAIN w /\ w[n].exec = e /\ G[0][n] = e
  BY <1>1, <1>3, <1>4 DEF Position
<1>6. ASSUME NEW e \in Exec, NEW f \in Exec, NEW i \in Position(e), NEW j \in Position(f)
      PROVE  /\ e[1] = f[1] => i - j = e[2] - f[2]
             /\ Conflict(e, f) => i < j
  <2>1. G[0][i] = e /\ G[0][j] = f /\ i \in DOMAIN G[0] /\ j \in DOMAIN G[0] /\ 0 \in DOMAIN G
    BY <1>4, <1>5
  <2>2. e[1] = f[1] => i - j = e[2] - f[2]
    BY <1>3, <2>1 DEF IsSound, Together
  <2>3. Conflict(e, f) => i < j
    BY <1>3, <2>1 DEF IsSound, Ordered, Before
  <2> QED BY <2>2, <2>3
<1>7. ASSUME NEW e \in Exec
      PROVE  \E i \in DOMAIN G : \E x \in DOMAIN G[i] : 
                /\ G[i][x] = e /\ i \in Nat /\ (i = 0 => x \in Position(e))
                /\ (i # 0 => e \in RemainingExecs)
  <2>1. PICK i \in DOMAIN G : \E x \in DOMAIN G[i] : G[i][x] = e
    BY <1>3 DEF IsSound, Complete
  <2>2. PICK x \in DOMAIN G[i] : G[i][x] = e
    BY <2>1
  <2>3. i \in Nat /\ (i = 0 \/ i \in 1..Len(g))
    BY <1>3, <1>4
  <2>4. i = 0 => x \in Position(e)
    BY <1>1, <1>4, <2>2 DEF Position
  <2>5. i # 0 => e \in RemainingExecs
    <3>1. i # 0 => i \in DOMAIN cmds /\ e \in Range(cmds[i])
      BY <1>1, <1>3, <1>4, <2>2, <2>3 DEF Range
    <3> QED BY <3>1 DEF RemainingExecs
  <2> QED BY <2>2, <2>3, <2>4, <2>5
<1>8. ASSUME NEW e \in Exec, NEW f \in Exec, Conflict(e, f), NEW j \in Position(f)
      PROVE  Position(e) # {}
  <2>1. PICK i \in DOMAIN G : \E x \in DOMAIN G[i] :
          G[i][x] = e /\ i \in Nat /\ (i = 0 => x \in Position(e))
    BY <1>7
  <2>2. PICK x \in DOMAIN G[i] :
          G[i][x] = e /\ i \in Nat /\ (i = 0 => x \in Position(e))
    BY <2>1
  <2>3. G[0][j] = f /\ j \in DOMAIN G[0] /\ 0 \in DOMAIN G
    BY <1>4, <1>5
  <2>4. i < 0 \/ i = 0
    BY <1>3, <1>8, <2>2, <2>3 DEF IsSound, Ordered, Before
  <2> QED BY <2>2, <2>4
<1>9. ASSUME NEW e \in Exec, NEW f \in Exec, e[1] = f[1], NEW j \in Position(f)
      PROVE  e \notin RemainingExecs
  <2> SUFFICES ASSUME e \in RemainingExecs PROVE FALSE
    OBVIOUS
  <2>1. PICK i \in DOMAIN g : e \in Range(g[i])
    BY <1>1 DEF RemainingExecs
  <2>2. PICK x \in DOMAIN g[i] : g[i][x] = e
    BY <2>1 DEF Range
  <2>3. i \in DOMAIN G /\ x \in DOMAIN G[i] /\ G[i][x] = e /\ i # 0
    BY <1>3, <1>4, <2>2
  <2>4. G[0][j] = f /\ j \in DOMAIN G[0] /\ 0 \in DOMAIN G
    BY <1>4, <1>5
  <2> QED BY <1>3, <1>9, <2>3, <2>4 DEF IsSound, Together
<1>10. ASSUME NEW e \in Exec PROVE e \in RemainingExecs \/ Position(e) # {}
  BY <1>7
<1> QED
  BY <1>1, <1>5, <1>6, <1>8, <1>9, <1>10

\* Recording.EachOnce.
LEMMA OnceEach ==
    ASSUME RecInv
    PROVE  EachOnce
<1>1. TypeOK
  <2>1. /\ uses \in [Commands -> SUBSET Resources] /\ graphics \in [Commands -> BOOLEAN]
        /\ resources \in Seq(Seq(Exec)) /\ log \in Seq(Entries) /\ AreRows(cmds)
        /\ Open(cmds, queries, log) /\ Closed(cmds, queries, log)
    BY DEF RecInv, IsConsistent
  <2>2. cmds \in Seq(Seq(Exec))
    BY <2>1 DEF AreRows
  <2>3. ASSUME NEW q \in queries
        PROVE  /\ q.mark \in Marks /\ q.place \in Places
               /\ q.cmd \in 1..(Len(cmds) + 1) /\ q.exec \in Nat
    <3>1. Asks(queries, cmds)
      BY <2>1, <2>3 DEF Open, Closed
    <3>2. Asked(q, cmds)
      BY <3>1 DEF Asks
    <3> QED BY <2>1, <3>2, AskedIsMark
  <2>4. ASSUME NEW n \in DOMAIN log PROVE log[n].exec \in Exec \cup {Nothing}
    <3>1. log[n] \in Entries
      BY <2>1
    <3> QED BY <3>1 DEF Entries
  <2> QED BY <2>1, <2>2, <2>3, <2>4 DEF TypeOK
<1>2. ASSUME NEW e \in Exec
      PROVE  /\ Cardinality(Position(e)) <= 1
             /\ e \in RemainingExecs <=> Position(e) = {}
  <2>1. \A i \in Position(e) : \A j \in Position(e) : i = j
    <3>1. \A i \in Position(e) : \A j \in Position(e) :
            i \in Nat /\ j \in Nat /\ i - j = e[2] - e[2] /\ e[2] \in Nat
      BY RowsAre, ExecIs
    <3> QED BY <3>1
  <2>2. Cardinality(Position(e)) <= 1
    <3>1. CASE Position(e) = {}
      BY <3>1, FS_EmptySet
    <3>2. CASE Position(e) # {}
      <4>1. PICK i : Position(e) = {i}
        BY <2>1, <3>2
      <4>2. Cardinality({i}) = 1
        BY FS_Singleton
      <4> QED BY <4>1, <4>2
    <3> QED BY <3>1, <3>2
  <2>3. e \in RemainingExecs <=> Position(e) = {}
    BY RowsAre
  <2> QED BY <2>2, <2>3
<1>3. ASSUME NEW c \in RecordedCommands, NEW n \in 1..Execs[c], NEW m \in 1..Execs[c],
             NEW i \in Position(<<c, n>>), NEW j \in Position(<<c, m>>)
      PROVE  i - j = n - m
  <2>1. PICK e, f : e = <<c, n>> /\ f = <<c, m>>
    OBVIOUS
  <2>2. e \in Exec /\ f \in Exec /\ e[1] = f[1] /\ e[2] = n /\ f[2] = m
    BY <2>1, ExecIs DEF RecordedCommands
  <2> QED BY <2>1, <2>2, RowsAre
<1> QED
  BY <1>1, <1>2, <1>3 DEF EachOnce

\* Recording.HazardOrder.
LEMMA HazardsInOrder ==
    ASSUME RecInv
    PROVE  HazardOrder
<1> SUFFICES ASSUME NEW c \in Commands, NEW d \in Commands, c < d, uses[c] \cap uses[d] # {},
                    d \in RecordedCommands
             PROVE  /\ c \in RecordedCommands
                    /\ \A i \in Position(<<c, 1>>), j \in Position(<<d, 1>>) : i < j
  BY DEF HazardOrder
<1>1. PICK e, f : e = <<c, 1>> /\ f = <<d, 1>>
  OBVIOUS
<1>2. e \in Exec /\ f \in Exec
  <2>1. 1 \in 1..Execs[c] /\ 1 \in 1..Execs[d]
    <3>1. Execs[c] \in Nat /\ Execs[c] # 0 /\ Execs[d] \in Nat /\ Execs[d] # 0
      BY ExecIs
    <3> QED BY <3>1
  <2> QED BY <1>1, <2>1, ExecIs
<1>3. Conflict(e, f)
  BY <1>1, <1>2 DEF Conflict
<1>4. Position(f) # {}
  BY <1>1 DEF RecordedCommands
<1>5. Position(e) # {} /\ \A i \in Position(e), j \in Position(f) : i < j
  BY <1>2, <1>3, <1>4, RowsAre
<1> QED
  BY <1>1, <1>5 DEF RecordedCommands

\* Nothing is lost or recorded twice, and no command is torn apart, by any sequence
\* of selections, with merging and failed attempts: record_scheduled_cmds.
THEOREM RecordedOnce == Spec => []EachOnce
<1>1. RecInv => EachOnce
  BY OnceEach
<1> QED
  BY <1>1, Inductive, PTL

\* Commands that share a resource are recorded in the order of the graph, whichever
\* are selected, reordered and merged.
THEOREM OrderKept == Spec => []HazardOrder
<1>1. RecInv => HazardOrder
  BY HazardsInOrder
<1> QED
  BY <1>1, Inductive, PTL

\* Timestamps are written around the execution they mark.
THEOREM TimestampsFollow == Spec => []TimestampsInPlace
<1>1. RecInv => TimestampsInPlace
  BY DEF RecInv, IsConsistent, Stamped, TimestampsInPlace
<1> QED
  BY <1>1, Inductive, PTL

\* With the last command, the timestamps have all been written.
THEOREM TimestampsWritten == Spec => []TimestampsComplete
<1>1. RecInv => TimestampsComplete
  BY DEF RecInv, IsConsistent, Closed, TimestampsComplete
<1> QED
  BY <1>1, Inductive, PTL

-----------------------------------------------------------------------------
(* Selections before a lease has failed                                      *)

\* The command a row has.
First(g, i) == g[i][1][1]

\* As long as nothing was merged, every row is one command, and they are in order.
Singles(g) ==
    /\ \A i \in 1..Len(g) : First(g, i) \in Commands /\ g[i] = CommandExecs(First(g, i))
    /\ \A i, j \in 1..Len(g) : i < j => First(g, i) < First(g, j)

FirstsOf(g, S) == {First(g, i) : i \in S}

\* A command's executions access what it accesses.
LEMMA UsesOfCommand ==
    ASSUME NEW c \in Commands
    PROVE  /\ UsesOf(CommandExecs(c)) = uses[c]
           /\ CommandExecs(c)[1] = <<c, 1>> /\ <<c, 1>> \in Exec
           /\ \A e \in Range(CommandExecs(c)) : e[1] = c
           /\ <<c, 1>> \in Range(CommandExecs(c))
<1>1. 1 \in 1..Execs[c]
  <2>1. Execs[c] \in Nat /\ Execs[c] # 0
    BY ExecIs
  <2> QED BY <2>1
<1>2. CommandExecs(c)[1] = <<c, 1>> /\ <<c, 1>> \in Exec
  BY <1>1, ExecIs DEF CommandExecs
<1>3. \A e \in Range(CommandExecs(c)) : e[1] = c
  <2> SUFFICES ASSUME NEW e \in Range(CommandExecs(c)) PROVE e[1] = c
    OBVIOUS
  <2>1. PICK n \in 1..Execs[c] : e = <<c, n>>
    BY DEF CommandExecs, Range
  <2> QED BY <2>1
<1>4. <<c, 1>> \in Range(CommandExecs(c))
  BY <1>1 DEF CommandExecs, Range
<1>5. UsesOf(CommandExecs(c)) = uses[c]
  BY <1>3, <1>4 DEF UsesOf
<1> QED
  BY <1>2, <1>3, <1>4, <1>5

\* What is not recorded remains.
LEMMA RecordedAre ==
    RecInv /\ Singles(cmds) => RecordedCommands = Commands \ FirstsOf(cmds, 1..Len(cmds))
<1> SUFFICES ASSUME RecInv, Singles(cmds)
             PROVE  RecordedCommands = Commands \ FirstsOf(cmds, 1..Len(cmds))
  OBVIOUS
<1>1. DOMAIN cmds = 1..Len(cmds)
  BY DEF RecInv, IsConsistent, AreRows
<1>2. ASSUME NEW c \in Commands
      PROVE  c \in RecordedCommands <=> c \notin FirstsOf(cmds, 1..Len(cmds))
  <2>1. PICK e : e = <<c, 1>> /\ e \in Exec
    BY UsesOfCommand
  <2>2. c \in RecordedCommands <=> e \notin RemainingExecs
    <3>1. c \in RecordedCommands <=> Position(e) # {}
      BY <2>1 DEF RecordedCommands
    <3>2. Position(e) # {} => e \notin RemainingExecs
      BY <2>1, RowsAre
    <3>3. e \in RemainingExecs \/ Position(e) # {}
      BY <2>1, RowsAre
    <3> QED BY <3>1, <3>2, <3>3
  <2>3. ASSUME NEW i \in 1..Len(cmds) PROVE e \in Range(cmds[i]) <=> c = First(cmds, i)
    <3>1. PICK d : d = First(cmds, i)
      OBVIOUS
    <3>2. d \in Commands /\ cmds[i] = CommandExecs(d)
      BY <3>1 DEF Singles
    <3>3. e[1] = c
      BY <2>1
    <3> QED BY <2>1, <3>1, <3>2, <3>3, UsesOfCommand
  <2>4. e \in RemainingExecs <=> \E i \in 1..Len(cmds) : c = First(cmds, i)
    BY <1>1, <2>3 DEF RemainingExecs
  <2> QED BY <2>2, <2>4 DEF FirstsOf
<1>3. RecordedCommands \subseteq Commands
  BY DEF RecordedCommands
<1> QED
  BY <1>2, <1>3

\* The same after a step.
LEMMA RecordedAreNext ==
    (RecInv /\ Singles(cmds))' => (RecordedCommands = Commands \ FirstsOf(cmds, 1..Len(cmds)))'
BY RecordedAre, PTL

\* A selection is recorded, and nothing else.
LEMMA SelectionIsRecorded ==
    ASSUME RecInv, Singles(cmds), NEW g, NEW S, cmds # <<>>,
           IsSelection(cmds, S, Reorder(g, S)), RecordScheduled(g, S)
    PROVE  /\ Singles(cmds)'
           /\ RecordedCommands' = RecordedCommands \cup FirstsOf(cmds, S)
           /\ RecordedCommands \cap FirstsOf(cmds, S) = {}
           /\ S \subseteq 1..Len(cmds)
<1>1. PICK h : h = cmds
  OBVIOUS
<1>2. PICK order : order = Reorder(g, S)
  OBVIOUS
<1>3. PICK rest : rest = Unscheduled(h, order)
  OBVIOUS
<1>4. PICK h2 : h2 = [n \in DOMAIN rest |-> h[rest[n]]]
  OBVIOUS
<1>5. cmds' = h2
  <2> DEFINE Effect(ord) ==
               cmds' = [n \in DOMAIN Unscheduled(cmds, ord) |-> cmds[Unscheduled(cmds, ord)[n]]]
  <2>1. \E ord \in {Reorder(g, S)} : Effect(ord)
    BY Zenon DEF RecordScheduled
  <2>2. Effect(order)
    <3> HIDE DEF Effect
    <3> QED BY <1>2, <2>1
  <2> QED BY <1>1, <1>3, <1>4, <2>2, Zenon
<1>6. AreRows(h) /\ IsClosed(h, S) /\ IsOrder(h, S, order) /\ Singles(h)
  BY <1>1, <1>2 DEF RecInv, IsConsistent, IsSelection
<1>7. S \in SUBSET (1..Len(h)) /\ Range(order) = S /\ Len(h) \in Nat
  BY <1>6 DEF IsClosed, IsOrder, AreRows
<1>8. IsRest(rest, (1..Len(h)) \ S, Len(h))
  BY <1>3, <1>6, <1>7, UnscheduledIsRest
<1>9. PICK l : l = Len(rest) /\ l \in Nat
  BY <1>8 DEF IsRest
<1>10. /\ DOMAIN rest = 1..l
       /\ \A n \in 1..l : rest[n] \in 1..Len(h) /\ rest[n] \notin S
       /\ \A i \in (1..Len(h)) \ S : \E n \in 1..l : rest[n] = i
       /\ \A p, q \in 1..l : p < q => rest[p] < rest[q]
  <2>1. /\ rest \in Seq(1..Len(h)) /\ Range(rest) = (1..Len(h)) \ S
        /\ \A p, q \in 1..l : p < q => rest[p] < rest[q]
    BY <1>8, <1>9 DEF IsRest
  <2>2. DOMAIN rest = 1..l
    BY <1>9, <2>1
  <2>3. \A n \in 1..l : rest[n] \in Range(rest)
    BY <2>2 DEF Range
  <2>4. \A i \in Range(rest) : \E n \in 1..l : rest[n] = i
    BY <2>2 DEF Range
  <2> QED BY <2>1, <2>2, <2>3, <2>4
<1>11. /\ DOMAIN h2 = 1..l /\ Len(h2) = l
       /\ \A n \in 1..l : h2[n] = h[rest[n]] /\ First(h2, n) = First(h, rest[n])
  <2>1. DOMAIN h2 = 1..l /\ \A n \in 1..l : h2[n] = h[rest[n]]
    BY <1>4, <1>10
  <2>2. Len(h2) = l
    <3>1. AreRows(h2) /\ Len(h2) = Len(rest)
      BY <1>3, <1>4, <1>6, RestAreRows
    <3> QED BY <1>9, <3>1
  <2> QED BY <2>1, <2>2 DEF First
<1>12. Singles(h2)
  <2>1. ASSUME NEW n \in 1..l PROVE First(h2, n) \in Commands /\ h2[n] = CommandExecs(First(h2, n))
    <3>1. PICK i : i = rest[n] /\ i \in 1..Len(h)
      BY <1>10
    <3>2. First(h, i) \in Commands /\ h[i] = CommandExecs(First(h, i))
      BY <1>6, <3>1 DEF Singles
    <3> QED BY <1>11, <3>1, <3>2
  <2>2. ASSUME NEW p \in 1..l, NEW q \in 1..l, p < q PROVE First(h2, p) < First(h2, q)
    <3>1. PICK i, j : i = rest[p] /\ j = rest[q]
      OBVIOUS
    <3>2. i \in 1..Len(h) /\ j \in 1..Len(h) /\ i < j
      BY <1>10, <2>2, <3>1
    <3>3. First(h, i) < First(h, j)
      BY <1>6, <3>2 DEF Singles
    <3> QED BY <1>11, <3>1, <3>3
  <2> QED BY <1>11, <2>1, <2>2 DEF Singles
<1>13. Singles(cmds)'
  BY <1>5, <1>12 DEF Singles, First, CommandExecs
<1>14. RecInv'
  BY RecordKeeps
<1>15. RecordedCommands' = Commands \ FirstsOf(h2, 1..l)
  <2>1. (RecordedCommands = Commands \ FirstsOf(cmds, 1..Len(cmds)))'
    BY <1>13, <1>14, RecordedAreNext
  <2> QED BY <1>5, <1>11, <2>1 DEF FirstsOf, First, Commands
<1>16. RecordedCommands = Commands \ FirstsOf(h, 1..Len(h))
  BY <1>1, RecordedAre
<1>17. FirstsOf(h2, 1..l) = FirstsOf(h, (1..Len(h)) \ S)
  BY <1>10, <1>11 DEF FirstsOf
<1>18. \A i \in 1..Len(h), j \in 1..Len(h) : First(h, i) = First(h, j) => i = j
  <2> SUFFICES ASSUME NEW i \in 1..Len(h), NEW j \in 1..Len(h), First(h, i) = First(h, j) PROVE i = j
    OBVIOUS
  <2>1. PICK a, b : a = First(h, i) /\ b = First(h, j)
    OBVIOUS
  <2>2. (i < j => a < b) /\ (j < i => b < a) /\ a = b
    BY <1>6, <2>1 DEF Singles
  <2>3. a \in Nat /\ b \in Nat
    BY <1>6, <2>1 DEF Singles, Commands
  <2> QED BY <1>7, <2>2, <2>3
<1>19. /\ FirstsOf(h, S) \subseteq FirstsOf(h, 1..Len(h))
       /\ FirstsOf(h, 1..Len(h)) \subseteq Commands
       /\ FirstsOf(h, (1..Len(h)) \ S) = FirstsOf(h, 1..Len(h)) \ FirstsOf(h, S)
  <2>1. FirstsOf(h, S) \subseteq FirstsOf(h, 1..Len(h))
    BY <1>7 DEF FirstsOf
  <2>2. FirstsOf(h, 1..Len(h)) \subseteq Commands
    BY <1>6 DEF FirstsOf, Singles
  <2>3. FirstsOf(h, (1..Len(h)) \ S) = FirstsOf(h, 1..Len(h)) \ FirstsOf(h, S)
    BY <1>7, <1>18 DEF FirstsOf
  <2> QED BY <2>1, <2>2, <2>3
<1>20. /\ RecordedCommands' = RecordedCommands \cup FirstsOf(h, S)
       /\ RecordedCommands \cap FirstsOf(h, S) = {}
  BY <1>15, <1>16, <1>17, <1>19
<1> QED
  BY <1>1, <1>7, <1>13, <1>20

\* SelectionExact, of what was recorded before and now.
ExactFor(kind, r, old, new) ==
    LET accessing == {c \in Commands : r \in uses[c]}
        first     == Smallest(accessing \ old)
        needed(c) == \E d \in new : d > c /\ uses[c] \cap uses[d] # {}
    IN /\ kind = "node" =>
            /\ accessing \subseteq old \cup new
            /\ \A c \in new : c \in accessing \/ needed(c)
       /\ kind = "dependencies" =>
            /\ new \cap accessing = {}
            /\ \A c \in 1..(first - 1) : uses[c] \cap uses[first] # {} => c \in old \cup new
            /\ \A c \in new : needed(c) \/ uses[c] \cap uses[first] # {}

\* What precedes a command is earlier and shares a resource with it.
LEMMA PrecedingShares ==
    ASSUME NEW g, AreRows(g), Singles(g), NEW j \in 1..Len(g), NEW i \in Preceding(g, j)
    PROVE  /\ i \in 1..Len(g) /\ (i = j \/ i < j)
           /\ uses[First(g, i)] \cap uses[First(g, j)] # {}
<1>1. PICK r \in UsesOf(g[j]) : i \in Prefix(g, r, j + 1)
  BY DEF Preceding
<1>2. i \in DOMAIN g /\ r \in UsesOf(g[i]) /\ i < j + 1
  BY <1>1 DEF Prefix, Users
<1>3. i \in 1..Len(g) /\ Len(g) \in Nat
  BY <1>2 DEF AreRows
<1>4. i = j \/ i < j
  BY <1>2, <1>3
<1>5. UsesOf(g[i]) = uses[First(g, i)] /\ UsesOf(g[j]) = uses[First(g, j)]
  BY <1>3, UsesOfCommand DEF Singles
<1> QED
  BY <1>1, <1>2, <1>3, <1>4, <1>5

\* Who accesses a resource, among the commands that remain.
LEMMA UsersAre ==
    ASSUME NEW g, AreRows(g), Singles(g), NEW r
    PROVE  Users(g, r) = {i \in 1..Len(g) : r \in uses[First(g, i)]}
<1>1. DOMAIN g = 1..Len(g)
  BY DEF AreRows
<1>2. \A i \in 1..Len(g) : UsesOf(g[i]) = uses[First(g, i)]
  BY UsesOfCommand DEF Singles
<1> QED
  BY <1>1, <1>2 DEF Users

\* schedule_node_cmds: all that access the node, and what they need.
LEMMA NodeIsExact ==
    ASSUME RecInv, Singles(cmds), NEW r
    PROVE  ExactFor("node", r, RecordedCommands, FirstsOf(cmds, NodeSelection(cmds, r)))
<1>1. PICK g : g = cmds
  OBVIOUS
<1>2. AreRows(g) /\ Singles(g) /\ DOMAIN g = 1..Len(g)
  BY <1>1 DEF RecInv, IsConsistent, AreRows
<1>3. PICK U : U = Users(g, r)
  OBVIOUS
<1>4. PICK S : S = NodeSelection(g, r)
  OBVIOUS
<1>5. U = {i \in 1..Len(g) : r \in uses[First(g, i)]}
  BY <1>2, <1>3, UsersAre
<1>6. S = Required(g, U) /\ U \in SUBSET DOMAIN g
  BY <1>2, <1>3, <1>4, <1>5 DEF NodeSelection
<1>7. U \subseteq S /\ S \subseteq 1..Len(g)
  BY <1>2, <1>6 DEF Required
<1>8. ASSUME NEW c \in Commands, r \in uses[c]
      PROVE  c \in RecordedCommands \cup FirstsOf(g, S)
  <2>1. CASE c \in FirstsOf(g, 1..Len(g))
    <3>1. PICK i \in 1..Len(g) : c = First(g, i)
      BY <2>1 DEF FirstsOf
    <3>2. i \in S
      BY <1>5, <1>7, <1>8, <3>1
    <3> QED BY <3>1, <3>2 DEF FirstsOf
  <2>2. CASE c \notin FirstsOf(g, 1..Len(g))
    BY <1>1, <2>2, RecordedAre
  <2> QED BY <2>1, <2>2
<1>9. ASSUME NEW c \in FirstsOf(g, S)
      PROVE  \/ c \in {b \in Commands : r \in uses[b]}
             \/ \E d \in FirstsOf(g, S) : d > c /\ uses[c] \cap uses[d] # {}
  <2>1. PICK i \in S : c = First(g, i)
    BY DEF FirstsOf
  <2>2. i \in 1..Len(g) /\ c \in Commands
    BY <1>2, <1>7, <2>1 DEF Singles
  <2>3. CASE i \in U
    BY <1>5, <2>1, <2>2, <2>3
  <2>4. CASE i \notin U
    <3>1. PICK j \in S : j # i /\ i \in Preceding(g, j)
      BY <1>6, <2>4, RequiredIsLeast
    <3>2. j \in 1..Len(g)
      BY <1>7
    <3>3. i < j /\ uses[First(g, i)] \cap uses[First(g, j)] # {}
      BY <1>2, <3>1, <3>2, PrecedingShares
    <3>4. PICK d : d = First(g, j)
      OBVIOUS
    <3>5. d \in FirstsOf(g, S) /\ c < d /\ uses[c] \cap uses[d] # {} /\ d \in Commands
      BY <1>2, <2>1, <2>2, <3>2, <3>3, <3>4 DEF FirstsOf, Singles
    <3>6. d > c
      BY <2>2, <3>5 DEF Commands
    <3> QED BY <3>5, <3>6
  <2> QED BY <2>3, <2>4
<1> QED
  BY <1>1, <1>4, <1>8, <1>9 DEF ExactFor

\* The first row that accesses r is the first command that does, of those that remain.
LEMMA FirstAccess ==
    ASSUME RecInv, Singles(cmds), NEW r, Users(cmds, r) # {}
    PROVE  /\ Smallest(Users(cmds, r)) \in Users(cmds, r)
           /\ \A i \in Users(cmds, r) : Smallest(Users(cmds, r)) <= i
           /\ First(cmds, Smallest(Users(cmds, r))) =
                Smallest({c \in Commands : r \in uses[c]} \ RecordedCommands)
<1>1. PICK g : g = cmds
  OBVIOUS
<1>2. AreRows(g) /\ Singles(g) /\ DOMAIN g = 1..Len(g) /\ Len(g) \in Nat
  BY <1>1 DEF RecInv, IsConsistent, AreRows
<1>3. PICK U : U = Users(g, r)
  OBVIOUS
<1>4. U = {i \in 1..Len(g) : r \in uses[First(g, i)]}
  BY <1>2, <1>3, UsersAre
<1>5. PICK k : k = Smallest(U)
  OBVIOUS
<1>6. k \in U /\ \A i \in U : k <= i
  <2>1. U \in SUBSET Nat /\ U # {}
    BY <1>1, <1>3, <1>4
  <2>2. \E i \in U : \A j \in U : i <= j
    BY <2>1, LeastNat
  <2> QED BY <1>5, <2>2 DEF Smallest
<1>7. PICK A : A = {c \in Commands : r \in uses[c]} \ RecordedCommands
  OBVIOUS
<1>8. A = FirstsOf(g, U)
  <2>1. RecordedCommands = Commands \ FirstsOf(g, 1..Len(g))
    BY <1>1, RecordedAre
  <2>2. \A i \in 1..Len(g) : First(g, i) \in Commands
    BY <1>2 DEF Singles
  <2> QED BY <1>4, <1>7, <2>1, <2>2 DEF FirstsOf
<1>9. \A i \in U : First(g, i) \in Nat
  BY <1>2, <1>4 DEF Singles, Commands
<1>10. ASSUME NEW i \in U PROVE First(g, k) <= First(g, i)
  <2>1. k \in 1..Len(g) /\ i \in 1..Len(g) /\ (k = i \/ k < i)
    BY <1>2, <1>4, <1>6
  <2>2. First(g, k) = First(g, i) \/ First(g, k) < First(g, i)
    BY <1>2, <2>1 DEF Singles
  <2> QED BY <1>6, <1>9, <2>2
<1>11. First(g, k) \in A /\ (\A c \in A : First(g, k) <= c) /\ \A c \in A : c \in Nat
  BY <1>6, <1>8, <1>9, <1>10 DEF FirstsOf
<1>12. Smallest(A) = First(g, k)
  <2>1. PICK a : a = First(g, k)
    OBVIOUS
  <2>2. \A i \in A : (\A j \in A : i <= j) => i = a
    BY <1>11, <2>1
  <2> QED BY <1>11, <2>1, <2>2 DEF Smallest
<1> QED
  BY <1>1, <1>3, <1>5, <1>6, <1>7, <1>12

\* The first commands of a graph are like the graph.
LEMMA FirstRows ==
    ASSUME NEW h, AreRows(h), Singles(h), NEW k \in 1..Len(h)
    PROVE  /\ AreRows(SubSeq(h, 1, k)) /\ Singles(SubSeq(h, 1, k)) /\ Len(SubSeq(h, 1, k)) = k
           /\ \A i \in 1..k : /\ i \in 1..Len(h) /\ SubSeq(h, 1, k)[i] = h[i]
                             /\ First(SubSeq(h, 1, k), i) = First(h, i)
<1>1. h \in Seq(Seq(Exec)) /\ Len(h) \in Nat /\ DOMAIN h = 1..Len(h) /\ k \in Nat
  BY DEF AreRows
<1>2. PICK g : g = SubSeq(h, 1, k)
  OBVIOUS
<1>3. \A i \in 1..k : i \in 1..Len(h) /\ h[i] \in Seq(Exec) /\ h[i] # <<>>
  <2>1. \A i \in 1..k : i \in 1..Len(h)
    BY <1>1
  <2>2. \A i \in 1..Len(h) : h[i] \in Seq(Exec)
    BY <1>1
  <2>3. \A i \in DOMAIN h : h[i] # <<>>
    BY DEF AreRows
  <2> QED BY <1>1, <2>1, <2>2, <2>3
<1>4. g = [i \in 1..k |-> h[i]]
  BY <1>1, <1>2, <1>3
<1>5. DOMAIN g = 1..k /\ \A i \in 1..k : g[i] = h[i] /\ First(g, i) = First(h, i)
  BY <1>4 DEF First
<1>6. g \in Seq(Seq(Exec)) /\ Len(g) = k
  <2>1. g \in [1..k -> Seq(Exec)]
    BY <1>3, <1>4
  <2> QED BY <1>1, <2>1
<1>7. AreRows(g)
  BY <1>3, <1>5, <1>6 DEF AreRows
<1>8. Singles(g)
  BY <1>3, <1>5, <1>6 DEF Singles
<1> QED
  BY <1>2, <1>3, <1>5, <1>6, <1>7, <1>8

\* schedule_dependency_cmds_before_target_access: what the first access needs.
LEMMA DependenciesAreExact ==
    ASSUME RecInv, Singles(cmds), NEW r, Users(cmds, r) # {}
    PROVE  ExactFor("dependencies", r, RecordedCommands,
             FirstsOf(cmds,
               DependencySelection(SubSeq(cmds, 1, Smallest(Users(cmds, r))), r)))
<1>1. PICK h : h = cmds
  OBVIOUS
<1>2. AreRows(h) /\ Singles(h) /\ DOMAIN h = 1..Len(h) /\ Len(h) \in Nat
  BY <1>1 DEF RecInv, IsConsistent, AreRows
<1>3. PICK k : k = Smallest(Users(h, r))
  OBVIOUS
<1>4. Users(h, r) = {i \in 1..Len(h) : r \in uses[First(h, i)]}
  BY <1>2, UsersAre
<1>5. k \in Users(h, r) /\ (\A i \in Users(h, r) : k <= i) /\ k \in 1..Len(h) /\ k \in Nat
  <2>1. k \in Users(h, r) /\ (\A i \in Users(h, r) : k <= i)
    BY <1>1, <1>3, FirstAccess
  <2>2. k \in 1..Len(h)
    BY <1>4, <2>1
  <2> QED BY <2>1, <2>2
<1>6. PICK g : g = SubSeq(h, 1, k)
  OBVIOUS
<1>7. /\ AreRows(g) /\ Singles(g) /\ Len(g) = k /\ DOMAIN g = 1..k
      /\ \A i \in 1..k : i \in 1..Len(h) /\ g[i] = h[i] /\ First(g, i) = First(h, i)
  <2>1. /\ AreRows(g) /\ Singles(g) /\ Len(g) = k
        /\ \A i \in 1..k : i \in 1..Len(h) /\ g[i] = h[i] /\ First(g, i) = First(h, i)
    BY <1>2, <1>5, <1>6, FirstRows
  <2> QED BY <2>1 DEF AreRows
<1>8. \A i \in 1..k : UsesOf(g[i]) = uses[First(h, i)]
  <2> SUFFICES ASSUME NEW i \in 1..k PROVE UsesOf(g[i]) = uses[First(h, i)]
    OBVIOUS
  <2>1. i \in 1..Len(h) /\ g[i] = h[i]
    BY <1>7
  <2> QED BY <1>2, <2>1, UsesOfCommand DEF Singles
<1>9. Users(g, r) = {k}
  <2>1. Users(g, r) = {i \in 1..k : r \in uses[First(g, i)]}
    BY <1>7, UsersAre
  <2>2. \A i \in 1..k : r \in uses[First(g, i)] => i = k
    BY <1>4, <1>5, <1>7
  <2>3. k \in 1..k /\ r \in uses[First(g, k)]
    BY <1>4, <1>5, <1>7
  <2> QED BY <2>1, <2>2, <2>3
<1>10. Smallest(Users(g, r)) = k
  BY <1>5, <1>9 DEF Smallest
<1>11. PICK start : start = UNION {Prefix(g, s, k) : s \in UsesOf(g[k]) \ {r}}
  OBVIOUS
<1>12. PICK S : S = Required(g, start)
  OBVIOUS
<1>13. DependencySelection(g, r) = S
  BY <1>9, <1>10, <1>11, <1>12 DEF DependencySelection
<1>14. ASSUME NEW i \in start
       PROVE  i \in 1..k /\ i < k /\ uses[First(h, i)] \cap uses[First(h, k)] # {}
  <2>1. PICK s \in UsesOf(g[k]) : i \in Prefix(g, s, k)
    BY <1>11
  <2>2. i \in 1..k /\ i < k /\ s \in UsesOf(g[i])
    BY <1>7, <2>1 DEF Prefix, Users
  <2>3. UsesOf(g[i]) = uses[First(h, i)] /\ UsesOf(g[k]) = uses[First(h, k)]
    <3>1. k \in 1..k
      BY <1>5
    <3> QED BY <1>8, <2>2, <3>1
  <2> QED BY <2>1, <2>2, <2>3
<1>15. start \in SUBSET DOMAIN g
  BY <1>7, <1>14
<1>16. start \subseteq S /\ S \subseteq 1..k
  BY <1>7, <1>12, <1>15 DEF Required
<1>17. \A i \in S : i < k
  <2>1. PICK T : T = {i \in 1..k : i < k}
    OBVIOUS
  <2>2. T \in SUBSET DOMAIN g /\ start \subseteq T
    BY <1>7, <1>14, <2>1
  <2>3. ASSUME NEW j \in T, NEW i \in Preceding(g, j) PROVE i \in T
    <3>1. j \in 1..Len(g) /\ j < k
      BY <1>7, <2>1
    <3>2. i \in 1..Len(g) /\ (i = j \/ i < j)
      BY <1>7, <3>1, PrecedingShares
    <3> QED BY <1>5, <1>7, <2>1, <3>1, <3>2
  <2>4. S \subseteq T
    BY <1>12, <2>2, <2>3 DEF Required
  <2> QED BY <2>1, <2>4
<1>18. PICK a : a = First(h, k)
  OBVIOUS
<1>19. Smallest({c \in Commands : r \in uses[c]} \ RecordedCommands) = a
  BY <1>1, <1>3, <1>18, FirstAccess
<1>20. FirstsOf(h, S) \cap {c \in Commands : r \in uses[c]} = {}
  <2> SUFFICES ASSUME NEW i \in S, r \in uses[First(h, i)] PROVE FALSE
    BY DEF FirstsOf
  <2>1. i \in 1..Len(h) /\ i < k /\ i \in Nat
    BY <1>7, <1>16, <1>17
  <2>2. i \in Users(h, r)
    BY <1>4, <2>1
  <2> QED BY <1>5, <2>1, <2>2
<1>21. ASSUME NEW c \in 1..(a - 1), uses[c] \cap uses[a] # {}
       PROVE  c \in RecordedCommands \cup FirstsOf(h, S)
  <2>1. a \in Commands
    BY <1>2, <1>5, <1>18 DEF Singles
  <2>2. c \in Commands /\ c < a /\ c \in Nat
    BY <2>1, SizeAssumption DEF Commands
  <2>3. CASE c \notin FirstsOf(h, 1..Len(h))
    BY <1>1, <2>2, <2>3, RecordedAre
  <2>4. CASE c \in FirstsOf(h, 1..Len(h))
    <3>1. PICK i \in 1..Len(h) : c = First(h, i)
      BY <2>4 DEF FirstsOf
    <3>2. i < k /\ i \in 1..k
      <4>1. ~(k < i) /\ k # i
        <5>1. k < i => a < c
          BY <1>2, <1>5, <1>18, <3>1 DEF Singles
        <5> QED BY <1>18, <2>1, <2>2, <3>1, <5>1 DEF Commands
      <4> QED BY <1>2, <1>5, <4>1
    <3>3. r \notin uses[c]
      BY <1>4, <1>5, <3>1, <3>2
    <3>4. PICK s : s \in uses[c] /\ s \in uses[a] /\ s # r
      BY <1>21, <3>3
    <3>5. UsesOf(g[i]) = uses[c] /\ UsesOf(g[k]) = uses[a]
      <4>1. k \in 1..k
        BY <1>5
      <4> QED BY <1>18, <1>8, <3>1, <3>2, <4>1
    <3>6. i \in Prefix(g, s, k)
      BY <1>7, <3>2, <3>4, <3>5 DEF Prefix, Users
    <3>7. i \in S
      BY <1>11, <1>16, <3>4, <3>5, <3>6
    <3> QED BY <3>1, <3>7 DEF FirstsOf
  <2> QED BY <2>3, <2>4
<1>22. ASSUME NEW c \in FirstsOf(h, S)
       PROVE  \/ \E d \in FirstsOf(h, S) : d > c /\ uses[c] \cap uses[d] # {}
              \/ uses[c] \cap uses[a] # {}
  <2>1. PICK i \in S : c = First(h, i)
    BY DEF FirstsOf
  <2>2. CASE i \in start
    BY <1>14, <1>18, <2>1, <2>2
  <2>3. CASE i \notin start
    <3>1. PICK j \in S : j # i /\ i \in Preceding(g, j)
      BY <1>12, <1>15, <2>3, RequiredIsLeast
    <3>2. j \in 1..k /\ i \in 1..k
      BY <1>16, <2>1
    <3>3. i < j /\ uses[First(h, i)] \cap uses[First(h, j)] # {}
      <4>1. j \in 1..Len(g)
        BY <1>7, <3>2
      <4>2. (i = j \/ i < j) /\ uses[First(g, i)] \cap uses[First(g, j)] # {}
        BY <1>7, <3>1, <4>1, PrecedingShares
      <4> QED BY <1>7, <3>1, <3>2, <4>2
    <3>4. PICK d : d = First(h, j)
      OBVIOUS
    <3>5. d \in FirstsOf(h, S) /\ c < d /\ uses[c] \cap uses[d] # {} /\ d \in Commands /\ c \in Commands
      BY <1>2, <1>7, <2>1, <3>2, <3>3, <3>4 DEF FirstsOf, Singles
    <3>6. d > c
      BY <3>5 DEF Commands
    <3> QED BY <3>5, <3>6
  <2> QED BY <2>2, <2>3
<1> QED
  <2>1. DependencySelection(SubSeq(cmds, 1, Smallest(Users(cmds, r))), r) = S
    BY <1>1, <1>3, <1>6, <1>13
  <2>2. ExactFor("dependencies", r, RecordedCommands, FirstsOf(h, S))
    BY <1>19, <1>20, <1>21, <1>22 DEF ExactFor
  <2> QED BY <1>1, <2>1, <2>2

-----------------------------------------------------------------------------
(* Selections are exact                                                      *)

IsLast ==
    last \in [kind : Kinds, resource : Nat, before : SUBSET Commands, failed : BOOLEAN]

\* Before a lease fails the rows are single commands; that is what exactness needs.
SelInv ==
    /\ RecInv
    /\ IsLast
    /\ ~last.failed => Singles(cmds)
    /\ SelectionExact

\* A graph before the first selection.
LEMMA InitSelects ==
    ASSUME Init
    PROVE  SelInv
<1>1. IsLast /\ SelectionExact
  BY DEF Init, IsLast, Kinds, SelectionExact
<1>2. Singles(cmds)
  <2>1. \A c \in 1..N : cmds[c] = CommandExecs(c)
    BY DEF Init, Commands
  <2>2. Len(cmds) = N
    BY SizeAssumption DEF Init, Commands
  <2>3. \A c \in 1..N : First(cmds, c) = c
    <3> SUFFICES ASSUME NEW c \in 1..N PROVE First(cmds, c) = c
      OBVIOUS
    <3>1. CommandExecs(c)[1] = <<c, 1>>
      BY UsesOfCommand DEF Commands
    <3> QED BY <2>1, <3>1 DEF First
  <2> QED BY <2>1, <2>2, <2>3 DEF Singles, Commands
<1> QED
  BY <1>1, <1>2, InitIsConsistent DEF SelInv

\* What is selected is exact, before a lease has failed.
LEMMA SelectedIsExact ==
    ASSUME RecInv, Singles(cmds), NEW k, NEW S, NEW kind, NEW r, IsSelected(k, S, kind, r)
    PROVE  ExactFor(kind, r, RecordedCommands, FirstsOf(cmds, S))
<1>1. CASE kind = "node"
  BY <1>1, NodeIsExact DEF IsSelected
<1>2. CASE kind = "dependencies"
  BY <1>2, DependenciesAreExact DEF IsSelected
<1>3. CASE kind # "node" /\ kind # "dependencies"
  BY <1>3 DEF ExactFor
<1> QED
  BY <1>1, <1>2, <1>3

\* SelectionExact is ExactFor the last selection.
LEMMA ExactIs ==
    (last.failed \/ ExactFor(last.kind, last.resource, last.before, RecordedCommands \ last.before))
      /\ last.before \subseteq RecordedCommands => SelectionExact
BY DEF SelectionExact, ExactFor

\* The same after a step.
LEMMA ExactIsNext ==
    ((last.failed \/ ExactFor(last.kind, last.resource, last.before, RecordedCommands \ last.before))
      /\ last.before \subseteq RecordedCommands)' => SelectionExact'
BY ExactIs, PTL

\* Every selection is exact, or a lease has failed.
LEMMA StepSelects ==
    ASSUME SelInv, Next
    PROVE  SelInv'
<1>1. RecInv /\ IsLast /\ (~last.failed => Singles(cmds))
  BY DEF SelInv
<1>2. PICK k \in 1..Len(cmds), kind \in Kinds, r \in Nat, S \in SUBSET (1..Len(cmds)) :
        IsSelected(k, S, kind, r) /\ Select(SubSeq(cmds, 1, k), S, kind, r)
  BY <1>1, NextSelects
<1>3. PICK g : g = SubSeq(cmds, 1, k)
  OBVIOUS
<1>4. cmds # <<>> /\ IsSelection(cmds, S, Reorder(g, S))
  BY <1>1, <1>2, <1>3, CanRecord DEF IsSelected
<1>5. RecInv'
  BY <1>1, NextKeeps
<1>6. RecordedCommands \subseteq Commands
  BY DEF RecordedCommands
<1>7. CASE LeaseFails(g, S) /\ last' = [last EXCEPT !.kind = "none", !.failed = TRUE]
  <2>1. IsLast' /\ last'.failed
    BY <1>1, <1>7 DEF IsLast, Kinds
  <2>2. SelectionExact'
    BY <2>1 DEF SelectionExact
  <2> QED BY <1>5, <2>1, <2>2 DEF SelInv
<1>8. CASE RecordScheduled(g, S) /\ last' = [kind |-> kind, resource |-> r,
             before |-> RecordedCommands, failed |-> last.failed]
  <2>1. /\ last'.kind = kind /\ last'.resource = r /\ last'.before = RecordedCommands
        /\ last'.failed = last.failed
    BY <1>8
  <2>2. IsLast'
    BY <1>1, <1>6, <1>8 DEF IsLast
  <2>3. CASE last.failed
    <3>1. last'.failed
      BY <2>1, <2>3
    <3>2. SelectionExact'
      BY <3>1 DEF SelectionExact
    <3> QED BY <1>5, <2>2, <3>1, <3>2 DEF SelInv
  <2>4. CASE ~last.failed
    <3>1. Singles(cmds)
      BY <1>1, <2>4
    <3>2. /\ Singles(cmds)'
          /\ RecordedCommands' = RecordedCommands \cup FirstsOf(cmds, S)
          /\ RecordedCommands \cap FirstsOf(cmds, S) = {}
      BY <1>1, <1>4, <1>8, <3>1, SelectionIsRecorded
    <3>3. PICK old, new : old = RecordedCommands /\ new = FirstsOf(cmds, S)
      OBVIOUS
    <3>4. ExactFor(kind, r, old, new)
      BY <1>1, <1>2, <3>1, <3>3, SelectedIsExact
    <3>5. RecordedCommands' \ last'.before = new /\ last'.before = old /\ old \subseteq RecordedCommands'
      BY <2>1, <3>2, <3>3
    <3>6. uses' = uses
      BY <1>8 DEF RecordScheduled
    <3>7. ExactFor(kind, r, old, new)'
      BY <3>4, <3>6 DEF ExactFor, Commands
    <3>8. ExactFor(last.kind, last.resource, last.before, RecordedCommands \ last.before)'
      BY <2>1, <3>5, <3>7 DEF ExactFor
    <3>9. SelectionExact'
      BY <3>5, <3>8, ExactIsNext
    <3> QED BY <1>5, <2>2, <3>2, <3>9 DEF SelInv
  <2> QED BY <2>3, <2>4
<1> QED
  BY <1>2, <1>3, <1>7, <1>8 DEF Select

\* A step that changes nothing keeps that.
LEMMA StutterSelects ==
    ASSUME SelInv, UNCHANGED vars
    PROVE  SelInv'
<1>1. RecInv'
  BY StutterKeeps DEF SelInv
<1>2. IsLast' /\ (~last.failed => Singles(cmds))'
  BY DEF SelInv, vars, IsLast, Kinds, Commands, Singles, First, CommandExecs
<1>3. SelectionExact'
  <2>1. SelectionExact /\ last' = last /\ uses' = uses
    BY DEF SelInv, vars
  <2>2. RecordedCommands' = RecordedCommands
    BY DEF vars, RecordedCommands, Position, Commands
  <2>3. PICK l, u, old, now : l = last /\ u = uses /\ old = last.before /\ now = RecordedCommands
    OBVIOUS
  <2>4. last' = l /\ uses' = u /\ RecordedCommands' = now
    BY <2>1, <2>2, <2>3
  <2> QED BY <2>1, <2>3, <2>4 DEF SelectionExact, Commands, Smallest
<1> QED
  BY <1>1, <1>2, <1>3 DEF SelInv

\* After record(node) nothing that remains accesses the node, after
\* record(dependencies) no access to it was recorded, and neither records more than
\* it needs: schedule_node_cmds, schedule_dependency_cmds_before_target_access.
THEOREM SelectionsExact == Spec => []SelectionExact
<1>1. Init => SelInv
  BY InitSelects
<1>2. SelInv /\ [Next]_vars => SelInv'
  BY StepSelects, StutterSelects
<1>3. SelInv => SelectionExact
  BY DEF SelInv
<1> QED
  BY <1>1, <1>2, <1>3, PTL DEF Spec
==============================================================================
