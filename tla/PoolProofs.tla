------------------------------ MODULE PoolProofs ------------------------------
(***************************************************************************)
(* Theorems about Pool, for any number of items, leases, buckets and tags,  *)
(* and for any requests: the types, the owners of items, and what is lent.  *)
(* Leases fit the requests they were handed out for, buckets do not outgrow *)
(* their capacity, and a collection keeps the working set.                  *)
(***************************************************************************)
EXTENDS Pool, FiniteSetTheorems, TLAPS

-----------------------------------------------------------------------------
(* The operations on the vector of a bucket                                *)

\* No item is in the vector twice.
Distinct(s) == \A n, m \in DOMAIN s : s[n] = s[m] => n = m

\* Positions are ranked by how many of P are not behind them, each rank is taken.
LEMMA NthRanks ==
    ASSUME NEW N \in Nat, NEW P \in SUBSET (1..N), NEW k \in 1..Cardinality(P)
    PROVE  /\ Nth(P, k) \in P
           /\ Cardinality({m \in P : m <= Nth(P, k)}) = k
<1> DEFINE Below(n) == {m \in P : m <= n}
<1> DEFINE rank == [n \in P |-> Cardinality(Below(n))]
<1>1. IsFiniteSet(P)
  <2>1. IsFiniteSet(1..N)
    BY FS_Interval
  <2> QED
    BY <2>1, FS_Subset
<1>2. ASSUME NEW n \in P
      PROVE  rank[n] \in 1..Cardinality(P)
  <2>1. Below(n) \in SUBSET P /\ n \in Below(n)
    OBVIOUS
  <2>2. IsFiniteSet(Below(n)) /\ Cardinality(Below(n)) <= Cardinality(P)
    BY <1>1, <2>1, FS_Subset
  <2>3. Cardinality(Below(n)) \in Nat /\ Cardinality(P) \in Nat
    BY <1>1, <2>2, FS_CardinalityType
  <2>4. Cardinality(Below(n)) # 0
    BY <2>1, <2>2, FS_EmptySet
  <2> QED
    BY <2>2, <2>3, <2>4
<1>3. ASSUME NEW n \in P, NEW m \in P, n < m
      PROVE  rank[n] # rank[m]
  <2>1. Below(n) \in SUBSET Below(m) /\ m \in Below(m) /\ m \notin Below(n)
    <3>1. n \in Int /\ m \in Int /\ \A j \in P : j \in Int
      OBVIOUS
    <3>2. \A j \in P : j <= n => j <= m
      BY <1>3, <3>1
    <3>3. ~(m <= n) /\ m <= m
      BY <1>3, <3>1
    <3> QED
      BY <3>2, <3>3
  <2>2. Below(m) \in SUBSET P
    OBVIOUS
  <2>3. IsFiniteSet(Below(m))
    BY <1>1, <2>2, FS_Subset
  <2>4. Cardinality(Below(m)) # Cardinality(Below(n))
    BY <2>1, <2>3, FS_Subset
  <2> QED
    BY <2>4
<1>4. rank \in Injection(P, 1..Cardinality(P))
  <2>1. rank \in [P -> 1..Cardinality(P)]
    BY <1>2
  <2>2. \A n, m \in P : rank[n] = rank[m] => n = m
    <3> SUFFICES ASSUME NEW n \in P, NEW m \in P, rank[n] = rank[m]
                 PROVE  n = m
      OBVIOUS
    <3>1. ~(n < m) /\ ~(m < n)
      BY <1>3
    <3> QED
      BY <3>1
  <2> QED
    BY <2>1, <2>2 DEF Injection, IsInjective
<1>5. rank \in Surjection(P, 1..Cardinality(P))
  <2>1. Cardinality(P) \in Nat
    BY <1>1, FS_CardinalityType
  <2>2. IsFiniteSet(1..Cardinality(P)) /\ Cardinality(1..Cardinality(P)) = Cardinality(P)
    BY <2>1, FS_Interval
  <2> QED
    BY <1>4, <2>2, FS_Injection
<1>6. PICK p \in P : rank[p] = k
  BY <1>5 DEF Surjection
<1>7. \E n \in P : Cardinality({m \in P : m <= n}) = k
  BY <1>6
<1> QED
  BY <1>7 DEF Nth

\* What is kept of a vector is in it, and nothing is kept twice.
LEMMA KeptOf ==
    ASSUME NEW S, NEW s \in Seq(S), NEW P \in SUBSET DOMAIN s
    PROVE  /\ Kept(s, P) \in Seq(S)
           /\ Len(Kept(s, P)) <= Len(s)
           /\ \A k \in DOMAIN Kept(s, P) : \E n \in P : Kept(s, P)[k] = s[n]
           /\ \A n \in P : \E k \in DOMAIN Kept(s, P) : Kept(s, P)[k] = s[n]
           /\ Distinct(s) => Distinct(Kept(s, P))
<1>1. DOMAIN s = 1..Len(s) /\ Len(s) \in Nat
  OBVIOUS
<1>2. IsFiniteSet(DOMAIN s) /\ Cardinality(DOMAIN s) = Len(s)
  <2>1. IsFiniteSet(1..Len(s)) /\ Cardinality(1..Len(s)) = IF 1 > Len(s) THEN 0 ELSE Len(s) - 1 + 1
    BY <1>1, FS_Interval
  <2> QED
    BY <1>1, <2>1
<1>3. IsFiniteSet(P) /\ Cardinality(P) <= Len(s)
  BY <1>2, FS_Subset
<1>4. Cardinality(P) \in Nat
  BY <1>3, FS_CardinalityType
<1>5. \A k \in 1..Cardinality(P) :
        Nth(P, k) \in P /\ Cardinality({m \in P : m <= Nth(P, k)}) = k
  BY <1>1, NthRanks
<1>6. \A k \in 1..Cardinality(P) : s[Nth(P, k)] \in S
  <2>1. \A n \in DOMAIN s : s[n] \in S
    OBVIOUS
  <2> QED
    BY <1>5, <2>1
<1>7. Kept(s, P) \in Seq(S) /\ Len(Kept(s, P)) = Cardinality(P)
      /\ DOMAIN Kept(s, P) = 1..Cardinality(P)
      /\ \A k \in 1..Cardinality(P) : Kept(s, P)[k] = s[Nth(P, k)]
  BY <1>4, <1>6 DEF Kept
<1>8. ASSUME NEW n \in P
      PROVE  \E k \in 1..Cardinality(P) : Nth(P, k) = n
  <2> DEFINE at == [k \in 1..Cardinality(P) |-> Nth(P, k)]
  <2>1. at \in [1..Cardinality(P) -> P]
    BY <1>5
  <2>2. \A j, k \in 1..Cardinality(P) : at[j] = at[k] => j = k
    BY <1>5
  <2>3. at \in Injection(1..Cardinality(P), P)
    BY <2>1, <2>2 DEF Injection, IsInjective
  <2>4. IsFiniteSet(1..Cardinality(P)) /\ Cardinality(1..Cardinality(P)) = Cardinality(P)
    BY <1>4, FS_Interval
  <2>5. at \in Surjection(1..Cardinality(P), P)
    BY <1>3, <2>3, <2>4, FS_Injection
  <2> QED
    BY <2>5 DEF Surjection
<1>9. Distinct(s) => Distinct(Kept(s, P))
  <2> SUFFICES ASSUME Distinct(s), NEW j \in 1..Cardinality(P), NEW k \in 1..Cardinality(P),
                      s[Nth(P, j)] = s[Nth(P, k)]
               PROVE  j = k
    BY <1>7 DEF Distinct
  <2>1. Nth(P, j) = Nth(P, k)
    BY <1>5 DEF Distinct
  <2> QED
    BY <1>5, <2>1
<1> QED
  BY <1>3, <1>5, <1>7, <1>8, <1>9

\* Vec::swap_remove takes one item out.
LEMMA SwapRemoveTakes ==
    ASSUME NEW S, NEW s \in Seq(S), NEW n \in DOMAIN s
    PROVE  /\ SwapRemove(s, n) \in Seq(S)
           /\ Len(SwapRemove(s, n)) <= Len(s)
           /\ \A k \in DOMAIN SwapRemove(s, n) : \E m \in DOMAIN s : SwapRemove(s, n)[k] = s[m]
           /\ \A m \in DOMAIN s \ {n} : \E k \in DOMAIN SwapRemove(s, n) : SwapRemove(s, n)[k] = s[m]
           /\ Distinct(s) => /\ Distinct(SwapRemove(s, n))
                             /\ \A k \in DOMAIN SwapRemove(s, n) : SwapRemove(s, n)[k] # s[n]
<1> DEFINE t == SwapRemove(s, n)
<1>1. DOMAIN s = 1..Len(s) /\ Len(s) \in Nat /\ Len(s) >= 1 /\ n \in 1..Len(s)
  OBVIOUS
<1>2. t \in Seq(S) /\ Len(t) = Len(s) - 1 /\ DOMAIN t = 1..(Len(s) - 1)
      /\ \A m \in 1..(Len(s) - 1) : t[m] = IF m = n THEN s[Len(s)] ELSE s[m]
  BY <1>1 DEF SwapRemove
<1> HIDE DEF t
<1>3. \A m \in DOMAIN s \ {n} : \E k \in DOMAIN t : t[k] = s[m]
  <2> SUFFICES ASSUME NEW m \in DOMAIN s \ {n}
               PROVE  \E k \in DOMAIN t : t[k] = s[m]
    OBVIOUS
  <2>1. CASE m = Len(s)
    BY <1>1, <1>2, <2>1
  <2>2. CASE m # Len(s)
    BY <1>1, <1>2, <2>2
  <2> QED
    BY <2>1, <2>2
<1>4. \A k \in DOMAIN t : \E m \in DOMAIN s : t[k] = s[m]
  BY <1>1, <1>2
<1>5. Distinct(s) => Distinct(t) /\ \A k \in DOMAIN t : t[k] # s[n]
  BY <1>1, <1>2 DEF Distinct
<1> QED
  BY <1>1, <1>2, <1>3, <1>4, <1>5 DEF t

\* An item is pushed behind what is left of a vector, whose capacity it respects.
LEMMA PushedIs ==
    ASSUME NEW S, NEW s \in Seq(S), NEW capacity \in Nat, NEW i \in S
    PROVE  /\ Pushed(s, capacity, i) \in Seq(S)
           /\ capacity > 0 /\ Len(s) <= capacity => Len(Pushed(s, capacity, i)) <= capacity
           /\ \A k \in DOMAIN Pushed(s, capacity, i) :
                Pushed(s, capacity, i)[k] = i \/ \E m \in DOMAIN s : Pushed(s, capacity, i)[k] = s[m]
           /\ Distinct(s) /\ (\A m \in DOMAIN s : s[m] # i) => Distinct(Pushed(s, capacity, i))
<1>1. Len(s) \in Nat /\ DOMAIN s = 1..Len(s)
  OBVIOUS
<1>2. \E t \in Seq(S) : /\ Pushed(s, capacity, i) = Append(t, i)
                        /\ Len(t) \in Nat /\ Len(t) <= Len(s)
                        /\ capacity > 0 /\ Len(s) <= capacity => Len(t) < capacity
                        /\ \A m \in 1..Len(t) : t[m] = s[m]
  <2>1. CASE Len(s) >= capacity /\ s # <<>>
    <3>1. Len(s) >= 1
      BY <2>1
    <3>2. SubSeq(s, 1, Len(s) - 1) \in Seq(S) /\ Len(SubSeq(s, 1, Len(s) - 1)) = Len(s) - 1
          /\ \A m \in 1..(Len(s) - 1) : SubSeq(s, 1, Len(s) - 1)[m] = s[m]
      BY <1>1, <3>1
    <3>3. Pushed(s, capacity, i) = Append(SubSeq(s, 1, Len(s) - 1), i)
      BY <2>1 DEF Pushed
    <3>4. PICK t : t = SubSeq(s, 1, Len(s) - 1)
      OBVIOUS
    <3>5. /\ t \in Seq(S) /\ Len(t) = Len(s) - 1 /\ Pushed(s, capacity, i) = Append(t, i)
          /\ \A m \in 1..Len(t) : t[m] = s[m]
      BY <3>2, <3>3, <3>4
    <3>6. Len(t) \in Nat /\ Len(t) <= Len(s) /\ (Len(s) <= capacity => Len(t) < capacity)
      BY <1>1, <3>1, <3>5
    <3> QED
      BY <3>5, <3>6
  <2>2. CASE ~(Len(s) >= capacity /\ s # <<>>)
    <3>1. Pushed(s, capacity, i) = Append(s, i)
      BY <2>2 DEF Pushed
    <3>2. capacity > 0 => Len(s) < capacity
      BY <1>1, <2>2
    <3> QED
      BY <1>1, <3>1, <3>2
  <2> QED
    BY <2>1, <2>2
<1>3. PICK t \in Seq(S) : /\ Pushed(s, capacity, i) = Append(t, i)
                          /\ Len(t) \in Nat /\ Len(t) <= Len(s)
                          /\ capacity > 0 /\ Len(s) <= capacity => Len(t) < capacity
                          /\ \A m \in 1..Len(t) : t[m] = s[m]
  BY <1>2
<1>4. Append(t, i) \in Seq(S) /\ Len(Append(t, i)) = Len(t) + 1
      /\ DOMAIN Append(t, i) = 1..(Len(t) + 1)
      /\ Append(t, i)[Len(t) + 1] = i
      /\ \A m \in 1..Len(t) : Append(t, i)[m] = s[m]
  BY <1>3
<1>5. \A k \in 1..(Len(t) + 1) : k = Len(t) + 1 \/ (k \in 1..Len(t) /\ k \in DOMAIN s)
  BY <1>1, <1>3
<1>6. capacity > 0 /\ Len(s) <= capacity => Len(Append(t, i)) <= capacity
  BY <1>1, <1>3, <1>4
<1>7. Len(t) + 1 \in 1..(Len(t) + 1)
  BY <1>3
<1>8. Distinct(s) /\ (\A m \in DOMAIN s : s[m] # i) => Distinct(Append(t, i))
  BY <1>4, <1>5 DEF Distinct
<1> QED
  BY <1>3, <1>4, <1>5, <1>6, <1>7, <1>8
-----------------------------------------------------------------------------
(* What is true of a pool and its leases between any two steps             *)

\* The items in a bucket.
Idle(b) == {contents[b][n] : n \in DOMAIN contents[b]}
Once(b) == Distinct(contents[b])

\* A lease in use is held, or it is going back.
LeasesHeld ==
    \A l \in Leases :
        /\ leased[l] = Nil <=> home[l] = Nil
        /\ leased[l] = Nil => clones[l] = 0 /\ ~returning[l]
        /\ leased[l] # Nil => (returning[l] <=> clones[l] = 0)

TypeInv == TypeOK /\ LeasesHeld

\* An item that exists has one owner: a lease, or a place in one bucket that is alive.
Owned ==
    /\ \A l, m \in Leases : leased[l] = leased[m] /\ l # m => leased[l] = Nil
    /\ \A l \in Leases, b \in Buckets : leased[l] \notin Idle(b)
    /\ \A b, c \in Buckets : \A i \in Items : i \in Idle(b) /\ i \in Idle(c) => b = c
    /\ \A b \in Buckets : Once(b)
    /\ \A b \in Buckets, i \in Items : i \in Idle(b) => Alive(b) /\ info[i] # Nil
    /\ \A l \in Leases, i \in Items : leased[l] = i => info[i] # Nil
    /\ \A i \in Items : info[i] # Nil =>
         \/ i \in leaked
         \/ \E l \in Leases : leased[l] = i
         \/ \E b \in Buckets : i \in Idle(b)

-----------------------------------------------------------------------------
(* What the operations do to the buckets                                   *)

Held(b) == \E l \in Leases : returning[l] /\ home[l] = b

\* Of the buckets with a key in keys the items in keep stay, and what is in buckets
\* that a lease on its way back holds, or that the pool let go of before.
Stays(keys, keep, b, i) ==
    \/ (\E k \in keys : b = buckets[k]) /\ i \in keep
    \/ (\A k \in keys : b # buckets[k]) /\ (b \notin Range(buckets) \/ Held(b))

LEMMA RetainKeeps ==
    ASSUME TypeOK, NEW keys, NEW keep, Retain(keys, keep)
    PROVE  /\ DOMAIN buckets' = keys /\ \A k \in keys : buckets'[k] = buckets[k]
           /\ contents' \in [Buckets -> Seq(Items)]
           /\ info' \in [Items -> Infos \cup {Nil}]
           /\ \A b \in Buckets : Len(contents'[b]) <= Len(contents[b])
           /\ \A b \in Buckets : Once(b) => Once(b)'
           /\ \A b \in Buckets : Idle(b)' \subseteq Items
           /\ \A b \in Buckets, i \in Items :
                i \in Idle(b)' <=> i \in Idle(b) /\ Stays(keys, keep, b, i)
           /\ \A i \in Items :
                info'[i] = IF \E b \in Buckets : i \in Idle(b) /\ ~Stays(keys, keep, b, i)
                             THEN Nil ELSE info[i]
<1> DEFINE kept == {buckets[k] : k \in keys}
           chosen(b) == Kept(contents[b], {n \in DOMAIN contents[b] : contents[b][n] \in keep})
           held(b) == \E l \in Leases : returning[l] /\ home[l] = b
           left(b) == IF b \in kept THEN chosen(b)
                      ELSE IF b \in Range(buckets) /\ ~held(b) THEN <<>>
                      ELSE contents[b]
           lost == UNION {Range(contents[b]) \ Range(left(b)) : b \in Buckets}
<1>1. /\ buckets' = [k \in keys |-> buckets[k]]
      /\ contents' = [b \in Buckets |-> left(b)]
      /\ info' = [i \in Items |-> IF i \in lost THEN Nil ELSE info[i]]
  BY Zenon DEF Retain
<1> HIDE DEF left, kept, chosen, held, lost
<1>2. contents \in [Buckets -> Seq(Items)] /\ info \in [Items -> Infos \cup {Nil}]
  BY DEF TypeOK
<1>3. ASSUME NEW b \in Buckets
      PROVE  /\ left(b) \in Seq(Items) /\ Len(left(b)) <= Len(contents[b])
             /\ Distinct(contents[b]) => Distinct(left(b))
             /\ Range(left(b)) \subseteq Items
             /\ \A i \in Items : i \in Range(left(b)) <=> i \in Range(contents[b])
                                                           /\ Stays(keys, keep, b, i)
  <2>1. contents[b] \in Seq(Items)
    BY <1>2
  <2>2. \A n \in DOMAIN contents[b] : contents[b][n] \in Items
    BY <2>1
  <2>3. Range(contents[b]) \subseteq Items /\ Len(contents[b]) \in Nat
    BY <2>1, <2>2 DEF Range
  <2>4. CASE b \in kept
    <3>1. PICK P : P = {n \in DOMAIN contents[b] : contents[b][n] \in keep}
      OBVIOUS
    <3>2. P \in SUBSET DOMAIN contents[b]
      BY <3>1
    <3>3. PICK s, t : s = contents[b] /\ t = Kept(contents[b], P)
      OBVIOUS
    <3>4. s \in Seq(Items) /\ P \in SUBSET DOMAIN s /\ t = Kept(s, P)
      BY <2>1, <3>2, <3>3
    <3>5. /\ t \in Seq(Items) /\ Len(t) <= Len(s)
          /\ \A k \in DOMAIN t : \E n \in P : t[k] = s[n]
          /\ \A n \in P : \E k \in DOMAIN t : t[k] = s[n]
          /\ Distinct(s) => Distinct(t)
      BY <3>4, KeptOf
    <3>6. left(b) = t
      BY <2>4, <3>1, <3>3 DEF left, chosen
    <3>7. \A i : i \in Range(t) <=> i \in Range(s) /\ i \in keep
      <4>1. \A n : n \in P <=> n \in DOMAIN s /\ s[n] \in keep
        BY <3>1, <3>3
      <4>2. ASSUME NEW i, i \in Range(t)
            PROVE  i \in Range(s) /\ i \in keep
        <5>1. PICK k \in DOMAIN t : t[k] = i
          BY <4>2 DEF Range
        <5> QED
          BY <3>5, <4>1, <5>1 DEF Range
      <4>3. ASSUME NEW i, i \in Range(s), i \in keep
            PROVE  i \in Range(t)
        <5>1. PICK n \in DOMAIN s : s[n] = i
          BY <4>3 DEF Range
        <5>2. n \in P
          BY <4>1, <4>3, <5>1
        <5> QED
          BY <3>5, <5>1, <5>2 DEF Range
      <4> QED
        BY <4>2, <4>3
    <3>8. \A i : Stays(keys, keep, b, i) <=> i \in keep
      BY <2>4 DEF Stays, kept
    <3> QED
      BY <2>3, <3>3, <3>5, <3>6, <3>7, <3>8
  <2>5. CASE b \notin kept /\ b \in Range(buckets) /\ ~held(b)
    <3>1. left(b) = <<>>
      BY <2>5 DEF left
    <3>2. \A i : ~Stays(keys, keep, b, i)
      BY <2>5 DEF Stays, Held, kept, held
    <3>3. PICK t : t = <<>>
      OBVIOUS
    <3>4. t \in Seq(Items) /\ Len(t) = 0 /\ Distinct(t) /\ Range(t) = {}
      BY <3>3 DEF Range, Distinct
    <3> QED
      BY <2>3, <3>1, <3>2, <3>3, <3>4
  <2>6. CASE b \notin kept /\ ~(b \in Range(buckets) /\ ~held(b))
    <3>1. left(b) = contents[b]
      BY <2>6 DEF left
    <3>2. \A i : Stays(keys, keep, b, i)
      BY <2>6 DEF Stays, Held, kept, held
    <3> QED
      BY <2>1, <2>3, <3>1, <3>2
  <2> QED
    BY <2>4, <2>5, <2>6
<1>4. \A i : i \in lost <=> \E b \in Buckets : i \in Range(contents[b]) /\ i \notin Range(left(b))
  BY DEF lost
<1>5. \A b \in Buckets : contents'[b] = left(b)
  BY <1>1
<1>6. \A b \in Buckets : Idle(b) = Range(contents[b]) /\ Idle(b)' = Range(left(b))
  BY <1>5 DEF Idle, Range
<1>7. \A b \in Buckets : Once(b) => Once(b)'
  BY <1>3, <1>5 DEF Once, Distinct
<1>8. contents' \in [Buckets -> Seq(Items)] /\ info' \in [Items -> Infos \cup {Nil}]
  BY <1>1, <1>2, <1>3
<1>9. \A b \in Buckets :
        /\ Idle(b)' \subseteq Items
        /\ \A i \in Items : i \in Idle(b)' <=> i \in Idle(b) /\ Stays(keys, keep, b, i)
  BY <1>3, <1>6
<1>10. \A i \in Items : i \in lost <=> \E b \in Buckets : i \in Idle(b) /\ ~Stays(keys, keep, b, i)
  BY <1>3, <1>4, <1>6
<1>11. \A b \in Buckets : Len(contents'[b]) <= Len(contents[b])
  BY <1>3, <1>5
<1> QED
  BY <1>1, <1>7, <1>8, <1>9, <1>10, <1>11

\* Lease l brings item i back to bucket b.
Returns(l, i, b) == Return(l) /\ leased[l] = i /\ home[l] = b

\* The bucket that a lease goes back to has the item then, unless it ends with it.
LEMMA ReturnKeeps ==
    ASSUME TypeInv, NEW l \in Leases, NEW b \in Buckets, NEW i \in Items, Returns(l, i, b)
    PROVE  /\ contents' \in [Buckets -> Seq(Items)]
           /\ info' \in [Items -> Infos \cup {Nil}]
           /\ room' \in [Buckets -> Nat]
           /\ \A c \in Buckets \ {b} :
                Idle(c)' = Idle(c) /\ (Once(c) => Once(c)') /\ contents'[c] = contents[c] /\ room'[c] = room[c]
           /\ Idle(b)' \subseteq Idle(b) \cup {i}
           /\ Once(b) /\ i \notin Idle(b) => Once(b)'
           /\ room[b] > 0 /\ Len(contents[b]) <= room[b] =>
                room'[b] = room[b] /\ Len(contents'[b]) <= room[b]
           /\ Idle(b)' # {} => b \in Range(buckets) \/ \E m \in Leases \ {l} : returning[m] /\ home[m] = b
           /\ \A j \in Items : info'[j] = IF j \in (Idle(b) \cup {i}) \ Idle(b)' THEN Nil ELSE info[j]
           /\ served' = served \ ((Idle(b) \cup {i}) \ Idle(b)')
<1> DEFINE s == Pushed(contents[b], room[b], i)
           kept == \/ b \in Range(buckets)
                   \/ \E m \in Leases \ {l} : returning[m] /\ home[m] = b
           gone == Range(contents[b]) \cup {i}
           lost == IF kept THEN gone \ Range(s) ELSE gone
<1>1. /\ contents' = [contents EXCEPT ![b] = IF kept THEN s ELSE <<>>]
      /\ room' = [room EXCEPT ![b] = Grown(s, room[b])]
      /\ info' = [j \in Items |-> IF j \in lost THEN Nil ELSE info[j]]
      /\ served' = served \ lost
  BY Zenon DEF Returns, Return
<1>2. contents \in [Buckets -> Seq(Items)] /\ info \in [Items -> Infos \cup {Nil}]
      /\ room \in [Buckets -> Nat]
  BY DEF TypeInv, TypeOK
<1>3. contents[b] \in Seq(Items) /\ room[b] \in Nat
  BY <1>2
<1>4. /\ s \in Seq(Items)
      /\ room[b] > 0 /\ Len(contents[b]) <= room[b] => Len(s) <= room[b]
      /\ \A k \in DOMAIN s : s[k] = i \/ \E m \in DOMAIN contents[b] : s[k] = contents[b][m]
      /\ Distinct(contents[b]) /\ (\A m \in DOMAIN contents[b] : contents[b][m] # i) => Distinct(s)
  <2>1. PICK v, capacity : v = contents[b] /\ capacity = room[b]
    OBVIOUS
  <2>2. v \in Seq(Items) /\ capacity \in Nat
    BY <1>3, <2>1
  <2>3. /\ Pushed(v, capacity, i) \in Seq(Items)
        /\ capacity > 0 /\ Len(v) <= capacity => Len(Pushed(v, capacity, i)) <= capacity
        /\ \A k \in DOMAIN Pushed(v, capacity, i) :
             Pushed(v, capacity, i)[k] = i \/ \E m \in DOMAIN v : Pushed(v, capacity, i)[k] = v[m]
        /\ Distinct(v) /\ (\A m \in DOMAIN v : v[m] # i) => Distinct(Pushed(v, capacity, i))
    <3>1. Pushed(v, capacity, i) \in Seq(Items)
      BY <2>2, PushedIs
    <3>2. capacity > 0 /\ Len(v) <= capacity => Len(Pushed(v, capacity, i)) <= capacity
      BY <2>2, PushedIs
    <3>3. \A k \in DOMAIN Pushed(v, capacity, i) :
            Pushed(v, capacity, i)[k] = i \/ \E m \in DOMAIN v : Pushed(v, capacity, i)[k] = v[m]
      BY <2>2, PushedIs
    <3>4. Distinct(v) /\ (\A m \in DOMAIN v : v[m] # i) => Distinct(Pushed(v, capacity, i))
      BY <2>2, PushedIs
    <3> QED
      BY <3>1, <3>2, <3>3, <3>4
  <2> QED
    BY <2>1, <2>3
<1> HIDE DEF s, kept
<1>5. PICK left \in Seq(Items) : left = IF kept THEN s ELSE <<>>
  <2>1. <<>> \in Seq(Items)
    OBVIOUS
  <2> QED
    BY <1>4, <2>1, Zenon
<1>6. contents'[b] = left /\ \A c \in Buckets \ {b} : contents'[c] = contents[c]
  BY <1>1, <1>2, <1>5
<1>7. contents' \in [Buckets -> Seq(Items)]
  BY <1>1, <1>2, <1>5
<1>8. Idle(b)' = Range(left) /\ Idle(b) = Range(contents[b])
  BY <1>6 DEF Idle, Range
<1>9. \A c \in Buckets \ {b} : Idle(c)' = Idle(c) /\ (Once(c) => Once(c)')
  BY <1>6 DEF Idle, Once, Distinct
<1>10. Range(<<>>) = {} /\ Distinct(<<>>) /\ Len(<<>>) = 0
  BY DEF Range, Distinct
<1>11. lost = gone \ Range(left)
  BY <1>5, <1>10
<1>12. Range(s) \subseteq gone
  BY <1>4 DEF Range
<1>13. Range(left) \subseteq gone
  BY <1>5, <1>10, <1>12
<1>14. Once(b) /\ i \notin Idle(b) => Once(b)'
  <2> SUFFICES ASSUME Once(b), i \notin Idle(b)
               PROVE  Once(b)'
    OBVIOUS
  <2>1. Distinct(s)
    BY <1>4 DEF Once, Idle
  <2>2. Distinct(left)
    BY <1>5, <1>10, <2>1
  <2> QED
    BY <1>6, <2>2 DEF Once, Distinct
<1>15. room' \in [Buckets -> Nat] /\ room'[b] = Grown(s, room[b])
       /\ \A c \in Buckets \ {b} : room'[c] = room[c]
  <2>1. Grown(s, room[b]) \in Nat
    BY <1>3 DEF Grown
  <2> QED
    BY <1>1, <1>2, <2>1
<1>16. room[b] > 0 /\ Len(contents[b]) <= room[b] =>
         room'[b] = room[b] /\ Len(contents'[b]) <= room[b]
  <2> SUFFICES ASSUME room[b] > 0, Len(contents[b]) <= room[b]
               PROVE  room'[b] = room[b] /\ Len(contents'[b]) <= room[b]
    OBVIOUS
  <2>1. Len(s) \in Nat /\ Len(s) <= room[b]
    BY <1>4
  <2>2. room'[b] = room[b]
    BY <1>3, <1>15, <2>1 DEF Grown
  <2> QED
    BY <1>3, <1>5, <1>6, <1>10, <2>1, <2>2
<1>17. Idle(b)' # {} => kept
  BY <1>5, <1>8, <1>10
<1> HIDE DEF lost, gone
<1>18. info' \in [Items -> Infos \cup {Nil}]
       /\ \A j \in Items : info'[j] = IF j \in lost THEN Nil ELSE info[j]
  BY <1>1, <1>2
<1> QED
  BY <1>1, <1>6, <1>7, <1>8, <1>9, <1>11, <1>13, <1>14, <1>15, <1>16, <1>17, <1>18 DEF kept, gone
LEMMA WithBucketMakes ==
    ASSUME TypeOK, NEW wish \in Infos, NEW b \in Buckets, WithBucket(wish, b)
    PROVE  /\ DOMAIN buckets' = DOMAIN buckets \cup {Key(wish)}
           /\ \A k \in DOMAIN buckets : buckets'[k] = buckets[k]
           /\ buckets'[Key(wish)] = b
           /\ room' \in [Buckets -> Nat] /\ \A c \in Buckets \ {b} : room'[c] = room[c]
           /\ Key(wish) \in DOMAIN buckets => room' = room
           /\ Key(wish) \notin DOMAIN buckets =>
                /\ ~Alive(b) /\ \A l \in Leases : home[l] # b
                /\ room'[b] = BucketCapacity(wish.kind)
           /\ Range(buckets) \subseteq Range(buckets') /\ Range(buckets') \subseteq Buckets
<1>1. room \in [Buckets -> Nat] /\ Range(buckets) \subseteq Buckets
  BY DEF TypeOK
<1>2. BucketCapacity(wish.kind) \in Nat
  BY CapacityAssumption DEF BucketCapacity
<1>3. PICK k : k = Key(wish)
  OBVIOUS
<1>4. CASE k \in DOMAIN buckets
  BY <1>1, <1>3, <1>4 DEF WithBucket
<1>5. CASE k \notin DOMAIN buckets
  <2>1. /\ buckets' = [j \in DOMAIN buckets \cup {k} |-> IF j = k THEN b ELSE buckets[j]]
        /\ room' = [room EXCEPT ![b] = BucketCapacity(wish.kind)]
        /\ ~Alive(b) /\ \A l \in Leases : home[l] # b
    BY <1>3, <1>5 DEF WithBucket
  <2>2. DOMAIN buckets' = DOMAIN buckets \cup {k} /\ buckets'[k] = b
        /\ \A j \in DOMAIN buckets : buckets'[j] = buckets[j]
    BY <1>5, <2>1
  <2>3. Range(buckets) \subseteq Range(buckets') /\ Range(buckets') \subseteq Buckets
    BY <1>1, <2>2 DEF Range
  <2>4. room' \in [Buckets -> Nat] /\ room'[b] = BucketCapacity(wish.kind)
        /\ \A c \in Buckets \ {b} : room'[c] = room[c]
    BY <1>1, <1>2, <2>1
  <2> QED
    BY <1>3, <1>5, <2>1, <2>2, <2>3, <2>4
<1> QED
  BY <1>4, <1>5

LEMMA HitTakes ==
    ASSUME TypeOK, NEW wish \in Infos, NEW b \in Buckets, NEW l \in Leases,
           ResourceHit(wish, b, l)
    PROVE  /\ WithBucket(wish, b) /\ info' = info
           /\ contents' \in [Buckets -> Seq(Items)]
           /\ \A c \in Buckets \ {b} : Idle(c)' = Idle(c) /\ (Once(c) => Once(c)')
           /\ \A c \in Buckets : Len(contents'[c]) <= Len(contents[c])
           /\ \E i \in Items :
                /\ i \in Idle(b) /\ Compatible(info[i], wish) /\ Lend(wish, b, i, l)
                /\ Idle(b)' \subseteq Idle(b) /\ Idle(b) \ {i} \subseteq Idle(b)'
                /\ Once(b) => Once(b)' /\ i \notin Idle(b)'
<1>1. /\ WithBucket(wish, b) /\ info' = info
      /\ \E n \in Takes(contents[b], wish) :
          /\ Lend(wish, b, contents[b][n], l)
          /\ contents' = [contents EXCEPT ![b] = SwapRemove(contents[b], n)]
  BY DEF ResourceHit
<1>2. PICK n \in Takes(contents[b], wish) :
          /\ Lend(wish, b, contents[b][n], l)
          /\ contents' = [contents EXCEPT ![b] = SwapRemove(contents[b], n)]
  BY <1>1
<1>3. contents \in [Buckets -> Seq(Items)]
  BY DEF TypeOK
<1>4. n \in DOMAIN contents[b] /\ Compatible(info[contents[b][n]], wish)
  BY <1>2 DEF Takes
<1>5. PICK s, i : s = contents[b] /\ i = contents[b][n]
  OBVIOUS
<1>6. s \in Seq(Items) /\ n \in DOMAIN s /\ i = s[n] /\ i \in Items
  BY <1>3, <1>4, <1>5
<1>7. PICK t : t = SwapRemove(s, n)
  OBVIOUS
<1>8. /\ t \in Seq(Items) /\ Len(t) <= Len(s)
      /\ \A k \in DOMAIN t : \E m \in DOMAIN s : t[k] = s[m]
      /\ \A m \in DOMAIN s \ {n} : \E k \in DOMAIN t : t[k] = s[m]
      /\ Distinct(s) => Distinct(t) /\ \A k \in DOMAIN t : t[k] # s[n]
  BY <1>6, <1>7, SwapRemoveTakes
<1>9. contents' \in [Buckets -> Seq(Items)] /\ contents'[b] = t
      /\ \A c \in Buckets \ {b} : contents'[c] = contents[c]
  BY <1>2, <1>3, <1>5, <1>7, <1>8
<1>10. \A c \in Buckets \ {b} : Idle(c)' = Idle(c) /\ (Once(c) => Once(c)')
  BY <1>9 DEF Idle, Once
<1>11. /\ Idle(b)' = {t[k] : k \in DOMAIN t} /\ Idle(b) = {s[k] : k \in DOMAIN s}
       /\ Once(b) <=> Distinct(s)
       /\ Once(b)' <=> Distinct(t)
  BY <1>5, <1>9 DEF Idle, Once, Distinct
<1>12. \A c \in Buckets : Len(contents'[c]) <= Len(contents[c])
  <2>1. ASSUME NEW c \in Buckets \ {b}
        PROVE  Len(contents'[c]) <= Len(contents[c])
    <3>1. contents[c] \in Seq(Items) /\ contents'[c] = contents[c]
      BY <1>3, <1>9
    <3>2. Len(contents[c]) \in Nat
      BY <3>1
    <3> QED
      BY <3>1, <3>2
  <2> QED
    BY <1>5, <1>8, <1>9, <2>1
<1>13. Idle(b)' \subseteq Idle(b) /\ Idle(b) \ {i} \subseteq Idle(b)' /\ i \in Idle(b)
  BY <1>6, <1>8, <1>11
<1>14. Once(b) => Once(b)' /\ i \notin Idle(b)'
  BY <1>6, <1>8, <1>11
<1> QED
  BY <1>1, <1>2, <1>4, <1>5, <1>6, <1>9, <1>10, <1>12, <1>13, <1>14
\* What a step of the pool's owner or of a thread that gives a lease back may be.
LEMMA Steps ==
    ASSUME TypeOK, Next
    PROVE  \/ \E wish \in Infos, b \in Buckets, l \in Leases :
                open /\ (ResourceHit(wish, b, l) \/ ResourceMiss(wish, b, l))
           \/ \E wish \in Infos, b \in Buckets : ResourceFails(wish, b)
           \/ \E tag \in Tags, wish \in Infos : CacheRequest(tag, wish)
           \/ CacheHit
           \/ \E keys \in SUBSET DOMAIN buckets : Clear(keys)
           \/ Collect
           \/ DropPool
           \/ \E l \in Leases : DropClone(l) \/ DropPanicking(l) \/ DropOrphan(l)
           \/ \E l \in Leases : Upgrade(l) \/ Return(l)
<1>1. ASSUME NEW wish \in Infos, Resource(wish)
      PROVE  \/ \E b \in Buckets, l \in Leases :
                  open /\ (ResourceHit(wish, b, l) \/ ResourceMiss(wish, b, l))
             \/ \E b \in Buckets : ResourceFails(wish, b)
  BY <1>1, Zenon DEF Resource
<1>2. CASE CacheMiss
  <2>1. lookup \in [tag : Tags, info : Infos]
    BY <1>2 DEF CacheMiss, TypeOK
  <2>2. lookup.info \in Infos /\ Resource(lookup.info)
    BY <1>2, <2>1 DEF CacheMiss
  <2>3. PICK wish \in Infos : Resource(wish)
    BY <2>2
  <2> QED
    BY <1>1, <2>3
<1>3. CASE Owner /\ ~CacheMiss
  BY <1>1, <1>3 DEF Owner
<1>4. CASE \E l \in Leases : Drop(l)
  BY <1>4 DEF Drop
<1> QED
  BY <1>2, <1>3, <1>4 DEF Next

-----------------------------------------------------------------------------
(* Types                                                                   *)

LEMMA TypeInit == Init => TypeInv
<1> SUFFICES ASSUME Init
             PROVE  TypeInv
  OBVIOUS
<1>1. Range(buckets) \subseteq Buckets
  BY DEF Init, Range
<1>2. LeasesHeld
  BY DEF Init, LeasesHeld
<1>3. contents \in [Buckets -> Seq(Items)]
  BY DEF Init
<1>4. clones \in [Leases -> 0..MaxClones]
  BY ClonesAssumption DEF Init
<1>5. aliases \in [Tags -> Seq([info : Infos, lease : Leases])]
  BY DEF Init
<1> QED
  BY <1>1, <1>2, <1>3, <1>4, <1>5 DEF Init, TypeInv, TypeOK

\* A new lease is held once, and will go back to its bucket.
LEMMA LendType ==
    ASSUME TypeInv, NEW wish \in Infos, NEW b \in Buckets, NEW i \in Items, NEW l \in Leases,
           Lend(wish, b, i, l)
    PROVE  /\ strategy' \in Strategies /\ open' \in BOOLEAN
           /\ leased' \in [Leases -> Items \cup {Nil}]
           /\ home' \in [Leases -> Buckets \cup {Nil}]
           /\ wanted' \in [Leases -> SUBSET Infos]
           /\ clones' \in [Leases -> 0..MaxClones]
           /\ returning' \in [Leases -> BOOLEAN]
           /\ aliases' \in [Tags -> Seq([info : Infos, lease : Leases])]
           /\ lookup' = Nil
           /\ requests' \in SUBSET Infos /\ served' \in SUBSET Items /\ leaked' \in SUBSET Items
           /\ LeasesHeld'
<1> USE DEF TypeInv
<1>1. leased' \in [Leases -> Items \cup {Nil}] /\ home' \in [Leases -> Buckets \cup {Nil}]
  BY DEF Lend, TypeOK
<1>2. wanted' \in [Leases -> SUBSET Infos]
  BY DEF Lend, TypeOK
<1>3. clones' \in [Leases -> 0..MaxClones]
  <2>1. 1 \in 0..MaxClones
    BY ClonesAssumption
  <2> QED
    BY <2>1 DEF Lend, TypeOK
<1>4. aliases' \in [Tags -> Seq([info : Infos, lease : Leases])]
  <2>1. CASE lookup = Nil
    BY <2>1 DEF Lend, TypeOK
  <2>2. CASE lookup # Nil
    <3>1. lookup.tag \in Tags
      BY <2>2 DEF TypeOK
    <3>2. PICK a \in [info : Infos, lease : Leases] : a = [info |-> wish, lease |-> l]
      OBVIOUS
    <3>3. aliases' = [aliases EXCEPT ![lookup.tag] = Append(aliases[lookup.tag], a)]
      BY <2>2, <3>2 DEF Lend
    <3>4. aliases[lookup.tag] \in Seq([info : Infos, lease : Leases])
          /\ aliases \in [Tags -> Seq([info : Infos, lease : Leases])]
      BY <3>1 DEF TypeOK
    <3>5. Append(aliases[lookup.tag], a) \in Seq([info : Infos, lease : Leases])
      BY <3>2, <3>4
    <3> QED
      BY <3>3, <3>4, <3>5
  <2> QED
    BY <2>1, <2>2
<1>5. LeasesHeld'
  <2>1. leased[l] = Nil /\ i # Nil /\ b # Nil
    BY NilAssumption DEF Lend, Free
  <2>2. /\ leased' = [leased EXCEPT ![l] = i] /\ home' = [home EXCEPT ![l] = b]
        /\ clones' = [clones EXCEPT ![l] = 1] /\ returning' = returning
    BY DEF Lend
  <2>3. leased \in [Leases -> Items \cup {Nil}] /\ home \in [Leases -> Buckets \cup {Nil}]
        /\ clones \in [Leases -> 0..MaxClones]
    BY DEF TypeOK
  <2> QED
    BY <2>1, <2>2, <2>3 DEF LeasesHeld
<1>6. strategy' \in Strategies /\ open' \in BOOLEAN /\ returning' \in [Leases -> BOOLEAN]
      /\ lookup' = Nil /\ leaked' \in SUBSET Items /\ served' \in SUBSET Items
  BY DEF Lend, TypeOK, poolVars
<1>7. requests' \in SUBSET Infos
  BY DEF Lend, TypeOK
<1> QED
  BY <1>1, <1>2, <1>3, <1>4, <1>5, <1>6, <1>7
\* Three of the managing operations let go of buckets and of items in them.
LEMMA RetainType ==
    ASSUME TypeInv, NEW keys \in SUBSET DOMAIN buckets, NEW keep, Retain(keys, keep)
    PROVE  /\ Range(buckets') \subseteq Buckets
           /\ contents' \in [Buckets -> Seq(Items)]
           /\ info' \in [Items -> Infos \cup {Nil}]
<1>1. TypeOK
  BY DEF TypeInv
<1>2. DOMAIN buckets' = keys /\ \A k \in keys : buckets'[k] = buckets[k]
  BY <1>1, RetainKeeps
<1>3. Range(buckets') \subseteq Buckets
  BY <1>1, <1>2 DEF Range, TypeOK
<1>4. contents' \in [Buckets -> Seq(Items)] /\ info' \in [Items -> Infos \cup {Nil}]
  BY <1>1, RetainKeeps
<1> QED
  BY <1>3, <1>4

LEMMA TypeStep == TypeInv /\ [Next]_vars => TypeInv'
<1> SUFFICES ASSUME TypeInv, [Next]_vars
             PROVE  TypeInv'
  OBVIOUS
<1>1. CASE UNCHANGED vars
  BY <1>1 DEF TypeInv, TypeOK, LeasesHeld, vars, poolVars, leaseVars
<1>2. ASSUME NEW wish \in Infos, NEW b \in Buckets, NEW l \in Leases, ResourceHit(wish, b, l)
      PROVE  TypeInv'
  <2>1. TypeOK
    BY DEF TypeInv
  <2>2. /\ WithBucket(wish, b) /\ info' = info
        /\ contents' \in [Buckets -> Seq(Items)]
        /\ \E i \in Items : Lend(wish, b, i, l)
    BY <1>2, <2>1, HitTakes
  <2>3. room' \in [Buckets -> Nat] /\ Range(buckets') \subseteq Buckets
    BY <2>1, <2>2, WithBucketMakes
  <2>4. info' \in [Items -> Infos \cup {Nil}]
    BY <2>1, <2>2 DEF TypeOK
  <2>5. PICK i \in Items : Lend(wish, b, i, l)
    BY <2>2
  <2>6. /\ strategy' \in Strategies /\ open' \in BOOLEAN
        /\ leased' \in [Leases -> Items \cup {Nil}]
        /\ home' \in [Leases -> Buckets \cup {Nil}]
        /\ wanted' \in [Leases -> SUBSET Infos]
        /\ clones' \in [Leases -> 0..MaxClones]
        /\ returning' \in [Leases -> BOOLEAN]
        /\ aliases' \in [Tags -> Seq([info : Infos, lease : Leases])]
        /\ lookup' = Nil
        /\ requests' \in SUBSET Infos /\ served' \in SUBSET Items /\ leaked' \in SUBSET Items
        /\ LeasesHeld'
    BY <2>5, LendType
  <2> QED
    BY <2>2, <2>3, <2>4, <2>6 DEF TypeInv, TypeOK
<1>3. ASSUME NEW wish \in Infos, NEW b \in Buckets, NEW l \in Leases, ResourceMiss(wish, b, l)
      PROVE  TypeInv'
  <2>1. TypeOK
    BY DEF TypeInv
  <2>2. /\ WithBucket(wish, b) /\ contents' = contents
        /\ \E i \in Items : Lend(wish, b, i, l) /\ info' = [info EXCEPT ![i] = wish]
    BY <1>3 DEF ResourceMiss
  <2>3. room' \in [Buckets -> Nat] /\ Range(buckets') \subseteq Buckets
    BY <2>1, <2>2, WithBucketMakes
  <2>4. PICK i \in Items : Lend(wish, b, i, l) /\ info' = [info EXCEPT ![i] = wish]
    BY <2>2
  <2>5. info' \in [Items -> Infos \cup {Nil}] /\ contents' \in [Buckets -> Seq(Items)]
    BY <2>1, <2>2, <2>4 DEF TypeOK
  <2>6. /\ strategy' \in Strategies /\ open' \in BOOLEAN
        /\ leased' \in [Leases -> Items \cup {Nil}]
        /\ home' \in [Leases -> Buckets \cup {Nil}]
        /\ wanted' \in [Leases -> SUBSET Infos]
        /\ clones' \in [Leases -> 0..MaxClones]
        /\ returning' \in [Leases -> BOOLEAN]
        /\ aliases' \in [Tags -> Seq([info : Infos, lease : Leases])]
        /\ lookup' = Nil
        /\ requests' \in SUBSET Infos /\ served' \in SUBSET Items /\ leaked' \in SUBSET Items
        /\ LeasesHeld'
    BY <2>4, LendType
  <2> QED
    BY <2>3, <2>5, <2>6 DEF TypeInv, TypeOK
<1>4. ASSUME NEW wish \in Infos, NEW b \in Buckets, ResourceFails(wish, b)
      PROVE  TypeInv'
  <2>1. TypeOK /\ WithBucket(wish, b)
    BY <1>4 DEF TypeInv, ResourceFails
  <2>2. room' \in [Buckets -> Nat] /\ Range(buckets') \subseteq Buckets
    BY <2>1, WithBucketMakes
  <2> QED
    BY <1>4, <2>2 DEF ResourceFails, TypeInv, TypeOK, LeasesHeld, poolVars, leaseVars
<1>5. ASSUME NEW tag \in Tags, NEW wish \in Infos, CacheRequest(tag, wish)
      PROVE  TypeInv'
  <2>1. PICK P : P = {n \in DOMAIN aliases[tag] : Live(aliases[tag][n])}
    OBVIOUS
  <2>2. aliases' = [aliases EXCEPT ![tag] = Kept(aliases[tag], P)]
    BY <1>5, <2>1 DEF CacheRequest
  <2>3. aliases \in [Tags -> Seq([info : Infos, lease : Leases])]
    BY DEF TypeInv, TypeOK
  <2>4. aliases[tag] \in Seq([info : Infos, lease : Leases]) /\ P \in SUBSET DOMAIN aliases[tag]
    BY <2>1, <2>3
  <2>5. Kept(aliases[tag], P) \in Seq([info : Infos, lease : Leases])
    BY <2>4, KeptOf
  <2>6. aliases' \in [Tags -> Seq([info : Infos, lease : Leases])]
    BY <2>2, <2>3, <2>5
  <2>7. lookup' \in [tag : Tags, info : Infos]
    BY <1>5 DEF CacheRequest
  <2> QED
    BY <1>5, <2>6, <2>7 DEF CacheRequest, TypeInv, TypeOK, LeasesHeld, poolVars, leaseVars
<1>6. CASE CacheHit
  <2>1. lookup \in [tag : Tags, info : Infos]
    BY <1>6 DEF CacheHit, TypeInv, TypeOK
  <2>2. PICK n \in Hits(lookup.tag, lookup.info) :
          /\ clones[aliases[lookup.tag][n].lease] < MaxClones
          /\ clones' = [clones EXCEPT ![aliases[lookup.tag][n].lease] = @ + 1]
          /\ wanted' = [wanted EXCEPT ![aliases[lookup.tag][n].lease] = @ \cup {lookup.info}]
    BY <1>6 DEF CacheHit
  <2>3. lookup.tag \in Tags /\ lookup.info \in Infos
    BY <2>1
  <2>4. n \in DOMAIN aliases[lookup.tag] /\ Live(aliases[lookup.tag][n])
    BY <2>2 DEF Hits
  <2>5. PICK l : l = aliases[lookup.tag][n].lease
    OBVIOUS
  <2>6. l \in Leases /\ clones[l] > 0
    <3>1. aliases[lookup.tag] \in Seq([info : Infos, lease : Leases])
      BY <2>3 DEF TypeInv, TypeOK
    <3>2. \A R : \A s \in Seq(R) : \A k \in DOMAIN s : s[k] \in R
      OBVIOUS
    <3>3. aliases[lookup.tag][n] \in [info : Infos, lease : Leases]
      BY <2>4, <3>1, <3>2, Zenon
    <3> QED
      BY <2>4, <2>5, <3>3 DEF Live
  <2>7. clones \in [Leases -> 0..MaxClones] /\ wanted \in [Leases -> SUBSET Infos]
    BY DEF TypeInv, TypeOK
  <2>8. clones[l] + 1 \in 0..MaxClones
    BY <2>2, <2>5, <2>6, <2>7, ClonesAssumption
  <2>9. clones' \in [Leases -> 0..MaxClones] /\ wanted' \in [Leases -> SUBSET Infos]
        /\ clones'[l] = clones[l] + 1 /\ \A m \in Leases \ {l} : clones'[m] = clones[m]
    BY <2>2, <2>3, <2>5, <2>6, <2>7, <2>8
  <2>10. LeasesHeld'
    BY SMTT(30), <1>6, <2>6, <2>7, <2>9 DEF CacheHit, LeasesHeld, TypeInv
  <2> QED
    BY <1>6, <2>9, <2>10 DEF CacheHit, TypeInv, TypeOK, poolVars, leaseVars
<1>7. ASSUME NEW keys \in SUBSET DOMAIN buckets, Clear(keys)
      PROVE  TypeInv'
  <2>1. Retain(DOMAIN buckets \ keys, Items) /\ served' \subseteq served
        /\ UNCHANGED <<poolVars, room, leaseVars, returning, aliases, lookup, requests, leaked>>
    BY <1>7 DEF Clear
  <2>2. /\ Range(buckets') \subseteq Buckets
        /\ contents' \in [Buckets -> Seq(Items)]
        /\ info' \in [Items -> Infos \cup {Nil}]
    BY <2>1, RetainType
  <2> QED
    BY <2>1, <2>2 DEF TypeInv, TypeOK, LeasesHeld, poolVars, leaseVars
<1>8. CASE Collect
  <2>1. PICK keys \in SUBSET DOMAIN buckets, keep \in SUBSET Items :
          Retain(keys, keep) /\ requests' = {} /\ served' = {}
          /\ UNCHANGED <<poolVars, room, leaseVars, returning, aliases, lookup, leaked>>
    BY <1>8, Zenon DEF Collect
  <2>2. /\ Range(buckets') \subseteq Buckets
        /\ contents' \in [Buckets -> Seq(Items)]
        /\ info' \in [Items -> Infos \cup {Nil}]
    BY <2>1, RetainType
  <2> QED
    BY <2>1, <2>2 DEF TypeInv, TypeOK, LeasesHeld, poolVars, leaseVars
<1>9. CASE DropPool
  <2>1. Retain({}, Items) /\ served' \subseteq served /\ open' = FALSE
        /\ aliases' = [t \in Tags |-> <<>>]
        /\ UNCHANGED <<strategy, room, leaseVars, returning, lookup, requests, leaked>>
    BY <1>9 DEF DropPool
  <2>2. /\ Range(buckets') \subseteq Buckets
        /\ contents' \in [Buckets -> Seq(Items)]
        /\ info' \in [Items -> Infos \cup {Nil}]
    BY <2>1, RetainType
  <2>3. aliases' \in [Tags -> Seq([info : Infos, lease : Leases])]
    BY <2>1
  <2> QED
    BY <2>1, <2>2, <2>3 DEF TypeInv, TypeOK, LeasesHeld, poolVars, leaseVars
<1>10. ASSUME NEW l \in Leases, DropClone(l) \/ DropPanicking(l) \/ DropOrphan(l)
       PROVE  TypeInv'
  <2>1. clones \in [Leases -> 0..MaxClones] /\ clones[l] > 0 /\ MaxClones \in Nat
    BY <1>10, ClonesAssumption DEF TypeInv, TypeOK, DropClone, DropPanicking, DropOrphan
  <2>2. leased[l] # Nil /\ leased[l] \in Items
    BY <2>1 DEF TypeInv, TypeOK, LeasesHeld
  <2>3. CASE DropClone(l)
    <3>1. clones[l] - 1 \in 0..MaxClones /\ clones[l] - 1 # 0
      BY <2>1, <2>3 DEF DropClone
    <3>2. clones' \in [Leases -> 0..MaxClones] /\ clones'[l] = clones[l] - 1
          /\ \A m \in Leases \ {l} : clones'[m] = clones[m]
      BY <2>1, <2>3, <3>1 DEF DropClone
    <3>3. LeasesHeld'
      BY <2>1, <2>2, <2>3, <3>1, <3>2 DEF DropClone, TypeInv, LeasesHeld
    <3> QED
      BY <2>3, <3>2, <3>3 DEF DropClone, TypeInv, TypeOK, poolVars
  <2>4. CASE DropPanicking(l)
    <3>1. clones' \in [Leases -> 0..MaxClones] /\ clones' = [clones EXCEPT ![l] = 0]
      BY <2>1, <2>4 DEF DropPanicking
    <3>2. ~returning[l]
      BY <2>1, <2>2 DEF TypeInv, LeasesHeld
    <3> QED
      BY <2>2, <2>4, <3>1, <3>2 DEF DropPanicking, ForgetLease, TypeInv, TypeOK, LeasesHeld, poolVars
  <2>5. CASE DropOrphan(l)
    <3>1. clones' \in [Leases -> 0..MaxClones] /\ clones' = [clones EXCEPT ![l] = 0]
      BY <2>1, <2>5 DEF DropOrphan
    <3>2. ~returning[l]
      BY <2>1, <2>2 DEF TypeInv, LeasesHeld
    <3>3. info' \in [Items -> Infos \cup {Nil}] /\ served' \in SUBSET Items
      BY <2>2, <2>5 DEF DropOrphan, TypeInv, TypeOK
    <3> QED
      BY <2>2, <2>5, <3>1, <3>2, <3>3 DEF DropOrphan, ForgetLease, TypeInv, TypeOK, LeasesHeld, poolVars
  <2> QED
    BY <1>10, <2>3, <2>4, <2>5
<1>11. ASSUME NEW l \in Leases, Upgrade(l)
       PROVE  TypeInv'
  <2>1. clones \in [Leases -> 0..MaxClones] /\ clones[l] = 1 /\ MaxClones \in Nat
    BY <1>11, ClonesAssumption DEF TypeInv, TypeOK, Upgrade
  <2>2. leased[l] # Nil
    BY <2>1 DEF TypeInv, LeasesHeld
  <2>3. clones' \in [Leases -> 0..MaxClones] /\ clones' = [clones EXCEPT ![l] = 0]
        /\ returning' \in [Leases -> BOOLEAN] /\ returning' = [returning EXCEPT ![l] = TRUE]
    BY <1>11, <2>1 DEF Upgrade, TypeInv, TypeOK
  <2> QED
    BY <1>11, <2>1, <2>2, <2>3 DEF Upgrade, TypeInv, TypeOK, LeasesHeld, poolVars
<1>12. ASSUME NEW l \in Leases, Return(l)
       PROVE  TypeInv'
  <2>1. returning[l] /\ returning' = [returning EXCEPT ![l] = FALSE] /\ ForgetLease(l)
        /\ UNCHANGED <<poolVars, buckets, clones, aliases, lookup, requests, leaked>>
    BY <1>12 DEF Return
  <2>2. leased[l] \in Items /\ home[l] \in Buckets /\ clones[l] = 0
    BY <2>1 DEF TypeInv, TypeOK, LeasesHeld
  <2>3. PICK b \in Buckets, i \in Items : Returns(l, i, b)
    BY <1>12, <2>2 DEF Returns
  <2>4. /\ contents' \in [Buckets -> Seq(Items)]
        /\ info' \in [Items -> Infos \cup {Nil}]
        /\ room' \in [Buckets -> Nat]
        /\ served' \subseteq served
    BY <2>3, ReturnKeeps
  <2> QED
    BY <2>1, <2>2, <2>4 DEF ForgetLease, TypeInv, TypeOK, LeasesHeld, poolVars
<1> QED
  <2>1. TypeOK
    BY DEF TypeInv
  <2> QED
    BY <1>1, <1>2, <1>3, <1>4, <1>5, <1>6, <1>7, <1>8, <1>9, <1>10, <1>11, <1>12, <2>1, Steps

\* Every variable of a pool keeps its type: no reference count leaves its bounds, and
\* what a lease, an alias or a bucket names is there.
THEOREM TypeCorrect == Spec => []TypeOK
<1>1. TypeInv => TypeOK
  BY DEF TypeInv
<1> QED
  BY TypeInit, TypeStep, <1>1, PTL DEF Spec
-----------------------------------------------------------------------------
(* Every item that exists has one owner                                    *)

LEMMA OwnedInit == Init => Owned
<1> SUFFICES ASSUME Init
             PROVE  Owned
  OBVIOUS
<1>1. \A b \in Buckets : contents[b] = <<>>
  BY DEF Init
<1>2. \A b \in Buckets : Idle(b) = {} /\ Once(b)
  BY <1>1 DEF Idle, Once, Distinct
<1>3. (\A l \in Leases : leased[l] = Nil) /\ \A i \in Items : info[i] = Nil
  BY DEF Init
<1> QED
  BY <1>2, <1>3, NilAssumption DEF Owned

\* Nothing changes owner.
LEMMA OwnedFrame ==
    ASSUME Owned, UNCHANGED <<leased, info, contents, leaked>>,
           \A b \in Buckets : Alive(b) => Alive(b)'
    PROVE  Owned'
<1>1. \A b \in Buckets : Idle(b)' = Idle(b) /\ (Once(b) => Once(b)')
  BY DEF Idle, Once
<1> QED
  BY <1>1 DEF Owned

\* A lease becomes the owner of an item that is nobody's any more.
LEMMA OwnedLend ==
    ASSUME TypeInv, Owned, NEW wish \in Infos, NEW b \in Buckets, NEW l \in Leases,
           NEW i \in Items, Lend(wish, b, i, l), Range(buckets) \subseteq Range(buckets'),
           \A j \in Items \ {i} : info'[j] = info[j],
           info'[i] # Nil,
           \A m \in Leases : leased[m] # i,
           \A c \in Buckets : Idle(c)' \subseteq Idle(c) /\ i \notin Idle(c)'
                              /\ Idle(c) \ {i} \subseteq Idle(c)' /\ Once(c)'
    PROVE  Owned'
<1>1. /\ leased \in [Leases -> Items \cup {Nil}] /\ home \in [Leases -> Buckets \cup {Nil}]
      /\ leased' = [leased EXCEPT ![l] = i] /\ home' = [home EXCEPT ![l] = b]
      /\ returning' = returning /\ leaked' = leaked /\ leased[l] = Nil
  BY DEF TypeInv, TypeOK, Lend, Free
<1>2. ~returning[l]
  BY <1>1 DEF TypeInv, LeasesHeld
<1>3. \A c \in Buckets : Alive(c) => Alive(c)'
  BY <1>1, <1>2 DEF Alive
<1>4. leased'[l] = i /\ \A m \in Leases \ {l} : leased'[m] = leased[m]
  BY <1>1
<1>5. \A m, k \in Leases : leased'[m] = leased'[k] /\ m # k => leased'[m] = Nil
  BY <1>4 DEF Owned
<1>6. \A m \in Leases, c \in Buckets : leased'[m] \notin Idle(c)'
  BY <1>4 DEF Owned
<1>7. \A c, d \in Buckets : \A j \in Items : j \in Idle(c)' /\ j \in Idle(d)' => c = d
  BY DEF Owned
<1>8. \A c \in Buckets, j \in Items : j \in Idle(c)' => Alive(c)' /\ info'[j] # Nil
  BY <1>3 DEF Owned
<1>9. \A m \in Leases, j \in Items : leased'[m] = j => info'[j] # Nil
  BY <1>4 DEF Owned
<1>10. \A j \in Items : info'[j] # Nil =>
          \/ j \in leaked'
          \/ \E m \in Leases : leased'[m] = j
          \/ \E c \in Buckets : j \in Idle(c)'
  <2> SUFFICES ASSUME NEW j \in Items, info'[j] # Nil, j # i
               PROVE  \/ j \in leaked
                      \/ \E m \in Leases : leased'[m] = j
                      \/ \E c \in Buckets : j \in Idle(c)'
    BY <1>1, <1>4
  <2>1. \/ j \in leaked
        \/ \E m \in Leases : leased[m] = j
        \/ \E c \in Buckets : j \in Idle(c)
    BY DEF Owned
  <2>2. \A m \in Leases : leased[m] = j => m # l
    BY <1>1, NilAssumption
  <2> QED
    BY <1>4, <2>1, <2>2
<1> QED
  BY <1>5, <1>6, <1>7, <1>8, <1>9, <1>10 DEF Owned

\* A lease is forgotten: its item is gone, leaked, or back in its bucket.
LEMMA OwnedForget ==
    ASSUME TypeInv, TypeInv', Owned, NEW l \in Leases, NEW i \in Items, leased[l] = i,
           ForgetLease(l),
           NEW gone, leaked \subseteq leaked',
           \A j \in Items : info'[j] = IF j \in gone THEN Nil ELSE info[j],
           \A c \in Buckets, j \in Items : j \in Idle(c)' => j = i \/ j \in Idle(c),
           \A c, d \in Buckets : i \in Idle(c)' /\ i \in Idle(d)' => c = d,
           \A c \in Buckets, j \in Items : j \in Idle(c)' => j \notin gone /\ Alive(c)',
           \A c \in Buckets, j \in Items : j \in Idle(c) => j \in gone \/ j \in Idle(c)',
           \A j \in gone : j = i \/ \E c \in Buckets : j \in Idle(c),
           i \in gone \/ i \in leaked' \/ \E c \in Buckets : i \in Idle(c)',
           \A c \in Buckets : Once(c)'
    PROVE  Owned'
<1>1. leased'[l] = Nil /\ \A m \in Leases \ {l} : leased'[m] = leased[m]
  BY DEF TypeInv, TypeOK, ForgetLease
<1>2. \A m \in Leases \ {l} : leased[m] # i
  BY NilAssumption DEF Owned
<1>3. \A c \in Buckets : i \notin Idle(c)
  BY DEF Owned
<1>4. \A m, k \in Leases : leased'[m] = leased'[k] /\ m # k => leased'[m] = Nil
  BY <1>1 DEF Owned
<1>5. \A m \in Leases, c \in Buckets : leased'[m] \notin Idle(c)'
  <2> SUFFICES ASSUME NEW m \in Leases, NEW c \in Buckets, leased'[m] \in Idle(c)'
               PROVE  FALSE
    OBVIOUS
  <2>1. contents'[c] \in Seq(Items)
    BY DEF TypeInv, TypeOK
  <2>2. Idle(c)' \subseteq Items
    BY <2>1 DEF Idle
  <2>3. leased'[m] \in Items /\ m # l
    BY <1>1, <2>2, NilAssumption
  <2> QED
    BY <1>1, <1>2, <2>3 DEF Owned
<1>6. \A c, d \in Buckets : \A j \in Items : j \in Idle(c)' /\ j \in Idle(d)' => c = d
  BY DEF Owned
<1>7. \A c \in Buckets, j \in Items : j \in Idle(c)' => Alive(c)' /\ info'[j] # Nil
  BY DEF Owned
<1>8. \A m \in Leases, j \in Items : leased'[m] = j => info'[j] # Nil
  BY <1>1, <1>2, NilAssumption DEF Owned
<1>9. \A j \in Items : info'[j] # Nil =>
          \/ j \in leaked'
          \/ \E m \in Leases : leased'[m] = j
          \/ \E c \in Buckets : j \in Idle(c)'
  <2> SUFFICES ASSUME NEW j \in Items, info'[j] # Nil, j # i
               PROVE  \/ j \in leaked'
                      \/ \E m \in Leases : leased'[m] = j
                      \/ \E c \in Buckets : j \in Idle(c)'
    <3>1. info'[i] # Nil => i \notin gone
      OBVIOUS
    <3> QED
      BY <3>1
  <2>1. j \notin gone /\ info[j] # Nil
    OBVIOUS
  <2>2. \/ j \in leaked
        \/ \E m \in Leases : leased[m] = j
        \/ \E c \in Buckets : j \in Idle(c)
    BY <2>1 DEF Owned
  <2>3. \A m \in Leases : leased[m] = j => m # l
    OBVIOUS
  <2> QED
    BY <1>1, <2>1, <2>2, <2>3
<1> QED
  BY <1>4, <1>5, <1>6, <1>7, <1>8, <1>9 DEF Owned
\* Items of buckets that the pool lets go of are gone.
LEMMA OwnedRetain ==
    ASSUME TypeInv, Owned, NEW keys \in SUBSET DOMAIN buckets, NEW keep, Retain(keys, keep),
           UNCHANGED <<leased, home, returning, leaked>>
    PROVE  Owned'
<1>1. TypeOK
  BY DEF TypeInv
<1>2. /\ DOMAIN buckets' = keys /\ \A k \in keys : buckets'[k] = buckets[k]
      /\ \A b \in Buckets : Once(b) => Once(b)'
      /\ \A b \in Buckets : Idle(b)' \subseteq Items
      /\ \A b \in Buckets, i \in Items :
           i \in Idle(b)' <=> i \in Idle(b) /\ Stays(keys, keep, b, i)
      /\ \A i \in Items :
           info'[i] = IF \E b \in Buckets : i \in Idle(b) /\ ~Stays(keys, keep, b, i)
                        THEN Nil ELSE info[i]
  BY <1>1, RetainKeeps
<1>3. ASSUME NEW b \in Buckets, NEW i \in Items, Stays(keys, keep, b, i), Alive(b)
      PROVE  Alive(b)'
  <2>1. CASE \E k \in keys : b = buckets[k]
    <3>1. b \in Range(buckets')
      BY <1>2, <2>1 DEF Range
    <3> QED
      BY <3>1 DEF Alive
  <2>2. CASE Held(b)
    BY <2>2 DEF Held, Alive
  <2>3. CASE b \notin Range(buckets)
    BY <1>3, <2>3 DEF Alive
  <2> QED
    BY <1>3, <2>1, <2>2, <2>3 DEF Stays
<1>4. \A b \in Buckets, i \in Items : i \in Idle(b)' => i \in Idle(b)
  BY <1>2
<1>5. \A l \in Leases, b \in Buckets : leased'[l] \notin Idle(b)'
  <2> SUFFICES ASSUME NEW l \in Leases, NEW b \in Buckets, leased'[l] \in Idle(b)'
               PROVE  FALSE
    OBVIOUS
  <2>1. leased[l] \in Idle(b)' /\ leased[l] \in Items
    BY <1>2
  <2> QED
    BY <1>4, <2>1 DEF Owned
<1>6. \A b \in Buckets, i \in Items : i \in Idle(b)' => Alive(b)' /\ info'[i] # Nil
  <2> SUFFICES ASSUME NEW b \in Buckets, NEW i \in Items, i \in Idle(b)'
               PROVE  Alive(b)' /\ info'[i] # Nil
    OBVIOUS
  <2>1. i \in Idle(b) /\ Stays(keys, keep, b, i)
    BY <1>2
  <2>2. Alive(b) /\ info[i] # Nil /\ \A c \in Buckets : i \in Idle(c) => c = b
    BY <2>1 DEF Owned
  <2> QED
    BY <1>2, <1>3, <2>1, <2>2
<1>7. \A l \in Leases, i \in Items : leased'[l] = i => info'[i] # Nil
  BY <1>2 DEF Owned
<1>8. \A i \in Items : info'[i] # Nil =>
         \/ i \in leaked'
         \/ \E l \in Leases : leased'[l] = i
         \/ \E b \in Buckets : i \in Idle(b)'
  BY <1>2 DEF Owned
<1>9. \A b, c \in Buckets : \A i \in Items : i \in Idle(b)' /\ i \in Idle(c)' => b = c
  BY <1>4 DEF Owned
<1>10. \A l, m \in Leases : leased'[l] = leased'[m] /\ l # m => leased'[l] = Nil
  BY DEF Owned
<1>11. \A b \in Buckets : Once(b)'
  BY <1>2 DEF Owned
<1> QED
  BY <1>5, <1>6, <1>7, <1>8, <1>9, <1>10, <1>11 DEF Owned
LEMMA OwnedStep == TypeInv /\ Owned /\ [Next]_vars => Owned'
<1> SUFFICES ASSUME TypeInv, Owned, [Next]_vars
             PROVE  Owned'
  OBVIOUS
<1>1. TypeInv' /\ TypeOK
  BY TypeStep DEF TypeInv
<1>2. CASE UNCHANGED vars
  <2>1. UNCHANGED <<leased, home, returning, buckets, info, contents, leaked>>
    BY <1>2 DEF vars, leaseVars
  <2>2. \A b \in Buckets : Alive(b) => Alive(b)'
    BY <2>1 DEF Alive
  <2> QED
    BY <2>1, <2>2, OwnedFrame
<1>3. ASSUME NEW wish \in Infos, NEW b \in Buckets, NEW l \in Leases, ResourceHit(wish, b, l)
      PROVE  Owned'
  <2>1. /\ WithBucket(wish, b) /\ info' = info
        /\ \A c \in Buckets \ {b} : Idle(c)' = Idle(c) /\ (Once(c) => Once(c)')
        /\ \E i \in Items :
             /\ i \in Idle(b) /\ Lend(wish, b, i, l)
             /\ Idle(b)' \subseteq Idle(b) /\ Idle(b) \ {i} \subseteq Idle(b)'
             /\ Once(b) => Once(b)' /\ i \notin Idle(b)'
    BY <1>1, <1>3, HitTakes
  <2>2. PICK i \in Items :
             /\ i \in Idle(b) /\ Lend(wish, b, i, l)
             /\ Idle(b)' \subseteq Idle(b) /\ Idle(b) \ {i} \subseteq Idle(b)'
             /\ Once(b) => Once(b)' /\ i \notin Idle(b)'
    BY <2>1
  <2>3. Range(buckets) \subseteq Range(buckets')
    BY <1>1, <2>1, WithBucketMakes
  <2>4. info'[i] # Nil /\ \A m \in Leases : leased[m] # i
    BY <2>1, <2>2 DEF Owned
  <2>5. \A c \in Buckets : Idle(c)' \subseteq Idle(c) /\ i \notin Idle(c)'
                           /\ Idle(c) \ {i} \subseteq Idle(c)' /\ Once(c)'
    BY <2>1, <2>2 DEF Owned
  <2> QED
    BY <2>1, <2>2, <2>3, <2>4, <2>5, OwnedLend
<1>4. ASSUME NEW wish \in Infos, NEW b \in Buckets, NEW l \in Leases, ResourceMiss(wish, b, l)
      PROVE  Owned'
  <2>1. WithBucket(wish, b) /\ contents' = contents
    BY <1>4 DEF ResourceMiss
  <2>2. PICK i \in Items :
          info[i] = Nil /\ Lend(wish, b, i, l) /\ info' = [info EXCEPT ![i] = wish]
    BY <1>4 DEF ResourceMiss
  <2>3. Range(buckets) \subseteq Range(buckets')
    BY <1>1, <2>1, WithBucketMakes
  <2>4. info'[i] = wish /\ wish # Nil /\ \A j \in Items \ {i} : info'[j] = info[j]
    BY <1>1, <2>2, NilAssumption DEF TypeOK
  <2>5. (\A m \in Leases : leased[m] # i) /\ \A c \in Buckets : i \notin Idle(c)
    BY <2>2 DEF Owned
  <2>6. \A c \in Buckets : Idle(c)' = Idle(c) /\ (Once(c) => Once(c)')
    BY <2>1 DEF Idle, Once
  <2>7. \A c \in Buckets : Idle(c)' \subseteq Idle(c) /\ i \notin Idle(c)'
                           /\ Idle(c) \ {i} \subseteq Idle(c)' /\ Once(c)'
    BY <2>5, <2>6 DEF Owned
  <2> QED
    BY <2>2, <2>3, <2>4, <2>5, <2>7, OwnedLend
<1>5. ASSUME NEW wish \in Infos, NEW b \in Buckets, ResourceFails(wish, b)
      PROVE  Owned'
  <2>1. WithBucket(wish, b) /\ UNCHANGED <<leased, home, returning, info, contents, leaked>>
    BY <1>5 DEF ResourceFails, leaseVars
  <2>2. Range(buckets) \subseteq Range(buckets')
    BY <1>1, <2>1, WithBucketMakes
  <2>3. \A c \in Buckets : Alive(c) => Alive(c)'
    BY <2>1, <2>2 DEF Alive
  <2> QED
    BY <2>1, <2>3, OwnedFrame
<1>6. ASSUME NEW tag \in Tags, NEW wish \in Infos, CacheRequest(tag, wish)
      PROVE  Owned'
  <2>1. UNCHANGED <<leased, home, returning, buckets, info, contents, leaked>>
    BY <1>6 DEF CacheRequest, leaseVars
  <2>2. \A b \in Buckets : Alive(b) => Alive(b)'
    BY <2>1 DEF Alive
  <2> QED
    BY <2>1, <2>2, OwnedFrame
<1>7. CASE CacheHit
  <2>1. UNCHANGED <<leased, home, returning, buckets, info, contents, leaked>>
    BY <1>7 DEF CacheHit
  <2>2. \A b \in Buckets : Alive(b) => Alive(b)'
    BY <2>1 DEF Alive
  <2> QED
    BY <2>1, <2>2, OwnedFrame
<1>8. ASSUME NEW keys \in SUBSET DOMAIN buckets, Clear(keys)
      PROVE  Owned'
  BY <1>8, OwnedRetain DEF Clear, leaseVars
<1>9. CASE Collect
  <2>1. PICK keys \in SUBSET DOMAIN buckets, keep \in SUBSET Items :
          Retain(keys, keep) /\ UNCHANGED <<leaseVars, returning, leaked>>
    BY <1>9, Zenon DEF Collect
  <2> QED
    BY <2>1, OwnedRetain DEF leaseVars
<1>10. CASE DropPool
  BY <1>10, OwnedRetain DEF DropPool, leaseVars
<1>11. ASSUME NEW l \in Leases, DropClone(l)
       PROVE  Owned'
  <2>1. UNCHANGED <<leased, home, returning, buckets, info, contents, leaked>>
    BY <1>11 DEF DropClone
  <2>2. \A b \in Buckets : Alive(b) => Alive(b)'
    BY <2>1 DEF Alive
  <2> QED
    BY <2>1, <2>2, OwnedFrame
<1>12. ASSUME NEW l \in Leases, Upgrade(l)
       PROVE  Owned'
  <2>1. UNCHANGED <<leased, home, buckets, info, contents, leaked>>
        /\ \A m \in Leases : returning[m] => returning'[m]
    BY <1>1, <1>12 DEF Upgrade, TypeOK
  <2>2. \A b \in Buckets : Alive(b) => Alive(b)'
    BY <2>1 DEF Alive
  <2> QED
    BY <2>1, <2>2, OwnedFrame
<1>13. ASSUME NEW l \in Leases, DropPanicking(l) \/ DropOrphan(l)
       PROVE  Owned'
  <2>1. clones[l] = 1 /\ ForgetLease(l) /\ UNCHANGED <<buckets, contents, returning>>
    BY <1>13 DEF DropPanicking, DropOrphan
  <2>2. leased[l] # Nil /\ ~returning[l]
    BY <2>1 DEF TypeInv, LeasesHeld
  <2>3. PICK i \in Items : i = leased[l]
    BY <1>1, <2>2 DEF TypeOK
  <2>4. \A c \in Buckets : Idle(c)' = Idle(c) /\ (Once(c) => Once(c)') /\ i \notin Idle(c)
    BY <2>1, <2>3 DEF Idle, Once, Owned
  <2>5. \A m \in Leases \ {l} : home'[m] = home[m] /\ returning'[m] = returning[m]
    BY <1>1, <2>1 DEF ForgetLease, TypeOK
  <2>6. \A b \in Buckets : Alive(b) => Alive(b)'
    BY <2>1, <2>2, <2>5 DEF Alive
  <2>7. PICK gone : gone = IF DropPanicking(l) THEN {} ELSE {i}
    OBVIOUS
  <2>8. \A j \in Items : info'[j] = IF j \in gone THEN Nil ELSE info[j]
    BY <1>1, <1>13, <2>3, <2>7 DEF DropPanicking, DropOrphan, TypeOK
  <2>9. leaked \subseteq leaked' /\ (i \in gone \/ i \in leaked')
    BY <1>13, <2>3, <2>7 DEF DropPanicking, DropOrphan
  <2>10. gone \subseteq {i}
    BY <2>7
  <2>11. \A c \in Buckets, j \in Items : j \in Idle(c)' => j \notin gone /\ Alive(c)'
    BY <2>4, <2>6, <2>10 DEF Owned
  <2>12. \A c \in Buckets : Once(c)'
    BY <2>4 DEF Owned
  <2> QED
    BY <1>1, <2>1, <2>3, <2>4, <2>8, <2>9, <2>10, <2>11, <2>12, OwnedForget
<1>14. ASSUME NEW l \in Leases, Return(l)
       PROVE  Owned'
  <2>1. /\ returning[l] /\ returning' = [returning EXCEPT ![l] = FALSE] /\ ForgetLease(l)
        /\ UNCHANGED <<buckets, leaked>>
    BY <1>14 DEF Return
  <2>2. leased[l] \in Items /\ home[l] \in Buckets
    BY <1>1, <2>1 DEF TypeInv, TypeOK, LeasesHeld
  <2>3. PICK b \in Buckets, i \in Items : Returns(l, i, b)
    BY <1>14, <2>2 DEF Returns
  <2>4. /\ \A c \in Buckets \ {b} : Idle(c)' = Idle(c) /\ (Once(c) => Once(c)')
        /\ Idle(b)' \subseteq Idle(b) \cup {i}
        /\ Once(b) /\ i \notin Idle(b) => Once(b)'
        /\ Idle(b)' # {} => b \in Range(buckets) \/ \E m \in Leases \ {l} : returning[m] /\ home[m] = b
        /\ \A j \in Items : info'[j] = IF j \in (Idle(b) \cup {i}) \ Idle(b)' THEN Nil ELSE info[j]
    BY <2>3, ReturnKeeps
  <2>5. PICK gone : gone = (Idle(b) \cup {i}) \ Idle(b)'
    OBVIOUS
  <2>6. \A c \in Buckets : i \notin Idle(c)
    BY <2>3 DEF Returns, Owned
  <2>7. \A m \in Leases \ {l} : home'[m] = home[m] /\ returning'[m] = returning[m]
    BY <1>1, <2>1 DEF ForgetLease, TypeOK
  <2>8. \A c \in Buckets \ {b} : Alive(c) => Alive(c)'
    BY <2>1, <2>3, <2>7 DEF Returns, Alive
  <2>9. Idle(b)' # {} => Alive(b)'
    BY <2>1, <2>4, <2>7 DEF Alive
  <2>10. \A c \in Buckets, j \in Items : j \in Idle(c)' => j \notin gone /\ Alive(c)'
    BY <2>4, <2>5, <2>6, <2>8, <2>9 DEF Owned
  <2>11. \A c \in Buckets, j \in Items : j \in Idle(c) => j \in gone \/ j \in Idle(c)'
    BY <2>4, <2>5
  <2>12. \A c, d \in Buckets : i \in Idle(c)' /\ i \in Idle(d)' => c = d
    BY <2>4, <2>6
  <2>13. \A c \in Buckets : Once(c)'
    BY <2>4, <2>6 DEF Owned
  <2>14. \A c \in Buckets, j \in Items : j \in Idle(c)' => j = i \/ j \in Idle(c)
    BY <2>4
  <2>15. \A j \in Items : info'[j] = IF j \in gone THEN Nil ELSE info[j]
    BY <2>4, <2>5
  <2>16. (\A j \in gone : j = i \/ \E c \in Buckets : j \in Idle(c))
         /\ (i \in gone \/ \E c \in Buckets : i \in Idle(c)')
    BY <2>5
  <2>17. leased[l] = i /\ leaked \subseteq leaked'
    BY <2>1, <2>3 DEF Returns
  <2> QED
    BY <1>1, <2>1, <2>10, <2>11, <2>12, <2>13, <2>14, <2>15, <2>16, <2>17, OwnedForget
<1> QED
  BY <1>1, <1>2, <1>3, <1>4, <1>5, <1>6, <1>7, <1>8, <1>9, <1>10, <1>11, <1>12, <1>13,
     <1>14, Steps

\* "A freshly obtained resource is guaranteed to have no other owners", whatever the
\* pool, and no item is lost but by a panic.
THEOREM OneOwnerEach == Spec => []OneOwner
<1>1. TypeInv /\ Owned => OneOwner
  <2> SUFFICES ASSUME TypeInv, Owned
               PROVE  OneOwner
    OBVIOUS
  <2>1. \A b \in Buckets : contents[b] \in Seq(Items)
    BY DEF TypeInv, TypeOK
  <2>2. \A b \in Buckets : /\ Idle(b) = Range(contents[b]) /\ Idle(b) \subseteq Items
                           /\ contents[b] # <<>> => \E i \in Items : i \in Idle(b)
    <3> SUFFICES ASSUME NEW b \in Buckets
                 PROVE  /\ Idle(b) = Range(contents[b]) /\ Idle(b) \subseteq Items
                        /\ contents[b] # <<>> => \E i \in Items : i \in Idle(b)
      OBVIOUS
    <3>1. Idle(b) = Range(contents[b])
      BY DEF Idle, Range
    <3>2. Idle(b) \subseteq Items
      BY <2>1 DEF Idle
    <3>3. ASSUME contents[b] # <<>>
          PROVE  1 \in DOMAIN contents[b]
      BY <2>1, <3>3
    <3> QED
      BY <3>1, <3>2, <3>3 DEF Idle
  <2>3. \A b \in Buckets : \A n \in DOMAIN contents[b] :
          contents[b][n] \in Items /\ contents[b][n] \in Idle(b)
    BY <2>2 DEF Idle
  <2>4. \A b, c \in Buckets : \A n \in DOMAIN contents[b], m \in DOMAIN contents[c] :
          contents[b][n] = contents[c][m] => b = c /\ n = m
    <3> SUFFICES ASSUME NEW b \in Buckets, NEW c \in Buckets, NEW n \in DOMAIN contents[b],
                        NEW m \in DOMAIN contents[c], contents[b][n] = contents[c][m]
                 PROVE  b = c /\ n = m
      OBVIOUS
    <3>1. b = c
      BY <2>3 DEF Owned
    <3> QED
      BY <3>1 DEF Owned, Once, Distinct
  <2>5. \A l, m \in InUse : l # m => leased[l] # leased[m]
    BY DEF InUse, Owned
  <2>6. \A l \in InUse, b \in Buckets : leased[l] \notin Range(contents[b])
    BY <2>2 DEF InUse, Owned
  <2>7. \A b \in Buckets : contents[b] # <<>> => Alive(b)
    BY <2>2 DEF Owned
  <2>8. \A i \in Items : info[i] # Nil =>
         \/ i \in leaked
         \/ \E l \in InUse : leased[l] = i
         \/ \E b \in Buckets : i \in Range(contents[b])
    BY <2>2, NilAssumption DEF InUse, Owned
  <2> QED
    BY <2>4, <2>5, <2>6, <2>7, <2>8 DEF OneOwner
<1> QED
  BY TypeInit, TypeStep, OwnedInit, OwnedStep, <1>1, PTL DEF Spec

-----------------------------------------------------------------------------
(* Keys and compatibility                                                  *)

\* The pools find out what they compare only in requests that say what they need in
\* the attributes they look at: FifoPool and LazyPool ignore the host access of images,
\* and LazyPool takes the number of sets for the number of samplers.
Compared ==
    /\ \A wish \in Infos : wish.kind = "image" => wish.access = {} \/ Strategies \subseteq {"hash"}
    /\ \A wish \in Infos : wish.kind = "descriptors" =>
                             wish.samplers <= wish.size \/ "lazy" \notin Strategies

LEMMA KeyKind ==
    ASSUME strategy \in Strategies, NEW wish \in Infos
    PROVE  Key(wish).kind = wish.kind
BY InfosAssumption, StrategyAssumption DEF Key, Kinds, Managed

\* Of the same key and compatible is good for the request.

LEMMA CompatibleSatisfies ==
    ASSUME strategy \in Strategies, Compared, NEW item \in Infos, NEW wish \in Infos,
           Key(item) = Key(wish), Compatible(item, wish)
    PROVE  Satisfies(item, wish)
<1>1. item.kind = wish.kind
  BY KeyKind
<1>2. strategy \in {"fifo", "hash", "lazy"}
  BY StrategyAssumption
<1>3. /\ item = [kind |-> item.kind, exact |-> item.exact, size |-> item.size,
                 access |-> item.access, samplers |-> item.samplers]
      /\ wish = [kind |-> wish.kind, exact |-> wish.exact, size |-> wish.size,
                 access |-> wish.access, samplers |-> wish.samplers]
      /\ item.size \in Nat /\ wish.size \in Nat
      /\ item.samplers \in Nat /\ wish.samplers \in Nat
  BY InfosAssumption
<1>4. CASE wish.kind = "command"
  <2>1. item.size = 0 /\ wish.size = 0 /\ wish.access = {} /\ item.samplers = 0 /\ wish.samplers = 0
    BY <1>1, <1>4, InfosAssumption DEF Managed
  <2>2. item.exact = wish.exact
    BY <1>1, <1>3, <1>4 DEF Key
  <2> QED
    BY <1>1, <2>1, <2>2 DEF Satisfies
<1>5. CASE wish.kind # "command" /\ strategy = "hash"
  <2>1. item = wish
    BY <1>1, <1>5 DEF Key
  <2> QED
    BY <1>3, <2>1 DEF Satisfies
<1>6. CASE wish.kind = "buffer" /\ strategy # "hash"
  <2>1. BufferCompatible(item, wish, strategy = "lazy")
    BY <1>6 DEF Compatible
  <2>2. item.samplers = 0 /\ wish.samplers = 0
    BY <1>1, <1>6, InfosAssumption
  <2> QED
    BY <1>1, <2>1, <2>2 DEF BufferCompatible, AtLeast, Satisfies
<1>7. CASE wish.kind = "image" /\ strategy # "hash"
  <2>1. ImageCompatible(item, wish)
    BY <1>7 DEF Compatible
  <2>2. item.samplers = 0 /\ wish.samplers = 0
    BY <1>1, <1>7, InfosAssumption
  <2>3. wish.access = {}
    BY <1>7 DEF Compared
  <2> QED
    BY <1>1, <2>1, <2>2, <2>3 DEF ImageCompatible, AtLeast, Satisfies
<1>8. CASE wish.kind = "descriptors" /\ strategy # "hash"
  <2>1. DescriptorsCompatible(item, wish)
    BY <1>8 DEF Compatible
  <2>2. wish.access = {}
    BY <1>8, InfosAssumption DEF Managed
  <2>3. wish.samplers <= wish.size \/ strategy # "lazy"
    BY <1>8 DEF Compared
  <2> QED
    BY <1>1, <1>3, <2>1, <2>2, <2>3 DEF DescriptorsCompatible, AtLeast, Satisfies
<1>9. wish.kind \in {"command", "buffer", "image", "descriptors"}
  BY InfosAssumption DEF Kinds, Managed
<1> QED
  BY <1>4, <1>5, <1>6, <1>7, <1>8, <1>9

LEMMA CompatibleWithItself ==
    ASSUME strategy \in Strategies, NEW wish \in Infos, wish.kind \in Managed
    PROVE  Compatible(wish, wish)
<1>1. wish.size \in Nat
  BY InfosAssumption
<1>2. CASE strategy = "hash"
  BY <1>2 DEF Compatible
<1>3. CASE strategy # "hash" /\ wish.kind = "buffer"
  BY <1>1, <1>3 DEF Compatible, BufferCompatible, AtLeast
<1>4. CASE strategy # "hash" /\ wish.kind = "image"
  BY <1>1, <1>4 DEF Compatible, ImageCompatible, AtLeast
<1> QED
  BY <1>2, <1>3, <1>4 DEF Managed

\* What an item is good for, everything that asks for less is.

LEMMA SatisfiesLess ==
    ASSUME NEW item \in Infos, NEW lent \in Infos, NEW wish \in Infos,
           Satisfies(item, lent), CacheCompatible(lent, wish), wish.kind \in Managed
    PROVE  Satisfies(item, wish)
<1>1. lent.samplers = 0 /\ wish.samplers = 0 /\ item.samplers \in Nat
      /\ item.size \in Nat /\ lent.size \in Nat /\ wish.size \in Nat
  BY InfosAssumption DEF CacheCompatible, Managed
<1> QED
  BY <1>1 DEF Satisfies, CacheCompatible, AtLeast
-----------------------------------------------------------------------------
(* What is true of a pool that lends                                       *)

\* Every bucket has a key of its own, the key of the items in it and of those that
\* will go back to it.
Keyed ==
    /\ \A j, k \in DOMAIN buckets : buckets[j] = buckets[k] => j = k
    /\ \A k \in DOMAIN buckets : \A b \in Buckets, i \in Items, item \in Infos :
         buckets[k] = b /\ i \in Idle(b) /\ info[i] = item => Key(item) = k
    /\ \A k \in DOMAIN buckets : \A l \in Leases, i \in Items, item \in Infos :
         home[l] = buckets[k] /\ leased[l] = i /\ info[i] = item => Key(item) = k

\* A bucket keeps the capacity it was made with, and does not outgrow it.
Bounded ==
    \A k \in DOMAIN buckets : \A b \in Buckets :
        buckets[k] = b => room[b] = BucketCapacity(k.kind) /\ Len(contents[b]) <= room[b]

\* The aliases noted for a tag.
Noted(t) == {aliases[t][n] : n \in DOMAIN aliases[t]}

\* A lease is good for what it is wanted for, and wanted for what its aliases say.
Fitting ==
    /\ \A l \in Leases, i \in Items, item \in Infos, wish \in Infos :
         leased[l] = i /\ info[i] = item /\ wish \in wanted[l] => Satisfies(item, wish)
    /\ \A t \in Tags : \A a \in [info : Infos, lease : Leases] :
         a \in Noted(t) /\ clones[a.lease] > 0 => a.info \in wanted[a.lease]
    /\ lookup # Nil => lookup.info.kind \in Managed

\* A request since the last collection is the reason that an item was lent.
Asked ==
    \A i \in served : \A item \in Infos : info[i] = item /\ item.kind \in Managed =>
        \E wish \in requests : Key(wish) = Key(item) /\ Compatible(item, wish)

-----------------------------------------------------------------------------
(* Keys and capacities of buckets                                          *)

\* Buckets, items and leases may go, nothing comes or moves.
Quiet ==
    /\ strategy' = strategy /\ room' = room
    /\ \A k \in DOMAIN buckets' : k \in DOMAIN buckets /\ buckets'[k] = buckets[k]
    /\ \A b \in Buckets : Len(contents'[b]) <= Len(contents[b]) /\ Idle(b)' \subseteq Idle(b)
    /\ \A l \in Leases : leased'[l] \in {leased[l], Nil} /\ home'[l] \in {home[l], Nil}
    /\ \A i \in Items : info'[i] \in {info[i], Nil}

LEMMA QuietFrame ==
    ASSUME TypeInv, UNCHANGED <<strategy, buckets, contents, room>>,
           \A l \in Leases : leased'[l] \in {leased[l], Nil} /\ home'[l] \in {home[l], Nil},
           \A i \in Items : info'[i] \in {info[i], Nil}
    PROVE  Quiet
<1>1. ASSUME NEW b \in Buckets
      PROVE  Len(contents'[b]) <= Len(contents[b]) /\ Idle(b)' = Idle(b)
  <2>1. contents[b] \in Seq(Items) /\ contents'[b] = contents[b]
    BY DEF TypeInv, TypeOK
  <2>2. Len(contents[b]) \in Nat
    BY <2>1
  <2> QED
    BY <2>1, <2>2 DEF Idle
<1> QED
  BY <1>1 DEF Quiet

LEMMA QuietRetain ==
    ASSUME TypeInv, NEW keys \in SUBSET DOMAIN buckets, NEW keep, Retain(keys, keep),
           UNCHANGED <<strategy, room, leased, home>>
    PROVE  Quiet
<1>1. TypeOK
  BY DEF TypeInv
<1>2. /\ DOMAIN buckets' = keys /\ \A k \in keys : buckets'[k] = buckets[k]
      /\ \A b \in Buckets : Len(contents'[b]) <= Len(contents[b])
      /\ \A b \in Buckets : Idle(b)' \subseteq Items
      /\ \A b \in Buckets, i \in Items :
           i \in Idle(b)' <=> i \in Idle(b) /\ Stays(keys, keep, b, i)
      /\ \A i \in Items :
           info'[i] = IF \E b \in Buckets : i \in Idle(b) /\ ~Stays(keys, keep, b, i)
                        THEN Nil ELSE info[i]
  BY <1>1, RetainKeeps
<1> QED
  BY <1>2 DEF Quiet

\* Only lending and giving back put items into leases and buckets.

LEMMA QuietSteps ==
    ASSUME TypeInv, [Next]_vars
    PROVE  \/ Quiet
           \/ \E wish \in Infos, b \in Buckets, l \in Leases :
                ResourceHit(wish, b, l) \/ ResourceMiss(wish, b, l)
           \/ \E wish \in Infos, b \in Buckets : ResourceFails(wish, b)
           \/ \E l \in Leases, i \in Items, b \in Buckets : Returns(l, i, b)
<1>1. TypeOK
  BY DEF TypeInv
<1>2. CASE UNCHANGED vars
  BY <1>2, QuietFrame DEF vars, poolVars, leaseVars
<1>3. CASE CacheHit \/ (\E tag \in Tags, wish \in Infos : CacheRequest(tag, wish))
  BY <1>3, QuietFrame DEF CacheHit, CacheRequest, poolVars, leaseVars
<1>4. ASSUME NEW keys \in SUBSET DOMAIN buckets, Clear(keys)
      PROVE  Quiet
  BY <1>4, QuietRetain DEF Clear, poolVars, leaseVars
<1>5. CASE Collect
  <2>1. PICK keys \in SUBSET DOMAIN buckets, keep \in SUBSET Items :
          Retain(keys, keep) /\ UNCHANGED <<poolVars, room, leaseVars>>
    BY <1>5, Zenon DEF Collect
  <2> QED
    BY <2>1, QuietRetain DEF poolVars, leaseVars
<1>6. CASE DropPool
  BY <1>6, QuietRetain DEF DropPool, leaseVars
<1>7. ASSUME NEW l \in Leases, DropClone(l) \/ Upgrade(l)
      PROVE  Quiet
  BY <1>7, QuietFrame DEF DropClone, Upgrade, poolVars
<1>8. ASSUME NEW l \in Leases, DropPanicking(l) \/ DropOrphan(l)
      PROVE  Quiet
  <2>1. UNCHANGED <<strategy, buckets, contents, room>> /\ ForgetLease(l)
    BY <1>8 DEF DropPanicking, DropOrphan, poolVars
  <2>2. \A m \in Leases : leased'[m] \in {leased[m], Nil} /\ home'[m] \in {home[m], Nil}
    BY <1>1, <2>1 DEF ForgetLease, TypeOK
  <2>3. \A i \in Items : info'[i] \in {info[i], Nil}
    BY <1>1, <1>8 DEF DropPanicking, DropOrphan, TypeOK
  <2> QED
    BY <2>1, <2>2, <2>3, QuietFrame
<1>9. ASSUME NEW l \in Leases, Return(l)
      PROVE  \E i \in Items, b \in Buckets : Returns(l, i, b)
  <2>1. returning[l]
    BY <1>9 DEF Return
  <2>2. leased[l] \in Items /\ home[l] \in Buckets
    BY <2>1 DEF TypeInv, TypeOK, LeasesHeld
  <2> QED
    BY <1>9, <2>2 DEF Returns
<1> QED
  BY <1>1, <1>2, <1>3, <1>4, <1>5, <1>6, <1>7, <1>8, <1>9, Steps

LEMMA KeysStay ==
    ASSUME strategy' = strategy
    PROVE  \A wish \in Infos : Key(wish)' = Key(wish)
BY DEF Key

\* With the bucket of a request, old or new, every bucket has its key.
KeyedThen ==
    /\ \A j, k \in DOMAIN buckets' : buckets'[j] = buckets'[k] => j = k
    /\ \A k \in DOMAIN buckets' : \A b \in Buckets, i \in Items, item \in Infos :
         buckets'[k] = b /\ i \in Idle(b) /\ info[i] = item => Key(item) = k
    /\ \A k \in DOMAIN buckets' : \A l \in Leases, i \in Items, item \in Infos :
         home[l] = buckets'[k] /\ leased[l] = i /\ info[i] = item => Key(item) = k

LEMMA KeyedBucket ==
    ASSUME TypeInv, Owned, Keyed, NEW wish \in Infos, NEW b \in Buckets, WithBucket(wish, b)
    PROVE  KeyedThen
<1>1. TypeOK
  BY DEF TypeInv
<1>2. /\ DOMAIN buckets' = DOMAIN buckets \cup {Key(wish)}
      /\ \A k \in DOMAIN buckets : buckets'[k] = buckets[k]
      /\ buckets'[Key(wish)] = b
      /\ Key(wish) \notin DOMAIN buckets => ~Alive(b) /\ \A l \in Leases : home[l] # b
  BY <1>1, WithBucketMakes
<1>3. PICK key : key = Key(wish)
  OBVIOUS
<1>4. CASE key \in DOMAIN buckets
  <2>1. DOMAIN buckets' = DOMAIN buckets
    BY <1>2, <1>3, <1>4
  <2> QED
    BY <1>2, <2>1 DEF Keyed, KeyedThen
<1>5. CASE key \notin DOMAIN buckets
  <2>1. ~Alive(b) /\ \A l \in Leases : home[l] # b
    BY <1>2, <1>3, <1>5
  <2>2. \A k \in DOMAIN buckets : buckets[k] # b
    BY <2>1 DEF Alive, Range
  <2>3. \A i \in Items : i \notin Idle(b)
    BY <2>1 DEF Owned
  <2>4. \A k \in DOMAIN buckets' : k = key \/ (k \in DOMAIN buckets /\ buckets'[k] = buckets[k])
    BY <1>2, <1>3
  <2>5. \A j, k \in DOMAIN buckets' : buckets'[j] = buckets'[k] => j = k
    BY <1>2, <1>3, <2>2, <2>4 DEF Keyed
  <2>6. \A k \in DOMAIN buckets' : \A c \in Buckets, i \in Items, item \in Infos :
          buckets'[k] = c /\ i \in Idle(c) /\ info[i] = item => Key(item) = k
    BY <1>2, <1>3, <2>3, <2>4 DEF Keyed
  <2>7. \A k \in DOMAIN buckets' : \A l \in Leases, i \in Items, item \in Infos :
          home[l] = buckets'[k] /\ leased[l] = i /\ info[i] = item => Key(item) = k
    BY <1>2, <1>3, <2>1, <2>4 DEF Keyed
  <2> QED
    BY <2>5, <2>6, <2>7 DEF KeyedThen
<1> QED
  BY <1>4, <1>5

LEMMA KeyedInit == Init => Keyed
<1> SUFFICES ASSUME Init
             PROVE  Keyed
  OBVIOUS
<1>1. DOMAIN buckets = {}
  BY DEF Init
<1> QED
  BY <1>1 DEF Keyed

LEMMA KeyedStep == TypeInv /\ Owned /\ Keyed /\ [Next]_vars => Keyed'
<1> SUFFICES ASSUME TypeInv, Owned, Keyed, [Next]_vars
             PROVE  Keyed'
  OBVIOUS
<1>1. TypeOK /\ TypeOK'
  BY TypeStep DEF TypeInv
<1>2. CASE Quiet
  <2>1. \A wish \in Infos : Key(wish)' = Key(wish)
    BY <1>2, KeysStay DEF Quiet
  <2>2. \A j, k \in DOMAIN buckets' : buckets'[j] = buckets'[k] => j = k
    BY <1>2 DEF Quiet, Keyed
  <2>3. \A k \in DOMAIN buckets' : \A b \in Buckets, i \in Items, item \in Infos :
          buckets'[k] = b /\ i \in Idle(b)' /\ info'[i] = item => Key(item) = k
    BY <1>2, NilAssumption DEF Quiet, Keyed
  <2>4. \A k \in DOMAIN buckets' : buckets'[k] \in Buckets
    BY <1>1 DEF TypeOK, Range
  <2>5. \A k \in DOMAIN buckets' : \A l \in Leases, i \in Items, item \in Infos :
          home'[l] = buckets'[k] /\ leased'[l] = i /\ info'[i] = item => Key(item) = k
    BY <1>2, <2>4, NilAssumption DEF Quiet, Keyed
  <2> QED
    BY <2>1, <2>2, <2>3, <2>5 DEF Keyed
<1>3. ASSUME NEW wish \in Infos, NEW b \in Buckets, NEW l \in Leases, ResourceHit(wish, b, l)
      PROVE  Keyed'
  <2>1. /\ WithBucket(wish, b) /\ info' = info
        /\ \A c \in Buckets \ {b} : Idle(c)' = Idle(c)
        /\ \E i \in Items : i \in Idle(b) /\ Lend(wish, b, i, l) /\ Idle(b)' \subseteq Idle(b)
    BY <1>1, <1>3, HitTakes
  <2>2. PICK i \in Items : i \in Idle(b) /\ Lend(wish, b, i, l) /\ Idle(b)' \subseteq Idle(b)
    BY <2>1
  <2>3. KeyedThen
    BY <2>1, KeyedBucket
  <2>4. /\ leased' = [leased EXCEPT ![l] = i] /\ home' = [home EXCEPT ![l] = b]
        /\ strategy' = strategy
    BY <2>2 DEF Lend, poolVars
  <2>5. leased'[l] = i /\ home'[l] = b
        /\ \A m \in Leases \ {l} : leased'[m] = leased[m] /\ home'[m] = home[m]
    BY <1>1, <2>4 DEF TypeOK
  <2>6. \A w \in Infos : Key(w)' = Key(w)
    BY <2>4, KeysStay
  <2>7. \A k \in DOMAIN buckets' : \A c \in Buckets, j \in Items, item \in Infos :
          buckets'[k] = c /\ j \in Idle(c)' /\ info'[j] = item => Key(item) = k
    BY <2>1, <2>2, <2>3 DEF KeyedThen
  <2>8. \A k \in DOMAIN buckets' : \A m \in Leases, j \in Items, item \in Infos :
          home'[m] = buckets'[k] /\ leased'[m] = j /\ info'[j] = item => Key(item) = k
    BY <2>1, <2>2, <2>3, <2>5 DEF KeyedThen
  <2> QED
    BY <2>3, <2>6, <2>7, <2>8 DEF Keyed, KeyedThen
<1>4. ASSUME NEW wish \in Infos, NEW b \in Buckets, NEW l \in Leases, ResourceMiss(wish, b, l)
      PROVE  Keyed'
  <2>1. WithBucket(wish, b) /\ contents' = contents
    BY <1>4 DEF ResourceMiss
  <2>2. PICK i \in Items :
          info[i] = Nil /\ Lend(wish, b, i, l) /\ info' = [info EXCEPT ![i] = wish]
    BY <1>4 DEF ResourceMiss
  <2>3. KeyedThen
    BY <2>1, KeyedBucket
  <2>4. /\ leased' = [leased EXCEPT ![l] = i] /\ home' = [home EXCEPT ![l] = b]
        /\ strategy' = strategy
    BY <2>2 DEF Lend, poolVars
  <2>5. leased'[l] = i /\ home'[l] = b
        /\ \A m \in Leases \ {l} : leased'[m] = leased[m] /\ home'[m] = home[m]
    BY <1>1, <2>4 DEF TypeOK
  <2>6. \A w \in Infos : Key(w)' = Key(w)
    BY <2>4, KeysStay
  <2>7. info'[i] = wish /\ \A j \in Items \ {i} : info'[j] = info[j]
    BY <1>1, <2>2 DEF TypeOK
  <2>8. \A c \in Buckets : Idle(c)' = Idle(c) /\ i \notin Idle(c)
    BY <2>1, <2>2 DEF Idle, Owned
  <2>9. \A m \in Leases \ {l} : leased'[m] # i
    BY <2>2, <2>5 DEF Owned
  <2>10. \A k \in DOMAIN buckets' : \A c \in Buckets, j \in Items, item \in Infos :
          buckets'[k] = c /\ j \in Idle(c)' /\ info'[j] = item => Key(item) = k
    BY <2>3, <2>7, <2>8 DEF KeyedThen
  <2>11. \A k \in DOMAIN buckets' : b = buckets'[k] => Key(wish) = k
    <3>1. Key(wish) \in DOMAIN buckets' /\ buckets'[Key(wish)] = b
      BY <1>1, <2>1, WithBucketMakes
    <3> QED
      BY <2>3, <3>1 DEF KeyedThen
  <2>12. \A k \in DOMAIN buckets' : \A m \in Leases, j \in Items, item \in Infos :
          home'[m] = buckets'[k] /\ leased'[m] = j /\ info'[j] = item => Key(item) = k
    BY <2>3, <2>5, <2>7, <2>9, <2>11 DEF KeyedThen
  <2> QED
    BY <2>3, <2>6, <2>10, <2>12 DEF Keyed, KeyedThen
<1>5. ASSUME NEW wish \in Infos, NEW b \in Buckets, ResourceFails(wish, b)
      PROVE  Keyed'
  <2>1. WithBucket(wish, b) /\ UNCHANGED <<strategy, leased, home, info, contents>>
    BY <1>5 DEF ResourceFails, poolVars, leaseVars
  <2>2. KeyedThen
    BY <2>1, KeyedBucket
  <2>3. \A w \in Infos : Key(w)' = Key(w)
    BY <2>1, KeysStay
  <2>4. \A c \in Buckets : Idle(c)' = Idle(c)
    BY <2>1 DEF Idle
  <2> QED
    BY <2>1, <2>2, <2>3, <2>4 DEF Keyed, KeyedThen
<1>6. ASSUME NEW l \in Leases, NEW i \in Items, NEW b \in Buckets, Returns(l, i, b)
      PROVE  Keyed'
  <2>1. /\ leased[l] = i /\ home[l] = b /\ ForgetLease(l)
        /\ UNCHANGED <<strategy, buckets>>
    BY <1>6 DEF Returns, Return, poolVars
  <2>2. /\ \A c \in Buckets \ {b} : Idle(c)' = Idle(c)
        /\ Idle(b)' \subseteq Idle(b) \cup {i}
    BY <1>6, ReturnKeeps
  <2>3. \A j \in Items : info'[j] \in {info[j], Nil}
    BY <1>6, ReturnKeeps
  <2>4. leased'[l] = Nil /\ \A m \in Leases \ {l} : leased'[m] = leased[m] /\ home'[m] = home[m]
    BY <1>1, <2>1 DEF ForgetLease, TypeOK
  <2>5. \A w \in Infos : Key(w)' = Key(w)
    BY <2>1, KeysStay
  <2>6. \A k \in DOMAIN buckets' : \A c \in Buckets, j \in Items, item \in Infos :
          buckets'[k] = c /\ j \in Idle(c)' /\ info'[j] = item => Key(item) = k
    BY <2>1, <2>2, <2>3, NilAssumption DEF Keyed
  <2>7. \A k \in DOMAIN buckets' : \A m \in Leases, j \in Items, item \in Infos :
          home'[m] = buckets'[k] /\ leased'[m] = j /\ info'[j] = item => Key(item) = k
    BY <2>1, <2>3, <2>4, NilAssumption DEF Keyed
  <2> QED
    BY <2>1, <2>5, <2>6, <2>7 DEF Keyed
<1> QED
  BY <1>2, <1>3, <1>4, <1>5, <1>6, QuietSteps

LEMMA BoundedInit == Init => Bounded
<1> SUFFICES ASSUME Init
             PROVE  Bounded
  OBVIOUS
<1>1. DOMAIN buckets = {}
  BY DEF Init
<1> QED
  BY <1>1 DEF Bounded

LEMMA BoundedStep == Capacity > 0 /\ TypeInv /\ Owned /\ Bounded /\ [Next]_vars => Bounded'
<1> SUFFICES ASSUME Capacity > 0, TypeInv, Owned, Bounded, [Next]_vars
             PROVE  Bounded'
  OBVIOUS
<1>1. TypeOK /\ TypeOK'
  BY TypeStep DEF TypeInv
<1>2. \A kind : BucketCapacity(kind) \in Nat \ {0}
  BY CapacityAssumption DEF BucketCapacity
<1>3. \A b \in Buckets : room[b] \in Nat /\ Len(contents[b]) \in Nat
                         /\ room'[b] \in Nat /\ Len(contents'[b]) \in Nat
  <2>1. \A s \in Seq(Items) : Len(s) \in Nat
    OBVIOUS
  <2> QED
    BY <1>1, <2>1 DEF TypeOK
<1>4. ASSUME NEW wish \in Infos, NEW b \in Buckets, WithBucket(wish, b),
             \A c \in Buckets : Len(contents'[c]) <= Len(contents[c])
      PROVE  Bounded'
  <2>1. /\ DOMAIN buckets' = DOMAIN buckets \cup {Key(wish)}
        /\ \A k \in DOMAIN buckets : buckets'[k] = buckets[k]
        /\ buckets'[Key(wish)] = b
        /\ \A c \in Buckets \ {b} : room'[c] = room[c]
        /\ Key(wish) \in DOMAIN buckets => room' = room
        /\ Key(wish) \notin DOMAIN buckets => ~Alive(b) /\ room'[b] = BucketCapacity(wish.kind)
    BY <1>1, <1>4, WithBucketMakes
  <2>2. PICK key : key = Key(wish)
    OBVIOUS
  <2>3. key.kind = wish.kind
    BY <1>1, <2>2, KeyKind DEF TypeOK
  <2>4. CASE key \in DOMAIN buckets
    BY <1>3, <1>4, <2>1, <2>2, <2>4 DEF Bounded
  <2>5. CASE key \notin DOMAIN buckets
    <3>1. ~Alive(b) /\ room'[b] = BucketCapacity(wish.kind)
      BY <2>1, <2>2, <2>5
    <3>2. \A k \in DOMAIN buckets : buckets[k] # b
      BY <3>1 DEF Alive, Range
    <3>3. Len(contents[b]) = 0
      <4>1. \A i \in Items : i \notin Idle(b)
        BY <3>1 DEF Owned
      <4>2. contents[b] \in Seq(Items)
        BY <1>1 DEF TypeOK
      <4>3. Len(contents[b]) > 0 => contents[b][1] \in Items /\ 1 \in DOMAIN contents[b]
        BY <4>2
      <4> QED
        BY <1>3, <4>1, <4>3 DEF Idle
    <3>4. Len(contents'[b]) <= room'[b]
      BY <1>2, <1>3, <1>4, <3>1, <3>3
    <3> SUFFICES ASSUME NEW k \in DOMAIN buckets', NEW c \in Buckets, buckets'[k] = c
                 PROVE  room'[c] = BucketCapacity(k.kind) /\ Len(contents'[c]) <= room'[c]
      BY DEF Bounded
    <3>5. CASE k = key
      BY <2>1, <2>2, <2>3, <3>1, <3>4, <3>5
    <3>6. CASE k # key
      <4>1. k \in DOMAIN buckets /\ buckets[k] = c /\ c # b /\ room'[c] = room[c]
        BY <2>1, <2>2, <3>2, <3>6
      <4>2. room[c] = BucketCapacity(k.kind) /\ Len(contents[c]) <= room[c]
        BY <4>1 DEF Bounded
      <4> QED
        BY <1>3, <1>4, <4>1, <4>2
    <3> QED
      BY <3>5, <3>6
  <2> QED
    BY <2>4, <2>5
<1>5. CASE Quiet
  BY <1>3, <1>5 DEF Quiet, Bounded
<1>6. ASSUME NEW wish \in Infos, NEW b \in Buckets, NEW l \in Leases, ResourceHit(wish, b, l)
      PROVE  Bounded'
  <2>1. WithBucket(wish, b) /\ \A c \in Buckets : Len(contents'[c]) <= Len(contents[c])
    BY <1>1, <1>6, HitTakes
  <2> QED
    BY <1>4, <2>1
<1>7. ASSUME NEW wish \in Infos, NEW b \in Buckets,
             ResourceFails(wish, b) \/ \E l \in Leases : ResourceMiss(wish, b, l)
      PROVE  Bounded'
  <2>1. WithBucket(wish, b) /\ contents' = contents
    BY <1>7 DEF ResourceMiss, ResourceFails
  <2>2. \A c \in Buckets : Len(contents'[c]) <= Len(contents[c])
    BY <1>3, <2>1
  <2> QED
    BY <1>4, <2>1, <2>2
<1>8. ASSUME NEW l \in Leases, NEW i \in Items, NEW b \in Buckets, Returns(l, i, b)
      PROVE  Bounded'
  <2>1. buckets' = buckets
    BY <1>8 DEF Returns, Return
  <2>2. \A c \in Buckets \ {b} : contents'[c] = contents[c] /\ room'[c] = room[c]
    BY <1>8, ReturnKeeps
  <2>3. room[b] > 0 /\ Len(contents[b]) <= room[b] =>
          room'[b] = room[b] /\ Len(contents'[b]) <= room[b]
    BY <1>8, ReturnKeeps
  <2> QED
    BY <1>2, <1>3, <2>1, <2>2, <2>3 DEF Bounded
<1> QED
  BY <1>5, <1>6, <1>7, <1>8, QuietSteps

\* "The maximum size of a single bucket of resource instances" is kept, if it is not
\* zero: a vector without capacity grows when an item comes back to it.
THEOREM BucketsBounded == Capacity > 0 => (Spec => []BucketBounded)
<1> SUFFICES ASSUME Capacity > 0
             PROVE  Spec => []BucketBounded
  OBVIOUS
<1>1. TypeInv /\ Bounded => BucketBounded
  <2> SUFFICES ASSUME TypeInv, Bounded, NEW k \in DOMAIN buckets
               PROVE  Len(contents[buckets[k]]) <= BucketCapacity(k.kind)
    BY DEF BucketBounded
  <2>1. buckets[k] \in Buckets
    BY DEF TypeInv, TypeOK, Range
  <2> QED
    BY <2>1 DEF Bounded
<1>2. TypeInv /\ Owned /\ Bounded /\ [Next]_vars => Bounded'
  BY BoundedStep
<1> QED
  BY TypeInit, TypeStep, OwnedInit, OwnedStep, BoundedInit, <1>1, <1>2, PTL DEF Spec

-----------------------------------------------------------------------------
(* Leases fit the requests they were handed out for                        *)

LEMMA FittingInit == Init => Fitting
<1> SUFFICES ASSUME Init
             PROVE  Fitting
  OBVIOUS
<1>1. /\ \A l \in Leases : leased[l] = Nil /\ wanted[l] = {} /\ clones[l] = 0
      /\ \A t \in Tags : aliases[t] = <<>>
      /\ lookup = Nil
  BY DEF Init
<1>2. \A t \in Tags : Noted(t) = {}
  BY <1>1 DEF Noted
<1> QED
  BY <1>1, <1>2 DEF Fitting

\* Nothing is handed out, noted or looked up.

LEMMA FittingFrame ==
    ASSUME Fitting, lookup' \in {lookup, Nil},
           \A t \in Tags : Noted(t)' \subseteq Noted(t),
           \A l \in Leases : leased'[l] \in {leased[l], Nil} /\ wanted'[l] \subseteq wanted[l],
           \A l \in Leases : clones'[l] > 0 => clones[l] > 0 /\ wanted'[l] = wanted[l],
           \A i \in Items : info'[i] \in {info[i], Nil}
    PROVE  Fitting'
<1>1. \A l \in Leases, i \in Items, item \in Infos, wish \in Infos :
        leased'[l] = i /\ info'[i] = item /\ wish \in wanted'[l] => Satisfies(item, wish)
  BY NilAssumption DEF Fitting
<1>2. \A t \in Tags : \A a \in [info : Infos, lease : Leases] :
        a \in Noted(t)' /\ clones'[a.lease] > 0 => a.info \in wanted'[a.lease]
  BY DEF Fitting
<1>3. lookup' # Nil => lookup'.info.kind \in Managed
  BY DEF Fitting
<1> QED
  BY <1>1, <1>2, <1>3 DEF Fitting

LEMMA FittingLend ==
    ASSUME TypeInv, Owned, Fitting, NEW wish \in Infos, NEW b \in Buckets, NEW i \in Items,
           NEW l \in Leases, Lend(wish, b, i, l), NEW item \in Infos, info'[i] = item,
           Satisfies(item, wish), \A j \in Items \ {i} : info'[j] = info[j],
           \A m \in Leases : leased[m] # i
    PROVE  Fitting'
<1>1. TypeOK
  BY DEF TypeInv
<1>2. /\ leased' = [leased EXCEPT ![l] = i] /\ wanted' = [wanted EXCEPT ![l] = {wish}]
      /\ clones' = [clones EXCEPT ![l] = 1] /\ lookup' = Nil
      /\ \A t \in Tags : \A n \in DOMAIN aliases[t] : aliases[t][n].lease # l
  BY DEF Lend, Free
<1>3. /\ leased'[l] = i /\ wanted'[l] = {wish}
      /\ \A m \in Leases \ {l} : leased'[m] = leased[m] /\ wanted'[m] = wanted[m]
                                 /\ clones'[m] = clones[m]
  BY <1>1, <1>2 DEF TypeOK
<1>4. PICK alias : alias = [info |-> wish, lease |-> l]
  OBVIOUS
<1>5. alias \in [info : Infos, lease : Leases] /\ alias.info = wish /\ alias.lease = l
  BY <1>4
<1>6. \A t \in Tags : Noted(t)' \subseteq Noted(t) \cup {alias}
  <2> SUFFICES ASSUME NEW t \in Tags
               PROVE  Noted(t)' \subseteq Noted(t) \cup {alias}
    OBVIOUS
  <2>1. CASE lookup = Nil
    BY <2>1 DEF Lend, Noted
  <2>2. CASE lookup # Nil
    <3>1. aliases' = [aliases EXCEPT ![lookup.tag] = Append(aliases[lookup.tag], alias)]
      BY <1>4, <2>2 DEF Lend
    <3>2. aliases \in [Tags -> Seq([info : Infos, lease : Leases])]
      BY <1>1 DEF TypeOK
    <3>3. aliases'[t] = aliases[t] \/ aliases'[t] = Append(aliases[t], alias)
      BY <3>1, <3>2
    <3>4. PICK s, R : s = aliases[t] /\ R = [info : Infos, lease : Leases]
      OBVIOUS
    <3>5. s \in Seq(R) /\ alias \in R
      BY <1>5, <3>2, <3>4
    <3>6. \A n \in DOMAIN Append(s, alias) :
            Append(s, alias)[n] = alias \/ (n \in DOMAIN s /\ Append(s, alias)[n] = s[n])
      BY <3>5
    <3> QED
      BY <3>3, <3>4, <3>6 DEF Noted
  <2> QED
    BY <2>1, <2>2
<1>7. \A t \in Tags : \A a \in Noted(t) : a.lease # l
  BY <1>2 DEF Noted
<1>8. \A m \in Leases, j \in Items, other \in Infos, w \in Infos :
        leased'[m] = j /\ info'[j] = other /\ w \in wanted'[m] => Satisfies(other, w)
  BY <1>3 DEF Fitting
<1>9. \A t \in Tags : \A a \in [info : Infos, lease : Leases] :
        a \in Noted(t)' /\ clones'[a.lease] > 0 => a.info \in wanted'[a.lease]
  <2> SUFFICES ASSUME NEW t \in Tags, NEW a \in [info : Infos, lease : Leases],
                      a \in Noted(t)', clones'[a.lease] > 0
               PROVE  a.info \in wanted'[a.lease]
    OBVIOUS
  <2>1. CASE a = alias
    BY <1>3, <1>5, <2>1
  <2>2. CASE a # alias
    <3>1. a \in Noted(t) /\ a.lease # l /\ a.lease \in Leases
      BY <1>6, <1>7, <2>2
    <3> QED
      BY <1>3, <3>1 DEF Fitting
  <2> QED
    BY <2>1, <2>2
<1> QED
  BY <1>2, <1>8, <1>9 DEF Fitting
LEMMA FittingStep ==
    Compared /\ TypeInv /\ Owned /\ Keyed /\ Fitting /\ [Next]_vars => Fitting'
<1> SUFFICES ASSUME Compared, TypeInv, Owned, Keyed, Fitting, [Next]_vars
             PROVE  Fitting'
  OBVIOUS
<1>1. TypeOK /\ TypeOK' /\ strategy \in Strategies
  BY TypeStep DEF TypeInv, TypeOK
<1>2. CASE UNCHANGED vars
  <2>1. UNCHANGED <<lookup, aliases, leased, wanted, clones, info>>
    BY <1>2 DEF vars, leaseVars
  <2>2. \A t \in Tags : Noted(t)' = Noted(t)
    BY <2>1 DEF Noted
  <2> QED
    BY <2>1, <2>2, FittingFrame
<1>3. ASSUME NEW wish \in Infos, NEW b \in Buckets, NEW l \in Leases, ResourceHit(wish, b, l)
      PROVE  Fitting'
  <2>1. WithBucket(wish, b) /\ info' = info
        /\ \E i \in Items : i \in Idle(b) /\ Compatible(info[i], wish) /\ Lend(wish, b, i, l)
    BY <1>1, <1>3, HitTakes
  <2>2. PICK i \in Items : i \in Idle(b) /\ Compatible(info[i], wish) /\ Lend(wish, b, i, l)
    BY <2>1
  <2>3. info[i] \in Infos
    BY <1>1, <2>2 DEF Owned, TypeOK
  <2>4. PICK item \in Infos : item = info[i]
    BY <2>3
  <2>5. Key(wish) \in DOMAIN buckets' /\ buckets'[Key(wish)] = b
    BY <1>1, <2>1, WithBucketMakes
  <2>6. KeyedThen
    BY <2>1, KeyedBucket
  <2>7. Key(item) = Key(wish)
    BY <2>2, <2>4, <2>5, <2>6 DEF KeyedThen
  <2>8. Satisfies(item, wish)
    BY <1>1, <2>2, <2>4, <2>7, CompatibleSatisfies
  <2>9. info'[i] = item /\ (\A j \in Items \ {i} : info'[j] = info[j])
        /\ \A m \in Leases : leased[m] # i
    BY <2>1, <2>2, <2>4 DEF Owned
  <2> QED
    BY <2>2, <2>8, <2>9, FittingLend
<1>4. ASSUME NEW wish \in Infos, NEW b \in Buckets, NEW l \in Leases, ResourceMiss(wish, b, l)
      PROVE  Fitting'
  <2>1. PICK i \in Items :
          info[i] = Nil /\ Lend(wish, b, i, l) /\ info' = [info EXCEPT ![i] = wish]
    BY <1>4 DEF ResourceMiss
  <2>2. info'[i] = wish /\ (\A j \in Items \ {i} : info'[j] = info[j])
        /\ \A m \in Leases : leased[m] # i
    BY <1>1, <2>1 DEF TypeOK, Owned
  <2>3. Satisfies(wish, wish)
    BY InfosAssumption DEF Satisfies
  <2> QED
    BY <2>1, <2>2, <2>3, FittingLend
<1>5. ASSUME NEW wish \in Infos, NEW b \in Buckets, ResourceFails(wish, b)
      PROVE  Fitting'
  <2>1. UNCHANGED <<aliases, leased, wanted, clones, info>> /\ lookup' = Nil
    BY <1>5 DEF ResourceFails, leaseVars
  <2>2. \A t \in Tags : Noted(t)' = Noted(t)
    BY <2>1 DEF Noted
  <2> QED
    BY <2>1, <2>2, FittingFrame
<1>6. ASSUME NEW tag \in Tags, NEW wish \in Infos, CacheRequest(tag, wish)
      PROVE  Fitting'
  <2>1. UNCHANGED <<leased, wanted, clones, info>> /\ lookup'.info.kind \in Managed
    BY <1>6 DEF CacheRequest, leaseVars
  <2>2. PICK P : P = {n \in DOMAIN aliases[tag] : Live(aliases[tag][n])}
    OBVIOUS
  <2>3. aliases' = [aliases EXCEPT ![tag] = Kept(aliases[tag], P)]
    BY <1>6, <2>2 DEF CacheRequest
  <2>4. PICK R : R = [info : Infos, lease : Leases]
    OBVIOUS
  <2>5. aliases \in [Tags -> Seq(R)] /\ P \in SUBSET DOMAIN aliases[tag]
    BY <1>1, <2>2, <2>4 DEF TypeOK
  <2>6. \A k \in DOMAIN Kept(aliases[tag], P) : \E n \in P : Kept(aliases[tag], P)[k] = aliases[tag][n]
    BY <2>5, KeptOf
  <2>7. \A t \in Tags \ {tag} : Noted(t)' = Noted(t)
    BY <2>3, <2>5 DEF Noted
  <2>8. Noted(tag)' \subseteq Noted(tag)
    <3>1. aliases'[tag] = Kept(aliases[tag], P)
      BY <2>3, <2>5
    <3> QED
      BY <2>5, <2>6, <3>1 DEF Noted
  <2>9. \A t \in Tags : \A a \in [info : Infos, lease : Leases] :
          a \in Noted(t)' /\ clones'[a.lease] > 0 => a.info \in wanted'[a.lease]
    BY <2>1, <2>7, <2>8 DEF Fitting
  <2> QED
    BY <2>1, <2>9 DEF Fitting
<1>7. CASE CacheHit
  <2>1. lookup \in [tag : Tags, info : Infos] /\ lookup.info.kind \in Managed
    BY <1>1, <1>7 DEF CacheHit, TypeOK, Fitting
  <2>2. PICK tag \in Tags, wish \in Infos : tag = lookup.tag /\ wish = lookup.info
    BY <2>1
  <2>3. PICK n \in Hits(tag, wish) :
          /\ clones' = [clones EXCEPT ![aliases[tag][n].lease] = @ + 1]
          /\ wanted' = [wanted EXCEPT ![aliases[tag][n].lease] = @ \cup {wish}]
    BY <1>7, <2>2 DEF CacheHit
  <2>4. n \in DOMAIN aliases[tag] /\ CacheCompatible(aliases[tag][n].info, wish)
        /\ Live(aliases[tag][n])
    BY <2>3 DEF Hits
  <2>5. PICK R, a : R = [info : Infos, lease : Leases] /\ a = aliases[tag][n]
    OBVIOUS
  <2>6. aliases[tag] \in Seq(R)
    BY <1>1, <2>5 DEF TypeOK
  <2>7. a \in R /\ a \in Noted(tag)
    <3>1. PICK s : s = aliases[tag]
      OBVIOUS
    <3>2. s \in Seq(R) /\ n \in DOMAIN s
      BY <2>4, <2>6, <3>1
    <3>3. s[n] \in R
      BY <3>2
    <3>4. aliases[tag][n] \in {aliases[tag][m] : m \in DOMAIN aliases[tag]}
      BY <2>4
    <3> QED
      BY <2>5, <3>1, <3>3, <3>4 DEF Noted
  <2>8. a \in [info : Infos, lease : Leases] /\ clones[a.lease] > 0 /\ CacheCompatible(a.info, wish)
    BY <2>4, <2>5, <2>7 DEF Live
  <2>9. PICK l \in Leases, lent \in Infos : l = a.lease /\ lent = a.info
    BY <2>8
  <2>10. lent \in wanted[l]
    BY <2>7, <2>8, <2>9 DEF Fitting
  <2>11. /\ wanted'[l] = wanted[l] \cup {wish}
         /\ \A m \in Leases \ {l} : wanted'[m] = wanted[m] /\ clones'[m] = clones[m]
    BY <1>1, <2>3, <2>5, <2>9 DEF TypeOK
  <2>12. UNCHANGED <<leased, info, aliases>> /\ lookup' = Nil
    BY <1>7 DEF CacheHit
  <2>13. \A i \in Items, item \in Infos : leased[l] = i /\ info[i] = item => Satisfies(item, wish)
    <3> SUFFICES ASSUME NEW i \in Items, NEW item \in Infos, leased[l] = i, info[i] = item
                 PROVE  Satisfies(item, wish)
      OBVIOUS
    <3>1. Satisfies(item, lent)
      BY <2>10 DEF Fitting
    <3>2. CacheCompatible(lent, wish) /\ wish.kind \in Managed
      BY <2>1, <2>2, <2>8, <2>9
    <3> QED
      BY <3>1, <3>2, SatisfiesLess
  <2>14. \A m \in Leases, i \in Items, item \in Infos, w \in Infos :
           leased'[m] = i /\ info'[i] = item /\ w \in wanted'[m] => Satisfies(item, w)
    BY <2>11, <2>12, <2>13 DEF Fitting
  <2>15. \A t \in Tags : Noted(t)' = Noted(t)
    BY <2>12 DEF Noted
  <2>16. \A t \in Tags : \A e \in [info : Infos, lease : Leases] :
           e \in Noted(t)' /\ clones'[e.lease] > 0 => e.info \in wanted'[e.lease]
    <3> SUFFICES ASSUME NEW t \in Tags, NEW e \in [info : Infos, lease : Leases],
                        e \in Noted(t), clones'[e.lease] > 0
                 PROVE  e.info \in wanted'[e.lease]
      BY <2>15
    <3>1. clones[e.lease] > 0
      BY <2>8, <2>9, <2>11
    <3>2. e.info \in wanted[e.lease]
      BY <3>1 DEF Fitting
    <3> QED
      BY <2>11, <3>2
  <2> QED
    BY <2>12, <2>14, <2>16 DEF Fitting
<1>8. ASSUME NEW keys \in SUBSET DOMAIN buckets, NEW keep, Retain(keys, keep),
             UNCHANGED <<lookup, leased, wanted, clones>>,
             \A t \in Tags : Noted(t)' \subseteq Noted(t)
      PROVE  Fitting'
  <2>1. \A i \in Items :
          info'[i] = IF \E b \in Buckets : i \in Idle(b) /\ ~Stays(keys, keep, b, i)
                       THEN Nil ELSE info[i]
    BY <1>1, <1>8, RetainKeeps
  <2>2. \A i \in Items : info'[i] \in {info[i], Nil}
    BY <2>1
  <2> QED
    BY <1>8, <2>2, FittingFrame
<1>9. ASSUME NEW keys \in SUBSET DOMAIN buckets, Clear(keys)
      PROVE  Fitting'
  <2>1. Retain(DOMAIN buckets \ keys, Items) /\ UNCHANGED <<lookup, leased, wanted, clones, aliases>>
    BY <1>9 DEF Clear, leaseVars
  <2>2. \A t \in Tags : Noted(t)' = Noted(t)
    BY <2>1 DEF Noted
  <2> QED
    BY <1>8, <2>1, <2>2
<1>10. CASE Collect
  <2>1. PICK keys \in SUBSET DOMAIN buckets, keep \in SUBSET Items :
          Retain(keys, keep) /\ UNCHANGED <<leaseVars, lookup, aliases>>
    BY <1>10, Zenon DEF Collect
  <2>2. \A t \in Tags : Noted(t)' = Noted(t)
    BY <2>1 DEF Noted
  <2> QED
    BY <1>8, <2>1, <2>2 DEF leaseVars
<1>11. CASE DropPool
  <2>1. Retain({}, Items) /\ UNCHANGED <<lookup, leased, wanted, clones>>
        /\ aliases' = [t \in Tags |-> <<>>]
    BY <1>11 DEF DropPool, leaseVars
  <2>2. \A t \in Tags : Noted(t)' = {}
    BY <2>1 DEF Noted
  <2> QED
    BY <1>8, <2>1, <2>2
<1>12. ASSUME NEW l \in Leases, DropClone(l) \/ Upgrade(l)
       PROVE  Fitting'
  <2>1. UNCHANGED <<lookup, leased, wanted, info, aliases>>
    BY <1>12 DEF DropClone, Upgrade
  <2>2. clones \in [Leases -> 0..MaxClones] /\ clones[l] > 0
    BY <1>1, <1>12, ClonesAssumption DEF TypeOK, DropClone, Upgrade
  <2>3. \A m \in Leases : clones'[m] > 0 => clones[m] > 0
    BY <1>12, <2>2 DEF DropClone, Upgrade
  <2>4. \A t \in Tags : Noted(t)' = Noted(t)
    BY <2>1 DEF Noted
  <2> QED
    BY <2>1, <2>3, <2>4, FittingFrame
<1>13. ASSUME NEW l \in Leases, DropPanicking(l) \/ DropOrphan(l)
       PROVE  Fitting'
  <2>1. UNCHANGED <<lookup, aliases>> /\ ForgetLease(l) /\ clones' = [clones EXCEPT ![l] = 0]
    BY <1>13 DEF DropPanicking, DropOrphan
  <2>2. \A m \in Leases : leased'[m] \in {leased[m], Nil} /\ wanted'[m] \subseteq wanted[m]
    BY <1>1, <2>1 DEF ForgetLease, TypeOK
  <2>3. \A m \in Leases : clones'[m] > 0 => clones[m] > 0 /\ wanted'[m] = wanted[m]
    BY <1>1, <2>1 DEF ForgetLease, TypeOK
  <2>4. \A i \in Items : info'[i] \in {info[i], Nil}
    BY <1>1, <1>13 DEF DropPanicking, DropOrphan, TypeOK
  <2>5. \A t \in Tags : Noted(t)' = Noted(t)
    BY <2>1 DEF Noted
  <2> QED
    BY <2>1, <2>2, <2>3, <2>4, <2>5, FittingFrame
<1>14. ASSUME NEW l \in Leases, NEW i \in Items, NEW b \in Buckets, Returns(l, i, b)
       PROVE  Fitting'
  <2>1. UNCHANGED <<lookup, aliases, clones>> /\ ForgetLease(l) /\ returning[l]
    BY <1>14 DEF Returns, Return
  <2>2. clones[l] = 0
    BY <2>1 DEF TypeInv, LeasesHeld
  <2>3. \A m \in Leases : leased'[m] \in {leased[m], Nil} /\ wanted'[m] \subseteq wanted[m]
    BY <1>1, <2>1 DEF ForgetLease, TypeOK
  <2>4. \A m \in Leases : clones'[m] > 0 => clones[m] > 0 /\ wanted'[m] = wanted[m]
    BY <1>1, <2>1, <2>2 DEF ForgetLease, TypeOK
  <2>5. \A j \in Items : info'[j] \in {info[j], Nil}
    BY <1>14, ReturnKeeps
  <2>6. \A t \in Tags : Noted(t)' = Noted(t)
    BY <2>1 DEF Noted
  <2> QED
    BY <2>1, <2>3, <2>4, <2>5, <2>6, FittingFrame
<1>15. ASSUME NEW l \in Leases, Return(l)
       PROVE  \E i \in Items, b \in Buckets : Returns(l, i, b)
  <2>1. returning[l]
    BY <1>15 DEF Return
  <2>2. leased[l] \in Items /\ home[l] \in Buckets
    BY <1>1, <2>1 DEF TypeInv, TypeOK, LeasesHeld
  <2> QED
    BY <1>15, <2>2 DEF Returns
<1> QED
  BY <1>1, <1>2, <1>3, <1>4, <1>5, <1>6, <1>7, <1>9, <1>10, <1>11, <1>12, <1>13, <1>14,
     <1>15, Steps

\* A lease is good for every request it was handed out for, by any of the pools or
\* through the cache, if the requests say what they need in what the pools compare.
THEOREM LeasesFit == Compared => (Spec => []LeaseFitsRequest)
<1> SUFFICES ASSUME Compared
             PROVE  Spec => []LeaseFitsRequest
  OBVIOUS
<1>1. TypeInv /\ Owned /\ Fitting => LeaseFitsRequest
  <2> SUFFICES ASSUME TypeInv, Owned, Fitting, NEW l \in InUse, NEW wish \in wanted[l]
               PROVE  Satisfies(info[leased[l]], wish)
    BY DEF LeaseFitsRequest
  <2>1. l \in Leases /\ leased[l] \in Items /\ wish \in Infos
    BY DEF InUse, TypeInv, TypeOK
  <2>2. info[leased[l]] \in Infos
    BY <2>1 DEF Owned, TypeInv, TypeOK
  <2> QED
    BY <2>1, <2>2 DEF Fitting
<1>2. TypeInv /\ Owned /\ Keyed /\ Fitting /\ [Next]_vars => Fitting'
  BY FittingStep
<1> QED
  BY TypeInit, TypeStep, OwnedInit, OwnedStep, KeyedInit, KeyedStep, FittingInit,
     <1>1, <1>2, PTL DEF Spec

-----------------------------------------------------------------------------
(* What a collection keeps                                                 *)

LEMMA CompatibleStay ==
    ASSUME strategy' = strategy
    PROVE  \A item \in Infos, wish \in Infos : Compatible(item, wish)' = Compatible(item, wish)
BY DEF Compatible, BufferCompatible, ImageCompatible, DescriptorsCompatible, AtLeast

LEMMA AskedInit == Init => Asked
BY DEF Init, Asked

\* Nothing is lent, no request is forgotten, items may go.

LEMMA AskedFrame ==
    ASSUME Asked, strategy' = strategy, served' \subseteq served, served' \subseteq Items,
           requests \subseteq requests', requests' \subseteq Infos,
           \A i \in Items : info'[i] \in {info[i], Nil}
    PROVE  Asked'
<1>1. /\ \A wish \in Infos : Key(wish)' = Key(wish)
      /\ \A item \in Infos, wish \in Infos : Compatible(item, wish)' = Compatible(item, wish)
  BY KeysStay, CompatibleStay
<1>2. ASSUME NEW i \in served', NEW item \in Infos, info'[i] = item, item.kind \in Managed
      PROVE  \E wish \in requests' : Key(wish)' = Key(item)' /\ Compatible(item, wish)'
  <2>1. i \in served /\ info[i] = item
    BY <1>2, NilAssumption
  <2>2. PICK wish \in requests : Key(wish) = Key(item) /\ Compatible(item, wish)
    BY <1>2, <2>1 DEF Asked
  <2>3. wish \in requests' /\ wish \in Infos
    BY <2>2
  <2> QED
    BY <1>1, <2>2, <2>3
<1> QED
  BY <1>2 DEF Asked

\* An item that is lent for a request it is compatible with.

LEMMA AskedLend ==
    ASSUME TypeOK, TypeOK', Asked, strategy' = strategy, NEW wish \in Infos,
           NEW b \in Buckets, NEW i \in Items, NEW l \in Leases, Lend(wish, b, i, l),
           NEW item \in Infos, info'[i] = item,
           \A j \in Items \ {i} : info'[j] = info[j],
           item.kind = wish.kind, Key(item) = Key(wish),
           wish.kind \in Managed => Compatible(item, wish)
    PROVE  Asked'
<1>1. /\ \A w \in Infos : Key(w)' = Key(w)
      /\ \A e \in Infos, w \in Infos : Compatible(e, w)' = Compatible(e, w)
  BY KeysStay, CompatibleStay
<1>2. /\ requests' = IF wish.kind \in Managed THEN requests \cup {wish} ELSE requests
      /\ served' = served \cup {i}
  BY DEF Lend
<1>3. requests \subseteq Infos /\ served \subseteq Items
  BY DEF TypeOK
<1>4. ASSUME NEW j \in served', NEW e \in Infos, info'[j] = e, e.kind \in Managed
      PROVE  \E w \in requests' : Key(w)' = Key(e)' /\ Compatible(e, w)'
  <2>1. CASE j = i
    <3>1. e = item /\ wish \in requests' /\ Compatible(item, wish)
      BY <1>2, <1>4, <2>1
    <3> QED
      BY <1>1, <3>1
  <2>2. CASE j # i
    <3>1. j \in served /\ info[j] = e
      BY <1>2, <1>3, <1>4, <2>2
    <3>2. PICK w \in requests : Key(w) = Key(e) /\ Compatible(e, w)
      BY <1>4, <3>1 DEF Asked
    <3>3. w \in requests' /\ w \in Infos
      BY <1>2, <1>3, <3>2
    <3> QED
      BY <1>1, <3>2, <3>3
  <2> QED
    BY <2>1, <2>2
<1> QED
  BY <1>4 DEF Asked

LEMMA AskedStep == TypeInv /\ Owned /\ Keyed /\ Asked /\ [Next]_vars => Asked'
<1> SUFFICES ASSUME TypeInv, Owned, Keyed, Asked, [Next]_vars
             PROVE  Asked'
  OBVIOUS
<1>1. TypeOK /\ TypeOK' /\ strategy \in Strategies
  BY TypeStep DEF TypeInv, TypeOK
<1>2. served' \subseteq Items /\ requests' \subseteq Infos
      /\ \A i \in Items : info'[i] = info[i] => info'[i] \in {info[i], Nil}
  BY <1>1 DEF TypeOK
<1>3. CASE \/ UNCHANGED vars \/ CacheHit
           \/ (\E wish \in Infos, b \in Buckets : ResourceFails(wish, b))
           \/ (\E tag \in Tags, wish \in Infos : CacheRequest(tag, wish))
           \/ (\E l \in Leases : DropClone(l) \/ DropPanicking(l) \/ Upgrade(l))
  <2>1. UNCHANGED <<strategy, served, requests, info>>
    BY <1>3 DEF vars, poolVars, CacheHit, ResourceFails, CacheRequest, DropClone,
                DropPanicking, Upgrade
  <2> QED
    BY <1>2, <2>1, AskedFrame
<1>4. ASSUME NEW wish \in Infos, NEW b \in Buckets, NEW l \in Leases, ResourceHit(wish, b, l)
      PROVE  Asked'
  <2>1. WithBucket(wish, b) /\ info' = info
        /\ \E i \in Items : i \in Idle(b) /\ Compatible(info[i], wish) /\ Lend(wish, b, i, l)
    BY <1>1, <1>4, HitTakes
  <2>2. PICK i \in Items : i \in Idle(b) /\ Compatible(info[i], wish) /\ Lend(wish, b, i, l)
    BY <2>1
  <2>3. PICK item \in Infos : item = info[i]
    BY <1>1, <2>2 DEF Owned, TypeOK
  <2>4. Key(wish) \in DOMAIN buckets' /\ buckets'[Key(wish)] = b
    BY <1>1, <2>1, WithBucketMakes
  <2>5. KeyedThen
    BY <2>1, KeyedBucket
  <2>6. Key(item) = Key(wish)
    BY <2>2, <2>3, <2>4, <2>5 DEF KeyedThen
  <2>7. item.kind = wish.kind
    BY <1>1, <2>6, KeyKind
  <2>8. info'[i] = item /\ \A j \in Items \ {i} : info'[j] = info[j]
    BY <2>1, <2>3
  <2>9. strategy' = strategy /\ Compatible(item, wish)
    BY <2>2, <2>3 DEF Lend, poolVars
  <2> QED
    BY <1>1, <2>2, <2>6, <2>7, <2>8, <2>9, AskedLend
<1>5. ASSUME NEW wish \in Infos, NEW b \in Buckets, NEW l \in Leases, ResourceMiss(wish, b, l)
      PROVE  Asked'
  <2>1. PICK i \in Items :
          info[i] = Nil /\ Lend(wish, b, i, l) /\ info' = [info EXCEPT ![i] = wish]
    BY <1>5 DEF ResourceMiss
  <2>2. info'[i] = wish /\ \A j \in Items \ {i} : info'[j] = info[j]
    BY <1>1, <2>1 DEF TypeOK
  <2>3. wish.kind \in Managed => Compatible(wish, wish)
    BY <1>1, CompatibleWithItself
  <2>4. strategy' = strategy
    BY <2>1 DEF Lend, poolVars
  <2> QED
    BY <1>1, <2>1, <2>2, <2>3, <2>4, AskedLend
<1>6. ASSUME NEW keys \in SUBSET DOMAIN buckets, NEW keep, Retain(keys, keep),
             UNCHANGED <<strategy, requests>>, served' \subseteq served
      PROVE  Asked'
  <2>1. \A i \in Items :
          info'[i] = IF \E b \in Buckets : i \in Idle(b) /\ ~Stays(keys, keep, b, i)
                       THEN Nil ELSE info[i]
    BY <1>1, <1>6, RetainKeeps
  <2>2. \A i \in Items : info'[i] \in {info[i], Nil}
    BY <2>1
  <2> QED
    BY <1>2, <1>6, <2>2, AskedFrame
<1>7. ASSUME NEW keys \in SUBSET DOMAIN buckets, Clear(keys)
      PROVE  Asked'
  <2>1. Retain(DOMAIN buckets \ keys, Items) /\ UNCHANGED <<strategy, requests>>
        /\ served' \subseteq served
    BY <1>7 DEF Clear, poolVars
  <2> QED
    BY <1>6, <2>1
<1>8. CASE DropPool
  <2>1. Retain({}, Items) /\ UNCHANGED <<strategy, requests>> /\ served' \subseteq served
    BY <1>8 DEF DropPool
  <2> QED
    BY <1>6, <2>1
<1>9. CASE Collect
  <2>1. served' = {}
    BY <1>9, Zenon DEF Collect
  <2> QED
    BY <2>1 DEF Asked
<1>10. ASSUME NEW l \in Leases, DropOrphan(l)
       PROVE  Asked'
  <2>1. UNCHANGED <<strategy, requests>> /\ served' \subseteq served
        /\ \A i \in Items : info'[i] \in {info[i], Nil}
    BY <1>1, <1>10 DEF DropOrphan, poolVars, TypeOK
  <2> QED
    BY <1>2, <2>1, AskedFrame
<1>11. ASSUME NEW l \in Leases, NEW i \in Items, NEW b \in Buckets, Returns(l, i, b)
       PROVE  Asked'
  <2>1. UNCHANGED <<strategy, requests>>
    BY <1>11 DEF Returns, Return, poolVars
  <2>2. served' \subseteq served /\ \A j \in Items : info'[j] \in {info[j], Nil}
    BY <1>11, ReturnKeeps
  <2> QED
    BY <1>2, <2>1, <2>2, AskedFrame
<1>12. ASSUME NEW l \in Leases, Return(l)
       PROVE  \E i \in Items, b \in Buckets : Returns(l, i, b)
  <2>1. returning[l]
    BY <1>12 DEF Return
  <2>2. leased[l] \in Items /\ home[l] \in Buckets
    BY <1>1, <2>1 DEF TypeInv, TypeOK, LeasesHeld
  <2> QED
    BY <1>12, <2>2 DEF Returns
<1> QED
  BY <1>1, <1>3, <1>4, <1>5, <1>7, <1>8, <1>9, <1>10, <1>11, <1>12, Steps

\* What a collection does, with the keys and the items it keeps.

LEMMA Collects ==
    ASSUME Collect
    PROVE  \E keys, keep :
             /\ Retain(keys, keep)
             /\ \A k \in DOMAIN buckets : k.kind \in Managed =>
                  (k \in keys <=> \E wish \in requests : Key(wish) = k)
             /\ \A i \in Items : info[i] # Nil /\ info[i].kind \in Managed =>
                  (i \in keep <=> \E wish \in requests :
                                    Key(wish) = Key(info[i]) /\ Compatible(info[i], wish))
<1> DEFINE managed == {k \in DOMAIN buckets : k.kind \in Managed}
           keys == {k \in managed : \E wish \in requests : Key(wish) = k}
           of(i) == {wish \in requests : Key(wish) = Key(info[i])}
           keep == {i \in Items : /\ info[i] # Nil
                                  /\ \/ info[i].kind \notin Managed
                                     \/ \E wish \in of(i) : Compatible(info[i], wish)}
<1>1. Retain((DOMAIN buckets \ managed) \cup keys, keep)
  BY Zenon DEF Collect
<1>2. \A k \in DOMAIN buckets : k.kind \in Managed =>
        (k \in (DOMAIN buckets \ managed) \cup keys <=> \E wish \in requests : Key(wish) = k)
  OBVIOUS
<1>3. \A i \in Items : info[i] # Nil /\ info[i].kind \in Managed =>
        (i \in keep <=> \E wish \in requests :
                          Key(wish) = Key(info[i]) /\ Compatible(info[i], wish))
  OBVIOUS
<1> QED
  BY <1>1, <1>2, <1>3

\* A collection keeps every idle item that was lent since the one before, and of the
\* idle items it manages only what a request made since then could be lent.
THEOREM CollectionsKeep == Compared => (Spec => CollectKeepsWorkingSet)
<1> SUFFICES ASSUME Compared
             PROVE  Spec => CollectKeepsWorkingSet
  OBVIOUS
<1> DEFINE KeepsRight(k, i) ==
             /\ i \in served => info'[i] # Nil /\ k \in DOMAIN buckets'
             /\ (i \notin served /\ info'[i] # Nil) =>
                   \/ \E wish \in requests : Satisfies(info[i], wish)
                   \/ \E l \in Leases : returning[l] /\ home[l] = buckets[k]
           Works == Collect =>
                      \A k \in DOMAIN buckets : \A i \in Range(contents[buckets[k]]) :
                         k.kind \in Managed => KeepsRight(k, i)
<1>1. ASSUME TypeInv, Owned, Keyed, Asked, Collect
      PROVE  Works
  <2> SUFFICES ASSUME NEW k \in DOMAIN buckets, NEW i \in Range(contents[buckets[k]]),
                      k.kind \in Managed
               PROVE  KeepsRight(k, i)
    OBVIOUS
  <2>1. TypeOK /\ strategy \in Strategies /\ requests \subseteq Infos
    BY <1>1 DEF TypeInv, TypeOK
  <2>2. PICK b \in Buckets : b = buckets[k]
    BY <2>1 DEF TypeOK, Range
  <2>3. i \in Idle(b) /\ i \in Items
    <3>1. PICK s : s = contents[b]
      OBVIOUS
    <3>2. s \in Seq(Items)
      BY <2>1, <3>1 DEF TypeOK
    <3>3. \A n \in DOMAIN s : s[n] \in Items
      BY <3>2
    <3> QED
      BY <2>2, <3>1, <3>3 DEF Idle, Range
  <2>4. PICK item \in Infos : item = info[i]
    BY <1>1, <2>1, <2>3 DEF Owned, TypeOK
  <2>5. Key(item) = k
    BY <1>1, <2>2, <2>3, <2>4 DEF Keyed
  <2>6. item.kind \in Managed
    BY <2>1, <2>4, <2>5, KeyKind
  <2>7. PICK keys, keep :
          /\ Retain(keys, keep)
          /\ k \in keys <=> \E wish \in requests : Key(wish) = k
          /\ i \in keep <=> \E wish \in requests :
                              Key(wish) = Key(item) /\ Compatible(item, wish)
    <3>1. info[i] # Nil /\ info[i].kind \in Managed /\ Key(info[i]) = Key(item)
      BY <2>4, <2>6, NilAssumption
    <3> QED
      BY <1>1, <2>3, <2>4, <3>1, Collects
  <2>8. /\ DOMAIN buckets' = keys
        /\ info'[i] = IF \E c \in Buckets : i \in Idle(c) /\ ~Stays(keys, keep, c, i)
                        THEN Nil ELSE info[i]
    BY <2>1, <2>3, <2>7, RetainKeeps
  <2>9. info'[i] = IF Stays(keys, keep, b, i) THEN info[i] ELSE Nil
    BY <1>1, <2>2, <2>3, <2>8 DEF Owned
  <2>10. ASSUME i \in served
         PROVE  info'[i] # Nil /\ k \in DOMAIN buckets'
    <3>1. \E wish \in requests : Key(wish) = Key(item) /\ Compatible(item, wish)
      BY <1>1, <2>4, <2>6, <2>10 DEF Asked
    <3>2. k \in keys /\ i \in keep
      BY <2>5, <2>7, <3>1
    <3>3. Stays(keys, keep, b, i)
      BY <2>2, <3>2 DEF Stays
    <3> QED
      BY <2>4, <2>8, <2>9, <3>2, <3>3, NilAssumption
  <2>11. ASSUME info'[i] # Nil
         PROVE  \/ \E wish \in requests : Satisfies(info[i], wish)
                \/ \E l \in Leases : returning[l] /\ home[l] = buckets[k]
    <3>1. Stays(keys, keep, b, i)
      BY <2>9, <2>11
    <3>2. CASE i \in keep
      <4>1. PICK wish \in requests : Key(wish) = Key(item) /\ Compatible(item, wish)
        BY <2>7, <3>2
      <4>2. Satisfies(item, wish)
        BY <2>1, <4>1, CompatibleSatisfies
      <4> QED
        BY <2>4, <4>1, <4>2
    <3>3. CASE Held(b)
      BY <2>2, <3>3 DEF Held
    <3>4. b \in Range(buckets)
      BY <2>2 DEF Range
    <3> QED
      BY <3>1, <3>2, <3>3, <3>4 DEF Stays
  <2> QED
    BY <2>10, <2>11
<1>2. TypeInv /\ Owned /\ Keyed /\ Asked /\ [Next]_vars => [Works]_vars
  BY <1>1
<1>3. TypeInv /\ Owned /\ Keyed /\ Asked /\ [Next]_vars => Asked'
  BY AskedStep
<1> QED
  BY TypeInit, TypeStep, OwnedInit, OwnedStep, KeyedInit, KeyedStep, AskedInit,
     <1>2, <1>3, PTL DEF Spec, CollectKeepsWorkingSet
=============================================================================
