----------------------------- MODULE OwnerProofs -----------------------------
(***************************************************************************)
(* Who owns the parts of a buffer or an image: the tracker of owners, and  *)
(* the claims of a recording.                                              *)
(*   The run map and the dense map assign ranges and nothing else; the     *)
(* invariant of the tracker ties the word, the map and the thread that     *)
(* holds the lock together, and each of its steps is one of an atomic map. *)
(*   Ranges are boxes, which cuts divide into parts that cover them and do *)
(* not overlap; a claim hands out just what was not claimed before; what   *)
(* is planned is for the first command in the queue that uses it, which is *)
(* the invariant of a recording, and each of its steps is one of the map.  *)
(***************************************************************************)
EXTENDS Tracking, FiniteSetTheorems, SequenceTheorems, NaturalsInduction,
        WellFoundedInduction, TLAPS

-----------------------------------------------------------------------------
(* Least and greatest numbers                                               *)

\* A nonempty set of natural numbers has a least element.
LEMMA LeastNat ==
    ASSUME NEW T \in SUBSET Nat, NEW k \in T
    PROVE  \E n \in T : \A m \in T : n <= m
<1>1. IsWellFoundedOn(OpToRel(<,Nat), Nat)
  BY NatLessThanWellFounded
<1>2. \E x \in T : \A y \in T : ~ (<<y, x>> \in OpToRel(<,Nat))
  BY <1>1, WFMin
<1>3. ASSUME NEW x \in Nat, NEW y \in Nat, ~ (<<y, x>> \in OpToRel(<,Nat))
      PROVE  x <= y
  BY <1>3 DEF OpToRel
<1> QED
  BY <1>2, <1>3

\* A bounded one has a greatest, which Max finds.
LEMMA GreatestNat ==
    ASSUME NEW T \in SUBSET Nat, NEW k \in T, NEW b \in Nat, \A n \in T : n <= b
    PROVE  Max(T) \in T /\ \A m \in T : m <= Max(T)
<1> DEFINE D == {d \in Nat : b - d \in T}
<1>1. b - k \in D
  OBVIOUS
<1>2. PICK d \in D : \A e \in D : d <= e
  <2> HIDE DEF D
  <2> QED
    BY <1>1, LeastNat DEF D
<1>3. \A m \in T : b - m \in D
  OBVIOUS
<1>4. \A m \in T : m <= b - d
  <2> TAKE m \in T
  <2>1. d <= b - m
    BY <1>2, <1>3
  <2>2. d \in Nat /\ m \in Nat
    BY <1>2
  <2> QED
    BY <2>1, <2>2
<1>5. \E n \in T : \A m \in T : n >= m
  BY <1>2, <1>4
<1> QED
  BY <1>5 DEF Max

-----------------------------------------------------------------------------
(* Runs: the run of a byte, and what assigning a range makes of them        *)

\* Runs in order, of which neighbours may have the same value
IsOrdered(s, V, size) ==
    /\ s \in Seq(V \X Nat) /\ s # <<>>
    /\ StartOf(s, 1) = 0
    /\ \A r \in DOMAIN s : StartOf(s, r) < size
    /\ \A q, r \in DOMAIN s : q < r => StartOf(s, q) < StartOf(s, r)

\* The runs with these indices differ from those before them.
Distinct(s, indices) == \A r \in indices : Value(s, r - 1) # Value(s, r)

IsRuns(s, V, size) == IsOrdered(s, V, size) /\ Distinct(s, 2..Len(s))

\* What the runs are made of.
LEMMA RunParts ==
    ASSUME NEW V, NEW size, NEW s, IsOrdered(s, V, size)
    PROVE  /\ Len(s) \in Nat \ {0} /\ DOMAIN s = 1..Len(s) /\ 1 \in DOMAIN s
           /\ \A r \in DOMAIN s : /\ s[r] \in V \X Nat /\ s[r] = <<Value(s, r), StartOf(s, r)>>
                                  /\ Value(s, r) \in V /\ StartOf(s, r) \in Nat
<1>1. Len(s) \in Nat \ {0} /\ DOMAIN s = 1..Len(s)
  BY DEF IsOrdered
<1>2. \A r \in DOMAIN s : s[r] \in V \X Nat
  BY <1>1 DEF IsOrdered
<1> QED
  BY <1>1, <1>2 DEF Value, StartOf

\* The run of a byte is the last that starts at it or before it.
LEMMA RunOf ==
    ASSUME NEW V, NEW size, NEW s, IsOrdered(s, V, size), NEW x \in Nat
    PROVE  LET r == RunIndexAt(s, x)
           IN  /\ r \in DOMAIN s /\ StartOf(s, r) <= x
               /\ \A q \in DOMAIN s : (q <= r => StartOf(s, q) <= x) /\ (q > r => StartOf(s, q) > x)
<1> DEFINE T == {r \in DOMAIN s : r = 1 \/ StartOf(s, r) <= x}
<1>1. /\ Len(s) \in Nat \ {0} /\ DOMAIN s = 1..Len(s) /\ 1 \in DOMAIN s
      /\ \A r \in DOMAIN s : StartOf(s, r) \in Nat
  BY RunParts
<1>2. T \in SUBSET Nat /\ 1 \in T /\ \A n \in T : n <= Len(s)
  BY <1>1
<1>3. Max(T) \in T /\ \A m \in T : m <= Max(T)
  <2> HIDE DEF T
  <2> QED
    BY <1>1, <1>2, GreatestNat
<1>4. PICK i \in T : i = RunIndexAt(s, x) /\ \A m \in T : m <= i
  BY <1>3 DEF RunIndexAt
<1>5. i \in DOMAIN s /\ StartOf(s, i) <= x
  BY <1>1, <1>4 DEF IsOrdered
<1>6. ASSUME NEW q \in DOMAIN s
      PROVE  (q <= i => StartOf(s, q) <= x) /\ (q > i => StartOf(s, q) > x)
  <2>1. CASE q <= i
    <3>1. q < i => StartOf(s, q) < StartOf(s, i)
      BY <1>5 DEF IsOrdered
    <3> HIDE DEF T
    <3> QED
      BY <2>1, <3>1, <1>1, <1>5
  <2>2. CASE q > i
    <3>1. q \notin T
      <4> HIDE DEF T
      <4> QED
        BY <2>2, <1>1, <1>4, <1>5
    <3> QED
      BY <3>1, <2>2, <1>1, <1>5
  <2> QED
    BY <2>1, <2>2, <1>1, <1>5
<1> QED
  BY <1>4, <1>5, <1>6

\* ... and whatever run starts there or before and is followed by later ones is it.
LEMMA RunIs ==
    ASSUME NEW V, NEW size, NEW s, IsOrdered(s, V, size), NEW x \in Nat,
           NEW r \in DOMAIN s, StartOf(s, r) <= x,
           \A q \in DOMAIN s : q > r => StartOf(s, q) > x
    PROVE  RunIndexAt(s, x) = r
<1> DEFINE i == RunIndexAt(s, x)
<1>1. /\ i \in DOMAIN s
      /\ \A q \in DOMAIN s : (q <= i => StartOf(s, q) <= x) /\ (q > i => StartOf(s, q) > x)
  BY RunOf
<1>2. DOMAIN s \subseteq Nat /\ \A q \in DOMAIN s : StartOf(s, q) \in Nat
  BY RunParts
<1> HIDE DEF i
<1>3. ~(r > i) /\ ~(i > r)
  BY <1>1, <1>2
<1>4. i = r
  BY <1>1, <1>2, <1>3
<1> QED
  BY <1>4 DEF i

\* The beginning of a sequence, two short ones, and the end of the first.
Join(s, a, b, k, l) == SubSeq(s, 1, k) \o a \o b \o SubSeq(s, l + 1, Len(s))

JoinedFrom(j, E, s, a, b, k, l, n) ==
    /\ j \in Seq(E) /\ Len(j) = n + (Len(s) - l)
    /\ \A i \in 1..Len(j) :
            j[i] = IF i <= k THEN s[i]
                   ELSE IF i <= k + Len(a) THEN a[i - k]
                   ELSE IF i <= n THEN b[i - (k + Len(a))]
                   ELSE s[(i - n) + l]

\* What is where in such a sequence
LEMMA Joined ==
    ASSUME NEW E, NEW s \in Seq(E), NEW a \in Seq(E), NEW b \in Seq(E),
           NEW k \in 0..Len(s), NEW l \in 0..Len(s),
           NEW n, n = k + Len(a) + Len(b)
    PROVE  JoinedFrom(Join(s, a, b, k, l), E, s, a, b, k, l, n)
<1> DEFINE c == SubSeq(s, 1, k)  d == SubSeq(s, l + 1, Len(s))
           ca == c \o a  cab == ca \o b  j == cab \o d
<1>1. n \in Nat
  OBVIOUS
<1>2. /\ Len(s) \in Nat /\ Len(a) \in Nat /\ Len(b) \in Nat
      /\ \A i \in 1..Len(s) : s[i] \in E
  OBVIOUS
<1>3. /\ c \in Seq(E) /\ Len(c) = k
      /\ \A i \in 1..k : c[i] = s[i]
  BY <1>2, SubSeqProperties
<1>4. /\ d \in Seq(E) /\ Len(d) = Len(s) - l
      /\ \A i \in 1..Len(s) - l : d[i] = s[i + l]
  <2>1. l + 1 \in Int /\ Len(s) \in Int /\ \A i \in l + 1..Len(s) : s[i] \in E
    BY <1>2
  <2>2. /\ d \in Seq(E)
        /\ Len(d) = IF l + 1 <= Len(s) THEN Len(s) - (l + 1) + 1 ELSE 0
        /\ \A i \in 1..Len(s) - (l + 1) + 1 : d[i] = s[l + 1 + i - 1]
    BY <2>1, SubSeqProperties
  <2> HIDE DEF d
  <2> QED
    BY <1>2, <2>2
<1> HIDE DEF c, d
<1>5. /\ ca \in Seq(E) /\ Len(ca) = k + Len(a)
      /\ \A i \in 1..k + Len(a) : ca[i] = IF i <= k THEN s[i] ELSE a[i - k]
  <2>1. /\ ca \in Seq(E) /\ Len(ca) = Len(c) + Len(a)
        /\ \A i \in 1..Len(c) + Len(a) : ca[i] = IF i <= Len(c) THEN c[i] ELSE a[i - Len(c)]
    BY <1>3, ConcatProperties
  <2> HIDE DEF ca
  <2> QED
    BY <1>2, <1>3, <2>1
<1> HIDE DEF ca
<1>6. /\ cab \in Seq(E) /\ Len(cab) = k + Len(a) + Len(b)
      /\ \A i \in 1..k + Len(a) + Len(b) :
            cab[i] = IF i <= k + Len(a) THEN ca[i] ELSE b[i - (k + Len(a))]
  <2>1. /\ cab \in Seq(E) /\ Len(cab) = Len(ca) + Len(b)
        /\ \A i \in 1..Len(ca) + Len(b) : cab[i] = IF i <= Len(ca) THEN ca[i] ELSE b[i - Len(ca)]
    BY <1>5, ConcatProperties
  <2> HIDE DEF cab
  <2> QED
    BY <1>5, <2>1
<1> HIDE DEF cab
<1>7. /\ j \in Seq(E) /\ Len(j) = n + (Len(s) - l)
      /\ \A i \in 1..Len(j) : j[i] = IF i <= n THEN cab[i] ELSE d[i - n]
  <2>1. /\ j \in Seq(E) /\ Len(j) = Len(cab) + Len(d)
        /\ \A i \in 1..Len(cab) + Len(d) : j[i] = IF i <= Len(cab) THEN cab[i] ELSE d[i - Len(cab)]
    <3>1. cab \in Seq(E) /\ d \in Seq(E)
      BY <1>4, <1>6
    <3> QED
      BY <3>1, ConcatProperties
  <2> HIDE DEF j
  <2> QED
    BY <1>4, <1>6, <2>1
<1> HIDE DEF j
<1>8. ASSUME NEW i \in 1..Len(j)
      PROVE  j[i] = IF i <= k THEN s[i]
                    ELSE IF i <= k + Len(a) THEN a[i - k]
                    ELSE IF i <= n THEN b[i - (k + Len(a))]
                    ELSE s[(i - n) + l]
  <2>1. CASE i <= k
    BY SMTT(40), <2>1, <1>2, <1>5, <1>6, <1>7
  <2>2. CASE ~(i <= k) /\ i <= k + Len(a)
    BY SMTT(40), <2>2, <1>1, <1>2, <1>5, <1>6, <1>7
  <2>3. CASE ~(i <= k + Len(a)) /\ i <= n
    BY <2>3, <1>1, <1>2, <1>6, <1>7
  <2>4. CASE ~(i <= n)
    <3>1. i - n \in 1..Len(s) - l
      BY <2>4, <1>1, <1>2, <1>7
    <3>2. j[i] = d[i - n] /\ d[i - n] = s[(i - n) + l]
      BY <2>4, <3>1, <1>4, <1>7
    <3>3. ~(i <= k) /\ ~(i <= k + Len(a))
      BY <2>4, <1>2
    <3> QED
      BY <2>4, <3>2, <3>3
  <2> QED
    BY <1>2, <2>1, <2>2, <2>3, <2>4
<1> QED
  BY <1>7, <1>8 DEF j, c, d, ca, cab, Join, JoinedFrom

\* z is the runs of s up to k, m runs of the value from the beginning of a range on, w of
\* what follows the range, and the runs of s after the last; n is how many come before those.
Splices(s, size, z, value, from, to, k, m, w, n, last) ==
    /\ k \in Nat /\ m \in {0, 1} /\ w \in {0, 1} /\ n = k + m + w
    /\ last \in 1..Len(s) /\ k <= last
    /\ StartOf(s, last) <= to /\ \A q \in 1..Len(s) : q > last => StartOf(s, q) > to
    /\ \A r \in 1..k : StartOf(s, r) < from
    /\ \A r \in 1..Len(s) : r > k => StartOf(s, r) >= from
    /\ m = 0 => k >= 1 /\ Value(s, k) = value
    /\ w = 0 => to = size \/ Value(s, last) = value
    /\ w = 1 => to < size
    /\ Len(z) = n + (Len(s) - last)
    /\ \A i \in 1..k : z[i] = s[i]
    /\ m = 1 => z[k + 1] = <<value, from>>
    /\ w = 1 => z[k + m + 1] = <<Value(s, last), to>>
    /\ \A i \in n + 1..Len(z) : z[i] = s[(i - n) + last]

\* Neither the run of the value nor what follows it is the same as what it comes after.
SetsApart(s, value, k, m, w, last) ==
    /\ m = 1 => k = 0 \/ Value(s, k) # value
    /\ w = 1 => Value(s, last) # value

\* The runs z are those of s with the value where a range is.
Changes(z, s, size, value, from, to) ==
    \A x \in 0..size - 1 :
        RunValueAt(z, x) = IF from <= x /\ x < to THEN value ELSE RunValueAt(s, x)

Assigns(z, s, V, size, value, from, to) ==
    IsRuns(z, V, size) /\ Changes(z, s, size, value, from, to)

\* Such a map has the value where the range is, and its runs are in order.
LEMMA SplicedOrder ==
    ASSUME NEW V, NEW size \in Nat, NEW s, IsOrdered(s, V, size), NEW value \in V,
           NEW from \in Nat, NEW to \in Nat, from < to, to <= size,
           NEW k, NEW m, NEW w, NEW n, NEW last, NEW z \in Seq(V \X Nat),
           Splices(s, size, z, value, from, to, k, m, w, n, last)
    PROVE  IsOrdered(z, V, size) /\ Changes(z, s, size, value, from, to)
<1>1. /\ Len(s) \in Nat \ {0} /\ DOMAIN s = 1..Len(s)
      /\ \A r \in 1..Len(s) : Value(s, r) \in V /\ StartOf(s, r) \in Nat
  BY RunParts
<1>2. /\ StartOf(s, 1) = 0
      /\ \A r \in 1..Len(s) : StartOf(s, r) < size
  BY <1>1 DEF IsOrdered
<1>3. \A q, r \in 1..Len(s) : q < r => StartOf(s, q) < StartOf(s, r)
  BY <1>1 DEF IsOrdered
\* Numbers
<1>5. /\ k \in Nat /\ m \in {0, 1} /\ w \in {0, 1} /\ n \in Nat /\ n = k + m + w
      /\ last \in 1..Len(s) /\ k <= last
      /\ Len(z) = n + (Len(s) - last) /\ Len(z) \in Nat /\ n <= Len(z)
  <2>1. /\ k \in Nat /\ m \in {0, 1} /\ w \in {0, 1} /\ n = k + m + w
        /\ last \in 1..Len(s) /\ k <= last /\ Len(z) = n + (Len(s) - last)
    BY DEF Splices
  <2>2. n \in Nat
    BY <2>1
  <2>3. Len(s) - last \in Nat
    BY <2>1, <1>1
  <2> QED
    BY <2>1, <2>2, <2>3
<1>6. DOMAIN z = 1..Len(z)
  BY DEF Splices
<1>7. StartOf(s, last) <= to /\ \A q \in 1..Len(s) : q > last => StartOf(s, q) > to
  BY DEF Splices
<1>8. /\ \A r \in 1..k : StartOf(s, r) < from
      /\ \A r \in 1..Len(s) : r > k => StartOf(s, r) >= from
  BY DEF Splices
<1>9. /\ m = 0 => k >= 1 /\ Value(s, k) = value
      /\ w = 0 => to = size \/ Value(s, last) = value
      /\ w = 1 => to < size
  BY DEF Splices
\* Runs
<1>10. \A i \in 1..k : i \in 1..Len(z) /\ i \in 1..Len(s)
             /\ StartOf(z, i) = StartOf(s, i) /\ Value(z, i) = Value(s, i)
  <2>1. \A i \in 1..k : z[i] = s[i]
    BY DEF Splices
  <2>2. \A i \in 1..k : i \in 1..Len(z) /\ i \in 1..Len(s)
    BY SMTT(40), <1>1, <1>5
  <2> QED
    BY <2>1, <2>2 DEF StartOf, Value
<1>11. m = 1 => StartOf(z, k + 1) = from /\ Value(z, k + 1) = value
  BY SMTT(40) DEF Splices, StartOf, Value
<1>12. w = 1 => StartOf(z, k + m + 1) = to /\ Value(z, k + m + 1) = Value(s, last)
  <2>1. w = 1 => z[k + m + 1] = <<Value(s, last), to>>
    BY DEF Splices
  <2> QED
    BY <2>1 DEF StartOf, Value
<1>13. ASSUME NEW i \in n + 1..Len(z)
       PROVE  /\ (i - n) + last \in 1..Len(s) /\ (i - n) + last > last
              /\ StartOf(z, i) = StartOf(s, (i - n) + last)
              /\ Value(z, i) = Value(s, (i - n) + last)
              /\ StartOf(z, i) > to
  <2>1. (i - n) + last \in 1..Len(s) /\ (i - n) + last > last
    BY <1>1, <1>5
  <2>2. z[i] = s[(i - n) + last]
    BY DEF Splices
  <2>3. /\ StartOf(z, i) = StartOf(s, (i - n) + last)
        /\ Value(z, i) = Value(s, (i - n) + last)
    BY <2>2 DEF StartOf, Value
  <2> QED
    BY <2>1, <2>3, <1>7
<1>14. \A i \in 1..Len(z) :
          \/ i <= k /\ StartOf(z, i) < from
          \/ i = k + 1 /\ m = 1 /\ StartOf(z, i) = from
          \/ i = k + m + 1 /\ w = 1 /\ StartOf(z, i) = to
          \/ i > n /\ StartOf(z, i) > to
  <2> TAKE i \in 1..Len(z)
  <2>1. CASE i <= k
    BY <2>1, <1>5, <1>8, <1>10
  <2>2. CASE i > n
    BY <2>2, <1>5, <1>13
  <2>3. CASE k < i /\ i <= n
    <3>1. (m = 1 /\ i = k + 1) \/ (w = 1 /\ i = k + m + 1)
      BY SMTT(40), <2>3, <1>5
    <3> QED
      BY <3>1, <1>11, <1>12
  <2> QED
    BY <2>1, <2>2, <2>3, <1>5
<1>15. \A i \in 1..Len(z) : StartOf(z, i) \in Nat /\ StartOf(z, i) < size
  <2> TAKE i \in 1..Len(z)
  <2>1. CASE i <= k
    <3>1. i \in 1..k
      BY <2>1, <1>5
    <3> QED
      BY <3>1, <1>1, <1>2, <1>10
  <2>2. CASE i > n
    <3>1. i \in n + 1..Len(z)
      BY <2>2, <1>5
    <3>2. StartOf(z, i) = StartOf(s, (i - n) + last) /\ (i - n) + last \in 1..Len(s)
      BY <3>1, <1>13
    <3> QED
      BY <3>2, <1>1, <1>2
  <2>3. CASE StartOf(z, i) = from \/ (StartOf(z, i) = to /\ w = 1)
    BY <2>3, <1>9
  <2> QED
    BY <2>1, <2>2, <2>3, <1>14
<1>16. \A q, r \in 1..Len(z) : q < r => StartOf(z, q) < StartOf(z, r)
  <2> SUFFICES ASSUME NEW q \in 1..Len(z), NEW r \in 1..Len(z), q < r
               PROVE  StartOf(z, q) < StartOf(z, r)
    OBVIOUS
  <2>1. CASE r <= k
    <3>1. q \in 1..k /\ r \in 1..k
      BY <2>1, <1>5
    <3> QED
      BY <3>1, <1>3, <1>10
  <2>2. CASE q > n
    <3>1. q \in n + 1..Len(z) /\ r \in n + 1..Len(z) /\ (q - n) + last < (r - n) + last
      BY <2>2, <1>1, <1>5
    <3>2. /\ (q - n) + last \in 1..Len(s) /\ StartOf(z, q) = StartOf(s, (q - n) + last)
          /\ (r - n) + last \in 1..Len(s) /\ StartOf(z, r) = StartOf(s, (r - n) + last)
      BY <3>1, <1>13
    <3> QED
      BY <3>1, <3>2, <1>3
  <2>3. CASE ~(r <= k) /\ ~(q > n)
    <3>1. (StartOf(z, q) < from /\ q <= k) \/ (StartOf(z, q) = from /\ q = k + 1 /\ m = 1)
            \/ (StartOf(z, q) = to /\ q = k + m + 1 /\ w = 1)
      BY <2>3, <1>14
    <3>2. (StartOf(z, r) = from /\ r = k + 1 /\ m = 1)
            \/ (StartOf(z, r) = to /\ r = k + m + 1 /\ w = 1) \/ (StartOf(z, r) > to /\ r > n)
      BY <2>3, <1>14
    <3>3. StartOf(z, q) \in Nat /\ StartOf(z, r) \in Nat
      BY <1>15
    <3>4. ~(StartOf(z, q) = from /\ StartOf(z, r) = from) /\ ~(StartOf(z, q) = to /\ StartOf(z, r) = to)
      <4>1. CASE StartOf(z, q) = from /\ StartOf(z, r) = from
        <5>1. q = k + 1 /\ r = k + 1
          BY <3>1, <3>2, <4>1, <2>3, <1>5
        <5> QED
          BY <5>1
      <4>2. CASE StartOf(z, q) = to /\ StartOf(z, r) = to
        <5>1. q = k + m + 1 /\ r = k + m + 1
          BY <3>1, <3>2, <4>2, <2>3, <1>5
        <5> QED
          BY <5>1
      <4> QED
        BY <4>1, <4>2
    <3>5. ~(StartOf(z, q) = to /\ StartOf(z, r) = from)
      <4>1. SUFFICES ASSUME StartOf(z, q) = to, StartOf(z, r) = from
                     PROVE  FALSE
        OBVIOUS
      <4>2. q = k + m + 1 /\ r = k + 1
        BY <3>1, <3>2, <4>1, <2>3, <1>5
      <4> QED
        BY <4>2, <1>5
    <3> QED
      BY <3>1, <3>2, <3>3, <3>4, <3>5
  <2> QED
    BY <2>1, <2>2, <2>3, <1>5
<1>17. z # <<>> /\ StartOf(z, 1) = 0
  <2>1. CASE k = 0
    <3>1. from = 0
      <4>1. 1 \in 1..Len(s) /\ 1 > k
        BY <2>1, <1>1
      <4>2. StartOf(s, 1) >= from
        BY <4>1, <1>8
      <4> QED
        BY <4>2, <1>2
    <3> QED
      BY <2>1, <3>1, <1>5, <1>9, <1>11
  <2>2. CASE k > 0
    <3>1. 1 \in 1..k
      BY <2>2, <1>5
    <3> QED
      BY <3>1, <1>2, <1>5, <1>10
  <2> QED
    BY <2>1, <2>2, <1>5
<1>19. IsOrdered(z, V, size)
  BY <1>6, <1>15, <1>16, <1>17 DEF IsOrdered
<1>20. ASSUME NEW x \in 0..size - 1
       PROVE  RunValueAt(z, x) = IF from <= x /\ x < to THEN value ELSE RunValueAt(s, x)
  <2> DEFINE r == RunIndexAt(s, x)
  <2>1. x \in Nat
    OBVIOUS
  <2>2. /\ r \in 1..Len(s) /\ StartOf(s, r) <= x
        /\ \A q \in 1..Len(s) : (q <= r => StartOf(s, q) <= x) /\ (q > r => StartOf(s, q) > x)
    <3>1. /\ r \in DOMAIN s /\ StartOf(s, r) <= x
          /\ \A q \in DOMAIN s : (q <= r => StartOf(s, q) <= x) /\ (q > r => StartOf(s, q) > x)
      BY <2>1, RunOf
    <3> QED
      BY <3>1, <1>1
  <2>3. RunValueAt(s, x) = Value(s, r)
    BY DEF RunValueAt
  <2> HIDE DEF r
  <2>4. ASSUME NEW i \in 1..Len(z), StartOf(z, i) <= x,
               \A q \in 1..Len(z) : q > i => StartOf(z, q) > x
        PROVE  RunValueAt(z, x) = Value(z, i)
    <3>1. RunIndexAt(z, x) = i
      BY <2>1, <2>4, <1>6, <1>19, RunIs
    <3> QED
      BY <3>1 DEF RunValueAt
  <2>5. CASE x < from
    <3>1. r \in 1..k
      BY SMTT(40), <2>2, <2>5, <1>1, <1>5, <1>8
    <3>2. ASSUME NEW q \in 1..Len(z), q > r
          PROVE  StartOf(z, q) > x
      <4>1. CASE q <= k
        <5>1. q \in 1..k
          BY <4>1, <1>5
        <5> QED
          BY <3>2, <5>1, <2>2, <1>10
      <4>2. CASE q > k
        <5>1. StartOf(z, q) >= from /\ StartOf(z, q) \in Nat
          BY SMTT(40), <4>2, <1>5, <1>14, <1>15
        <5> QED
          BY <5>1, <2>5
      <4> QED
        BY <4>1, <4>2, <1>5
    <3>3. r \in 1..Len(z) /\ StartOf(z, r) <= x /\ Value(z, r) = Value(s, r)
      BY <3>1, <2>2, <1>10
    <3> QED
      BY <3>2, <3>3, <2>3, <2>4, <2>5
  <2>6. CASE x >= from /\ x < to
    <3>1. k + m \in 1..Len(z) /\ StartOf(z, k + m) <= x /\ Value(z, k + m) = value
      <4>1. CASE m = 1
        BY <4>1, <2>6, <1>5, <1>11
      <4>2. CASE m = 0
        <5>1. k \in 1..k /\ k + m = k
          BY <4>2, <1>5, <1>9
        <5>2. StartOf(s, k) < from /\ StartOf(s, k) \in Nat
          BY <5>1, <1>1, <1>8, <1>10
        <5> QED
          BY <4>2, <5>1, <5>2, <2>6, <1>9, <1>10
      <4> QED
        BY <4>1, <4>2, <1>5
    <3>2. ASSUME NEW q \in 1..Len(z), q > k + m
          PROVE  StartOf(z, q) > x
      <4>1. StartOf(z, q) >= to /\ StartOf(z, q) \in Nat
        <5>1. ~(q <= k) /\ ~(q = k + 1 /\ m = 1)
          BY SMTT(40), <3>2, <1>5
        <5>2. StartOf(z, q) = to \/ StartOf(z, q) > to
          BY <5>1, <1>14
        <5> QED
          BY <5>2, <1>15
      <4> QED
        BY <4>1, <2>6
    <3> QED
      BY <3>1, <3>2, <2>4, <2>6
  <2>7. CASE x >= to
    <3>1. r >= last /\ to < size
      BY SMTT(40), <2>2, <2>7, <1>1, <1>5, <1>7
    <3>2. CASE r = last
      <4>1. n \in 1..Len(z) /\ StartOf(z, n) <= x /\ Value(z, n) = Value(s, last)
        <5>1. CASE w = 1
          BY <5>1, <2>7, <1>5, <1>12
        <5>2. CASE w = 0 /\ m = 1
          BY <5>2, <3>1, <2>7, <1>5, <1>9, <1>11
        <5>3. CASE w = 0 /\ m = 0
          <6>1. k \in 1..k /\ n = k
            BY <5>3, <1>5, <1>9
          <6>2. StartOf(s, k) < from /\ StartOf(s, k) \in Nat
            BY <6>1, <1>1, <1>8, <1>10
          <6> QED
            BY <5>3, <6>1, <6>2, <3>1, <2>7, <1>9, <1>10
        <5> QED
          BY <5>1, <5>2, <5>3, <1>5
      <4>2. ASSUME NEW q \in 1..Len(z), q > n
            PROVE  StartOf(z, q) > x
        <5>1. q \in n + 1..Len(z)
          BY <4>2, <1>5
        <5>2. (q - n) + last \in 1..Len(s) /\ StartOf(z, q) = StartOf(s, (q - n) + last) /\ (q - n) + last > r
          BY <5>1, <3>2, <1>13
        <5> QED
          BY <5>2, <2>2
      <4> QED
        BY <4>1, <4>2, <3>2, <2>3, <2>4, <2>7
    <3>3. CASE r > last
      <4> DEFINE i == n + (r - last)
      <4>1. i \in n + 1..Len(z) /\ i \in 1..Len(z) /\ (i - n) + last = r
        BY <3>3, <2>2, <1>1, <1>5
      <4> HIDE DEF i
      <4>2. StartOf(z, i) = StartOf(s, r) /\ Value(z, i) = Value(s, r)
        BY <4>1, <1>13
      <4>3. ASSUME NEW q \in 1..Len(z), q > i
            PROVE  StartOf(z, q) > x
        <5>1. q \in n + 1..Len(z) /\ (q - n) + last > r
          BY SMTT(40), <4>1, <4>3, <2>2, <1>1, <1>5
        <5>2. (q - n) + last \in 1..Len(s) /\ StartOf(z, q) = StartOf(s, (q - n) + last)
          BY <5>1, <1>13
        <5> QED
          BY <5>1, <5>2, <2>2
      <4> QED
        BY <4>1, <4>2, <4>3, <2>2, <2>3, <2>4, <2>7
    <3> QED
      BY <3>1, <3>2, <3>3, <2>2, <1>1, <1>5
  <2> QED
    BY <2>1, <2>5, <2>6, <2>7
<1> QED
  BY <1>19, <1>20 DEF Changes

\* The neighbours in it differ where those in s do.
LEMMA SplicedDistinct ==
    ASSUME NEW V, NEW size \in Nat, NEW s, IsOrdered(s, V, size), NEW value \in V,
           NEW from \in Nat, NEW to \in Nat, from < to, to <= size,
           NEW k, NEW m, NEW w, NEW n, NEW last, NEW z \in Seq(V \X Nat),
           Splices(s, size, z, value, from, to, k, m, w, n, last),
           SetsApart(s, value, k, m, w, last),
           Distinct(s, 2..k), Distinct(s, last + 1..Len(s))
    PROVE  Distinct(z, 2..Len(z))
<1>1. /\ Len(s) \in Nat \ {0} /\ DOMAIN s = 1..Len(s)
      /\ \A r \in 1..Len(s) : Value(s, r) \in V /\ StartOf(s, r) \in Nat
  BY RunParts
<1>2. /\ StartOf(s, 1) = 0
      /\ \A r \in 1..Len(s) : StartOf(s, r) < size
  BY <1>1 DEF IsOrdered
<1>3. \A q, r \in 1..Len(s) : q < r => StartOf(s, q) < StartOf(s, r)
  BY <1>1 DEF IsOrdered
<1>4. /\ \A r \in 2..k : Value(s, r - 1) # Value(s, r)
      /\ \A r \in last + 1..Len(s) : Value(s, r - 1) # Value(s, r)
  BY DEF Distinct
\* Numbers
<1>5. /\ k \in Nat /\ m \in {0, 1} /\ w \in {0, 1} /\ n \in Nat /\ n = k + m + w
      /\ last \in 1..Len(s) /\ k <= last
      /\ Len(z) = n + (Len(s) - last) /\ Len(z) \in Nat /\ n <= Len(z)
  <2>1. /\ k \in Nat /\ m \in {0, 1} /\ w \in {0, 1} /\ n = k + m + w
        /\ last \in 1..Len(s) /\ k <= last /\ Len(z) = n + (Len(s) - last)
    BY DEF Splices
  <2>2. n \in Nat
    BY <2>1
  <2>3. Len(s) - last \in Nat
    BY <2>1, <1>1
  <2> QED
    BY <2>1, <2>2, <2>3
<1>6. DOMAIN z = 1..Len(z)
  BY DEF Splices
<1>7. StartOf(s, last) <= to /\ \A q \in 1..Len(s) : q > last => StartOf(s, q) > to
  BY DEF Splices
<1>8. /\ \A r \in 1..k : StartOf(s, r) < from
      /\ \A r \in 1..Len(s) : r > k => StartOf(s, r) >= from
  BY DEF Splices
<1>9. /\ m = 0 => k >= 1 /\ Value(s, k) = value
      /\ m = 1 => k = 0 \/ Value(s, k) # value
      /\ w = 0 => to = size \/ Value(s, last) = value
      /\ w = 1 => to < size /\ Value(s, last) # value
  BY DEF Splices, SetsApart
\* Runs
<1>10. \A i \in 1..k : i \in 1..Len(z) /\ i \in 1..Len(s)
             /\ StartOf(z, i) = StartOf(s, i) /\ Value(z, i) = Value(s, i)
  <2>1. \A i \in 1..k : z[i] = s[i]
    BY DEF Splices
  <2>2. \A i \in 1..k : i \in 1..Len(z) /\ i \in 1..Len(s)
    BY SMTT(40), <1>1, <1>5
  <2> QED
    BY <2>1, <2>2 DEF StartOf, Value
<1>11. m = 1 => StartOf(z, k + 1) = from /\ Value(z, k + 1) = value
  BY SMTT(40) DEF Splices, StartOf, Value
<1>12. w = 1 => StartOf(z, k + m + 1) = to /\ Value(z, k + m + 1) = Value(s, last)
  <2>1. w = 1 => z[k + m + 1] = <<Value(s, last), to>>
    BY DEF Splices
  <2> QED
    BY <2>1 DEF StartOf, Value
<1>13. ASSUME NEW i \in n + 1..Len(z)
       PROVE  /\ (i - n) + last \in 1..Len(s) /\ (i - n) + last > last
              /\ StartOf(z, i) = StartOf(s, (i - n) + last)
              /\ Value(z, i) = Value(s, (i - n) + last)
              /\ StartOf(z, i) > to
  <2>1. (i - n) + last \in 1..Len(s) /\ (i - n) + last > last
    BY <1>1, <1>5
  <2>2. z[i] = s[(i - n) + last]
    BY DEF Splices
  <2>3. /\ StartOf(z, i) = StartOf(s, (i - n) + last)
        /\ Value(z, i) = Value(s, (i - n) + last)
    BY <2>2 DEF StartOf, Value
  <2> QED
    BY <2>1, <2>3, <1>7
<1>18. \A r \in 2..Len(z) : Value(z, r - 1) # Value(z, r)
  <2> TAKE r \in 2..Len(z)
  <2>1. CASE r <= k
    <3>1. r \in 1..k /\ r - 1 \in 1..k /\ r \in 2..Len(s)
      BY <2>1, <1>1, <1>5
    <3> QED
      BY <3>1, <1>4, <1>10
  <2>2. CASE r = k + 1 /\ m = 1
    <3>1. r - 1 = k /\ k \in 1..k
      BY <2>2, <1>5
    <3>2. Value(z, r) = value /\ Value(z, k) = Value(s, k) /\ Value(s, k) # value
      BY <2>2, <3>1, <1>9, <1>10, <1>11
    <3> QED
      BY <3>1, <3>2
  <2>3. CASE r = k + m + 1 /\ w = 1
    <3>1. Value(z, r) # value
      BY <2>3, <1>9, <1>12
    <3>2. CASE m = 1
      BY <2>3, <3>1, <3>2, <1>5, <1>11
    <3>3. CASE m = 0
      <4>1. r - 1 = k /\ k \in 1..k
        BY <2>3, <3>3, <1>5
      <4> QED
        BY <3>1, <3>3, <4>1, <1>9, <1>10
    <3> QED
      BY <3>2, <3>3, <1>5
  <2>4. CASE r = n + 1
    <3>1. last + 1 \in 1..Len(s) /\ last + 1 \in 2..Len(s) /\ Value(z, r) = Value(s, last + 1)
      <4>1. r \in n + 1..Len(z) /\ (r - n) + last = last + 1
        BY <2>4, <1>1, <1>5
      <4> QED
        BY SMTT(40), <4>1, <1>1, <1>5, <1>13
    <3>2. Value(s, last) # Value(s, last + 1)
      <4>1. (last + 1) - 1 = last
        BY <1>1, <1>5
      <4> QED
        BY <3>1, <4>1, <1>4
    <3>3. CASE w = 1
      <4>1. r - 1 = k + m + 1
        BY <2>4, <3>3, <1>5
      <4> QED
        BY <3>1, <3>2, <3>3, <4>1, <1>12
    <3>4. CASE w = 0
      <4>1. to < size
        BY SMTT(40), <3>1, <1>1, <1>2, <1>5, <1>7
      <4>2. Value(s, last) = value
        BY <3>4, <4>1, <1>9
      <4>3. Value(z, r - 1) = value
        <5>1. CASE m = 1
          <6>1. r - 1 = k + 1
            BY <2>4, <3>4, <5>1, <1>5
          <6> QED
            BY <5>1, <6>1, <1>11
        <5>2. CASE m = 0
          <6>1. r - 1 = k /\ k \in 1..k
            BY <2>4, <3>4, <5>2, <1>5, <1>9
          <6> QED
            BY <5>2, <6>1, <1>9, <1>10
        <5> QED
          BY <5>1, <5>2, <1>5
      <4> QED
        BY <3>1, <3>2, <4>2, <4>3
    <3> QED
      BY <3>3, <3>4, <1>5
  <2>5. CASE r > n + 1
    <3>1. r \in n + 1..Len(z) /\ r - 1 \in n + 1..Len(z)
      BY <2>5, <1>5
    <3>2. ((r - 1) - n) + last = ((r - n) + last) - 1 /\ (r - n) + last \in last + 1..Len(s)
      BY <3>1, <2>5, <1>1, <1>5
    <3>3. /\ Value(z, r) = Value(s, (r - n) + last)
          /\ Value(z, r - 1) = Value(s, ((r - 1) - n) + last)
      BY <3>1, <1>13
    <3> QED
      BY <3>2, <3>3, <1>4
  <2>6. r <= k \/ (r = k + 1 /\ m = 1) \/ (r = k + m + 1 /\ w = 1) \/ r = n + 1 \/ r > n + 1
    BY SMTT(40), <1>5
  <2> QED
    BY <2>1, <2>2, <2>3, <2>4, <2>5, <2>6
<1> QED
  BY <1>18 DEF Distinct

\* So it is in form if s is and the value is set apart.
LEMMA Spliced ==
    ASSUME NEW V, NEW size \in Nat, NEW s, IsRuns(s, V, size), NEW value \in V,
           NEW from \in Nat, NEW to \in Nat, from < to, to <= size,
           NEW k, NEW m, NEW w, NEW n, NEW last, NEW z \in Seq(V \X Nat),
           Splices(s, size, z, value, from, to, k, m, w, n, last),
           SetsApart(s, value, k, m, w, last)
    PROVE  Assigns(z, s, V, size, value, from, to)
<1>1. IsOrdered(s, V, size) /\ Distinct(s, 2..Len(s))
  BY DEF IsRuns
<1>2. Len(s) \in Nat /\ k \in Nat /\ last \in 1..Len(s) /\ k <= last
  <2>1. Len(s) \in Nat
    BY <1>1, RunParts
  <2> QED
    BY <2>1 DEF Splices
<1>3. Distinct(s, 2..k) /\ Distinct(s, last + 1..Len(s))
  <2>1. 2..k \subseteq 2..Len(s) /\ last + 1..Len(s) \subseteq 2..Len(s)
    BY <1>2
  <2> QED
    BY <2>1, <1>1 DEF Distinct
<1>4. IsOrdered(z, V, size) /\ Changes(z, s, size, value, from, to)
  BY <1>1, SplicedOrder
<1>5. Distinct(z, 2..Len(z))
  BY <1>1, <1>3, SplicedDistinct
<1> QED
  BY <1>4, <1>5 DEF Assigns, IsRuns

\* One run covers everything, and where there is one everything has its value.
LEMMA UniformRuns ==
    ASSUME NEW V, NEW value \in V, NEW size \in Nat, 0 < size
    PROVE  /\ IsRuns(RunsOf(value), V, size) /\ Len(RunsOf(value)) = 1
           /\ \A x \in 0..size - 1 : RunValueAt(RunsOf(value), x) = value
<1> DEFINE s == RunsOf(value)
<1>1. s \in Seq(V \X Nat) /\ Len(s) = 1 /\ DOMAIN s = 1..1 /\ s[1] = <<value, 0>> /\ s # <<>>
  BY DEF RunsOf
<1>2. StartOf(s, 1) = 0 /\ Value(s, 1) = value
  BY <1>1 DEF StartOf, Value
<1> HIDE DEF s
<1>3. IsRuns(s, V, size)
  BY <1>1, <1>2 DEF IsRuns, IsOrdered, Distinct
<1>4. ASSUME NEW x \in 0..size - 1
      PROVE  RunValueAt(s, x) = value
  <2>1. RunIndexAt(s, x) \in DOMAIN s
    BY <1>3, RunOf DEF IsRuns
  <2> QED
    BY <2>1, <1>1, <1>2 DEF RunValueAt
<1> QED
  BY <1>1, <1>3, <1>4 DEF s

\* A single run gives everything its value.
LEMMA OneRun ==
    ASSUME NEW V, NEW size \in Nat, NEW s, IsRuns(s, V, size), Len(s) = 1
    PROVE  Value(s, 1) \in V /\ \A x \in 0..size - 1 : RunValueAt(s, x) = Value(s, 1)
<1>1. DOMAIN s = 1..1 /\ Value(s, 1) \in V
  BY RunParts DEF IsRuns
<1>2. ASSUME NEW x \in 0..size - 1
      PROVE  RunValueAt(s, x) = Value(s, 1)
  <2>1. RunIndexAt(s, x) \in DOMAIN s
    BY RunOf DEF IsRuns
  <2> QED
    BY <2>1, <1>1 DEF RunValueAt
<1> QED
  BY <1>1, <1>2

\* ReplaceRuns makes such a map.
LEMMA Replaced ==
    ASSUME NEW V, NEW size \in Nat, NEW s, IsRuns(s, V, size), NEW value \in V,
           NEW from \in Nat, NEW to \in Nat, from < to, to <= size
    PROVE  Assigns(ReplaceRuns(s, size, value, <<from, to>>),
                   s, V, size, value, from, to)
<1> DEFINE first == RunIndexAt(s, from)
           last == RunIndexAt(s, to)
           at == IF StartOf(s, first) < from THEN first + 1 ELSE first
           k == at - 1
           a == IF at = 1 \/ Value(s, at - 1) # value THEN <<<<value, from>>>> ELSE <<>>
           b == IF to < size /\ Value(s, last) # value THEN <<<<Value(s, last), to>>>> ELSE <<>>
           m == Len(a)
           w == Len(b)
           n == k + m + w
           z == SubSeq(s, 1, k) \o a \o b \o SubSeq(s, last + 1, Len(s))
           E == V \X Nat
<1>1. /\ Len(s) \in Nat \ {0} /\ DOMAIN s = 1..Len(s)
      /\ \A r \in 1..Len(s) : Value(s, r) \in V /\ StartOf(s, r) \in Nat
  BY RunParts DEF IsRuns
<1>2. /\ s \in Seq(E) /\ StartOf(s, 1) = 0
      /\ \A q, r \in 1..Len(s) : q < r => StartOf(s, q) < StartOf(s, r)
  BY <1>1 DEF IsRuns, IsOrdered, Distinct
<1>3. /\ first \in 1..Len(s) /\ StartOf(s, first) <= from
      /\ \A q \in 1..Len(s) : (q <= first => StartOf(s, q) <= from) /\ (q > first => StartOf(s, q) > from)
  <2>1. /\ first \in DOMAIN s /\ StartOf(s, first) <= from
        /\ \A q \in DOMAIN s : (q <= first => StartOf(s, q) <= from) /\ (q > first => StartOf(s, q) > from)
    BY RunOf DEF IsRuns
  <2> QED
    BY <2>1, <1>1
<1>4. /\ last \in 1..Len(s) /\ StartOf(s, last) <= to
      /\ \A q \in 1..Len(s) : (q <= last => StartOf(s, q) <= to) /\ (q > last => StartOf(s, q) > to)
  <2>1. /\ last \in DOMAIN s /\ StartOf(s, last) <= to
        /\ \A q \in DOMAIN s : (q <= last => StartOf(s, q) <= to) /\ (q > last => StartOf(s, q) > to)
    BY RunOf DEF IsRuns
  <2> QED
    BY <2>1, <1>1
<1>5. ReplaceRuns(s, size, value, <<from, to>>) = z
  BY DEF ReplaceRuns
<1> HIDE DEF first, last
\* The runs before the range are kept; a run that it only touches at its end too.
<1>6. /\ at \in Nat /\ k \in 0..Len(s) /\ k <= last /\ (at = 1 <=> k = 0)
      /\ \A r \in 1..k : StartOf(s, r) < from
      /\ \A r \in 1..Len(s) : r > k => StartOf(s, r) >= from
  <2>1. first <= last
    BY <1>1, <1>3, <1>4
  <2>2. CASE StartOf(s, first) < from
    <3>1. at = first + 1 /\ k = first
      BY <2>2, <1>3
    <3>2. \A r \in 1..first : StartOf(s, r) < from
      <4>1. \A r \in 1..first : r \in 1..Len(s) /\ (r = first \/ StartOf(s, r) < StartOf(s, first))
        BY <1>2, <1>3
      <4> QED
        BY <4>1, <2>2, <1>1, <1>3
    <3> HIDE DEF at
    <3> QED
      BY <2>1, <3>1, <3>2, <1>1, <1>3
  <2>3. CASE StartOf(s, first) = from
    <3>1. at = first /\ k = first - 1
      BY <2>3, <1>3
    <3>2. \A r \in 1..first - 1 : StartOf(s, r) < from
      <4>1. \A r \in 1..first - 1 : r \in 1..Len(s) /\ r < first
        BY <1>1, <1>3
      <4> QED
        BY <4>1, <2>3, <1>2, <1>3
    <3>3. \A r \in 1..Len(s) : r > first - 1 => StartOf(s, r) >= from
      <4>1. \A r \in 1..Len(s) : r > first - 1 => r = first \/ first < r
        BY <1>3
      <4> QED
        BY <4>1, <2>3, <1>1, <1>3
    <3> HIDE DEF at
    <3> QED
      BY <2>1, <3>1, <3>2, <3>3, <1>1, <1>3, <1>4
  <2> QED
    BY <2>2, <2>3, <1>1, <1>3
<1> HIDE DEF at
<1>7. /\ a \in Seq(E) /\ b \in Seq(E) /\ m \in {0, 1} /\ w \in {0, 1}
      /\ m = 1 => a[1] = <<value, from>>
      /\ w = 1 => b[1] = <<Value(s, last), to>>
  <2>1. <<value, from>> \in E /\ <<Value(s, last), to>> \in E
    BY <1>1, <1>4
  <2>2. \A e \in E : <<e>> \in Seq(E) /\ Len(<<e>>) = 1 /\ <<e>>[1] = e
    OBVIOUS
  <2>3. <<>> \in Seq(E) /\ Len(<<>>) = 0
    OBVIOUS
  <2>4. a = <<>> \/ a = <<<<value, from>>>>
    OBVIOUS
  <2>5. b = <<>> \/ b = <<<<Value(s, last), to>>>>
    OBVIOUS
  <2> HIDE DEF a, b, E
  <2>6. a \in Seq(E) /\ Len(a) \in {0, 1} /\ (Len(a) = 1 => a[1] = <<value, from>>)
    <3>1. CASE a = <<>>
      BY <3>1, <2>3
    <3>2. CASE a = <<<<value, from>>>>
      BY <3>2, <2>1, <2>2
    <3> QED
      BY <3>1, <3>2, <2>4
  <2>7. b \in Seq(E) /\ Len(b) \in {0, 1} /\ (Len(b) = 1 => b[1] = <<Value(s, last), to>>)
    <3>1. CASE b = <<>>
      BY <3>1, <2>3
    <3>2. CASE b = <<<<Value(s, last), to>>>>
      BY <3>2, <2>1, <2>2
    <3> QED
      BY <3>1, <3>2, <2>5
  <2> QED
    BY <2>6, <2>7
<1>8. /\ m = 0 => k >= 1 /\ Value(s, k) = value
      /\ m = 1 => k = 0 \/ Value(s, k) # value
  BY <1>6
<1>9. /\ w = 0 => to = size \/ Value(s, last) = value
      /\ w = 1 => to < size /\ Value(s, last) # value
  OBVIOUS
<1> HIDE DEF a, b
<1>10. /\ z \in Seq(E) /\ Len(z) = n + (Len(s) - last)
       /\ \A i \in 1..Len(z) :
            z[i] = IF i <= k THEN s[i]
                   ELSE IF i <= k + m THEN a[i - k]
                   ELSE IF i <= n THEN b[i - (k + m)]
                   ELSE s[(i - n) + last]
  <2>1. last \in 0..Len(s) /\ k \in 0..Len(s) /\ s \in Seq(E) /\ a \in Seq(E) /\ b \in Seq(E)
    BY <1>1, <1>2, <1>4, <1>6, <1>7
  <2>2. n = k + Len(a) + Len(b)
    OBVIOUS
  <2> HIDE DEF E, k, n
  <2>3. JoinedFrom(Join(s, a, b, k, last), E, s, a, b, k, last, n)
    BY <2>1, <2>2, Joined
  <2>4. z = Join(s, a, b, k, last)
    BY DEF Join, k
  <2> HIDE DEF z
  <2> QED
    BY <2>3, <2>4 DEF JoinedFrom
<1> HIDE DEF z, k, m, w
<1>11. Len(z) \in Nat /\ n \in Nat /\ n <= Len(z)
  <2>1. Len(z) \in Nat
    BY <1>10
  <2>2. Len(a) \in Nat /\ Len(b) \in Nat /\ k \in Nat
    BY <1>6, <1>7
  <2>3. n \in Nat
    BY <2>2 DEF m, w
  <2>4. Len(s) \in Nat /\ last \in Nat /\ last <= Len(s)
    BY <1>1, <1>4
  <2> HIDE DEF n
  <2> QED
    BY <2>1, <2>3, <2>4, <1>10
<1>12. \A i \in 1..k : z[i] = s[i]
  <2>1. \A i \in 1..k : i \in 1..Len(z)
    BY SMTT(40), <1>6, <1>7, <1>11
  <2> QED
    BY <2>1, <1>6, <1>10
<1>13. m = 1 => z[k + 1] = <<value, from>>
  <2>1. m = 1 => k + 1 \in 1..Len(z) /\ ~(k + 1 <= k) /\ k + 1 <= k + m /\ (k + 1) - k = 1
    BY <1>6, <1>7, <1>11
  <2> QED
    BY <2>1, <1>7, <1>10
<1>14. w = 1 => z[k + m + 1] = <<Value(s, last), to>>
  <2>1. w = 1 => /\ k + m + 1 \in 1..Len(z) /\ ~(k + m + 1 <= k) /\ ~(k + m + 1 <= k + m)
                 /\ k + m + 1 <= n /\ (k + m + 1) - (k + m) = 1
    BY <1>6, <1>7, <1>11
  <2> QED
    BY <2>1, <1>7, <1>10
<1>15. \A i \in n + 1..Len(z) : z[i] = s[(i - n) + last]
  <2>1. ASSUME NEW i \in n + 1..Len(z)
        PROVE  i \in 1..Len(z) /\ ~(i <= k) /\ ~(i <= k + m) /\ ~(i <= n)
    BY <1>6, <1>7, <1>11, SMTT(30)
  <2>2. ASSUME NEW i \in n + 1..Len(z)
        PROVE  z[i] = s[(i - n) + last]
    <3>1. i \in 1..Len(z) /\ ~(i <= k) /\ ~(i <= k + m) /\ ~(i <= n)
      BY <2>1
    <3> QED
      BY <3>1, <1>10
  <2> QED
    BY <2>2
<1>16. Splices(s, size, z, value, from, to, k, m, w, n, last)
  <2>1. /\ k \in Nat /\ m \in {0, 1} /\ w \in {0, 1} /\ n = k + m + w
        /\ last \in 1..Len(s) /\ k <= last
    BY <1>1, <1>4, <1>6, <1>7
  <2>2. StartOf(s, last) <= to /\ \A q \in 1..Len(s) : q > last => StartOf(s, q) > to
    BY <1>4
  <2>3. /\ \A r \in 1..k : StartOf(s, r) < from
        /\ \A r \in 1..Len(s) : r > k => StartOf(s, r) >= from
    BY <1>6
  <2>4. Len(z) = n + (Len(s) - last)
    BY <1>10
  <2> HIDE DEF n
  <2> QED
    BY <2>1, <2>2, <2>3, <2>4, <1>8, <1>9, <1>12, <1>13, <1>14, <1>15 DEF Splices
<1>17. z \in Seq(V \X Nat)
  BY <1>10
<1> HIDE DEF n
<1>18. SetsApart(s, value, k, m, w, last)
  BY <1>8, <1>9 DEF SetsApart
<1>19. Assigns(z, s, V, size, value, from, to)
  BY <1>16, <1>17, <1>18, Spliced
<1> QED
  BY <1>5, <1>19

\* SplitUniform does what ReplaceRuns would.
LEMMA SplitReplaces ==
    ASSUME NEW V, NEW size \in Nat, NEW s, IsRuns(s, V, size), Len(s) = 1,
           NEW value \in V, Value(s, 1) # value,
           NEW from \in Nat, NEW to \in Nat, from < to, to <= size
    PROVE  SplitUniform(s, size, value, <<from, to>>) = ReplaceRuns(s, size, value, <<from, to>>)
<1>1. /\ DOMAIN s = 1..1 /\ s[1] = <<Value(s, 1), 0>> /\ StartOf(s, 1) = 0
      /\ s \in Seq(V \X Nat) /\ s[1] \in V \X Nat
  <2>1. /\ DOMAIN s = 1..Len(s)
        /\ \A r \in DOMAIN s : s[r] \in V \X Nat /\ s[r] = <<Value(s, r), StartOf(s, r)>>
    BY RunParts DEF IsRuns
  <2>2. StartOf(s, 1) = 0 /\ s \in Seq(V \X Nat)
    BY DEF IsRuns, IsOrdered, Distinct
  <2> QED
    BY <2>1, <2>2
<1>2. RunIndexAt(s, from) = 1 /\ RunIndexAt(s, to) = 1
  <2>1. RunIndexAt(s, from) \in DOMAIN s /\ RunIndexAt(s, to) \in DOMAIN s
    BY RunOf DEF IsRuns
  <2> QED
    BY <2>1, <1>1
<1>3. SubSeq(s, 2, 1) = <<>> /\ SubSeq(s, 1, 0) = <<>>
  BY SubSeqEmpty
<1>4. SubSeq(s, 1, 1) = <<<<Value(s, 1), 0>>>>
  <2>1. SubSeq(s, 1, 1) = s
    BY <1>1, SubSeqFull
  <2>2. s = <<s[1]>>
    BY <1>1
  <2> QED
    BY <2>1, <2>2, <1>1
<1> DEFINE right == IF to < size THEN <<<<Value(s, 1), to>>>> ELSE <<>>
           left == IF from = 0 THEN <<>> ELSE <<<<Value(s, 1), 0>>>>
           kept == IF 0 < from THEN SubSeq(s, 1, 1) ELSE SubSeq(s, 1, 0)
           middle == <<<<value, from>>>>
<1>5. SplitUniform(s, size, value, <<from, to>>) = left \o middle \o right
  BY DEF SplitUniform
<1>6. kept = left
  <2>1. CASE from = 0
    BY <2>1, <1>3
  <2>2. CASE 0 < from
    <3>1. kept = SubSeq(s, 1, 1) /\ left = <<<<Value(s, 1), 0>>>>
      BY <2>2
    <3> QED
      BY <3>1, <1>4
  <2> QED
    BY <2>1, <2>2
<1>7. ReplaceRuns(s, size, value, <<from, to>>) = kept \o middle \o right \o <<>>
  <2>1. CASE 0 < from
    <3>1. (1 + 1) - 1 = 1 /\ 1 + 1 # 1
      OBVIOUS
    <3> QED
      BY <2>1, <3>1, <1>1, <1>2, <1>3 DEF ReplaceRuns
  <2>2. CASE from = 0
    <3>1. 1 - 1 = 0 /\ 1 + 1 = 2 /\ ~(0 < 0)
      OBVIOUS
    <3> QED
      BY <2>2, <3>1, <1>1, <1>2, <1>3 DEF ReplaceRuns
  <2>3. from = 0 \/ 0 < from
    OBVIOUS
  <2> HIDE DEF kept, middle, right
  <2> QED
    BY <2>1, <2>2, <2>3
<1>8. left \o middle \o right \in Seq(V \X Nat)
  <2>1. Value(s, 1) \in V
    BY <1>1 DEF Value
  <2>2. left \in Seq(V \X Nat) /\ middle \in Seq(V \X Nat) /\ right \in Seq(V \X Nat)
    BY <2>1
  <2> HIDE DEF left, middle, right
  <2>3. left \o middle \in Seq(V \X Nat)
    BY <2>2, ConcatProperties
  <2> QED
    BY <2>2, <2>3, ConcatProperties
<1> HIDE DEF left, middle, right, kept
<1>9. (left \o middle \o right) \o <<>> = left \o middle \o right
  BY <1>8, ConcatEmptySeq
<1> QED
  BY <1>5, <1>6, <1>7, <1>9

\* A range of bytes takes the value, whatever the runs, and no other does.
THEOREM RangeSet ==
    ASSUME NEW V, NEW size \in Nat, NEW s, IsRuns(s, V, size), NEW value \in V,
           NEW from \in Nat, NEW to \in Nat, from < to, to <= size
    PROVE  Assigns(SetRange(s, size, value, <<from, to>>),
                   s, V, size, value, from, to)
<1> DEFINE range == <<from, to>>
           first == RunIndexAt(s, from)
<1>1. /\ Len(s) \in Nat \ {0} /\ DOMAIN s = 1..Len(s)
      /\ \A r \in 1..Len(s) : Value(s, r) \in V /\ StartOf(s, r) \in Nat
  BY RunParts DEF IsRuns
<1>2. CASE range = <<0, size>>
  <2>1. from = 0 /\ to = size
    BY <1>2
  <2>2. SetRange(s, size, value, range) = RunsOf(value)
    BY <1>2 DEF SetRange
  <2> QED
    BY <2>1, <2>2, UniformRuns DEF Assigns, Changes
<1>3. CASE range # <<0, size>> /\ Len(s) = 1
  <2>1. SetRange(s, size, value, range) = SplitUniform(s, size, value, range)
    BY <1>3 DEF SetRange
  <2>2. CASE Value(s, 1) = value
    <3>1. SplitUniform(s, size, value, range) = s
      BY <2>2 DEF SplitUniform
    <3>2. ASSUME NEW x \in 0..size - 1
          PROVE  RunValueAt(s, x) = value
      <4>1. RunIndexAt(s, x) \in DOMAIN s
        BY RunOf DEF IsRuns
      <4>2. RunIndexAt(s, x) = 1
        BY <4>1, <1>1, <1>3
      <4> QED
        BY <4>2, <2>2 DEF RunValueAt
    <3> QED
      BY <2>1, <3>1, <3>2 DEF Assigns, Changes
  <2>3. CASE Value(s, 1) # value
    BY <2>1, <2>3, <1>3, SplitReplaces, Replaced
  <2> QED
    BY <2>2, <2>3
<1>4. CASE range # <<0, size>> /\ Len(s) # 1
  <2>1. CASE ~(Value(s, first) = value /\ to <= End(s, size, first))
    <3>1. SetRange(s, size, value, range) = ReplaceRuns(s, size, value, range)
      BY <1>4, <2>1 DEF SetRange
    <3> QED
      BY <3>1, Replaced
  <2>2. CASE Value(s, first) = value /\ to <= End(s, size, first)
    <3>1. SetRange(s, size, value, range) = s
      BY <1>4, <2>2 DEF SetRange
    <3>2. ASSUME NEW x \in 0..size - 1, from <= x, x < to
          PROVE  RunValueAt(s, x) = value
      <4>1. /\ first \in DOMAIN s /\ StartOf(s, first) <= from
            /\ \A q \in DOMAIN s : q > first => StartOf(s, q) > from
        BY RunOf DEF IsRuns
      <4> HIDE DEF first
      <4>2. x \in Nat /\ StartOf(s, first) <= x
        BY <4>1, <3>2, <1>1
      <4>3. ASSUME NEW q \in DOMAIN s, q > first
            PROVE  StartOf(s, q) > x
        <5>1. first < Len(s) /\ first + 1 \in DOMAIN s /\ (q = first + 1 \/ first + 1 < q)
          BY <4>1, <4>3, <1>1
        <5>2. to <= StartOf(s, first + 1)
          BY <5>1, <2>2 DEF End
        <5>3. q = first + 1 \/ StartOf(s, first + 1) < StartOf(s, q)
          BY <5>1 DEF IsRuns, IsOrdered, Distinct
        <5>4. StartOf(s, q) \in Nat /\ StartOf(s, first + 1) \in Nat
          BY <5>1, <1>1
        <5> QED
          BY <5>2, <5>3, <5>4, <3>2
      <4>4. RunIndexAt(s, x) = first
        BY <4>1, <4>2, <4>3, RunIs DEF IsRuns
      <4> QED
        BY <4>4, <2>2 DEF RunValueAt, first
    <3> QED
      BY <3>1, <3>2 DEF Assigns, Changes
  <2> QED
    BY <2>1, <2>2
<1> QED
  BY <1>2, <1>3, <1>4
-----------------------------------------------------------------------------
(* Dense maps: the count of transitions, and what assigning a range changes *)

Differing(values) == {j \in 2..Len(values) : values[j - 1] # values[j]}

IsDense(map, V, size) ==
    /\ map \in [values : Seq(V), transitions : Nat]
    /\ Len(map.values) \in {1, size}
    /\ map.transitions = Cardinality(Differing(map.values))

\* The map z is the map with the value at the indices.
AssignsDense(z, map, V, size, value, indices) ==
    /\ IsDense(z, V, size)
    /\ \A x \in 0..size - 1 : ValueAt(z, x) = IF x \in indices THEN value ELSE ValueAt(map, x)

\* The sequence of values with the value at the indices.
Marked(new, old, V, size, value, indices) ==
    /\ new \in Seq(V) /\ Len(new) = size
    /\ \A x \in 0..size - 1 : new[x + 1] = IF x \in indices THEN value ELSE old[x + 1]

\* Transitions can be counted.
LEMMA DifferingFinite ==
    ASSUME NEW V, NEW values \in Seq(V)
    PROVE  IsFiniteSet(Differing(values)) /\ Cardinality(Differing(values)) \in Nat
<1>1. IsFiniteSet(2..Len(values))
  BY FS_Interval
<1>2. Differing(values) \subseteq 2..Len(values)
  BY DEF Differing
<1>3. IsFiniteSet(Differing(values))
  BY <1>1, <1>2, FS_Subset
<1> QED
  BY <1>3, FS_CardinalityType

\* A map of one value, which everything has
LEMMA UniformDense ==
    ASSUME NEW V, NEW value \in V, NEW size
    PROVE  /\ IsDense(DenseOf(value), V, size) /\ IsUniform(DenseOf(value))
           /\ DenseOf(value).values[1] = value
           /\ \A x : ValueAt(DenseOf(value), x) = value
<1>1. /\ <<value>> \in Seq(V) /\ Len(<<value>>) = 1 /\ <<value>>[1] = value
  OBVIOUS
<1>2. Differing(<<value>>) = {}
  BY <1>1 DEF Differing
<1>3. Cardinality(Differing(<<value>>)) = 0
  BY <1>2, FS_EmptySet
<1> QED
  BY <1>1, <1>3 DEF DenseOf, IsDense, IsUniform, ValueAt

\* Where nothing differs from its neighbour everything has the same value.
LEMMA NoTransition ==
    ASSUME NEW V, NEW size \in Nat \ {0}, NEW map, IsDense(map, V, size), IsUniform(map)
    PROVE  /\ map.values[1] \in V
           /\ \A x \in 0..size - 1 : ValueAt(map, x) = map.values[1]
<1> DEFINE values == map.values
           T == {j \in 1..Len(values) : values[j] # values[1]}
<1>1. values \in Seq(V) /\ Len(values) \in {1, size} /\ Len(values) \in Nat \ {0}
  <2>1. map.values \in Seq(V) /\ Len(map.values) \in {1, size}
    BY DEF IsDense
  <2> QED
    BY <2>1
<1>2. Differing(values) = {}
  <2>1. Cardinality(Differing(values)) = 0
    BY DEF IsDense, IsUniform
  <2>2. IsFiniteSet(Differing(values))
    BY <1>1, DifferingFinite
  <2> QED
    BY <2>1, <2>2, FS_EmptySet
<1> HIDE DEF values
<1>3. T = {}
  <2>1. SUFFICES ASSUME NEW k \in T
                 PROVE  FALSE
    OBVIOUS
  <2>2. T \in SUBSET Nat
    OBVIOUS
  <2>3. PICK n \in T : \A m \in T : n <= m
    <3> HIDE DEF T
    <3> QED
      BY <2>1, <2>2, LeastNat
  <2>4. n \in 2..Len(values) /\ n - 1 \in 1..Len(values) /\ ~(n <= n - 1)
    BY <2>3, <1>1
  <2>5. values[n - 1] = values[1]
    BY <2>3, <2>4
  <2>6. values[n - 1] = values[n]
    BY <2>4, <1>2 DEF Differing
  <2> QED
    BY <2>3, <2>5, <2>6
<1>4. values[1] \in V
  BY <1>1
<1>5. ASSUME NEW x \in 0..size - 1
      PROVE  ValueAt(map, x) = values[1]
  <2>1. CASE Len(values) = 1
    BY <2>1 DEF ValueAt, values
  <2>2. CASE Len(values) # 1
    <3>1. x + 1 \in 1..Len(values)
      BY <2>2, <1>1
    <3>2. values[x + 1] = values[1]
      BY <3>1, <1>3
    <3> QED
      BY <2>2, <3>2 DEF ValueAt, values
  <2> QED
    BY <2>1, <2>2
<1> QED
  BY <1>4, <1>5 DEF values

\* A map that holds a value for each part loses one for all of them.
LEMMA ExpandedDense ==
    ASSUME NEW V, NEW shape, NEW map, CellCount(shape) \in Nat \ {0},
           IsDense(map, V, CellCount(shape))
    PROVE  LET z == Expand(map, shape)
           IN  /\ IsDense(z, V, CellCount(shape)) /\ Len(z.values) = CellCount(shape)
               /\ \A x \in 0..CellCount(shape) - 1 :
                    ValueAt(map, x) = z.values[x + 1] /\ ValueAt(z, x) = z.values[x + 1]
<1> DEFINE size == CellCount(shape)
           z == Expand(map, shape)
<1>1. /\ map \in [values : Seq(V), transitions : Nat] /\ map.values \in Seq(V)
      /\ Len(map.values) \in {1, size} /\ size \in Nat \ {0}
  BY DEF IsDense
<1>2. CASE Len(map.values) = 1
  <2> DEFINE values == [i \in 1..size |-> map.values[1]]
  <2>1. map.values[1] \in V
    BY <1>1, <1>2
  <2>2. z = [map EXCEPT !.values = values]
    BY <1>2 DEF Expand
  <2>3. values \in Seq(V) /\ Len(values) = size /\ \A i \in 1..size : values[i] = map.values[1]
    BY <2>1, <1>1
  <2> HIDE DEF values
  <2>4. z \in [values : Seq(V), transitions : Nat] /\ z.values = values /\ z.transitions = map.transitions
    BY <2>2, <2>3, <1>1
  <2>5. Differing(values) = {} /\ Differing(map.values) = {}
    BY <2>3, <1>1, <1>2 DEF Differing
  <2>6. IsDense(z, V, size)
    BY <2>3, <2>4, <2>5 DEF IsDense
  <2>7. \A x \in 0..size - 1 : x + 1 \in 1..size
    BY <1>1
  <2> HIDE DEF z
  <2>8. \A x \in 0..size - 1 : ValueAt(map, x) = z.values[x + 1] /\ ValueAt(z, x) = z.values[x + 1]
    <3> TAKE x \in 0..size - 1
    <3>1. ValueAt(map, x) = map.values[1] /\ z.values[x + 1] = map.values[1]
      BY <2>3, <2>4, <2>7, <1>2 DEF ValueAt
    <3>2. ValueAt(z, x) = z.values[1] \/ ValueAt(z, x) = z.values[x + 1]
      BY DEF ValueAt
    <3>3. z.values[1] = map.values[1]
      BY <2>3, <2>4, <1>1
    <3> QED
      BY <3>1, <3>2, <3>3
  <2> QED
    BY <2>3, <2>4, <2>6, <2>8 DEF z
<1>3. CASE Len(map.values) # 1
  <2>1. z = map
    BY <1>3 DEF Expand
  <2> QED
    BY <2>1, <1>1, <1>3 DEF ValueAt
<1> QED
  BY <1>2, <1>3

\* SetValues keeps the count: only what it changes, and its neighbours, can differ anew.
LEMMA CountKept ==
    ASSUME NEW V, NEW size \in Nat \ {0}, NEW map, IsDense(map, V, size),
           Len(map.values) = size, NEW value \in V, NEW indices
    PROVE  /\ IsDense(SetValues(map, indices, value), V, size)
           /\ Marked(SetValues(map, indices, value).values, map.values, V, size, value, indices)
<1> DEFINE old == map.values
           new == [j \in DOMAIN old |-> IF j - 1 \in indices THEN value ELSE old[j]]
           near == {j \in 2..Len(old) : j - 1 \in indices \/ j - 2 \in indices}
           Differ(values) == Cardinality({j \in near : values[j - 1] # values[j]})
           z == SetValues(map, indices, value)
<1>1. z = [values |-> new, transitions |-> map.transitions + Differ(new) - Differ(old)]
  BY DEF SetValues
<1>2. /\ old \in Seq(V) /\ Len(old) = size /\ DOMAIN old = 1..size
      /\ map.transitions = Cardinality(Differing(old))
  BY DEF IsDense
<1>3. /\ new \in Seq(V) /\ Len(new) = size /\ DOMAIN new = 1..size
      /\ \A j \in 1..size : new[j] = IF j - 1 \in indices THEN value ELSE old[j]
  BY <1>2
<1> HIDE DEF old, new
<1> DEFINE A == Differing(old)  B == Differing(new)
<1>4. IsFiniteSet(A) /\ Cardinality(A) \in Nat /\ IsFiniteSet(B) /\ Cardinality(B) \in Nat
  BY <1>2, <1>3, DifferingFinite
<1>5. {j \in near : old[j - 1] # old[j]} = A \cap near /\ {j \in near : new[j - 1] # new[j]} = B \cap near
  BY <1>2, <1>3 DEF Differing
<1>6. A \ near = B \ near
  <2>1. ASSUME NEW j \in 2..size, j \notin near
        PROVE  old[j] = new[j] /\ old[j - 1] = new[j - 1]
    <3>1. j - 1 \notin indices /\ j - 2 \notin indices /\ (j - 1) - 1 = j - 2
      BY <2>1, <1>2
    <3>2. j \in 1..size /\ j - 1 \in 1..size
      OBVIOUS
    <3> QED
      BY <3>1, <3>2, <1>3
  <2> HIDE DEF near
  <2> QED
    BY <2>1, <1>2, <1>3 DEF Differing
<1> HIDE DEF near, A, B
<1>7. /\ Cardinality(A \ near) = Cardinality(A) - Cardinality(A \cap near)
      /\ Cardinality(B \ near) = Cardinality(B) - Cardinality(B \cap near)
      /\ Cardinality(A \cap near) \in Nat /\ Cardinality(B \cap near) \in Nat
  BY <1>4, FS_Difference, FS_Intersection, FS_CardinalityType
<1>8. map.transitions + Differ(new) - Differ(old) = Cardinality(B)
  <2>1. Differ(new) = Cardinality(B \cap near) /\ Differ(old) = Cardinality(A \cap near)
    BY <1>5
  <2>2. map.transitions = Cardinality(A)
    BY <1>2 DEF A
  <2>3. Cardinality(A \ near) = Cardinality(B \ near)
    BY <1>6
  <2>4. /\ Cardinality(A \cap near) = Cardinality(A) - Cardinality(A \ near)
        /\ Cardinality(B \cap near) = Cardinality(B) - Cardinality(B \ near)
        /\ Cardinality(A \ near) \in Int
    <3> HIDE DEF Differ
    <3> QED
      BY <1>4, <1>7
  <2> DEFINE a == Cardinality(A)  b == Cardinality(B)
             c == Cardinality(A \ near)
  <2>5. Differ(new) = b - c /\ Differ(old) = a - c /\ a \in Int /\ b \in Int /\ c \in Int
    <3> HIDE DEF Differ
    <3> QED
      BY <2>1, <2>3, <2>4, <1>4
  <2> HIDE DEF a, b, c, Differ
  <2>6. a + (b - c) - (a - c) = b
    BY <2>5
  <2> QED
    BY <2>2, <2>5, <2>6 DEF a, b
<1> HIDE DEF Differ
<1>9. z.values = new /\ z.transitions = Cardinality(B) /\ z \in [values : Seq(V), transitions : Nat]
  BY <1>1, <1>3, <1>4, <1>8
<1> HIDE DEF z
<1>10. IsDense(z, V, size)
  BY <1>3, <1>9 DEF IsDense, B
<1>11. ASSUME NEW x \in 0..size - 1
       PROVE  new[x + 1] = IF x \in indices THEN value ELSE old[x + 1]
  <2>1. x + 1 \in 1..size /\ (x + 1) - 1 = x
    OBVIOUS
  <2> QED
    BY <2>1, <1>3
<1> QED
  BY <1>3, <1>9, <1>10, <1>11 DEF z, old, Marked

\* A range of subresources takes the value, and no other does.
THEOREM DenseRangeSet ==
    ASSUME NEW V, NEW shape, NEW size \in Nat \ {0}, size = CellCount(shape),
           NEW map, IsDense(map, V, size), NEW value \in V, NEW range,
           IndicesOf(shape, range) \subseteq 0..size - 1,
           IsWholeImage(shape, range) => IndicesOf(shape, range) = 0..size - 1
    PROVE  AssignsDense(SetDenseRange(map, shape, value, range),
                        map, V, size, value, IndicesOf(shape, range))
<1> DEFINE indices == IndicesOf(shape, range)
           z == SetDenseRange(map, shape, value, range)
           d == DenseOf(value)
\* Everything takes the value, or has it already.
<1>1. ASSUME \A x \in 0..size - 1 : x \in indices \/ ValueAt(map, x) = value
      PROVE  AssignsDense(d, map, V, size, value, indices)
  <2>1. IsDense(d, V, size) /\ \A x : ValueAt(d, x) = value
    BY UniformDense
  <2> HIDE DEF d, indices
  <2> QED
    BY <2>1, <1>1 DEF AssignsDense
<1>2. CASE IsUniform(map) /\ map.values[1] = value
  <2>1. z = d
    BY <1>2 DEF SetDenseRange, Truncate
  <2>2. \A x \in 0..size - 1 : ValueAt(map, x) = value
    BY <1>2, NoTransition
  <2> HIDE DEF z, d, indices
  <2>3. AssignsDense(z, map, V, size, value, indices)
    BY <2>1, <2>2, <1>1
  <2> QED
    BY <2>3 DEF z, indices
<1>3. CASE ~(IsUniform(map) /\ map.values[1] = value) /\ IsWholeImage(shape, range)
  <2>1. z = d
    BY <1>3 DEF SetDenseRange
  <2>2. indices = 0..size - 1
    BY <1>3
  <2> HIDE DEF z, d, indices
  <2>3. AssignsDense(z, map, V, size, value, indices)
    BY <2>1, <2>2, <1>1
  <2> QED
    BY <2>3 DEF z, indices
<1>4. CASE ~(IsUniform(map) /\ map.values[1] = value) /\ ~IsWholeImage(shape, range)
  <2> DEFINE e == Expand(map, shape)
             y == SetValues(e, indices, value)
             t == Truncate(y)
  <2>1. z = t
    BY <1>4 DEF SetDenseRange
  <2>2. /\ IsDense(e, V, size) /\ Len(e.values) = size
        /\ \A x \in 0..size - 1 : ValueAt(map, x) = e.values[x + 1]
    BY ExpandedDense
  <2> HIDE DEF e, indices
  <2>3. IsDense(y, V, size) /\ Marked(y.values, e.values, V, size, value, indices)
    BY <2>2, CountKept
  <2> HIDE DEF y
  <2>4. /\ Len(y.values) = size
        /\ \A x \in 0..size - 1 :
                y.values[x + 1] = IF x \in indices THEN value ELSE ValueAt(map, x)
    BY <2>2, <2>3 DEF Marked
  <2>5. ASSUME NEW x \in 0..size - 1
        PROVE  ValueAt(y, x) = y.values[x + 1]
    <3>1. CASE size = 1
      <4>1. x + 1 = 1
        BY <3>1
      <4> QED
        BY <4>1, <3>1, <2>4 DEF ValueAt
    <3>2. CASE size # 1
      BY <3>2, <2>4 DEF ValueAt
    <3> QED
      BY <3>1, <3>2
  <2>6. AssignsDense(y, map, V, size, value, indices)
    BY <2>3, <2>4, <2>5 DEF AssignsDense
  <2>7. AssignsDense(t, map, V, size, value, indices)
    <3>1. CASE IsUniform(y)
      <4> DEFINE first == y.values[1]
                 f == DenseOf(first)
      <4>1. t = f
        BY <3>1 DEF Truncate
      <4>2. first \in V /\ \A x \in 0..size - 1 : ValueAt(y, x) = first
        BY <2>3, <3>1, NoTransition
      <4> HIDE DEF first
      <4>3. IsDense(f, V, size) /\ \A x : ValueAt(f, x) = first
        BY <4>2, UniformDense
      <4> HIDE DEF t, f
      <4> QED
        BY <4>1, <4>2, <4>3, <2>6 DEF AssignsDense
    <3>2. CASE ~IsUniform(y)
      <4>1. t = y
        BY <3>2 DEF Truncate
      <4> QED
        BY <4>1, <2>6
    <3> QED
      BY <3>1, <3>2
  <2> HIDE DEF t, z
  <2>8. AssignsDense(z, map, V, size, value, indices)
    BY <2>1, <2>7
  <2> QED
    BY <2>8 DEF z, indices
<1> QED
  BY <1>2, <1>3, <1>4
-----------------------------------------------------------------------------
(* Where the subresources of a range are among those of the image           *)

\* Products of natural numbers
LEMMA Products ==
    /\ \A x, y \in Nat : x * y \in Nat
    /\ \A x, y, z \in Nat : x <= y => x * z <= y * z
    /\ \A x, y \in Int : (x + 1) * y = x * y + y
    /\ \A x, y, z \in Int : (x * y) * z = x * (y * z)
<1>1. \A x, y \in Nat : x * y \in Nat
  OBVIOUS
<1>2. \A x, y, z \in Nat : x <= y => x * z <= y * z
  OBVIOUS
<1>3. \A x, y \in Int : (x + 1) * y = x * y + y
  OBVIOUS
<1>4. \A x, y, z \in Int : (x * y) * z = x * (y * z)
  OBVIOUS
<1> QED
  BY <1>1, <1>2, <1>3, <1>4

\* Division with a rest
LEMMA Division ==
    ASSUME NEW n \in Nat, NEW d \in Nat \ {0}
    PROVE  \E q \in Nat, r \in 0..d - 1 : n = q * d + r
<1> DEFINE T == {r \in Nat : \E q \in Nat : n = q * d + r}
<1>1. n \in T
  <2>1. n = 0 * d + n
    OBVIOUS
  <2> QED
    BY <2>1
<1>2. PICK r \in T : \A m \in T : r <= m
  <2> HIDE DEF T
  <2>1. T \in SUBSET Nat
    BY DEF T
  <2> QED
    BY <1>1, <2>1, LeastNat
<1>3. PICK q \in Nat : n = q * d + r
  BY <1>2
<1>4. r < d
  <2>1. SUFFICES ASSUME r >= d
                 PROVE  FALSE
    BY <1>2
  <2>2. n = (q + 1) * d + (r - d) /\ r - d \in Nat /\ q + 1 \in Nat
    <3>1. (q + 1) * d = q * d + d /\ q * d \in Nat
      BY <1>3, Products
    <3> QED
      BY <3>1, <2>1, <1>2, <1>3
  <2>3. r - d \in T
    BY <2>2
  <2>4. r <= r - d
    BY <2>3, <1>2
  <2> QED
    BY <2>4, <1>2
<1> QED
  BY <1>2, <1>3, <1>4

IsShape(shape) == shape \in [layers : Nat \ {0}, levels : Nat \ {0}, aspects : Nat \ {0}]

\* A range in the image has its subresources there, and the whole image has all.
LEMMA RangeInImage ==
    ASSUME NEW shape, IsShape(shape), NEW range,
           range \in [layer : Nat, layers : Nat \ {0}, level : Nat, levels : Nat \ {0},
                      aspect : Nat, aspects : Nat \ {0}],
           range.layer + range.layers <= shape.layers,
           range.level + range.levels <= shape.levels,
           range.aspect + range.aspects <= shape.aspects
    PROVE  /\ CellCount(shape) \in Nat \ {0}
           /\ IndicesOf(shape, range) \subseteq 0..CellCount(shape) - 1
           /\ IsWholeImage(shape, range) => IndicesOf(shape, range) = 0..CellCount(shape) - 1
<1> DEFINE L == shape.layers  M == shape.levels  A == shape.aspects
           P == M * A
<1>1. L \in Nat \ {0} /\ M \in Nat \ {0} /\ A \in Nat \ {0}
  BY DEF IsShape
<1>2. /\ range.layer \in Nat /\ range.layers \in Nat \ {0} /\ range.level \in Nat
      /\ range.levels \in Nat \ {0} /\ range.aspect \in Nat /\ range.aspects \in Nat \ {0}
      /\ range.layer + range.layers <= L /\ range.level + range.levels <= M
      /\ range.aspect + range.aspects <= A
  OBVIOUS
<1>3. /\ CellCount(shape) = L * P
      /\ \A a, y, m \in Nat : Index(shape, a, y, m) = y * P + m * A + a
  <2>1. (L * M) * A = L * P
    BY <1>1, Products
  <2>2. \A y \in Nat : (y * A) * M = y * P
    <3>1. \A y \in Nat : (y * A) * M = y * (A * M)
      BY <1>1, Products
    <3>2. A * M = M * A
      BY <1>1
    <3> QED
      BY <3>1, <3>2
  <2> QED
    BY <2>1, <2>2 DEF CellCount, Index
<1> HIDE DEF L, M, A
<1>4. P \in Nat \ {0}
  BY <1>1
<1>5. L * P \in Nat \ {0}
  BY <1>1, <1>4
<1>6. ASSUME NEW a \in 0..A - 1, NEW y \in 0..L - 1, NEW m \in 0..M - 1
      PROVE  y * P + m * A + a \in 0..L * P - 1
  <2>1. (m + 1) * A <= P /\ (m + 1) * A = m * A + A /\ m * A \in Nat
    <3>1. m + 1 \in Nat /\ m + 1 <= M /\ m \in Nat /\ m \in Int /\ A \in Nat /\ A \in Int /\ M \in Nat
      BY <1>1
    <3> QED
      BY <3>1, Products
  <2>2. (y + 1) * P <= L * P /\ (y + 1) * P = y * P + P /\ y * P \in Nat
    <3>1. y + 1 \in Nat /\ y + 1 <= L /\ y \in Nat /\ y \in Int /\ P \in Nat /\ P \in Int /\ L \in Nat
      BY <1>1, <1>4
    <3> HIDE DEF P
    <3> QED
      BY <3>1, Products
  <2> DEFINE mA == m * A  yP == y * P  LP == L * P
  <2>3. mA \in Nat /\ yP \in Nat /\ mA + A <= P /\ yP + P <= LP /\ LP \in Nat
    BY <2>1, <2>2, <1>5
  <2> HIDE DEF P, mA, yP, LP
  <2>4. yP + mA + a \in 0..LP - 1
    BY <2>3, <1>1, <1>4
  <2> QED
    BY <2>4 DEF mA, yP, LP
<1>7. IndicesOf(shape, range) \subseteq 0..CellCount(shape) - 1
  <2>1. SUFFICES ASSUME NEW a \in 0..range.aspects - 1, NEW y \in 0..range.layers - 1,
                        NEW m \in 0..range.levels - 1
                 PROVE  Index(shape, range.aspect + a, range.layer + y, range.level + m)
                            \in 0..CellCount(shape) - 1
    BY DEF IndicesOf
  <2>2. /\ range.aspect + a \in 0..A - 1 /\ range.layer + y \in 0..L - 1
        /\ range.level + m \in 0..M - 1
    BY <1>1, <1>2
  <2>3. range.aspect + a \in Nat /\ range.layer + y \in Nat /\ range.level + m \in Nat
    BY <1>2
  <2> HIDE DEF P
  <2> QED
    BY <2>2, <2>3, <1>3, <1>6
<1>8. ASSUME IsWholeImage(shape, range), NEW i \in 0..CellCount(shape) - 1
      PROVE  i \in IndicesOf(shape, range)
  <2>1. /\ range.layer = 0 /\ range.layers = L /\ range.level = 0 /\ range.levels = M
        /\ range.aspects = A /\ range.aspect = 0
    BY <1>1, <1>2, <1>8 DEF IsWholeImage, L, M, A
  <2>2. i \in Nat /\ i < L * P
    BY <1>3, <1>5
  <2>3. PICK y \in Nat, r \in 0..P - 1 : i = y * P + r
    <3> HIDE DEF P
    <3> QED
      BY <2>2, <1>4, Division
  <2>4. PICK m \in Nat, a \in 0..A - 1 : r = m * A + a
    <3>1. r \in Nat
      BY <2>3
    <3> QED
      BY <3>1, <1>1, Division
  <2>5. y < L
    <3>1. SUFFICES ASSUME L <= y
                   PROVE  FALSE
      BY <2>3, <1>1
    <3>2. L * P <= y * P /\ y * P \in Nat
      <4> HIDE DEF P
      <4> QED
        BY <3>1, <2>3, <1>1, <1>4, Products
    <3> DEFINE yP == y * P  LP == L * P
    <3>3. LP <= yP /\ i = yP + r /\ i < LP /\ yP \in Nat /\ LP \in Nat
      BY <3>2, <2>2, <2>3, <1>5
    <3> HIDE DEF yP, LP, P
    <3> QED
      BY <3>3, <2>3, <1>4
  <2>6. m < M
    <3>1. SUFFICES ASSUME M <= m
                   PROVE  FALSE
      BY <2>4, <1>1
    <3>2. M * A <= m * A /\ m * A \in Nat
      BY <3>1, <2>4, <1>1, Products
    <3> DEFINE mA == m * A
    <3>3. P <= mA /\ r = mA + a /\ mA \in Nat
      BY <3>2, <2>4
    <3> HIDE DEF mA, P
    <3> QED
      BY <3>3, <2>3, <2>4, <1>1, <1>4
  <2>7. /\ a \in 0..range.aspects - 1 /\ y \in 0..range.layers - 1 /\ m \in 0..range.levels - 1
        /\ a = range.aspect + a /\ y = range.layer + y /\ m = range.level + m
    BY <2>1, <2>3, <2>4, <2>5, <2>6, <1>1
  <2>8. i = Index(shape, a, y, m)
    <3>1. a \in Nat /\ y \in Nat /\ m \in Nat
      BY <2>3, <2>4, <1>1
    <3>2. Index(shape, a, y, m) = y * P + m * A + a
      <4> HIDE DEF P
      <4> QED
        BY <3>1, <1>3
    <3> DEFINE mA == m * A  yP == y * P
    <3>3. i = yP + r /\ r = mA + a /\ mA \in Nat /\ yP \in Nat
      BY <3>1, <2>3, <2>4, <1>1, <1>4, Products
    <3>4. Index(shape, a, y, m) = yP + mA + a
      BY <3>2
    <3> HIDE DEF mA, yP, P
    <3> QED
      BY <3>1, <3>3, <3>4
  <2> HIDE DEF P
  <2> QED
    BY <2>7, <2>8 DEF IndicesOf
<1> QED
  BY <1>3, <1>5, <1>7, <1>8
-----------------------------------------------------------------------------
(* The map of a tracker, be it one of runs or a dense one                   *)

OwnersOf(k) == {Unknown} \cup k.values

IsOwnerTracker == tracker \in Trackers /\ IsSharing

InForm(k, s) ==
    IF k.of = "buffer" THEN IsRuns(s, OwnersOf(k), SizeOf(k)) ELSE IsDense(s, OwnersOf(k), SizeOf(k))
StoredIn(k, s, c) == IF k.of = "buffer" THEN RunValueAt(s, c) ELSE ValueAt(s, c)
UniformIn(k, s) == IF k.of = "buffer" THEN Len(s) = 1 ELSE IsUniform(s)
FirstIn(k, s) == IF k.of = "buffer" THEN Value(s, 1) ELSE s.values[1]

\* The map z is s with the value in the cells.
Takes(k, z, s, value, cells) ==
    /\ InForm(k, z)
    /\ \A c \in 0..SizeOf(k) - 1 :
            StoredIn(k, z, c) = IF c \in cells THEN value ELSE StoredIn(k, s, c)

\* The map s has the owner everywhere.
HasEverywhere(k, s, owner) ==
    /\ InForm(k, s) /\ UniformIn(k, s) /\ FirstIn(k, s) = owner
    /\ \A c \in 0..SizeOf(k) - 1 : StoredIn(k, s, c) = owner

\* What a tracker covers
LEMMA TrackerIs ==
    ASSUME tracker \in Trackers
    PROVE  /\ tracker.of \in {"buffer", "image"}
           /\ Size \in Nat \ {0}
           /\ IsBuffer => tracker.size = Size
           /\ ~IsBuffer => IsShape(tracker.shape) /\ CellCount(tracker.shape) = Size
<1>1. /\ tracker \in Trackers /\ tracker.of \in {"buffer", "image"}
      /\ IF tracker.of = "buffer" THEN tracker.size \in Nat \ {0}
         ELSE tracker.shape \in [layers : Nat \ {0}, levels : Nat \ {0}, aspects : {1, 2}]
  BY TrackerAssumption
<1>2. CASE IsBuffer
  BY <1>1, <1>2 DEF IsBuffer, Size, SizeOf
<1>3. CASE ~IsBuffer
  <2>1. IsShape(tracker.shape) /\ Size = CellCount(tracker.shape)
    BY <1>1, <1>3 DEF IsBuffer, Size, SizeOf, IsShape
  <2>2. CellCount(tracker.shape) = tracker.shape.layers * tracker.shape.levels * tracker.shape.aspects
    BY DEF CellCount
  <2>3. \A a, b, c \in Nat \ {0} : a * b * c \in Nat \ {0}
    <3>1. \A a, b \in Nat \ {0} : a * b \in Nat \ {0}
      OBVIOUS
    <3> QED
      BY <3>1
  <2> QED
    BY <2>1, <2>2, <2>3, <1>1, <1>3 DEF IsShape
<1> QED
  BY <1>1, <1>2, <1>3

\* A range lies in what the tracker covers.
LEMMA RangeIs ==
    ASSUME tracker \in Trackers, NEW range \in RangesOf(tracker)
    PROVE  /\ CellsOf(range) \subseteq Cells
           /\ WholeRange(range) => CellsOf(range) = Cells
           /\ IsBuffer => /\ range = <<range[1], range[2]>> /\ range[1] \in Nat /\ range[2] \in Nat
                          /\ range[1] < range[2] /\ range[2] <= Size
<1>1. CASE IsBuffer
  <2>1. /\ range \in (0..tracker.size - 1) \X (1..tracker.size) /\ range[1] < range[2]
        /\ tracker.size = Size /\ Size \in Nat \ {0}
    BY <1>1, TrackerIs DEF RangesOf, IsBuffer
  <2>2. /\ range = <<range[1], range[2]>> /\ range[1] \in 0..Size - 1 /\ range[2] \in 1..Size
    BY <2>1
  <2> QED
    BY <1>1, <2>1, <2>2 DEF CellsOf, Cells, WholeRange
<1>2. CASE ~IsBuffer
  <2>1. /\ range \in [layer : Nat, layers : Nat \ {0}, level : Nat, levels : Nat \ {0},
                      aspect : Nat, aspects : Nat \ {0}]
        /\ range.layer + range.layers <= tracker.shape.layers
        /\ range.level + range.levels <= tracker.shape.levels
        /\ range.aspect + range.aspects <= tracker.shape.aspects
    BY <1>2 DEF RangesOf, IsBuffer
  <2>2. IsShape(tracker.shape) /\ CellCount(tracker.shape) = Size
    BY <1>2, TrackerIs
  <2>3. /\ IndicesOf(tracker.shape, range) \subseteq 0..CellCount(tracker.shape) - 1
        /\ IsWholeImage(tracker.shape, range)
                => IndicesOf(tracker.shape, range) = 0..CellCount(tracker.shape) - 1
    BY <2>1, <2>2, RangeInImage
  <2> QED
    BY <1>2, <2>2, <2>3 DEF CellsOf, Cells, WholeRange
<1> QED
  BY <1>1, <1>2

\* Both of a tracker of owners
LEMMA TrackerParts ==
    ASSUME IsOwnerTracker
    PROVE  /\ tracker.of \in {"buffer", "image"}
           /\ Size \in Nat \ {0}
           /\ IsBuffer => tracker.size = Size
           /\ ~IsBuffer => IsShape(tracker.shape) /\ CellCount(tracker.shape) = Size
BY TrackerIs DEF IsOwnerTracker

LEMMA RangeParts ==
    ASSUME IsOwnerTracker, NEW range \in RangesOf(tracker)
    PROVE  /\ CellsOf(range) \subseteq Cells
           /\ WholeRange(range) => CellsOf(range) = Cells
           /\ IsBuffer => /\ range = <<range[1], range[2]>> /\ range[1] \in Nat /\ range[2] \in Nat
                          /\ range[1] < range[2] /\ range[2] <= Size
BY RangeIs DEF IsOwnerTracker

\* An assignment of a range makes a map that has the value there.
LEMMA RangeAssigned ==
    ASSUME IsOwnerTracker, NEW s, InForm(tracker, s), NEW value \in OwnersOf(tracker),
           NEW range \in RangesOf(tracker)
    PROVE  Takes(tracker, Assigned(s, value, range), s, value, CellsOf(range))
<1> DEFINE V == OwnersOf(tracker)
<1>1. CASE IsBuffer
  <2> DEFINE from == range[1]  to == range[2]
             z == SetRange(s, Size, value, range)
  <2>1. /\ range = <<from, to>> /\ from \in Nat /\ to \in Nat /\ from < to /\ to <= Size
        /\ Size \in Nat
    BY <1>1, RangeParts, TrackerParts
  <2>2. IsRuns(s, V, Size)
    BY <1>1 DEF IsBuffer, Size, InForm
  <2>3. Assigns(SetRange(s, Size, value, <<from, to>>), s, V, Size, value, from, to)
    <3> HIDE DEF V, from, to
    <3>1. value \in V
      BY DEF V
    <3> QED
      BY <2>1, <2>2, <3>1, RangeSet
  <2>4. Assigns(z, s, V, Size, value, from, to)
    BY <2>1, <2>3
  <2>5. Assigned(s, value, range) = z
    BY <1>1 DEF Assigned
  <2>6. CellsOf(range) = from..to - 1
    BY <1>1 DEF CellsOf
  <2> HIDE DEF z, from, to
  <2>7. \A c \in Cells : c \in from..to - 1 <=> from <= c /\ c < to
    BY <2>1, TrackerParts DEF Cells
  <2>8. IsRuns(z, V, Size) /\ \A c \in Cells : RunValueAt(z, c) = IF from <= c /\ c < to THEN value ELSE RunValueAt(s, c)
    BY <2>4 DEF Assigns, Changes, Cells
  <2>9. Takes(tracker, z, s, value, from..to - 1)
    BY <1>1, <2>7, <2>8 DEF Takes, InForm, StoredIn, IsBuffer, Size, Cells
  <2> QED
    BY <2>5, <2>6, <2>9
<1>2. CASE ~IsBuffer
  <2> DEFINE shape == tracker.shape
             indices == IndicesOf(shape, range)
             z == SetDenseRange(s, shape, value, range)
  <2>1. Size \in Nat \ {0} /\ Size = CellCount(shape)
    BY <1>2, TrackerParts
  <2>2. CellsOf(range) = indices /\ indices \subseteq 0..Size - 1
        /\ (IsWholeImage(shape, range) => indices = 0..Size - 1)
    BY <1>2, RangeParts DEF CellsOf, Cells, WholeRange
  <2>3. IsDense(s, V, Size) /\ value \in V
    BY <1>2 DEF IsBuffer, Size, InForm
  <2> HIDE DEF V, shape
  <2>4. AssignsDense(z, s, V, Size, value, indices)
    BY <2>1, <2>2, <2>3, DenseRangeSet
  <2>5. Assigned(s, value, range) = z
    BY <1>2 DEF Assigned, shape
  <2> HIDE DEF z, indices
  <2>6. Takes(tracker, z, s, value, indices)
    BY <1>2, <2>4 DEF Takes, AssignsDense, InForm, StoredIn, Cells, IsBuffer, Size, V
  <2> QED
    BY <2>2, <2>5, <2>6
<1> QED
  BY <1>1, <1>2

\* A map that is uniform has its first value everywhere.
LEMMA UniformStored ==
    ASSUME IsOwnerTracker, NEW s, InForm(tracker, s), UniformIn(tracker, s)
    PROVE  FirstIn(tracker, s) \in OwnersOf(tracker) /\ HasEverywhere(tracker, s, FirstIn(tracker, s))
<1>1. CASE IsBuffer
  <2>1. IsRuns(s, OwnersOf(tracker), Size) /\ Len(s) = 1 /\ Size \in Nat
    BY <1>1, TrackerParts DEF IsBuffer, Size, InForm, UniformIn
  <2>2. Value(s, 1) \in OwnersOf(tracker) /\ \A x \in 0..Size - 1 : RunValueAt(s, x) = Value(s, 1)
    BY <2>1, OneRun
  <2> QED
    BY <1>1, <2>2 DEF IsBuffer, Size, HasEverywhere, FirstIn, StoredIn, Cells
<1>2. CASE ~IsBuffer
  <2>1. IsDense(s, OwnersOf(tracker), Size) /\ IsUniform(s) /\ Size \in Nat \ {0}
    BY <1>2, TrackerParts DEF IsBuffer, Size, InForm, UniformIn
  <2>2. s.values[1] \in OwnersOf(tracker) /\ \A x \in 0..Size - 1 : ValueAt(s, x) = s.values[1]
    BY <2>1, NoTransition
  <2> QED
    BY <1>2, <2>2 DEF IsBuffer, Size, HasEverywhere, FirstIn, StoredIn, Cells
<1> QED
  BY <1>1, <1>2

\* The maps that an assignment of everything and a promotion make
LEMMA UniformMade ==
    ASSUME IsOwnerTracker, NEW owner \in OwnersOf(tracker)
    PROVE  HasEverywhere(tracker, StoreOf(owner), owner)
<1>1. CASE IsBuffer
  <2>1. /\ IsRuns(RunsOf(owner), OwnersOf(tracker), Size) /\ Len(RunsOf(owner)) = 1
        /\ \A x \in 0..Size - 1 : RunValueAt(RunsOf(owner), x) = owner
    BY TrackerParts, UniformRuns
  <2>2. Value(RunsOf(owner), 1) = owner
    BY DEF Value, RunsOf
  <2> QED
    BY <1>1, <2>1, <2>2 DEF IsBuffer, Size, HasEverywhere, StoreOf, InForm, UniformIn, FirstIn, StoredIn, Cells
<1>2. CASE ~IsBuffer
  <2>1. /\ IsDense(DenseOf(owner), OwnersOf(tracker), Size) /\ IsUniform(DenseOf(owner))
        /\ DenseOf(owner).values[1] = owner
        /\ \A x : ValueAt(DenseOf(owner), x) = owner
    BY UniformDense
  <2> QED
    BY <1>2, <2>1 DEF IsBuffer, Size, HasEverywhere, StoreOf, InForm, UniformIn, FirstIn, StoredIn, Cells
<1> QED
  BY <1>1, <1>2

\* What the map is made of when it takes over has the value of the word everywhere.
LEMMA UniformCaptured ==
    ASSUME IsOwnerTracker, NEW owner \in OwnersOf(tracker),
           IsBuffer => InForm(tracker, store) /\ UniformIn(tracker, store)
    PROVE  HasEverywhere(tracker, Captured(owner), owner)
<1>1. CASE IsBuffer
  <2>1. /\ store \in Seq(OwnersOf(tracker) \X Nat) /\ Len(store) = 1 /\ store # <<>>
        /\ StartOf(store, 1) = 0
    BY <1>1 DEF IsBuffer, Size, InForm, UniformIn, IsRuns, IsOrdered, Distinct
  <2>2. store[1] \in OwnersOf(tracker) \X Nat /\ store[1][2] = 0
    BY <2>1 DEF StartOf
  <2>3. [store EXCEPT ![1][1] = owner] = <<<<owner, 0>>>>
    <3>1. store = <<store[1]>> /\ store[1] = <<store[1][1], 0>>
      BY <2>1, <2>2
    <3> QED
      BY <3>1
  <2>4. Captured(owner) = StoreOf(owner)
    BY <1>1, <2>3 DEF Captured, StoreOf, RunsOf
  <2> QED
    BY <2>4, UniformMade
<1>2. CASE ~IsBuffer
  <2>1. Captured(owner) = StoreOf(owner)
    BY <1>2 DEF Captured, StoreOf
  <2> QED
    BY <2>1, UniformMade
<1> QED
  BY <1>1, <1>2

-----------------------------------------------------------------------------
(* The invariant of the tracker of owners                                   *)

Part(k, range) == IF k.of = "buffer" THEN range[1]..range[2] - 1 ELSE IndicesOf(k.shape, range)

Whole(k, o) ==
    /\ o.do = "set" /\ Len(o.ranges) = 1
    /\ IF k.of = "buffer" THEN o.ranges[1] = <<0, SizeOf(k)>> ELSE IsWholeImage(k.shape, o.ranges[1])

Labels == {"idle", "load", "exchange", "lock", "locked", "ranges", "unlock", "return"}
Holding == {"locked", "ranges", "unlock"}
Answered == {"ranges", "unlock", "return"}

\* The ranges that a thread under the lock has assigned so far have its value.
Assigning(k, o, n, w, s) ==
    /\ o.do = "set" /\ ~Whole(k, o) /\ w = Dense
    /\ n \in 0..Len(o.ranges)
    /\ \A i \in 1..n : \A c \in Part(k, o.ranges[i]) : StoredIn(k, s, c) = o.value

\* Who holds the lock, who has an answer, and what an exchange relies on
ThreadForm(t) ==
    /\ op[t] \in (IF t \in Users THEN tracker.ops[t] ELSE {}) \cup {None}
    /\ pc[t] = "idle" <=> op[t] = None
    /\ lock = t <=> pc[t] \in Holding
    /\ reply[t] # None <=> pc[t] \in Answered
    /\ pc[t] = "exchange" => Whole(tracker, op[t]) /\ local[t] # Dense
    /\ pc[t] = "ranges" => Assigning(tracker, op[t], local[t], word, store)

Nobody(label) == \A t \in Threads : pc[t] # label

\* A buffer has one run while the word counts; a map that counts differs somewhere.
MapForm ==
    /\ word \in OwnersOf(tracker) \cup {Dense}
    /\ InForm(tracker, store) \/ (tracker.of = "image" /\ store = None /\ word # Dense)
    /\ word # Dense /\ tracker.of = "buffer" => UniformIn(tracker, store)
    /\ word = Dense /\ Nobody("ranges") => ~UniformIn(tracker, store)

IsFun(f) == \E values : f \in [Threads -> values]

IsPut(g, f, t, v) == IsFun(g) /\ g[t] = v /\ \A u \in Threads : u # t => g[u] = f[u]

Typed ==
    /\ IsOwnerTracker
    /\ lock \in Users \cup {None}
    /\ pc \in [Threads -> Labels]
    /\ IsFun(op) /\ IsFun(local) /\ IsFun(reply) /\ IsFun(past)

SharingInv == Typed /\ MapForm /\ \A t \in Threads : ThreadForm(t)

\* EXCEPT changes one value of a function and no other.
LEMMA Excepted ==
    ASSUME NEW f, NEW g, NEW t \in Threads, NEW v, IsFun(f), g = [f EXCEPT ![t] = v]
    PROVE  IsPut(g, f, t, v)
<1>1. PICK values : f \in [Threads -> values]
  BY DEF IsFun
<1>2. g \in [Threads -> values \cup {v}]
  BY <1>1
<1>3. g[t] = v /\ \A u \in Threads : u # t => g[u] = f[u]
  BY <1>1
<1> QED
  BY <1>2, <1>3 DEF IsFun, IsPut

\* What the model calls the parts, in terms of the tracker
LEMMA Terms ==
    /\ \A range : CellsOf(range) = Part(tracker, range)
    /\ \A o : SetWhole(o) <=> Whole(tracker, o)
    /\ IsBuffer <=> tracker.of = "buffer"
    /\ Size = SizeOf(tracker) /\ Cells = 0..SizeOf(tracker) - 1
    /\ \A c : StoredAt(c) = StoredIn(tracker, store, c)
BY DEF CellsOf, Part, SetWhole, WholeRange, Whole, IsBuffer, Size, Cells, StoredAt, StoredIn

\* What an operation is
LEMMA OpParts ==
    ASSUME IsOwnerTracker, NEW t \in Users, NEW o \in tracker.ops[t]
    PROVE  /\ t \in Threads /\ t # None /\ o # None
           /\ o.ranges \in Seq(RangesOf(tracker)) /\ Len(o.ranges) \in Nat \ {0}
           /\ o.ranges[1] \in RangesOf(tracker)
           /\ o.do \in {"set", "read"}
           /\ o.do = "set" => o.value \in OwnersOf(tracker) /\ o.value # Dense
           /\ o.do = "read" => Len(o.ranges) = 1
<1>1. tracker \in Trackers /\ tracker.kind = "sharing" /\ t \in DOMAIN tracker.ops
  BY DEF IsOwnerTracker, IsSharing, Users
<1>2. t \in Threads /\ t # None
  BY <1>1, TrackerAssumption, NoneAssumption
<1>3. o # None /\ o.ranges \in Seq(RangesOf(tracker)) \ {<<>>}
  BY <1>1, TrackerAssumption
<1>4. Len(o.ranges) \in Nat \ {0} /\ o.ranges[1] \in RangesOf(tracker)
  BY <1>3
<1>5. /\ Dense \notin {Unknown} \cup tracker.values
      /\ \/ o.do = "set" /\ o.value \in tracker.values
         \/ o.do = "read" /\ Len(o.ranges) = 1
  BY <1>1, SharingAssumption
<1>6. "set" # "read"
  OBVIOUS
<1> QED
  BY <1>2, <1>3, <1>4, <1>5, <1>6 DEF OwnersOf

\* The word that stands for the map is no owner.
LEMMA DenseIsNoOwner ==
    ASSUME IsOwnerTracker
    PROVE  Dense \notin OwnersOf(tracker)
BY SharingAssumption DEF IsOwnerTracker, IsSharing, OwnersOf

\* Only one thread is under the lock.
LEMMA OneHolder ==
    ASSUME SharingInv, NEW t \in Threads, pc[t] \in Holding, NEW u \in Threads, u # t
    PROVE  pc[u] \notin Holding /\ pc[u] # "ranges"
<1>1. lock = t /\ (lock = u <=> pc[u] \in Holding)
  BY DEF SharingInv, ThreadForm
<1> QED
  BY <1>1 DEF Holding

\* The step of one thread disturbs no other.
Apart(t) ==
    /\ tracker' = tracker
    /\ IsFun(op') /\ IsFun(local') /\ IsFun(reply')
    /\ \A u \in Threads : u # t =>
        /\ pc'[u] = pc[u] /\ op'[u] = op[u] /\ local'[u] = local[u] /\ reply'[u] = reply[u]
        /\ lock' = u <=> lock = u
        /\ pc[u] = "ranges" => word' = word /\ store' = store

\* What a step leaves alone of the other threads stays true of them.
LEMMA OthersKept ==
    ASSUME SharingInv, NEW t \in Threads, Apart(t), NEW u \in Threads, u # t
    PROVE  ThreadForm(u)'
<1>1. ThreadForm(u)
  BY DEF SharingInv
<1>2. /\ pc'[u] = pc[u] /\ op'[u] = op[u] /\ local'[u] = local[u] /\ reply'[u] = reply[u]
      /\ lock' = u <=> lock = u
      /\ pc[u] = "ranges" => word' = word /\ store' = store
      /\ tracker' = tracker
  BY DEF Apart
<1>3. CASE pc[u] = "ranges"
  BY <1>1, <1>2, <1>3 DEF ThreadForm, Users
<1>4. CASE pc[u] # "ranges"
  BY <1>1, <1>2, <1>4 DEF ThreadForm, Users
<1> QED
  BY <1>3, <1>4

\* A step that leaves word and map alone, and whose thread does not leave the ranges
LEMMA MapKept ==
    ASSUME MapForm, tracker' = tracker, word' = word, store' = store,
           \A t \in Threads : pc[t] = "ranges" => pc'[t] = "ranges"
    PROVE  MapForm'
BY DEF MapForm, Nobody

\* What is left to show of a step
LEMMA StepKeeps ==
    ASSUME SharingInv, NEW t \in Users, Apart(t), Remember, MapForm', ThreadForm(t)',
           lock' \in Users \cup {None}, pc' \in [Threads -> Labels]
    PROVE  SharingInv'
<1>1. \A u \in Threads : ThreadForm(u)'
  <2>1. t \in Threads
    BY TrackerAssumption DEF SharingInv, Typed, IsOwnerTracker, Users
  <2> QED
    BY <2>1, OthersKept
<1>2. IsFun(past')
  <2>1. past' \in [Threads -> {past'[u] : u \in Threads}]
    BY DEF Remember
  <2> QED
    BY <2>1 DEF IsFun
<1>3. Typed'
  BY <1>2 DEF Apart, SharingInv, Typed, IsOwnerTracker, IsSharing, Users
<1> QED
  BY <1>1, <1>3 DEF SharingInv

\* An answer of a reader is one.
LEMMA Answers ==
    ASSUME IsOwnerTracker, NEW t, op[t].ranges[1] \in RangesOf(tracker),
           NEW m \in [Cells -> OwnersOf(tracker)]
    PROVE  AnswerOf(t, m) # None
<1> DEFINE cells == CellsOf(op[t].ranges[1])
           a == [c \in cells |-> m[c]]
<1>1. cells \subseteq Cells /\ Cells = 0..SizeOf(tracker) - 1
  BY RangeParts, Terms
<1> HIDE DEF cells
<1>2. a \in [cells -> OwnersOf(tracker)]
  BY <1>1
<1>3. None \notin [cells -> OwnersOf(tracker)]
  BY <1>1, NoneAssumption DEF IsOwnerTracker, IsSharing, ValuesOf, OwnersOf
<1> HIDE DEF a
<1>4. a # None
  BY <1>2, <1>3
<1> QED
  BY <1>4 DEF AnswerOf, a, cells

\* The invariant holds at first.
LEMMA InvInit == Init /\ IsSharing => SharingInv
<1> SUFFICES ASSUME Init, IsSharing PROVE SharingInv
  OBVIOUS
<1>1. /\ IsOwnerTracker /\ word = Unknown /\ lock = None
      /\ store = IF IsBuffer THEN RunsOf(Unknown) ELSE None
      /\ pc = [t \in Threads |-> "idle"] /\ op = [t \in Threads |-> None]
      /\ local = [t \in Threads |-> None] /\ reply = [t \in Threads |-> None]
      /\ past = [t \in Threads |-> {}]
  BY DEF Init, SharingInit, IsOwnerTracker
<1>2. Typed
  BY <1>1 DEF Typed, Labels, IsFun
<1>3. Unknown \in OwnersOf(tracker) /\ Unknown # Dense
  BY <1>1, DenseIsNoOwner DEF OwnersOf
<1>4. MapForm
  <2>1. CASE tracker.of = "buffer"
    <3>1. store = StoreOf(Unknown)
      BY <2>1, <1>1 DEF StoreOf, IsBuffer
    <3>2. InForm(tracker, store) /\ UniformIn(tracker, store)
      BY <3>1, <1>1, <1>3, UniformMade DEF HasEverywhere
    <3> QED
      BY <3>2, <1>1, <1>3 DEF MapForm
  <2>2. CASE tracker.of # "buffer"
    <3>1. tracker.of = "image" /\ store = None
      BY <2>2, <1>1, TrackerParts DEF IsBuffer
    <3> QED
      BY <3>1, <1>1, <1>3 DEF MapForm
  <2> QED
    BY <2>1, <2>2
<1>5. ASSUME NEW t \in Threads
      PROVE  ThreadForm(t)
  BY <1>1, NoneAssumption DEF ThreadForm, IsPut, Holding, Answered
<1> QED
  BY <1>2, <1>4, <1>5 DEF SharingInv

\* What a step starts from
LEMMA StepFrom ==
    ASSUME SharingInv, NEW t \in Users
    PROVE  /\ t \in Threads /\ t # None /\ Typed /\ MapForm /\ ThreadForm(t)
           /\ op[t] # None => op[t] \in tracker.ops[t]
<1>1. t \in Threads /\ t # None
  BY TrackerAssumption, NoneAssumption DEF SharingInv, Typed, IsOwnerTracker, Users
<1> QED
  BY <1>1 DEF SharingInv, ThreadForm

\* A call keeps it.
LEMMA CallKeeps ==
    ASSUME SharingInv, NEW t \in Users, CallSharing(t), Remember
    PROVE  SharingInv'
<1>1. /\ t \in Threads /\ t # None /\ Typed /\ MapForm /\ ThreadForm(t)
  BY StepFrom
<1>2. PICK o \in tracker.ops[t] : op' = [op EXCEPT ![t] = o] /\ pc' = [pc EXCEPT ![t] = "load"]
  BY DEF CallSharing, Begin, Goto
<1>3. /\ pc[t] = "idle"
      /\ tracker' = tracker /\ word' = word /\ store' = store /\ lock' = lock
      /\ local' = local /\ reply' = reply
  BY DEF CallSharing, Begin
<1>4. IsPut(op', op, t, o)
  BY <1>1, <1>2, Excepted, Zenon DEF Typed
<1>5. /\ pc' \in [Threads -> Labels] /\ pc'[t] = "load"
      /\ \A u \in Threads : u # t => pc'[u] = pc[u]
  BY <1>1, <1>2 DEF Typed, Labels
<1>6. Apart(t)
  BY <1>1, <1>3, <1>4, <1>5 DEF Apart, Typed, IsPut
<1>7. MapForm'
  <2>1. \A u \in Threads : pc[u] = "ranges" => pc'[u] = "ranges"
    BY <1>3, <1>5
  <2> QED
    BY <2>1, <1>1, <1>3, MapKept
<1>8. ThreadForm(t)'
  <2>1. o # None
    BY <1>1, OpParts DEF Typed
  <2> QED
    BY <2>1, <1>1, <1>3, <1>4, <1>5 DEF ThreadForm, IsPut, Holding, Answered, Users
<1> QED
  BY <1>1, <1>3, <1>5, <1>6, <1>7, <1>8, StepKeeps DEF Typed

\* So does reading the word,
LEMMA LoadKeeps ==
    ASSUME SharingInv, NEW t \in Users, LoadOwner(t), Remember
    PROVE  SharingInv'
<1>1. /\ t \in Threads /\ t # None /\ Typed /\ MapForm /\ ThreadForm(t)
      /\ op[t] # None => op[t] \in tracker.ops[t]
  BY StepFrom
<1>2. /\ pc[t] = "load"
      /\ tracker' = tracker /\ word' = word /\ store' = store /\ lock' = lock /\ op' = op
  BY DEF LoadOwner
<1>3. op[t] # None /\ op[t] \in tracker.ops[t] /\ reply[t] = None /\ lock # t
  BY <1>1, <1>2 DEF ThreadForm, IsPut, Holding, Answered
<1>4. \/ /\ pc' = [pc EXCEPT ![t] = "return"] /\ local' = local
         /\ \E a : a # None /\ reply' = [reply EXCEPT ![t] = a]
      \/ /\ pc' = [pc EXCEPT ![t] = "exchange"] /\ reply' = reply
         /\ local' = [local EXCEPT ![t] = word] /\ word # Dense /\ SetWhole(op[t])
      \/ /\ pc' = [pc EXCEPT ![t] = "lock"] /\ reply' = reply /\ local' = local
  <2>1. CASE op[t].do = "read" /\ word # Dense
    <3> DEFINE a == AnswerOf(t, Everywhere(word))
    <3>1. /\ pc' = [pc EXCEPT ![t] = "return"] /\ local' = local
          /\ reply' = [reply EXCEPT ![t] = a]
      BY <2>1 DEF LoadOwner, Goto, Reply
    <3>2. a # None
      <4>1. op[t].ranges[1] \in RangesOf(tracker)
        BY <1>1, <1>3, OpParts DEF Typed
      <4>2. Everywhere(word) \in [Cells -> OwnersOf(tracker)]
        BY <2>1, <1>1 DEF MapForm, Everywhere
      <4> QED
        BY <4>1, <4>2, <1>1, Answers DEF Typed
    <3> QED
      BY <3>1, <3>2
  <2>2. CASE op[t].do = "set" /\ Unchanged(op[t])
    <3>1. /\ pc' = [pc EXCEPT ![t] = "return"] /\ local' = local
          /\ reply' = [reply EXCEPT ![t] = <<>>]
      BY <2>2 DEF LoadOwner, Goto, Reply
    <3> QED
      BY <3>1, NoneAssumption
  <2>3. CASE op[t].do = "set" /\ ~Unchanged(op[t]) /\ SetWhole(op[t]) /\ word # Dense
    BY <2>3 DEF LoadOwner, Goto, Reply
  <2>4. CASE /\ ~(op[t].do = "read" /\ word # Dense)
             /\ ~(op[t].do = "set" /\ Unchanged(op[t]))
             /\ ~(op[t].do = "set" /\ ~Unchanged(op[t]) /\ SetWhole(op[t]) /\ word # Dense)
    BY <2>4 DEF LoadOwner, Goto, Reply
  <2> QED
    BY <2>1, <2>2, <2>3, <2>4
<1>5. /\ pc' \in [Threads -> Labels] /\ pc'[t] \in {"return", "exchange", "lock"}
      /\ IsFun(local') /\ IsFun(reply')
      /\ \A u \in Threads : u # t => pc'[u] = pc[u] /\ local'[u] = local[u] /\ reply'[u] = reply[u]
      /\ reply'[t] # None <=> pc'[t] = "return"
      /\ pc'[t] = "exchange" => SetWhole(op[t]) /\ local'[t] # Dense
  <2>1. CASE /\ pc' = [pc EXCEPT ![t] = "return"] /\ local' = local
             /\ \E a : a # None /\ reply' = [reply EXCEPT ![t] = a]
    <3>1. PICK a : a # None /\ reply' = [reply EXCEPT ![t] = a]
      BY <2>1
    <3>2. IsPut(reply', reply, t, a)
      BY <3>1, <1>1, Excepted, Zenon DEF Typed
    <3> QED
      BY <2>1, <3>1, <3>2, <1>1 DEF Typed, IsPut, Labels
  <2>2. CASE /\ pc' = [pc EXCEPT ![t] = "exchange"] /\ reply' = reply
             /\ local' = [local EXCEPT ![t] = word] /\ word # Dense /\ SetWhole(op[t])
    <3>1. IsPut(local', local, t, word)
      BY <2>2, <1>1, Excepted, Zenon DEF Typed
    <3> QED
      BY <2>2, <3>1, <1>1, <1>3 DEF Typed, IsPut, Labels
  <2>3. CASE /\ pc' = [pc EXCEPT ![t] = "lock"] /\ reply' = reply /\ local' = local
    BY <2>3, <1>1, <1>3 DEF Typed, Labels
  <2> QED
    BY <1>4, <2>1, <2>2, <2>3
<1>6. Apart(t)
  BY <1>1, <1>2, <1>5 DEF Apart, Typed, IsPut
<1>7. MapForm'
  <2>1. \A u \in Threads : pc[u] = "ranges" => pc'[u] = "ranges"
    BY <1>2, <1>5
  <2> QED
    BY <2>1, <1>1, <1>2, MapKept
<1>8. ThreadForm(t)'
  BY <1>1, <1>2, <1>3, <1>5, Terms DEF ThreadForm, IsPut, Holding, Answered, Users
<1> QED
  BY <1>1, <1>2, <1>5, <1>6, <1>7, <1>8, StepKeeps DEF Typed

\* the compare-exchange of an assignment to everything,
LEMMA ExchangeKeeps ==
    ASSUME SharingInv, NEW t \in Users, ExchangeOwner(t), Remember
    PROVE  SharingInv'
<1>1. /\ t \in Threads /\ t # None /\ Typed /\ MapForm /\ ThreadForm(t)
      /\ op[t] # None => op[t] \in tracker.ops[t]
  BY StepFrom
<1>2. /\ pc[t] = "exchange"
      /\ tracker' = tracker /\ store' = store /\ lock' = lock /\ op' = op
  BY DEF ExchangeOwner
<1>3. /\ op[t] # None /\ op[t] \in tracker.ops[t] /\ reply[t] = None /\ lock # t
      /\ Whole(tracker, op[t]) /\ local[t] # Dense
  BY <1>1, <1>2 DEF ThreadForm, IsPut, Holding, Answered
<1>4. CASE word = local[t]
  <2>1. /\ word' = op[t].value /\ reply' = [reply EXCEPT ![t] = <<>>]
        /\ pc' = [pc EXCEPT ![t] = "return"] /\ local' = local
    BY <1>4 DEF ExchangeOwner, Goto, Reply
  <2>2. op[t].value \in OwnersOf(tracker) /\ op[t].value # Dense
    BY <1>1, <1>3, OpParts DEF Typed, Whole
  <2>3. /\ pc' \in [Threads -> Labels] /\ pc'[t] = "return"
        /\ \A u \in Threads : u # t => pc'[u] = pc[u]
    BY <2>1, <1>1 DEF Typed, Labels
  <2>4. IsPut(reply', reply, t, <<>>) /\ <<>> # None
    <3>1. IsPut(reply', reply, t, <<>>)
      BY <2>1, <1>1, Excepted, Zenon DEF Typed
    <3> QED
      BY <3>1, NoneAssumption
  <2>5. word # Dense
    BY <1>3, <1>4
  <2>6. Apart(t)
    <3>1. \A u \in Threads : pc[u] # "ranges"
      BY <2>5 DEF SharingInv, ThreadForm, Assigning
    <3> QED
      BY <3>1, <2>1, <2>3, <2>4, <1>1, <1>2 DEF Apart, Typed, IsPut
  <2>7. MapForm'
    BY <2>1, <2>2, <2>5, <1>1, <1>2 DEF MapForm
  <2>8. ThreadForm(t)'
    BY <2>1, <2>3, <2>4, <1>1, <1>2, <1>3 DEF ThreadForm, IsPut, Holding, Answered, Users
  <2> QED
    BY <1>1, <1>2, <2>3, <2>6, <2>7, <2>8, StepKeeps DEF Typed
<1>5. CASE word # local[t]
  <2>1. /\ local' = [local EXCEPT ![t] = word] /\ word' = word /\ reply' = reply
        /\ pc' = [pc EXCEPT ![t] = IF word = Dense THEN "lock" ELSE "exchange"]
    BY <1>5 DEF ExchangeOwner, Goto, Reply
  <2>2. /\ pc' \in [Threads -> Labels] /\ pc'[t] = IF word = Dense THEN "lock" ELSE "exchange"
        /\ \A u \in Threads : u # t => pc'[u] = pc[u]
    BY <2>1, <1>1 DEF Typed, Labels
  <2>3. IsPut(local', local, t, word)
    BY <2>1, <1>1, Excepted, Zenon DEF Typed
  <2>4. Apart(t)
    BY <2>1, <2>2, <2>3, <1>1, <1>2 DEF Apart, Typed, IsPut
  <2>5. MapForm'
    <3>1. \A u \in Threads : pc[u] = "ranges" => pc'[u] = "ranges"
      BY <1>2, <2>2
    <3> QED
      BY <3>1, <2>1, <1>1, <1>2, MapKept
  <2>6. ThreadForm(t)'
    BY <2>1, <2>2, <2>3, <1>1, <1>2, <1>3 DEF ThreadForm, IsPut, Holding, Answered, Users
  <2> QED
    BY <1>1, <1>2, <2>2, <2>4, <2>5, <2>6, StepKeeps DEF Typed
<1> QED
  BY <1>4, <1>5

\* taking the lock,
LEMMA LockKeeps ==
    ASSUME SharingInv, NEW t \in Users, Lock(t), Remember
    PROVE  SharingInv'
<1>1. /\ t \in Threads /\ t # None /\ Typed /\ MapForm /\ ThreadForm(t)
      /\ op[t] # None => op[t] \in tracker.ops[t]
  BY StepFrom
<1>2. /\ pc[t] = "lock" /\ lock = None /\ lock' = t
      /\ pc' = [pc EXCEPT ![t] = "locked"]
      /\ tracker' = tracker /\ word' = word /\ store' = store /\ op' = op
      /\ local' = local /\ reply' = reply
  BY DEF Lock, Goto
<1>3. /\ pc' \in [Threads -> Labels] /\ pc'[t] = "locked"
      /\ \A u \in Threads : u # t => pc'[u] = pc[u]
  BY <1>1, <1>2 DEF Typed, Labels
<1>4. Apart(t)
  <2>1. \A u \in Threads : u # None
    BY NoneAssumption
  <2> QED
    BY <2>1, <1>1, <1>2, <1>3 DEF Apart, Typed, IsPut
<1>5. MapForm'
  <2>1. \A u \in Threads : pc[u] = "ranges" => pc'[u] = "ranges"
    BY <1>2, <1>3
  <2> QED
    BY <2>1, <1>1, <1>2, MapKept
<1>6. ThreadForm(t)'
  BY <1>1, <1>2, <1>3 DEF ThreadForm, IsPut, Holding, Answered, Users
<1> QED
  BY <1>1, <1>2, <1>3, <1>4, <1>5, <1>6, StepKeeps

\* giving it back, and the return,
LEMMA UnlockKeeps ==
    ASSUME SharingInv, NEW t \in Users, Unlock(t) \/ Return(t), Remember
    PROVE  SharingInv'
<1>1. /\ t \in Threads /\ t # None /\ Typed /\ MapForm /\ ThreadForm(t)
      /\ op[t] # None => op[t] \in tracker.ops[t]
  BY StepFrom
<1>2. /\ pc[t] \in {"unlock", "return"}
      /\ lock' = IF pc[t] = "unlock" THEN None ELSE lock
      /\ pc' = [pc EXCEPT ![t] = "idle"] /\ op' = [op EXCEPT ![t] = None]
      /\ local' = [local EXCEPT ![t] = None] /\ reply' = [reply EXCEPT ![t] = None]
      /\ tracker' = tracker /\ word' = word /\ store' = store
  BY DEF Unlock, Return, Idle, Goto, Reply
<1>3. /\ pc' \in [Threads -> Labels] /\ pc'[t] = "idle"
      /\ \A u \in Threads : u # t => pc'[u] = pc[u]
  BY <1>1, <1>2 DEF Typed, Labels
<1>4. IsPut(op', op, t, None)
  BY <1>1, <1>2, Excepted, Zenon DEF Typed
<1>5. IsPut(local', local, t, None)
  BY <1>1, <1>2, Excepted, Zenon DEF Typed
<1>6. IsPut(reply', reply, t, None)
  BY <1>1, <1>2, Excepted, Zenon DEF Typed
<1>7. lock' # t /\ (lock' = lock \/ (lock = t /\ lock' = None))
  BY <1>1, <1>2 DEF ThreadForm, Holding
<1>8. Apart(t)
  <2>1. \A u \in Threads : u # None
    BY NoneAssumption
  <2> QED
    BY <2>1, <1>1, <1>2, <1>3, <1>4, <1>5, <1>6, <1>7 DEF Apart, Typed, IsPut
<1>9. MapForm'
  <2>1. \A u \in Threads : pc[u] = "ranges" => pc'[u] = "ranges"
    BY <1>2, <1>3
  <2> QED
    BY <2>1, <1>1, <1>2, MapKept
<1>10. ThreadForm(t)'
  BY <1>1, <1>2, <1>3, <1>4, <1>6, <1>7 DEF ThreadForm, IsPut, Holding, Answered
<1> QED
  BY <1>1, <1>2, <1>3, <1>7, <1>8, <1>9, <1>10, StepKeeps DEF Typed

\* an assignment to everything under the lock,
LEMMA SetWholeKeeps ==
    ASSUME SharingInv, NEW t \in Users, SetWholeLocked(t), Remember
    PROVE  SharingInv'
<1>1. /\ t \in Threads /\ t # None /\ Typed /\ MapForm /\ ThreadForm(t)
      /\ op[t] # None => op[t] \in tracker.ops[t]
  BY StepFrom
<1>2. /\ pc[t] = "locked" /\ SetWhole(op[t])
      /\ store' = StoreOf(op[t].value) /\ word' = op[t].value
      /\ reply' = [reply EXCEPT ![t] = <<>>] /\ pc' = [pc EXCEPT ![t] = "unlock"]
      /\ tracker' = tracker /\ lock' = lock /\ op' = op /\ local' = local
  BY DEF SetWholeLocked, Goto, Reply
<1>3. /\ op[t] # None /\ op[t] \in tracker.ops[t] /\ lock = t
      /\ op[t].value \in OwnersOf(tracker) /\ op[t].value # Dense
  <2>1. op[t] # None /\ op[t] \in tracker.ops[t] /\ lock = t
    BY <1>1, <1>2 DEF ThreadForm, Holding
  <2> QED
    BY <2>1, <1>1, <1>2, OpParts DEF Typed, SetWhole
<1>4. /\ pc' \in [Threads -> Labels] /\ pc'[t] = "unlock"
      /\ \A u \in Threads : u # t => pc'[u] = pc[u]
  BY <1>1, <1>2 DEF Typed, Labels
<1>5. IsPut(reply', reply, t, <<>>) /\ <<>> # None
  <2>1. IsPut(reply', reply, t, <<>>)
    BY <1>1, <1>2, Excepted, Zenon DEF Typed
  <2> QED
    BY <2>1, NoneAssumption
<1>6. Apart(t)
  <2>1. \A u \in Threads : u # t => pc[u] # "ranges"
    BY <1>1, <1>2, OneHolder DEF Holding
  <2> QED
    BY <2>1, <1>1, <1>2, <1>4, <1>5 DEF Apart, Typed, IsPut
<1>7. MapForm'
  <2>1. HasEverywhere(tracker, store', word')
    BY <1>1, <1>2, <1>3, UniformMade DEF Typed
  <2> QED
    BY <2>1, <1>2, <1>3 DEF MapForm, HasEverywhere
<1>8. ThreadForm(t)'
  BY <1>1, <1>2, <1>3, <1>4, <1>5 DEF ThreadForm, IsPut, Holding, Answered, Users
<1> QED
  BY <1>1, <1>2, <1>4, <1>6, <1>7, <1>8, StepKeeps DEF Typed

\* the map taking over from the word,
LEMMA PromoteKeeps ==
    ASSUME SharingInv, NEW t \in Users, Promote(t), Remember
    PROVE  SharingInv'
<1>1. /\ t \in Threads /\ t # None /\ Typed /\ MapForm /\ ThreadForm(t)
      /\ op[t] # None => op[t] \in tracker.ops[t]
  BY StepFrom
<1>2. /\ pc[t] = "locked" /\ op[t].do = "set" /\ ~SetWhole(op[t])
      /\ IF word # Dense THEN word' = Dense /\ store' = Captured(word)
         ELSE word' = word /\ store' = store
      /\ reply' = [reply EXCEPT ![t] = <<>>] /\ pc' = [pc EXCEPT ![t] = "ranges"]
      /\ local' = [local EXCEPT ![t] = 0]
      /\ tracker' = tracker /\ lock' = lock /\ op' = op
  BY DEF Promote, Goto, Reply
<1>3. op[t] # None /\ op[t] \in tracker.ops[t] /\ lock = t
  BY <1>1, <1>2 DEF ThreadForm, Holding
<1>4. /\ pc' \in [Threads -> Labels] /\ pc'[t] = "ranges"
      /\ \A u \in Threads : u # t => pc'[u] = pc[u]
  BY <1>1, <1>2 DEF Typed, Labels
<1>5. IsPut(reply', reply, t, <<>>) /\ <<>> # None
  <2>1. IsPut(reply', reply, t, <<>>)
    BY <1>1, <1>2, Excepted, Zenon DEF Typed
  <2> QED
    BY <2>1, NoneAssumption
<1>6. IsPut(local', local, t, 0)
  BY <1>1, <1>2, Excepted, Zenon DEF Typed
<1>7. Apart(t)
  <2>1. \A u \in Threads : u # t => pc[u] # "ranges"
    BY <1>1, <1>2, OneHolder DEF Holding
  <2> QED
    BY <2>1, <1>1, <1>2, <1>4, <1>5, <1>6 DEF Apart, Typed, IsPut
<1>8. word' = Dense /\ InForm(tracker, store')
  <2>1. CASE word = Dense
    BY <2>1, <1>1, <1>2 DEF MapForm
  <2>2. CASE word # Dense
    <3>1. word \in OwnersOf(tracker) /\ (IsBuffer => InForm(tracker, store) /\ UniformIn(tracker, store))
      BY <2>2, <1>1 DEF MapForm, IsBuffer
    <3>2. HasEverywhere(tracker, Captured(word), word)
      BY <3>1, <1>1, UniformCaptured DEF Typed
    <3> QED
      BY <3>2, <2>2, <1>2 DEF HasEverywhere
  <2> QED
    BY <2>1, <2>2
<1>9. MapForm'
  BY <1>1, <1>2, <1>4, <1>8 DEF MapForm, Nobody
<1>10. ThreadForm(t)'
  <2>1. Assigning(tracker, op[t], 0, Dense, store')
    <3>1. Len(op[t].ranges) \in Nat
      BY <1>1, <1>3, OpParts DEF Typed
    <3> QED
      BY <3>1, <1>2, Terms DEF Assigning
  <2>2. Assigning(tracker', op'[t], local'[t], word', store')
    BY <2>1, <1>2, <1>6, <1>8 DEF IsPut
  <2> QED
    BY <2>2, <1>1, <1>2, <1>3, <1>4, <1>5 DEF ThreadForm, IsPut, Holding, Answered, Users
<1> QED
  BY <1>1, <1>2, <1>4, <1>7, <1>9, <1>10, StepKeeps DEF Typed

\* an assignment to one range,
LEMMA AssignKeeps ==
    ASSUME SharingInv, NEW t \in Users, AssignRange(t), Remember
    PROVE  SharingInv'
<1> DEFINE o == op[t]
           n == local[t]
           range == o.ranges[n + 1]
<1>1. /\ t \in Threads /\ t # None /\ Typed /\ MapForm /\ ThreadForm(t)
      /\ op[t] # None => op[t] \in tracker.ops[t]
  BY StepFrom
<1>2. /\ pc[t] = "ranges" /\ n < Len(o.ranges)
      /\ store' = Assigned(store, o.value, range)
      /\ local' = [local EXCEPT ![t] = n + 1]
      /\ tracker' = tracker /\ word' = word /\ lock' = lock /\ pc' = pc /\ op' = op /\ reply' = reply
  BY DEF AssignRange
<1>3. /\ o # None /\ o \in tracker.ops[t] /\ lock = t
      /\ Assigning(tracker, o, n, word, store) /\ word = Dense
  BY <1>1, <1>2 DEF ThreadForm, Holding, Assigning
<1>4. /\ o.value \in OwnersOf(tracker) /\ Len(o.ranges) \in Nat /\ n \in 0..Len(o.ranges)
      /\ \A i \in 1..Len(o.ranges) : o.ranges[i] \in RangesOf(tracker)
  <2>1. o.do = "set" /\ n \in 0..Len(o.ranges)
    BY <1>3 DEF Assigning
  <2>2. o.value \in OwnersOf(tracker) /\ o.ranges \in Seq(RangesOf(tracker))
    BY <2>1, <1>1, <1>3, OpParts DEF Typed
  <2> QED
    BY <2>1, <2>2
<1>5. IsPut(local', local, t, n + 1)
  BY <1>1, <1>2, Excepted, Zenon DEF Typed
<1> HIDE DEF o, n
<1>6. Takes(tracker, store', store, o.value, Part(tracker, range))
  <2>1. n + 1 \in 1..Len(o.ranges)
    BY <1>2, <1>4
  <2>2. range \in RangesOf(tracker)
    BY <2>1, <1>4
  <2>3. InForm(tracker, store)
    BY <1>1, <1>3 DEF MapForm
  <2>4. Takes(tracker, Assigned(store, o.value, range), store, o.value, CellsOf(range))
    <3> HIDE DEF range
    <3> QED
      BY <2>2, <2>3, <1>1, <1>4, RangeAssigned DEF Typed
  <2> QED
    BY <2>4, <1>2, Terms
<1>7. Apart(t)
  <2>1. \A u \in Threads : u # t => pc[u] # "ranges"
    BY <1>1, <1>2, OneHolder DEF Holding
  <2> QED
    BY <2>1, <1>1, <1>2, <1>5 DEF Apart, Typed, IsPut
<1>8. MapForm'
  BY <1>1, <1>2, <1>3, <1>6 DEF MapForm, Nobody, Takes
<1>9. Assigning(tracker, o, n + 1, word, store')
  <2>1. o.do = "set" /\ ~Whole(tracker, o) /\ word = Dense /\ n + 1 \in 0..Len(o.ranges)
    BY <1>2, <1>3, <1>4 DEF Assigning
  <2>2. ASSUME NEW i \in 1..n + 1, NEW c \in Part(tracker, o.ranges[i])
        PROVE  StoredIn(tracker, store', c) = o.value
    <3>1. i \in 1..Len(o.ranges) /\ (i = n + 1 \/ i \in 1..n)
      BY <1>2, <1>4
    <3>2. c \in 0..SizeOf(tracker) - 1
      BY <3>1, <1>1, <1>4, RangeParts, Terms DEF Typed
    <3>3. c \in Part(tracker, range) \/ StoredIn(tracker, store, c) = o.value
      BY <3>1, <2>2, <1>3 DEF Assigning
    <3> QED
      BY <3>2, <3>3, <1>6 DEF Takes
  <2> QED
    BY <2>1, <2>2 DEF Assigning
<1>10. ThreadForm(t)'
  <2>1. Assigning(tracker', op'[t], local'[t], word', store')
    BY <1>2, <1>5, <1>9 DEF IsPut, o
  <2> QED
    BY <2>1, <1>1, <1>2 DEF ThreadForm, Holding, Answered, Users
<1> QED
  BY <1>1, <1>2, <1>7, <1>8, <1>10, StepKeeps DEF Typed

\* the word taking over from the map,
LEMMA DemoteKeeps ==
    ASSUME SharingInv, NEW t \in Users, Demote(t), Remember
    PROVE  SharingInv'
<1>1. /\ t \in Threads /\ t # None /\ Typed /\ MapForm /\ ThreadForm(t)
      /\ op[t] # None => op[t] \in tracker.ops[t]
  BY StepFrom
<1>2. /\ pc[t] = "ranges"
      /\ word' = IF UniformIn(tracker, store) THEN FirstIn(tracker, store) ELSE word
      /\ pc' = [pc EXCEPT ![t] = "unlock"]
      /\ tracker' = tracker /\ store' = store /\ lock' = lock /\ op' = op
      /\ local' = local /\ reply' = reply
  BY DEF Demote, Goto, StoreUniform, FirstStored, UniformIn, FirstIn, IsBuffer
<1>3. lock = t /\ word = Dense /\ InForm(tracker, store)
  BY <1>1, <1>2 DEF ThreadForm, Holding, Assigning, MapForm
<1>4. /\ pc' \in [Threads -> Labels] /\ pc'[t] = "unlock"
      /\ \A u \in Threads : u # t => pc'[u] = pc[u]
  BY <1>1, <1>2 DEF Typed, Labels
<1>5. Apart(t)
  <2>1. \A u \in Threads : u # t => pc[u] # "ranges"
    BY <1>1, <1>2, OneHolder DEF Holding
  <2> QED
    BY <2>1, <1>1, <1>2, <1>4 DEF Apart, Typed
<1>6. MapForm'
  <2>1. CASE UniformIn(tracker, store)
    <3>1. FirstIn(tracker, store) \in OwnersOf(tracker) /\ Dense \notin OwnersOf(tracker)
      BY <2>1, <1>1, <1>3, UniformStored, DenseIsNoOwner DEF Typed
    <3> QED
      BY <2>1, <3>1, <1>2, <1>3 DEF MapForm
  <2>2. CASE ~UniformIn(tracker, store)
    BY <2>2, <1>1, <1>2, <1>3 DEF MapForm
  <2> QED
    BY <2>1, <2>2
<1>7. ThreadForm(t)'
  BY <1>1, <1>2, <1>3, <1>4 DEF ThreadForm, Holding, Answered, Users
<1> QED
  BY <1>1, <1>2, <1>4, <1>5, <1>6, <1>7, StepKeeps DEF Typed

\* A map in form holds owners.
LEMMA StoredOwners ==
    ASSUME IsOwnerTracker, NEW s, InForm(tracker, s), NEW c \in 0..SizeOf(tracker) - 1
    PROVE  StoredIn(tracker, s, c) \in OwnersOf(tracker)
<1>1. Size \in Nat \ {0} /\ Size = SizeOf(tracker)
  BY TrackerParts, Terms
<1>2. CASE tracker.of = "buffer"
  <2>1. IsRuns(s, OwnersOf(tracker), SizeOf(tracker)) /\ c \in Nat
    BY <1>1, <1>2 DEF InForm
  <2>2. RunIndexAt(s, c) \in DOMAIN s
    BY <2>1, RunOf DEF IsRuns
  <2>3. Value(s, RunIndexAt(s, c)) \in OwnersOf(tracker)
    BY <2>1, <2>2, RunParts DEF IsRuns
  <2> QED
    BY <2>3, <1>2 DEF StoredIn, RunValueAt
<1>3. CASE tracker.of # "buffer"
  <2>1. s.values \in Seq(OwnersOf(tracker)) /\ Len(s.values) \in {1, Size}
    BY <1>1, <1>3 DEF InForm, IsDense
  <2>2. Len(s.values) = 1 \/ c + 1 \in 1..Len(s.values)
    BY <2>1, <1>1
  <2>3. ValueAt(s, c) \in OwnersOf(tracker)
    BY <2>1, <2>2 DEF ValueAt
  <2> QED
    BY <2>3, <1>3 DEF StoredIn
<1> QED
  BY <1>2, <1>3

\* and a query under the lock.
LEMMA ReadLockedKeeps ==
    ASSUME SharingInv, NEW t \in Users, ReadLocked(t), Remember
    PROVE  SharingInv'
<1> DEFINE m == IF word = Dense THEN [c \in Cells |-> StoredAt(c)] ELSE Everywhere(word)
           a == AnswerOf(t, m)
<1>1. /\ t \in Threads /\ t # None /\ Typed /\ MapForm /\ ThreadForm(t)
      /\ op[t] # None => op[t] \in tracker.ops[t]
  BY StepFrom
<1>2. /\ pc[t] = "locked" /\ reply' = [reply EXCEPT ![t] = a]
      /\ pc' = [pc EXCEPT ![t] = "unlock"]
      /\ tracker' = tracker /\ word' = word /\ store' = store /\ lock' = lock
      /\ op' = op /\ local' = local
  BY DEF ReadLocked, Goto, Reply
<1>3. op[t] # None /\ op[t] \in tracker.ops[t] /\ lock = t
  BY <1>1, <1>2 DEF ThreadForm, Holding
<1>4. m \in [Cells -> OwnersOf(tracker)]
  <2>1. CASE word = Dense
    <3>1. InForm(tracker, store)
      BY <2>1, <1>1 DEF MapForm
    <3>2. \A c \in Cells : StoredAt(c) \in OwnersOf(tracker)
      BY <3>1, <1>1, StoredOwners, Terms DEF Typed
    <3> QED
      BY <2>1, <3>2
  <2>2. CASE word # Dense
    BY <2>2, <1>1 DEF MapForm, Everywhere
  <2> QED
    BY <2>1, <2>2
<1> HIDE DEF m
<1>5. a # None
  <2>1. op[t].ranges[1] \in RangesOf(tracker)
    BY <1>1, <1>3, OpParts DEF Typed
  <2> HIDE DEF a
  <2> QED
    BY <2>1, <1>1, <1>4, Answers DEF Typed, a
<1>6. /\ pc' \in [Threads -> Labels] /\ pc'[t] = "unlock"
      /\ \A u \in Threads : u # t => pc'[u] = pc[u]
  BY <1>1, <1>2 DEF Typed, Labels
<1> HIDE DEF a
<1>7. IsPut(reply', reply, t, a)
  BY <1>1, <1>2, Excepted, Zenon DEF Typed
<1>8. Apart(t)
  BY <1>1, <1>2, <1>6, <1>7 DEF Apart, Typed, IsPut
<1>9. MapForm'
  <2>1. \A u \in Threads : pc[u] = "ranges" => pc'[u] = "ranges"
    BY <1>2, <1>6
  <2> QED
    BY <2>1, <1>1, <1>2, MapKept
<1>10. ThreadForm(t)'
  BY <1>1, <1>2, <1>3, <1>5, <1>6, <1>7 DEF ThreadForm, IsPut, Holding, Answered, Users
<1> QED
  BY <1>1, <1>2, <1>6, <1>8, <1>9, <1>10, StepKeeps DEF Typed

\* Every step keeps the invariant.
LEMMA InvNext == SharingInv /\ [Next]_vars => SharingInv'
<1> SUFFICES ASSUME SharingInv, [Next]_vars PROVE SharingInv'
  OBVIOUS
<1>1. CASE Next
  <2>1. PICK t \in Users : Step(t)
    BY <1>1 DEF Next
  <2>2. Remember /\ SharingStep(t)
    <3>1. IsSharing /\ "sharing" # "access" /\ "sharing" # "claims"
      BY DEF SharingInv, Typed, IsOwnerTracker
    <3> QED
      BY <2>1, <3>1, <1>1 DEF Next, Step, IsSharing, IsAccess, IsClaims
  <2> QED
    BY <2>2, CallKeeps, LoadKeeps, ExchangeKeeps, LockKeeps, SetWholeKeeps, PromoteKeeps,
       AssignKeeps, DemoteKeeps, ReadLockedKeeps, UnlockKeeps DEF SharingStep
<1>2. CASE UNCHANGED vars
  BY <1>2 DEF vars, trackerVars, SharingInv, Typed, IsOwnerTracker, IsSharing, Users, MapForm, Nobody,
       ThreadForm
<1> QED
  BY <1>1, <1>2

\* The invariant always holds.
LEMMA InvAlways == Spec /\ IsSharing => []SharingInv
<1>1. Init /\ IsSharing => SharingInv
  BY InvInit
<1>2. SharingInv /\ [Next]_vars => SharingInv'
  BY InvNext
<1> QED
  BY <1>1, <1>2, PTL DEF Spec
-----------------------------------------------------------------------------
(* What the tracker says                                                    *)

Reached(k, o) == UNION {Part(k, r) : r \in ToSet(o.ranges)}

AllOf(k, owner) == [c \in 0..SizeOf(k) - 1 |-> owner]
MapOf(k, s) == [c \in 0..SizeOf(k) - 1 |-> StoredIn(k, s, c)]
Overlaid(k, s, o) ==
    [c \in 0..SizeOf(k) - 1 |-> IF c \in Reached(k, o) THEN o.value ELSE StoredIn(k, s, c)]

\* The word, or the map with the ranges of an assignment under way laid over it
ContentForm ==
    /\ word # Dense => Contents = AllOf(tracker, word)
    /\ word = Dense /\ Nobody("ranges") => Contents = MapOf(tracker, store)
    /\ \A w \in Threads : pc[w] = "ranges" => Contents = Overlaid(tracker, store, op[w])

\* What the ranges of an operation reach
LEMMA ReachedParts ==
    ASSUME IsOwnerTracker, NEW t \in Users, NEW o \in tracker.ops[t]
    PROVE  /\ Reached(tracker, o) \subseteq 0..SizeOf(tracker) - 1
           /\ \A c : c \in Reached(tracker, o)
                        <=> \E i \in 1..Len(o.ranges) : c \in Part(tracker, o.ranges[i])
           /\ Whole(tracker, o) => Reached(tracker, o) = 0..SizeOf(tracker) - 1
           /\ Len(o.ranges) = 1 => Reached(tracker, o) = Part(tracker, o.ranges[1])
<1>1. o.ranges \in Seq(RangesOf(tracker)) /\ Len(o.ranges) \in Nat \ {0}
  BY OpParts
<1>2. DOMAIN o.ranges = 1..Len(o.ranges) /\ 1 \in 1..Len(o.ranges)
  BY <1>1
<1>3. \A c : c \in Reached(tracker, o)
                <=> \E i \in 1..Len(o.ranges) : c \in Part(tracker, o.ranges[i])
  BY <1>2 DEF Reached, ToSet
<1>4. Reached(tracker, o) \subseteq 0..SizeOf(tracker) - 1
  <2>1. \A i \in 1..Len(o.ranges) : o.ranges[i] \in RangesOf(tracker)
    BY <1>1
  <2>2. \A r \in RangesOf(tracker) : Part(tracker, r) \subseteq 0..SizeOf(tracker) - 1
    BY RangeParts, Terms
  <2> QED
    BY <2>1, <2>2, <1>3
<1>5. Len(o.ranges) = 1 => Reached(tracker, o) = Part(tracker, o.ranges[1])
  <2>1. \A i : i \in 1..1 <=> i = 1
    OBVIOUS
  <2> QED
    BY <2>1, <1>3
<1>6. Whole(tracker, o) => Reached(tracker, o) = 0..SizeOf(tracker) - 1
  <2>1. SUFFICES ASSUME Whole(tracker, o)
                 PROVE  Reached(tracker, o) = 0..SizeOf(tracker) - 1
    OBVIOUS
  <2>2. Len(o.ranges) = 1 /\ WholeRange(o.ranges[1])
    BY <2>1 DEF Whole, WholeRange, IsBuffer, Size
  <2>3. o.ranges[1] \in RangesOf(tracker)
    BY <1>1, <1>2
  <2> QED
    BY <2>2, <2>3, <1>5, RangeParts, Terms
<1> QED
  BY <1>3, <1>4, <1>5, <1>6

\* What the model calls Contents is the word or the map, as the invariant has them.
LEMMA ContentsAre == SharingInv => ContentForm
<1> SUFFICES ASSUME SharingInv PROVE ContentForm
  OBVIOUS
<1> DEFINE writers == {t \in Users : pc[t] = "ranges"}
           covered == UNION {CellsOf(r) : r \in UNION {ToSet(op[t].ranges) : t \in writers}}
<1>1. Typed /\ IsSharing /\ Users \subseteq Threads
  BY TrackerAssumption DEF SharingInv, Typed, IsOwnerTracker, Users
<1>2. Contents = IF word # Dense THEN Everywhere(word)
                 ELSE [c \in Cells |-> IF c \in covered
                              THEN op[CHOOSE t \in writers : TRUE].value ELSE StoredAt(c)]
  BY <1>1 DEF Contents, Owners
<1>3. Cells = 0..SizeOf(tracker) - 1 /\ \A c : StoredAt(c) = StoredIn(tracker, store, c)
  BY Terms
<1>4. word # Dense => Contents = AllOf(tracker, word)
  BY <1>2, <1>3 DEF AllOf, Everywhere
<1>5. word = Dense /\ Nobody("ranges") => Contents = MapOf(tracker, store)
  <2>1. SUFFICES ASSUME word = Dense, Nobody("ranges")
                 PROVE  Contents = MapOf(tracker, store)
    OBVIOUS
  <2>2. writers = {}
    BY <2>1, <1>1 DEF Nobody
  <2>3. covered = {}
    BY <2>2
  <2> HIDE DEF covered, writers
  <2> QED
    BY <2>1, <2>3, <1>2, <1>3 DEF MapOf
<1>6. ASSUME NEW w \in Threads, pc[w] = "ranges"
      PROVE  Contents = Overlaid(tracker, store, op[w])
  <2>1. ThreadForm(w) /\ op[w] # None
    BY <1>6 DEF SharingInv, ThreadForm
  <2>2. word = Dense /\ w \in Users
    BY <2>1, <1>6 DEF ThreadForm, Assigning
  <2>3. \A u \in Threads : u # w => pc[u] # "ranges"
    BY <1>6, OneHolder DEF Holding
  <2>4. writers = {w}
    BY <2>2, <2>3, <1>1, <1>6
  <2>5. (CHOOSE t \in writers : TRUE) = w
    BY <2>4
  <2>6. covered = Reached(tracker, op[w])
    <3>1. UNION {ToSet(op[t].ranges) : t \in writers} = ToSet(op[w].ranges)
      BY <2>4
    <3>2. \A r : CellsOf(r) = Part(tracker, r)
      BY Terms
    <3> QED
      BY <3>1, <3>2 DEF Reached
  <2> HIDE DEF covered, writers
  <2> QED
    BY <2>2, <2>5, <2>6, <1>2, <1>3 DEF Overlaid
<1> QED
  BY <1>4, <1>5, <1>6 DEF ContentForm

\* ... which is an owner for every cell
LEMMA ContentsTyped == SharingInv => Contents \in [0..SizeOf(tracker) - 1 -> OwnersOf(tracker)]
<1> SUFFICES ASSUME SharingInv
             PROVE  Contents \in [0..SizeOf(tracker) - 1 -> OwnersOf(tracker)]
  OBVIOUS
<1>1. Typed /\ MapForm /\ ContentForm /\ IsOwnerTracker
  BY ContentsAre DEF SharingInv, Typed
<1>2. CASE word # Dense
  BY <1>1, <1>2 DEF ContentForm, AllOf, MapForm
<1>3. CASE word = Dense
  <2>1. \A c \in 0..SizeOf(tracker) - 1 : StoredIn(tracker, store, c) \in OwnersOf(tracker)
    BY <1>1, <1>3, StoredOwners DEF MapForm
  <2>2. CASE Nobody("ranges")
    BY <2>1, <2>2, <1>1, <1>3 DEF ContentForm, MapOf
  <2>3. CASE ~Nobody("ranges")
    <3>1. PICK w \in Threads : pc[w] = "ranges"
      BY <2>3 DEF Nobody
    <3>2. w \in Users /\ op[w] \in tracker.ops[w] /\ op[w].do = "set"
      BY <3>1 DEF SharingInv, ThreadForm, Assigning
    <3>3. op[w].value \in OwnersOf(tracker)
      BY <3>2, <1>1, OpParts
    <3>4. Contents = Overlaid(tracker, store, op[w])
      BY <3>1, <1>1 DEF ContentForm
    <3> QED
      BY <2>1, <3>3, <3>4 DEF Overlaid
  <2> QED
    BY <2>2, <2>3
<1> QED
  BY <1>2, <1>3

\* The same after a step
LEMMA ContentsNext == SharingInv' => /\ ContentForm'
                                     /\ Contents' \in [0..SizeOf(tracker') - 1 -> OwnersOf(tracker')]
<1>1. SharingInv' => ContentForm'
  BY ContentsAre, PTL
<1>2. SharingInv' => (Contents \in [0..SizeOf(tracker) - 1 -> OwnersOf(tracker)])'
  BY ContentsTyped, PTL
<1> QED
  BY <1>1, <1>2
-----------------------------------------------------------------------------
(* The atomic map that the tracker implements, and its steps                *)

AbstractOf(k, o) ==
    [cells |-> Reached(k, o),
     update |-> [v \in OwnersOf(k) |-> IF o.do = "set" THEN o.value ELSE v],
     answers |-> o.do # "set",
     reads |-> o.do = "read"]

CalledIn(k, ops) == [t \in Threads |-> IF ops[t] = None THEN None ELSE AbstractOf(k, ops[t])]

\* An operation of the tracker as one of the map
LEMMA AbstractParts ==
    ASSUME IsOwnerTracker, NEW t \in Users, NEW o \in tracker.ops[t], NEW a,
           a = AbstractOf(tracker, o)
    PROVE  /\ a # None
           /\ a.cells = Reached(tracker, o)
           /\ a.reads <=> o.do = "read"
           /\ a.answers <=> o.do = "read"
           /\ \A v \in OwnersOf(tracker) : a.update[v] = IF o.do = "set" THEN o.value ELSE v
<1> DEFINE f == [v \in OwnersOf(tracker) |-> IF o.do = "set" THEN o.value ELSE v]
           cells == Reached(tracker, o)
<1>1. /\ o.do \in {"set", "read"} /\ "set" # "read"
      /\ o.do = "set" => o.value \in OwnersOf(tracker)
  BY OpParts
<1>2. f \in [OwnersOf(tracker) -> OwnersOf(tracker)]
  BY <1>1
<1>3. \A v \in OwnersOf(tracker) : f[v] = IF o.do = "set" THEN o.value ELSE v
  OBVIOUS
<1>4. cells \in SUBSET Nat
  <2>1. 0..SizeOf(tracker) - 1 \subseteq Nat
    BY TrackerParts, Terms
  <2> QED
    BY <2>1, ReachedParts
<1>5. a = [cells |-> cells, update |-> f, answers |-> o.do # "set", reads |-> o.do = "read"]
  BY DEF AbstractOf
<1> HIDE DEF f, cells
<1>6. /\ a.cells = cells /\ a.update = f
      /\ a.reads <=> o.do = "read"
      /\ a.answers <=> o.do = "read"
  <2>1. CASE o.do = "read"
    <3>1. a = [cells |-> cells, update |-> f, answers |-> TRUE, reads |-> TRUE]
      BY <2>1, <1>1, <1>5
    <3> QED
      BY <2>1, <3>1
  <2>2. CASE o.do = "set"
    <3>1. a = [cells |-> cells, update |-> f, answers |-> FALSE, reads |-> FALSE]
      BY <2>2, <1>1, <1>5
    <3> QED
      BY <2>2, <3>1, <1>1
  <2> QED
    BY <2>1, <2>2, <1>1
<1>7. a \in [cells : SUBSET Nat, update : [OwnersOf(tracker) -> OwnersOf(tracker)],
             answers : BOOLEAN, reads : BOOLEAN]
  BY <1>2, <1>4, <1>5
<1>8. None \notin [cells : SUBSET Nat, update : [OwnersOf(tracker) -> OwnersOf(tracker)],
                   answers : BOOLEAN, reads : BOOLEAN]
  BY NoneAssumption DEF IsOwnerTracker, IsSharing, ValuesOf, OwnersOf
<1>9. a # None
  BY <1>7, <1>8
<1> QED
  BY <1>1, <1>3, <1>6, <1>9 DEF cells

\* The calls and the answers that the map is given are those of the tracker.
LEMMA MapTerms == SharingInv => Called = CalledIn(tracker, op) /\ Replied = reply
<1> SUFFICES ASSUME SharingInv PROVE Called = CalledIn(tracker, op) /\ Replied = reply
  OBVIOUS
<1>1. IsSharing /\ ~IsAccess /\ ~IsClaims /\ Typed
  BY DEF SharingInv, Typed, IsOwnerTracker, IsSharing, IsAccess, IsClaims
<1>2. Replied = reply
  <2>1. Replied = [t \in Threads |-> reply[t]]
    BY <1>1 DEF Replied
  <2>2. PICK values : reply \in [Threads -> values]
    BY <1>1 DEF Typed, IsFun
  <2> QED
    BY <2>1, <2>2
<1>3. \A o : Abstract(o) = AbstractOf(tracker, o)
  <2> TAKE o
  <2>1. UNION {CellsOf(r) : r \in ToSet(o.ranges)} = Reached(tracker, o)
    <3>1. \A r : CellsOf(r) = Part(tracker, r)
      BY Terms
    <3> QED
      BY <3>1 DEF Reached
  <2>2. CellValues = OwnersOf(tracker)
    BY <1>1 DEF CellValues, ValuesOf, IsSharing, OwnersOf
  <2>3. [v \in CellValues |-> CASE IsSharing -> IF o.do = "set" THEN o.value ELSE v
                                [] IsAccess -> Updated(o, v)
                                [] IsClaims -> Ignored]
            = [v \in OwnersOf(tracker) |-> IF o.do = "set" THEN o.value ELSE v]
    BY <1>1, <2>2
  <2> QED
    BY <2>1, <2>3 DEF Abstract, AbstractOf
<1>4. Called = CalledIn(tracker, op)
  BY <1>3 DEF Called, CalledIn
<1> QED
  BY <1>2, <1>4

\* So they are after a step.
LEMMA MapTermsNext == SharingInv' => Called' = CalledIn(tracker', op') /\ Replied' = reply'
<1>1. SharingInv' => (Called = CalledIn(tracker, op) /\ Replied = reply)'
  BY MapTerms, PTL
<1> QED
  BY <1>1

\* The calls of the map are a function.
LEMMA CalledFun ==
    ASSUME NEW k, NEW ops
    PROVE  IsFun(CalledIn(k, ops))
<1> DEFINE f == CalledIn(k, ops)
<1>1. f \in [Threads -> {f[u] : u \in Threads}]
  BY DEF CalledIn
<1> HIDE DEF f
<1>2. IsFun(f)
  BY <1>1 DEF IsFun
<1> QED
  BY <1>2 DEF f

\* Changing one value of a function is EXCEPT.
LEMMA PutIs ==
    ASSUME NEW f, NEW g, NEW t \in Threads, NEW v, IsFun(f), IsPut(g, f, t, v)
    PROVE  g = [f EXCEPT ![t] = v]
<1>1. PICK values : f \in [Threads -> values]
  BY DEF IsFun
<1>2. PICK more : g \in [Threads -> more]
  BY DEF IsFun, IsPut
<1>3. g[t] = v /\ \A u \in Threads : u # t => g[u] = f[u]
  BY DEF IsPut
<1> QED
  BY <1>1, <1>2, <1>3

-----------------------------------------------------------------------------
(* What the map was since a reader's call                                   *)

Reading(o, r) == o # None /\ r = None /\ o.do = "read"

PastForm ==
    \A u \in Threads : IF Reading(op[u], reply[u]) THEN Contents \in past[u] ELSE past[u] = {}

Remembered(p, ops, replies, m, q) ==
    \A u \in Threads : q[u] = IF Reading(ops[u], replies[u]) THEN p[u] \cup {m} ELSE {}

\* What is remembered of the maps that a reader may answer with
LEMMA RememberIs ==
    ASSUME Remember
    PROVE  /\ IsFun(past') /\ PastForm'
           /\ Remembered(past, op', reply', Contents', past')
<1>1. \A u \in Threads : past'[u] = IF Reading(op'[u], reply'[u]) THEN past[u] \cup {Contents'} ELSE {}
  BY DEF Remember, Reading
<1>2. IsFun(past')
  <2>1. past' \in [Threads -> {past'[u] : u \in Threads}]
    BY DEF Remember
  <2> QED
    BY <2>1 DEF IsFun
<1>3. PastForm'
  <2>1. \A u \in Threads : IF Reading(op'[u], reply'[u]) THEN Contents' \in past'[u] ELSE past'[u] = {}
    BY <1>1
  <2> QED
    BY <2>1 DEF PastForm, Reading
<1> QED
  BY <1>1, <1>2, <1>3 DEF Remembered

MapInv == SharingInv /\ PastForm

\* What a step of the tracker leaves behind and starts from
MapStep(t) ==
    /\ MapInv /\ SharingInv' /\ Remember /\ t \in Users /\ tracker' = tracker

\* What every step of a thread gives
LEMMA MapStepParts ==
    ASSUME NEW t, MapStep(t)
    PROVE  /\ t \in Threads /\ IsOwnerTracker /\ PastForm
           /\ IsFun(op) /\ IsFun(reply) /\ IsFun(past) /\ IsFun(op') /\ IsFun(reply') /\ IsFun(past')
           /\ Called = CalledIn(tracker, op) /\ Called' = CalledIn(tracker, op')
           /\ Replied = reply /\ Replied' = reply'
           /\ Contents \in [0..SizeOf(tracker) - 1 -> OwnersOf(tracker)]
           /\ Remembered(past, op', reply', Contents', past')
           /\ \A u \in Threads : op[u] # None => u \in Users /\ op[u] \in tracker.ops[u]
<1>1. SharingInv /\ SharingInv' /\ tracker' = tracker /\ t \in Users /\ PastForm /\ Remember
  BY DEF MapStep, MapInv
<1>2. t \in Threads /\ IsOwnerTracker
  BY <1>1, StepFrom DEF Typed
<1>3. IsFun(op) /\ IsFun(reply) /\ IsFun(past) /\ IsFun(op') /\ IsFun(reply') /\ IsFun(past')
  BY <1>1 DEF SharingInv, Typed
<1>4. /\ Called = CalledIn(tracker, op) /\ Called' = CalledIn(tracker, op')
      /\ Replied = reply /\ Replied' = reply'
  BY <1>1, MapTerms, MapTermsNext
<1>5. \A u \in Threads : op[u] # None => u \in Users /\ op[u] \in tracker.ops[u]
  BY <1>1 DEF SharingInv, ThreadForm
<1> QED
  BY <1>1, <1>2, <1>3, <1>4, <1>5, ContentsTyped, RememberIs

\* A step that changes nothing that the map shows
LEMMA MapStutters ==
    ASSUME NEW t, MapStep(t), op' = op, reply' = reply, Contents' = Contents
    PROVE  UNCHANGED Map!vars
<1>1. Called' = Called /\ Replied' = Replied
  BY MapStepParts
<1>2. past' = past
  <2>1. \A u \in Threads : past'[u] = past[u]
    BY MapStepParts DEF PastForm, Remembered
  <2>2. IsFun(past) /\ IsFun(past')
    BY MapStepParts
  <2>3. PICK values : past \in [Threads -> values]
    BY <2>2 DEF IsFun
  <2>4. PICK more : past' \in [Threads -> more]
    BY <2>2 DEF IsFun
  <2> QED
    BY <2>1, <2>3, <2>4
<1> QED
  BY <1>1, <1>2 DEF Map!vars

\* A call of the tracker is a call of the map.
LEMMA CallMaps ==
    ASSUME NEW t, MapStep(t), NEW o \in tracker.ops[t], op[t] = None, reply[t] = None,
           op' = [op EXCEPT ![t] = o], reply' = reply, Contents' = Contents
    PROVE  Map!Call(t)
<1> DEFINE k == tracker
           a == AbstractOf(k, o)
<1>1. t \in Users /\ t \in Threads /\ IsOwnerTracker
  BY MapStepParts DEF MapStep
<1>2. a # None /\ a.cells = Reached(k, o) /\ (a.reads <=> o.do = "read") /\ o # None
  BY <1>1, AbstractParts, OpParts
<1>3. IsPut(op', op, t, o)
  BY <1>1, MapStepParts, Excepted, Zenon
<1> HIDE DEF a
<1>4. /\ Called[t] = None /\ Called'[t] = a
      /\ \A u \in Threads : u # t => Called'[u] = Called[u]
  BY <1>1, <1>2, <1>3, MapStepParts DEF CalledIn, IsPut, a
<1>5. IsFun(Called) /\ IsFun(Called')
  BY MapStepParts, CalledFun
<1>6. Called' = [Called EXCEPT ![t] = Called'[t]]
  <2>1. IsPut(Called', Called, t, Called'[t])
    BY <1>4, <1>5 DEF IsPut
  <2> QED
    BY <2>1, <1>1, <1>5, PutIs, Zenon
<1>7. Called'[t].cells \subseteq DOMAIN Contents
  <2>1. Reached(k, o) \subseteq 0..SizeOf(k) - 1
    BY <1>1, ReachedParts
  <2>2. DOMAIN Contents = 0..SizeOf(k) - 1
    BY MapStepParts
  <2> QED
    BY <2>1, <2>2, <1>2, <1>4
<1>8. past' = [past EXCEPT ![t] = IF Called'[t].reads THEN {Contents} ELSE {}]
  <2> DEFINE p == IF Called'[t].reads THEN {Contents} ELSE {}
  <2>1. past[t] = {}
    BY <1>1, MapStepParts DEF PastForm, Reading
  <2>2. past'[t] = p
    BY <2>1, <1>1, <1>2, <1>3, <1>4, MapStepParts DEF Remembered, Reading, IsPut
  <2>3. \A u \in Threads : u # t => past'[u] = past[u]
    BY <1>3, MapStepParts DEF PastForm, Remembered, IsPut
  <2> HIDE DEF p
  <2>4. IsPut(past', past, t, p) /\ IsFun(past)
    BY <2>2, <2>3, MapStepParts DEF IsPut
  <2>5. past' = [past EXCEPT ![t] = p]
    BY <2>4, <1>1, PutIs, Zenon
  <2> QED
    BY <2>5, Zenon DEF p
<1>9. Replied' = [Replied EXCEPT ![t] = None]
  <2>1. IsPut(reply', reply, t, None) /\ IsFun(reply)
    BY MapStepParts DEF IsPut
  <2>2. reply' = [reply EXCEPT ![t] = None]
    BY <2>1, <1>1, PutIs, Zenon
  <2>3. Replied' = reply' /\ Replied = reply
    BY MapStepParts
  <2> QED
    BY <2>2, <2>3
<1> QED
  BY <1>2, <1>4, <1>6, <1>7, <1>8, <1>9, Zenon DEF Map!Call

\* A return is a return.
LEMMA ReturnMaps ==
    ASSUME NEW t, MapStep(t), op[t] # None, reply[t] # None,
           op' = [op EXCEPT ![t] = None], reply' = [reply EXCEPT ![t] = None], Contents' = Contents
    PROVE  Map!Return(t)
<1>1. t \in Users /\ t \in Threads /\ IsOwnerTracker
  BY MapStepParts DEF MapStep
<1>2. IsPut(op', op, t, None)
  BY <1>1, MapStepParts, Excepted, Zenon
<1>3. IsPut(reply', reply, t, None)
  BY <1>1, MapStepParts, Excepted, Zenon
<1>4. /\ Called[t] # None /\ Called'[t] = None
      /\ \A u \in Threads : u # t => Called'[u] = Called[u]
  <2>1. Called[t] = AbstractOf(tracker, op[t]) /\ op[t] \in tracker.ops[t]
    BY <1>1, MapStepParts DEF CalledIn
  <2>2. Called[t] # None
    BY <2>1, <1>1, AbstractParts
  <2> QED
    BY <2>2, <1>1, <1>2, MapStepParts DEF CalledIn, IsPut
<1>5. Called' = [Called EXCEPT ![t] = None]
  <2>1. IsFun(Called) /\ IsFun(Called')
    BY MapStepParts, CalledFun
  <2>2. IsPut(Called', Called, t, None)
    BY <2>1, <1>4 DEF IsPut
  <2> QED
    BY <2>1, <2>2, <1>1, PutIs, Zenon
<1>6. past' = past
  <2>1. ASSUME NEW u \in Threads
        PROVE  past'[u] = past[u]
    <3>1. CASE u = t
      BY <3>1, <1>1, <1>2, MapStepParts DEF PastForm, Remembered, Reading, IsPut
    <3>2. CASE u # t
      <4>1. op'[u] = op[u] /\ reply'[u] = reply[u]
        BY <3>2, <1>2, <1>3 DEF IsPut
      <4>2. past'[u] = IF Reading(op'[u], reply'[u]) THEN past[u] \cup {Contents} ELSE {}
        BY MapStepParts DEF Remembered
      <4>3. IF Reading(op[u], reply[u]) THEN Contents \in past[u] ELSE past[u] = {}
        BY MapStepParts DEF PastForm
      <4> QED
        BY <4>1, <4>2, <4>3
    <3> QED
      BY <3>1, <3>2
  <2>2. IsFun(past) /\ IsFun(past')
    BY MapStepParts
  <2>3. PICK values : past \in [Threads -> values]
    BY <2>2 DEF IsFun
  <2>4. PICK more : past' \in [Threads -> more]
    BY <2>2 DEF IsFun
  <2> QED
    BY <2>1, <2>3, <2>4
<1>7. Replied[t] # None /\ Replied' = [Replied EXCEPT ![t] = None]
  <2>1. Replied' = reply' /\ Replied = reply
    BY MapStepParts
  <2> QED
    BY <2>1
<1> QED
  BY <1>4, <1>5, <1>6, <1>7 DEF Map!Return

\* An assignment takes effect: everything it reaches takes its value.
LEMMA UpdateMaps ==
    ASSUME NEW t, MapStep(t), op' = op, op[t] # None, op[t].do = "set", reply[t] = None,
           reply' = [reply EXCEPT ![t] = <<>>],
           \A c \in 0..SizeOf(tracker) - 1 :
               Contents'[c] = IF c \in Reached(tracker, op[t]) THEN op[t].value ELSE Contents[c],
           Contents' \in [0..SizeOf(tracker) - 1 -> OwnersOf(tracker)]
    PROVE  Map!Update(t)
<1> DEFINE k == tracker
           a == Called[t]
<1>1. t \in Users /\ t \in Threads /\ IsOwnerTracker
  BY MapStepParts DEF MapStep
<1>2. op[t] \in tracker.ops[t] /\ a = AbstractOf(k, op[t])
  BY <1>1, MapStepParts DEF CalledIn
<1>3. /\ a # None /\ a.cells = Reached(k, op[t]) /\ ~a.reads /\ ~a.answers
      /\ \A v \in OwnersOf(k) : a.update[v] = op[t].value
  <2>1. "set" # "read"
    OBVIOUS
  <2> HIDE DEF a
  <2> QED
    BY <2>1, <1>1, <1>2, AbstractParts
<1>4. Called' = Called
  BY MapStepParts
<1> HIDE DEF a
<1>5. Contents' = [c \in DOMAIN Contents |-> IF c \in a.cells THEN a.update[Contents[c]] ELSE Contents[c]]
  <2>1. Contents \in [0..SizeOf(k) - 1 -> OwnersOf(k)]
    BY MapStepParts
  <2> QED
    BY <2>1, <1>3
<1>6. IsPut(reply', reply, t, <<>>)
  BY <1>1, MapStepParts, Excepted, Zenon
<1>7. Replied' = [Replied EXCEPT ![t] = Map!Answer(a, Contents)] /\ Replied[t] = None
  <2>1. Replied' = reply' /\ Replied = reply
    BY MapStepParts
  <2>2. Map!Answer(a, Contents) = <<>>
    BY <1>3 DEF Map!Answer
  <2> QED
    BY <2>1, <2>2
<1>8. past' = [u \in Threads |-> IF Map!Waiting(u) /\ Called[u].reads
                                 THEN past[u] \cup {Contents'} ELSE past[u]]
  <2>1. ASSUME NEW u \in Threads
        PROVE  (Map!Waiting(u) /\ Called[u].reads) <=> Reading(op[u], reply[u])
    <3>1. CASE op[u] = None
      <4>1. Called[u] = None
        BY <3>1, MapStepParts DEF CalledIn
      <4> QED
        BY <3>1, <4>1 DEF Reading, Map!Waiting
    <3>2. CASE op[u] # None
      <4>1. Called[u] = AbstractOf(tracker, op[u]) /\ u \in Users /\ op[u] \in tracker.ops[u]
        BY <3>2, MapStepParts DEF CalledIn
      <4>2. Called[u] # None /\ (Called[u].reads <=> op[u].do = "read")
        BY <4>1, <1>1, AbstractParts
      <4> QED
        BY <3>2, <4>2, MapStepParts DEF Reading, Map!Waiting
    <3> QED
      BY <3>1, <3>2
  <2>2. ~Reading(op[t], reply[t])
    BY DEF Reading
  <2>3. \A u \in Threads : past'[u] = IF Reading(op[u], reply[u]) THEN past[u] \cup {Contents'} ELSE past[u]
    <3>1. \A u \in Threads : Reading(op'[u], reply'[u]) <=> Reading(op[u], reply[u])
      <4>1. <<>> # None
        BY NoneAssumption
      <4>2. ~Reading(op[t], <<>>)
        BY <4>1 DEF Reading
      <4>3. op' = op /\ reply'[t] = <<>> /\ \A u \in Threads : u # t => reply'[u] = reply[u]
        BY <1>6 DEF IsPut
      <4> QED
        BY <2>2, <4>2, <4>3
    <3> QED
      BY <3>1, MapStepParts DEF PastForm, Remembered
  <2>4. PICK more : past' \in [Threads -> more]
    BY MapStepParts DEF IsFun
  <2> DEFINE W(u) == Map!Waiting(u) /\ Called[u].reads
  <2>5. \A u \in Threads : past'[u] = IF W(u) THEN past[u] \cup {Contents'} ELSE past[u]
    BY <2>1, <2>3
  <2> HIDE DEF W
  <2>6. past' = [u \in Threads |-> IF W(u) THEN past[u] \cup {Contents'} ELSE past[u]]
    BY <2>4, <2>5
  <2> QED
    BY <2>6 DEF W
<1>9. Map!Waiting(t) /\ ~Called[t].reads
  BY <1>3, <1>7 DEF Map!Waiting, a
<1> QED
  BY <1>4, <1>5, <1>7, <1>8, <1>9 DEF Map!Update, a

\* A reader answers with what it finds.
LEMMA ReadMaps ==
    ASSUME NEW t, MapStep(t), op' = op, op[t] # None, op[t].do = "read", reply[t] = None,
           NEW m, m = Contents, AnswerOf(t, m) # None,
           reply' = [reply EXCEPT ![t] = AnswerOf(t, m)], Contents' = Contents
    PROVE  Map!Read(t)
<1> DEFINE k == tracker
           a == Called[t]
           answer == AnswerOf(t, m)
<1>1. t \in Users /\ t \in Threads /\ IsOwnerTracker
  BY MapStepParts DEF MapStep
<1>2. op[t] \in tracker.ops[t] /\ a = AbstractOf(k, op[t])
  BY <1>1, MapStepParts DEF CalledIn
<1> HIDE DEF a
<1>3. a # None /\ a.cells = Reached(k, op[t]) /\ a.reads /\ a.answers
  BY <1>1, <1>2, AbstractParts
<1>4. Called' = Called
  BY MapStepParts
<1>5. answer = Map!Answer(a, Contents)
  <2>1. Len(op[t].ranges) = 1
    BY <1>1, <1>2, OpParts
  <2>2. Reached(k, op[t]) = CellsOf(op[t].ranges[1])
    BY <2>1, <1>1, <1>2, ReachedParts, Terms
  <2> QED
    BY <2>2, <1>3 DEF AnswerOf, Map!Answer
<1> HIDE DEF answer
<1>6. IsPut(reply', reply, t, answer) /\ answer # None
  <2>1. reply' = [reply EXCEPT ![t] = answer]
    BY DEF answer
  <2>2. IsPut(reply', reply, t, answer)
    BY <2>1, <1>1, MapStepParts, Excepted, Zenon
  <2> QED
    BY <2>2 DEF answer
<1>7. Replied' = [Replied EXCEPT ![t] = Map!Answer(a, Contents)] /\ Replied[t] = None
  <2>1. Replied' = reply' /\ Replied = reply
    BY MapStepParts
  <2> QED
    BY <2>1, <1>5 DEF answer
<1>8. past' = [past EXCEPT ![t] = {}]
  <2>1. past'[t] = {}
    BY <1>1, <1>6, MapStepParts DEF Remembered, Reading, IsPut
  <2>2. ASSUME NEW u \in Threads, u # t
        PROVE  past'[u] = past[u]
    <3>1. op'[u] = op[u] /\ reply'[u] = reply[u]
      BY <2>2, <1>6 DEF IsPut
    <3>2. past'[u] = IF Reading(op'[u], reply'[u]) THEN past[u] \cup {Contents} ELSE {}
      BY MapStepParts DEF Remembered
    <3>3. IF Reading(op[u], reply[u]) THEN Contents \in past[u] ELSE past[u] = {}
      BY MapStepParts DEF PastForm
    <3> QED
      BY <3>1, <3>2, <3>3
  <2>3. IsPut(past', past, t, {}) /\ IsFun(past)
    BY <2>1, <2>2, MapStepParts DEF IsPut
  <2> QED
    BY <2>3, <1>1, PutIs, Zenon
<1>9. Contents \in past[t]
  BY <1>1, MapStepParts DEF PastForm, Reading
<1>10. Map!Waiting(t) /\ Called[t].reads
  BY <1>3, <1>7 DEF Map!Waiting, a
<1> QED
  BY <1>4, <1>7, <1>8, <1>9, <1>10 DEF Map!Read, a
-----------------------------------------------------------------------------
(* The steps of the tracker as steps of the map                             *)

MapNext == [Map!Next]_(Map!vars)

\* A step that leaves word, map and assignments under way alone leaves the contents alone.
LEMMA QuietContents ==
    ASSUME SharingInv, SharingInv', tracker' = tracker, word' = word, store' = store,
           \A u \in Threads : /\ pc'[u] = "ranges" <=> pc[u] = "ranges"
                              /\ pc[u] = "ranges" => op'[u] = op[u]
    PROVE  Contents' = Contents
<1>1. ContentForm /\ ContentForm'
  BY ContentsAre, ContentsNext
<1>2. CASE word # Dense
  BY <1>1, <1>2 DEF ContentForm
<1>3. CASE word = Dense /\ Nobody("ranges")
  <2>1. Nobody("ranges")'
    BY <1>3 DEF Nobody
  <2> QED
    BY <1>1, <1>3, <2>1 DEF ContentForm
<1>4. CASE ~Nobody("ranges")
  <2>1. PICK w \in Threads : pc[w] = "ranges"
    BY <1>4 DEF Nobody
  <2>2. Contents = Overlaid(tracker, store, op[w])
    BY <2>1, <1>1 DEF ContentForm
  <2>3. Contents' = Overlaid(tracker', store', op'[w])
    BY <2>1, <1>1 DEF ContentForm
  <2> QED
    BY <2>1, <2>2, <2>3
<1> QED
  BY <1>2, <1>3, <1>4

\* What the thread of a step has, and what is left to be seen of the map
LEMMA StepStarts ==
    ASSUME MapInv, NEW t \in Users
    PROVE  /\ SharingInv /\ PastForm /\ t \in Threads /\ Typed /\ MapForm /\ ThreadForm(t)
           /\ IsOwnerTracker /\ ContentForm
           /\ pc \in [Threads -> Labels]
           /\ op[t] # None => op[t] \in tracker.ops[t]
BY StepFrom, ContentsAre DEF MapInv, SharingInv, Typed

\* The steps of the tracker, one by one: a call,
LEMMA CallStep ==
    ASSUME MapInv, NEW t \in Users, CallSharing(t), Remember
    PROVE  MapNext
<1>1. SharingInv'
  BY CallKeeps DEF MapInv
<1>2. t \in Threads /\ ThreadForm(t) /\ SharingInv /\ pc \in [Threads -> Labels]
  BY StepStarts
<1>3. PICK o \in tracker.ops[t] : op' = [op EXCEPT ![t] = o] /\ pc' = [pc EXCEPT ![t] = "load"]
  BY DEF CallSharing, Begin, Goto
<1>4. /\ pc[t] = "idle" /\ tracker' = tracker /\ word' = word /\ store' = store /\ reply' = reply
  BY DEF CallSharing, Begin
<1>5. op[t] = None /\ reply[t] = None
  BY <1>2, <1>4 DEF ThreadForm, Answered
<1>6. IsPut(op', op, t, o)
  BY <1>2, <1>3, Excepted, Zenon DEF SharingInv, Typed
<1>7. Contents' = Contents
  <2>1. \A u \in Threads : /\ pc'[u] = "ranges" <=> pc[u] = "ranges"
                           /\ pc[u] = "ranges" => op'[u] = op[u]
    BY <1>2, <1>3, <1>4, <1>6 DEF IsPut
  <2> QED
    BY <2>1, <1>1, <1>2, <1>4, QuietContents
<1>8. MapStep(t)
  BY <1>1, <1>4 DEF MapStep
<1>9. Map!Call(t)
  BY <1>3, <1>4, <1>5, <1>7, <1>8, CallMaps
<1> QED
  BY <1>2, <1>9 DEF MapNext, Map!Next

\* reading the word, which may answer at once,
LEMMA LoadStep ==
    ASSUME MapInv, NEW t \in Users, LoadOwner(t), Remember
    PROVE  MapNext
<1>1. SharingInv'
  BY LoadKeeps DEF MapInv
<1>2. /\ t \in Threads /\ ThreadForm(t) /\ SharingInv /\ pc \in [Threads -> Labels]
      /\ IsOwnerTracker /\ ContentForm /\ MapForm
      /\ op[t] # None => op[t] \in tracker.ops[t]
  BY StepStarts
<1>3. /\ pc[t] = "load"
      /\ tracker' = tracker /\ word' = word /\ store' = store /\ op' = op
  BY DEF LoadOwner
<1>4. op[t] # None /\ op[t] \in tracker.ops[t] /\ reply[t] = None
  BY <1>2, <1>3 DEF ThreadForm, Answered
<1>5. Contents' = Contents
  <2>1. pc' = [pc EXCEPT ![t] = "return"] \/ pc' = [pc EXCEPT ![t] = "exchange"]
            \/ pc' = [pc EXCEPT ![t] = "lock"]
    BY DEF LoadOwner, Goto
  <2>2. \A u \in Threads : /\ pc'[u] = "ranges" <=> pc[u] = "ranges"
                           /\ pc[u] = "ranges" => op'[u] = op[u]
    BY <2>1, <1>2, <1>3
  <2> QED
    BY <2>2, <1>1, <1>2, <1>3, QuietContents
<1>6. MapStep(t)
  BY <1>1, <1>3 DEF MapStep
<1>7. CASE op[t].do = "read" /\ word # Dense
  <2> DEFINE m == Everywhere(word)
  <2>1. reply' = [reply EXCEPT ![t] = AnswerOf(t, m)]
    BY <1>7 DEF LoadOwner, Reply
  <2>2. m = Contents
    BY <1>2, <1>7, Terms DEF ContentForm, AllOf, Everywhere
  <2>3. m \in [Cells -> OwnersOf(tracker)]
    BY <1>2, <1>7 DEF MapForm, Everywhere
  <2> HIDE DEF m
  <2>4. AnswerOf(t, m) # None
    BY <2>3, <1>2, <1>4, OpParts, Answers
  <2>5. Map!Read(t)
    BY <2>1, <2>2, <2>4, <1>3, <1>4, <1>5, <1>6, <1>7, ReadMaps
  <2> QED
    BY <2>5, <1>2 DEF MapNext, Map!Next
<1>8. CASE op[t].do = "set" /\ Unchanged(op[t])
  <2>1. reply' = [reply EXCEPT ![t] = <<>>] /\ word = op[t].value
    BY <1>8 DEF LoadOwner, Reply, Unchanged
  <2>2. word # Dense /\ Contents = AllOf(tracker, word)
    BY <2>1, <1>2, <1>4, <1>8, OpParts DEF ContentForm
  <2>3. \A c \in 0..SizeOf(tracker) - 1 :
            Contents'[c] = IF c \in Reached(tracker, op[t]) THEN op[t].value ELSE Contents[c]
    BY <2>1, <2>2, <1>5 DEF AllOf
  <2>4. Contents' \in [0..SizeOf(tracker) - 1 -> OwnersOf(tracker)]
    BY <1>2, <1>5, ContentsTyped
  <2>5. Map!Update(t)
    BY <2>1, <2>3, <2>4, <1>3, <1>4, <1>6, <1>8, UpdateMaps
  <2> QED
    BY <2>5, <1>2 DEF MapNext, Map!Next
<1>9. CASE /\ ~(op[t].do = "read" /\ word # Dense)
           /\ ~(op[t].do = "set" /\ Unchanged(op[t]))
  <2>1. reply' = reply
    BY <1>9 DEF LoadOwner, Reply
  <2> QED
    BY <2>1, <1>3, <1>5, <1>6, MapStutters DEF MapNext
<1> QED
  BY <1>7, <1>8, <1>9

\* The map when everything has taken the value of an assignment
LEMMA WholeSet ==
    ASSUME IsOwnerTracker, NEW t \in Users, NEW o \in tracker.ops[t], Whole(tracker, o),
           NEW m, m = AllOf(tracker, o.value), NEW n
    PROVE  /\ \A c \in 0..SizeOf(tracker) - 1 :
                m[c] = IF c \in Reached(tracker, o) THEN o.value ELSE n[c]
           /\ m \in [0..SizeOf(tracker) - 1 -> OwnersOf(tracker)]
<1>1. Reached(tracker, o) = 0..SizeOf(tracker) - 1
  BY ReachedParts
<1>2. o.value \in OwnersOf(tracker)
  BY OpParts DEF Whole
<1> QED
  BY <1>1, <1>2 DEF AllOf

\* the compare-exchange, which assigns when it succeeds,
LEMMA ExchangeStep ==
    ASSUME MapInv, NEW t \in Users, ExchangeOwner(t), Remember
    PROVE  MapNext
<1>1. SharingInv'
  BY ExchangeKeeps DEF MapInv
<1>2. /\ t \in Threads /\ ThreadForm(t) /\ SharingInv /\ pc \in [Threads -> Labels]
      /\ IsOwnerTracker
      /\ op[t] # None => op[t] \in tracker.ops[t]
  BY StepStarts
<1>3. /\ pc[t] = "exchange"
      /\ tracker' = tracker /\ store' = store /\ op' = op
  BY DEF ExchangeOwner
<1>4. op[t] # None /\ op[t] \in tracker.ops[t] /\ reply[t] = None /\ Whole(tracker, op[t])
  BY <1>2, <1>3 DEF ThreadForm, Answered
<1>5. MapStep(t)
  BY <1>1, <1>3 DEF MapStep
<1>6. CASE word = local[t]
  <2>1. word' = op[t].value /\ reply' = [reply EXCEPT ![t] = <<>>]
    BY <1>6 DEF ExchangeOwner, Reply
  <2>2. op[t].do = "set" /\ op[t].value # Dense
    BY <1>2, <1>4, OpParts DEF Whole
  <2>3. Contents' = AllOf(tracker, op[t].value)
    BY <2>1, <2>2, <1>1, <1>3, ContentsNext DEF ContentForm
  <2>4. /\ \A c \in 0..SizeOf(tracker) - 1 :
              Contents'[c] = IF c \in Reached(tracker, op[t]) THEN op[t].value ELSE Contents[c]
        /\ Contents' \in [0..SizeOf(tracker) - 1 -> OwnersOf(tracker)]
    BY <2>3, <1>2, <1>4, WholeSet
  <2>5. Map!Update(t)
    BY <2>1, <2>2, <2>4, <1>3, <1>4, <1>5, UpdateMaps
  <2> QED
    BY <2>5, <1>2 DEF MapNext, Map!Next
<1>7. CASE word # local[t]
  <2>1. reply' = reply /\ word' = word
        /\ pc' = [pc EXCEPT ![t] = IF word = Dense THEN "lock" ELSE "exchange"]
    BY <1>7 DEF ExchangeOwner, Goto
  <2>2. \A u \in Threads : /\ pc'[u] = "ranges" <=> pc[u] = "ranges"
                           /\ pc[u] = "ranges" => op'[u] = op[u]
    BY <2>1, <1>2, <1>3
  <2>3. Contents' = Contents
    BY <2>1, <2>2, <1>1, <1>2, <1>3, QuietContents
  <2> QED
    BY <2>1, <2>3, <1>3, <1>5, MapStutters DEF MapNext
<1> QED
  BY <1>6, <1>7

\* taking the lock,
LEMMA LockStep ==
    ASSUME MapInv, NEW t \in Users, Lock(t), Remember
    PROVE  MapNext
<1>1. SharingInv'
  BY LockKeeps DEF MapInv
<1>2. t \in Threads /\ SharingInv /\ pc \in [Threads -> Labels]
  BY StepStarts
<1>3. /\ pc[t] = "lock" /\ pc' = [pc EXCEPT ![t] = "locked"]
      /\ tracker' = tracker /\ word' = word /\ store' = store /\ op' = op /\ reply' = reply
  BY DEF Lock, Goto
<1>4. \A u \in Threads : /\ pc'[u] = "ranges" <=> pc[u] = "ranges"
                         /\ pc[u] = "ranges" => op'[u] = op[u]
  BY <1>2, <1>3
<1>5. Contents' = Contents
  BY <1>1, <1>2, <1>3, <1>4, QuietContents
<1>6. MapStep(t)
  BY <1>1, <1>3 DEF MapStep
<1> QED
  BY <1>3, <1>5, <1>6, MapStutters DEF MapNext

\* giving it back, and the return,
LEMMA UnlockStep ==
    ASSUME MapInv, NEW t \in Users, Unlock(t) \/ Return(t), Remember
    PROVE  MapNext
<1>1. SharingInv'
  BY UnlockKeeps DEF MapInv
<1>2. t \in Threads /\ ThreadForm(t) /\ SharingInv /\ pc \in [Threads -> Labels]
  BY StepStarts
<1>3. /\ pc[t] \in {"unlock", "return"} /\ pc' = [pc EXCEPT ![t] = "idle"]
      /\ op' = [op EXCEPT ![t] = None] /\ reply' = [reply EXCEPT ![t] = None]
      /\ tracker' = tracker /\ word' = word /\ store' = store
  BY DEF Unlock, Return, Idle, Goto, Reply
<1>4. op[t] # None /\ reply[t] # None
  BY <1>2, <1>3 DEF ThreadForm, Answered
<1>5. IsPut(op', op, t, None)
  BY <1>2, <1>3, Excepted, Zenon DEF SharingInv, Typed
<1>6. \A u \in Threads : /\ pc'[u] = "ranges" <=> pc[u] = "ranges"
                         /\ pc[u] = "ranges" => op'[u] = op[u]
  BY <1>2, <1>3, <1>5 DEF IsPut
<1>7. Contents' = Contents
  BY <1>1, <1>2, <1>3, <1>6, QuietContents
<1>8. MapStep(t)
  BY <1>1, <1>3 DEF MapStep
<1>9. Map!Return(t)
  BY <1>3, <1>4, <1>7, <1>8, ReturnMaps
<1> QED
  BY <1>2, <1>9 DEF MapNext, Map!Next

\* an assignment to everything under the lock,
LEMMA SetWholeStep ==
    ASSUME MapInv, NEW t \in Users, SetWholeLocked(t), Remember
    PROVE  MapNext
<1>1. SharingInv'
  BY SetWholeKeeps DEF MapInv
<1>2. /\ t \in Threads /\ ThreadForm(t) /\ IsOwnerTracker
      /\ op[t] # None => op[t] \in tracker.ops[t]
  BY StepStarts
<1>3. /\ pc[t] = "locked" /\ Whole(tracker, op[t])
      /\ word' = op[t].value /\ reply' = [reply EXCEPT ![t] = <<>>]
      /\ tracker' = tracker /\ op' = op
  BY Terms DEF SetWholeLocked, Reply
<1>4. op[t] # None /\ op[t] \in tracker.ops[t] /\ reply[t] = None
  BY <1>2, <1>3 DEF ThreadForm, Answered
<1>5. MapStep(t)
  BY <1>1, <1>3 DEF MapStep
<1>6. op[t].do = "set" /\ op[t].value # Dense
  BY <1>2, <1>3, <1>4, OpParts DEF Whole
<1>7. Contents' = AllOf(tracker, op[t].value)
  BY <1>1, <1>3, <1>6, ContentsNext DEF ContentForm
<1>8. /\ \A c \in 0..SizeOf(tracker) - 1 :
            Contents'[c] = IF c \in Reached(tracker, op[t]) THEN op[t].value ELSE Contents[c]
      /\ Contents' \in [0..SizeOf(tracker) - 1 -> OwnersOf(tracker)]
  BY <1>2, <1>3, <1>4, <1>7, WholeSet
<1>9. Map!Update(t)
  BY <1>3, <1>4, <1>5, <1>6, <1>8, UpdateMaps
<1> QED
  BY <1>2, <1>9 DEF MapNext, Map!Next

\* With the lock held by a thread that has not begun to assign ranges nobody has.
LEMMA NobodyAssigns ==
    ASSUME SharingInv, NEW t \in Threads, pc[t] = "locked"
    PROVE  Nobody("ranges")
BY OneHolder DEF Holding, Nobody

\* the map taking over, from where an assignment to ranges counts,
LEMMA PromoteStep ==
    ASSUME MapInv, NEW t \in Users, Promote(t), Remember
    PROVE  MapNext
<1> DEFINE o == op[t]
<1>1. SharingInv'
  BY PromoteKeeps DEF MapInv
<1>2. /\ t \in Threads /\ ThreadForm(t) /\ SharingInv /\ IsOwnerTracker /\ ContentForm /\ MapForm
      /\ pc \in [Threads -> Labels]
      /\ o # None => o \in tracker.ops[t]
  BY StepStarts
<1>3. /\ pc[t] = "locked" /\ o.do = "set"
      /\ IF word # Dense THEN store' = Captured(word) ELSE store' = store
      /\ reply' = [reply EXCEPT ![t] = <<>>] /\ pc' = [pc EXCEPT ![t] = "ranges"]
      /\ tracker' = tracker /\ op' = op
  BY DEF Promote, Goto, Reply
<1>4. o # None /\ o \in tracker.ops[t] /\ reply[t] = None
  BY <1>2, <1>3 DEF ThreadForm, Answered
<1>5. MapStep(t)
  BY <1>1, <1>3 DEF MapStep
<1>6. Contents' = Overlaid(tracker, store', o)
  <2>1. pc'[t] = "ranges"
    BY <1>2, <1>3
  <2>2. Contents' = Overlaid(tracker', store', op'[t])
    BY <2>1, <1>1, <1>2, ContentsNext DEF ContentForm
  <2> QED
    BY <2>2, <1>3
<1>7. \A c \in 0..SizeOf(tracker) - 1 : Contents[c] = StoredIn(tracker, store', c)
  <2>1. CASE word # Dense
    <3>1. word \in OwnersOf(tracker) /\ (IsBuffer => InForm(tracker, store) /\ UniformIn(tracker, store))
      BY <2>1, <1>2 DEF MapForm, IsBuffer
    <3>2. HasEverywhere(tracker, Captured(word), word)
      BY <3>1, <1>2, UniformCaptured
    <3>3. \A c \in 0..SizeOf(tracker) - 1 : StoredIn(tracker, store', c) = word
      BY <3>2, <2>1, <1>3 DEF HasEverywhere
    <3>4. Contents = AllOf(tracker, word)
      BY <2>1, <1>2 DEF ContentForm
    <3> QED
      BY <3>3, <3>4 DEF AllOf
  <2>2. CASE word = Dense
    <3>1. Contents = MapOf(tracker, store) /\ store' = store
      BY <2>2, <1>2, <1>3, NobodyAssigns DEF ContentForm
    <3> QED
      BY <3>1 DEF MapOf
  <2> QED
    BY <2>1, <2>2
<1> HIDE DEF o
<1>8. \A c \in 0..SizeOf(tracker) - 1 :
            Contents'[c] = IF c \in Reached(tracker, o) THEN o.value ELSE Contents[c]
  BY <1>6, <1>7 DEF Overlaid
<1>9. Contents' \in [0..SizeOf(tracker) - 1 -> OwnersOf(tracker)]
  BY <1>1, <1>3, ContentsNext
<1>10. Map!Update(t)
  BY <1>3, <1>4, <1>5, <1>8, <1>9, UpdateMaps DEF o
<1> QED
  BY <1>2, <1>10 DEF MapNext, Map!Next

\* each of its ranges, which the map sees at once and not again,
LEMMA AssignStep ==
    ASSUME MapInv, NEW t \in Users, AssignRange(t), Remember
    PROVE  MapNext
<1> DEFINE o == op[t]
           n == local[t]
           range == o.ranges[n + 1]
<1>1. SharingInv'
  BY AssignKeeps DEF MapInv
<1>2. /\ t \in Threads /\ ThreadForm(t) /\ SharingInv /\ IsOwnerTracker /\ ContentForm /\ MapForm
      /\ o # None => o \in tracker.ops[t]
  BY StepStarts
<1>3. /\ pc[t] = "ranges" /\ n < Len(o.ranges)
      /\ store' = Assigned(store, o.value, range)
      /\ tracker' = tracker /\ pc' = pc /\ op' = op /\ reply' = reply
  BY DEF AssignRange
<1>4. /\ o # None /\ o \in tracker.ops[t] /\ Assigning(tracker, o, n, word, store) /\ word = Dense
  BY <1>2, <1>3 DEF ThreadForm, Assigning
<1>5. /\ o.value \in OwnersOf(tracker) /\ n + 1 \in 1..Len(o.ranges)
      /\ range \in RangesOf(tracker)
  <2>1. o.do = "set" /\ n \in 0..Len(o.ranges)
    BY <1>4 DEF Assigning
  <2>2. o.value \in OwnersOf(tracker) /\ o.ranges \in Seq(RangesOf(tracker)) /\ Len(o.ranges) \in Nat
    BY <2>1, <1>2, <1>4, OpParts
  <2>3. n + 1 \in 1..Len(o.ranges)
    BY <2>1, <2>2, <1>3
  <2> QED
    BY <2>2, <2>3
<1>6. Contents = Overlaid(tracker, store, o) /\ Contents' = Overlaid(tracker, store', o)
  <2>1. Contents' = Overlaid(tracker', store', op'[t])
    BY <1>1, <1>2, <1>3, ContentsNext DEF ContentForm
  <2> QED
    BY <2>1, <1>2, <1>3 DEF ContentForm
<1>7. \A c : c \in Part(tracker, range) => c \in Reached(tracker, o)
  BY <1>2, <1>4, <1>5, ReachedParts
<1> HIDE DEF o, n, range
<1>8. Takes(tracker, store', store, o.value, Part(tracker, range))
  <2>1. InForm(tracker, store)
    BY <1>2, <1>4 DEF MapForm
  <2>2. Takes(tracker, Assigned(store, o.value, range), store, o.value, CellsOf(range))
    BY <2>1, <1>2, <1>5, RangeAssigned
  <2> QED
    BY <2>2, <1>3, Terms
<1>9. Contents' = Contents
  BY <1>6, <1>7, <1>8 DEF Overlaid, Takes
<1>10. MapStep(t)
  BY <1>1, <1>3 DEF MapStep
<1> QED
  BY <1>3, <1>9, <1>10, MapStutters DEF MapNext

\* the word taking over,
LEMMA DemoteStep ==
    ASSUME MapInv, NEW t \in Users, Demote(t), Remember
    PROVE  MapNext
<1> DEFINE o == op[t]
<1>1. SharingInv'
  BY DemoteKeeps DEF MapInv
<1>2. /\ t \in Threads /\ ThreadForm(t) /\ SharingInv /\ IsOwnerTracker /\ ContentForm /\ MapForm
      /\ pc \in [Threads -> Labels]
      /\ o # None => o \in tracker.ops[t]
  BY StepStarts
<1>3. /\ pc[t] = "ranges" /\ local[t] = Len(o.ranges)
      /\ word' = IF UniformIn(tracker, store) THEN FirstIn(tracker, store) ELSE word
      /\ pc' = [pc EXCEPT ![t] = "unlock"]
      /\ tracker' = tracker /\ store' = store /\ op' = op /\ reply' = reply
  BY DEF Demote, Goto, StoreUniform, FirstStored, UniformIn, FirstIn, IsBuffer
<1>4. /\ o # None /\ o \in tracker.ops[t] /\ Assigning(tracker, o, Len(o.ranges), word, store)
      /\ word = Dense /\ InForm(tracker, store)
  BY <1>2, <1>3 DEF ThreadForm, Assigning, MapForm
<1>5. Contents = Overlaid(tracker, store, o)
  BY <1>2, <1>3 DEF ContentForm
<1> HIDE DEF o
<1>6. Contents = MapOf(tracker, store)
  <2>1. \A c : c \in Reached(tracker, o) => StoredIn(tracker, store, c) = o.value
    BY <1>2, <1>4, ReachedParts DEF Assigning
  <2> QED
    BY <2>1, <1>5 DEF Overlaid, MapOf
<1>7. Contents' = MapOf(tracker, store)
  <2>1. CASE UniformIn(tracker, store)
    <3>1. /\ FirstIn(tracker, store) \in OwnersOf(tracker)
          /\ HasEverywhere(tracker, store, FirstIn(tracker, store))
          /\ Dense \notin OwnersOf(tracker)
      BY <2>1, <1>2, <1>4, UniformStored, DenseIsNoOwner
    <3>2. word' # Dense /\ word' = FirstIn(tracker, store)
      BY <2>1, <3>1, <1>3
    <3>3. Contents' = AllOf(tracker, word')
      BY <3>2, <1>1, <1>3, ContentsNext DEF ContentForm
    <3> QED
      BY <3>1, <3>2, <3>3 DEF HasEverywhere, AllOf, MapOf
  <2>2. CASE ~UniformIn(tracker, store)
    <3>1. Nobody("ranges")'
      <4>1. \A u \in Threads : u # t => pc[u] # "ranges"
        BY <1>2, <1>3, OneHolder DEF Holding
      <4> QED
        BY <4>1, <1>2, <1>3 DEF Nobody
    <3> QED
      BY <2>2, <3>1, <1>1, <1>3, <1>4, ContentsNext DEF ContentForm
  <2> QED
    BY <2>1, <2>2
<1>8. MapStep(t)
  BY <1>1, <1>3 DEF MapStep
<1> QED
  BY <1>3, <1>6, <1>7, <1>8, MapStutters DEF MapNext

\* and a query under the lock.
LEMMA ReadLockedStep ==
    ASSUME MapInv, NEW t \in Users, ReadLocked(t), Remember
    PROVE  MapNext
<1> DEFINE m == IF word = Dense THEN [c \in Cells |-> StoredAt(c)] ELSE Everywhere(word)
<1>1. SharingInv'
  BY ReadLockedKeeps DEF MapInv
<1>2. /\ t \in Threads /\ ThreadForm(t) /\ SharingInv /\ IsOwnerTracker /\ ContentForm
      /\ pc \in [Threads -> Labels]
      /\ op[t] # None => op[t] \in tracker.ops[t]
  BY StepStarts
<1>3. /\ pc[t] = "locked" /\ op[t].do = "read" /\ reply' = [reply EXCEPT ![t] = AnswerOf(t, m)]
      /\ pc' = [pc EXCEPT ![t] = "unlock"]
      /\ tracker' = tracker /\ word' = word /\ store' = store /\ op' = op
  BY DEF ReadLocked, Goto, Reply
<1>4. op[t] # None /\ op[t] \in tracker.ops[t] /\ reply[t] = None
  BY <1>2, <1>3 DEF ThreadForm, Answered
<1>5. m = Contents
  <2>1. Nobody("ranges")
    BY <1>2, <1>3, NobodyAssigns
  <2>2. CASE word = Dense
    BY <2>1, <2>2, <1>2, Terms DEF ContentForm, MapOf
  <2>3. CASE word # Dense
    BY <2>3, <1>2, Terms DEF ContentForm, AllOf, Everywhere
  <2> QED
    BY <2>2, <2>3
<1> HIDE DEF m
<1>6. AnswerOf(t, m) # None
  <2>1. m \in [Cells -> OwnersOf(tracker)]
    BY <1>2, <1>5, ContentsTyped, Terms
  <2> QED
    BY <2>1, <1>2, <1>4, OpParts, Answers
<1>7. Contents' = Contents
  <2>1. \A u \in Threads : /\ pc'[u] = "ranges" <=> pc[u] = "ranges"
                           /\ pc[u] = "ranges" => op'[u] = op[u]
    BY <1>2, <1>3
  <2> QED
    BY <2>1, <1>1, <1>2, <1>3, QuietContents
<1>8. MapStep(t)
  BY <1>1, <1>3 DEF MapStep
<1>9. Map!Read(t)
  BY <1>3, <1>4, <1>5, <1>6, <1>7, <1>8, ReadMaps
<1> QED
  BY <1>2, <1>9 DEF MapNext, Map!Next

\* The tracker begins as the map begins.
LEMMA InitMaps == Init /\ IsSharing => Map!Init /\ MapInv
<1> SUFFICES ASSUME Init, IsSharing PROVE Map!Init /\ MapInv
  OBVIOUS
<1>1. SharingInv
  BY InvInit
<1>2. /\ op = [t \in Threads |-> None] /\ reply = [t \in Threads |-> None]
      /\ past = [t \in Threads |-> {}]
  BY DEF Init
<1>3. PastForm
  BY <1>2 DEF PastForm, Reading
<1>4. Called = [t \in Threads |-> None] /\ Replied = reply
  BY <1>1, <1>2, MapTerms DEF CalledIn
<1> QED
  BY <1>1, <1>2, <1>3, <1>4 DEF Map!Init, MapInv

\* Each step of the tracker is one of the map, or leaves the map alone.
LEMMA NextMaps == MapInv /\ [Next]_vars => MapInv' /\ MapNext
<1> SUFFICES ASSUME MapInv, [Next]_vars PROVE MapInv' /\ MapNext
  OBVIOUS
<1>1. SharingInv'
  BY InvNext DEF MapInv
<1>2. CASE Next
  <2>1. PICK t \in Users : Step(t)
    BY <1>2 DEF Next
  <2>2. Remember /\ SharingStep(t)
    <3>1. IsSharing /\ "sharing" # "access" /\ "sharing" # "claims"
      BY DEF MapInv, SharingInv, Typed, IsOwnerTracker
    <3> QED
      BY <2>1, <3>1, <1>2 DEF Next, Step, IsSharing, IsAccess, IsClaims
  <2>3. MapNext
    BY <2>2, CallStep, LoadStep, ExchangeStep, LockStep, SetWholeStep, PromoteStep,
       AssignStep, DemoteStep, ReadLockedStep, UnlockStep DEF SharingStep
  <2> QED
    BY <2>2, <2>3, <1>1, RememberIs DEF MapInv
<1>3. CASE UNCHANGED vars
  <2>1. /\ tracker' = tracker /\ word' = word /\ store' = store /\ pc' = pc /\ op' = op
        /\ reply' = reply /\ past' = past
    BY <1>3 DEF vars, trackerVars
  <2>2. Contents' = Contents
    BY <2>1, <1>1, QuietContents DEF MapInv
  <2>3. Called' = Called /\ Replied' = Replied
    BY <2>1, <1>1, MapTerms, MapTermsNext DEF MapInv
  <2>4. PastForm'
    BY <2>1, <2>2 DEF MapInv, PastForm
  <2> QED
    BY <1>1, <2>1, <2>2, <2>3, <2>4 DEF MapInv, MapNext, Map!vars
<1> QED
  BY <1>2, <1>3

(* However threads race, the tracker of the owners of a buffer or an image *)
(* is an atomic map: each assignment and each query takes effect at one    *)
(* moment between its call and its return.                                 *)
THEOREM SharingLinearizable == Spec /\ IsSharing => Linearizable
<1>1. Init /\ IsSharing => Map!Init /\ MapInv
  BY InitMaps
<1>2. MapInv /\ [Next]_vars => MapInv' /\ [Map!Next]_(Map!vars)
  BY NextMaps DEF MapNext
<1> QED
  BY <1>1, <1>2, PTL DEF Spec, Linearizable, Map!Spec

(* When the lock is free the next to take it finds the map as it relies on *)
(* it: runs sorted, none of them empty, neighbours of different values; an *)
(* exact count of transitions; one run while the word counts, and some     *)
(* difference while the map does.                                          *)
THEOREM SharingInForm == Spec /\ IsSharing => []StoreInForm
<1>1. SharingInv => StoreInForm
  <2> SUFFICES ASSUME SharingInv PROVE StoreInForm
    OBVIOUS
  <2>1. /\ IsSharing /\ ~IsAccess /\ ~IsClaims /\ IsOwnerTracker /\ Typed /\ MapForm
        /\ \A t \in Threads : ThreadForm(t)
    BY DEF SharingInv, Typed, IsOwnerTracker, IsSharing, IsAccess, IsClaims
  <2>2. TypeOK
    <3>1. Contents \in [Cells -> CellValues]
      BY <2>1, ContentsTyped, Terms DEF CellValues, ValuesOf, IsSharing, OwnersOf
    <3>2. \A t \in Threads :
            /\ pc[t] \in {"idle", "load", "load_set", "exchange", "lock", "locked", "ranges",
                          "capture", "set_dense", "pieces", "track", "tracked", "unlock", "return"}
            /\ op[t] \in (IF t \in Users THEN tracker.ops[t] ELSE {}) \cup {None}
            /\ pc[t] = "idle" <=> op[t] = None
      BY <2>1 DEF ThreadForm, Typed, Labels
    <3> QED
      BY <2>1, <3>1, <3>2 DEF TypeOK, Typed, IsOwnerTracker
  <2>3. ASSUME lock = None
        PROVE  IF IsBuffer
               THEN Canonical(store) /\ (IsSharing /\ word # Dense => Len(store) = 1)
               ELSE /\ store = None \/ Counted(store)
                    /\ MapCountsUnlocked => store # None /\ ~IsUniform(store)
    <3>1. Nobody("ranges")
      BY <2>1, <2>3, NoneAssumption DEF ThreadForm, Holding, Nobody
    <3>2. CASE IsBuffer
      <4>1. /\ IsRuns(store, OwnersOf(tracker), Size)
            /\ word # Dense => Len(store) = 1
        BY <2>1, <3>2 DEF MapForm, IsBuffer, Size, InForm, UniformIn
      <4>2. Len(store) \in Nat /\ DOMAIN store = 1..Len(store)
        BY <4>1, RunParts DEF IsRuns
      <4>3. ASSUME NEW r \in 2..Len(store)
            PROVE  /\ StartOf(store, r - 1) < StartOf(store, r)
                   /\ StartOf(store, r) < Size
                   /\ Value(store, r - 1) # Value(store, r)
        <5>1. r \in DOMAIN store /\ r - 1 \in DOMAIN store /\ r - 1 < r
          BY <4>2
        <5> QED
          BY <5>1, <4>1 DEF IsRuns, IsOrdered, Distinct
      <4>4. Canonical(store)
        BY <4>1, <4>3 DEF Canonical, IsRuns, IsOrdered, Distinct
      <4> QED
        BY <3>2, <4>1, <4>4
    <3>3. CASE ~IsBuffer
      <4>1. /\ IsDense(store, OwnersOf(tracker), Size) \/ (store = None /\ word # Dense)
            /\ word = Dense => ~IsUniform(store)
        BY <2>1, <3>1, <3>3 DEF MapForm, IsBuffer, Size, InForm, UniformIn
      <4>2. IsDense(store, OwnersOf(tracker), Size) => store # None /\ Counted(store)
        <5>1. None \notin [values : Seq(OwnersOf(tracker)), transitions : Nat]
          BY <2>1, NoneAssumption DEF IsOwnerTracker, IsSharing, ValuesOf, OwnersOf
        <5> QED
          BY <5>1 DEF IsDense, Counted, Differing
      <4> QED
        BY <2>1, <3>3, <4>1, <4>2 DEF MapCountsUnlocked
    <3> QED
      BY <3>2, <3>3
  <2> QED
    BY <2>1, <2>2, <2>3 DEF StoreInForm
<1> QED
  BY <1>1, InvAlways, PTL

-----------------------------------------------------------------------------
(* What a step of a tracker has to show to be a step of the map             *)

Waits(a, r) == a # None /\ r = None /\ a.reads

\* The thread's call and answer may change, and what is remembered is so for who waits for it.
Shows(t) ==
    /\ t \in Threads
    /\ IsFun(Called) /\ IsFun(Replied) /\ IsFun(past) /\ IsFun(Called') /\ IsFun(Replied') /\ IsFun(past')
    /\ \A u \in Threads : u # t => Called'[u] = Called[u] /\ Replied'[u] = Replied[u]
    /\ \A u \in Threads : IF Waits(Called[u], Replied[u]) THEN Contents \in past[u] ELSE past[u] = {}
    /\ \A u \in Threads : past'[u] = IF Waits(Called'[u], Replied'[u]) THEN past[u] \cup {Contents'} ELSE {}

\* Functions with the same values are the same.
LEMMA SameFun ==
    ASSUME NEW f, NEW g, IsFun(f), IsFun(g), \A u \in Threads : g[u] = f[u]
    PROVE  g = f
<1>1. PICK values : f \in [Threads -> values]
  BY DEF IsFun
<1>2. PICK more : g \in [Threads -> more]
  BY DEF IsFun
<1> QED
  BY <1>1, <1>2

\* A step that shows nothing,
LEMMA ShowsNothing ==
    ASSUME NEW t, Shows(t), Called'[t] = Called[t], Replied'[t] = Replied[t], Contents' = Contents
    PROVE  UNCHANGED Map!vars
<1>1. Called' = Called /\ Replied' = Replied
  BY SameFun DEF Shows
<1>2. \A u \in Threads : past'[u] = past[u]
  BY <1>1 DEF Shows
<1>3. past' = past
  BY <1>2, SameFun DEF Shows
<1> QED
  BY <1>1, <1>3 DEF Map!vars

\* What is remembered for the others stays while the map does.
LEMMA OthersRemember ==
    ASSUME NEW t, Shows(t), Contents' = Contents, NEW u \in Threads, u # t
    PROVE  past'[u] = past[u]
<1>1. Called'[u] = Called[u] /\ Replied'[u] = Replied[u]
  BY DEF Shows
<1>2. IF Waits(Called[u], Replied[u]) THEN Contents \in past[u] ELSE past[u] = {}
  BY DEF Shows
<1>3. past'[u] = IF Waits(Called'[u], Replied'[u]) THEN past[u] \cup {Contents'} ELSE {}
  BY DEF Shows
<1> QED
  BY <1>1, <1>2, <1>3

\* a call,
LEMMA ShowsCall ==
    ASSUME NEW t, Shows(t), Called[t] = None, NEW a, Called'[t] = a, a # None,
           a.cells \subseteq DOMAIN Contents, Replied[t] = None, Replied'[t] = None, Contents' = Contents
    PROVE  Map!Call(t)
<1>1. t \in Threads /\ IsFun(Called) /\ IsFun(Replied) /\ IsFun(past)
  BY DEF Shows
<1>2. IsPut(Called', Called, t, a)
  BY DEF Shows, IsPut
<1>3. Called' = [Called EXCEPT ![t] = a]
  BY <1>1, <1>2, PutIs, Zenon
<1>4. IsPut(Replied', Replied, t, None)
  BY DEF Shows, IsPut
<1>5. Replied' = [Replied EXCEPT ![t] = None]
  BY <1>1, <1>4, PutIs, Zenon
<1> DEFINE p == IF a.reads THEN {Contents} ELSE {}
<1>6. past'[t] = p
  <2>1. past[t] = {} /\ (Waits(Called'[t], Replied'[t]) <=> a.reads)
    BY <1>1 DEF Shows, Waits
  <2>2. past'[t] = IF Waits(Called'[t], Replied'[t]) THEN past[t] \cup {Contents} ELSE {}
    BY <1>1 DEF Shows
  <2> QED
    BY <2>1, <2>2
<1> HIDE DEF p
<1>7. IsPut(past', past, t, p)
  BY <1>6, OthersRemember DEF IsPut, Shows
<1>8. past' = [past EXCEPT ![t] = p]
  BY <1>1, <1>7, PutIs, Zenon
<1> QED
  BY <1>3, <1>5, <1>8 DEF Map!Call, p

\* a return,
LEMMA ShowsReturn ==
    ASSUME NEW t, Shows(t), Called[t] # None, Replied[t] # None, Called'[t] = None, Replied'[t] = None,
           Contents' = Contents
    PROVE  Map!Return(t)
<1>1. t \in Threads /\ IsFun(Called) /\ IsFun(Replied) /\ IsFun(past)
  BY DEF Shows
<1>2. IsPut(Called', Called, t, None) /\ IsPut(Replied', Replied, t, None)
  BY DEF Shows, IsPut
<1>3. Called' = [Called EXCEPT ![t] = None] /\ Replied' = [Replied EXCEPT ![t] = None]
  BY <1>1, <1>2, PutIs, Zenon
<1>4. past'[t] = past[t]
  <2>1. past[t] = {} /\ ~Waits(Called'[t], Replied'[t])
    BY <1>1 DEF Shows, Waits
  <2> QED
    BY <2>1, <1>1 DEF Shows
<1>5. past' = past
  <2>1. \A u \in Threads : past'[u] = past[u]
    BY <1>4, OthersRemember
  <2> QED
    BY <2>1, SameFun DEF Shows
<1> QED
  BY <1>3, <1>5 DEF Map!Return

\* an update
LEMMA ShowsUpdate ==
    ASSUME NEW t, Shows(t), NEW a, Called[t] = a, Called'[t] = a, a # None, Replied[t] = None, ~a.reads,
           Contents' = [c \in DOMAIN Contents |-> IF c \in a.cells THEN a.update[Contents[c]] ELSE Contents[c]],
           Replied'[t] = Map!Answer(a, Contents)
    PROVE  Map!Update(t)
<1>1. t \in Threads /\ IsFun(Called) /\ IsFun(Replied) /\ IsFun(past) /\ IsFun(past')
  BY DEF Shows
<1> DEFINE r == Map!Answer(a, Contents)
<1>2. Replied'[t] = r
  OBVIOUS
<1> HIDE DEF r
<1>3. IsPut(Replied', Replied, t, r)
  BY <1>2 DEF Shows, IsPut
<1>4. Replied' = [Replied EXCEPT ![t] = r]
  BY <1>1, <1>3, PutIs, Zenon
<1>5. Called' = Called
  BY SameFun DEF Shows
<1> DEFINE W(u) == Map!Waiting(u) /\ Called[u].reads
<1>6. ASSUME NEW u \in Threads
      PROVE  past'[u] = IF W(u) THEN past[u] \cup {Contents'} ELSE past[u]
  <2>1. W(u) <=> Waits(Called[u], Replied[u])
    BY DEF Map!Waiting, Waits
  <2>2. past'[u] = IF Waits(Called[u], Replied'[u]) THEN past[u] \cup {Contents'} ELSE {}
    BY <1>5 DEF Shows
  <2>3. Waits(Called[u], Replied'[u]) <=> Waits(Called[u], Replied[u])
    <3>1. CASE u = t
      BY <3>1 DEF Waits
    <3>2. CASE u # t
      BY <3>2 DEF Shows
    <3> QED
      BY <3>1, <3>2
  <2>4. ~Waits(Called[u], Replied[u]) => past[u] = {}
    BY DEF Shows
  <2> HIDE DEF W
  <2> QED
    BY <2>1, <2>2, <2>3, <2>4
<1>7. past' = [u \in Threads |-> IF W(u) THEN past[u] \cup {Contents'} ELSE past[u]]
  <2>1. PICK more : past' \in [Threads -> more]
    BY <1>1 DEF IsFun
  <2> HIDE DEF W
  <2> QED
    BY <2>1, <1>6
<1>8. Map!Waiting(t) /\ ~Called[t].reads
  BY DEF Map!Waiting
<1> QED
  BY <1>4, <1>5, <1>7, <1>8 DEF Map!Update, r

\* and the answer of a reader, which is from a map that is remembered
LEMMA ShowsRead ==
    ASSUME NEW t, Shows(t), NEW a, Called[t] = a, Called'[t] = a, a # None, Replied[t] = None, a.reads,
           NEW m, m \in past[t], Replied'[t] = Map!Answer(a, m), Replied'[t] # None, Contents' = Contents
    PROVE  Map!Read(t)
<1>1. t \in Threads /\ IsFun(Called) /\ IsFun(Replied) /\ IsFun(past)
  BY DEF Shows
<1> DEFINE r == Map!Answer(a, m)
<1>2. Replied'[t] = r
  OBVIOUS
<1> HIDE DEF r
<1>3. IsPut(Replied', Replied, t, r)
  BY <1>2 DEF Shows, IsPut
<1>4. Replied' = [Replied EXCEPT ![t] = r]
  BY <1>1, <1>3, PutIs, Zenon
<1>5. Called' = Called
  BY SameFun DEF Shows
<1>6. past'[t] = {}
  BY <1>1 DEF Shows, Waits
<1>7. IsPut(past', past, t, {})
  BY <1>6, OthersRemember DEF IsPut, Shows
<1>8. past' = [past EXCEPT ![t] = {}]
  BY <1>1, <1>7, PutIs, Zenon
<1>9. Map!Waiting(t) /\ Called[t].reads
  BY DEF Map!Waiting
<1>10. \E n \in past[t] : Replied' = [Replied EXCEPT ![t] = Map!Answer(Called[t], n)]
  BY <1>4 DEF r
<1> QED
  BY <1>5, <1>8, <1>9, <1>10 DEF Map!Read

\* An answer with what the cells held
LaidAnswer(base, cells) == [c \in cells |-> base[c]]

-----------------------------------------------------------------------------
(* The cursor of a dense map: which subresources it has passed              *)

IsRange(shape, range) ==
    /\ IsShape(shape)
    /\ range \in [layer : Nat, layers : Nat \ {0}, level : Nat, levels : Nat \ {0},
                  aspect : Nat, aspects : Nat \ {0}]
    /\ range.layer + range.layers <= shape.layers
    /\ range.level + range.levels <= shape.levels
    /\ range.aspect + range.aspects <= shape.aspects

\* The subresources of a range are at aspects, layers and levels of it, in this order.
Places(range) == (0..range.aspects - 1) \X (0..range.layers - 1) \X (0..range.levels - 1)
Spot(shape, range, p) == Index(shape, range.aspect + p[1], range.layer + p[2], range.level + p[3])
Precedes(p, cur) ==
    \/ p[1] < cur.aspect
    \/ p[1] = cur.aspect /\ p[2] < cur.layer
    \/ p[1] = cur.aspect /\ p[2] = cur.layer /\ p[3] < cur.level
Earlier(range, cur) == {p \in Places(range) : Precedes(p, cur)}
SpotsOf(shape, range, places) == {Spot(shape, range, p) : p \in places}
Passed(shape, range, cur) == SpotsOf(shape, range, Earlier(range, cur))

\* A map of subresources has values everywhere.
LEMMA DenseHas ==
    ASSUME NEW V, NEW size \in Nat, NEW s, IsDense(s, V, size), NEW c \in 0..size - 1
    PROVE  ValueAt(s, c) \in V
<1>1. s.values \in Seq(V) /\ Len(s.values) \in {1, size}
  BY DEF IsDense
<1>2. Len(s.values) = 1 \/ c + 1 \in 1..Len(s.values)
  BY <1>1
<1> QED
  BY <1>1, <1>2 DEF ValueAt

\* Quotient and rest are unique.
LEMMA DivisionUnique ==
    ASSUME NEW d \in Nat \ {0}, NEW q \in Nat, NEW p \in Nat, NEW r \in 0..d - 1, NEW s \in 0..d - 1,
           q * d + r = p * d + s
    PROVE  q = p /\ r = s
<1>1. ASSUME NEW x \in Nat, NEW y \in Nat, x < y
      PROVE  x * d + d <= y * d /\ x * d \in Nat /\ y * d \in Nat
  <2>1. x + 1 \in Nat /\ x + 1 <= y /\ d \in Nat /\ x \in Int /\ d \in Int
    BY <1>1
  <2>2. (x + 1) * d <= y * d /\ (x + 1) * d = x * d + d /\ x * d \in Nat /\ y * d \in Nat
    BY <2>1, Products
  <2> QED
    BY <2>2
<1>2. q * d \in Nat /\ p * d \in Nat
  BY Products
<1> DEFINE qd == q * d  pd == p * d
<1>3. qd + r = pd + s /\ qd \in Nat /\ pd \in Nat
  BY <1>2
<1>4. q < p => qd + d <= pd
  BY <1>1
<1>5. p < q => pd + d <= qd
  BY <1>1
<1>6. q = p => qd = pd
  OBVIOUS
<1> HIDE DEF qd, pd
<1>7. ~(q < p) /\ ~(p < q)
  BY <1>3, <1>4, <1>5
<1>8. q = p
  BY <1>7
<1> QED
  BY <1>3, <1>6, <1>8

\* Places of a range are subresources of their own.
LEMMA SpotsDiffer ==
    ASSUME NEW shape, NEW range, IsRange(shape, range), NEW p \in Places(range), NEW q \in Places(range),
           Spot(shape, range, p) = Spot(shape, range, q)
    PROVE  p = q
<1> DEFINE M == shape.levels  A == shape.aspects  P == M * A
<1>1. M \in Nat \ {0} /\ A \in Nat \ {0} /\ shape.layers \in Nat
  BY DEF IsRange, IsShape
<1>2. /\ range.layer \in Nat /\ range.layers \in Nat \ {0} /\ range.level \in Nat
      /\ range.levels \in Nat \ {0} /\ range.aspect \in Nat /\ range.aspects \in Nat \ {0}
      /\ range.level + range.levels <= M /\ range.aspect + range.aspects <= A
  BY DEF IsRange
<1>3. /\ p = <<p[1], p[2], p[3]>> /\ q = <<q[1], q[2], q[3]>>
      /\ p[1] \in 0..range.aspects - 1 /\ p[2] \in 0..range.layers - 1 /\ p[3] \in 0..range.levels - 1
      /\ q[1] \in 0..range.aspects - 1 /\ q[2] \in 0..range.layers - 1 /\ q[3] \in 0..range.levels - 1
  BY DEF Places
<1> DEFINE a == range.aspect + p[1]  y == range.layer + p[2]  m == range.level + p[3]
           b == range.aspect + q[1]  z == range.layer + q[2]  n == range.level + q[3]
<1>4. /\ a \in 0..A - 1 /\ b \in 0..A - 1 /\ m \in 0..M - 1 /\ n \in 0..M - 1 /\ y \in Nat /\ z \in Nat
  BY <1>1, <1>2, <1>3
<1>5. a = b /\ y = z /\ m = n => p[1] = q[1] /\ p[2] = q[2] /\ p[3] = q[3]
  BY <1>2, <1>3
<1>6. Index(shape, a, y, m) = Index(shape, b, z, n)
  BY DEF Spot
<1> HIDE DEF a, y, m, b, z, n
<1>7. \A x \in Nat, v \in Nat, w \in Nat : Index(shape, x, v, w) = (v * A) * M + w * A + x
  BY DEF Index
<1> HIDE DEF M, A
<1>8. P \in Nat \ {0}
  BY <1>1
<1>9. \A v \in Nat : (v * A) * M = v * P
  <2> TAKE v \in Nat
  <2>1. (v * A) * M = v * (A * M)
    BY <1>1, Products
  <2>2. A * M = M * A
    BY <1>1
  <2> QED
    BY <2>1, <2>2
<1>10. ASSUME NEW w \in 0..M - 1, NEW x \in 0..A - 1
       PROVE  w * A + x \in 0..P - 1
  <2>1. w + 1 \in Nat /\ w + 1 <= M /\ w \in Int /\ A \in Nat /\ A \in Int /\ M \in Nat
    BY <1>1
  <2>2. (w + 1) * A <= P /\ (w + 1) * A = w * A + A /\ w * A \in Nat
    BY <2>1, Products
  <2> DEFINE wA == w * A
  <2>3. wA + A <= P /\ wA \in Nat
    BY <2>2
  <2> HIDE DEF wA, P
  <2>4. wA + x \in 0..P - 1
    BY <2>3, <1>1, <1>8
  <2> QED
    BY <2>4 DEF wA
<1> DEFINE r == m * A + a  s == n * A + b
<1>11. r \in 0..P - 1 /\ s \in 0..P - 1
  BY <1>4, <1>10
<1>12. y * P + r = z * P + s
  <2> DEFINE mA == m * A  nA == n * A  yP == y * P  zP == z * P
  <2>1. mA \in Nat /\ nA \in Nat /\ yP \in Nat /\ zP \in Nat
    <3>1. m \in Nat /\ n \in Nat /\ A \in Nat /\ y \in Nat /\ z \in Nat /\ P \in Nat
      BY <1>1, <1>4, <1>8
    <3> HIDE DEF P
    <3> QED
      BY <3>1, Products
  <2>2. (yP + mA) + a = (zP + nA) + b
    <3>1. m \in Nat /\ n \in Nat /\ a \in Nat /\ b \in Nat
      BY <1>1, <1>4
    <3>2. /\ Index(shape, a, y, m) = (y * A) * M + m * A + a
          /\ Index(shape, b, z, n) = (z * A) * M + n * A + b
          /\ (y * A) * M = y * P /\ (z * A) * M = z * P
      BY <3>1, <1>4, <1>7, <1>9
    <3> HIDE DEF P
    <3> QED
      BY <3>2, <1>6
  <2>3. a \in Nat /\ b \in Nat
    BY <1>1, <1>4
  <2> HIDE DEF mA, nA, yP, zP
  <2>4. yP + (mA + a) = zP + (nA + b)
    BY <2>1, <2>2, <2>3
  <2> QED
    BY <2>4 DEF mA, nA, yP, zP
<1> HIDE DEF r, s, P
<1>13. y = z /\ r = s
  BY <1>4, <1>8, <1>11, <1>12, DivisionUnique
<1>14. m = n /\ a = b
  <2>1. m * A + a = n * A + b /\ m \in Nat /\ n \in Nat
    BY <1>1, <1>4, <1>13 DEF r, s
  <2> QED
    BY <2>1, <1>1, <1>4, DivisionUnique
<1> QED
  BY <1>3, <1>5, <1>13, <1>14

\* The subresources of a range are at its places.
LEMMA SpotsAre ==
    ASSUME NEW shape, NEW range
    PROVE  IndicesOf(shape, range) = SpotsOf(shape, range, Places(range))
<1>1. ASSUME NEW i \in IndicesOf(shape, range)
      PROVE  i \in SpotsOf(shape, range, Places(range))
  <2>1. PICK a \in 0..range.aspects - 1, y \in 0..range.layers - 1, m \in 0..range.levels - 1 :
            i = Index(shape, range.aspect + a, range.layer + y, range.level + m)
    BY DEF IndicesOf
  <2>2. <<a, y, m>> \in Places(range) /\ i = Spot(shape, range, <<a, y, m>>)
    BY <2>1 DEF Places, Spot
  <2> QED
    BY <2>2 DEF SpotsOf
<1>2. ASSUME NEW i \in SpotsOf(shape, range, Places(range))
      PROVE  i \in IndicesOf(shape, range)
  <2>1. PICK p \in Places(range) : i = Spot(shape, range, p)
    BY DEF SpotsOf
  <2>2. p[1] \in 0..range.aspects - 1 /\ p[2] \in 0..range.layers - 1 /\ p[3] \in 0..range.levels - 1
    BY DEF Places
  <2> QED
    BY <2>1, <2>2 DEF IndicesOf, Spot
<1> QED
  BY <1>1, <1>2

\* A cursor in a range, or at its end
DenseCursorAt(range, cur) ==
    /\ cur \in [aspect : Nat, layer : Nat, level : Nat]
    /\ cur.aspect < range.aspects /\ cur.layer < range.layers /\ cur.level < range.levels
DenseCursorEnd(range, cur) == cur = [aspect |-> range.aspects, layer |-> 0, level |-> 0]

\* A block of places at the cursor grows over layers if it has all levels, and over aspects if
\* it has all layers.
Grows(range, cur, a, y, m) ==
    /\ a \in Nat \ {0} /\ y \in Nat \ {0} /\ m \in Nat \ {0}
    /\ cur.aspect + a <= range.aspects /\ cur.layer + y <= range.layers /\ cur.level + m <= range.levels
    /\ y # 1 => cur.level = 0 /\ m = range.levels
    /\ a # 1 => cur.level = 0 /\ m = range.levels /\ cur.layer = 0 /\ y = range.layers
Block(cur, a, y, m) ==
    (cur.aspect..cur.aspect + a - 1) \X (cur.layer..cur.layer + y - 1) \X (cur.level..cur.level + m - 1)
PieceAt(range, cur, piece) ==
    /\ piece \in [layer : Nat, layers : Nat \ {0}, level : Nat, levels : Nat \ {0},
                  aspect : Nat, aspects : Nat \ {0}]
    /\ piece.aspect = range.aspect + cur.aspect /\ piece.layer = range.layer + cur.layer
    /\ piece.level = range.level + cur.level
    /\ Grows(range, cur, piece.aspects, piece.layers, piece.levels)
BlockOf(cur, piece) == Block(cur, piece.aspects, piece.layers, piece.levels)

\* The greatest of some numbers up to one
LEMMA GreatestTo ==
    ASSUME NEW n \in Nat, NEW T \in SUBSET (1..n), 1 \in T
    PROVE  Max(T) \in T
<1>1. T \in SUBSET Nat /\ \A i \in T : i <= n
  OBVIOUS
<1> QED
  BY <1>1, GreatestNat

\* All of a rectangle has the value that is at the cursor.
LEMMA RectangleIs ==
    ASSUME NEW shape, NEW range, IsRange(shape, range), NEW cur, DenseCursorAt(range, cur), NEW map
    PROVE  LET piece == Rectangle(map, shape, range, cur)
           IN  /\ PieceAt(range, cur, piece)
               /\ \A p \in BlockOf(cur, piece) :
                    ValueAt(map, Spot(shape, range, p))
                        = ValueAt(map, Spot(shape, range, <<cur.aspect, cur.layer, cur.level>>))
<1> DEFINE A == range.aspects  Y == range.layers  M == range.levels
           Found(a, y, m) == ValueAt(map, Index(shape, range.aspect + a, range.layer + y, range.level + m))
           old == Found(cur.aspect, cur.layer, cur.level)
           Row(a, y) == \A m \in 0..M - 1 : Found(a, y, m) = old
           Plane(a) == \A y \in 0..Y - 1 : Row(a, y)
           TM == {n \in 1..M - cur.level : \A k \in cur.level + 1..cur.level + n - 1 : Found(cur.aspect, cur.layer, k) = old}
           TY == {n \in 1..Y - cur.layer : \A k \in cur.layer + 1..cur.layer + n - 1 : Row(cur.aspect, k)}
           TA == {n \in 1..A - cur.aspect : \A k \in cur.aspect + 1..cur.aspect + n - 1 : Plane(k)}
           m == Max(TM)
           y == IF cur.level = 0 /\ m = M THEN Max(TY) ELSE 1
           a == IF cur.level = 0 /\ m = M /\ cur.layer = 0 /\ y = Y THEN Max(TA) ELSE 1
           piece == Rectangle(map, shape, range, cur)
<1>1. piece = [aspect |-> range.aspect + cur.aspect, aspects |-> a,
               layer |-> range.layer + cur.layer, layers |-> y,
               level |-> range.level + cur.level, levels |-> m]
  BY DEF Rectangle, Longest
<1>2. /\ A \in Nat \ {0} /\ Y \in Nat \ {0} /\ M \in Nat \ {0}
      /\ range.aspect \in Nat /\ range.layer \in Nat /\ range.level \in Nat
  BY DEF IsRange
<1>3. /\ cur.aspect \in Nat /\ cur.layer \in Nat /\ cur.level \in Nat
      /\ cur.aspect < A /\ cur.layer < Y /\ cur.level < M
  BY DEF DenseCursorAt
<1> HIDE DEF Found, old, piece
<1>4. m \in 1..M - cur.level /\ \A k \in cur.level + 1..cur.level + m - 1 : Found(cur.aspect, cur.layer, k) = old
  <2>1. M - cur.level \in Nat /\ 1 \in 1..M - cur.level /\ cur.level + 1..cur.level + 1 - 1 = {}
    BY <1>2, <1>3
  <2>2. 1 \in TM /\ TM \in SUBSET (1..M - cur.level)
    BY <2>1
  <2> HIDE DEF TM
  <2>3. Max(TM) \in TM
    BY <2>1, <2>2, GreatestTo
  <2> QED
    BY <2>3 DEF TM
<1>5. Max(TY) \in 1..Y - cur.layer /\ \A k \in cur.layer + 1..cur.layer + Max(TY) - 1 : Row(cur.aspect, k)
  <2> HIDE DEF Row
  <2>1. Y - cur.layer \in Nat /\ 1 \in 1..Y - cur.layer /\ cur.layer + 1..cur.layer + 1 - 1 = {}
    BY <1>2, <1>3
  <2>2. 1 \in TY /\ TY \in SUBSET (1..Y - cur.layer)
    BY <2>1
  <2> HIDE DEF TY
  <2>3. Max(TY) \in TY
    BY <2>1, <2>2, GreatestTo
  <2> QED
    BY <2>3 DEF TY
<1>6. Max(TA) \in 1..A - cur.aspect /\ \A k \in cur.aspect + 1..cur.aspect + Max(TA) - 1 : Plane(k)
  <2> HIDE DEF Plane
  <2>1. A - cur.aspect \in Nat /\ 1 \in 1..A - cur.aspect /\ cur.aspect + 1..cur.aspect + 1 - 1 = {}
    BY <1>2, <1>3
  <2>2. 1 \in TA /\ TA \in SUBSET (1..A - cur.aspect)
    BY <2>1
  <2> HIDE DEF TA
  <2>3. Max(TA) \in TA
    BY <2>1, <2>2, GreatestTo
  <2> QED
    BY <2>3 DEF TA
<1> HIDE DEF m, TM, TY, TA, Row, Plane
<1>7. y \in 1..Y - cur.layer /\ (y # 1 => cur.level = 0 /\ m = M)
      /\ \A k \in cur.layer + 1..cur.layer + y - 1 : Row(cur.aspect, k)
  <2>1. 1 \in 1..Y - cur.layer /\ cur.layer + 1..cur.layer + 1 - 1 = {}
    BY <1>2, <1>3
  <2> QED
    BY <2>1, <1>5
<1> HIDE DEF y
<1>8. a \in 1..A - cur.aspect /\ (a # 1 => cur.level = 0 /\ m = M /\ cur.layer = 0 /\ y = Y)
      /\ \A k \in cur.aspect + 1..cur.aspect + a - 1 : Plane(k)
  <2>1. 1 \in 1..A - cur.aspect /\ cur.aspect + 1..cur.aspect + 1 - 1 = {}
    BY <1>2, <1>3
  <2> QED
    BY <2>1, <1>6
<1> HIDE DEF a, A, Y, M
<1>9. Grows(range, cur, a, y, m)
  BY <1>2, <1>3, <1>4, <1>7, <1>8 DEF Grows, A, Y, M
<1>10. PieceAt(range, cur, piece)
  <2>1. a \in Nat \ {0} /\ y \in Nat \ {0} /\ m \in Nat \ {0}
    BY <1>9 DEF Grows
  <2> QED
    BY <2>1, <1>1, <1>2, <1>3, <1>9 DEF PieceAt
<1>11. ASSUME NEW p \in BlockOf(cur, piece)
       PROVE  Found(p[1], p[2], p[3]) = old
  <2>1. /\ p[1] \in cur.aspect..cur.aspect + a - 1
        /\ p[2] \in cur.layer..cur.layer + y - 1
        /\ p[3] \in cur.level..cur.level + m - 1
    BY <1>1 DEF BlockOf, Block
  <2>2. CASE p[1] # cur.aspect
    <3>1. p[1] \in cur.aspect + 1..cur.aspect + a - 1 /\ a # 1
      BY <2>1, <2>2, <1>3, <1>8
    <3>2. p[2] \in 0..Y - 1 /\ p[3] \in 0..M - 1
      BY <3>1, <2>1, <1>8, <1>2
    <3> QED
      BY <3>1, <3>2, <1>8 DEF Plane, Row, Y, M
  <2>3. CASE p[1] = cur.aspect /\ p[2] # cur.layer
    <3>1. p[2] \in cur.layer + 1..cur.layer + y - 1 /\ y # 1
      BY <2>1, <2>3, <1>3, <1>7
    <3>2. p[3] \in 0..M - 1
      BY <3>1, <2>1, <1>7, <1>2
    <3> QED
      BY <3>1, <3>2, <2>3, <1>7 DEF Row, M
  <2>4. CASE p[1] = cur.aspect /\ p[2] = cur.layer /\ p[3] # cur.level
    <3>1. p[3] \in cur.level + 1..cur.level + m - 1
      BY <2>1, <2>4, <1>3, <1>4
    <3> QED
      BY <3>1, <2>4, <1>4
  <2>5. CASE p[1] = cur.aspect /\ p[2] = cur.layer /\ p[3] = cur.level
    BY <2>5 DEF old
  <2> QED
    BY <2>2, <2>3, <2>4, <2>5
<1> DEFINE c == <<cur.aspect, cur.layer, cur.level>>
<1>12. old = ValueAt(map, Spot(shape, range, c))
  BY DEF old, Found, Spot
<1>13. \A p \in BlockOf(cur, piece) : ValueAt(map, Spot(shape, range, p)) = ValueAt(map, Spot(shape, range, c))
  BY <1>11, <1>12 DEF Found, Spot
<1> QED
  BY <1>10, <1>13 DEF piece

\* The places of a piece are those of its block.
LEMMA PieceSpots ==
    ASSUME NEW shape, NEW range, IsRange(shape, range), NEW cur, DenseCursorAt(range, cur),
           NEW piece, PieceAt(range, cur, piece)
    PROVE  IndicesOf(shape, piece) = SpotsOf(shape, range, BlockOf(cur, piece))
<1> DEFINE da == piece.aspects  dy == piece.layers  dm == piece.levels
<1>1. /\ piece.aspect = range.aspect + cur.aspect /\ piece.layer = range.layer + cur.layer
      /\ piece.level = range.level + cur.level
      /\ da \in Nat \ {0} /\ dy \in Nat \ {0} /\ dm \in Nat \ {0}
  BY DEF PieceAt
<1>2. /\ range.aspect \in Nat /\ range.layer \in Nat /\ range.level \in Nat
      /\ cur.aspect \in Nat /\ cur.layer \in Nat /\ cur.level \in Nat
  BY DEF IsRange, DenseCursorAt
<1>3. ASSUME NEW i \in IndicesOf(shape, piece)
      PROVE  i \in SpotsOf(shape, range, BlockOf(cur, piece))
  <2>1. PICK a \in 0..da - 1, y \in 0..dy - 1, m \in 0..dm - 1 :
            i = Index(shape, piece.aspect + a, piece.layer + y, piece.level + m)
    BY DEF IndicesOf
  <2> DEFINE p == <<cur.aspect + a, cur.layer + y, cur.level + m>>
  <2>2. p \in BlockOf(cur, piece)
    <3>1. /\ cur.aspect + a \in cur.aspect..cur.aspect + da - 1 /\ cur.layer + y \in cur.layer..cur.layer + dy - 1
          /\ cur.level + m \in cur.level..cur.level + dm - 1
      BY <1>1, <1>2
    <3> QED
      BY <3>1 DEF BlockOf, Block
  <2>3. /\ piece.aspect + a = range.aspect + (cur.aspect + a) /\ piece.layer + y = range.layer + (cur.layer + y)
        /\ piece.level + m = range.level + (cur.level + m)
    BY <1>1, <1>2
  <2>4. i = Spot(shape, range, p)
    BY <2>1, <2>3 DEF Spot
  <2> HIDE DEF p
  <2> QED
    BY <2>2, <2>4 DEF SpotsOf
<1>4. ASSUME NEW i \in SpotsOf(shape, range, BlockOf(cur, piece))
      PROVE  i \in IndicesOf(shape, piece)
  <2>1. PICK p \in BlockOf(cur, piece) : i = Spot(shape, range, p)
    BY DEF SpotsOf
  <2>2. /\ p[1] \in cur.aspect..cur.aspect + da - 1 /\ p[2] \in cur.layer..cur.layer + dy - 1
        /\ p[3] \in cur.level..cur.level + dm - 1
    BY DEF BlockOf, Block
  <2> DEFINE a == p[1] - cur.aspect  y == p[2] - cur.layer  m == p[3] - cur.level
  <2>3. /\ a \in 0..da - 1 /\ y \in 0..dy - 1 /\ m \in 0..dm - 1
        /\ range.aspect + p[1] = piece.aspect + a /\ range.layer + p[2] = piece.layer + y
        /\ range.level + p[3] = piece.level + m
    BY <2>2, <1>1, <1>2
  <2>4. i = Index(shape, piece.aspect + a, piece.layer + y, piece.level + m)
    BY <2>1, <2>3 DEF Spot
  <2> HIDE DEF a, y, m
  <2> QED
    BY <2>3, <2>4 DEF IndicesOf
<1> QED
  BY <1>3, <1>4

\* What is left of a cursor of which one component changes
LEMMA CursorParts ==
    ASSUME NEW cur \in [aspect : Nat, layer : Nat, level : Nat], NEW v, NEW w
    PROVE  /\ [cur EXCEPT !.level = v] = [aspect |-> cur.aspect, layer |-> cur.layer, level |-> v]
           /\ [cur EXCEPT !.level = v, !.layer = w] = [aspect |-> cur.aspect, layer |-> w, level |-> v]
           /\ [cur EXCEPT !.aspect = v] = [aspect |-> v, layer |-> cur.layer, level |-> cur.level]
<1>1. DOMAIN cur = {"aspect", "layer", "level"}
  OBVIOUS
<1>2. [cur EXCEPT !.level = v] = [aspect |-> cur.aspect, layer |-> cur.layer, level |-> v]
  BY <1>1
<1>3. [cur EXCEPT !.level = v, !.layer = w] = [aspect |-> cur.aspect, layer |-> w, level |-> v]
  <2> DEFINE e == [cur EXCEPT !.level = v]
  <2>1. [cur EXCEPT !.level = v, !.layer = w] = [e EXCEPT !.layer = w]
    OBVIOUS
  <2>2. e = [aspect |-> cur.aspect, layer |-> cur.layer, level |-> v]
    BY <1>2
  <2> HIDE DEF e
  <2>3. [e EXCEPT !.layer = w] = [aspect |-> cur.aspect, layer |-> w, level |-> v]
    BY <2>2
  <2> QED
    BY <2>1, <2>3
<1>4. [cur EXCEPT !.aspect = v] = [aspect |-> v, layer |-> cur.layer, level |-> cur.level]
  BY <1>1
<1> QED
  BY <1>2, <1>3, <1>4

\* Behind the block the cursor has passed it too, and nothing else.
LEMMA BlockPassed ==
    ASSUME NEW shape, NEW range, IsRange(shape, range), NEW cur, DenseCursorAt(range, cur),
           NEW piece, PieceAt(range, cur, piece)
    PROVE  LET next == Advance(range, cur, piece)
           IN  /\ DenseCursorAt(range, next) \/ DenseCursorEnd(range, next)
               /\ next # DenseCursor
               /\ BlockOf(cur, piece) \subseteq Places(range)
               /\ Earlier(range, next) = Earlier(range, cur) \cup BlockOf(cur, piece)
               /\ Earlier(range, cur) \cap BlockOf(cur, piece) = {}
<1> DEFINE A == range.aspects  Y == range.layers  M == range.levels
           da == piece.aspects  dy == piece.layers  dm == piece.levels
           ca == cur.aspect  cy == cur.layer  cm == cur.level
           next == Advance(range, cur, piece)
           na == next.aspect  ny == next.layer  nm == next.level
<1>1. A \in Nat \ {0} /\ Y \in Nat \ {0} /\ M \in Nat \ {0}
  BY DEF IsRange
<1>2. ca \in Nat /\ cy \in Nat /\ cm \in Nat /\ ca < A /\ cy < Y /\ cm < M
  BY DEF DenseCursorAt
<1>3. /\ da \in Nat \ {0} /\ dy \in Nat \ {0} /\ dm \in Nat \ {0}
      /\ ca + da <= A /\ cy + dy <= Y /\ cm + dm <= M
      /\ dy # 1 => cm = 0 /\ dm = M
      /\ da # 1 => cm = 0 /\ dm = M /\ cy = 0 /\ dy = Y
  BY DEF PieceAt, Grows
<1>4. \/ cm + dm < M /\ next = [aspect |-> ca, layer |-> cy, level |-> cm + dm]
      \/ cm + dm = M /\ cy + dy < Y /\ next = [aspect |-> ca, layer |-> cy + dy, level |-> 0]
      \/ cm + dm = M /\ cy + dy = Y /\ next = [aspect |-> ca + da, layer |-> 0, level |-> 0]
  <2>1. cur \in [aspect : Nat, layer : Nat, level : Nat]
    BY DEF DenseCursorAt
  <2>2. /\ [cur EXCEPT !.level = cm + dm] = [aspect |-> ca, layer |-> cy, level |-> cm + dm]
        /\ [cur EXCEPT !.level = 0, !.layer = cy + dy] = [aspect |-> ca, layer |-> cy + dy, level |-> 0]
    BY <2>1, CursorParts, ZenonT(60)
  <2>3. CASE cm + dm < M
    BY <2>2, <2>3 DEF Advance
  <2>4. CASE cm + dm = M /\ cy + dy < Y
    <3>1. ~(cm + dm < M)
      BY <2>4, <1>1
    <3> QED
      BY <3>1, <2>2, <2>4 DEF Advance
  <2>5. CASE cm + dm = M /\ cy + dy = Y
    <3>1. ~(cm + dm < M) /\ ~(cy + dy < Y)
      BY <2>5, <1>1
    <3> QED
      BY <3>1, <2>5 DEF Advance
  <2>6. (cm + dm < M \/ cm + dm = M) /\ (cy + dy < Y \/ cy + dy = Y)
    BY <1>1, <1>2, <1>3
  <2> QED
    BY <2>3, <2>4, <2>5, <2>6
<1>5. /\ na \in Nat /\ ny \in Nat /\ nm \in Nat
      /\ \/ cm + dm < M /\ na = ca /\ ny = cy /\ nm = cm + dm
         \/ cm + dm = M /\ cy + dy < Y /\ na = ca /\ ny = cy + dy /\ nm = 0
         \/ cm + dm = M /\ cy + dy = Y /\ na = ca + da /\ ny = 0 /\ nm = 0
      /\ next = [aspect |-> na, layer |-> ny, level |-> nm]
  <2> HIDE DEF next
  <2> QED
    BY <1>2, <1>3, <1>4
<1> HIDE DEF next
<1>6. DenseCursorAt(range, next) \/ DenseCursorEnd(range, next)
  <2>1. next \in [aspect : Nat, layer : Nat, level : Nat]
    BY <1>5
  <2>2. (na < A /\ ny < Y /\ nm < M) \/ (na = A /\ ny = 0 /\ nm = 0)
    <3> HIDE DEF na, ny, nm, A, Y, M, da, dy, dm, ca, cy, cm
    <3> QED
      BY <1>1, <1>2, <1>3, <1>5
  <2> QED
    BY <2>1, <2>2, <1>5 DEF DenseCursorAt, DenseCursorEnd
<1>7. next # DenseCursor
  <2>1. na # 0 \/ ny # 0 \/ nm # 0
    <3> HIDE DEF na, ny, nm, A, Y, M, da, dy, dm, ca, cy, cm
    <3> QED
      BY <1>1, <1>2, <1>3, <1>5
  <2> QED
    BY <2>1 DEF DenseCursor
<1>8. ASSUME NEW p \in BlockOf(cur, piece)
      PROVE  p \in Places(range) /\ ~Precedes(p, cur) /\ Precedes(p, next)
  <2>1. /\ p[1] \in ca..ca + da - 1 /\ p[2] \in cy..cy + dy - 1 /\ p[3] \in cm..cm + dm - 1
        /\ p = <<p[1], p[2], p[3]>>
    BY DEF BlockOf, Block
  <2> DEFINE a == p[1]  y == p[2]  m == p[3]
  <2>2. a \in 0..A - 1 /\ y \in 0..Y - 1 /\ m \in 0..M - 1
    <3> HIDE DEF A, Y, M, da, dy, dm, ca, cy, cm, a, y, m
    <3> QED
      BY <2>1, <1>1, <1>2, <1>3 DEF a, y, m
  <2>3. ~(a < ca \/ (a = ca /\ y < cy) \/ (a = ca /\ y = cy /\ m < cm))
    <3> HIDE DEF A, Y, M, da, dy, dm, ca, cy, cm
    <3> QED
      BY <2>1, <1>1, <1>2, <1>3
  <2>4. a < na \/ (a = na /\ y < ny) \/ (a = na /\ y = ny /\ m < nm)
    <3> HIDE DEF na, ny, nm, A, Y, M, da, dy, dm, ca, cy, cm
    <3> QED
      BY <2>1, <1>1, <1>2, <1>3, <1>5
  <2> QED
    BY <2>1, <2>2, <2>3, <2>4 DEF Precedes, Places
<1>9. ASSUME NEW p \in Places(range), Precedes(p, next), ~Precedes(p, cur)
      PROVE  p \in BlockOf(cur, piece)
  <2>1. /\ p[1] \in 0..A - 1 /\ p[2] \in 0..Y - 1 /\ p[3] \in 0..M - 1
        /\ p = <<p[1], p[2], p[3]>>
    BY DEF Places
  <2> DEFINE a == p[1]  y == p[2]  m == p[3]
  <2>2. ~(a < ca \/ (a = ca /\ y < cy) \/ (a = ca /\ y = cy /\ m < cm))
    BY <1>9 DEF Precedes
  <2>3. a < na \/ (a = na /\ y < ny) \/ (a = na /\ y = ny /\ m < nm)
    BY <1>9 DEF Precedes
  <2>4. a \in ca..ca + da - 1 /\ y \in cy..cy + dy - 1 /\ m \in cm..cm + dm - 1
    <3>1. a \in Nat /\ y \in Nat /\ m \in Nat /\ a < A /\ y < Y /\ m < M
      BY <2>1, <1>1
    <3> HIDE DEF na, ny, nm, A, Y, M, da, dy, dm, ca, cy, cm, a, y, m
    <3>2. CASE cm + dm < M /\ na = ca /\ ny = cy /\ nm = cm + dm
      <4>1. dy = 1 /\ da = 1
        BY <3>2, <1>1, <1>2, <1>3
      <4>2. a = ca /\ y = cy /\ cm <= m /\ m < cm + dm
        BY <3>1, <3>2, <2>2, <2>3, <1>2, <1>3
      <4> QED
        BY <4>1, <4>2, <3>1, <1>2, <1>3
    <3>3. CASE cm + dm = M /\ cy + dy < Y /\ na = ca /\ ny = cy + dy /\ nm = 0
      <4>1. da = 1 /\ a = ca /\ cy <= y /\ y < cy + dy
        BY <3>1, <3>3, <2>2, <2>3, <1>1, <1>2, <1>3
      <4>2. cm <= m /\ m < cm + dm
        BY <4>1, <3>1, <3>3, <2>2, <1>1, <1>2, <1>3
      <4> QED
        BY <4>1, <4>2, <3>1, <1>2, <1>3
    <3>4. CASE cm + dm = M /\ cy + dy = Y /\ na = ca + da /\ ny = 0 /\ nm = 0
      <4>1. ca <= a /\ a < ca + da
        BY <3>1, <3>4, <2>2, <2>3, <1>1, <1>2, <1>3
      <4>2. cy <= y /\ y < cy + dy
        BY <4>1, <3>1, <3>4, <2>2, <1>1, <1>2, <1>3
      <4>3. cm <= m /\ m < cm + dm
        BY <4>1, <4>2, <3>1, <3>4, <2>2, <1>1, <1>2, <1>3
      <4> QED
        BY <4>1, <4>2, <4>3, <3>1, <1>2, <1>3
    <3> QED
      BY <3>2, <3>3, <3>4, <1>5
  <2> QED
    BY <2>1, <2>4 DEF BlockOf, Block
<1>10. ASSUME NEW p \in Places(range), Precedes(p, cur)
       PROVE  Precedes(p, next)
  <2>1. p[1] \in 0..A - 1 /\ p[2] \in 0..Y - 1 /\ p[3] \in 0..M - 1
    BY DEF Places
  <2> DEFINE a == p[1]  y == p[2]  m == p[3]
  <2>2. a < ca \/ (a = ca /\ y < cy) \/ (a = ca /\ y = cy /\ m < cm)
    BY <1>10 DEF Precedes
  <2>3. a < na \/ (a = na /\ y < ny) \/ (a = na /\ y = ny /\ m < nm)
    <3> HIDE DEF na, ny, nm, A, Y, M, da, dy, dm, ca, cy, cm
    <3> QED
      BY <2>1, <2>2, <1>1, <1>2, <1>3, <1>5
  <2> QED
    BY <2>3 DEF Precedes
<1>11. /\ BlockOf(cur, piece) \subseteq Places(range)
       /\ Earlier(range, next) = Earlier(range, cur) \cup BlockOf(cur, piece)
       /\ Earlier(range, cur) \cap BlockOf(cur, piece) = {}
  BY <1>8, <1>9, <1>10 DEF Earlier
<1> QED
  BY <1>6, <1>7, <1>11 DEF next

\* A dense map whose range a cursor has been assigning: while it is on its way the map is expanded.
DenseAt(map, V, shape, range, cur) ==
    /\ IsDense(map, V, CellCount(shape))
    /\ DenseCursorAt(range, cur) \/ DenseCursorEnd(range, cur)
    /\ cur # DenseCursor /\ DenseCursorAt(range, cur) => Len(map.values) = CellCount(shape)

\* The cells of a piece had one value, all get another, and the cursor passes them and no others.
RectangleDone(map, z, V, shape, range, cur, next, piece, value) ==
    /\ DenseAt(z, V, shape, range, next)
    /\ PieceValue(map, shape, piece) \in V
    /\ \A x \in IndicesOf(shape, piece) : ValueAt(map, x) = PieceValue(map, shape, piece)
    /\ \A x \in 0..CellCount(shape) - 1 :
            ValueAt(z, x) = IF x \in IndicesOf(shape, piece) THEN value ELSE ValueAt(map, x)
    /\ Passed(shape, range, next) = Passed(shape, range, cur) \cup IndicesOf(shape, piece)
    /\ Passed(shape, range, cur) \cap IndicesOf(shape, piece) = {}

\* A range in the image: its cells are there, and the cells the cursor has passed are among its own.
LEMMA RangeSpots ==
    ASSUME NEW shape, NEW range, IsRange(shape, range)
    PROVE  /\ CellCount(shape) \in Nat \ {0}
           /\ IndicesOf(shape, range) \subseteq 0..CellCount(shape) - 1
           /\ IsWholeImage(shape, range) => IndicesOf(shape, range) = 0..CellCount(shape) - 1
           /\ \A cur : Passed(shape, range, cur) \subseteq IndicesOf(shape, range)
<1>1. /\ IsShape(shape)
      /\ range \in [layer : Nat, layers : Nat \ {0}, level : Nat, levels : Nat \ {0},
                    aspect : Nat, aspects : Nat \ {0}]
      /\ range.layer + range.layers <= shape.layers
      /\ range.level + range.levels <= shape.levels
      /\ range.aspect + range.aspects <= shape.aspects
  BY DEF IsRange
<1>2. /\ CellCount(shape) \in Nat \ {0}
      /\ IndicesOf(shape, range) \subseteq 0..CellCount(shape) - 1
      /\ IsWholeImage(shape, range) => IndicesOf(shape, range) = 0..CellCount(shape) - 1
  BY <1>1, RangeInImage
<1>3. \A cur : Passed(shape, range, cur) \subseteq IndicesOf(shape, range)
  BY SpotsAre DEF Passed, SpotsOf, Earlier
<1> QED
  BY <1>2, <1>3

\* At first a cursor has passed nothing, at its end everything.
LEMMA CursorEnds ==
    ASSUME NEW shape, NEW range, IsRange(shape, range)
    PROVE  /\ DenseCursorAt(range, DenseCursor)
           /\ Passed(shape, range, DenseCursor) = {}
           /\ \A cur : DenseCursorEnd(range, cur) =>
                /\ DenseCursorDone(cur, range)
                /\ Passed(shape, range, cur) = IndicesOf(shape, range)
           /\ \A cur : DenseCursorAt(range, cur) => ~DenseCursorDone(cur, range)
<1>1. range.aspects \in Nat \ {0} /\ range.layers \in Nat \ {0} /\ range.levels \in Nat \ {0}
  BY DEF IsRange
<1>2. DenseCursorAt(range, DenseCursor)
  BY <1>1 DEF DenseCursorAt, DenseCursor
<1>3. Passed(shape, range, DenseCursor) = {}
  <2>1. ASSUME NEW p \in Places(range)
        PROVE  ~Precedes(p, DenseCursor)
    <3>1. p[1] \in Nat /\ p[2] \in Nat /\ p[3] \in Nat
      BY <1>1 DEF Places
    <3> QED
      BY <3>1 DEF Precedes, DenseCursor
  <2> QED
    BY <2>1 DEF Passed, Earlier, SpotsOf
<1>4. ASSUME NEW cur, DenseCursorEnd(range, cur)
      PROVE  DenseCursorDone(cur, range) /\ Passed(shape, range, cur) = IndicesOf(shape, range)
  <2>1. cur.aspect = range.aspects
    BY <1>4 DEF DenseCursorEnd
  <2>2. ASSUME NEW p \in Places(range)
        PROVE  Precedes(p, cur)
    <3>1. p[1] \in 0..range.aspects - 1
      BY DEF Places
    <3> QED
      BY <3>1, <2>1, <1>1 DEF Precedes
  <2>3. Earlier(range, cur) = Places(range)
    BY <2>2 DEF Earlier
  <2> QED
    BY <2>1, <2>3, SpotsAre DEF DenseCursorDone, Passed
<1>5. ASSUME NEW cur, DenseCursorAt(range, cur)
      PROVE  ~DenseCursorDone(cur, range)
  BY <1>1, <1>5 DEF DenseCursorAt, DenseCursorDone
<1> QED
  BY <1>2, <1>3, <1>4, <1>5

\* A map of one value has no transitions.
LEMMA SingleUniform ==
    ASSUME NEW V, NEW size, NEW map, IsDense(map, V, size), ~IsUniform(map)
    PROVE  Len(map.values) = size
<1>1. Len(map.values) \in {1, size} /\ map.values \in Seq(V)
  BY DEF IsDense
<1>2. CASE Len(map.values) = 1
  <2>1. Differing(map.values) = {}
    BY <1>2 DEF Differing
  <2>2. map.transitions = 0
    BY <2>1, FS_EmptySet DEF IsDense
  <2> QED
    BY <2>2 DEF IsUniform
<1> QED
  BY <1>1, <1>2

\* Cells at places that no block holds are in none of its pieces.
LEMMA SpotsApart ==
    ASSUME NEW shape, NEW range, IsRange(shape, range),
           NEW S \in SUBSET Places(range), NEW T \in SUBSET Places(range), S \cap T = {}
    PROVE  /\ SpotsOf(shape, range, S) \cap SpotsOf(shape, range, T) = {}
           /\ SpotsOf(shape, range, S \cup T) = SpotsOf(shape, range, S) \cup SpotsOf(shape, range, T)
<1>1. ASSUME NEW p \in S, NEW q \in T
      PROVE  Spot(shape, range, p) # Spot(shape, range, q)
  <2>1. p # q /\ p \in Places(range) /\ q \in Places(range)
    OBVIOUS
  <2> QED
    BY <2>1, SpotsDiffer
<1> QED
  BY <1>1 DEF SpotsOf

\* All of a uniform image's range at once
LEMMA AllAtOnce ==
    ASSUME NEW V, NEW shape, NEW range, IsRange(shape, range), NEW map, NEW cur,
           DenseAt(map, V, shape, range, cur), AtOnce(map, cur), NEW value \in V
    PROVE  RectangleDone(map, SetDenseRange(map, shape, value, range), V, shape, range, cur,
                         [cur EXCEPT !.aspect = range.aspects], range, value)
<1> DEFINE size == CellCount(shape)  indices == IndicesOf(shape, range)
           z == SetDenseRange(map, shape, value, range)
           next == [cur EXCEPT !.aspect = range.aspects]
<1>1. cur = DenseCursor /\ IsUniform(map) /\ IsDense(map, V, size)
  BY DEF AtOnce, DenseAt
<1>2. /\ size \in Nat \ {0} /\ indices \subseteq 0..size - 1
      /\ IsWholeImage(shape, range) => indices = 0..size - 1
  BY RangeSpots
<1>3. AssignsDense(z, map, V, size, value, indices)
  <2> HIDE DEF size
  <2>1. size = CellCount(shape)
    BY DEF size
  <2> QED
    BY <2>1, <1>1, <1>2, DenseRangeSet
<1>4. map.values[1] \in V /\ \A x \in 0..size - 1 : ValueAt(map, x) = map.values[1]
  BY <1>1, <1>2, NoTransition
<1>5. DenseCursorEnd(range, next)
  <2>1. cur \in [aspect : Nat, layer : Nat, level : Nat] /\ cur.layer = 0 /\ cur.level = 0
    BY <1>1 DEF DenseCursor
  <2> QED
    BY <2>1, CursorParts DEF DenseCursorEnd
<1> HIDE DEF next
<1>6. ~DenseCursorAt(range, next)
  BY <1>5, CursorEnds
<1>7. Passed(shape, range, next) = indices /\ Passed(shape, range, cur) = {}
  BY <1>1, <1>5, CursorEnds
<1>8. PieceValue(map, shape, range) = map.values[1]
  <2>1. Index(shape, range.aspect, range.layer, range.level) \in indices
    <3>1. /\ 0 \in 0..range.aspects - 1 /\ 0 \in 0..range.layers - 1 /\ 0 \in 0..range.levels - 1
          /\ range.aspect + 0 = range.aspect /\ range.layer + 0 = range.layer /\ range.level + 0 = range.level
      BY DEF IsRange
    <3> QED
      BY <3>1 DEF IndicesOf
  <2> QED
    BY <2>1, <1>2, <1>4 DEF PieceValue
<1> HIDE DEF size, z
<1>9. /\ IsDense(z, V, size)
      /\ \A x \in 0..size - 1 : ValueAt(z, x) = IF x \in indices THEN value ELSE ValueAt(map, x)
  BY <1>3 DEF AssignsDense
<1>10. DenseAt(z, V, shape, range, next)
  BY <1>5, <1>6, <1>9 DEF DenseAt, size
<1>11. \A x \in indices : ValueAt(map, x) = PieceValue(map, shape, range)
  BY <1>2, <1>4, <1>8
<1> QED
  BY <1>4, <1>7, <1>8, <1>9, <1>10, <1>11 DEF RectangleDone, size, z, next

\* One rectangle of an image whose subresources differ
LEMMA OneRectangle ==
    ASSUME NEW V, NEW shape, NEW range, IsRange(shape, range), NEW map, NEW cur,
           DenseAt(map, V, shape, range, cur), DenseCursorAt(range, cur), ~AtOnce(map, cur),
           NEW value \in V, NEW piece, piece = Rectangle(map, shape, range, cur)
    PROVE  RectangleDone(map, SetValues(map, IndicesOf(shape, piece), value), V, shape, range, cur,
                         Advance(range, cur, piece), piece, value)
<1> DEFINE size == CellCount(shape)  indices == IndicesOf(shape, piece)
           z == SetValues(map, indices, value)
           next == Advance(range, cur, piece)
           block == BlockOf(cur, piece)
           here == <<cur.aspect, cur.layer, cur.level>>
           old == ValueAt(map, Spot(shape, range, here))
<1>1. IsDense(map, V, size) /\ size \in Nat \ {0}
  BY RangeSpots DEF DenseAt
<1>2. Len(map.values) = size
  <2>1. CASE cur = DenseCursor
    <3>1. ~IsUniform(map)
      BY <2>1 DEF AtOnce
    <3> QED
      BY <3>1, <1>1, SingleUniform
  <2>2. CASE cur # DenseCursor
    BY <2>2 DEF DenseAt
  <2> QED
    BY <2>1, <2>2
<1>3. /\ IsDense(z, V, size)
      /\ Marked(z.values, map.values, V, size, value, indices)
  <2> HIDE DEF size, indices
  <2> QED
    BY <1>1, <1>2, CountKept
<1>4. /\ PieceAt(range, cur, piece)
      /\ \A p \in block : ValueAt(map, Spot(shape, range, p)) = old
  BY RectangleIs
<1>5. indices = SpotsOf(shape, range, block)
  BY <1>4, PieceSpots
<1>6. /\ DenseCursorAt(range, next) \/ DenseCursorEnd(range, next)
      /\ next # DenseCursor
      /\ block \subseteq Places(range)
      /\ Earlier(range, next) = Earlier(range, cur) \cup block
      /\ Earlier(range, cur) \cap block = {}
  BY <1>4, BlockPassed
<1>7. /\ Passed(shape, range, next) = Passed(shape, range, cur) \cup indices
      /\ Passed(shape, range, cur) \cap indices = {}
  <2>1. Earlier(range, cur) \subseteq Places(range)
    BY DEF Earlier
  <2> DEFINE S == Earlier(range, cur)
  <2> HIDE DEF indices, block, next, S
  <2>2. /\ S \in SUBSET Places(range) /\ block \in SUBSET Places(range) /\ S \cap block = {}
        /\ Earlier(range, next) = S \cup block
    BY <2>1, <1>6 DEF S
  <2>3. /\ SpotsOf(shape, range, S) \cap SpotsOf(shape, range, block) = {}
        /\ SpotsOf(shape, range, S \cup block) = SpotsOf(shape, range, S) \cup SpotsOf(shape, range, block)
    BY <2>2, SpotsApart
  <2> QED
    BY <2>2, <2>3, <1>5 DEF Passed, S
<1>8. PieceValue(map, shape, piece) = old
  BY <1>4 DEF PieceAt, PieceValue, Spot
<1>9. \A x \in indices : ValueAt(map, x) = old
  <2> HIDE DEF indices, block, old
  <2> QED
    BY <1>4, <1>5 DEF SpotsOf
<1>10. here \in Places(range)
  <2>1. /\ cur.aspect \in 0..range.aspects - 1 /\ cur.layer \in 0..range.layers - 1
        /\ cur.level \in 0..range.levels - 1
    BY DEF DenseCursorAt, IsRange
  <2> QED
    BY <2>1 DEF Places
<1>11. Spot(shape, range, here) \in 0..size - 1
  <2>1. Spot(shape, range, here) \in IndicesOf(shape, range)
    <3> HIDE DEF here
    <3> QED
      BY <1>10, SpotsAre DEF SpotsOf
  <2> QED
    BY <2>1, RangeSpots
<1>12. \A x \in 0..size - 1 :
            /\ ValueAt(map, x) = map.values[x + 1] /\ map.values[x + 1] \in V
            /\ ValueAt(z, x) = z.values[x + 1]
  <2> SUFFICES ASSUME NEW x \in 0..size - 1
               PROVE  /\ ValueAt(map, x) = map.values[x + 1] /\ map.values[x + 1] \in V
                      /\ ValueAt(z, x) = z.values[x + 1]
    OBVIOUS
  <2>1. map.values \in Seq(V) /\ Len(z.values) = size
    BY <1>3, <1>1 DEF Marked, IsDense
  <2>2. x + 1 \in 1..size /\ (size = 1 => x + 1 = 1)
    BY <1>1
  <2> HIDE DEF size, z
  <2>3. ValueAt(map, x) = map.values[x + 1] /\ ValueAt(z, x) = z.values[x + 1]
    <3>1. CASE size = 1
      BY <3>1, <2>1, <2>2, <1>2 DEF ValueAt
    <3>2. CASE size # 1
      BY <3>2, <2>1, <1>2 DEF ValueAt
    <3> QED
      BY <3>1, <3>2
  <2> QED
    BY <2>1, <2>2, <2>3, <1>2
<1>13. old \in V
  <2> HIDE DEF here, size
  <2> QED
    BY <1>11, <1>12
<1> HIDE DEF size, z, indices
<1>14. \A x \in 0..size - 1 : ValueAt(z, x) = IF x \in indices THEN value ELSE ValueAt(map, x)
  BY <1>3, <1>12 DEF Marked
<1>15. DenseAt(z, V, shape, range, next)
  <2>1. Len(z.values) = size
    BY <1>3 DEF Marked
  <2> QED
    BY <2>1, <1>3, <1>6 DEF DenseAt, size
<1> HIDE DEF next, old
<1> QED
  BY <1>7, <1>8, <1>9, <1>13, <1>14, <1>15 DEF RectangleDone, size, z, indices, next

\* One item of the iterator of an image
LEMMA NextPieceOfImage ==
    ASSUME NEW V, NEW shape, NEW range, IsRange(shape, range), NEW map, NEW cur,
           DenseAt(map, V, shape, range, cur), DenseCursorAt(range, cur),
           NEW value \in V, NEW piece, piece = DensePiece(map, shape, range, cur)
    PROVE  RectangleDone(map, PieceMap(map, shape, cur, piece, value), V, shape, range, cur,
                         PieceCursor(map, range, cur, piece), piece, value)
<1>1. CASE AtOnce(map, cur)
  <2>1. RectangleDone(map, SetDenseRange(map, shape, value, range), V, shape, range, cur,
                      [cur EXCEPT !.aspect = range.aspects], range, value)
    BY <1>1, AllAtOnce
  <2> QED
    BY <2>1, <1>1 DEF DensePiece, PieceMap, PieceCursor
<1>2. CASE ~AtOnce(map, cur)
  <2>1. piece = Rectangle(map, shape, range, cur)
    BY <1>2 DEF DensePiece
  <2>2. RectangleDone(map, SetValues(map, IndicesOf(shape, piece), value), V, shape, range, cur,
                      Advance(range, cur, piece), piece, value)
    BY <2>1, <1>2, OneRectangle
  <2> QED
    BY <2>2, <1>2 DEF PieceMap, PieceCursor
<1> QED
  BY <1>1, <1>2

-----------------------------------------------------------------------------
(* The parts into which cuts divide a range                                 *)

\* What lies between two of the numbers and has none of them inside
SpansOf(all) == {s \in all \X all : s[1] < s[2] /\ \A c \in all : c <= s[1] \/ s[2] <= c}

\* Every number between the least and the greatest is in one of them,
LEMMA SpanExists ==
    ASSUME NEW all \in SUBSET Nat, NEW a \in all, NEW b \in all, NEW x \in Nat, a <= x, x < b
    PROVE  \E s \in SpansOf(all) : s[1] <= x /\ x < s[2]
<1> DEFINE L == {c \in all : c <= x}  G == {c \in all : x < c}
<1>1. Max(L) \in L /\ \A m \in L : m <= Max(L)
  <2>1. L \in SUBSET Nat /\ a \in L /\ \A n \in L : n <= x
    OBVIOUS
  <2> HIDE DEF L
  <2> QED
    BY <2>1, GreatestNat
<1>2. PICK e \in G : \A m \in G : e <= m
  <2>1. G \in SUBSET Nat /\ b \in G
    OBVIOUS
  <2> HIDE DEF G
  <2> QED
    BY <2>1, LeastNat
<1> DEFINE f == Max(L)
<1>3. f \in all /\ f <= x /\ e \in all /\ x < e /\ f \in Nat /\ e \in Nat
  BY <1>1, <1>2
<1>4. \A c \in all : c <= f \/ e <= c
  BY <1>1, <1>2
<1> HIDE DEF f
<1>5. <<f, e>> \in SpansOf(all)
  BY <1>3, <1>4 DEF SpansOf
<1> QED
  BY <1>3, <1>5

\* and in no other.
LEMMA SpanUnique ==
    ASSUME NEW all \in SUBSET Nat, NEW s \in SpansOf(all), NEW r \in SpansOf(all), NEW x \in Nat,
           s[1] <= x, x < s[2], r[1] <= x, x < r[2]
    PROVE  s = r
<1>1. /\ s = <<s[1], s[2]>> /\ s[1] \in all /\ s[2] \in all
      /\ r = <<r[1], r[2]>> /\ r[1] \in all /\ r[2] \in all
  BY DEF SpansOf
<1>2. /\ r[1] <= s[1] \/ s[2] <= r[1]
      /\ r[2] <= s[1] \/ s[2] <= r[2]
      /\ s[1] <= r[1] \/ r[2] <= s[1]
      /\ s[2] <= r[1] \/ r[2] <= s[2]
  BY <1>1 DEF SpansOf
<1>3. s[1] \in Nat /\ s[2] \in Nat /\ r[1] \in Nat /\ r[2] \in Nat
  BY <1>1
<1>4. s[1] = r[1] /\ s[2] = r[2]
  BY <1>2, <1>3
<1> QED
  BY <1>1, <1>4

\* One side of a range, with the cuts that are inside
Cut(side, cuts) == {c \in cuts : side[1] < c /\ c < side[2]} \cup {side[1], side[2]}

\* Its spans lie in it and cover it, and no cut is inside one of them.
IsSpan(s, a, b) == s = <<s[1], s[2]>> /\ s[1] \in Nat /\ s[2] \in Nat /\ a <= s[1] /\ s[1] < s[2] /\ s[2] <= b
On(s, x) == s[1] <= x /\ x < s[2]

SideParts(spans, a, b, cuts) ==
    /\ \A s \in spans : IsSpan(s, a, b) /\ \A c \in cuts : c <= s[1] \/ s[2] <= c
    /\ \A x \in Nat : a <= x /\ x < b => \E s \in spans : On(s, x)
    /\ \A s, r \in spans : \A x \in Nat : On(s, x) /\ On(r, x) => s = r

\* The numbers into which a side is cut divide it.
LEMMA SideCut ==
    ASSUME NEW cuts \in SUBSET Nat, NEW a \in Nat, NEW b \in Nat, a < b
    PROVE  SideParts(SpansOf(Cut(<<a, b>>, cuts)), a, b, cuts)
<1> DEFINE all == Cut(<<a, b>>, cuts)
<1>1. /\ all \in SUBSET Nat /\ a \in all /\ b \in all /\ \A c \in all : a <= c /\ c <= b
      /\ \A c \in cuts : c \in all \/ c <= a \/ b <= c
  <2>1. all = {c \in cuts : a < c /\ c < b} \cup {a, b}
    BY DEF Cut
  <2> HIDE DEF all
  <2>2. \A c \in cuts : c \in Nat
    OBVIOUS
  <2>3. \A c \in all : c \in Nat /\ a <= c /\ c <= b
    BY <2>1, <2>2
  <2>4. \A c \in cuts : c \in all \/ c <= a \/ b <= c
    BY <2>1, <2>2
  <2>5. all \in SUBSET Nat /\ a \in all /\ b \in all
    BY <2>1, <2>3
  <2> QED
    BY <2>3, <2>4, <2>5
<1> HIDE DEF all
<1>2. ASSUME NEW s \in SpansOf(all)
      PROVE  /\ s = <<s[1], s[2]>> /\ s[1] \in Nat /\ s[2] \in Nat
             /\ a <= s[1] /\ s[1] < s[2] /\ s[2] <= b
             /\ \A c \in cuts : c <= s[1] \/ s[2] <= c
  <2>1. /\ s = <<s[1], s[2]>> /\ s[1] \in all /\ s[2] \in all /\ s[1] < s[2]
        /\ \A c \in all : c <= s[1] \/ s[2] <= c
    BY DEF SpansOf
  <2>2. s[1] \in Nat /\ s[2] \in Nat /\ a <= s[1] /\ s[2] <= b
    BY <2>1, <1>1
  <2>3. ASSUME NEW c \in cuts
        PROVE  c <= s[1] \/ s[2] <= c
    <3>1. c \in Nat
      OBVIOUS
    <3> QED
      BY <3>1, <2>1, <2>2, <1>1
  <2> QED
    BY <2>1, <2>2, <2>3
<1>3. \A x \in Nat : a <= x /\ x < b => \E s \in SpansOf(all) : s[1] <= x /\ x < s[2]
  BY <1>1, SpanExists
<1>4. \A s, r \in SpansOf(all) : \A x \in Nat :
        s[1] <= x /\ x < s[2] /\ r[1] <= x /\ x < r[2] => s = r
  BY <1>1, SpanUnique
<1> QED
  BY <1>2, <1>3, <1>4 DEF all, SideParts, IsSpan, On

\* A subresource of a range by its aspect, layer and level
InBox(range, a, y, m) ==
    /\ range.aspect <= a /\ a < range.aspect + range.aspects
    /\ range.layer <= y /\ y < range.layer + range.layers
    /\ range.level <= m /\ m < range.level + range.levels

\* The cells of a box are where its aspects, layers and levels meet.
LEMMA BoxCells ==
    ASSUME NEW shape, NEW range, IsRange(shape, range), NEW c
    PROVE  c \in IndicesOf(shape, range)
               <=> \E a, y, m \in Nat : InBox(range, a, y, m) /\ c = Index(shape, a, y, m)
<1>1. /\ range.layer \in Nat /\ range.layers \in Nat \ {0} /\ range.level \in Nat
      /\ range.levels \in Nat \ {0} /\ range.aspect \in Nat /\ range.aspects \in Nat \ {0}
  BY DEF IsRange
<1>2. ASSUME c \in IndicesOf(shape, range)
      PROVE  \E a, y, m \in Nat : InBox(range, a, y, m) /\ c = Index(shape, a, y, m)
  <2>1. PICK a \in 0..range.aspects - 1, y \in 0..range.layers - 1, m \in 0..range.levels - 1 :
            c = Index(shape, range.aspect + a, range.layer + y, range.level + m)
    BY <1>2 DEF IndicesOf
  <2>2. /\ range.aspect + a \in Nat /\ range.layer + y \in Nat /\ range.level + m \in Nat
        /\ InBox(range, range.aspect + a, range.layer + y, range.level + m)
    BY <1>1 DEF InBox
  <2> QED
    BY <2>1, <2>2
<1>3. ASSUME NEW a \in Nat, NEW y \in Nat, NEW m \in Nat, InBox(range, a, y, m), c = Index(shape, a, y, m)
      PROVE  c \in IndicesOf(shape, range)
  <2> DEFINE d == a - range.aspect  z == y - range.layer  n == m - range.level
  <2>1. /\ d \in 0..range.aspects - 1 /\ z \in 0..range.layers - 1 /\ n \in 0..range.levels - 1
        /\ range.aspect + d = a /\ range.layer + z = y /\ range.level + n = m
    BY <1>1, <1>3 DEF InBox
  <2> HIDE DEF d, z, n
  <2> QED
    BY <2>1, <1>3 DEF IndicesOf
<1> QED
  BY <1>2, <1>3

\* No two are the same cell.
LEMMA BoxUnique ==
    ASSUME NEW shape, NEW r, IsRange(shape, r), NEW s, IsRange(shape, s),
           NEW a \in Nat, NEW y \in Nat, NEW m \in Nat, InBox(r, a, y, m),
           NEW b \in Nat, NEW z \in Nat, NEW n \in Nat, InBox(s, b, z, n),
           Index(shape, a, y, m) = Index(shape, b, z, n)
    PROVE  a = b /\ y = z /\ m = n
<1> DEFINE all == [layer |-> 0, layers |-> shape.layers, level |-> 0, levels |-> shape.levels,
                   aspect |-> 0, aspects |-> shape.aspects]
<1>1. IsShape(shape) /\ shape.layers \in Nat \ {0} /\ shape.levels \in Nat \ {0} /\ shape.aspects \in Nat \ {0}
  BY DEF IsRange, IsShape
<1>2. IsRange(shape, all)
  BY <1>1 DEF IsRange
<1>3. ASSUME NEW t, IsRange(shape, t), NEW d \in Nat, NEW x \in Nat, NEW k \in Nat, InBox(t, d, x, k)
      PROVE  <<d, x, k>> \in Places(all) /\ Spot(shape, all, <<d, x, k>>) = Index(shape, d, x, k)
  <2>1. /\ t.layer \in Nat /\ t.layers \in Nat \ {0} /\ t.level \in Nat
        /\ t.levels \in Nat \ {0} /\ t.aspect \in Nat /\ t.aspects \in Nat \ {0}
        /\ t.layer + t.layers <= shape.layers
        /\ t.level + t.levels <= shape.levels
        /\ t.aspect + t.aspects <= shape.aspects
    BY <1>3 DEF IsRange
  <2>2. d \in 0..shape.aspects - 1 /\ x \in 0..shape.layers - 1 /\ k \in 0..shape.levels - 1
    BY <2>1, <1>1, <1>3 DEF InBox
  <2>3. 0 + d = d /\ 0 + x = x /\ 0 + k = k
    OBVIOUS
  <2> QED
    BY <2>2, <2>3 DEF Places, Spot
<1>4. /\ <<a, y, m>> \in Places(all) /\ Spot(shape, all, <<a, y, m>>) = Index(shape, a, y, m)
      /\ <<b, z, n>> \in Places(all) /\ Spot(shape, all, <<b, z, n>>) = Index(shape, b, z, n)
  BY <1>3
<1> HIDE DEF all
<1>5. <<a, y, m>> = <<b, z, n>>
  BY <1>2, <1>4, SpotsDiffer
<1> QED
  BY <1>5

\* Ranges that lie in a range, cover it and do not overlap
Divides(k, parts, range) ==
    /\ parts \subseteq RangesOf(k)
    /\ \A p \in parts : Part(k, p) \subseteq Part(k, range)
    /\ \A c \in Part(k, range) : \E p \in parts : c \in Part(k, p)
    /\ \A p, q \in parts : \A c : c \in Part(k, p) /\ c \in Part(k, q) => p = q

\* A range begins and ends at cuts.
Bordered(s, cuts) == \A d \in Dimensions : Sides(s)[d][1] \in cuts[d] /\ Sides(s)[d][2] \in cuts[d]

\* Of such a range the parts are inside or outside.
Uncrossed(parts, s) == \A p \in parts : \A c : c \in CellsOf(p) /\ c \in CellsOf(s) => Covers(s, p)

IsCuts(cuts) == \A d \in Dimensions : cuts[d] \in SUBSET Nat

\* A range of bytes is divided, and no part crosses a range that the cuts border.
LEMMA SplitBytes ==
    ASSUME tracker \in Trackers, IsBuffer, NEW range \in RangesOf(tracker), NEW cuts, IsCuts(cuts)
    PROVE  /\ Divides(tracker, Split(range, cuts), range)
           /\ \A s \in RangesOf(tracker) : Bordered(s, cuts) => Uncrossed(Split(range, cuts), s)
<1> DEFINE a == range[1]  b == range[2]  spans == SpansOf(Cut(<<a, b>>, cuts[1]))
<1>1. Dimensions = {1} /\ cuts[1] \in SUBSET Nat
  BY DEF Dimensions, IsCuts
<1>2. /\ range = <<a, b>> /\ a \in Nat /\ b \in Nat /\ a < b /\ b <= Size
  BY RangeIs
<1>3. \A r : Sides(r) = <<r>> /\ Sides(r)[1] = r
  BY DEF Sides
<1>4. ToSet(range) = {a, b}
  BY <1>2 DEF ToSet
<1>5. Split(range, cuts) = spans
  BY <1>3, <1>4, <1>2 DEF Split, SpansOf, Cut
<1>6. /\ \A s \in spans : /\ s = <<s[1], s[2]>> /\ s[1] \in Nat /\ s[2] \in Nat
                          /\ a <= s[1] /\ s[1] < s[2] /\ s[2] <= b
                          /\ \A c \in cuts[1] : c <= s[1] \/ s[2] <= c
      /\ \A x \in Nat : a <= x /\ x < b => \E s \in spans : s[1] <= x /\ x < s[2]
      /\ \A s, r \in spans : \A x \in Nat :
            s[1] <= x /\ x < s[2] /\ r[1] <= x /\ x < r[2] => s = r
  <2>1. SideParts(spans, a, b, cuts[1])
    <3> HIDE DEF a, b
    <3> QED
      BY <1>1, <1>2, SideCut
  <2> HIDE DEF a, b, spans
  <2> QED
    BY <2>1 DEF SideParts, IsSpan, On
<1> HIDE DEF a, b, spans
<1>7. \A r : Part(tracker, r) = r[1]..r[2] - 1 /\ CellsOf(r) = r[1]..r[2] - 1
  BY Terms DEF Part
<1>8. \A s \in spans : s \in RangesOf(tracker)
  <2>1. \A s \in spans : s[1] \in 0..tracker.size - 1 /\ s[2] \in 1..tracker.size
    <3>1. tracker.size = Size /\ Size \in Nat
      BY TrackerIs
    <3> QED
      BY <3>1, <1>2, <1>6
  <2> QED
    BY <2>1, <1>6 DEF RangesOf, IsBuffer
<1>9. Divides(tracker, spans, range)
  <2>1. \A p \in spans : Part(tracker, p) \subseteq Part(tracker, range)
    BY <1>2, <1>6, <1>7 DEF a, b
  <2>2. ASSUME NEW c \in Part(tracker, range)
        PROVE  \E p \in spans : c \in Part(tracker, p)
    <3>1. c \in Nat /\ a <= c /\ c < b
      BY <1>2, <1>7 DEF a, b
    <3>2. PICK s \in spans : s[1] <= c /\ c < s[2]
      BY <3>1, <1>6
    <3>3. s[1] \in Nat /\ s[2] \in Nat
      BY <1>6
    <3>4. c \in s[1]..s[2] - 1
      BY <3>1, <3>2, <3>3
    <3> QED
      BY <3>4, <1>7
  <2>3. ASSUME NEW p \in spans, NEW q \in spans, NEW c, c \in Part(tracker, p), c \in Part(tracker, q)
        PROVE  p = q
    <3>1. c \in p[1]..p[2] - 1 /\ c \in q[1]..q[2] - 1
      BY <2>3, <1>7
    <3>2. p[1] \in Nat /\ p[2] \in Nat /\ q[1] \in Nat /\ q[2] \in Nat
      BY <1>6
    <3>3. c \in Nat /\ p[1] <= c /\ c < p[2] /\ q[1] <= c /\ c < q[2]
      BY <3>1, <3>2
    <3> QED
      BY <3>3, <1>6
  <2> QED
    BY <2>1, <2>2, <2>3, <1>8 DEF Divides
<1>10. ASSUME NEW s \in RangesOf(tracker), Bordered(s, cuts)
       PROVE  Uncrossed(spans, s)
  <2>1. s[1] \in cuts[1] /\ s[2] \in cuts[1] /\ s[1] \in Nat /\ s[2] \in Nat
    BY <1>1, <1>3, <1>10 DEF Bordered
  <2>2. ASSUME NEW p \in spans, NEW c, c \in CellsOf(p), c \in CellsOf(s)
        PROVE  Covers(s, p)
    <3>1. c \in p[1]..p[2] - 1 /\ c \in s[1]..s[2] - 1
      BY <2>2, <1>7
    <3>2. /\ p[1] \in Nat /\ p[2] \in Nat
          /\ s[1] <= p[1] \/ p[2] <= s[1]
          /\ s[2] <= p[1] \/ p[2] <= s[2]
      BY <2>1, <1>6
    <3>3. s[1] <= p[1] /\ p[2] <= s[2]
      BY <2>1, <3>1, <3>2
    <3> QED
      BY <3>3, <1>1, <1>3 DEF Covers
  <2> QED
    BY <2>2 DEF Uncrossed
<1> QED
  BY <1>5, <1>9, <1>10

\* The box between spans of aspects, layers and levels
Box3(u, v, w) ==
    [aspect |-> u[1], aspects |-> u[2] - u[1], layer |-> v[1], layers |-> v[2] - v[1],
     level |-> w[1], levels |-> w[2] - w[1]]

\* A box of parts of the sides of a range is a range inside it.
LEMMA BoxIs ==
    ASSUME NEW shape, NEW r, IsRange(shape, r), NEW u, NEW v, NEW w,
           IsSpan(u, r.aspect, r.aspect + r.aspects), IsSpan(v, r.layer, r.layer + r.layers),
           IsSpan(w, r.level, r.level + r.levels)
    PROVE  /\ IsRange(shape, Box3(u, v, w))
           /\ \A a, y, m \in Nat : InBox(Box3(u, v, w), a, y, m) <=> On(u, a) /\ On(v, y) /\ On(w, m)
           /\ \A a, y, m \in Nat : InBox(Box3(u, v, w), a, y, m) => InBox(r, a, y, m)
<1> DEFINE p == Box3(u, v, w)
<1>1. /\ IsShape(shape) /\ shape.layers \in Nat \ {0} /\ shape.levels \in Nat \ {0} /\ shape.aspects \in Nat \ {0}
      /\ r.layer \in Nat /\ r.layers \in Nat \ {0} /\ r.level \in Nat
      /\ r.levels \in Nat \ {0} /\ r.aspect \in Nat /\ r.aspects \in Nat \ {0}
      /\ r.layer + r.layers <= shape.layers
      /\ r.level + r.levels <= shape.levels
      /\ r.aspect + r.aspects <= shape.aspects
  BY DEF IsRange, IsShape
<1>2. /\ p.aspect = u[1] /\ p.aspects = u[2] - u[1] /\ p.layer = v[1] /\ p.layers = v[2] - v[1]
      /\ p.level = w[1] /\ p.levels = w[2] - w[1]
      /\ p = [layer |-> p.layer, layers |-> p.layers, level |-> p.level, levels |-> p.levels,
              aspect |-> p.aspect, aspects |-> p.aspects]
  BY DEF Box3
<1> HIDE DEF p
<1>3. /\ u[1] \in Nat /\ u[2] \in Nat /\ r.aspect <= u[1] /\ u[1] < u[2] /\ u[2] <= r.aspect + r.aspects
      /\ v[1] \in Nat /\ v[2] \in Nat /\ r.layer <= v[1] /\ v[1] < v[2] /\ v[2] <= r.layer + r.layers
      /\ w[1] \in Nat /\ w[2] \in Nat /\ r.level <= w[1] /\ w[1] < w[2] /\ w[2] <= r.level + r.levels
  BY DEF IsSpan
<1>4. /\ p.aspect + p.aspects = u[2] /\ p.layer + p.layers = v[2] /\ p.level + p.levels = w[2]
      /\ p.aspect \in Nat /\ p.aspects \in Nat \ {0} /\ p.layer \in Nat /\ p.layers \in Nat \ {0}
      /\ p.level \in Nat /\ p.levels \in Nat \ {0}
  BY <1>2, <1>3
<1>5. /\ p.layer + p.layers <= shape.layers
      /\ p.level + p.levels <= shape.levels
      /\ p.aspect + p.aspects <= shape.aspects
  BY <1>1, <1>3, <1>4
<1>6. p \in [layer : Nat, layers : Nat \ {0}, level : Nat, levels : Nat \ {0},
             aspect : Nat, aspects : Nat \ {0}]
  BY <1>2, <1>4
<1>7. IsRange(shape, p)
  BY <1>1, <1>5, <1>6 DEF IsRange
<1>8. ASSUME NEW a \in Nat, NEW y \in Nat, NEW m \in Nat
      PROVE  InBox(p, a, y, m) <=> On(u, a) /\ On(v, y) /\ On(w, m)
  BY <1>2, <1>4 DEF InBox, On
<1>9. ASSUME NEW a \in Nat, NEW y \in Nat, NEW m \in Nat, InBox(p, a, y, m)
      PROVE  InBox(r, a, y, m)
  BY <1>1, <1>2, <1>3, <1>4, <1>9 DEF InBox
<1> QED
  BY <1>7, <1>8, <1>9 DEF p

\* What the model calls the parts of an image
LEMMA ImageIs ==
    ASSUME tracker \in Trackers, ~IsBuffer
    PROVE  /\ IsShape(tracker.shape) /\ Dimensions = {1, 2, 3}
           /\ \A r : r \in RangesOf(tracker) <=> IsRange(tracker.shape, r)
           /\ \A r : CellsOf(r) = IndicesOf(tracker.shape, r) /\ Part(tracker, r) = IndicesOf(tracker.shape, r)
           /\ \A r : /\ Sides(r)[1] = <<r.aspect, r.aspect + r.aspects>>
                     /\ Sides(r)[2] = <<r.layer, r.layer + r.layers>>
                     /\ Sides(r)[3] = <<r.level, r.level + r.levels>>
           /\ \A u, v, w : RangeOf(<<u, v, w>>) = Box3(u, v, w)
<1>1. IsShape(tracker.shape)
  BY TrackerIs
<1>2. tracker.of # "buffer"
  BY DEF IsBuffer
<1>3. Dimensions = {1, 2, 3}
  BY DEF Dimensions
<1>4. \A r : r \in RangesOf(tracker) <=> IsRange(tracker.shape, r)
  BY <1>1, <1>2 DEF RangesOf, IsRange
<1>5. \A r : CellsOf(r) = IndicesOf(tracker.shape, r) /\ Part(tracker, r) = IndicesOf(tracker.shape, r)
  BY <1>2 DEF CellsOf, Part
<1>6. \A r : /\ Sides(r)[1] = <<r.aspect, r.aspect + r.aspects>>
             /\ Sides(r)[2] = <<r.layer, r.layer + r.layers>>
             /\ Sides(r)[3] = <<r.level, r.level + r.levels>>
  BY DEF Sides
<1>7. \A u, v, w : RangeOf(<<u, v, w>>) = Box3(u, v, w)
  BY DEF RangeOf, Box3
<1> QED
  BY <1>1, <1>3, <1>4, <1>5, <1>6, <1>7

Boxes(A, B, C) == {RangeOf(<<u, v, w>>) : u \in A, v \in B, w \in C}
Boxes3(A, B, C) == {Box3(u, v, w) : u \in A, v \in B, w \in C}

\* Two ways to name the boxes of three sets of sides
LEMMA BoxesAre ==
    ASSUME ~IsBuffer, NEW A, NEW B, NEW C
    PROVE  Boxes(A, B, C) = Boxes3(A, B, C)
BY DEF RangeOf, Box3, Boxes, Boxes3

\* A box is divided likewise.
LEMMA SplitBoxes ==
    ASSUME tracker \in Trackers, ~IsBuffer, NEW range \in RangesOf(tracker), NEW cuts, IsCuts(cuts)
    PROVE  /\ Divides(tracker, Split(range, cuts), range)
           /\ \A s \in RangesOf(tracker) : Bordered(s, cuts) => Uncrossed(Split(range, cuts), s)
<1> DEFINE shape == tracker.shape
           e1 == range.aspect  f1 == range.aspect + range.aspects
           e2 == range.layer  f2 == range.layer + range.layers
           e3 == range.level  f3 == range.level + range.levels
           S1 == SpansOf(Cut(<<e1, f1>>, cuts[1]))
           S2 == SpansOf(Cut(<<e2, f2>>, cuts[2]))
           S3 == SpansOf(Cut(<<e3, f3>>, cuts[3]))
           parts == {Box3(u, v, w) : u \in S1, v \in S2, w \in S3}
<1>1. /\ Dimensions = {1, 2, 3}
      /\ \A r : r \in RangesOf(tracker) <=> IsRange(shape, r)
      /\ \A r : CellsOf(r) = IndicesOf(shape, r) /\ Part(tracker, r) = IndicesOf(shape, r)
      /\ \A r : /\ Sides(r)[1] = <<r.aspect, r.aspect + r.aspects>>
                /\ Sides(r)[2] = <<r.layer, r.layer + r.layers>>
                /\ Sides(r)[3] = <<r.level, r.level + r.levels>>
      /\ \A u, v, w : RangeOf(<<u, v, w>>) = Box3(u, v, w)
  BY ImageIs
<1>2. cuts[1] \in SUBSET Nat /\ cuts[2] \in SUBSET Nat /\ cuts[3] \in SUBSET Nat
  BY <1>1 DEF IsCuts
<1>3. IsRange(shape, range)
  BY <1>1
<1>4. /\ e1 \in Nat /\ f1 \in Nat /\ e1 < f1 /\ e2 \in Nat /\ f2 \in Nat /\ e2 < f2
      /\ e3 \in Nat /\ f3 \in Nat /\ e3 < f3
  BY <1>3 DEF IsRange
<1>5. Split(range, cuts) = parts
  <2>1. \A x, y : ToSet(<<x, y>>) = {x, y}
    BY DEF ToSet
  <2> DEFINE all(d) == {c \in cuts[d] : Sides(range)[d][1] < c /\ c < Sides(range)[d][2]}
                            \cup ToSet(Sides(range)[d])
             Spans(d) == {s \in all(d) \X all(d) : s[1] < s[2] /\ \A c \in all(d) : c <= s[1] \/ s[2] <= c}
  <2>2. Split(range, cuts) = Boxes(Spans(1), Spans(2), Spans(3))
    BY DEF Split, Boxes
  <2>3. /\ all(1) = Cut(<<e1, f1>>, cuts[1]) /\ all(2) = Cut(<<e2, f2>>, cuts[2])
        /\ all(3) = Cut(<<e3, f3>>, cuts[3])
    BY <1>1, <2>1, ZenonT(60) DEF Cut
  <2>4. \A d : Spans(d) = SpansOf(all(d))
    BY DEF SpansOf
  <2> HIDE DEF all, Spans
  <2>5. Spans(1) = S1 /\ Spans(2) = S2 /\ Spans(3) = S3
    BY <2>3, <2>4
  <2> HIDE DEF S1, S2, S3
  <2>6. Boxes(S1, S2, S3) = Boxes3(S1, S2, S3)
    BY BoxesAre
  <2> QED
    BY <2>2, <2>5, <2>6 DEF Boxes3
<1>6. /\ \A s \in S1 : IsSpan(s, e1, f1) /\ \A c \in cuts[1] : c <= s[1] \/ s[2] <= c
      /\ \A x \in Nat : e1 <= x /\ x < f1 => \E s \in S1 : On(s, x)
      /\ \A s, r \in S1 : \A x \in Nat : On(s, x) /\ On(r, x) => s = r
  <2>1. SideParts(S1, e1, f1, cuts[1])
    <3> HIDE DEF e1, f1
    <3> QED
      BY <1>2, <1>4, SideCut
  <2> HIDE DEF S1, e1, f1
  <2> QED
    BY <2>1 DEF SideParts
<1>7. /\ \A s \in S2 : IsSpan(s, e2, f2) /\ \A c \in cuts[2] : c <= s[1] \/ s[2] <= c
      /\ \A x \in Nat : e2 <= x /\ x < f2 => \E s \in S2 : On(s, x)
      /\ \A s, r \in S2 : \A x \in Nat : On(s, x) /\ On(r, x) => s = r
  <2>1. SideParts(S2, e2, f2, cuts[2])
    <3> HIDE DEF e2, f2
    <3> QED
      BY <1>2, <1>4, SideCut
  <2> HIDE DEF S2, e2, f2
  <2> QED
    BY <2>1 DEF SideParts
<1>8. /\ \A s \in S3 : IsSpan(s, e3, f3) /\ \A c \in cuts[3] : c <= s[1] \/ s[2] <= c
      /\ \A x \in Nat : e3 <= x /\ x < f3 => \E s \in S3 : On(s, x)
      /\ \A s, r \in S3 : \A x \in Nat : On(s, x) /\ On(r, x) => s = r
  <2>1. SideParts(S3, e3, f3, cuts[3])
    <3> HIDE DEF e3, f3
    <3> QED
      BY <1>2, <1>4, SideCut
  <2> HIDE DEF S3, e3, f3
  <2> QED
    BY <2>1 DEF SideParts
<1> HIDE DEF S1, S2, S3
<1>9. ASSUME NEW u \in S1, NEW v \in S2, NEW w \in S3
      PROVE  /\ IsRange(shape, Box3(u, v, w))
             /\ \A a, y, m \in Nat : InBox(Box3(u, v, w), a, y, m) <=> On(u, a) /\ On(v, y) /\ On(w, m)
             /\ \A a, y, m \in Nat : InBox(Box3(u, v, w), a, y, m) => InBox(range, a, y, m)
  <2>1. IsSpan(u, e1, f1) /\ IsSpan(v, e2, f2) /\ IsSpan(w, e3, f3)
    BY <1>6, <1>7, <1>8
  <2> QED
    BY <2>1, <1>3, BoxIs
<1>10. \A a, y, m \in Nat : InBox(range, a, y, m)
            <=> e1 <= a /\ a < f1 /\ e2 <= y /\ y < f2 /\ e3 <= m /\ m < f3
  BY DEF InBox
<1> HIDE DEF e1, e2, e3, f1, f2, f3, shape
<1>11. Divides(tracker, parts, range)
  <2>1. ASSUME NEW p \in parts
        PROVE  p \in RangesOf(tracker)
    <3>1. PICK u \in S1, v \in S2, w \in S3 : p = Box3(u, v, w)
      OBVIOUS
    <3> HIDE DEF parts
    <3> QED
      BY <3>1, <1>1, <1>9
  <2>2. ASSUME NEW p \in parts, NEW c \in Part(tracker, p)
        PROVE  c \in Part(tracker, range)
    <3>1. PICK u \in S1, v \in S2, w \in S3 : p = Box3(u, v, w)
      OBVIOUS
    <3>2. IsRange(shape, p) /\ \A a, y, m \in Nat : InBox(p, a, y, m) => InBox(range, a, y, m)
      BY <3>1, <1>9
    <3>3. c \in IndicesOf(shape, p)
      BY <1>1
    <3>4. PICK a \in Nat, y \in Nat, m \in Nat : InBox(p, a, y, m) /\ c = Index(shape, a, y, m)
      BY <3>2, <3>3, BoxCells
    <3>5. c \in IndicesOf(shape, range)
      BY <3>2, <3>4, <1>3, BoxCells
    <3> QED
      BY <3>5, <1>1
  <2>3. ASSUME NEW c \in Part(tracker, range)
        PROVE  \E p \in parts : c \in Part(tracker, p)
    <3>1. c \in IndicesOf(shape, range)
      BY <1>1
    <3>2. PICK a \in Nat, y \in Nat, m \in Nat : InBox(range, a, y, m) /\ c = Index(shape, a, y, m)
      BY <3>1, <1>3, BoxCells
    <3>3. PICK u \in S1 : On(u, a)
      BY <3>2, <1>6, <1>10
    <3>4. PICK v \in S2 : On(v, y)
      BY <3>2, <1>7, <1>10
    <3>5. PICK w \in S3 : On(w, m)
      BY <3>2, <1>8, <1>10
    <3> DEFINE p == Box3(u, v, w)
    <3>6. IsRange(shape, p) /\ InBox(p, a, y, m)
      BY <3>3, <3>4, <3>5, <1>9
    <3>7. p \in parts
      OBVIOUS
    <3> HIDE DEF p, parts
    <3>8. c \in IndicesOf(shape, p)
      BY <3>2, <3>6, BoxCells
    <3> QED
      BY <3>7, <3>8, <1>1
  <2>4. ASSUME NEW p \in parts, NEW q \in parts, NEW c, c \in Part(tracker, p), c \in Part(tracker, q)
        PROVE  p = q
    <3>1. PICK u \in S1, v \in S2, w \in S3 : p = Box3(u, v, w)
      OBVIOUS
    <3>2. PICK u2 \in S1, v2 \in S2, w2 \in S3 : q = Box3(u2, v2, w2)
      OBVIOUS
    <3>3. IsRange(shape, p) /\ \A a, y, m \in Nat : InBox(p, a, y, m) <=> On(u, a) /\ On(v, y) /\ On(w, m)
      BY <3>1, <1>9
    <3>4. IsRange(shape, q) /\ \A a, y, m \in Nat : InBox(q, a, y, m) <=> On(u2, a) /\ On(v2, y) /\ On(w2, m)
      BY <3>2, <1>9
    <3>5. c \in IndicesOf(shape, p) /\ c \in IndicesOf(shape, q)
      BY <2>4, <1>1
    <3>6. PICK a \in Nat, y \in Nat, m \in Nat : InBox(p, a, y, m) /\ c = Index(shape, a, y, m)
      BY <3>3, <3>5, BoxCells
    <3>7. PICK b \in Nat, z \in Nat, n \in Nat : InBox(q, b, z, n) /\ c = Index(shape, b, z, n)
      BY <3>4, <3>5, BoxCells
    <3>8. a = b /\ y = z /\ m = n
      <4>1. IsRange(shape, p) /\ IsRange(shape, q) /\ Index(shape, a, y, m) = Index(shape, b, z, n)
        BY <3>3, <3>4, <3>6, <3>7
      <4> HIDE DEF parts
      <4> QED
        BY <4>1, <3>6, <3>7, BoxUnique
    <3>9. On(u, a) /\ On(u2, a) /\ On(v, y) /\ On(v2, y) /\ On(w, m) /\ On(w2, m)
      BY <3>3, <3>4, <3>6, <3>7, <3>8
    <3>10. u = u2 /\ v = v2 /\ w = w2
      BY <3>9, <1>6, <1>7, <1>8
    <3> QED
      BY <3>1, <3>2, <3>10
  <2> HIDE DEF parts
  <2> QED
    BY <2>1, <2>2, <2>3, <2>4 DEF Divides
<1>12. ASSUME NEW s \in RangesOf(tracker), Bordered(s, cuts)
       PROVE  Uncrossed(parts, s)
  <2>1. /\ s.aspect \in cuts[1] /\ s.aspect + s.aspects \in cuts[1]
        /\ s.layer \in cuts[2] /\ s.layer + s.layers \in cuts[2]
        /\ s.level \in cuts[3] /\ s.level + s.levels \in cuts[3]
    <3>1. \A d \in {1, 2, 3} : Sides(s)[d][1] \in cuts[d] /\ Sides(s)[d][2] \in cuts[d]
      BY <1>1, <1>12 DEF Bordered
    <3>2. /\ Sides(s)[1][1] \in cuts[1] /\ Sides(s)[1][2] \in cuts[1]
          /\ Sides(s)[2][1] \in cuts[2] /\ Sides(s)[2][2] \in cuts[2]
          /\ Sides(s)[3][1] \in cuts[3] /\ Sides(s)[3][2] \in cuts[3]
      BY <3>1
    <3> QED
      BY <3>2, <1>1
  <2>2. ASSUME NEW p \in parts, NEW c, c \in CellsOf(p), c \in CellsOf(s)
        PROVE  Covers(s, p)
    <3>1. PICK u \in S1, v \in S2, w \in S3 : p = Box3(u, v, w)
      OBVIOUS
    <3>2. IsRange(shape, p) /\ \A a, y, m \in Nat : InBox(p, a, y, m) <=> On(u, a) /\ On(v, y) /\ On(w, m)
      BY <3>1, <1>9
    <3>3. c \in IndicesOf(shape, p) /\ c \in IndicesOf(shape, s) /\ IsRange(shape, s)
      BY <2>2, <1>1
    <3>4. PICK a \in Nat, y \in Nat, m \in Nat : InBox(p, a, y, m) /\ c = Index(shape, a, y, m)
      BY <3>2, <3>3, BoxCells
    <3>5. PICK b \in Nat, z \in Nat, n \in Nat : InBox(s, b, z, n) /\ c = Index(shape, b, z, n)
      BY <3>3, BoxCells
    <3>6. a = b /\ y = z /\ m = n
      <4>1. IsRange(shape, p) /\ IsRange(shape, s) /\ Index(shape, a, y, m) = Index(shape, b, z, n)
        BY <3>2, <3>3, <3>4, <3>5
      <4> HIDE DEF parts
      <4> QED
        BY <4>1, <3>4, <3>5, BoxUnique
    <3>7. /\ s.aspect <= a /\ a < s.aspect + s.aspects /\ s.layer <= y /\ y < s.layer + s.layers
          /\ s.level <= m /\ m < s.level + s.levels
      BY <3>5, <3>6 DEF InBox
    <3>8. On(u, a) /\ On(v, y) /\ On(w, m)
      BY <3>2, <3>4
    <3>9. ASSUME NEW t, NEW x \in Nat, NEW e \in Nat, NEW f \in Nat, NEW cs \in SUBSET Nat,
                 t[1] \in Nat, t[2] \in Nat, \A d \in cs : d <= t[1] \/ t[2] <= d,
                 On(t, x), e \in cs, f \in cs, e <= x, x < f
          PROVE  e <= t[1] /\ t[2] <= f
      <4>1. (e <= t[1] \/ t[2] <= e) /\ (f <= t[1] \/ t[2] <= f)
        BY <3>9
      <4> QED
        BY <4>1, <3>9 DEF On
    <3>10. s.aspect <= u[1] /\ u[2] <= s.aspect + s.aspects
      <4>1. /\ u[1] \in Nat /\ u[2] \in Nat /\ s.aspect \in Nat /\ s.aspect + s.aspects \in Nat
            /\ \A d \in cuts[1] : d <= u[1] \/ u[2] <= d
        BY <1>2, <1>6, <2>1 DEF IsSpan
      <4> QED
        BY <4>1, <3>9, <3>7, <3>8, <2>1, <1>2
    <3>11. s.layer <= v[1] /\ v[2] <= s.layer + s.layers
      <4>1. /\ v[1] \in Nat /\ v[2] \in Nat /\ s.layer \in Nat /\ s.layer + s.layers \in Nat
            /\ \A d \in cuts[2] : d <= v[1] \/ v[2] <= d
        BY <1>2, <1>7, <2>1 DEF IsSpan
      <4> QED
        BY <4>1, <3>9, <3>7, <3>8, <2>1, <1>2
    <3>12. s.level <= w[1] /\ w[2] <= s.level + s.levels
      <4>1. /\ w[1] \in Nat /\ w[2] \in Nat /\ s.level \in Nat /\ s.level + s.levels \in Nat
            /\ \A d \in cuts[3] : d <= w[1] \/ w[2] <= d
        BY <1>2, <1>8, <2>1 DEF IsSpan
      <4> QED
        BY <4>1, <3>9, <3>7, <3>8, <2>1, <1>2
    <3>13. /\ p.aspect = u[1] /\ p.aspect + p.aspects = u[2] /\ p.layer = v[1] /\ p.layer + p.layers = v[2]
           /\ p.level = w[1] /\ p.level + p.levels = w[2]
      <4>1. /\ u[1] \in Nat /\ u[2] \in Nat /\ v[1] \in Nat /\ v[2] \in Nat /\ w[1] \in Nat /\ w[2] \in Nat
        BY <1>6, <1>7, <1>8 DEF IsSpan
      <4> QED
        BY <4>1, <3>1 DEF Box3
    <3> HIDE DEF parts
    <3>14. /\ Sides(s)[1][1] <= Sides(p)[1][1] /\ Sides(p)[1][2] <= Sides(s)[1][2]
           /\ Sides(s)[2][1] <= Sides(p)[2][1] /\ Sides(p)[2][2] <= Sides(s)[2][2]
           /\ Sides(s)[3][1] <= Sides(p)[3][1] /\ Sides(p)[3][2] <= Sides(s)[3][2]
      BY <1>1, <3>10, <3>11, <3>12, <3>13
    <3> QED
      BY <1>1, <3>14 DEF Covers
  <2> HIDE DEF parts
  <2> QED
    BY <2>2 DEF Uncrossed
<1> HIDE DEF parts
<1> QED
  BY <1>5, <1>11, <1>12

\* Cuts divide a range, and cross no range that begins and ends at some of them.
LEMMA SplitParts ==
    ASSUME tracker \in Trackers, NEW range \in RangesOf(tracker), NEW cuts, IsCuts(cuts)
    PROVE  /\ Divides(tracker, Split(range, cuts), range)
           /\ \A s \in RangesOf(tracker) : Bordered(s, cuts) => Uncrossed(Split(range, cuts), s)
<1>1. CASE IsBuffer
  BY <1>1, SplitBytes
<1>2. CASE ~IsBuffer
  BY <1>2, SplitBoxes
<1> QED
  BY <1>1, <1>2

\* Two sides that reach into each other have something in common.
LEMMA SidesMeet ==
    ASSUME NEW a \in Nat, NEW b \in Nat, NEW c \in Nat, NEW d \in Nat, a < b, c < d
    PROVE  (a < d /\ c < b) <=> \E x \in Nat : a <= x /\ x < b /\ c <= x /\ x < d
<1>1. ASSUME a < d, c < b
      PROVE  \E x \in Nat : a <= x /\ x < b /\ c <= x /\ x < d
  <2>1. CASE a <= c
    BY <1>1, <2>1
  <2>2. CASE c <= a
    BY <1>1, <2>2
  <2> QED
    BY <2>1, <2>2
<1> QED
  BY <1>1

\* A range has a cell, and has the cells of the ranges that it covers; ranges intersect where
\* they share a cell.
Shared(k, r, s) == \E c \in Part(k, r) : c \in Part(k, s)

\* Ranges of bytes intersect if they share a byte.
LEMMA BytesShared ==
    ASSUME tracker \in Trackers, IsBuffer, NEW r \in RangesOf(tracker), NEW s \in RangesOf(tracker)
    PROVE  /\ Part(tracker, r) # {}
           /\ Covers(r, s) => Part(tracker, s) \subseteq Part(tracker, r)
           /\ Intersects(r, s) <=> Shared(tracker, r, s)
<1>1. /\ r[1] \in Nat /\ r[2] \in Nat /\ r[1] < r[2]
      /\ s[1] \in Nat /\ s[2] \in Nat /\ s[1] < s[2]
  BY RangeIs
<1>2. Part(tracker, r) = r[1]..r[2] - 1 /\ Part(tracker, s) = s[1]..s[2] - 1
  BY Terms DEF Part
<1>3. Dimensions = {1} /\ Sides(r)[1] = r /\ Sides(s)[1] = s
  BY DEF Dimensions, Sides
<1>4. r[1] \in Part(tracker, r)
  BY <1>1, <1>2
<1>5. ASSUME Covers(r, s)
      PROVE  Part(tracker, s) \subseteq Part(tracker, r)
  <2>1. r[1] <= s[1] /\ s[2] <= r[2]
    BY <1>3, <1>5 DEF Covers
  <2> QED
    BY <1>1, <1>2, <2>1
<1>6. Intersects(r, s) <=> r[1] < s[2] /\ s[1] < r[2]
  BY <1>3 DEF Intersects
<1>7. Intersects(r, s) <=> \E x \in Nat : r[1] <= x /\ x < r[2] /\ s[1] <= x /\ x < s[2]
  <2>1. (r[1] < s[2] /\ s[1] < r[2]) <=> \E x \in Nat : r[1] <= x /\ x < r[2] /\ s[1] <= x /\ x < s[2]
    BY <1>1, SidesMeet
  <2> QED
    BY <1>6, <2>1
<1>8. \A x : x \in Part(tracker, r) <=> x \in Nat /\ r[1] <= x /\ x < r[2]
  BY <1>1, <1>2
<1>9. \A x : x \in Part(tracker, s) <=> x \in Nat /\ s[1] <= x /\ x < s[2]
  BY <1>1, <1>2
<1>10. Intersects(r, s) <=> Shared(tracker, r, s)
  BY <1>7, <1>8, <1>9 DEF Shared
<1> QED
  BY <1>4, <1>5, <1>10

\* Boxes intersect if they share a subresource.
LEMMA BoxesShared ==
    ASSUME tracker \in Trackers, ~IsBuffer, NEW r \in RangesOf(tracker), NEW s \in RangesOf(tracker)
    PROVE  /\ Part(tracker, r) # {}
           /\ Covers(r, s) => Part(tracker, s) \subseteq Part(tracker, r)
           /\ Intersects(r, s) <=> Shared(tracker, r, s)
<1> DEFINE shape == tracker.shape
<1>1. /\ Dimensions = {1, 2, 3} /\ IsRange(shape, r) /\ IsRange(shape, s)
      /\ Part(tracker, r) = IndicesOf(shape, r) /\ Part(tracker, s) = IndicesOf(shape, s)
  BY ImageIs
<1>2. /\ Sides(r)[1] = <<r.aspect, r.aspect + r.aspects>> /\ Sides(s)[1] = <<s.aspect, s.aspect + s.aspects>>
      /\ Sides(r)[2] = <<r.layer, r.layer + r.layers>> /\ Sides(s)[2] = <<s.layer, s.layer + s.layers>>
      /\ Sides(r)[3] = <<r.level, r.level + r.levels>> /\ Sides(s)[3] = <<s.level, s.level + s.levels>>
  BY ImageIs
<1> HIDE DEF shape
<1>3. /\ r.aspect \in Nat /\ r.aspect + r.aspects \in Nat /\ r.aspect < r.aspect + r.aspects
      /\ r.layer \in Nat /\ r.layer + r.layers \in Nat /\ r.layer < r.layer + r.layers
      /\ r.level \in Nat /\ r.level + r.levels \in Nat /\ r.level < r.level + r.levels
  BY <1>1 DEF IsRange
<1>4. /\ s.aspect \in Nat /\ s.aspect + s.aspects \in Nat /\ s.aspect < s.aspect + s.aspects
      /\ s.layer \in Nat /\ s.layer + s.layers \in Nat /\ s.layer < s.layer + s.layers
      /\ s.level \in Nat /\ s.level + s.levels \in Nat /\ s.level < s.level + s.levels
  BY <1>1 DEF IsRange
<1>5. /\ \A c : c \in Part(tracker, r) <=> \E a, y, m \in Nat : InBox(r, a, y, m) /\ c = Index(shape, a, y, m)
      /\ \A c : c \in Part(tracker, s) <=> \E a, y, m \in Nat : InBox(s, a, y, m) /\ c = Index(shape, a, y, m)
  BY <1>1, BoxCells
<1>6. Part(tracker, r) # {}
  <2>1. InBox(r, r.aspect, r.layer, r.level)
    BY <1>3 DEF InBox
  <2>2. Index(shape, r.aspect, r.layer, r.level) \in Part(tracker, r)
    BY <2>1, <1>3, <1>5
  <2> QED
    BY <2>2
<1>7. ASSUME Covers(r, s)
      PROVE  Part(tracker, s) \subseteq Part(tracker, r)
  <2>1. /\ r.aspect <= s.aspect /\ s.aspect + s.aspects <= r.aspect + r.aspects
        /\ r.layer <= s.layer /\ s.layer + s.layers <= r.layer + r.layers
        /\ r.level <= s.level /\ s.level + s.levels <= r.level + r.levels
    BY <1>1, <1>2, <1>7 DEF Covers
  <2>2. \A a, y, m \in Nat : InBox(s, a, y, m) => InBox(r, a, y, m)
    BY <2>1, <1>3, <1>4 DEF InBox
  <2> QED
    BY <2>2, <1>5
<1>8. Intersects(r, s) <=> /\ r.aspect < s.aspect + s.aspects /\ s.aspect < r.aspect + r.aspects
                           /\ r.layer < s.layer + s.layers /\ s.layer < r.layer + r.layers
                           /\ r.level < s.level + s.levels /\ s.level < r.level + r.levels
  <2>1. Intersects(r, s) <=> /\ Sides(r)[1][1] < Sides(s)[1][2] /\ Sides(s)[1][1] < Sides(r)[1][2]
                             /\ Sides(r)[2][1] < Sides(s)[2][2] /\ Sides(s)[2][1] < Sides(r)[2][2]
                             /\ Sides(r)[3][1] < Sides(s)[3][2] /\ Sides(s)[3][1] < Sides(r)[3][2]
    BY <1>1 DEF Intersects
  <2> QED
    BY <1>2, <2>1
<1>9. Intersects(r, s) <=> \E a, y, m \in Nat : InBox(r, a, y, m) /\ InBox(s, a, y, m)
  <2>1. (r.aspect < s.aspect + s.aspects /\ s.aspect < r.aspect + r.aspects)
            <=> \E x \in Nat : r.aspect <= x /\ x < r.aspect + r.aspects /\ s.aspect <= x /\ x < s.aspect + s.aspects
    BY <1>3, <1>4, SidesMeet
  <2>2. (r.layer < s.layer + s.layers /\ s.layer < r.layer + r.layers)
            <=> \E x \in Nat : r.layer <= x /\ x < r.layer + r.layers /\ s.layer <= x /\ x < s.layer + s.layers
    BY <1>3, <1>4, SidesMeet
  <2>3. (r.level < s.level + s.levels /\ s.level < r.level + r.levels)
            <=> \E x \in Nat : r.level <= x /\ x < r.level + r.levels /\ s.level <= x /\ x < s.level + s.levels
    BY <1>3, <1>4, SidesMeet
  <2> QED
    BY <1>8, <2>1, <2>2, <2>3, Zenon DEF InBox
<1>10. Intersects(r, s) <=> Shared(tracker, r, s)
  <2>1. ASSUME NEW c \in Part(tracker, r), c \in Part(tracker, s)
        PROVE  \E a, y, m \in Nat : InBox(r, a, y, m) /\ InBox(s, a, y, m)
    <3>1. PICK a \in Nat, y \in Nat, m \in Nat : InBox(r, a, y, m) /\ c = Index(shape, a, y, m)
      BY <1>5
    <3>2. PICK b \in Nat, z \in Nat, n \in Nat : InBox(s, b, z, n) /\ c = Index(shape, b, z, n)
      BY <1>5, <2>1
    <3>3. Index(shape, a, y, m) = Index(shape, b, z, n)
      BY <3>1, <3>2
    <3>4. a = b /\ y = z /\ m = n
      BY <3>1, <3>2, <3>3, <1>1, BoxUnique
    <3> QED
      BY <3>1, <3>2, <3>4
  <2>2. ASSUME NEW a \in Nat, NEW y \in Nat, NEW m \in Nat, InBox(r, a, y, m), InBox(s, a, y, m)
        PROVE  Shared(tracker, r, s)
    <3>1. Index(shape, a, y, m) \in Part(tracker, r) /\ Index(shape, a, y, m) \in Part(tracker, s)
      BY <1>5, <2>2
    <3> QED
      BY <3>1 DEF Shared
  <2> QED
    BY <1>9, <2>1, <2>2 DEF Shared
<1> QED
  BY <1>6, <1>7, <1>10

\* Ranges intersect if they share a cell, and have all cells of what they cover.
LEMMA RangesShare ==
    ASSUME tracker \in Trackers, NEW r \in RangesOf(tracker), NEW s \in RangesOf(tracker)
    PROVE  /\ Part(tracker, r) # {}
           /\ Covers(r, s) => Part(tracker, s) \subseteq Part(tracker, r)
           /\ Intersects(r, s) <=> Shared(tracker, r, s)
<1>1. CASE IsBuffer
  BY <1>1, BytesShared
<1>2. CASE ~IsBuffer
  BY <1>2, BoxesShared
<1> QED
  BY <1>1, <1>2

-----------------------------------------------------------------------------
(* Ranges that cover some cells and do not overlap                          *)

Tiles(k, parts, cells) ==
    /\ parts \subseteq RangesOf(k)
    /\ \A p \in parts : Part(k, p) \subseteq cells
    /\ \A c \in cells : \E p \in parts : c \in Part(k, p)
    /\ \A p, q \in parts : \A c : c \in Part(k, p) /\ c \in Part(k, q) => p = q

\* A range tiles its cells,
LEMMA OneTile ==
    ASSUME NEW k, NEW r \in RangesOf(k)
    PROVE  Tiles(k, {r}, Part(k, r))
BY DEF Tiles

\* and no range tiles none.
LEMMA NoTiles ==
    ASSUME NEW k
    PROVE  Tiles(k, {}, {})
BY DEF Tiles

\* The parts of each of them
LEMMA TilesOfTiles ==
    ASSUME NEW k, NEW parts, NEW cells, Tiles(k, parts, cells), NEW into,
           \A r \in parts : Divides(k, into[r], r)
    PROVE  Tiles(k, UNION {into[r] : r \in parts}, cells)
<1> DEFINE all == UNION {into[r] : r \in parts}
<1>1. /\ parts \subseteq RangesOf(k)
      /\ \A p \in parts : Part(k, p) \subseteq cells
      /\ \A c \in cells : \E p \in parts : c \in Part(k, p)
      /\ \A p, q \in parts : \A c : c \in Part(k, p) /\ c \in Part(k, q) => p = q
  BY DEF Tiles
<1>2. ASSUME NEW r \in parts
      PROVE  /\ into[r] \subseteq RangesOf(k)
             /\ \A p \in into[r] : Part(k, p) \subseteq Part(k, r)
             /\ \A c \in Part(k, r) : \E p \in into[r] : c \in Part(k, p)
             /\ \A p, q \in into[r] : \A c : c \in Part(k, p) /\ c \in Part(k, q) => p = q
  BY DEF Divides
<1>3. \A p : p \in all <=> \E r \in parts : p \in into[r]
  OBVIOUS
<1> HIDE DEF all
<1>4. all \subseteq RangesOf(k)
  BY <1>2, <1>3
<1>5. \A p \in all : Part(k, p) \subseteq cells
  BY <1>1, <1>2, <1>3
<1>6. \A c \in cells : \E p \in all : c \in Part(k, p)
  BY <1>1, <1>2, <1>3
<1>7. ASSUME NEW p \in all, NEW q \in all, NEW c, c \in Part(k, p), c \in Part(k, q)
      PROVE  p = q
  <2>1. PICK r \in parts : p \in into[r]
    BY <1>3
  <2>2. PICK s \in parts : q \in into[s]
    BY <1>3
  <2>3. c \in Part(k, r) /\ c \in Part(k, s)
    BY <2>1, <2>2, <1>2, <1>7
  <2>4. r = s
    BY <2>3, <1>1
  <2> QED
    BY <2>1, <2>2, <2>4, <1>2, <1>7
<1>8. Tiles(k, all, cells)
  BY <1>4, <1>5, <1>6, <1>7 DEF Tiles
<1> QED
  BY <1>8 DEF all

\* Where the map of a resource divides ranges
LEMMA GrainsCut ==
    ASSUME tracker \in Trackers, NEW g \in Grains
    PROVE  IsCuts(g)
<1>1. Size \in Nat
  BY TrackerIs
<1> DEFINE changes == {c \in 1..Size - 1 : tracker.owners[c - 1] # tracker.owners[c]}
           all == 0..Size
<1>2. changes \in SUBSET Nat /\ all \in SUBSET Nat /\ {} \in SUBSET Nat
  BY <1>1
<1>3. Grains = IF IsBuffer THEN {<<changes>>, <<all>>} ELSE {<<all, {}, {}>>, <<all, all, {}>>, <<all, all, all>>}
  BY DEF Grains
<1> HIDE DEF changes, all
<1>4. CASE IsBuffer
  <2>1. g = <<changes>> \/ g = <<all>>
    BY <1>3, <1>4
  <2>2. g[1] = changes \/ g[1] = all
    BY <2>1
  <2>3. g[1] \in SUBSET Nat
    BY <1>2, <2>2
  <2> QED
    BY <1>4, <2>3 DEF IsCuts, Dimensions
<1>5. CASE ~IsBuffer
  <2>1. g = <<all, {}, {}>> \/ g = <<all, all, {}>> \/ g = <<all, all, all>>
    BY <1>3, <1>5
  <2>2. g[1] = all /\ g[2] \in {all, {}} /\ g[3] \in {all, {}}
    BY <2>1
  <2>4. g[1] \in SUBSET Nat /\ g[2] \in SUBSET Nat /\ g[3] \in SUBSET Nat
    BY <1>2, <2>2
  <2>3. Dimensions = {1, 2, 3}
    BY <1>5, ImageIs
  <2> QED
    BY <2>3, <2>4 DEF IsCuts
<1> QED
  BY <1>4, <1>5

\* What the trackers hand out tiles what it is handed out of.
LEMMA SplitTiles ==
    ASSUME tracker \in Trackers, NEW parts, NEW cells, Tiles(tracker, parts, cells), NEW g \in Grains
    PROVE  Tiles(tracker, UNION {Split(r, g) : r \in parts}, cells)
<1> DEFINE into == [r \in parts |-> Split(r, g)]
<1>1. IsCuts(g)
  BY GrainsCut
<1>2. parts \subseteq RangesOf(tracker)
  BY DEF Tiles
<1>3. \A r \in parts : Divides(tracker, into[r], r)
  BY <1>1, <1>2, SplitParts
<1>4. {into[r] : r \in parts} = {Split(r, g) : r \in parts}
  OBVIOUS
<1> HIDE DEF into
<1>5. Tiles(tracker, UNION {into[r] : r \in parts}, cells)
  BY <1>3, TilesOfTiles
<1> QED
  BY <1>4, <1>5

-----------------------------------------------------------------------------
(* The barriers of a range *)

\* A planned transfer covers all of a barrier that it has a cell of.
LEMMA BarriersDivide ==
    ASSUME tracker \in Trackers, NEW range \in RangesOf(tracker), NEW pending,
           \A p \in pending : p.range \in RangesOf(tracker)
    PROVE  /\ Divides(tracker, BarrierRanges(range, pending), range)
           /\ \A p \in pending : Uncrossed(BarrierRanges(range, pending), p.range)
<1> DEFINE overlaps == {p.range : p \in {q \in pending : Intersects(q.range, range)}}
           cuts == [d \in Dimensions |-> UNION {ToSet(Sides(r)[d]) : r \in overlaps}]
<1>1. BarrierRanges(range, pending) = Split(range, cuts)
  BY DEF BarrierRanges
<1>2. overlaps \subseteq RangesOf(tracker)
  OBVIOUS
<1>3. \A p \in pending : Intersects(p.range, range) => p.range \in overlaps
  OBVIOUS
<1>4. ASSUME NEW r \in RangesOf(tracker), NEW d \in Dimensions
      PROVE  /\ Sides(r)[d][1] \in Nat /\ Sides(r)[d][2] \in Nat
             /\ ToSet(Sides(r)[d]) = {Sides(r)[d][1], Sides(r)[d][2]}
  <2>1. \A x, y : ToSet(<<x, y>>) = {x, y}
    BY DEF ToSet
  <2>2. CASE IsBuffer
    <3>1. r = <<r[1], r[2]>> /\ r[1] \in Nat /\ r[2] \in Nat
      BY <2>2, RangeIs
    <3>2. d = 1 /\ Sides(r)[1] = r
      BY <2>2 DEF Dimensions, Sides
    <3>3. ToSet(r) = {r[1], r[2]}
      BY <2>1, <3>1
    <3> QED
      BY <3>1, <3>2, <3>3
  <2>3. CASE ~IsBuffer
    <3>1. d \in {1, 2, 3} /\ IsRange(tracker.shape, r)
      BY <2>3, ImageIs
    <3>2. /\ Sides(r)[1] = <<r.aspect, r.aspect + r.aspects>>
          /\ Sides(r)[2] = <<r.layer, r.layer + r.layers>>
          /\ Sides(r)[3] = <<r.level, r.level + r.levels>>
      BY <2>3, ImageIs
    <3>3. /\ r.aspect \in Nat /\ r.aspect + r.aspects \in Nat /\ r.layer \in Nat /\ r.layer + r.layers \in Nat
          /\ r.level \in Nat /\ r.level + r.levels \in Nat
      BY <3>1 DEF IsRange
    <3>4. PICK x \in Nat, y \in Nat : Sides(r)[d] = <<x, y>>
      BY <3>1, <3>2, <3>3
    <3> QED
      BY <3>4, <2>1
  <2> QED
    BY <2>2, <2>3
<1> HIDE DEF overlaps
<1>5. IsCuts(cuts)
  <2>1. ASSUME NEW d \in Dimensions, NEW x \in cuts[d]
        PROVE  x \in Nat
    <3>1. PICK r \in overlaps : x \in ToSet(Sides(r)[d])
      OBVIOUS
    <3> HIDE DEF cuts
    <3>2. r \in RangesOf(tracker)
      BY <1>2
    <3>3. ToSet(Sides(r)[d]) = {Sides(r)[d][1], Sides(r)[d][2]} /\ Sides(r)[d][1] \in Nat /\ Sides(r)[d][2] \in Nat
      BY <3>2, <1>4
    <3> QED
      BY <3>1, <3>3
  <2> QED
    BY <2>1 DEF IsCuts
<1>6. ASSUME NEW r \in overlaps
      PROVE  Bordered(r, cuts)
  <2>1. ASSUME NEW d \in Dimensions
        PROVE  Sides(r)[d][1] \in cuts[d] /\ Sides(r)[d][2] \in cuts[d]
    <3>1. Sides(r)[d][1] \in ToSet(Sides(r)[d]) /\ Sides(r)[d][2] \in ToSet(Sides(r)[d])
      <4> HIDE DEF cuts
      <4>1. r \in RangesOf(tracker)
        BY <1>2
      <4>2. ToSet(Sides(r)[d]) = {Sides(r)[d][1], Sides(r)[d][2]}
        BY <4>1, <1>4
      <4> QED
        BY <4>2
    <3> QED
      BY <3>1
  <2> QED
    BY <2>1 DEF Bordered
<1> HIDE DEF cuts
<1>7. /\ Divides(tracker, Split(range, cuts), range)
      /\ \A s \in RangesOf(tracker) : Bordered(s, cuts) => Uncrossed(Split(range, cuts), s)
  BY <1>5, SplitParts
<1>8. ASSUME NEW p \in pending
      PROVE  Uncrossed(Split(range, cuts), p.range)
  <2>1. CASE Intersects(p.range, range)
    BY <2>1, <1>2, <1>3, <1>6, <1>7
  <2>2. CASE ~Intersects(p.range, range)
    <3>1. ~Shared(tracker, p.range, range)
      BY <2>2, RangesShare
    <3>2. ASSUME NEW b \in Split(range, cuts), NEW c, c \in CellsOf(b), c \in CellsOf(p.range)
          PROVE  FALSE
      <4>1. c \in Part(tracker, b) /\ c \in Part(tracker, p.range)
        BY <3>2, Terms
      <4>2. c \in Part(tracker, range)
        BY <4>1, <1>7 DEF Divides
      <4> QED
        BY <4>1, <4>2, <3>1 DEF Shared
    <3> QED
      BY <3>2 DEF Uncrossed
  <2> QED
    BY <2>1, <2>2
<1> QED
  BY <1>1, <1>7, <1>8

-----------------------------------------------------------------------------
(* Claims of a buffer *)

\* Ranges that neither share a byte nor touch
Separate(ranges) == \A r, s \in ranges : r = s \/ r[2] < s[1] \/ s[2] < r[1]

\* There is a byte between them, so that n bytes hold at most half of n + 1 of them.
LEMMA HalfAsMany ==
    ASSUME NEW n \in Nat, NEW R, Separate(R),
           \A r \in R : r[1] \in Nat /\ r[2] \in Nat /\ r[1] < r[2] /\ r[2] <= n
    PROVE  IsFiniteSet(R) /\ Cardinality(R) \in Nat /\ 2 * Cardinality(R) <= n + 1
<1> DEFINE A == {r[1] : r \in R}  B == {r[1] + 1 : r \in R}
<1>1. A \subseteq 0..n /\ B \subseteq 0..n
  <2>1. ASSUME NEW r \in R
        PROVE  r[1] \in 0..n /\ r[1] + 1 \in 0..n
    OBVIOUS
  <2> QED
    BY <2>1
<1>2. \A r, s \in R : r[1] = s[1] => r = s
  BY DEF Separate
<1>3. \A r, s \in R : r[1] + 1 = s[1] + 1 => r = s
  BY <1>2
<1>4. A \cap B = {}
  <2>1. ASSUME NEW r \in R, NEW s \in R, r[1] = s[1] + 1
        PROVE  FALSE
    BY <2>1 DEF Separate
  <2> QED
    BY <2>1
<1>5. [r \in R |-> r[1]] \in Injection(R, A)
  BY <1>2 DEF Injection, IsInjective
<1>6. [r \in R |-> r[1] + 1] \in Injection(R, B)
  BY <1>3 DEF Injection, IsInjective
<1>7. IsFiniteSet(0..n) /\ Cardinality(0..n) = n + 1
  BY FS_Interval
<1> HIDE DEF A, B
<1>8. IsFiniteSet(A) /\ IsFiniteSet(B) /\ IsFiniteSet(A \cup B) /\ Cardinality(A \cup B) <= n + 1
  BY <1>1, <1>7, FS_Subset
<1>9. /\ IsFiniteSet(R) /\ Cardinality(R) <= Cardinality(A) /\ Cardinality(R) <= Cardinality(B)
  BY <1>5, <1>6, <1>8, FS_Injection
<1>10. Cardinality(A \cup B) = Cardinality(A) + Cardinality(B) - 0
  BY <1>4, <1>8, FS_Union, FS_EmptySet
<1>11. Cardinality(A) \in Nat /\ Cardinality(B) \in Nat /\ Cardinality(R) \in Nat
  BY <1>8, <1>9, FS_CardinalityType
<1> QED
  BY <1>8, <1>9, <1>10, <1>11

\* Min finds the least of a set of numbers.
LEMMA LeastIs ==
    ASSUME NEW T \in SUBSET Nat, NEW k \in T
    PROVE  Min(T) \in T /\ \A m \in T : Min(T) <= m
BY LeastNat DEF Min

\* A range and those that it touches become one, which is apart from the others.
Touching(ranges, range) == {r \in ranges : range[1] <= r[2] /\ r[1] <= range[2]}
Marks(ranges, range) == {range[1], range[2]} \cup UNION {ToSet(r) : r \in Touching(ranges, range)}
Merged(ranges, range) == <<Min(Marks(ranges, range)), Max(Marks(ranges, range))>>

\* What a claim merges is a range, has the cells of all that it is merged of, and touches no other.
LEMMA MergedIs ==
    ASSUME tracker \in Trackers, IsBuffer, NEW R \in SUBSET RangesOf(tracker), Separate(R),
           NEW range \in RangesOf(tracker)
    PROVE  LET touching == Touching(R, range)
               marks == Marks(R, range)
               merged == Merged(R, range)
           IN  /\ marks \in SUBSET Nat /\ \A r \in touching : r[1] \in marks /\ r[2] \in marks
               /\ merged \in RangesOf(tracker)
               /\ Separate((R \ touching) \cup {merged})
               /\ \A c : c \in Part(tracker, merged)
                    <=> c \in Part(tracker, range) \/ \E r \in touching : c \in Part(tracker, r)
               /\ \A r \in R \ touching : \A c \in Part(tracker, range) : c \notin Part(tracker, r)
<1> DEFINE a == range[1]  b == range[2]
           touching == Touching(R, range)
           marks == Marks(R, range)
           m == Min(marks)  M == Max(marks)  merged == Merged(R, range)
<1>1. a \in Nat /\ b \in Nat /\ a < b /\ b <= Size /\ Size \in Nat /\ tracker.size = Size
  BY RangeIs, TrackerIs
<1>2. \A r \in R : r = <<r[1], r[2]>> /\ r[1] \in Nat /\ r[2] \in Nat /\ r[1] < r[2] /\ r[2] <= Size
  BY RangeIs
<1>3. \A r \in R : r \in touching <=> a <= r[2] /\ r[1] <= b
  BY DEF Touching
<1>4. touching \subseteq R
  BY DEF Touching
<1>5. \A x : x \in marks <=> x = a \/ x = b \/ \E r \in touching : x = r[1] \/ x = r[2]
  <2>1. \A x, y : ToSet(<<x, y>>) = {x, y}
    BY DEF ToSet
  <2>2. \A r \in touching : ToSet(r) = {r[1], r[2]}
    BY <2>1, <1>2, <1>4
  <2> HIDE DEF touching
  <2>3. marks = {a, b} \cup UNION {ToSet(r) : r \in touching}
    BY DEF Marks, touching
  <2> HIDE DEF marks
  <2> QED
    BY <2>2, <2>3
<1>6. \A r \in Nat \X Nat : r[1] < r[2] /\ r[2] <= Size => r \in RangesOf(tracker)
  BY <1>1, Terms DEF RangesOf
<1>7. \A r : Part(tracker, r) = r[1]..r[2] - 1
  BY Terms DEF Part
<1>8. merged = <<m, M>>
  BY DEF Merged
<1> HIDE DEF a, b, touching, marks, merged
<1>9. marks \in SUBSET Nat /\ \A x \in marks : x <= Size
  <2>1. ASSUME NEW x \in marks
        PROVE  x \in Nat /\ x <= Size
    BY <1>1, <1>2, <1>4, <1>5
  <2> QED
    BY <2>1
<1>10. m \in marks /\ M \in marks /\ \A x \in marks : m <= x /\ x <= M
  <2>1. a \in marks
    BY <1>5
  <2> QED
    BY <2>1, <1>1, <1>9, LeastIs, GreatestNat
<1> HIDE DEF m, M
<1>11. m \in Nat /\ M \in Nat /\ m <= a /\ a < M /\ b <= M /\ M <= Size
  <2>1. a \in marks /\ b \in marks
    BY <1>5
  <2> QED
    BY <2>1, <1>1, <1>9, <1>10
<1>12. merged \in RangesOf(tracker) /\ merged[1] = m /\ merged[2] = M
  <2>1. <<m, M>> \in Nat \X Nat /\ <<m, M>>[1] = m /\ <<m, M>>[2] = M /\ m < M
    BY <1>1, <1>11
  <2> QED
    BY <2>1, <1>6, <1>8, <1>11
<1>13. ASSUME NEW r \in R, r \notin touching
       PROVE  r[2] < m \/ M < r[1]
  <2>1. r[2] < a \/ b < r[1]
    BY <1>1, <1>2, <1>3, <1>13
  <2>2. ASSUME NEW s \in touching
        PROVE  (r[2] < a => r[2] < s[1]) /\ (b < r[1] => s[2] < r[1])
    <3>1. s \in R /\ a <= s[2] /\ s[1] <= b
      BY <1>3, <1>4
    <3>2. r[2] < s[1] \/ s[2] < r[1]
      BY <1>13, <3>1 DEF Separate
    <3> QED
      BY <1>1, <1>2, <3>1, <3>2
  <2>3. CASE r[2] < a
    <3>1. \A x \in marks : r[2] < x
      BY <1>1, <1>2, <1>4, <1>5, <2>2, <2>3
    <3> QED
      BY <3>1, <1>10
  <2>4. CASE b < r[1]
    <3>1. \A x \in marks : x < r[1]
      BY <1>1, <1>2, <1>4, <1>5, <2>2, <2>4
    <3> QED
      BY <3>1, <1>10
  <2> QED
    BY <2>1, <2>3, <2>4
<1>14. Separate((R \ touching) \cup {merged})
  BY <1>12, <1>13 DEF Separate
<1>15. ASSUME NEW c \in Nat
       PROVE  (m <= c /\ c < M) <=> (a <= c /\ c < b) \/ \E r \in touching : r[1] <= c /\ c < r[2]
  <2>1. ASSUME NEW r \in touching
        PROVE  m <= r[1] /\ r[2] <= M
    BY <1>5, <1>10
  <2>2. ASSUME NEW r \in touching, r[1] <= c, c < r[2]
        PROVE  m <= c /\ c < M
    BY <2>1, <2>2, <1>2, <1>4, <1>11
  <2>3. ASSUME m <= c, c < M, c < a
        PROVE  \E r \in touching : r[1] <= c /\ c < r[2]
    <3>1. PICK r \in touching : m = r[1] \/ m = r[2]
      <4>1. m # a /\ m # b
        BY <1>1, <1>11, <2>3
      <4> QED
        BY <4>1, <1>5, <1>10
    <3>2. r \in R /\ a <= r[2] /\ r[1] \in Nat /\ r[2] \in Nat
      BY <1>2, <1>3, <1>4
    <3>3. m = r[1]
      BY <3>1, <3>2, <1>1, <1>11, <2>3
    <3> QED
      BY <3>2, <3>3, <2>3, <1>1
  <2>4. ASSUME m <= c, c < M, b <= c
        PROVE  \E r \in touching : r[1] <= c /\ c < r[2]
    <3>1. PICK r \in touching : M = r[1] \/ M = r[2]
      <4>1. M # a /\ M # b
        BY <1>1, <1>11, <2>4
      <4> QED
        BY <4>1, <1>5, <1>10
    <3>2. r \in R /\ r[1] <= b /\ r[1] \in Nat /\ r[2] \in Nat
      BY <1>2, <1>3, <1>4
    <3>3. M = r[2]
      BY <3>1, <3>2, <1>1, <1>11, <2>4
    <3> QED
      BY <3>2, <3>3, <2>4, <1>1
  <2> QED
    BY <2>2, <2>3, <2>4, <1>1, <1>11
<1>16. ASSUME NEW c
       PROVE  c \in Part(tracker, merged)
                <=> c \in Part(tracker, range) \/ \E r \in touching : c \in Part(tracker, r)
  <2>1. c \in Part(tracker, merged) <=> c \in Nat /\ m <= c /\ c < M
    BY <1>7, <1>11, <1>12
  <2>2. c \in Part(tracker, range) <=> c \in Nat /\ a <= c /\ c < b
    BY <1>1, <1>7 DEF a, b
  <2>3. \A r \in touching : c \in Part(tracker, r) <=> c \in Nat /\ r[1] <= c /\ c < r[2]
    BY <1>2, <1>4, <1>7
  <2> QED
    BY <2>1, <2>2, <2>3, <1>15
<1>17. ASSUME NEW r \in R \ touching, NEW c \in Part(tracker, range)
       PROVE  c \notin Part(tracker, r)
  <2>1. c \in Nat /\ a <= c /\ c < b
    BY <1>1, <1>7 DEF a, b
  <2>2. r[2] < a \/ b < r[1]
    BY <1>1, <1>2, <1>3
  <2>3. r[1] \in Nat /\ r[2] \in Nat
    BY <1>2
  <2> QED
    BY <2>1, <2>2, <2>3, <1>1, <1>7
<1>18. \A r \in touching : r[1] \in marks /\ r[2] \in marks
  BY <1>5
<1> QED
  BY <1>9, <1>12, <1>14, <1>16, <1>17, <1>18 DEF touching, marks, merged

-----------------------------------------------------------------------------
(* The forms of claims, and what a claim does                               *)

ClaimedIn(k, claims) ==
    CASE claims.form \in {"ordered", "indexed"} -> UNION {Part(k, r) : r \in claims.ranges}
      [] claims.form = "none" -> {}
      [] claims.form = "whole" -> 0..SizeOf(k) - 1
      [] claims.form = "aspects" -> claims.aspects
      [] claims.form = "dense" -> {c \in 0..SizeOf(k) - 1 : ValueAt(claims.map, c)}

BytesForm(k, claims) ==
    /\ claims.form \in {"ordered", "indexed"}
    /\ claims.ranges \subseteq RangesOf(k) /\ Separate(claims.ranges)
    /\ claims.shifted \in Nat /\ 2 * claims.shifted <= SizeOf(k) + 1

ImageForm(k, claims) ==
    \/ claims.form \in {"none", "whole"}
    \/ claims.form = "aspects" /\ SizeOf(k) = 2 /\ k.shape.aspects = 2 /\ claims.aspects \subseteq {0, 1}
    \/ claims.form = "dense" /\ IsDense(claims.map, BOOLEAN, SizeOf(k))

ClaimsForm(k, claims) == IF k.of = "buffer" THEN BytesForm(k, claims) ELSE ImageForm(k, claims)

\* The range is claimed, too, and what is handed out is what was not claimed of it.
Claimed(k, claims, range, done) ==
    /\ ClaimsForm(k, done.claims)
    /\ ClaimedIn(k, done.claims) = ClaimedIn(k, claims) \cup Part(k, range)
    /\ Tiles(k, done.free, Part(k, range) \ ClaimedIn(k, claims))

\* BufferClaim::claim hands out what was not claimed of the range, and no more.
LEMMA ClaimBytesIs ==
    ASSUME tracker \in Trackers, IsBuffer, NEW claims, BytesForm(tracker, claims),
           NEW range \in RangesOf(tracker)
    PROVE  Claimed(tracker, claims, range, ClaimBytes(claims, range))
<1> DEFINE R == claims.ranges
           touching == Touching(R, range)
           marks == Marks(R, range)
           merged == Merged(R, range)
           parts == Split(range, <<marks>>)
           free == {p \in parts : \A r \in touching : ~Covers(r, p)}
           moved == IF Cardinality(touching) = 1 THEN 0
                    ELSE Cardinality({r \in R : range[2] < r[1]})
           ranges == (R \ touching) \cup {merged}
           total == claims.shifted + moved
           done == ClaimBytes(claims, range)
<1>1. /\ done.free = free /\ done.claims.ranges = ranges
      /\ \/ /\ done.claims.form = "ordered" /\ done.claims.shifted = total
            /\ ~(moved # 0 /\ total > Cardinality(R))
         \/ done.claims.form = "indexed" /\ done.claims.shifted = 0
  <2> DEFINE stays == claims.form = "ordered" /\ ~(moved # 0 /\ total > Cardinality(R))
             next == IF stays THEN [form |-> "ordered", ranges |-> ranges, shifted |-> total]
                     ELSE [form |-> "indexed", ranges |-> ranges, shifted |-> 0]
  <2>1. done = [free |-> free, claims |-> next]
    BY DEF ClaimBytes, Touching, Marks, Merged
  <2>2. done.free = free /\ done.claims = next
    BY <2>1
  <2> HIDE DEF done, free, ranges, moved, total
  <2>3. CASE stays
    BY <2>2, <2>3
  <2>4. CASE ~stays
    BY <2>2, <2>4
  <2> QED
    BY <2>3, <2>4
<1>2. R \in SUBSET RangesOf(tracker) /\ Separate(R) /\ claims.shifted \in Nat /\ 2 * claims.shifted <= SizeOf(tracker) + 1
  BY DEF BytesForm
<1>3. /\ marks \in SUBSET Nat /\ \A r \in touching : r[1] \in marks /\ r[2] \in marks
      /\ merged \in RangesOf(tracker)
      /\ Separate(ranges)
      /\ \A c : c \in Part(tracker, merged)
            <=> c \in Part(tracker, range) \/ \E r \in touching : c \in Part(tracker, r)
      /\ \A r \in R \ touching : \A c \in Part(tracker, range) : c \notin Part(tracker, r)
  <2> HIDE DEF R, touching, marks, merged
  <2> QED
    BY <1>2, MergedIs DEF touching, marks, merged
<1>4. touching \subseteq R /\ ranges \subseteq RangesOf(tracker)
  BY <1>2, <1>3 DEF Touching
<1>5. /\ Divides(tracker, parts, range)
      /\ \A s \in touching : Uncrossed(parts, s)
  <2>1. IsCuts(<<marks>>)
    BY <1>3 DEF IsCuts, Dimensions
  <2>2. ASSUME NEW s \in touching
        PROVE  Bordered(s, <<marks>>)
    BY <2>2, <1>3 DEF Bordered, Dimensions, Sides
  <2> HIDE DEF touching, marks
  <2> QED
    BY <2>1, <2>2, <1>2, <1>4, SplitParts
<1>6. (2 * total <= SizeOf(tracker) + 1 /\ total \in Nat) \/ (moved # 0 /\ total > Cardinality(R))
  <2> DEFINE later == {r \in R : range[2] < r[1]}
  <2>1. SizeOf(tracker) \in Nat
    BY TrackerIs, Terms
  <2>2. \A r \in R : r[1] \in Nat /\ r[2] \in Nat /\ r[1] < r[2] /\ r[2] <= SizeOf(tracker)
    BY <1>2, RangeIs, Terms
  <2> HIDE DEF R
  <2>3. IsFiniteSet(R) /\ Cardinality(R) \in Nat /\ 2 * Cardinality(R) <= SizeOf(tracker) + 1
    BY <2>1, <2>2, <1>2, HalfAsMany
  <2>4. Cardinality(later) \in Nat
    BY <2>3, FS_Subset, FS_CardinalityType
  <2> HIDE DEF later
  <2>5. moved \in Nat
    BY <2>4 DEF later
  <2> HIDE DEF moved
  <2>6. CASE moved = 0
    BY <1>2, <2>6
  <2>7. CASE moved # 0 /\ ~(total > Cardinality(R))
    <3>1. total \in Nat /\ total <= Cardinality(R)
      BY <1>2, <2>3, <2>5, <2>7
    <3> HIDE DEF total
    <3> QED
      BY <3>1, <2>1, <2>3
  <2> QED
    BY <2>6, <2>7
<1>7. tracker.of = "buffer" /\ SizeOf(tracker) \in Nat
  BY Terms, TrackerIs
<1>8. ClaimsForm(tracker, done.claims)
  <2>1. done.claims.shifted \in Nat /\ 2 * done.claims.shifted <= SizeOf(tracker) + 1
    <3> HIDE DEF done, total, moved, R
    <3>1. CASE done.claims.shifted = 0
      BY <3>1, <1>7
    <3>2. CASE done.claims.shifted = total /\ ~(moved # 0 /\ total > Cardinality(R))
      BY <3>2, <1>6
    <3> QED
      BY <3>1, <3>2, <1>1
  <2> HIDE DEF done, ranges
  <2> QED
    BY <1>1, <1>3, <1>4, <1>7, <2>1 DEF ClaimsForm, BytesForm
<1>9. /\ ClaimedIn(tracker, claims) = UNION {Part(tracker, r) : r \in R}
      /\ ClaimedIn(tracker, done.claims) = UNION {Part(tracker, r) : r \in ranges}
  <2> HIDE DEF done, ranges
  <2> QED
    BY <1>1 DEF ClaimedIn, BytesForm
<1>10. ASSUME NEW c
       PROVE  c \in UNION {Part(tracker, r) : r \in ranges}
                <=> c \in Part(tracker, range) \/ \E r \in R : c \in Part(tracker, r)
  <2> HIDE DEF touching, merged, R
  <2>1. c \in UNION {Part(tracker, r) : r \in ranges}
            <=> c \in Part(tracker, merged) \/ \E r \in R \ touching : c \in Part(tracker, r)
    OBVIOUS
  <2> QED
    BY <2>1, <1>3, <1>4
<1>11. Tiles(tracker, free, Part(tracker, range) \ UNION {Part(tracker, r) : r \in R})
  <2> DEFINE rest == Part(tracker, range) \ UNION {Part(tracker, r) : r \in R}
  <2>1. \A c : c \in rest <=> c \in Part(tracker, range) /\ \A r \in R : c \notin Part(tracker, r)
    OBVIOUS
  <2> HIDE DEF R, touching, marks, parts, rest
  <2>2. /\ parts \subseteq RangesOf(tracker)
        /\ \A p \in parts : Part(tracker, p) \subseteq Part(tracker, range)
        /\ \A c \in Part(tracker, range) : \E p \in parts : c \in Part(tracker, p)
        /\ \A p, q \in parts : \A c : c \in Part(tracker, p) /\ c \in Part(tracker, q) => p = q
    BY <1>5 DEF Divides
  <2>3. ASSUME NEW p \in free, NEW c \in Part(tracker, p)
        PROVE  c \in rest
    <3>1. p \in parts /\ c \in Part(tracker, range)
      BY <2>2
    <3>2. ASSUME NEW r \in R, c \in Part(tracker, r)
          PROVE  FALSE
      <4>1. r \in touching
        BY <3>1, <3>2, <1>3
      <4>2. c \in CellsOf(p) /\ c \in CellsOf(r)
        BY <3>2, Terms
      <4>3. Covers(r, p)
        BY <3>1, <4>1, <4>2, <1>5 DEF Uncrossed
      <4> QED
        BY <4>1, <4>3
    <3> QED
      BY <3>1, <3>2, <2>1
  <2>4. ASSUME NEW c \in rest
        PROVE  \E p \in free : c \in Part(tracker, p)
    <3>1. PICK p \in parts : c \in Part(tracker, p)
      BY <2>1, <2>2
    <3>2. ASSUME NEW r \in touching, Covers(r, p)
          PROVE  FALSE
      <4>1. r \in R /\ r \in RangesOf(tracker) /\ p \in RangesOf(tracker)
        BY <1>2, <1>4, <2>2, <3>1
      <4>2. c \in Part(tracker, r)
        BY <3>1, <3>2, <4>1, RangesShare
      <4> QED
        BY <4>1, <4>2, <2>1
    <3>3. p \in free
      BY <3>1, <3>2
    <3> QED
      BY <3>1, <3>3
  <2>5. free \subseteq parts
    OBVIOUS
  <2> HIDE DEF free
  <2>6. Tiles(tracker, free, rest)
    BY <2>2, <2>3, <2>4, <2>5 DEF Tiles
  <2> QED
    BY <2>6 DEF rest
<1> HIDE DEF ranges, done, free
<1>12. ClaimedIn(tracker, done.claims) = ClaimedIn(tracker, claims) \cup Part(tracker, range)
  BY <1>9, <1>10
<1>13. Tiles(tracker, done.free, Part(tracker, range) \ ClaimedIn(tracker, claims))
  BY <1>1, <1>9, <1>11
<1>14. Claimed(tracker, claims, range, done)
  BY <1>8, <1>12, <1>13 DEF Claimed
<1> QED
  BY <1>14 DEF done

-----------------------------------------------------------------------------
(* Claims of an image in a map of what is claimed                           *)

\* A piece is a range of the image.
LEMMA PieceIsRange ==
    ASSUME NEW V, NEW shape, NEW range, IsRange(shape, range), NEW map, NEW cur, DenseCursorAt(range, cur),
           NEW piece, piece = DensePiece(map, shape, range, cur)
    PROVE  IsRange(shape, piece)
<1>1. CASE AtOnce(map, cur)
  BY <1>1 DEF DensePiece
<1>2. CASE ~AtOnce(map, cur)
  <2>1. piece = Rectangle(map, shape, range, cur)
    BY <1>2 DEF DensePiece
  <2>2. PieceAt(range, cur, piece)
    BY <2>1, RectangleIs
  <2>3. /\ range.layer \in Nat /\ range.layers \in Nat /\ range.level \in Nat /\ range.levels \in Nat
        /\ range.aspect \in Nat /\ range.aspects \in Nat
        /\ range.layer + range.layers <= shape.layers
        /\ range.level + range.levels <= shape.levels
        /\ range.aspect + range.aspects <= shape.aspects
        /\ IsShape(shape) /\ shape.layers \in Nat /\ shape.levels \in Nat /\ shape.aspects \in Nat
    BY DEF IsRange, IsShape
  <2>4. /\ piece \in [layer : Nat, layers : Nat \ {0}, level : Nat, levels : Nat \ {0},
                      aspect : Nat, aspects : Nat \ {0}]
        /\ piece.aspect = range.aspect + cur.aspect /\ piece.layer = range.layer + cur.layer
        /\ piece.level = range.level + cur.level
        /\ cur.aspect + piece.aspects <= range.aspects /\ cur.layer + piece.layers <= range.layers
        /\ cur.level + piece.levels <= range.levels
        /\ cur.aspect \in Nat /\ cur.layer \in Nat /\ cur.level \in Nat
    BY <2>2 DEF PieceAt, Grows, DenseCursorAt
  <2>5. /\ piece.layer + piece.layers <= shape.layers
        /\ piece.level + piece.levels <= shape.levels
        /\ piece.aspect + piece.aspects <= shape.aspects
    BY <2>3, <2>4
  <2> QED
    BY <2>3, <2>4, <2>5 DEF IsRange
<1> QED
  BY <1>1, <1>2

\* The cells that a cursor has passed are claimed; what is handed out was not.
SwapAt(k, first, range, n, s) ==
    LET passed == Passed(k.shape, range, s.cursor)
    IN  /\ DenseAt(s.map, BOOLEAN, k.shape, range, s.cursor)
        /\ \A x \in 0..SizeOf(k) - 1 : ValueAt(s.map, x) = IF x \in passed THEN TRUE ELSE ValueAt(first, x)
        /\ Tiles(k, s.free, {x \in passed : ~ValueAt(first, x)})
        /\ DenseCursorEnd(range, s.cursor) \/ Cardinality(passed) >= n

\* An item of the cursor moves it on by at least a cell.
LEMMA TakesPiece ==
    ASSUME tracker \in Trackers, ~IsBuffer, NEW first, IsDense(first, BOOLEAN, SizeOf(tracker)),
           NEW range \in RangesOf(tracker), NEW n \in Nat, NEW s, SwapAt(tracker, first, range, n, s)
    PROVE  /\ SwapAt(tracker, first, range, n + 1, TakePiece(s, range))
           /\ n >= SizeOf(tracker) => DenseCursorEnd(range, s.cursor)
<1> DEFINE shape == tracker.shape  size == SizeOf(tracker)  cur == s.cursor  passed == Passed(shape, range, cur)
           unclaimed == {x \in passed : ~ValueAt(first, x)}
<1>1. /\ IsRange(shape, range) /\ CellCount(shape) = size /\ size \in Nat
      /\ \A r : r \in RangesOf(tracker) <=> IsRange(shape, r)
      /\ \A r : Part(tracker, r) = IndicesOf(shape, r)
  BY ImageIs, TrackerIs, Terms
<1>2. /\ DenseAt(s.map, BOOLEAN, shape, range, cur)
      /\ \A x \in 0..size - 1 : ValueAt(s.map, x) = IF x \in passed THEN TRUE ELSE ValueAt(first, x)
      /\ Tiles(tracker, s.free, unclaimed)
      /\ DenseCursorEnd(range, cur) \/ Cardinality(passed) >= n
  BY DEF SwapAt
<1> HIDE DEF shape, size, cur, passed
<1>3. passed \subseteq 0..size - 1
  BY <1>1, RangeSpots DEF passed
<1>4. IsFiniteSet(0..size - 1) /\ Cardinality(0..size - 1) = size
  <2>1. 0 \in Int /\ size - 1 \in Int /\ size - 1 - 0 + 1 = size /\ (0 > size - 1 => size = 0)
    BY <1>1
  <2>2. IsFiniteSet(0..size - 1) /\ Cardinality(0..size - 1) = IF 0 > size - 1 THEN 0 ELSE size - 1 - 0 + 1
    BY <2>1, FS_Interval
  <2> QED
    BY <2>1, <2>2
<1>5. CASE DenseCursorEnd(range, cur)
  <2>1. DenseCursorDone(cur, range)
    BY <1>1, <1>5, CursorEnds
  <2>2. TakePiece(s, range) = s
    BY <2>1 DEF TakePiece, cur
  <2>3. SwapAt(tracker, first, range, n + 1, s)
    BY <1>5 DEF SwapAt, cur
  <2> QED
    BY <1>5, <2>2, <2>3 DEF cur
<1>6. CASE ~DenseCursorEnd(range, cur)
  <2>1. DenseCursorAt(range, cur) /\ ~DenseCursorDone(cur, range)
    BY <1>1, <1>2, <1>6, CursorEnds DEF DenseAt
  <2> DEFINE piece == DensePiece(s.map, shape, range, cur)
             z == PieceMap(s.map, shape, cur, piece, TRUE)
             next == PieceCursor(s.map, range, cur, piece)
             free == s.free \cup {p \in {piece} : ~PieceValue(s.map, shape, p)}
             here == IndicesOf(shape, piece)
             later == Passed(shape, range, next)
  <2>2. TakePiece(s, range) = [map |-> z, cursor |-> next, free |-> free]
    BY <2>1 DEF TakePiece, cur, shape
  <2>3. IsRange(shape, piece)
    BY <1>1, <2>1, PieceIsRange
  <2>4. RectangleDone(s.map, z, BOOLEAN, shape, range, cur, next, piece, TRUE)
    BY <1>1, <1>2, <2>1, NextPieceOfImage
  <2> HIDE DEF piece, z, next
  <2>5. /\ DenseAt(z, BOOLEAN, shape, range, next)
        /\ PieceValue(s.map, shape, piece) \in BOOLEAN
        /\ \A x \in here : ValueAt(s.map, x) = PieceValue(s.map, shape, piece)
        /\ \A x \in 0..size - 1 : ValueAt(z, x) = IF x \in here THEN TRUE ELSE ValueAt(s.map, x)
        /\ later = passed \cup here /\ passed \cap here = {}
    BY <1>1, <2>4 DEF RectangleDone, passed
  <2>6. here \subseteq 0..size - 1 /\ here = Part(tracker, piece) /\ piece \in RangesOf(tracker) /\ here # {}
    <3>1. here = Part(tracker, piece) /\ piece \in RangesOf(tracker)
      BY <1>1, <2>3
    <3>2. here # {}
      BY <3>1, RangesShare
    <3>3. here \subseteq 0..size - 1
      BY <1>1, <2>3, RangeSpots
    <3> QED
      BY <3>1, <3>2, <3>3
  <2> HIDE DEF here, later
  <2>7. \A x \in 0..size - 1 : ValueAt(z, x) = IF x \in later THEN TRUE ELSE ValueAt(first, x)
    <3> TAKE x \in 0..size - 1
    <3>1. CASE x \in here
      BY <2>5, <3>1
    <3>2. CASE x \notin here
      <4>1. ValueAt(z, x) = ValueAt(s.map, x) /\ (x \in later <=> x \in passed)
        BY <2>5, <3>2
      <4> QED
        BY <4>1, <1>2
    <3> QED
      BY <3>1, <3>2
  <2>8. \A x \in here : ValueAt(first, x) = PieceValue(s.map, shape, piece)
    <3> TAKE x \in here
    <3>1. x \in 0..size - 1 /\ x \notin passed /\ ValueAt(s.map, x) = PieceValue(s.map, shape, piece)
      BY <2>5, <2>6
    <3> QED
      BY <3>1, <1>2
  <2>9. Tiles(tracker, free, {x \in later : ~ValueAt(first, x)})
    <3> DEFINE rest == {x \in later : ~ValueAt(first, x)}
    <3>1. \A x : x \in unclaimed <=> x \in passed /\ ~ValueAt(first, x)
      OBVIOUS
    <3>2. \A x : x \in rest <=> (x \in passed \/ x \in here) /\ ~ValueAt(first, x)
      BY <2>5
    <3> HIDE DEF rest, unclaimed
    <3>3. CASE PieceValue(s.map, shape, piece)
      <4>1. free = s.free
        BY <3>3
      <4>2. rest = unclaimed
        BY <3>1, <3>2, <3>3, <2>8
      <4> QED
        BY <4>1, <4>2, <1>2 DEF rest
    <3>4. CASE ~PieceValue(s.map, shape, piece)
      <4>1. free = s.free \cup {piece}
        BY <3>4
      <4>2. \A x : x \in rest <=> x \in unclaimed \/ x \in here
        BY <3>1, <3>2, <3>4, <2>8
      <4>3. \A x : ~(x \in unclaimed /\ x \in here)
        BY <3>1, <2>5
      <4> HIDE DEF free
      <4>4. Tiles(tracker, free, rest)
        BY <4>1, <4>2, <4>3, <2>6, <1>2 DEF Tiles
      <4> QED
        BY <4>4 DEF rest
    <3> QED
      BY <3>3, <3>4
  <2>10. Cardinality(later) >= n + 1 /\ n < size
    <3>1. later \subseteq 0..size - 1
      BY <1>3, <2>5, <2>6
    <3>2. IsFiniteSet(passed) /\ IsFiniteSet(later) /\ Cardinality(later) <= size
      BY <3>1, <1>3, <1>4, FS_Subset, ZenonT(60)
    <3>3. Cardinality(passed) \in Nat /\ Cardinality(later) \in Nat
      BY <3>2, FS_CardinalityType
    <3>4. Cardinality(passed) <= Cardinality(later) /\ Cardinality(passed) # Cardinality(later)
      <4>1. passed \in SUBSET later /\ passed # later
        BY <2>5, <2>6
      <4> QED
        BY <4>1, <3>2, FS_Subset
    <3>5. Cardinality(passed) >= n
      BY <1>2, <1>6
    <3> QED
      BY <3>2, <3>3, <3>4, <3>5, <1>1
  <2> DEFINE t == [map |-> z, cursor |-> next, free |-> free]
  <2>11. t.map = z /\ t.cursor = next /\ t.free = free
    OBVIOUS
  <2> HIDE DEF t, free
  <2>12. SwapAt(tracker, first, range, n + 1, t)
    BY <2>5, <2>7, <2>9, <2>10, <2>11 DEF SwapAt, shape, size, later
  <2> QED
    BY <2>2, <2>10, <2>12, <1>1 DEF t, size
<1> QED
  BY <1>5, <1>6

\* f is the function that SwapTrue defines by recursion; there is one.
IsSwap(f, map, range, n) ==
    f = [i \in 0..n |->
            IF i = 0 THEN [map |-> map, cursor |-> DenseCursor, free |-> {}]
            ELSE CHOOSE s \in {TakePiece(p, range) : p \in {f[i - 1]}} : TRUE]

\* The steps of the cursor, as many as one likes
LEMMA SwapExists ==
    ASSUME NEW map, NEW range, NEW n \in Nat
    PROVE  \E f : IsSwap(f, map, range, n)
<1> DEFINE first == [map |-> map, cursor |-> DenseCursor, free |-> {}]
           Next1(x) == CHOOSE s \in {TakePiece(p, range) : p \in {x}} : TRUE
           Has(k) == \E f : f = [i \in 0..k |-> IF i = 0 THEN first ELSE Next1(f[i - 1])]
           T == {k \in Nat : ~Has(k)}
<1> SUFFICES ASSUME n \in T PROVE FALSE
  BY DEF IsSwap
<1> HIDE DEF Next1, first
<1>1. PICK k \in T : \A m \in T : k <= m
  <2> HIDE DEF T
  <2> QED
    BY LeastNat DEF T
<1>2. Has(0)
  <2>1. [i \in 0..0 |-> first] =
          [i \in 0..0 |-> IF i = 0 THEN first ELSE Next1([j \in 0..0 |-> first][i - 1])]
    OBVIOUS
  <2> QED
    BY <2>1
<1>3. k # 0 /\ k - 1 \in Nat /\ Has(k - 1)
  <2> HIDE DEF Has
  <2>1. k # 0 /\ k \in Nat
    BY <1>1, <1>2
  <2>2. k - 1 \in Nat /\ ~(k <= k - 1)
    BY <2>1
  <2> QED
    BY <1>1, <2>1, <2>2
<1>4. PICK f : f = [i \in 0..(k - 1) |-> IF i = 0 THEN first ELSE Next1(f[i - 1])]
  BY <1>3
<1> DEFINE h == [i \in 0..k |-> IF i = k THEN Next1(f[k - 1]) ELSE f[i]]
<1>5. \A i \in 0..k : h[i] = IF i = 0 THEN first ELSE Next1(h[i - 1])
  BY <1>3, <1>4
<1>6. h = [i \in 0..k |-> IF i = 0 THEN first ELSE Next1(h[i - 1])]
  BY <1>5
<1> QED
  BY <1>1, <1>6

\* All of the range is claimed in the map.
LEMMA SwapTrueIs ==
    ASSUME tracker \in Trackers, ~IsBuffer, NEW map, IsDense(map, BOOLEAN, SizeOf(tracker)),
           NEW range \in RangesOf(tracker)
    PROVE  LET swap == SwapTrue(map, range)
               claimed == {x \in 0..SizeOf(tracker) - 1 : ValueAt(map, x)}
           IN  /\ IsDense(swap.map, BOOLEAN, SizeOf(tracker))
               /\ {x \in 0..SizeOf(tracker) - 1 : ValueAt(swap.map, x)} = claimed \cup Part(tracker, range)
               /\ Tiles(tracker, swap.free, Part(tracker, range) \ claimed)
<1> DEFINE size == SizeOf(tracker)  shape == tracker.shape
           first == [map |-> map, cursor |-> DenseCursor, free |-> {}]
           Next1(x) == CHOOSE s \in {TakePiece(p, range) : p \in {x}} : TRUE
<1>1. /\ size \in Nat /\ size = Size /\ IsRange(shape, range) /\ CellCount(shape) = size
      /\ Part(tracker, range) = IndicesOf(shape, range)
  BY ImageIs, TrackerIs, Terms
<1>2. PICK f : /\ f = [i \in 0..size |-> IF i = 0 THEN first ELSE Next1(f[i - 1])]
               /\ SwapTrue(map, range) = f[size]
  <2> DEFINE swap == CHOOSE f : f = [i \in 0..Size |->
                        IF i = 0 THEN [map |-> map, cursor |-> DenseCursor, free |-> {}]
                        ELSE CHOOSE s \in {TakePiece(p, range) : p \in {f[i - 1]}} : TRUE]
  <2>1. swap = [i \in 0..Size |->
                        IF i = 0 THEN [map |-> map, cursor |-> DenseCursor, free |-> {}]
                        ELSE CHOOSE s \in {TakePiece(p, range) : p \in {swap[i - 1]}} : TRUE]
    <3>1. \E f : IsSwap(f, map, range, Size)
      BY <1>1, SwapExists
    <3> QED
      BY <3>1, Zenon DEF IsSwap
  <2>2. SwapTrue(map, range) = swap[Size]
    BY DEF SwapTrue
  <2> HIDE DEF swap
  <2> QED
    BY <1>1, <2>1, <2>2
<1>3. \A x : Next1(x) = TakePiece(x, range)
  OBVIOUS
<1> HIDE DEF Next1
<1>4. SwapAt(tracker, map, range, 0, first)
  <2>1. /\ DenseCursorAt(range, DenseCursor) /\ Passed(shape, range, DenseCursor) = {}
    BY <1>1, CursorEnds
  <2>2. DenseAt(map, BOOLEAN, shape, range, DenseCursor)
    BY <1>1, <2>1 DEF DenseAt
  <2>3. Tiles(tracker, {}, {x \in {} : ~ValueAt(map, x)})
    <3>1. {x \in {} : ~ValueAt(map, x)} = {}
      OBVIOUS
    <3> QED
      BY <3>1, NoTiles
  <2>4. Cardinality({}) >= 0
    BY FS_EmptySet
  <2>5. first.map = map /\ first.cursor = DenseCursor /\ first.free = {}
    OBVIOUS
  <2> HIDE DEF first
  <2> QED
    BY <2>1, <2>2, <2>3, <2>4, <2>5 DEF SwapAt
<1>5. f[0] = first /\ \A i \in 1..size : f[i] = TakePiece(f[i - 1], range)
  <2> HIDE DEF first, size
  <2> QED
    BY <1>1, <1>2, <1>3
<1> HIDE DEF first
<1>6. \A n \in 0..size : SwapAt(tracker, map, range, n, f[n])
  <2> DEFINE T == {n \in 0..size : ~SwapAt(tracker, map, range, n, f[n])}
  <2>1. ASSUME NEW k \in T
        PROVE  FALSE
    <3>1. PICK m \in T : \A l \in T : m <= l
      <4>1. T \in SUBSET Nat
        BY <1>1
      <4> HIDE DEF T
      <4> QED
        BY <2>1, <4>1, LeastNat
    <3>2. m \in Nat /\ m # 0 /\ m - 1 \in Nat /\ m - 1 \in 0..size /\ m \in 1..size /\ m - 1 + 1 = m /\ ~(m <= m - 1)
      BY <1>1, <1>4, <1>5, <3>1
    <3>3. SwapAt(tracker, map, range, m - 1, f[m - 1])
      BY <3>1, <3>2
    <3>4. SwapAt(tracker, map, range, m - 1 + 1, TakePiece(f[m - 1], range))
      BY <3>2, <3>3, TakesPiece
    <3> QED
      BY <1>5, <3>1, <3>2, <3>4
  <2> QED
    BY <2>1
<1> DEFINE s == f[size]  passed == Passed(shape, range, s.cursor)
<1>7. SwapAt(tracker, map, range, size, s)
  BY <1>1, <1>6
<1> HIDE DEF s
<1>8. DenseCursorEnd(range, s.cursor)
  <2>1. size >= size
    BY <1>1
  <2> QED
    BY <1>1, <1>7, <2>1, TakesPiece
<1>9. passed = Part(tracker, range)
  BY <1>1, <1>8, CursorEnds
<1>10. /\ IsDense(s.map, BOOLEAN, size)
       /\ \A x \in 0..size - 1 : ValueAt(s.map, x) = IF x \in passed THEN TRUE ELSE ValueAt(map, x)
       /\ Tiles(tracker, s.free, {x \in passed : ~ValueAt(map, x)})
  BY <1>1, <1>7 DEF SwapAt, DenseAt
<1>11. passed \subseteq 0..size - 1
  BY <1>1, <1>9, RangeSpots
<1> HIDE DEF passed, size
<1> DEFINE claimed == {x \in 0..size - 1 : ValueAt(map, x)}
<1>12. {x \in 0..size - 1 : ValueAt(s.map, x)} = claimed \cup passed
  <2>1. ASSUME NEW x \in 0..size - 1
        PROVE  ValueAt(s.map, x) <=> ValueAt(map, x) \/ x \in passed
    <3>1. ValueAt(s.map, x) \in BOOLEAN /\ ValueAt(map, x) \in BOOLEAN
      BY <1>1, <1>10, DenseHas DEF size
    <3>2. CASE x \in passed
      BY <1>10, <3>2
    <3>3. CASE x \notin passed
      BY <1>10, <3>1, <3>3
    <3> QED
      BY <3>2, <3>3
  <2> QED
    BY <2>1, <1>11
<1>13. {x \in passed : ~ValueAt(map, x)} = passed \ claimed
  BY <1>11
<1> QED
  BY <1>2, <1>9, <1>10, <1>12, <1>13 DEF s, size

HasCell(shape, range, c) == \E a, y, m \in Nat : InBox(range, a, y, m) /\ c = Index(shape, a, y, m)

\* Each cell of a box is where an aspect, a layer and a level of it meet.
LEMMA BoxHas ==
    ASSUME NEW shape, NEW range, IsRange(shape, range), NEW c
    PROVE  c \in IndicesOf(shape, range) <=> HasCell(shape, range, c)
BY BoxCells DEF HasCell

\* Where an image has a single subresource of two aspects, its cells are the aspects.
LEMMA AspectsAre ==
    ASSUME tracker \in Trackers, ~IsBuffer, SizeOf(tracker) = 2, tracker.shape.aspects = 2,
           NEW range \in RangesOf(tracker)
    PROVE  /\ Part(tracker, range) = AspectsOf(range) /\ AspectsOf(range) \subseteq {0, 1}
           /\ \A a \in AspectsOf(range) : LET one == [range EXCEPT !.aspect = a, !.aspects = 1]
                                          IN  one \in RangesOf(tracker) /\ Part(tracker, one) = {a}
<1> DEFINE shape == tracker.shape
<1>1. /\ IsShape(shape) /\ CellCount(shape) = 2 /\ IsRange(shape, range)
      /\ \A r : r \in RangesOf(tracker) <=> IsRange(shape, r)
      /\ \A r : Part(tracker, r) = IndicesOf(shape, r)
  BY ImageIs, TrackerIs, Terms
<1>2. shape.layers = 1 /\ shape.levels = 1
  <2>1. shape.layers \in Nat \ {0} /\ shape.levels \in Nat \ {0} /\ shape.layers * shape.levels * 2 = 2
    BY <1>1 DEF IsShape, CellCount
  <2>2. \A x, y \in Nat \ {0} : x * y * 2 = 2 => x = 1 /\ y = 1
    <3>1. ASSUME NEW x \in Nat \ {0}, NEW y \in Nat \ {0}
          PROVE  x * y >= x /\ x * y >= y /\ x * y \in Nat
      OBVIOUS
    <3> QED
      BY <3>1
  <2> QED
    BY <2>1, <2>2
<1>3. \A a \in Nat : Index(shape, a, 0, 0) = a
  <2>1. \A a \in Nat : 0 * 2 * 1 + 0 * 2 + a = a
    OBVIOUS
  <2> QED
    BY <1>2, <2>1 DEF Index
<1>4. ASSUME NEW r, IsRange(shape, r)
      PROVE  /\ r.aspect \in Nat /\ r.aspects \in Nat \ {0} /\ r.aspect + r.aspects <= 2
             /\ IndicesOf(shape, r) = r.aspect..r.aspect + r.aspects - 1
  <2>1. /\ r.layer \in Nat /\ r.layers \in Nat \ {0} /\ r.level \in Nat /\ r.levels \in Nat \ {0}
        /\ r.aspect \in Nat /\ r.aspects \in Nat \ {0} /\ r.aspect + r.aspects <= 2
        /\ r.layer + r.layers <= 1 /\ r.level + r.levels <= 1
    BY <1>2, <1>4 DEF IsRange
  <2>2. r.layer = 0 /\ r.layers = 1 /\ r.level = 0 /\ r.levels = 1
    BY <2>1
  <2>3. ASSUME NEW c
        PROVE  c \in IndicesOf(shape, r) <=> c \in r.aspect..r.aspect + r.aspects - 1
    <3>1. c \in IndicesOf(shape, r) <=> HasCell(shape, r, c)
      BY <1>4, BoxHas
    <3>2. \A a, y, m \in Nat : InBox(r, a, y, m) <=> r.aspect <= a /\ a < r.aspect + r.aspects /\ y = 0 /\ m = 0
      BY <2>1, <2>2 DEF InBox
    <3>3. c \in IndicesOf(shape, r) <=> \E a \in Nat : r.aspect <= a /\ a < r.aspect + r.aspects /\ c = Index(shape, a, 0, 0)
      BY <3>1, <3>2 DEF HasCell
    <3>4. c \in IndicesOf(shape, r) <=> \E a \in Nat : r.aspect <= a /\ a < r.aspect + r.aspects /\ c = a
      BY <3>3, <1>3
    <3> QED
      BY <3>4, <2>1
  <2> QED
    BY <2>1, <2>3
<1>5. Part(tracker, range) = AspectsOf(range) /\ AspectsOf(range) \subseteq {0, 1}
  BY <1>1, <1>4 DEF AspectsOf
<1>6. ASSUME NEW a \in AspectsOf(range)
      PROVE  LET one == [range EXCEPT !.aspect = a, !.aspects = 1]
             IN  one \in RangesOf(tracker) /\ Part(tracker, one) = {a}
  <2> DEFINE one == [range EXCEPT !.aspect = a, !.aspects = 1]
  <2>1. a \in Nat /\ a + 1 <= 2
    BY <1>5
  <2>2. /\ range \in [layer : Nat, layers : Nat \ {0}, level : Nat, levels : Nat \ {0},
                      aspect : Nat, aspects : Nat \ {0}]
        /\ range.layer + range.layers <= shape.layers
        /\ range.level + range.levels <= shape.levels
    BY <1>1 DEF IsRange
  <2>3. /\ one \in [layer : Nat, layers : Nat \ {0}, level : Nat, levels : Nat \ {0},
                    aspect : Nat, aspects : Nat \ {0}]
        /\ one.layer = range.layer /\ one.layers = range.layers /\ one.level = range.level
        /\ one.levels = range.levels /\ one.aspect = a /\ one.aspects = 1
    <3> DEFINE e == [range EXCEPT !.aspect = a]
    <3>1. one = [e EXCEPT !.aspects = 1]
      OBVIOUS
    <3>2. e \in [layer : Nat, layers : Nat \ {0}, level : Nat, levels : Nat \ {0},
                aspect : Nat, aspects : Nat \ {0}]
      BY <2>1, <2>2
    <3>3. /\ e.layer = range.layer /\ e.layers = range.layers /\ e.level = range.level
          /\ e.levels = range.levels /\ e.aspect = a
      BY <2>2
    <3> HIDE DEF e, one
    <3>4. one \in [layer : Nat, layers : Nat \ {0}, level : Nat, levels : Nat \ {0},
                  aspect : Nat, aspects : Nat \ {0}]
      BY <3>1, <3>2
    <3>5. /\ one.layer = e.layer /\ one.layers = e.layers /\ one.level = e.level
          /\ one.levels = e.levels /\ one.aspect = e.aspect /\ one.aspects = 1
      BY <3>1, <3>2
    <3> QED
      BY <3>3, <3>4, <3>5
  <2> HIDE DEF one
  <2>4. IsRange(shape, one)
    BY <1>1, <2>1, <2>2, <2>3 DEF IsRange
  <2>5. IndicesOf(shape, one) = a..a + 1 - 1
    BY <1>4, <2>3, <2>4
  <2>6. a..a + 1 - 1 = {a}
    BY <2>1
  <2> QED
    BY <1>1, <2>4, <2>5, <2>6 DEF one
<1> QED
  BY <1>5, <1>6

\* A first claim
LEMMA FirstClaimIs ==
    ASSUME tracker \in Trackers, ~IsBuffer, NEW range \in RangesOf(tracker)
    PROVE  /\ ImageForm(tracker, FirstClaim(range))
           /\ ClaimedIn(tracker, FirstClaim(range)) = Part(tracker, range)
<1> DEFINE done == FirstClaim(range)
<1>1. Size = SizeOf(tracker) /\ Size \in Nat \ {0}
  BY TrackerIs, Terms
<1>2. CASE WholeRange(range)
  <2>1. done.form = "whole"
    BY <1>2 DEF FirstClaim
  <2>2. Part(tracker, range) = 0..SizeOf(tracker) - 1
    BY <1>2, RangeIs, Terms
  <2> HIDE DEF done
  <2>3. ImageForm(tracker, done) /\ ClaimedIn(tracker, done) = Part(tracker, range)
    BY <2>1, <2>2 DEF ImageForm, ClaimedIn
  <2> QED
    BY <2>3 DEF done
<1>3. CASE ~WholeRange(range) /\ Size = 2 /\ tracker.shape.aspects = 2
  <2>1. done = [form |-> "aspects", aspects |-> AspectsOf(range)]
    BY <1>3 DEF FirstClaim
  <2>2. done.form = "aspects" /\ done.aspects = AspectsOf(range)
    BY <2>1
  <2> HIDE DEF done
  <2>3. ImageForm(tracker, done) /\ ClaimedIn(tracker, done) = Part(tracker, range)
    BY <1>1, <1>3, <2>2, AspectsAre DEF ImageForm, ClaimedIn
  <2> QED
    BY <2>3 DEF done
<1>4. CASE ~WholeRange(range) /\ ~(Size = 2 /\ tracker.shape.aspects = 2)
  <2> DEFINE swap == SwapTrue(DenseOf(FALSE), range)
  <2>1. done = [form |-> "dense", map |-> swap.map]
    BY <1>4 DEF FirstClaim
  <2>2. IsDense(DenseOf(FALSE), BOOLEAN, SizeOf(tracker)) /\ \A x : ValueAt(DenseOf(FALSE), x) = FALSE
    BY UniformDense
  <2>3. /\ IsDense(swap.map, BOOLEAN, SizeOf(tracker))
        /\ {x \in 0..SizeOf(tracker) - 1 : ValueAt(swap.map, x)}
                = {x \in 0..SizeOf(tracker) - 1 : ValueAt(DenseOf(FALSE), x)} \cup Part(tracker, range)
    BY <2>2, SwapTrueIs
  <2>4. {x \in 0..SizeOf(tracker) - 1 : ValueAt(DenseOf(FALSE), x)} = {}
    BY <2>2
  <2> HIDE DEF swap
  <2>5. done.form = "dense" /\ done.map = swap.map
    BY <2>1
  <2> HIDE DEF done
  <2>6. ImageForm(tracker, done) /\ ClaimedIn(tracker, done) = Part(tracker, range)
    BY <2>3, <2>4, <2>5 DEF ImageForm, ClaimedIn
  <2> QED
    BY <2>6 DEF done
<1> QED
  BY <1>2, <1>3, <1>4

\* Two aspects are two.
LEMMA TwoAspects == IsFiniteSet({0, 1}) /\ Cardinality({0, 1}) = 2
<1>1. 0 \in Int /\ 1 \in Int /\ 0..1 = {0, 1}
  OBVIOUS
<1>2. IsFiniteSet(0..1) /\ Cardinality(0..1) = IF 0 > 1 THEN 0 ELSE 1 - 0 + 1
  BY <1>1, FS_Interval
<1> QED
  BY <1>1, <1>2

\* A claim of aspects hands out those that were not claimed.
LEMMA ClaimAspectsIs ==
    ASSUME tracker \in Trackers, ~IsBuffer, NEW claims, ImageForm(tracker, claims), claims.form = "aspects",
           NEW range \in RangesOf(tracker)
    PROVE  Claimed(tracker, claims, range, ClaimSubresources(claims, range))
<1> DEFINE had == claims.aspects
           rest == AspectsOf(range) \ had
           all == had \cup AspectsOf(range)
           free == {[range EXCEPT !.aspect = a, !.aspects = 1] : a \in rest}
           next == IF Cardinality(all) = 2 THEN [form |-> "whole"] ELSE [form |-> "aspects", aspects |-> all]
           done == ClaimSubresources(claims, range)
<1>1. done = [free |-> free, claims |-> next]
  BY DEF ClaimSubresources
<1>2. done.free = free /\ done.claims = next
  <2> HIDE DEF done, free, next
  <2> QED
    BY <1>1
<1>3. SizeOf(tracker) = 2 /\ tracker.shape.aspects = 2 /\ had \subseteq {0, 1} /\ tracker.of # "buffer"
  BY Terms DEF ImageForm
<1>4. /\ Part(tracker, range) = AspectsOf(range) /\ AspectsOf(range) \subseteq {0, 1}
      /\ \A a \in AspectsOf(range) : LET one == [range EXCEPT !.aspect = a, !.aspects = 1]
                                     IN  one \in RangesOf(tracker) /\ Part(tracker, one) = {a}
  BY <1>3, AspectsAre
<1>5. ClaimedIn(tracker, claims) = had
  BY DEF ClaimedIn
<1>6. all \subseteq {0, 1} /\ 0..SizeOf(tracker) - 1 = {0, 1}
  <2>1. 0..2 - 1 = {0, 1}
    OBVIOUS
  <2>2. had \subseteq {0, 1} /\ AspectsOf(range) \subseteq {0, 1}
    BY <1>3, <1>4
  <2> HIDE DEF had, free
  <2> QED
    BY <1>3, <2>1, <2>2
<1>7. ImageForm(tracker, next) /\ ClaimedIn(tracker, next) = all
  <2> HIDE DEF had, all
  <2>1. CASE Cardinality(all) = 2
    <3>1. all = {0, 1}
      <4>1. IsFiniteSet({0, 1}) /\ Cardinality({0, 1}) = 2
        BY TwoAspects
      <4> QED
        BY <4>1, <1>6, <2>1, FS_Subset
    <3>2. next.form = "whole"
      BY <2>1
    <3> HIDE DEF next
    <3> QED
      BY <3>1, <3>2, <1>6 DEF ImageForm, ClaimedIn
  <2>2. CASE Cardinality(all) # 2
    <3>1. next.form = "aspects" /\ next.aspects = all
      BY <2>2
    <3> HIDE DEF next
    <3> QED
      BY <3>1, <1>3, <1>6 DEF ImageForm, ClaimedIn
  <2> QED
    BY <2>1, <2>2
<1>8. Tiles(tracker, free, rest)
  <2> DEFINE one(a) == [range EXCEPT !.aspect = a, !.aspects = 1]
  <2>1. \A a \in rest : one(a) \in RangesOf(tracker) /\ Part(tracker, one(a)) = {a}
    BY <1>4
  <2>2. free = {one(a) : a \in rest}
    OBVIOUS
  <2> HIDE DEF one, rest, free
  <2>3. \A p \in free : \E a \in rest : p = one(a)
    BY <2>2
  <2>4. \A a \in rest : one(a) \in free
    BY <2>2
  <2>5. \A p \in free : p \in RangesOf(tracker) /\ \E a \in rest : p = one(a) /\ Part(tracker, p) = {a}
    BY <2>1, <2>3
  <2>6. \A c \in rest : \E p \in free : c \in Part(tracker, p)
    BY <2>1, <2>4
  <2>7. \A p, q \in free : \A c : c \in Part(tracker, p) /\ c \in Part(tracker, q) => p = q
    BY <2>5
  <2>8. \A p \in free : Part(tracker, p) \subseteq rest
    BY <2>5
  <2> QED
    BY <2>5, <2>6, <2>7, <2>8 DEF Tiles
<1> HIDE DEF done, free, next
<1>9. Claimed(tracker, claims, range, done)
  BY <1>2, <1>3, <1>4, <1>5, <1>7, <1>8 DEF Claimed, ClaimsForm
<1> QED
  BY <1>9 DEF done

\* A claim in a map hands out what the cursor finds unclaimed.
LEMMA ClaimDenseIs ==
    ASSUME tracker \in Trackers, ~IsBuffer, NEW claims, ImageForm(tracker, claims), claims.form = "dense",
           NEW range \in RangesOf(tracker)
    PROVE  Claimed(tracker, claims, range, ClaimSubresources(claims, range))
<1> DEFINE swap == SwapTrue(claims.map, range)
           next == IF WholeRange(range) THEN [form |-> "whole"] ELSE [form |-> "dense", map |-> swap.map]
           done == ClaimSubresources(claims, range)
           claimed == {x \in 0..SizeOf(tracker) - 1 : ValueAt(claims.map, x)}
<1>1. done = [free |-> swap.free, claims |-> next]
  BY DEF ClaimSubresources
<1>2. done.free = swap.free /\ done.claims = next
  BY <1>1
<1>3. IsDense(claims.map, BOOLEAN, SizeOf(tracker)) /\ tracker.of # "buffer"
  BY Terms DEF ImageForm
<1>4. /\ IsDense(swap.map, BOOLEAN, SizeOf(tracker))
      /\ {x \in 0..SizeOf(tracker) - 1 : ValueAt(swap.map, x)} = claimed \cup Part(tracker, range)
      /\ Tiles(tracker, swap.free, Part(tracker, range) \ claimed)
  BY <1>3, SwapTrueIs
<1>5. ClaimedIn(tracker, claims) = claimed
  BY DEF ClaimedIn
<1> HIDE DEF swap, done
<1>6. ImageForm(tracker, next) /\ ClaimedIn(tracker, next) = claimed \cup Part(tracker, range)
  <2>1. CASE WholeRange(range)
    <3>1. next.form = "whole"
      BY <2>1
    <3>2. Part(tracker, range) = 0..SizeOf(tracker) - 1
      BY <2>1, RangeIs, Terms
    <3>3. claimed \cup Part(tracker, range) = 0..SizeOf(tracker) - 1
      BY <3>2
    <3> HIDE DEF next, claimed
    <3> QED
      BY <3>1, <3>3 DEF ImageForm, ClaimedIn
  <2>2. CASE ~WholeRange(range)
    <3>1. next.form = "dense" /\ next.map = swap.map
      BY <2>2
    <3> HIDE DEF next, claimed
    <3> QED
      BY <3>1, <1>4 DEF ImageForm, ClaimedIn
  <2> QED
    BY <2>1, <2>2
<1> HIDE DEF next, claimed
<1>7. Claimed(tracker, claims, range, done)
  BY <1>2, <1>3, <1>4, <1>5, <1>6 DEF Claimed, ClaimsForm
<1> QED
  BY <1>7 DEF done

\* Whatever the form of the claims, bytes, aspects or a map, a claim hands out just what was not
\* claimed of its range, each part once, and all of the range is claimed then
\* (BufferClaim::claim, ImageOwnership::claim).
THEOREM ClaimIs ==
    ASSUME tracker \in Trackers, NEW claims, ClaimsForm(tracker, claims), NEW range \in RangesOf(tracker)
    PROVE  Claimed(tracker, claims, range, Claim(claims, range))
<1>1. CASE IsBuffer
  <2>1. BytesForm(tracker, claims)
    BY <1>1, Terms DEF ClaimsForm
  <2> QED
    BY <1>1, <2>1, ClaimBytesIs DEF Claim
<1>2. CASE ~IsBuffer
  <2> DEFINE done == ClaimSubresources(claims, range)
  <2>1. ImageForm(tracker, claims) /\ tracker.of # "buffer" /\ Claim(claims, range) = done
    BY <1>2, Terms DEF ClaimsForm, Claim
  <2>2. CASE claims.form = "none"
    <3>1. done = [free |-> {range}, claims |-> FirstClaim(range)]
      BY <2>2 DEF ClaimSubresources
    <3>2. done.free = {range} /\ done.claims = FirstClaim(range)
      BY <3>1
    <3>3. ClaimedIn(tracker, claims) = {}
      BY <2>2 DEF ClaimedIn
    <3>4. Tiles(tracker, {range}, Part(tracker, range))
      BY OneTile
    <3>5. /\ ImageForm(tracker, FirstClaim(range))
          /\ ClaimedIn(tracker, FirstClaim(range)) = Part(tracker, range)
      BY <1>2, FirstClaimIs
    <3>6. Part(tracker, range) \ {} = Part(tracker, range) /\ {} \cup Part(tracker, range) = Part(tracker, range)
      OBVIOUS
    <3> HIDE DEF done
    <3>7. Claimed(tracker, claims, range, done)
      BY <2>1, <3>2, <3>3, <3>4, <3>5, <3>6 DEF Claimed, ClaimsForm
    <3> QED
      BY <2>1, <3>7
  <2>3. CASE claims.form = "whole"
    <3>1. done = [free |-> {}, claims |-> claims]
      BY <2>3 DEF ClaimSubresources
    <3>2. done.free = {} /\ done.claims = claims
      BY <3>1
    <3>3. ClaimedIn(tracker, claims) = 0..SizeOf(tracker) - 1
      BY <2>3 DEF ClaimedIn
    <3>4. Part(tracker, range) \subseteq 0..SizeOf(tracker) - 1
      BY RangeIs, Terms
    <3>5. /\ Part(tracker, range) \ ClaimedIn(tracker, claims) = {}
          /\ ClaimedIn(tracker, claims) \cup Part(tracker, range) = ClaimedIn(tracker, claims)
      BY <3>3, <3>4
    <3> HIDE DEF done
    <3>6. Claimed(tracker, claims, range, done)
      BY <2>1, <3>2, <3>5, NoTiles DEF Claimed
    <3> QED
      BY <2>1, <3>6
  <2>4. CASE claims.form = "aspects"
    BY <1>2, <2>1, <2>4, ClaimAspectsIs
  <2>5. CASE claims.form = "dense"
    BY <1>2, <2>1, <2>5, ClaimDenseIs
  <2> QED
    BY <2>1, <2>2, <2>3, <2>4, <2>5 DEF ImageForm
<1> QED
  BY <1>1, <1>2

-----------------------------------------------------------------------------
(* What is planned, and where a cell has to be acquired from                *)

Src(k, c) == TransferSource(k.owners[c])

PlanTakes(k, plan, cells) ==
    /\ \A p \in plan : /\ p.range \in RangesOf(k) /\ Part(k, p.range) \subseteq cells
                       /\ \A c \in Part(k, p.range) : Src(k, c) = p.from
                       /\ p.from # Ignored
    /\ \A c \in cells : Src(k, c) # Ignored => \E p \in plan : c \in Part(k, p.range)
    /\ \A p, q \in plan : \A c : c \in Part(k, p.range) /\ c \in Part(k, q.range) => p = q

\* The transfers that a claim plans take what it hands out from whom it belongs to.
LEMMA PlansTake ==
    ASSUME tracker \in Trackers, NEW free, NEW cells, Tiles(tracker, free, cells), NEW plan \in Plans(free)
    PROVE  PlanTakes(tracker, plan, cells)
<1> DEFINE Planned(parts) ==
             {p \in {[range |-> q, from |-> SourceOf(q)] : q \in parts} : p.from # Ignored}
<1>1. PICK g \in Grains : LET parts == UNION {Split(r, g) : r \in free}
                          IN  (\A q \in parts : OneSource(q)) /\ plan = Planned(parts)
  BY DEF Plans
<1> DEFINE parts == UNION {Split(r, g) : r \in free}
<1>2. (\A q \in parts : OneSource(q)) /\ plan = Planned(parts)
  BY <1>1
<1>3. Tiles(tracker, parts, cells)
  BY SplitTiles
<1> HIDE DEF parts
<1>4. /\ parts \subseteq RangesOf(tracker)
      /\ \A p \in parts : Part(tracker, p) \subseteq cells
      /\ \A c \in cells : \E p \in parts : c \in Part(tracker, p)
      /\ \A p, q \in parts : \A c : c \in Part(tracker, p) /\ c \in Part(tracker, q) => p = q
  BY <1>3 DEF Tiles
<1>5. ASSUME NEW q \in parts, NEW c \in Part(tracker, q)
      PROVE  Src(tracker, c) = SourceOf(q)
  <2> DEFINE d == CHOOSE x \in CellsOf(q) : TRUE
  <2>1. c \in CellsOf(q)
    BY Terms
  <2>2. d \in CellsOf(q)
    BY <2>1
  <2>3. tracker.owners[c] = tracker.owners[d]
    BY <1>2, <2>1, <2>2 DEF OneSource
  <2>4. SourceOf(q) = Src(tracker, d)
    BY DEF SourceOf, SourceAt, Src
  <2> HIDE DEF d
  <2> QED
    BY <2>3, <2>4 DEF Src
<1> DEFINE T(q) == [range |-> q, from |-> SourceOf(q)]
<1>6. \A p : p \in plan <=> \E q \in parts : p = T(q) /\ p.from # Ignored
  BY <1>2
<1>7. \A q : T(q).range = q /\ T(q).from = SourceOf(q) /\ T(q) = [range |-> T(q).range, from |-> T(q).from]
  OBVIOUS
<1> HIDE DEF T
<1>8. ASSUME NEW p \in plan
      PROVE  /\ p.range \in parts /\ p = T(p.range) /\ p.from = SourceOf(p.range) /\ p.from # Ignored
             /\ p = [range |-> p.range, from |-> p.from]
  BY <1>6, <1>7
<1>9. ASSUME NEW c \in cells, Src(tracker, c) # Ignored
      PROVE  \E p \in plan : c \in Part(tracker, p.range)
  <2>1. PICK q \in parts : c \in Part(tracker, q)
    BY <1>4
  <2>2. SourceOf(q) # Ignored
    BY <1>5, <1>9, <2>1
  <2>3. T(q) \in plan /\ T(q).range = q
    BY <1>6, <1>7, <2>2
  <2> QED
    BY <2>1, <2>3
<1> QED
  BY <1>4, <1>5, <1>8, <1>9 DEF PlanTakes

\* A planned transfer is of what is claimed, and is for the first of the commands in the queue
\* that uses it.
Used(ops, t) == ops[t].ranges[1]

PlanAt(k, ops, q, claims, p) ==
    /\ p.range \in RangesOf(k)
    /\ \A c \in Part(k, p.range) : Src(k, c) = p.from /\ c \in ClaimedIn(k, claims)
    /\ \E i \in 1..Len(q) :
        /\ Part(k, p.range) \subseteq Part(k, Used(ops, q[i]))
        /\ \A j \in 1..i - 1 : \A c \in Part(k, p.range) : c \notin Part(k, Used(ops, q[j]))

PlansAt(k, ops, q, claims, pending) ==
    /\ \A p \in pending : PlanAt(k, ops, q, claims, p)
    /\ \A p, r \in pending : \A c : c \in Part(k, p.range) /\ c \in Part(k, r.range) => p = r

SourcesOf(k, claims, pending) ==
    [c \in 0..SizeOf(k) - 1 |->
        IF c \in ClaimedIn(k, claims)
        THEN LET planned == {p \in pending : c \in Part(k, p.range)}
             IN  IF planned = {} THEN Ignored ELSE (CHOOSE p \in planned : TRUE).from
        ELSE Src(k, c)]

\* What the map of a recording is, in these terms
LEMMA SourcesAre == IsClaims => Contents = SourcesOf(tracker, store.claims, store.pending)
<1> SUFFICES ASSUME IsClaims
             PROVE  Contents = SourcesOf(tracker, store.claims, store.pending)
  OBVIOUS
<1>1. Contents = Sources
  BY DEF Contents, IsClaims, IsSharing, IsAccess
<1>2. ClaimedCells = ClaimedIn(tracker, store.claims)
  BY Terms, Zenon DEF ClaimedCells, ClaimedIn
<1>3. \A c : SourceAt(c) = Src(tracker, c)
  BY DEF SourceAt, Src
<1>4. Cells = 0..SizeOf(tracker) - 1 /\ \A range : CellsOf(range) = Part(tracker, range)
  BY Terms
<1> QED
  BY <1>1, <1>2, <1>3, <1>4 DEF Sources, SourcesOf

\* A cell that is claimed and that nobody plans to transfer needs no transfer.
NeedsNone(k, claims, pending, c) ==
    c \in ClaimedIn(k, claims) /\ \A p \in pending : c \notin Part(k, p.range)

\* A cell has to be acquired from its owner unless nothing is planned for what is claimed.
LEMMA SourceIs ==
    ASSUME NEW k, NEW ops, NEW q, NEW claims, NEW pending, PlansAt(k, ops, q, claims, pending),
           NEW c \in 0..SizeOf(k) - 1
    PROVE  SourcesOf(k, claims, pending)[c] = IF NeedsNone(k, claims, pending, c) THEN Ignored ELSE Src(k, c)
<1> DEFINE planned == {p \in pending : c \in Part(k, p.range)}
           f == (CHOOSE p \in planned : TRUE).from
<1>1. SourcesOf(k, claims, pending)[c]
            = IF c \in ClaimedIn(k, claims) THEN IF planned = {} THEN Ignored ELSE f ELSE Src(k, c)
  BY DEF SourcesOf
<1>2. ASSUME planned # {}
      PROVE  f = Src(k, c) /\ c \in ClaimedIn(k, claims)
  <2> DEFINE p == CHOOSE x \in planned : TRUE
  <2>1. p \in planned
    BY <1>2
  <2>2. p \in pending /\ c \in Part(k, p.range)
    BY <2>1
  <2>3. f = p.from
    OBVIOUS
  <2> HIDE DEF p, f
  <2> QED
    BY <2>2, <2>3 DEF PlansAt, PlanAt
<1>3. NeedsNone(k, claims, pending, c) <=> c \in ClaimedIn(k, claims) /\ planned = {}
  BY DEF NeedsNone
<1> HIDE DEF f, planned
<1> QED
  BY <1>1, <1>2, <1>3

\* What is planned depends on the commands in the queue only.
LEMMA PlansSame ==
    ASSUME NEW k, NEW ops, NEW more, NEW q, Len(q) \in Nat, NEW claims, NEW pending,
           PlansAt(k, ops, q, claims, pending), \A i \in 1..Len(q) : more[q[i]] = ops[q[i]]
    PROVE  PlansAt(k, more, q, claims, pending)
<1>1. ASSUME NEW p \in pending
      PROVE  PlanAt(k, more, q, claims, p)
  <2>1. PlanAt(k, ops, q, claims, p)
    BY DEF PlansAt
  <2>2. PICK i \in 1..Len(q) :
            /\ Part(k, p.range) \subseteq Part(k, Used(ops, q[i]))
            /\ \A j \in 1..i - 1 : \A c \in Part(k, p.range) : c \notin Part(k, Used(ops, q[j]))
    BY <2>1 DEF PlanAt
  <2>3. \A j \in 1..i - 1 : j \in 1..Len(q)
    OBVIOUS
  <2>4. Used(more, q[i]) = Used(ops, q[i]) /\ \A j \in 1..i - 1 : Used(more, q[j]) = Used(ops, q[j])
    BY <2>3 DEF Used
  <2> QED
    BY <2>1, <2>2, <2>4 DEF PlanAt
<1> QED
  BY <1>1 DEF PlansAt

\* A command joins the queue: its claim moves no cell, as what was not claimed and is now is
\* planned to be taken from where it was.
JoinsQueue(ops, q, t, had, was, has, is) ==
    /\ ClaimsForm(tracker, has)
    /\ ClaimedIn(tracker, has) = ClaimedIn(tracker, had) \cup Part(tracker, Used(ops, t))
    /\ PlansAt(tracker, ops, Append(q, t), has, is)
    /\ SourcesOf(tracker, has, is) = SourcesOf(tracker, had, was)

LEMMA PlansJoin ==
    ASSUME tracker \in Trackers, NEW ops, NEW q, q \in Seq(Threads), NEW claims, ClaimsForm(tracker, claims),
           NEW pending, PlansAt(tracker, ops, q, claims, pending),
           NEW t \in Threads, Used(ops, t) \in RangesOf(tracker),
           \A i \in 1..Len(q) : Part(tracker, Used(ops, q[i])) \subseteq ClaimedIn(tracker, claims),
           NEW done, done = Claim(claims, Used(ops, t)), NEW plan \in Plans(done.free)
    PROVE  JoinsQueue(ops, q, t, claims, pending, done.claims, pending \cup plan)
<1> DEFINE range == Used(ops, t)
           had == ClaimedIn(tracker, claims)
           has == ClaimedIn(tracker, done.claims)
           rest == Part(tracker, range) \ had
           next == Append(q, t)
           both == pending \cup plan
<1>1. /\ ClaimsForm(tracker, done.claims) /\ has = had \cup Part(tracker, range)
      /\ Tiles(tracker, done.free, rest)
  BY ClaimIs DEF Claimed
<1>2. /\ \A p \in plan : /\ p.range \in RangesOf(tracker) /\ Part(tracker, p.range) \subseteq rest
                         /\ \A c \in Part(tracker, p.range) : Src(tracker, c) = p.from
                         /\ p.from # Ignored
      /\ \A c \in rest : Src(tracker, c) # Ignored => \E p \in plan : c \in Part(tracker, p.range)
      /\ \A p, r \in plan : \A c : c \in Part(tracker, p.range) /\ c \in Part(tracker, r.range) => p = r
  <2> HIDE DEF rest
  <2>1. PlanTakes(tracker, plan, rest)
    BY <1>1, PlansTake
  <2> QED
    BY <2>1 DEF PlanTakes
<1>3. /\ Len(q) \in Nat /\ Len(next) = Len(q) + 1 /\ next[Len(q) + 1] = t
      /\ \A i \in 1..Len(q) : next[i] = q[i]
  OBVIOUS
<1>4. \A p \in pending : PlanAt(tracker, ops, q, claims, p)
  BY DEF PlansAt
<1>5. \A c : c \in rest <=> c \in Part(tracker, range) /\ c \notin had
  OBVIOUS
<1>6. \A p \in pending : \A c \in Part(tracker, p.range) : c \in had
  BY <1>4 DEF PlanAt
<1> HIDE DEF rest, next, had, has
<1>7. ASSUME NEW p \in pending
      PROVE  PlanAt(tracker, ops, next, done.claims, p)
  <2>1. PlanAt(tracker, ops, q, claims, p)
    BY <1>4
  <2>2. PICK i \in 1..Len(q) :
            /\ Part(tracker, p.range) \subseteq Part(tracker, Used(ops, q[i]))
            /\ \A j \in 1..i - 1 : \A c \in Part(tracker, p.range) : c \notin Part(tracker, Used(ops, q[j]))
    BY <2>1 DEF PlanAt
  <2>3. i \in 1..Len(next) /\ next[i] = q[i] /\ \A j \in 1..i - 1 : next[j] = q[j]
    BY <1>3
  <2>4. \A c \in Part(tracker, p.range) : Src(tracker, c) = p.from /\ c \in has
    BY <1>1, <2>1 DEF PlanAt, had
  <2> QED
    BY <2>1, <2>2, <2>3, <2>4 DEF PlanAt, has
<1>8. ASSUME NEW p \in plan
      PROVE  PlanAt(tracker, ops, next, done.claims, p)
  <2>1. \A c \in Part(tracker, p.range) : Src(tracker, c) = p.from /\ c \in has
    BY <1>1, <1>2, <1>5
  <2> DEFINE i == Len(q) + 1
  <2>2. i \in 1..Len(next) /\ next[i] = t /\ \A j \in 1..i - 1 : j \in 1..Len(q) /\ next[j] = q[j]
    BY <1>3
  <2>3. Part(tracker, p.range) \subseteq Part(tracker, range)
    BY <1>2, <1>5
  <2>4. ASSUME NEW j \in 1..i - 1, NEW c \in Part(tracker, p.range)
        PROVE  c \notin Part(tracker, Used(ops, next[j]))
    <3>1. Part(tracker, Used(ops, next[j])) \subseteq had
      BY <2>2 DEF had
    <3> QED
      BY <3>1, <1>2, <1>5
  <2> HIDE DEF i
  <2> QED
    BY <2>1, <2>2, <2>3, <2>4, <1>2 DEF PlanAt, has
<1>9. ASSUME NEW p \in both, NEW r \in both, NEW c, c \in Part(tracker, p.range), c \in Part(tracker, r.range)
      PROVE  p = r
  <2>1. CASE p \in pending /\ r \in pending
    BY <2>1, <1>9 DEF PlansAt
  <2>2. CASE p \in plan /\ r \in plan
    BY <2>2, <1>9, <1>2
  <2>3. CASE p \in pending /\ r \in plan
    BY <2>3, <1>9, <1>2, <1>5, <1>6
  <2>4. CASE p \in plan /\ r \in pending
    BY <2>4, <1>9, <1>2, <1>5, <1>6
  <2> QED
    BY <2>1, <2>2, <2>3, <2>4
<1>10. PlansAt(tracker, ops, next, done.claims, both)
  BY <1>7, <1>8, <1>9 DEF PlansAt
<1>11. ASSUME NEW c \in 0..SizeOf(tracker) - 1
       PROVE  SourcesOf(tracker, done.claims, both)[c] = SourcesOf(tracker, claims, pending)[c]
  <2>1. SourcesOf(tracker, done.claims, both)[c]
            = IF NeedsNone(tracker, done.claims, both, c) THEN Ignored ELSE Src(tracker, c)
    <3> HIDE DEF both
    <3> QED
      BY <1>10, SourceIs
  <2>2. SourcesOf(tracker, claims, pending)[c]
            = IF NeedsNone(tracker, claims, pending, c) THEN Ignored ELSE Src(tracker, c)
    BY SourceIs
  <2>3. NeedsNone(tracker, claims, pending, c) <=> c \in had /\ \A p \in pending : c \notin Part(tracker, p.range)
    BY DEF NeedsNone, had
  <2>4. NeedsNone(tracker, done.claims, both, c)
            <=> /\ c \in has /\ \A p \in pending : c \notin Part(tracker, p.range)
                /\ \A p \in plan : c \notin Part(tracker, p.range)
    BY DEF NeedsNone, has
  <2>5. CASE c \in had
    <3>1. c \in has /\ \A p \in plan : c \notin Part(tracker, p.range)
      BY <2>5, <1>1, <1>2, <1>5
    <3> QED
      BY <2>1, <2>2, <2>3, <2>4, <2>5, <3>1
  <2>6. CASE c \notin had
    <3>1. ~NeedsNone(tracker, claims, pending, c)
      BY <2>3, <2>6
    <3>2. CASE NeedsNone(tracker, done.claims, both, c)
      <4>1. c \in rest /\ Src(tracker, c) = Ignored
        BY <3>2, <2>4, <2>6, <1>1, <1>2, <1>5
      <4> QED
        BY <2>1, <2>2, <3>1, <3>2, <4>1
    <3> QED
      BY <2>1, <2>2, <3>1, <3>2
  <2> QED
    BY <2>5, <2>6
<1>12. SourcesOf(tracker, done.claims, both) = SourcesOf(tracker, claims, pending)
  BY <1>11 DEF SourcesOf
<1> HIDE DEF both
<1>13. JoinsQueue(ops, q, t, claims, pending, done.claims, both)
  BY <1>1, <1>10, <1>12 DEF JoinsQueue, next, has, had
<1> QED
  BY <1>13 DEF both

\* The first of the queue leaves it: what was planned for its cells is consumed.
Consumed(pending, range) == {p \in pending : ~Intersects(p.range, range)}

LeavesQueue(ops, q, range, claims, was, is) ==
    /\ PlansAt(tracker, ops, Tail(q), claims, is)
    /\ \A c \in 0..SizeOf(tracker) - 1 :
        SourcesOf(tracker, claims, is)[c]
            = IF c \in Part(tracker, range) THEN Ignored ELSE SourcesOf(tracker, claims, was)[c]

LEMMA PlansLeave ==
    ASSUME tracker \in Trackers, NEW ops, NEW q, q \in Seq(Threads), q # <<>>,
           NEW claims, NEW pending, PlansAt(tracker, ops, q, claims, pending),
           NEW range, range = Used(ops, q[1]), range \in RangesOf(tracker),
           Part(tracker, range) \subseteq ClaimedIn(tracker, claims)
    PROVE  LeavesQueue(ops, q, range, claims, pending, Consumed(pending, range))
<1> DEFINE rest == Consumed(pending, range)
           had == ClaimedIn(tracker, claims)
           next == Tail(q)
<1>1. /\ Len(q) \in Nat \ {0} /\ Len(next) = Len(q) - 1
      /\ \A i \in 1..Len(q) - 1 : next[i] = q[i + 1]
  OBVIOUS
<1>2. \A p \in pending : PlanAt(tracker, ops, q, claims, p) /\ p.range \in RangesOf(tracker)
  BY DEF PlansAt, PlanAt
<1>3. \A p : p \in rest <=> p \in pending /\ \A c \in Part(tracker, p.range) : c \notin Part(tracker, range)
  <2>1. \A p \in pending : Intersects(p.range, range) <=> Shared(tracker, p.range, range)
    BY <1>2, RangesShare
  <2> QED
    BY <2>1 DEF Consumed, Shared
<1> HIDE DEF rest, next, had
<1>4. ASSUME NEW p \in pending
      PROVE  \/ p \in rest /\ PlanAt(tracker, ops, next, claims, p)
             \/ p \notin rest /\ Part(tracker, p.range) \subseteq Part(tracker, range)
  <2>1. PICK i \in 1..Len(q) :
            /\ Part(tracker, p.range) \subseteq Part(tracker, Used(ops, q[i]))
            /\ \A j \in 1..i - 1 : \A c \in Part(tracker, p.range) : c \notin Part(tracker, Used(ops, q[j]))
    BY <1>2 DEF PlanAt
  <2>2. CASE i = 1
    <3>1. Part(tracker, p.range) \subseteq Part(tracker, range)
      BY <2>1, <2>2
    <3>2. Part(tracker, p.range) # {}
      BY <1>2, RangesShare
    <3> QED
      BY <3>1, <3>2, <1>3
  <2>3. CASE i # 1
    <3> DEFINE e == i - 1
    <3>1. i \in Nat /\ e \in 1..Len(next) /\ next[e] = q[i] /\ 1 \in 1..i - 1
      BY <1>1, <2>3
    <3>2. \A j \in 1..e - 1 : j + 1 \in 1..i - 1 /\ next[j] = q[j + 1]
      BY <1>1
    <3>3. p \in rest
      BY <1>3, <2>1, <3>1
    <3>4. \A c \in Part(tracker, p.range) : Src(tracker, c) = p.from /\ c \in ClaimedIn(tracker, claims)
      BY <1>2 DEF PlanAt
    <3> HIDE DEF e
    <3>5. PlanAt(tracker, ops, next, claims, p)
      <4>1. Part(tracker, p.range) \subseteq Part(tracker, Used(ops, next[e]))
        BY <2>1, <3>1
      <4>2. \A j \in 1..e - 1 : \A c \in Part(tracker, p.range) : c \notin Part(tracker, Used(ops, next[j]))
        BY <2>1, <3>2
      <4> QED
        BY <4>1, <4>2, <3>1, <3>4, <1>2 DEF PlanAt
    <3> QED
      BY <3>3, <3>5
  <2> QED
    BY <2>2, <2>3
<1>5. PlansAt(tracker, ops, next, claims, rest)
  <2>1. \A p \in rest : p \in pending /\ PlanAt(tracker, ops, next, claims, p)
    BY <1>3, <1>4
  <2>2. \A p, r \in pending : \A c : c \in Part(tracker, p.range) /\ c \in Part(tracker, r.range) => p = r
    BY DEF PlansAt
  <2> QED
    BY <2>1, <2>2 DEF PlansAt
<1>6. ASSUME NEW c \in 0..SizeOf(tracker) - 1
      PROVE  SourcesOf(tracker, claims, rest)[c]
                = IF c \in Part(tracker, range) THEN Ignored ELSE SourcesOf(tracker, claims, pending)[c]
  <2>1. SourcesOf(tracker, claims, rest)[c]
            = IF NeedsNone(tracker, claims, rest, c) THEN Ignored ELSE Src(tracker, c)
    BY <1>5, SourceIs
  <2>2. SourcesOf(tracker, claims, pending)[c]
            = IF NeedsNone(tracker, claims, pending, c) THEN Ignored ELSE Src(tracker, c)
    BY SourceIs
  <2>3. CASE c \in Part(tracker, range)
    <3>1. NeedsNone(tracker, claims, rest, c)
      BY <2>3, <1>3 DEF NeedsNone
    <3> QED
      BY <2>1, <2>3, <3>1
  <2>4. CASE c \notin Part(tracker, range)
    <3>1. NeedsNone(tracker, claims, rest, c) <=> NeedsNone(tracker, claims, pending, c)
      BY <2>4, <1>3, <1>4 DEF NeedsNone
    <3> QED
      BY <2>1, <2>2, <2>4, <3>1
  <2> QED
    BY <2>3, <2>4
<1>7. LeavesQueue(ops, q, range, claims, pending, rest)
  BY <1>5, <1>6 DEF LeavesQueue, next
<1> QED
  BY <1>7 DEF rest

\* The barriers of a command acquire each of its cells from whom it is planned to be taken.
LEMMA BarriersAcquire ==
    ASSUME tracker \in Trackers, NEW ops, NEW q, NEW claims, NEW pending,
           PlansAt(tracker, ops, q, claims, pending),
           NEW range \in RangesOf(tracker), Part(tracker, range) \subseteq ClaimedIn(tracker, claims),
           NEW g \in Grains, NEW barriers,
           barriers = UNION {BarrierRanges(p, pending) : p \in Split(range, g)},
           NEW c \in Part(tracker, range)
    PROVE  AcquiredFrom(CHOOSE b \in barriers : c \in CellsOf(b), pending) = SourcesOf(tracker, claims, pending)[c]
<1> DEFINE parts == Split(range, g)
           into == [p \in parts |-> BarrierRanges(p, pending)]
           b == CHOOSE x \in barriers : c \in CellsOf(x)
           found == {p \in pending : Covers(p.range, b)}
<1>1. \A p \in pending : PlanAt(tracker, ops, q, claims, p) /\ p.range \in RangesOf(tracker)
  BY DEF PlansAt, PlanAt
<1>2. Divides(tracker, parts, range)
  BY GrainsCut, SplitParts
<1>3. Tiles(tracker, parts, Part(tracker, range))
  BY <1>2 DEF Divides, Tiles
<1>4. ASSUME NEW p \in parts
      PROVE  Divides(tracker, into[p], p) /\ \A r \in pending : Uncrossed(into[p], r.range)
  <2>1. p \in RangesOf(tracker) /\ into[p] = BarrierRanges(p, pending)
    BY <1>2 DEF Divides
  <2> QED
    BY <2>1, <1>1, BarriersDivide
<1>5. barriers = UNION {into[p] : p \in parts}
  OBVIOUS
<1> HIDE DEF parts, into, b
<1>6. Tiles(tracker, barriers, Part(tracker, range))
  BY <1>3, <1>4, <1>5, TilesOfTiles
<1>7. b \in barriers /\ c \in CellsOf(b) /\ c \in Part(tracker, b) /\ b \in RangesOf(tracker)
  <2>1. \E x \in barriers : c \in Part(tracker, x)
    BY <1>6 DEF Tiles
  <2>2. \A x : CellsOf(x) = Part(tracker, x)
    BY Terms
  <2>3. b \in barriers /\ c \in CellsOf(b)
    BY <2>1, <2>2 DEF b
  <2> QED
    BY <2>2, <2>3, <1>6 DEF Tiles
<1>8. ASSUME NEW p \in pending, c \in Part(tracker, p.range)
      PROVE  p \in found
  <2>1. PICK r \in parts : b \in into[r]
    BY <1>5, <1>7
  <2>2. c \in CellsOf(p.range)
    BY <1>8, Terms
  <2>3. Covers(p.range, b)
    BY <2>1, <2>2, <1>4, <1>7 DEF Uncrossed
  <2> QED
    BY <2>3
<1>9. ASSUME NEW p \in found
      PROVE  p \in pending /\ c \in Part(tracker, p.range) /\ p.from = Src(tracker, c)
  <2>1. p \in pending /\ Covers(p.range, b)
    OBVIOUS
  <2>2. c \in Part(tracker, p.range)
    BY <2>1, <1>1, <1>7, RangesShare
  <2> QED
    BY <2>1, <2>2, <1>1 DEF PlanAt
<1>10. c \in 0..SizeOf(tracker) - 1 /\ c \in ClaimedIn(tracker, claims)
  BY RangeIs, Terms
<1>11. SourcesOf(tracker, claims, pending)[c]
            = IF NeedsNone(tracker, claims, pending, c) THEN Ignored ELSE Src(tracker, c)
  BY <1>10, SourceIs
<1>12. AcquiredFrom(b, pending) = IF found = {} THEN Ignored ELSE (CHOOSE p \in found : TRUE).from
  BY DEF AcquiredFrom
<1> HIDE DEF found
<1>13. CASE found = {}
  <2>1. NeedsNone(tracker, claims, pending, c)
    BY <1>8, <1>10, <1>13 DEF NeedsNone
  <2> QED
    BY <2>1, <1>11, <1>12, <1>13 DEF b
<1>14. CASE found # {}
  <2> DEFINE p == CHOOSE x \in found : TRUE
  <2>1. p \in found
    BY <1>14
  <2>2. AcquiredFrom(b, pending) = p.from
    BY <1>12, <1>14
  <2> HIDE DEF p
  <2>3. p.from = Src(tracker, c) /\ ~NeedsNone(tracker, claims, pending, c)
    BY <2>1, <1>9 DEF NeedsNone
  <2> QED
    BY <2>2, <2>3, <1>11 DEF b
<1> QED
  BY <1>13, <1>14

-----------------------------------------------------------------------------
(* The invariant of the claims of a recording                               *)

ClaimsLabels == {"idle", "track", "tracked", "return"}

InQueue(q, t) == \E i \in 1..Len(q) : q[i] = t
Different(q) == \A i, j \in 1..Len(q) : q[i] = q[j] => i = j

\* A command at label l with operation o and answer r
CommandAt(k, l, o, r, q, claims, t) ==
    /\ l = "idle" => o = None /\ r = None
    /\ l # "idle" => t \in DOMAIN k.ops /\ o \in k.ops[t]
    /\ l \in {"track", "tracked"} => r = None
    /\ l = "return" => r # None
    /\ l = "tracked" <=> InQueue(q, t)
    /\ l = "tracked" => Part(k, o.ranges[1]) \subseteq ClaimedIn(k, claims)

ClaimsTyped ==
    /\ tracker \in Trackers /\ IsClaims /\ lock = None
    /\ pc \in [Threads -> ClaimsLabels] /\ IsFun(op) /\ IsFun(reply)
    /\ word \in [queue : Seq(Threads), recording : BOOLEAN]
    /\ store = [claims |-> store.claims, pending |-> store.pending]

ClaimsMap ==
    /\ Different(word.queue)
    /\ ClaimsForm(tracker, store.claims)
    /\ PlansAt(tracker, op, word.queue, store.claims, store.pending)

ClaimsThreads ==
    \A t \in Threads : CommandAt(tracker, pc[t], op[t], reply[t], word.queue, store.claims, t)

ClaimsInv == ClaimsTyped /\ ClaimsMap /\ ClaimsThreads

\* What an operation of the tracker is
LEMMA ClaimsOp ==
    ASSUME tracker \in Trackers, IsClaims, NEW t \in Users, NEW o \in tracker.ops[t]
    PROVE  /\ t \in Threads /\ o # None /\ o.do = "use" /\ Len(o.ranges) = 1
           /\ o.ranges \in Seq(RangesOf(tracker)) /\ o.ranges[1] \in RangesOf(tracker)
<1>1. /\ t \in Threads /\ o # None /\ o.do = "use" /\ Len(o.ranges) = 1 /\ o.ranges \in Seq(RangesOf(tracker))
  BY TrackerAssumption, ClaimsAssumption DEF IsClaims, Users
<1> QED
  BY <1>1

\* A thread of a step, and its operation
LEMMA ClaimsFrom ==
    ASSUME ClaimsInv, NEW t \in Users
    PROVE  /\ t \in Threads /\ tracker \in Trackers /\ IsClaims
           /\ CommandAt(tracker, pc[t], op[t], reply[t], word.queue, store.claims, t)
           /\ pc[t] # "idle" => /\ op[t] # None /\ op[t] \in tracker.ops[t] /\ op[t].do = "use"
                                /\ Used(op, t) \in RangesOf(tracker)
                                /\ op[t].ranges \in Seq(RangesOf(tracker)) /\ Len(op[t].ranges) = 1
<1>1. t \in Threads /\ tracker \in Trackers /\ IsClaims
  BY TrackerAssumption DEF ClaimsInv, ClaimsTyped, Users
<1>2. CommandAt(tracker, pc[t], op[t], reply[t], word.queue, store.claims, t)
  BY <1>1 DEF ClaimsInv, ClaimsThreads
<1>3. pc[t] # "idle" => op[t] \in tracker.ops[t]
  BY <1>2 DEF CommandAt
<1> QED
  BY <1>1, <1>2, <1>3, ClaimsOp DEF Used

\* The other threads are where they were.
LEMMA ClaimsKeep ==
    ASSUME ClaimsInv, NEW t \in Threads,
           tracker' = tracker, lock' = lock,
           NEW l \in ClaimsLabels, pc' = [pc EXCEPT ![t] = l],
           NEW o, op' = op \/ op' = [op EXCEPT ![t] = o], NEW r, reply' = reply \/ reply' = [reply EXCEPT ![t] = r],
           word' \in [queue : Seq(Threads), recording : BOOLEAN],
           store' = [claims |-> store'.claims, pending |-> store'.pending],
           ClaimsMap',
           \A u \in Threads : u # t => (InQueue(word'.queue, u) <=> InQueue(word.queue, u)),
           ClaimedIn(tracker, store.claims) \subseteq ClaimedIn(tracker, store'.claims),
           CommandAt(tracker, l, op'[t], reply'[t], word'.queue, store'.claims, t)
    PROVE  ClaimsInv'
<1>1. pc \in [Threads -> ClaimsLabels] /\ IsFun(op) /\ IsFun(reply) /\ tracker \in Trackers /\ IsClaims /\ lock = None
  BY DEF ClaimsInv, ClaimsTyped
<1>2. pc' \in [Threads -> ClaimsLabels] /\ pc'[t] = l /\ \A u \in Threads : u # t => pc'[u] = pc[u]
  BY <1>1
<1>3. IsFun(op') /\ \A u \in Threads : u # t => op'[u] = op[u]
  <2>1. CASE op' = op
    BY <1>1, <2>1
  <2>2. CASE op' = [op EXCEPT ![t] = o]
    <3>1. IsPut(op', op, t, o)
      BY <1>1, <2>2, Excepted, Zenon
    <3> QED
      BY <3>1 DEF IsPut
  <2> QED
    BY <2>1, <2>2
<1>4. IsFun(reply') /\ \A u \in Threads : u # t => reply'[u] = reply[u]
  <2>1. CASE reply' = reply
    BY <1>1, <2>1
  <2>2. CASE reply' = [reply EXCEPT ![t] = r]
    <3>1. IsPut(reply', reply, t, r)
      BY <1>1, <2>2, Excepted, Zenon
    <3> QED
      BY <3>1 DEF IsPut
  <2> QED
    BY <2>1, <2>2
<1>5. ClaimsTyped'
  BY <1>1, <1>2, <1>3, <1>4 DEF ClaimsTyped, IsClaims
<1>6. ASSUME NEW u \in Threads
      PROVE  CommandAt(tracker, pc'[u], op'[u], reply'[u], word'.queue, store'.claims, u)
  <2>1. CASE u = t
    BY <2>1, <1>2
  <2>2. CASE u # t
    <3>1. CommandAt(tracker, pc[u], op[u], reply[u], word.queue, store.claims, u)
      BY DEF ClaimsInv, ClaimsThreads
    <3>2. pc'[u] = pc[u] /\ op'[u] = op[u] /\ reply'[u] = reply[u]
      BY <2>2, <1>2, <1>3, <1>4
    <3>3. InQueue(word'.queue, u) <=> InQueue(word.queue, u)
      BY <2>2
    <3> QED
      BY <3>1, <3>2, <3>3 DEF CommandAt
  <2> QED
    BY <2>1, <2>2
<1>7. ClaimsThreads'
  BY <1>6 DEF ClaimsThreads
<1> QED
  BY <1>5, <1>7 DEF ClaimsInv

\* What the queue knows of its commands
LEMMA QueueIs ==
    ASSUME ClaimsInv
    PROVE  /\ word.queue \in Seq(Threads) /\ Len(word.queue) \in Nat
           /\ \A i \in 1..Len(word.queue) :
                /\ word.queue[i] \in Users /\ pc[word.queue[i]] = "tracked"
                /\ Part(tracker, Used(op, word.queue[i])) \subseteq ClaimedIn(tracker, store.claims)
<1>1. word.queue \in Seq(Threads)
  BY DEF ClaimsInv, ClaimsTyped
<1>2. ASSUME NEW i \in 1..Len(word.queue)
      PROVE  /\ word.queue[i] \in Users /\ pc[word.queue[i]] = "tracked"
             /\ Part(tracker, Used(op, word.queue[i])) \subseteq ClaimedIn(tracker, store.claims)
  <2> DEFINE u == word.queue[i]
  <2>1. u \in Threads
    BY <1>1
  <2>2. InQueue(word.queue, u)
    BY DEF InQueue
  <2>3. CommandAt(tracker, pc[u], op[u], reply[u], word.queue, store.claims, u)
    BY <2>1 DEF ClaimsInv, ClaimsThreads
  <2> QED
    BY <2>2, <2>3 DEF CommandAt, Used, Users
<1> QED
  BY <1>1, <1>2

\* A command is tracked,
LEMMA CallUseKeeps ==
    ASSUME ClaimsInv, NEW t \in Users, CallUse(t)
    PROVE  ClaimsInv'
<1>1. /\ t \in Threads /\ tracker \in Trackers /\ IsClaims
      /\ CommandAt(tracker, pc[t], op[t], reply[t], word.queue, store.claims, t)
  BY ClaimsFrom
<1>2. PICK o \in tracker.ops[t] : op' = [op EXCEPT ![t] = o] /\ pc' = [pc EXCEPT ![t] = "track"]
  BY DEF CallUse, Begin, Goto
<1>3. /\ pc[t] = "idle" /\ tracker' = tracker /\ word' = word /\ store' = store /\ lock' = lock
      /\ reply' = reply
  BY DEF CallUse, Begin
<1>4. IsFun(op) /\ word \in [queue : Seq(Threads), recording : BOOLEAN]
      /\ store = [claims |-> store.claims, pending |-> store.pending]
  BY DEF ClaimsInv, ClaimsTyped
<1>5. IsPut(op', op, t, o)
  BY <1>1, <1>2, <1>4, Excepted, Zenon
<1>6. op'[t] = o /\ \A u \in Threads : u # t => op'[u] = op[u]
  BY <1>5 DEF IsPut
<1>7. reply[t] = None /\ ~InQueue(word.queue, t)
  BY <1>1, <1>3 DEF CommandAt
<1>8. ClaimsMap'
  <2>1. word.queue \in Seq(Threads) /\ Len(word.queue) \in Nat
    BY QueueIs
  <2>2. \A i \in 1..Len(word.queue) : op'[word.queue[i]] = op[word.queue[i]]
    <3>1. \A i \in 1..Len(word.queue) : word.queue[i] \in Threads /\ word.queue[i] # t
      BY <1>7, <2>1 DEF InQueue
    <3> QED
      BY <3>1, <1>6
  <2>3. /\ Different(word.queue) /\ ClaimsForm(tracker, store.claims)
        /\ PlansAt(tracker, op, word.queue, store.claims, store.pending)
    BY DEF ClaimsInv, ClaimsMap
  <2>4. PlansAt(tracker, op', word.queue, store.claims, store.pending)
    BY <2>1, <2>2, <2>3, PlansSame
  <2> QED
    BY <2>3, <2>4, <1>3 DEF ClaimsMap
<1>9. CommandAt(tracker, "track", op'[t], reply'[t], word'.queue, store'.claims, t)
  BY <1>1, <1>3, <1>6, <1>7 DEF CommandAt, Users
<1>10. "track" \in ClaimsLabels
  BY DEF ClaimsLabels
<1>11. /\ word' \in [queue : Seq(Threads), recording : BOOLEAN]
       /\ store' = [claims |-> store'.claims, pending |-> store'.pending]
       /\ \A u \in Threads : u # t => (InQueue(word'.queue, u) <=> InQueue(word.queue, u))
       /\ ClaimedIn(tracker, store.claims) \subseteq ClaimedIn(tracker, store'.claims)
  BY <1>3, <1>4
<1> QED
  BY <1>1, <1>2, <1>3, <1>8, <1>9, <1>10, <1>11, ClaimsKeep

\* what it is tracked as, and that nothing moves,
LEMMA TrackIs ==
    ASSUME ClaimsInv, NEW t \in Users, TrackPendingTransfers(t)
    PROVE  /\ word' \in [queue : Seq(Threads), recording : BOOLEAN] /\ word'.queue = Append(word.queue, t)
           /\ store' = [claims |-> store'.claims, pending |-> store'.pending]
           /\ ClaimsForm(tracker, store'.claims)
           /\ ClaimedIn(tracker, store'.claims)
                = ClaimedIn(tracker, store.claims) \cup Part(tracker, Used(op, t))
           /\ PlansAt(tracker, op, word'.queue, store'.claims, store'.pending)
           /\ SourcesOf(tracker, store'.claims, store'.pending)
                = SourcesOf(tracker, store.claims, store.pending)
<1>1. /\ t \in Threads /\ tracker \in Trackers /\ Used(op, t) \in RangesOf(tracker)
  <2>1. pc[t] # "idle"
    BY DEF TrackPendingTransfers
  <2> QED
    BY <2>1, ClaimsFrom
<1> DEFINE done == Claim(store.claims, op[t].ranges[1])
<1>2. PICK plan \in Plans(done.free) :
        store' = [claims |-> done.claims, pending |-> store.pending \cup plan]
  BY DEF TrackPendingTransfers
<1>3. done = Claim(store.claims, Used(op, t))
  BY DEF Used
<1> HIDE DEF done
<1>4. store'.claims = done.claims /\ store'.pending = store.pending \cup plan
  BY <1>2
<1>5. word \in [queue : Seq(Threads), recording : BOOLEAN]
      /\ ClaimsForm(tracker, store.claims)
      /\ PlansAt(tracker, op, word.queue, store.claims, store.pending)
  BY DEF ClaimsInv, ClaimsTyped, ClaimsMap
<1>6. \A i \in 1..Len(word.queue) :
        Part(tracker, Used(op, word.queue[i])) \subseteq ClaimedIn(tracker, store.claims)
  BY QueueIs
<1> DEFINE claims == store.claims  pending == store.pending  q == word.queue
<1>7. /\ q \in Seq(Threads) /\ ClaimsForm(tracker, claims) /\ PlansAt(tracker, op, q, claims, pending)
      /\ \A i \in 1..Len(q) : Part(tracker, Used(op, q[i])) \subseteq ClaimedIn(tracker, claims)
      /\ done = Claim(claims, Used(op, t))
  BY <1>3, <1>5, <1>6
<1> HIDE DEF claims, pending, q
<1>8. JoinsQueue(op, q, t, claims, pending, done.claims, pending \cup plan)
  BY <1>1, <1>7, PlansJoin
<1>9. word' = [word EXCEPT !.queue = Append(@, t)]
  BY DEF TrackPendingTransfers
<1>10. word' \in [queue : Seq(Threads), recording : BOOLEAN] /\ word'.queue = Append(q, t)
  BY <1>1, <1>5, <1>9, SMTT(40) DEF q
<1>11. store' = [claims |-> store'.claims, pending |-> store'.pending]
  BY <1>2, <1>4
<1> QED
  BY <1>4, <1>8, <1>10, <1>11 DEF JoinsQueue, claims, pending, q

\* so that the invariant still holds,
LEMMA TrackKeeps ==
    ASSUME ClaimsInv, NEW t \in Users, TrackPendingTransfers(t)
    PROVE  ClaimsInv'
<1>1. /\ pc[t] = "track" /\ tracker' = tracker /\ lock' = lock /\ op' = op /\ reply' = reply
      /\ pc' = [pc EXCEPT ![t] = "tracked"]
  BY DEF TrackPendingTransfers, Goto
<1>2. /\ t \in Threads /\ tracker \in Trackers
      /\ CommandAt(tracker, pc[t], op[t], reply[t], word.queue, store.claims, t)
  BY ClaimsFrom
<1> DEFINE q == word.queue
<1>3. q \in Seq(Threads) /\ Len(q) \in Nat /\ Different(q) /\ ~InQueue(q, t)
  BY <1>1, <1>2, QueueIs DEF ClaimsInv, ClaimsMap, CommandAt
<1>4. word'.queue = Append(q, t)
  BY TrackIs
<1> HIDE DEF q
<1>5. /\ Len(Append(q, t)) = Len(q) + 1 /\ Append(q, t)[Len(q) + 1] = t
      /\ \A i \in 1..Len(q) : Append(q, t)[i] = q[i]
  BY <1>2, <1>3
<1>6. /\ \A i \in 1..Len(q) + 1 : i \in 1..Len(q) \/ i = Len(q) + 1
      /\ \A i \in 1..Len(q) : i \in 1..Len(q) + 1
      /\ Len(q) + 1 \in 1..Len(q) + 1
  BY <1>3
<1>7. Different(Append(q, t))
  BY <1>3, <1>5, <1>6 DEF Different, InQueue
<1>8. InQueue(Append(q, t), t) /\ \A u \in Threads : u # t => (InQueue(Append(q, t), u) <=> InQueue(q, u))
  BY <1>5, <1>6 DEF InQueue
<1>9. ClaimsMap'
  BY <1>1, <1>4, <1>7, TrackIs DEF ClaimsMap
<1>10. CommandAt(tracker, "tracked", op'[t], reply'[t], word'.queue, store'.claims, t)
  <2>1. Part(tracker, Used(op, t)) \subseteq ClaimedIn(tracker, store'.claims)
    BY TrackIs
  <2> QED
    BY <2>1, <1>1, <1>2, <1>4, <1>8 DEF CommandAt, Used
<1>11. "tracked" \in ClaimsLabels
  BY DEF ClaimsLabels
<1>12. \A u \in Threads : u # t => (InQueue(word'.queue, u) <=> InQueue(word.queue, u))
  BY <1>4, <1>8 DEF q
<1>13. ClaimedIn(tracker, store.claims) \subseteq ClaimedIn(tracker, store'.claims)
  BY TrackIs
<1>14. /\ word' \in [queue : Seq(Threads), recording : BOOLEAN]
       /\ store' = [claims |-> store'.claims, pending |-> store'.pending]
  BY TrackIs
<1> QED
  BY <1>1, <1>2, <1>9, <1>10, <1>11, <1>12, <1>13, <1>14, ClaimsKeep

\* and it returns.
LEMMA ReturnKeeps ==
    ASSUME ClaimsInv, NEW t \in Users, Return(t)
    PROVE  ClaimsInv'
<1>1. /\ pc[t] = "return" /\ tracker' = tracker /\ lock' = lock /\ word' = word /\ store' = store
      /\ op' = [op EXCEPT ![t] = None] /\ reply' = [reply EXCEPT ![t] = None]
      /\ pc' = [pc EXCEPT ![t] = "idle"]
  BY DEF Return, Idle, Goto, Reply
<1>2. /\ t \in Threads /\ tracker \in Trackers
      /\ CommandAt(tracker, pc[t], op[t], reply[t], word.queue, store.claims, t)
  BY ClaimsFrom
<1>3. /\ IsFun(op) /\ IsFun(reply) /\ word \in [queue : Seq(Threads), recording : BOOLEAN]
      /\ store = [claims |-> store.claims, pending |-> store.pending]
  BY DEF ClaimsInv, ClaimsTyped
<1>4. IsPut(op', op, t, None) /\ IsPut(reply', reply, t, None)
  BY <1>1, <1>2, <1>3, Excepted, Zenon
<1>5. op'[t] = None /\ reply'[t] = None /\ \A u \in Threads : u # t => op'[u] = op[u]
  BY <1>4 DEF IsPut
<1>6. ~InQueue(word.queue, t)
  BY <1>1, <1>2 DEF CommandAt
<1>7. ClaimsMap'
  <2>1. word.queue \in Seq(Threads) /\ Len(word.queue) \in Nat
    BY QueueIs
  <2>2. \A i \in 1..Len(word.queue) : op'[word.queue[i]] = op[word.queue[i]]
    <3>1. \A i \in 1..Len(word.queue) : word.queue[i] \in Threads /\ word.queue[i] # t
      BY <1>6, <2>1 DEF InQueue
    <3> QED
      BY <3>1, <1>5
  <2>3. /\ Different(word.queue) /\ ClaimsForm(tracker, store.claims)
        /\ PlansAt(tracker, op, word.queue, store.claims, store.pending)
    BY DEF ClaimsInv, ClaimsMap
  <2>4. PlansAt(tracker, op', word.queue, store.claims, store.pending)
    BY <2>1, <2>2, <2>3, PlansSame
  <2> QED
    BY <2>3, <2>4, <1>1 DEF ClaimsMap
<1>8. CommandAt(tracker, "idle", op'[t], reply'[t], word'.queue, store'.claims, t)
  BY <1>1, <1>5, <1>6 DEF CommandAt
<1>9. "idle" \in ClaimsLabels
  BY DEF ClaimsLabels
<1>10. /\ word' \in [queue : Seq(Threads), recording : BOOLEAN]
       /\ store' = [claims |-> store'.claims, pending |-> store'.pending]
       /\ \A u \in Threads : u # t => (InQueue(word'.queue, u) <=> InQueue(word.queue, u))
       /\ ClaimedIn(tracker, store.claims) \subseteq ClaimedIn(tracker, store'.claims)
  BY <1>1, <1>3
<1> QED
  BY <1>1, <1>2, <1>7, <1>8, <1>9, <1>10, ClaimsKeep

\* The barriers before a command acquire what is planned for it and consume the plans.
LEMMA RecordIs ==
    ASSUME ClaimsInv, NEW t \in Users, RecordBarriers(t)
    PROVE  /\ word' \in [queue : Seq(Threads), recording : BOOLEAN] /\ word'.queue = Tail(word.queue)
           /\ word.queue # <<>> /\ word.queue[1] = t
           /\ store' = [claims |-> store.claims, pending |-> store'.pending]
           /\ LeavesQueue(op, word.queue, Used(op, t), store.claims, store.pending, store'.pending)
           /\ reply' = [reply EXCEPT ![t] =
                  LaidAnswer(SourcesOf(tracker, store.claims, store.pending), Part(tracker, Used(op, t)))]
<1> DEFINE range == Used(op, t)
           claims == store.claims
           pending == store.pending
           q == word.queue
           parts(g) == UNION {BarrierRanges(p, pending) : p \in Split(range, g)}
<1>1. pc[t] = "tracked" /\ t = Head(q)
  BY DEF RecordBarriers
<1>2. /\ t \in Threads /\ tracker \in Trackers /\ range \in RangesOf(tracker)
      /\ CommandAt(tracker, pc[t], op[t], reply[t], q, claims, t)
  <2>1. pc[t] # "idle"
    BY <1>1
  <2> QED
    BY <2>1, ClaimsFrom
<1>3. InQueue(q, t) /\ Part(tracker, range) \subseteq ClaimedIn(tracker, claims)
  BY <1>1, <1>2 DEF CommandAt, Used
<1>4. q \in Seq(Threads) /\ q # <<>> /\ q[1] = t
  <2>1. q \in Seq(Threads)
    BY QueueIs
  <2>2. q # <<>>
    BY <1>3, <2>1 DEF InQueue
  <2> QED
    BY <1>1, <2>1, <2>2
<1>5. PlansAt(tracker, op, q, claims, pending)
  BY DEF ClaimsInv, ClaimsMap
<1>6. store = [claims |-> claims, pending |-> pending]
  BY DEF ClaimsInv, ClaimsTyped
<1>7. word' = [queue |-> Tail(q), recording |-> Len(q) > 1]
  BY DEF RecordBarriers
<1>8. store' = [store EXCEPT !.pending = {p \in @ : ~Intersects(p.range, range)}]
  BY DEF RecordBarriers, Used
<1>9. PICK g \in Grains : reply' = [reply EXCEPT ![t] =
            [c \in CellsOf(range) |-> AcquiredFrom(CHOOSE b \in parts(g) : c \in CellsOf(b), pending)]]
  <2> DEFINE Acquired(b) == [c \in CellsOf(range) |-> AcquiredFrom(CHOOSE x \in b : c \in CellsOf(x), pending)]
  <2>1. \E b \in {parts(g) : g \in Grains} : reply' = [reply EXCEPT ![t] = Acquired(b)]
    BY Zenon DEF RecordBarriers, Reply, Used
  <2> HIDE DEF Acquired, parts
  <2>2. PICK g \in Grains : reply' = [reply EXCEPT ![t] = Acquired(parts(g))]
    BY <2>1, Zenon
  <2> QED
    BY <2>2, Zenon DEF Acquired
<1> DEFINE barriers == parts(g)
<1>10. barriers = UNION {BarrierRanges(p, pending) : p \in Split(range, g)}
  OBVIOUS
<1>11. reply' = [reply EXCEPT ![t] =
            [c \in CellsOf(range) |-> AcquiredFrom(CHOOSE b \in barriers : c \in CellsOf(b), pending)]]
  BY <1>9
<1>12. Consumed(pending, range) = {p \in pending : ~Intersects(p.range, range)}
  BY DEF Consumed
<1>13. store' = [claims |-> claims, pending |-> Consumed(pending, range)]
  BY <1>6, <1>8, <1>12
<1>14. range = Used(op, q[1])
  BY <1>4
<1> HIDE DEF range, claims, pending, q, barriers
<1>15. LeavesQueue(op, q, range, claims, pending, Consumed(pending, range))
  BY <1>2, <1>3, <1>4, <1>5, <1>14, PlansLeave
<1>16. \A c \in Part(tracker, range) :
        AcquiredFrom(CHOOSE b \in barriers : c \in CellsOf(b), pending) = SourcesOf(tracker, claims, pending)[c]
  BY <1>2, <1>3, <1>5, <1>10, BarriersAcquire
<1>17. CellsOf(range) = Part(tracker, range)
  BY Terms
<1> DEFINE acquired == [c \in CellsOf(range) |-> AcquiredFrom(CHOOSE b \in barriers : c \in CellsOf(b), pending)]
<1>18. acquired = LaidAnswer(SourcesOf(tracker, claims, pending), Part(tracker, range))
  BY <1>16, <1>17 DEF LaidAnswer
<1>19. reply' = [reply EXCEPT ![t] = acquired]
  BY <1>11
<1> HIDE DEF acquired
<1>20. store'.pending = Consumed(pending, range)
  BY <1>13
<1>21. word'.queue = Tail(q) /\ word' \in [queue : Seq(Threads), recording : BOOLEAN]
  <2>1. (Len(q) > 1) \in BOOLEAN /\ Tail(q) \in Seq(Threads)
    BY <1>4
  <2> QED
    BY <1>7, <2>1
<1> QED
  BY <1>4, <1>13, <1>15, <1>18, <1>19, <1>20, <1>21 DEF range, claims, pending, q

\* What may be acquired
LEMMA SourceTyped ==
    ASSUME tracker \in Trackers, IsClaims, NEW ops, NEW q, NEW claims, NEW pending,
           PlansAt(tracker, ops, q, claims, pending), NEW c \in 0..SizeOf(tracker) - 1
    PROVE  SourcesOf(tracker, claims, pending)[c] \in {Ignored} \cup tracker.values
<1>1. Src(tracker, c) \in {Ignored} \cup tracker.values
  BY ClaimsAssumption DEF Src, IsClaims
<1> QED
  BY <1>1, SourceIs

\* is an answer.
LEMMA AnswerTyped ==
    ASSUME ClaimsInv, NEW range \in RangesOf(tracker), NEW a,
           a = LaidAnswer(SourcesOf(tracker, store.claims, store.pending), Part(tracker, range))
    PROVE  a # None
<1> DEFINE values == {Ignored} \cup tracker.values
           cells == Part(tracker, range)
           sources == SourcesOf(tracker, store.claims, store.pending)
<1>1. tracker \in Trackers /\ IsClaims /\ PlansAt(tracker, op, word.queue, store.claims, store.pending)
  BY DEF ClaimsInv, ClaimsTyped, ClaimsMap
<1>2. cells \subseteq 0..SizeOf(tracker) - 1
  BY <1>1, RangeIs, Terms
<1>3. \A c \in 0..SizeOf(tracker) - 1 : sources[c] \in values
  BY <1>1, SourceTyped
<1>4. None \notin [cells -> values]
  <2>1. ValuesOf(tracker) = values
    BY <1>1 DEF ValuesOf, IsClaims
  <2>2. cells \in SUBSET (0..SizeOf(tracker) - 1)
    BY <1>2
  <2> HIDE DEF cells, values
  <2> QED
    BY <1>1, <2>1, <2>2, NoneAssumption
<1> HIDE DEF cells, values, sources
<1>5. a \in [cells -> values]
  BY <1>2, <1>3 DEF LaidAnswer, cells, sources
<1> QED
  BY <1>4, <1>5

\* The next command is the first of the queue then.
LEMMA RecordKeeps ==
    ASSUME ClaimsInv, NEW t \in Users, RecordBarriers(t)
    PROVE  ClaimsInv'
<1>1. /\ pc[t] = "tracked" /\ tracker' = tracker /\ lock' = lock /\ op' = op
      /\ pc' = [pc EXCEPT ![t] = "return"]
  BY DEF RecordBarriers, Goto
<1>2. /\ t \in Threads /\ tracker \in Trackers /\ Used(op, t) \in RangesOf(tracker)
      /\ CommandAt(tracker, pc[t], op[t], reply[t], word.queue, store.claims, t)
  <2>1. pc[t] # "idle"
    BY <1>1
  <2> QED
    BY <2>1, ClaimsFrom
<1> DEFINE q == word.queue
           a == LaidAnswer(SourcesOf(tracker, store.claims, store.pending), Part(tracker, Used(op, t)))
<1>3. q \in Seq(Threads) /\ Len(q) \in Nat /\ Different(q)
  BY QueueIs DEF ClaimsInv, ClaimsMap
<1>4. word'.queue = Tail(q) /\ q # <<>> /\ q[1] = t
  BY RecordIs
<1>5. reply' = [reply EXCEPT ![t] = a] /\ a # None
  BY <1>2, RecordIs, AnswerTyped
<1>6. /\ LeavesQueue(op, q, Used(op, t), store.claims, store.pending, store'.pending)
      /\ store' = [claims |-> store.claims, pending |-> store'.pending]
  BY RecordIs
<1> HIDE DEF q, a
<1>7. /\ Len(q) \in Nat \ {0} /\ Len(Tail(q)) = Len(q) - 1
      /\ \A i \in 1..Len(q) - 1 : Tail(q)[i] = q[i + 1]
  BY <1>3, <1>4
<1>8. /\ \A i \in 1..Len(q) : i = 1 \/ i - 1 \in 1..Len(q) - 1
      /\ \A i \in 1..Len(q) - 1 : i + 1 \in 1..Len(q) /\ i + 1 # 1
      /\ 1 \in 1..Len(q)
      /\ \A i, j \in 1..Len(q) - 1 : i + 1 = j + 1 => i = j
      /\ \A i \in 1..Len(q) : i - 1 + 1 = i
  BY <1>7
<1>9. Different(Tail(q))
  BY <1>3, <1>7, <1>8 DEF Different
<1>10. ~InQueue(Tail(q), t)
  BY <1>3, <1>4, <1>7, <1>8 DEF Different, InQueue
<1>11. ASSUME NEW u \in Threads, u # t
       PROVE  InQueue(Tail(q), u) <=> InQueue(q, u)
  BY <1>4, <1>7, <1>8, <1>11 DEF InQueue
<1>12. store'.claims = store.claims
  BY <1>6
<1>13. ClaimsMap'
  BY <1>1, <1>4, <1>6, <1>9, <1>12 DEF ClaimsMap, ClaimsInv, LeavesQueue
<1>14. IsPut(reply', reply, t, a)
  <2>1. IsFun(reply)
    BY DEF ClaimsInv, ClaimsTyped
  <2> QED
    BY <1>2, <1>5, <2>1, Excepted, Zenon
<1>15. reply'[t] # None
  BY <1>5, <1>14 DEF IsPut
<1>16. CommandAt(tracker, "return", op'[t], reply'[t], word'.queue, store'.claims, t)
  BY <1>1, <1>2, <1>4, <1>10, <1>15 DEF CommandAt
<1>17. "return" \in ClaimsLabels
  BY DEF ClaimsLabels
<1>18. \A u \in Threads : u # t => (InQueue(word'.queue, u) <=> InQueue(word.queue, u))
  BY <1>4, <1>11 DEF q
<1>19. ClaimedIn(tracker, store.claims) \subseteq ClaimedIn(tracker, store'.claims)
  BY <1>12
<1>20. /\ word' \in [queue : Seq(Threads), recording : BOOLEAN]
       /\ store' = [claims |-> store'.claims, pending |-> store'.pending]
  BY <1>6, <1>12, RecordIs
<1> QED
  BY <1>1, <1>2, <1>5, <1>13, <1>16, <1>17, <1>18, <1>19, <1>20, ClaimsKeep

\* No command is tracked at first,
LEMMA ClaimsStarts == Init /\ IsClaims => ClaimsInv
<1> SUFFICES ASSUME Init, IsClaims PROVE ClaimsInv
  OBVIOUS
<1>1. /\ tracker \in Trackers /\ lock = None /\ pc = [t \in Threads |-> "idle"]
      /\ op = [t \in Threads |-> None] /\ reply = [t \in Threads |-> None] /\ ClaimsInit
  BY DEF Init, IsClaims, IsSharing, IsAccess
<1>2. word = [queue |-> <<>>, recording |-> FALSE]
  BY <1>1 DEF ClaimsInit
<1>3. word \in [queue : Seq(Threads), recording : BOOLEAN] /\ word.queue = <<>> /\ Len(word.queue) = 0
  BY <1>2
<1>4. store = [claims |-> store.claims, pending |-> store.pending] /\ store.pending = {}
      /\ store.claims = IF IsBuffer THEN [form |-> "ordered", ranges |-> {}, shifted |-> 0]
                        ELSE [form |-> "none"]
  BY <1>1 DEF ClaimsInit
<1>5. ClaimsForm(tracker, store.claims)
  <2>1. CASE IsBuffer
    <3>1. /\ store.claims.form = "ordered" /\ store.claims.ranges = {} /\ store.claims.shifted = 0
      BY <2>1, <1>4
    <3>2. SizeOf(tracker) \in Nat \ {0} /\ tracker.of = "buffer"
      BY <2>1, <1>1, TrackerIs, Terms
    <3> QED
      BY <3>1, <3>2 DEF ClaimsForm, BytesForm, Separate
  <2>2. CASE ~IsBuffer
    <3>1. store.claims.form = "none" /\ tracker.of # "buffer"
      BY <2>2, <1>4, Terms
    <3> QED
      BY <3>1 DEF ClaimsForm, ImageForm
  <2> QED
    BY <2>1, <2>2
<1>6. PlansAt(tracker, op, word.queue, store.claims, store.pending)
  BY <1>4 DEF PlansAt
<1>7. Different(word.queue) /\ \A t \in Threads : ~InQueue(word.queue, t)
  BY <1>3 DEF Different, InQueue
<1>8. IsFun(op) /\ IsFun(reply) /\ pc \in [Threads -> ClaimsLabels]
  BY <1>1 DEF IsFun, ClaimsLabels
<1>9. ClaimsThreads
  BY <1>1, <1>7 DEF ClaimsThreads, CommandAt
<1> QED
  BY <1>1, <1>3, <1>4, <1>5, <1>6, <1>7, <1>8, <1>9 DEF ClaimsInv, ClaimsTyped, ClaimsMap

\* no step of another kind of tracker is one of this,
LEMMA ClaimsSteps ==
    ASSUME IsClaims, Next
    PROVE  \E t \in Users : ClaimsStep(t) /\ Remember
<1>1. ~IsSharing /\ ~IsAccess
  BY DEF IsAccess, IsSharing, IsClaims
<1> QED
  BY <1>1 DEF Next, Step

\* and so it stays.
LEMMA ClaimsStays == ClaimsInv /\ [Next]_vars => ClaimsInv'
<1> SUFFICES ASSUME ClaimsInv, [Next]_vars PROVE ClaimsInv'
  OBVIOUS
<1>1. CASE Next
  <2>1. IsClaims
    BY DEF ClaimsInv, ClaimsTyped
  <2>2. PICK t \in Users : ClaimsStep(t)
    BY <1>1, <2>1, ClaimsSteps
  <2> QED
    BY <2>2, CallUseKeeps, TrackKeeps, RecordKeeps, ReturnKeeps DEF ClaimsStep
<1>2. CASE UNCHANGED vars
  BY <1>2 DEF vars, trackerVars, ClaimsInv, ClaimsTyped, ClaimsMap, ClaimsThreads, IsClaims
<1> QED
  BY <1>1, <1>2

\* The invariant holds at all times.
LEMMA ClaimsAlways == Spec /\ IsClaims => []ClaimsInv
<1> QED
  BY ClaimsStarts, ClaimsStays, PTL DEF Spec

\* The claims of a recording and what it has planned are in form (BufferClaim, ImageClaim,
\* RecordingOwnership): nothing is released that no command acquires.
LEMMA ClaimsFormIs == ClaimsInv => ClaimsInForm
<1> SUFFICES ASSUME ClaimsInv PROVE ClaimsInForm
  OBVIOUS
<1>1. ClaimsForm(tracker, store.claims)
  BY DEF ClaimsInv, ClaimsMap
<1> DEFINE claims == store.claims
<1>2. ASSUME claims.form \in {"ordered", "indexed"}
      PROVE  /\ \A r, s \in claims.ranges : r = s \/ r[2] < s[1] \/ s[2] < r[1]
             /\ 2 * claims.shifted <= Size + 1
  <2>1. BytesForm(tracker, claims)
    BY <1>1, <1>2 DEF ClaimsForm, ImageForm
  <2> QED
    BY <2>1, Terms DEF BytesForm, Separate
<1>3. ASSUME claims.form = "dense"
      PROVE  Counted(claims.map)
  <2>1. IsDense(claims.map, BOOLEAN, SizeOf(tracker))
    BY <1>1, <1>3 DEF ClaimsForm, ImageForm, BytesForm
  <2> QED
    BY <2>1, Terms DEF IsDense, Counted, Differing
<1> QED
  BY <1>2, <1>3 DEF ClaimsInForm

\* What is planned is for a command that is yet to be recorded.
LEMMA PlansFormIs == ClaimsInv => PlansInForm
<1> SUFFICES ASSUME ClaimsInv PROVE PlansInForm
  OBVIOUS
<1>1. tracker \in Trackers /\ PlansAt(tracker, op, word.queue, store.claims, store.pending)
  BY DEF ClaimsInv, ClaimsTyped, ClaimsMap
<1>2. /\ \A range : CellsOf(range) = Part(tracker, range)
      /\ \A c : SourceAt(c) = Src(tracker, c)
      /\ ClaimedCells = ClaimedIn(tracker, store.claims)
  <2>1. ClaimedCells = ClaimedIn(tracker, store.claims)
    BY Terms, Zenon DEF ClaimedCells, ClaimedIn
  <2> QED
    BY <2>1, Terms DEF SourceAt, Src
<1>3. ASSUME NEW p \in store.pending
      PROVE  /\ \E t \in ToSet(word.queue) : CellsOf(p.range) \subseteq CellsOf(op[t].ranges[1])
             /\ \A c \in CellsOf(p.range) : SourceAt(c) = p.from /\ c \in ClaimedCells
  <2>1. PlanAt(tracker, op, word.queue, store.claims, p)
    BY <1>1 DEF PlansAt
  <2>2. PICK i \in 1..Len(word.queue) : Part(tracker, p.range) \subseteq Part(tracker, Used(op, word.queue[i]))
    BY <2>1 DEF PlanAt
  <2>3. word.queue[i] \in ToSet(word.queue)
    BY QueueIs DEF ToSet
  <2>4. CellsOf(p.range) \subseteq CellsOf(op[word.queue[i]].ranges[1])
    BY <1>2, <2>2 DEF Used
  <2>5. \A c \in CellsOf(p.range) : SourceAt(c) = p.from /\ c \in ClaimedCells
    BY <1>2, <2>1 DEF PlanAt
  <2> QED
    BY <2>3, <2>4, <2>5
<1>4. ASSUME NEW p \in store.pending, NEW r \in store.pending
      PROVE  p = r \/ ~Intersects(p.range, r.range)
  <2>1. p.range \in RangesOf(tracker) /\ r.range \in RangesOf(tracker)
    BY <1>1 DEF PlansAt, PlanAt
  <2>2. Intersects(p.range, r.range) <=> Shared(tracker, p.range, r.range)
    BY <1>1, <2>1, RangesShare
  <2>3. \A c : c \in Part(tracker, p.range) /\ c \in Part(tracker, r.range) => p = r
    BY <1>1 DEF PlansAt
  <2> QED
    BY <2>2, <2>3 DEF Shared
<1> QED
  BY <1>3, <1>4 DEF PlansInForm

\* Cells are acquired from families, or from nobody.
LEMMA SourcesTyped == ClaimsInv => Contents \in [Cells -> CellValues]
<1> SUFFICES ASSUME ClaimsInv PROVE Contents \in [Cells -> CellValues]
  OBVIOUS
<1>1. tracker \in Trackers /\ IsClaims /\ PlansAt(tracker, op, word.queue, store.claims, store.pending)
  BY DEF ClaimsInv, ClaimsTyped, ClaimsMap
<1> DEFINE sources == SourcesOf(tracker, store.claims, store.pending)
<1>2. \A c \in 0..SizeOf(tracker) - 1 : sources[c] \in {Ignored} \cup tracker.values
  BY <1>1, SourceTyped
<1>3. sources = [c \in 0..SizeOf(tracker) - 1 |-> sources[c]]
  BY DEF SourcesOf
<1>4. Contents = sources
  BY <1>1, SourcesAre
<1>5. CellValues = {Ignored} \cup tracker.values
  BY <1>1 DEF CellValues, ValuesOf, IsClaims
<1> HIDE DEF sources
<1> QED
  BY <1>2, <1>3, <1>4, <1>5, Terms

(* Claims of a buffer are disjoint, do not touch, and promote to the tree  *)
(* before they have moved more ranges than a claim of the buffer can have, *)
(* the count of an image's claims is exact, and what a recording plans to  *)
(* transfer has one owner, is planned once, and is acquired by a command   *)
(* that is yet to be recorded: no release is in vain (BufferClaim::claim,  *)
(* ImageClaim::claim, RecordingOwnership::track_pending_transfers).        *)
THEOREM RecordingInForm == Spec /\ IsClaims => []StoreInForm
<1>1. ClaimsInv => StoreInForm
  <2> SUFFICES ASSUME ClaimsInv PROVE StoreInForm
    OBVIOUS
  <2>1. IsClaims /\ tracker \in Trackers /\ lock = None /\ pc \in [Threads -> ClaimsLabels] /\ ClaimsThreads
    BY DEF ClaimsInv, ClaimsTyped
  <2>2. ASSUME NEW t \in Threads
        PROVE  /\ pc[t] \in {"idle", "load", "load_set", "exchange", "lock", "locked", "ranges",
                             "capture", "set_dense", "pieces", "track", "tracked", "unlock", "return"}
               /\ op[t] \in (IF t \in Users THEN tracker.ops[t] ELSE {}) \cup {None}
               /\ pc[t] = "idle" <=> op[t] = None
    <3>1. CommandAt(tracker, pc[t], op[t], reply[t], word.queue, store.claims, t)
      BY <2>1 DEF ClaimsThreads
    <3>2. CASE pc[t] = "idle"
      BY <3>1, <3>2 DEF CommandAt
    <3>3. CASE pc[t] # "idle"
      <4>1. t \in Users /\ op[t] \in tracker.ops[t]
        BY <3>1, <3>3 DEF CommandAt, Users
      <4>2. op[t] # None
        BY <4>1, <2>1, TrackerAssumption DEF Users
      <4> QED
        BY <2>1, <3>3, <4>1, <4>2 DEF ClaimsLabels
    <3> QED
      BY <3>2, <3>3
  <2>3. TypeOK
    BY <2>1, <2>2, SourcesTyped DEF TypeOK
  <2> QED
    BY <2>1, <2>3, ClaimsFormIs, PlansFormIs DEF StoreInForm
<1> QED
  BY <1>1, ClaimsAlways, PTL

-----------------------------------------------------------------------------
(* The steps of commands as steps of the map                                *)

\* What the map is called with
Acquisition(k, o) ==
    [cells |-> Part(k, o.ranges[1]), update |-> [v \in ValuesOf(k) |-> Ignored],
     answers |-> TRUE, reads |-> FALSE]
Acquisitions(k, ops) == [t \in Threads |-> IF ops[t] = None THEN None ELSE Acquisition(k, ops[t])]

\* A command as an operation of the map
LEMMA AcquisitionIs ==
    ASSUME tracker \in Trackers, IsClaims, NEW t \in Users, NEW o \in tracker.ops[t],
           NEW a, a = Acquisition(tracker, o)
    PROVE  /\ a # None /\ a.cells = Part(tracker, o.ranges[1]) /\ a.cells \subseteq 0..SizeOf(tracker) - 1
           /\ a.answers /\ ~a.reads
           /\ \A v \in ValuesOf(tracker) : a.update[v] = Ignored
<1> DEFINE V == ValuesOf(tracker)
           f == [v \in V |-> Ignored]
           cells == Part(tracker, o.ranges[1])
<1>1. o.ranges[1] \in RangesOf(tracker)
  BY ClaimsOp
<1>2. f \in [V -> V]
  BY DEF ValuesOf, IsClaims
<1>3. cells \subseteq 0..SizeOf(tracker) - 1 /\ cells \in SUBSET Nat
  <2>1. cells \subseteq Cells
    BY <1>1, RangeIs, Terms
  <2>2. 0..SizeOf(tracker) - 1 \subseteq Nat
    BY TrackerIs, Terms
  <2> QED
    BY <2>1, <2>2, Terms
<1>4. \A v \in V : f[v] = Ignored
  OBVIOUS
<1>5. a = [cells |-> cells, update |-> f, answers |-> TRUE, reads |-> FALSE]
  BY DEF Acquisition
<1>6. None \notin [cells : SUBSET Nat, update : [V -> V], answers : BOOLEAN, reads : BOOLEAN]
  BY NoneAssumption
<1> HIDE DEF f, cells, V
<1>7. a.cells = cells /\ a.update = f /\ a.answers /\ ~a.reads
  BY <1>5
<1>8. a \in [cells : SUBSET Nat, update : [V -> V], answers : BOOLEAN, reads : BOOLEAN]
  BY <1>2, <1>3, <1>5
<1>9. a # None
  BY <1>6, <1>8
<1> QED
  BY <1>3, <1>4, <1>7, <1>9 DEF V, cells

\* Everything that the map sees
RecordingShown ==
    /\ Called = Acquisitions(tracker, op) /\ Replied = reply
    /\ Contents = SourcesOf(tracker, store.claims, store.pending)

\* The map sees that of a recording,
LEMMA RecordingShows == ClaimsInv => RecordingShown
<1> SUFFICES ASSUME ClaimsInv PROVE RecordingShown
  OBVIOUS
<1>1. tracker \in Trackers /\ IsClaims /\ ~IsSharing /\ ~IsAccess /\ IsFun(reply) /\ ClaimsThreads
  BY DEF ClaimsInv, ClaimsTyped, IsClaims, IsSharing, IsAccess
<1>2. ASSUME NEW u \in Threads, op[u] # None
      PROVE  Abstract(op[u]) = Acquisition(tracker, op[u])
  <2> DEFINE o == op[u]
  <2>1. Len(o.ranges) = 1 /\ o.ranges \in Seq(RangesOf(tracker)) /\ o.do = "use"
    <3>1. CommandAt(tracker, pc[u], op[u], reply[u], word.queue, store.claims, u)
      BY <1>1 DEF ClaimsThreads
    <3>2. u \in Users /\ o \in tracker.ops[u]
      BY <1>2, <3>1 DEF CommandAt, Users
    <3> QED
      BY <3>2, <1>1, ClaimsOp
  <2> HIDE DEF o
  <2>2. UNION {CellsOf(r) : r \in ToSet(o.ranges)} = Part(tracker, o.ranges[1])
    <3>1. ToSet(o.ranges) = {o.ranges[1]}
      BY <2>1 DEF ToSet
    <3> QED
      BY <3>1, Terms
  <2>3. [v \in CellValues |-> CASE IsSharing -> IF o.do = "set" THEN o.value ELSE v
                                [] IsAccess -> Updated(o, v)
                                [] IsClaims -> Ignored]
            = [v \in ValuesOf(tracker) |-> Ignored]
    BY <1>1 DEF CellValues
  <2>4. (o.do # "set") = TRUE /\ (o.do = "read") = FALSE
    BY <2>1
  <2>5. Abstract(o) = Acquisition(tracker, o)
    BY <2>2, <2>3, <2>4 DEF Abstract, Acquisition
  <2> QED
    BY <2>5 DEF o
<1>3. Called = Acquisitions(tracker, op)
  BY <1>2 DEF Called, Acquisitions
<1>4. Replied = reply
  <2>1. Replied = [t \in Threads |-> reply[t]]
    BY <1>1 DEF Replied
  <2>2. PICK values : reply \in [Threads -> values]
    BY <1>1 DEF IsFun
  <2> QED
    BY <2>1, <2>2
<1> QED
  BY <1>1, <1>3, <1>4, SourcesAre DEF RecordingShown

\* before and after a step.
LEMMA RecordingShowsNext == ClaimsInv' => RecordingShown'
BY RecordingShows, PTL

\* What commands call is a function.
LEMMA AcquisitionsFun ==
    ASSUME NEW k, NEW ops
    PROVE  IsFun(Acquisitions(k, ops))
<1> DEFINE f == Acquisitions(k, ops)
<1>1. f \in [Threads -> {f[u] : u \in Threads}]
  BY DEF Acquisitions
<1> HIDE DEF f
<1>2. IsFun(f)
  BY <1>1 DEF IsFun
<1> QED
  BY <1>2 DEF f

\* Nobody reads, so nothing is remembered.
ClaimsPast == IsFun(past) /\ \A u \in Threads : past[u] = {}

\* A step, as the map sees it
ClaimsMapStep(t) ==
    /\ ClaimsInv /\ ClaimsPast /\ ClaimsInv' /\ Remember /\ t \in Users /\ tracker' = tracker
    /\ \A u \in Threads : u # t => op'[u] = op[u] /\ reply'[u] = reply[u]

\* What is called does not read.
LEMMA NobodyReads ==
    ASSUME ClaimsInv, NEW u \in Threads, op[u] # None
    PROVE  /\ op[u].do = "use" /\ Called[u] # None /\ ~Called[u].reads /\ u \in Users
           /\ op[u] \in tracker.ops[u] /\ Called[u] = Acquisition(tracker, op[u])
<1>1. tracker \in Trackers /\ IsClaims /\ ClaimsThreads
  BY DEF ClaimsInv, ClaimsTyped
<1>2. CommandAt(tracker, pc[u], op[u], reply[u], word.queue, store.claims, u)
  BY <1>1 DEF ClaimsThreads
<1>3. u \in Users /\ op[u] \in tracker.ops[u]
  BY <1>2 DEF CommandAt, Users
<1>4. op[u].do = "use"
  BY <1>1, <1>3, ClaimsOp
<1>5. Called[u] = Acquisition(tracker, op[u])
  BY RecordingShows DEF RecordingShown, Acquisitions
<1> QED
  BY <1>1, <1>3, <1>4, <1>5, AcquisitionIs

AllUse == \A u \in Threads : op[u] # None => op[u].do = "use" /\ ~Called[u].reads

\* All commands use what they name,
LEMMA AllOfThemUse == ClaimsInv => AllUse
BY NobodyReads DEF AllUse

\* and still do after a step.
LEMMA NobodyReadsNext == ClaimsInv' => AllUse'
BY AllOfThemUse, PTL

\* No step remembers anything.
LEMMA PastEmpty ==
    ASSUME ClaimsInv', Remember
    PROVE  ClaimsPast'
<1> DEFINE f == past'
<1>1. f = [t \in Threads |->
                IF op'[t] = None \/ reply'[t] # None THEN {}
                ELSE IF op'[t].do = "read" THEN past[t] \cup {Contents'} ELSE {}]
  BY DEF Remember
<1>2. \A u \in Threads : op'[u] # None => op'[u].do # "read"
  BY NobodyReadsNext DEF AllUse
<1>3. f \in [Threads -> {{}}]
  BY <1>1, <1>2
<1> HIDE DEF f
<1>4. IsFun(f) /\ \A u \in Threads : f[u] = {}
  BY <1>3 DEF IsFun
<1> QED
  BY <1>4 DEF f, ClaimsPast

\* A step shows what the map needs.
LEMMA ClaimsStepShows ==
    ASSUME NEW t, ClaimsMapStep(t)
    PROVE  /\ Shows(t) /\ RecordingShown /\ RecordingShown' /\ t \in Threads /\ ClaimsPast'
           /\ Called' = Acquisitions(tracker, op')
<1>1. RecordingShown /\ RecordingShown'
  BY RecordingShows, RecordingShowsNext DEF ClaimsMapStep
<1>2. t \in Threads /\ IsFun(reply) /\ IsFun(reply')
  <2>1. IsFun(reply) /\ IsFun(reply')
    BY DEF ClaimsMapStep, ClaimsInv, ClaimsTyped
  <2> QED
    BY <2>1, ClaimsFrom DEF ClaimsMapStep
<1>3. Called' = Acquisitions(tracker, op')
  BY <1>1 DEF RecordingShown, ClaimsMapStep
<1>4. IsFun(Called) /\ IsFun(Called') /\ IsFun(Replied) /\ IsFun(Replied')
  BY <1>1, <1>2, <1>3, AcquisitionsFun DEF RecordingShown
<1>5. IsFun(past) /\ IsFun(past') /\ \A u \in Threads : past[u] = {} /\ past'[u] = {}
  BY PastEmpty DEF ClaimsMapStep, ClaimsPast
<1>6. \A u \in Threads : ~Waits(Called[u], Replied[u]) /\ ~Waits(Called'[u], Replied'[u])
  <2>1. \A u \in Threads : op[u] = None => Called[u] = None
    BY <1>1 DEF RecordingShown, Acquisitions
  <2>2. \A u \in Threads : op'[u] = None => Called'[u] = None
    BY <1>3 DEF Acquisitions
  <2> QED
    BY <2>1, <2>2, NobodyReads, NobodyReadsNext DEF AllUse, ClaimsMapStep, Waits
<1>7. \A u \in Threads : u # t => Called'[u] = Called[u] /\ Replied'[u] = Replied[u]
  BY <1>1, <1>3 DEF RecordingShown, Acquisitions, ClaimsMapStep
<1>8. Shows(t)
  BY <1>2, <1>4, <1>5, <1>6, <1>7 DEF Shows
<1> QED
  BY <1>1, <1>2, <1>3, <1>8, PastEmpty DEF ClaimsMapStep

ClaimsMapNext == ClaimsPast' /\ MapNext

\* A command is called,
LEMMA CallUseMaps ==
    ASSUME ClaimsInv, ClaimsPast, Remember, NEW t \in Users, CallUse(t)
    PROVE  ClaimsMapNext
<1>1. t \in Threads /\ IsFun(op) /\ tracker \in Trackers /\ IsClaims
      /\ CommandAt(tracker, pc[t], op[t], reply[t], word.queue, store.claims, t)
  BY ClaimsFrom DEF ClaimsInv, ClaimsTyped
<1>2. PICK o \in tracker.ops[t] : op' = [op EXCEPT ![t] = o]
  BY DEF CallUse, Begin
<1>3. tracker' = tracker /\ word' = word /\ store' = store /\ reply' = reply /\ pc[t] = "idle"
  BY DEF CallUse, Begin
<1>4. IsPut(op', op, t, o)
  BY <1>1, <1>2, Excepted, Zenon
<1>5. op'[t] = o /\ \A u \in Threads : u # t => op'[u] = op[u]
  BY <1>4 DEF IsPut
<1>6. ClaimsMapStep(t)
  BY <1>3, <1>5, CallUseKeeps DEF ClaimsMapStep
<1>7. op[t] = None /\ reply[t] = None
  BY <1>1, <1>3 DEF CommandAt
<1>8. Shows(t) /\ RecordingShown /\ RecordingShown' /\ ClaimsPast' /\ Called' = Acquisitions(tracker, op')
  BY <1>6, ClaimsStepShows
<1> DEFINE a == Acquisition(tracker, o)
<1>9. a # None /\ a.cells \subseteq 0..SizeOf(tracker) - 1
  BY <1>1, AcquisitionIs
<1>10. o # None
  BY <1>1, ClaimsOp
<1>11. Called[t] = None /\ Called'[t] = a
  BY <1>1, <1>5, <1>7, <1>8, <1>10 DEF RecordingShown, Acquisitions
<1>12. Contents' = Contents /\ DOMAIN Contents = 0..SizeOf(tracker) - 1
  BY <1>3, <1>8 DEF RecordingShown, SourcesOf
<1>13. Replied[t] = None /\ Replied'[t] = None
  BY <1>3, <1>7, <1>8 DEF RecordingShown
<1> HIDE DEF a
<1>14. Map!Call(t)
  BY <1>8, <1>9, <1>11, <1>12, <1>13, ShowsCall
<1> QED
  BY <1>1, <1>8, <1>14 DEF ClaimsMapNext, MapNext, Map!Next

\* is tracked, which moves nothing,
LEMMA TrackMaps ==
    ASSUME ClaimsInv, ClaimsPast, Remember, NEW t \in Users, TrackPendingTransfers(t)
    PROVE  ClaimsMapNext
<1>1. tracker' = tracker /\ op' = op /\ reply' = reply
  BY DEF TrackPendingTransfers
<1>2. ClaimsMapStep(t)
  BY <1>1, TrackKeeps DEF ClaimsMapStep
<1>3. Shows(t) /\ RecordingShown /\ RecordingShown' /\ ClaimsPast' /\ Called' = Acquisitions(tracker, op')
  BY <1>2, ClaimsStepShows
<1>4. Contents' = Contents
  BY <1>1, <1>3, TrackIs DEF RecordingShown
<1>5. Called'[t] = Called[t] /\ Replied'[t] = Replied[t]
  BY <1>1, <1>3 DEF RecordingShown
<1>6. UNCHANGED Map!vars
  BY <1>3, <1>4, <1>5, ShowsNothing
<1> QED
  BY <1>3, <1>6 DEF ClaimsMapNext, MapNext

\* acquires its range from whom it belongs to, all at once,
LEMMA RecordMaps ==
    ASSUME ClaimsInv, ClaimsPast, Remember, NEW t \in Users, RecordBarriers(t)
    PROVE  ClaimsMapNext
<1> DEFINE range == Used(op, t)
           sources == SourcesOf(tracker, store.claims, store.pending)
           r == LaidAnswer(sources, Part(tracker, range))
<1>1. tracker' = tracker /\ op' = op /\ pc[t] = "tracked"
  BY DEF RecordBarriers
<1>2. /\ reply' = [reply EXCEPT ![t] = r]
      /\ LeavesQueue(op, word.queue, range, store.claims, store.pending, store'.pending)
      /\ store' = [claims |-> store.claims, pending |-> store'.pending]
  BY RecordIs
<1>3. t \in Threads /\ IsFun(reply) /\ tracker \in Trackers /\ IsClaims
      /\ PlansAt(tracker, op, word.queue, store.claims, store.pending)
      /\ CommandAt(tracker, pc[t], op[t], reply[t], word.queue, store.claims, t)
      /\ op[t] # None /\ op[t] \in tracker.ops[t]
  BY <1>1, ClaimsFrom DEF ClaimsInv, ClaimsTyped, ClaimsMap
<1> HIDE DEF r
<1>4. IsPut(reply', reply, t, r)
  BY <1>2, <1>3, Excepted, Zenon
<1>5. reply'[t] = r /\ \A u \in Threads : u # t => reply'[u] = reply[u]
  BY <1>4 DEF IsPut
<1>6. ClaimsMapStep(t)
  BY <1>1, <1>5, RecordKeeps DEF ClaimsMapStep
<1>7. Shows(t) /\ RecordingShown /\ RecordingShown' /\ ClaimsPast' /\ Called' = Acquisitions(tracker, op')
  BY <1>6, ClaimsStepShows
<1> DEFINE a == Acquisition(tracker, op[t])
<1>8. /\ a # None /\ a.cells = Part(tracker, range) /\ a.answers /\ ~a.reads
      /\ a.cells \subseteq 0..SizeOf(tracker) - 1
      /\ \A v \in ValuesOf(tracker) : a.update[v] = Ignored
  BY <1>3, AcquisitionIs DEF Used
<1>9. Called[t] = a /\ Called'[t] = a
  BY <1>1, <1>3, <1>7 DEF RecordingShown, Acquisitions
<1>10. Replied[t] = None /\ Replied'[t] = r
  BY <1>1, <1>3, <1>5, <1>7 DEF RecordingShown, CommandAt
<1> DEFINE n == SizeOf(tracker) - 1
           claims == store.claims
           pending == store.pending
           less == store'.pending
           next == SourcesOf(tracker, claims, less)
<1>11. Contents = sources /\ Contents' = next
  <2>1. store'.claims = claims
    BY <1>2
  <2> QED
    BY <1>1, <1>7, <2>1 DEF RecordingShown
<1>12. \A c \in 0..n : next[c] = IF c \in Part(tracker, range) THEN Ignored ELSE sources[c]
  BY <1>2 DEF LeavesQueue
<1>13. next = [c \in 0..n |-> next[c]] /\ DOMAIN sources = 0..n
  BY DEF SourcesOf
<1>14. \A c \in 0..n : sources[c] \in ValuesOf(tracker)
  <2>1. \A c \in 0..n : sources[c] \in {Ignored} \cup tracker.values
    BY <1>3, SourceTyped
  <2> QED
    BY <1>3, <2>1 DEF ValuesOf, IsClaims
<1>15. r = Map!Answer(a, sources)
  BY <1>8 DEF r, LaidAnswer, Map!Answer
<1> HIDE DEF a, sources, next, n, range
<1>16. Contents' = [c \in DOMAIN Contents |-> IF c \in a.cells THEN a.update[Contents[c]] ELSE Contents[c]]
  BY <1>8, <1>11, <1>12, <1>13, <1>14
<1>17. Replied'[t] = Map!Answer(a, Contents)
  BY <1>10, <1>11, <1>15
<1>18. Map!Update(t)
  BY <1>7, <1>8, <1>9, <1>10, <1>16, <1>17, ShowsUpdate
<1> QED
  BY <1>3, <1>7, <1>18 DEF ClaimsMapNext, MapNext, Map!Next

\* and returns.
LEMMA CommandReturns ==
    ASSUME ClaimsInv, ClaimsPast, Remember, NEW t \in Users, Return(t)
    PROVE  ClaimsMapNext
<1>1. /\ pc[t] = "return" /\ tracker' = tracker /\ word' = word /\ store' = store
      /\ op' = [op EXCEPT ![t] = None] /\ reply' = [reply EXCEPT ![t] = None]
  BY DEF Return, Idle, Reply
<1>2. t \in Threads /\ IsFun(op) /\ IsFun(reply) /\ tracker \in Trackers /\ IsClaims
      /\ CommandAt(tracker, pc[t], op[t], reply[t], word.queue, store.claims, t)
      /\ op[t] # None
  BY <1>1, ClaimsFrom DEF ClaimsInv, ClaimsTyped
<1>3. IsPut(op', op, t, None) /\ IsPut(reply', reply, t, None)
  BY <1>1, <1>2, Excepted, Zenon
<1>4. op'[t] = None /\ reply'[t] = None
      /\ \A u \in Threads : u # t => op'[u] = op[u] /\ reply'[u] = reply[u]
  BY <1>3 DEF IsPut
<1>5. ClaimsMapStep(t)
  BY <1>1, <1>4, ReturnKeeps DEF ClaimsMapStep
<1>6. Shows(t) /\ RecordingShown /\ RecordingShown' /\ ClaimsPast' /\ Called' = Acquisitions(tracker, op')
  BY <1>5, ClaimsStepShows
<1>7. Called[t] # None /\ Called'[t] = None
  BY <1>2, <1>4, <1>6, NobodyReads DEF Acquisitions
<1>8. Replied[t] # None /\ Replied'[t] = None
  BY <1>1, <1>2, <1>4, <1>6 DEF RecordingShown, CommandAt
<1>9. Contents' = Contents
  BY <1>1, <1>6 DEF RecordingShown
<1>10. Map!Return(t)
  BY <1>6, <1>7, <1>8, <1>9, ShowsReturn
<1> QED
  BY <1>2, <1>6, <1>10 DEF ClaimsMapNext, MapNext, Map!Next

\* A recording begins as the map begins.
LEMMA RecordingBegins == Init /\ IsClaims => Map!Init /\ ClaimsInv /\ ClaimsPast
<1> SUFFICES ASSUME Init, IsClaims PROVE Map!Init /\ ClaimsInv /\ ClaimsPast
  OBVIOUS
<1>1. ClaimsInv
  BY ClaimsStarts
<1>2. op = [t \in Threads |-> None] /\ reply = [t \in Threads |-> None] /\ past = [t \in Threads |-> {}]
  BY DEF Init
<1>3. Called = [t \in Threads |-> None] /\ Replied = [t \in Threads |-> None]
  BY <1>1, <1>2, RecordingShows DEF RecordingShown, Acquisitions
<1>4. ClaimsPast
  BY <1>2 DEF ClaimsPast, IsFun
<1> QED
  BY <1>1, <1>2, <1>3, <1>4 DEF Map!Init

\* Each step of a recording is one of the map, or leaves the map alone.
LEMMA RecordingMaps == ClaimsInv /\ ClaimsPast /\ [Next]_vars => ClaimsMapNext
<1> SUFFICES ASSUME ClaimsInv, ClaimsPast, [Next]_vars PROVE ClaimsMapNext
  OBVIOUS
<1>1. CASE Next
  <2>1. IsClaims
    BY DEF ClaimsInv, ClaimsTyped
  <2>2. PICK t \in Users : ClaimsStep(t) /\ Remember
    BY <1>1, <2>1, ClaimsSteps
  <2> QED
    <3>1. CallUse(t) \/ TrackPendingTransfers(t) \/ RecordBarriers(t) \/ Return(t)
      BY <2>2 DEF ClaimsStep
    <3>2. Remember
      BY <2>2
    <3> QED
      BY <3>1, <3>2, CallUseMaps, TrackMaps, RecordMaps, CommandReturns
<1>2. CASE UNCHANGED vars
  <2>1. /\ tracker' = tracker /\ store' = store /\ op' = op /\ reply' = reply /\ past' = past
    BY <1>2 DEF vars, trackerVars
  <2>2. RecordingShown /\ RecordingShown'
    BY ClaimsStays, RecordingShows, RecordingShowsNext
  <2>3. Contents' = Contents /\ Called' = Called /\ Replied' = Replied
    BY <2>1, <2>2 DEF RecordingShown
  <2> QED
    BY <2>1, <2>3 DEF ClaimsMapNext, MapNext, Map!vars, ClaimsPast
<1> QED
  BY <1>1, <1>2

(* A command acquires each part of a resource from the family that owns it *)
(* if it is the first of the recording to use it, and from nobody if it is *)
(* not, however the commands' ranges overlap, whatever form the claims     *)
(* have and into whatever parts trackers and cuts divide the ranges        *)
(* (RecordingOwnership, track_pending_transfers, record_*_access_barrier). *)
THEOREM RecordingLinearizable == Spec /\ IsClaims => Linearizable
<1> DEFINE Inv == ClaimsInv /\ ClaimsPast
<1>1. Init /\ IsClaims => Map!Init /\ Inv
  BY RecordingBegins
<1>2. Inv /\ [Next]_vars => Inv' /\ [Map!Next]_(Map!vars)
  BY RecordingMaps, ClaimsStays DEF ClaimsMapNext, MapNext
<1> HIDE DEF Inv
<1> QED
  BY <1>1, <1>2, PTL DEF Spec, Linearizable, Map!Spec
=================================================================================
