------------------------------ MODULE AccessProofs ------------------------------
(***************************************************************************)
(* The tracker of accesses to a buffer or an image: a cursor that assigns  *)
(* a range piece by piece, in the runs of a buffer through a gap and in    *)
(* the subresources of an image by rectangles, leaves the map in form and  *)
(* hands out all that was there before; the invariant of the tracker's     *)
(* states, with a cursor under way too; what its iterators promise; that   *)
(* the tracker implements an atomic map; and what all trackers promise.    *)
(***************************************************************************)
EXTENDS OwnerProofs

-----------------------------------------------------------------------------
(* The map of a buffer under a cursor, without its gap                      *)

Rest(s, w, r) == SubSeq(s, 1, w - 1) \o SubSeq(s, r, Len(s))

\* q is s from its beginning to before w and from r on.
RestOf(q, E, s, w, r) ==
    /\ q \in Seq(E) /\ Len(q) = (w - 1) + (Len(s) - (r - 1))
    /\ \A i \in 1..w - 1 : q[i] = s[i]
    /\ \A i \in w..Len(q) : q[i] = s[(i - w) + r]

\* Two parts of a sequence
LEMMA Ends ==
    ASSUME NEW E, NEW s \in Seq(E), NEW w \in 1..Len(s) + 1, NEW r \in 1..Len(s) + 1
    PROVE  /\ SubSeq(s, 1, w - 1) \in Seq(E) /\ Len(SubSeq(s, 1, w - 1)) = w - 1
           /\ \A i \in 1..w - 1 : SubSeq(s, 1, w - 1)[i] = s[i]
           /\ SubSeq(s, r, Len(s)) \in Seq(E) /\ Len(SubSeq(s, r, Len(s))) = Len(s) - (r - 1)
           /\ \A i \in 1..Len(s) - (r - 1) : SubSeq(s, r, Len(s))[i] = s[(i - 1) + r]
<1> DEFINE c == SubSeq(s, 1, w - 1)  d == SubSeq(s, r, Len(s))
<1>1. Len(s) \in Nat /\ \A i \in 1..Len(s) : s[i] \in E
  OBVIOUS
<1>2. /\ c \in Seq(E) /\ Len(c) = w - 1
      /\ \A i \in 1..w - 1 : c[i] = s[i]
  <2>1. 1 \in Int /\ w - 1 \in Int /\ \A i \in 1..w - 1 : s[i] \in E
    BY <1>1
  <2>2. /\ c \in Seq(E) /\ Len(c) = IF 1 <= w - 1 THEN (w - 1) - 1 + 1 ELSE 0
        /\ \A i \in 1..(w - 1) - 1 + 1 : c[i] = s[1 + i - 1]
    BY <2>1, SubSeqProperties
  <2> HIDE DEF c
  <2> QED
    BY <1>1, <2>2
<1>3. /\ d \in Seq(E) /\ Len(d) = Len(s) - (r - 1)
      /\ \A i \in 1..Len(s) - (r - 1) : d[i] = s[(i - 1) + r]
  <2>1. r \in Int /\ Len(s) \in Int /\ \A i \in r..Len(s) : s[i] \in E
    BY <1>1
  <2>2. /\ d \in Seq(E) /\ Len(d) = IF r <= Len(s) THEN Len(s) - r + 1 ELSE 0
        /\ \A i \in 1..Len(s) - r + 1 : d[i] = s[r + i - 1]
    BY <2>1, SubSeqProperties
  <2> HIDE DEF d
  <2>3. Len(d) = Len(s) - (r - 1)
    <3>1. Len(d) = IF r <= Len(s) THEN Len(s) - r + 1 ELSE 0
      BY <2>2
    <3> DEFINE n == Len(s)
    <3>2. n \in Nat /\ r \in 1..n + 1 /\ Len(d) = IF r <= n THEN n - r + 1 ELSE 0
      BY <1>1, <3>1
    <3> HIDE DEF n
    <3>3. Len(d) = n - (r - 1)
      BY <3>2
    <3> QED
      BY <3>3 DEF n
  <2>4. \A i \in 1..Len(s) - (r - 1) : i \in 1..Len(s) - r + 1 /\ r + i - 1 = (i - 1) + r
    BY <1>1
  <2> QED
    BY <2>2, <2>3, <2>4
<1> QED
  BY <1>2, <1>3

\* What is left of a map without its gap is the one part and the other.
LEMMA RestIs ==
    ASSUME NEW E, NEW s \in Seq(E), NEW w \in 1..Len(s) + 1, NEW r \in 1..Len(s) + 1
    PROVE  RestOf(Rest(s, w, r), E, s, w, r)
<1> DEFINE c == SubSeq(s, 1, w - 1)  d == SubSeq(s, r, Len(s))  q == c \o d
<1>1. Len(s) \in Nat
  OBVIOUS
<1>2. /\ c \in Seq(E) /\ Len(c) = w - 1 /\ \A i \in 1..w - 1 : c[i] = s[i]
      /\ d \in Seq(E) /\ Len(d) = Len(s) - (r - 1)
      /\ \A i \in 1..Len(s) - (r - 1) : d[i] = s[(i - 1) + r]
  BY Ends
<1> HIDE DEF c, d
<1>3. /\ q \in Seq(E) /\ Len(q) = Len(c) + Len(d)
      /\ \A i \in 1..Len(c) + Len(d) : q[i] = IF i <= Len(c) THEN c[i] ELSE d[i - Len(c)]
  BY <1>2, ConcatProperties
<1> HIDE DEF q
<1>4. ASSUME NEW i \in 1..w - 1
      PROVE  q[i] = s[i]
  <2>1. i \in 1..Len(c) + Len(d) /\ i <= Len(c)
    BY <1>1, <1>2
  <2>2. q[i] = c[i]
    BY <2>1, <1>3
  <2> QED
    BY <2>2, <1>2
<1>5. ASSUME NEW i \in w..Len(q)
      PROVE  q[i] = s[(i - w) + r]
  <2>1. i - Len(c) \in 1..Len(s) - (r - 1) /\ i \in 1..Len(c) + Len(d) /\ ~(i <= Len(c))
        /\ ((i - Len(c)) - 1) + r = (i - w) + r
    BY <1>1, <1>2, <1>3
  <2> QED
    BY <2>1, <1>2, <1>3
<1> QED
  BY <1>1, <1>2, <1>3, <1>4, <1>5 DEF RestOf, Rest, q, c, d

\* p is s with an element at a place, before what was there.
InsertIs(p, E, s, n, a) ==
    /\ p \in Seq(E) /\ Len(p) = Len(s) + 1
    /\ \A j \in 1..Len(s) + 1 : p[j] = IF j < n THEN s[j] ELSE IF j = n THEN a ELSE s[j - 1]

\* One more element
LEMMA InsertIn ==
    ASSUME NEW E, NEW s \in Seq(E), NEW i \in 1..Len(s) + 1, NEW e \in E
    PROVE  InsertIs(InsertAt(s, i, e), E, s, i, e)
<1> DEFINE c == SubSeq(s, 1, i - 1)  d == SubSeq(s, i, Len(s))
           b == <<e>>  cb == c \o b  q == cb \o d
<1>1. Len(s) \in Nat
  OBVIOUS
<1>2. /\ c \in Seq(E) /\ Len(c) = i - 1 /\ \A j \in 1..i - 1 : c[j] = s[j]
      /\ d \in Seq(E) /\ Len(d) = Len(s) - (i - 1)
      /\ \A j \in 1..Len(s) - (i - 1) : d[j] = s[(j - 1) + i]
  BY Ends
<1>3. b \in Seq(E) /\ Len(b) = 1 /\ b[1] = e
  OBVIOUS
<1> HIDE DEF c, d, b
<1>4. /\ cb \in Seq(E) /\ Len(cb) = Len(c) + Len(b)
      /\ \A j \in 1..Len(c) + Len(b) : cb[j] = IF j <= Len(c) THEN c[j] ELSE b[j - Len(c)]
  BY <1>2, <1>3, ConcatProperties
<1> HIDE DEF cb
<1>5. /\ q \in Seq(E) /\ Len(q) = Len(cb) + Len(d)
      /\ \A j \in 1..Len(cb) + Len(d) : q[j] = IF j <= Len(cb) THEN cb[j] ELSE d[j - Len(cb)]
  <2>1. cb \in Seq(E) /\ d \in Seq(E)
    BY <1>2, <1>4
  <2> QED
    BY <2>1, ConcatProperties
<1> HIDE DEF q
<1>6. Len(cb) = i /\ Len(q) = Len(s) + 1
  BY <1>1, <1>2, <1>3, <1>4, <1>5
<1>7. ASSUME NEW j \in 1..Len(s) + 1
      PROVE  q[j] = IF j < i THEN s[j] ELSE IF j = i THEN e ELSE s[j - 1]
  <2>1. CASE j < i
    <3>1. j \in 1..i - 1 /\ j <= Len(c) /\ j \in 1..Len(c) + Len(b) /\ j <= Len(cb)
          /\ j \in 1..Len(cb) + Len(d)
      BY <2>1, <1>1, <1>2, <1>3, <1>6
    <3> QED
      BY <3>1, <2>1, <1>2, <1>4, <1>5
  <2>2. CASE j = i
    <3>1. ~(j <= Len(c)) /\ j \in 1..Len(c) + Len(b) /\ j <= Len(cb) /\ j \in 1..Len(cb) + Len(d)
          /\ j - Len(c) = 1
      BY <2>2, <1>1, <1>2, <1>3, <1>6
    <3> QED
      BY <3>1, <2>2, <1>3, <1>4, <1>5
  <2>3. CASE j > i
    <3>1. ~(j <= Len(cb)) /\ j \in 1..Len(cb) + Len(d) /\ j - Len(cb) \in 1..Len(s) - (i - 1)
          /\ ((j - Len(cb)) - 1) + i = j - 1
      BY <2>3, <1>1, <1>2, <1>6
    <3>2. q[j] = d[j - Len(cb)] /\ d[j - Len(cb)] = s[((j - Len(cb)) - 1) + i]
      BY <3>1, <1>2, <1>5
    <3>3. ~(j < i) /\ j # i
      BY <2>3
    <3> QED
      BY <3>1, <3>2, <3>3
  <2> QED
    BY <2>1, <2>2, <2>3
<1>8. InsertIs(q, E, s, i, e)
  BY <1>5, <1>6, <1>7 DEF InsertIs
<1> QED
  BY <1>8 DEF InsertAt, q, cb, b, c, d

\* One element changed
LEMMA PutAt ==
    ASSUME NEW E, NEW s \in Seq(E), NEW i \in 1..Len(s), NEW e \in E
    PROVE  /\ ReplaceAt(s, i, e) \in Seq(E) /\ Len(ReplaceAt(s, i, e)) = Len(s)
           /\ \A j \in 1..Len(s) : ReplaceAt(s, i, e)[j] = IF j = i THEN e ELSE s[j]
<1> DEFINE q == [s EXCEPT ![i] = e]
<1>1. q \in Seq(E) /\ Len(q) = Len(s)
  OBVIOUS
<1>2. \A j \in 1..Len(s) : q[j] = IF j = i THEN e ELSE s[j]
  OBVIOUS
<1> QED
  BY <1>1, <1>2 DEF ReplaceAt

\* z is s up to k, the element e, m times, and s after l.
Follows(z, E, s, k, m, e, l) ==
    /\ z \in Seq(E) /\ m \in {0, 1} /\ Len(z) = k + m + (Len(s) - l)
    /\ \A i \in 1..k : z[i] = s[i]
    /\ m = 1 => z[k + 1] = e
    /\ \A i \in k + m + 1..Len(z) : z[i] = s[(i - (k + m)) + l]

\* The numbers of the runs, and where a run is that is before or after the gap
LEMMA GapParts ==
    ASSUME NEW E, NEW s \in Seq(E), NEW r \in 1..Len(s) + 1, NEW w \in 1..r
    PROVE  LET q == Rest(s, w, r)
           IN  /\ Len(s) \in Nat /\ q \in Seq(E) /\ Len(q) \in Nat /\ Len(q) = (w - 1) + (Len(s) - (r - 1))
               /\ \A i \in 1..w - 1 : q[i] = s[i]
               /\ \A i \in w..Len(q) : q[i] = s[(i - w) + r]
<1>1. Len(s) \in Nat
  OBVIOUS
<1>2. w \in 1..Len(s) + 1
  BY <1>1
<1>3. RestOf(Rest(s, w, r), E, s, w, r)
  BY <1>2, RestIs
<1>4. Rest(s, w, r) \in Seq(E) => Len(Rest(s, w, r)) \in Nat
  OBVIOUS
<1> QED
  BY <1>1, <1>3, <1>4 DEF RestOf

\* q is s with another element at a place.
PutAtIs(q, E, s, n, e) ==
    /\ q \in Seq(E) /\ Len(q) = Len(s)
    /\ \A j \in 1..Len(s) : q[j] = IF j = n THEN e ELSE s[j]

\* One element changed, in these terms
LEMMA PutIn ==
    ASSUME NEW E, NEW s \in Seq(E), NEW n \in 1..Len(s), NEW e \in E
    PROVE  PutAtIs(ReplaceAt(s, n, e), E, s, n, e)
BY PutAt, SMTT(40) DEF PutAtIs

\* The run at the cursor is split: its end takes another value.
LEMMA SplitRun ==
    ASSUME NEW E, NEW s \in Seq(E), NEW r \in 1..Len(s), NEW a \in E, NEW e \in E
    PROVE  LET q == ReplaceAt(InsertAt(s, r + 1, a), r + 1, e)
           IN  /\ q \in Seq(E) /\ Len(q) = Len(s) + 1 /\ q[r + 1] = e
               /\ Follows(Rest(q, r + 2, r + 2), E, Rest(s, r, r), r, 1, e, r)
<1> DEFINE n == r + 1
           p == InsertAt(s, n, a)
           q == ReplaceAt(p, n, e)
           R == Rest(s, r, r)  Q == Rest(q, r + 2, r + 2)
<1>1. Len(s) \in Nat
  OBVIOUS
<1>0. n \in 1..Len(s) + 1
  BY <1>1
<1> HIDE DEF n
<1>13. InsertIs(p, E, s, n, a)
  BY <1>0, InsertIn
<1> HIDE DEF p
<1>14. p \in Seq(E) /\ n \in 1..Len(p)
  BY <1>0, <1>13 DEF InsertIs
<1>15. PutAtIs(q, E, p, n, e)
  BY <1>14, PutIn
<1> HIDE DEF q
<1>2. /\ p \in Seq(E) /\ Len(p) = Len(s) + 1
      /\ \A j \in 1..Len(s) + 1 : p[j] = IF j < r + 1 THEN s[j] ELSE IF j = r + 1 THEN a ELSE s[j - 1]
  BY <1>13, Zenon DEF n, InsertIs
<1>3. /\ q \in Seq(E) /\ Len(q) = Len(s) + 1
      /\ \A j \in 1..Len(s) + 1 : q[j] = IF j = r + 1 THEN e ELSE p[j]
  BY <1>2, <1>15, Zenon DEF n, PutAtIs
<1>4. /\ Len(R) = Len(s) /\ \A i \in 1..r - 1 : R[i] = s[i]
      /\ \A i \in r..Len(R) : R[i] = s[(i - r) + r]
  <2>1. r \in 1..Len(s) + 1 /\ r \in 1..r
    BY <1>1
  <2> QED
    BY <2>1, <1>1, GapParts
<1>5. /\ Q \in Seq(E) /\ Len(Q) = Len(s) + 1 /\ \A i \in 1..r + 1 : Q[i] = q[i]
      /\ \A i \in r + 2..Len(Q) : Q[i] = q[(i - (r + 2)) + (r + 2)]
  <2>1. r + 2 \in 1..Len(q) + 1 /\ r + 2 \in 1..r + 2 /\ (r + 2) - 1 = r + 1
    BY <1>1, <1>3
  <2>2. /\ Q \in Seq(E) /\ Len(Q) = ((r + 2) - 1) + (Len(q) - ((r + 2) - 1))
        /\ \A i \in 1..(r + 2) - 1 : Q[i] = q[i]
        /\ \A i \in r + 2..Len(Q) : Q[i] = q[(i - (r + 2)) + (r + 2)]
    BY <2>1, <1>3, GapParts, ZenonT(60)
  <2> HIDE DEF Q
  <2> QED
    BY <2>1, <2>2, <1>1, <1>3
<1> HIDE DEF R, Q
<1>6. \A i \in 1..Len(s) : R[i] = s[i]
  <2> TAKE i \in 1..Len(s)
  <2>1. i \in 1..r - 1 \/ (i \in r..Len(R) /\ (i - r) + r = i)
    BY <1>1, <1>4
  <2> QED
    BY <2>1, <1>4
<1>7. \A i \in 1..Len(s) + 1 : Q[i] = q[i]
  <2> TAKE i \in 1..Len(s) + 1
  <2>1. i \in 1..r + 1 \/ (i \in r + 2..Len(Q) /\ (i - (r + 2)) + (r + 2) = i)
    BY <1>1, <1>5
  <2> QED
    BY <2>1, <1>5
<1>8. Len(Q) = r + 1 + (Len(R) - r)
  BY <1>1, <1>4, <1>5
<1>9. ASSUME NEW i \in 1..r
      PROVE  Q[i] = R[i]
  <2>1. i \in 1..Len(s) + 1 /\ i \in 1..Len(s) /\ i # r + 1 /\ i < r + 1
    BY <1>1
  <2> QED
    BY <2>1, <1>2, <1>3, <1>6, <1>7
<1>10. q[r + 1] = e /\ Q[r + 1] = e
  <2>1. r + 1 \in 1..Len(s) + 1
    BY <1>1
  <2> QED
    BY <2>1, <1>3, <1>7
<1>11. ASSUME NEW i \in r + 1 + 1..Len(Q)
       PROVE  Q[i] = R[(i - (r + 1)) + r]
  <2>1. /\ i \in 1..Len(s) + 1 /\ i - 1 \in 1..Len(s) /\ i # r + 1 /\ ~(i < r + 1)
        /\ (i - (r + 1)) + r = i - 1
    BY <1>1, <1>5
  <2>2. Q[i] = p[i] /\ p[i] = s[i - 1]
    BY <2>1, <1>2, <1>3, <1>7
  <2>3. R[i - 1] = s[i - 1]
    BY <2>1, <1>6
  <2> QED
    BY <2>1, <2>2, <2>3
<1>12. Follows(Q, E, R, r, 1, e, r)
  BY <1>5, <1>8, <1>9, <1>10, <1>11 DEF Follows
<1> QED
  BY <1>3, <1>10, <1>12 DEF q, p, Q, R, n

\* The run at the cursor gives way to another, which may close the gap.
LEMMA PutRun ==
    ASSUME NEW E, NEW s \in Seq(E), NEW r \in 1..Len(s), NEW w \in 1..r, NEW e \in E
    PROVE  LET q == ReplaceAt(s, w, e)
           IN  /\ q \in Seq(E) /\ Len(q) = Len(s) /\ q[w] = e
               /\ Follows(Rest(q, w + 1, r + 1), E, Rest(s, w, r), w - 1, 1, e, w)
<1> DEFINE q == ReplaceAt(s, w, e)
           R == Rest(s, w, r)  Q == Rest(q, w + 1, r + 1)
<1>1. Len(s) \in Nat /\ w \in 1..Len(s)
  OBVIOUS
<1>2. /\ q \in Seq(E) /\ Len(q) = Len(s)
      /\ \A j \in 1..Len(s) : q[j] = IF j = w THEN e ELSE s[j]
  BY <1>1, PutAt
<1> HIDE DEF q
<1>3. /\ Len(R) = (w - 1) + (Len(s) - (r - 1)) /\ \A i \in 1..w - 1 : R[i] = s[i]
      /\ \A i \in w..Len(R) : R[i] = s[(i - w) + r]
  <2>1. r \in 1..Len(s) + 1
    BY <1>1
  <2> QED
    BY <2>1, GapParts
<1>4. /\ Q \in Seq(E) /\ Len(Q) = w + (Len(s) - r) /\ \A i \in 1..w : Q[i] = q[i]
      /\ \A i \in w + 1..Len(Q) : Q[i] = q[(i - (w + 1)) + (r + 1)]
  <2>1. r + 1 \in 1..Len(q) + 1 /\ w + 1 \in 1..r + 1 /\ (w + 1) - 1 = w /\ (r + 1) - 1 = r
    BY <1>1, <1>2
  <2>2. /\ Q \in Seq(E) /\ Len(Q) = ((w + 1) - 1) + (Len(q) - ((r + 1) - 1))
        /\ \A i \in 1..(w + 1) - 1 : Q[i] = q[i]
        /\ \A i \in w + 1..Len(Q) : Q[i] = q[(i - (w + 1)) + (r + 1)]
    BY <2>1, <1>2, GapParts, ZenonT(60)
  <2> HIDE DEF Q
  <2> QED
    BY <2>1, <2>2, <1>1, <1>2
<1> HIDE DEF R, Q
<1>5. Len(Q) = (w - 1) + 1 + (Len(R) - w)
  BY <1>1, <1>3, <1>4
<1>6. ASSUME NEW i \in 1..w - 1
      PROVE  Q[i] = R[i]
  <2>1. i \in 1..w /\ i \in 1..Len(s) /\ i # w
    BY <1>1
  <2> QED
    BY <2>1, <1>2, <1>3, <1>4
<1>7. q[w] = e /\ Q[(w - 1) + 1] = e
  <2>1. w \in 1..w /\ (w - 1) + 1 = w
    BY <1>1
  <2> QED
    BY <2>1, <1>1, <1>2, <1>4
<1>8. ASSUME NEW i \in (w - 1) + 1 + 1..Len(Q)
      PROVE  Q[i] = R[(i - ((w - 1) + 1)) + w]
  <2>1. /\ i \in w + 1..Len(Q) /\ i \in w..Len(R) /\ (i - ((w - 1) + 1)) + w = i
        /\ (i - (w + 1)) + (r + 1) = (i - w) + r /\ (i - w) + r \in 1..Len(s) /\ (i - w) + r # w
    BY <1>1, <1>3, <1>4
  <2>2. Q[i] = q[(i - w) + r] /\ q[(i - w) + r] = s[(i - w) + r]
    BY <2>1, <1>2, <1>4
  <2>3. R[i] = s[(i - w) + r]
    BY <2>1, <1>3
  <2> QED
    BY <2>1, <2>2, <2>3
<1>9. Follows(Q, E, R, w - 1, 1, e, w)
  BY <1>4, <1>5, <1>6, <1>7, <1>8 DEF Follows
<1> QED
  BY <1>2, <1>7, <1>9 DEF q, Q, R

\* The run at the cursor is left out.
LEMMA SkipRun ==
    ASSUME NEW E, NEW s \in Seq(E), NEW r \in 1..Len(s), NEW w \in 1..r, NEW e
    PROVE  Follows(Rest(s, w, r + 1), E, Rest(s, w, r), w - 1, 0, e, w)
<1> DEFINE R == Rest(s, w, r)  Q == Rest(s, w, r + 1)
<1>1. Len(s) \in Nat /\ w \in 1..Len(s)
  OBVIOUS
<1>2. /\ Len(R) = (w - 1) + (Len(s) - (r - 1)) /\ \A i \in 1..w - 1 : R[i] = s[i]
      /\ \A i \in w..Len(R) : R[i] = s[(i - w) + r]
  <2>1. r \in 1..Len(s) + 1
    BY <1>1
  <2> QED
    BY <2>1, GapParts
<1>3. /\ Q \in Seq(E) /\ Len(Q) = (w - 1) + (Len(s) - r) /\ \A i \in 1..w - 1 : Q[i] = s[i]
      /\ \A i \in w..Len(Q) : Q[i] = s[(i - w) + (r + 1)]
  <2>1. r + 1 \in 1..Len(s) + 1 /\ w \in 1..r + 1 /\ (r + 1) - 1 = r
    BY <1>1
  <2> QED
    BY <2>1, GapParts, ZenonT(60)
<1> HIDE DEF R, Q
<1>4. Len(Q) = (w - 1) + 0 + (Len(R) - w)
  BY <1>1, <1>2, <1>3
<1>5. ASSUME NEW i \in (w - 1) + 0 + 1..Len(Q)
      PROVE  Q[i] = R[(i - ((w - 1) + 0)) + w]
  <2>1. /\ i \in w..Len(Q) /\ i + 1 \in w..Len(R) /\ (i - ((w - 1) + 0)) + w = i + 1
        /\ (i - w) + (r + 1) = ((i + 1) - w) + r
    BY <1>1, <1>2, <1>3
  <2>2. Q[i] = s[(i - w) + (r + 1)] /\ R[i + 1] = s[((i + 1) - w) + r]
    BY <2>1, <1>2, <1>3
  <2> QED
    BY <2>1, <2>2
<1>6. \A i \in 1..w - 1 : Q[i] = R[i]
  BY <1>2, <1>3
<1>7. Follows(Q, E, R, w - 1, 0, e, w)
  <2>1. 0 \in {0, 1} /\ ~(0 = 1)
    OBVIOUS
  <2> QED
    BY <2>1, <1>3, <1>4, <1>5, <1>6, Zenon DEF Follows
<1> QED
  BY <1>7 DEF Q, R

\* An element goes into the gap, or where there is none.
LEMMA FillGap ==
    ASSUME NEW E, NEW q \in Seq(E), NEW r \in 1..Len(q) + 1, NEW w \in 1..r, NEW e \in E
    PROVE  /\ w < r => Follows(Rest(ReplaceAt(q, w, e), w + 1, r), E, Rest(q, w, r), w - 1, 1, e, w - 1)
           /\ w = r => Follows(Rest(InsertAt(q, r, e), w, r), E, Rest(q, w, r), w - 1, 1, e, w - 1)
<1> DEFINE R == Rest(q, w, r)
<1>1. Len(q) \in Nat
  OBVIOUS
<1>2. /\ Len(R) = (w - 1) + (Len(q) - (r - 1)) /\ \A i \in 1..w - 1 : R[i] = q[i]
      /\ \A i \in w..Len(R) : R[i] = q[(i - w) + r]
  BY GapParts
<1> HIDE DEF R
<1>3. ASSUME w < r
      PROVE  Follows(Rest(ReplaceAt(q, w, e), w + 1, r), E, R, w - 1, 1, e, w - 1)
  <2> DEFINE f == ReplaceAt(q, w, e)  Q == Rest(f, w + 1, r)
  <2>1. /\ f \in Seq(E) /\ Len(f) = Len(q)
        /\ \A j \in 1..Len(q) : f[j] = IF j = w THEN e ELSE q[j]
    <3>1. w \in 1..Len(q)
      BY <1>1, <1>3
    <3> QED
      BY <3>1, PutAt
  <2> HIDE DEF f
  <2>2. /\ Q \in Seq(E) /\ Len(Q) = w + (Len(q) - (r - 1)) /\ \A i \in 1..w : Q[i] = f[i]
        /\ \A i \in w + 1..Len(Q) : Q[i] = f[(i - (w + 1)) + r]
    <3>1. r \in 1..Len(f) + 1 /\ w + 1 \in 1..r /\ (w + 1) - 1 = w
      BY <1>1, <1>3, <2>1
    <3>2. /\ Q \in Seq(E) /\ Len(Q) = ((w + 1) - 1) + (Len(f) - (r - 1))
          /\ \A i \in 1..(w + 1) - 1 : Q[i] = f[i]
          /\ \A i \in w + 1..Len(Q) : Q[i] = f[(i - (w + 1)) + r]
      BY <3>1, <2>1, GapParts
    <3> HIDE DEF Q
    <3> QED
      BY <3>1, <3>2, <2>1
  <2> HIDE DEF Q
  <2>3. Len(Q) = (w - 1) + 1 + (Len(R) - (w - 1))
    BY <1>1, <1>2, <2>2
  <2>4. ASSUME NEW i \in 1..w - 1
        PROVE  Q[i] = R[i]
    <3>1. i \in 1..w /\ i \in 1..Len(q) /\ i # w
      BY <1>1, <1>3
    <3> QED
      BY <3>1, <1>2, <2>1, <2>2
  <2>5. Q[(w - 1) + 1] = e
    <3>1. w \in 1..w /\ (w - 1) + 1 = w /\ w \in 1..Len(q)
      BY <1>1, <1>3
    <3> QED
      BY <3>1, <2>1, <2>2
  <2>6. ASSUME NEW i \in (w - 1) + 1 + 1..Len(Q)
        PROVE  Q[i] = R[(i - ((w - 1) + 1)) + (w - 1)]
    <3>1. /\ i \in w + 1..Len(Q) /\ i - 1 \in w..Len(R) /\ (i - ((w - 1) + 1)) + (w - 1) = i - 1
          /\ (i - (w + 1)) + r = ((i - 1) - w) + r /\ ((i - 1) - w) + r \in 1..Len(q)
          /\ ((i - 1) - w) + r # w
      <4> DEFINE n == Len(q)  l == Len(Q)  g == Len(R)
      <4>1. /\ n \in Nat /\ l = w + (n - (r - 1)) /\ g = (w - 1) + (n - (r - 1)) /\ w < r
            /\ i \in (w - 1) + 1 + 1..l /\ r \in 1..n + 1 /\ w \in 1..r
        BY <1>1, <1>2, <1>3, <2>2
      <4> HIDE DEF n, l, g
      <4>2. /\ i \in w + 1..l /\ i - 1 \in w..g /\ (i - ((w - 1) + 1)) + (w - 1) = i - 1
            /\ (i - (w + 1)) + r = ((i - 1) - w) + r
        BY <4>1
      <4>3. ((i - 1) - w) + r \in 1..n /\ ((i - 1) - w) + r # w
        BY <4>1
      <4> QED
        BY <4>2, <4>3 DEF n, l, g
    <3>2. Q[i] = f[((i - 1) - w) + r] /\ f[((i - 1) - w) + r] = q[((i - 1) - w) + r]
      BY <3>1, <2>1, <2>2
    <3>3. R[i - 1] = q[((i - 1) - w) + r]
      BY <3>1, <1>2
    <3> QED
      BY <3>1, <3>2, <3>3
  <2>7. Follows(Q, E, R, w - 1, 1, e, w - 1)
    BY <2>2, <2>3, <2>4, <2>5, <2>6 DEF Follows
  <2> QED
    BY <2>7 DEF Q, f
<1>4. ASSUME w = r
      PROVE  Follows(Rest(InsertAt(q, r, e), w, r), E, R, w - 1, 1, e, w - 1)
  <2> DEFINE f == InsertAt(q, r, e)  Q == Rest(f, w, r)
  <2>1. /\ f \in Seq(E) /\ Len(f) = Len(q) + 1
        /\ \A j \in 1..Len(q) + 1 : f[j] = IF j < r THEN q[j] ELSE IF j = r THEN e ELSE q[j - 1]
    <3>1. InsertIs(f, E, q, r, e)
      BY InsertIn
    <3> QED
      BY <3>1 DEF InsertIs
  <2> HIDE DEF f
  <2>2. /\ Q \in Seq(E) /\ Len(Q) = (w - 1) + (Len(f) - (r - 1)) /\ \A i \in 1..w - 1 : Q[i] = f[i]
        /\ \A i \in w..Len(Q) : Q[i] = f[(i - w) + r]
    <3>1. r \in 1..Len(f) + 1
      BY <1>1, <2>1
    <3> QED
      BY <3>1, <2>1, GapParts, ZenonT(60)
  <2> HIDE DEF Q
  <2>3. Len(Q) = (w - 1) + 1 + (Len(R) - (w - 1))
    BY <1>1, <1>2, <2>1, <2>2
  <2>4. ASSUME NEW i \in 1..w - 1
        PROVE  Q[i] = R[i]
    <3>1. i \in 1..Len(q) + 1 /\ i < r
      BY <1>1, <1>4
    <3> QED
      BY <3>1, <1>2, <2>1, <2>2
  <2>5. Q[(w - 1) + 1] = e
    <3>1. w \in w..Len(Q) /\ (w - 1) + 1 = w /\ (w - w) + r = r /\ r \in 1..Len(q) + 1 /\ ~(r < r)
      BY <1>1, <2>1, <2>2
    <3> QED
      BY <3>1, <2>1, <2>2
  <2>6. ASSUME NEW i \in (w - 1) + 1 + 1..Len(Q)
        PROVE  Q[i] = R[(i - ((w - 1) + 1)) + (w - 1)]
    <3>1. /\ i \in w..Len(Q) /\ i - 1 \in w..Len(R) /\ (i - ((w - 1) + 1)) + (w - 1) = i - 1
          /\ (i - w) + r = i /\ i \in 1..Len(q) + 1 /\ ~(i < r) /\ i # r /\ ((i - 1) - w) + r = i - 1
      BY <1>1, <1>2, <1>4, <2>1, <2>2
    <3>2. Q[i] = f[i] /\ f[i] = q[i - 1]
      BY <3>1, <2>1, <2>2
    <3>3. R[i - 1] = q[i - 1]
      BY <3>1, <1>2
    <3> QED
      BY <3>1, <3>2, <3>3
  <2>7. Follows(Q, E, R, w - 1, 1, e, w - 1)
    BY <2>2, <2>3, <2>4, <2>5, <2>6 DEF Follows
  <2> QED
    BY <2>7 DEF Q, f
<1> QED
  BY <1>3, <1>4 DEF R

\* A cursor stands in the run that it reads, which without the gap is the run it writes;
\* the runs before that differ from each other, and so do those from it on.
At(s, V, size, r, w, from, to) ==
    /\ s \in Seq(V \X Nat) /\ r \in 1..Len(s) /\ w \in 1..r
    /\ from \in Nat /\ to \in Nat /\ from < to /\ to <= size
    /\ IsOrdered(Rest(s, w, r), V, size)
    /\ Distinct(Rest(s, w, r), 2..w - 1) /\ Distinct(Rest(s, w, r), w + 1..Len(Rest(s, w, r)))
    /\ StartOf(s, r) <= from /\ from < End(s, size, r)
    /\ StartOf(s, r) < from => r = w /\ Distinct(Rest(s, w, r), 2..w)

Here(R, s, V, size, r, w) ==
    /\ R \in Seq(V \X Nat) /\ Len(R) \in Nat /\ w \in 1..Len(R) /\ Len(s) \in Nat
    /\ \A i \in 1..w - 1 : R[i] = s[i] /\ Value(R, i) = Value(s, i)
    /\ Value(R, w) = Value(s, r) /\ StartOf(R, w) = StartOf(s, r)
    /\ End(R, size, w) = End(s, size, r)
    /\ r = w => Len(R) = Len(s) /\ R = s

\* The map is the same before the gap, and the run of the cursor comes next.
LEMMA HereParts ==
    ASSUME NEW V, NEW size \in Nat, NEW s, NEW r, NEW w, NEW from, NEW to,
           At(s, V, size, r, w, from, to)
    PROVE  Here(Rest(s, w, r), s, V, size, r, w)
<1> DEFINE R == Rest(s, w, r)
<1>1. s \in Seq(V \X Nat) /\ Len(s) \in Nat /\ r \in 1..Len(s) /\ w \in 1..r
  BY DEF At
<1>2. /\ R \in Seq(V \X Nat) /\ Len(R) \in Nat /\ Len(R) = (w - 1) + (Len(s) - (r - 1))
      /\ \A i \in 1..w - 1 : R[i] = s[i]
      /\ \A i \in w..Len(R) : R[i] = s[(i - w) + r]
  <2>1. r \in 1..Len(s) + 1
    BY <1>1
  <2> QED
    BY <2>1, <1>1, GapParts, SMTT(40)
<1> HIDE DEF R
<1>3. w \in 1..Len(R) /\ w \in w..Len(R) /\ (w - w) + r = r
  <2> DEFINE n == Len(s)  g == Len(R)
  <2>1. n \in Nat /\ r \in 1..n /\ w \in 1..r /\ g = (w - 1) + (n - (r - 1))
    BY <1>1, <1>2
  <2> HIDE DEF n, g
  <2>2. w \in 1..g /\ w \in w..g /\ (w - w) + r = r
    BY <2>1
  <2> QED
    BY <2>2 DEF g
<1>4. R[w] = s[r]
  BY <1>2, <1>3
<1>5. End(R, size, w) = End(s, size, r)
  <2> DEFINE n == Len(s)  g == Len(R)
  <2>1. n \in Nat /\ r \in 1..n /\ w \in 1..r /\ g = (w - 1) + (n - (r - 1))
    BY <1>1, <1>2
  <2> HIDE DEF n, g
  <2>2. w < g <=> r < n
    BY <2>1
  <2>3. w < g => w + 1 \in w..g /\ (w + 1) - w + r = r + 1
    BY <2>1
  <2>4. w < g => R[w + 1] = s[r + 1]
    BY <2>3, <1>2 DEF g
  <2> QED
    BY <2>2, <2>4 DEF End, StartOf, g, n
<1>6. ASSUME r = w
      PROVE  Len(R) = Len(s) /\ R = s
  <2>1. Len(R) = Len(s)
    BY <1>1, <1>2, <1>6
  <2>2. ASSUME NEW i \in 1..Len(s)
        PROVE  R[i] = s[i]
    <3>1. i \in 1..w - 1 \/ (i \in w..Len(R) /\ (i - w) + r = i)
      BY <1>1, <1>6, <2>1
    <3> QED
      BY <3>1, <1>2
  <2>3. R = s
    BY <1>1, <1>2, <2>1, <2>2, SeqEqual
  <2> QED
    BY <2>1, <2>3
<1>7. \A i \in 1..w - 1 : R[i] = s[i] /\ Value(R, i) = Value(s, i)
  BY <1>2 DEF Value
<1>8. Value(R, w) = Value(s, r) /\ StartOf(R, w) = StartOf(s, r)
  BY <1>4 DEF Value, StartOf
<1> QED
  BY <1>1, <1>2, <1>3, <1>5, <1>6, <1>7, <1>8 DEF R, Here

\* k runs of R come before a place b, and m runs of the value new begin there; w is the run
\* that has made way for them.
Begins(R, w, k, m, new, b) ==
    /\ k \in Nat /\ m \in {0, 1} /\ k <= w /\ w <= k + 1 /\ b \in Nat
    /\ m = 0 => k >= 1 /\ k = w - 1 /\ Value(R, k) = new
    /\ m = 1 => k = 0 \/ Value(R, k) # new
    /\ \A i \in 1..k : StartOf(R, i) < b
    /\ \A i \in 1..Len(R) : i > k => StartOf(R, i) >= b
    /\ Distinct(R, 2..k)

\* The cursor has put them into the map q and is at its next run.
Written(q, r, w2, V, R, w, k, m, new, b) ==
    /\ Begins(R, w, k, m, new, b)
    /\ q \in Seq(V \X Nat) /\ r \in 1..Len(q) + 1 /\ w2 = (k + m) + 1 /\ w2 <= r
    /\ Follows(Rest(q, w2, r), V \X Nat, R, k, m, <<new, b>>, w)
    /\ Value(q, k + m) = new

\* Each run starts after those before it.
Ascends(s, V, size, w) ==
    /\ Len(s) \in Nat /\ \A i \in 1..Len(s) : /\ Value(s, i) \in V /\ StartOf(s, i) \in Nat
                                               /\ s[i] = <<Value(s, i), StartOf(s, i)>>
    /\ \A i \in 1..Len(s) : (i < w => StartOf(s, i) < StartOf(s, w))
                         /\ (i > w => StartOf(s, i) > StartOf(s, w) /\ StartOf(s, i) >= End(s, size, w))
    /\ End(s, size, w) \in Nat /\ StartOf(s, w) < End(s, size, w) /\ End(s, size, w) <= size
    /\ w < Len(s) => StartOf(s, w + 1) = End(s, size, w) /\ End(s, size, w) < size
    /\ w = Len(s) => End(s, size, w) = size
    /\ \A i \in 1..Len(s) : i > w + 1 => StartOf(s, i) > End(s, size, w)

\* Runs in order have their places.
LEMMA Ascending ==
    ASSUME NEW V, NEW size \in Nat, NEW s, IsOrdered(s, V, size), NEW w \in 1..Len(s)
    PROVE  Ascends(s, V, size, w)
<1>1. /\ Len(s) \in Nat \ {0} /\ DOMAIN s = 1..Len(s)
      /\ \A i \in 1..Len(s) : /\ Value(s, i) \in V /\ StartOf(s, i) \in Nat
                              /\ s[i] = <<Value(s, i), StartOf(s, i)>>
  BY RunParts
<1>2. /\ \A i \in 1..Len(s) : StartOf(s, i) < size
      /\ \A q, r \in 1..Len(s) : q < r => StartOf(s, q) < StartOf(s, r)
  BY <1>1 DEF IsOrdered
<1>3. w < Len(s) => w + 1 \in 1..Len(s) /\ StartOf(s, w + 1) = End(s, size, w)
  BY <1>1 DEF End
<1>4. w = Len(s) => End(s, size, w) = size
  BY <1>1 DEF End
<1>5. w < Len(s) \/ w = Len(s)
  <2> DEFINE n == Len(s)
  <2>1. n \in Nat /\ w \in 1..n
    BY <1>1
  <2> HIDE DEF n
  <2>2. w < n \/ w = n
    BY <2>1
  <2> QED
    BY <2>2 DEF n
<1>6. /\ End(s, size, w) \in Nat /\ StartOf(s, w) < End(s, size, w) /\ End(s, size, w) <= size
      /\ w < Len(s) => StartOf(s, w + 1) = End(s, size, w) /\ End(s, size, w) < size
  <2>1. CASE w < Len(s)
    <3>1. w < w + 1
      BY <1>1
    <3>2. StartOf(s, w) < StartOf(s, w + 1) /\ StartOf(s, w + 1) < size /\ StartOf(s, w + 1) \in Nat
      BY <3>1, <2>1, <1>1, <1>2, <1>3
    <3> QED
      BY <3>2, <2>1, <1>3
  <2>2. CASE w = Len(s)
    <3>1. StartOf(s, w) < size /\ ~(w < Len(s))
      BY <2>2, <1>1, <1>2
    <3> QED
      BY <3>1, <2>2, <1>4
  <2> QED
    BY <2>1, <2>2, <1>5
<1>7. ASSUME NEW i \in 1..Len(s)
      PROVE  /\ (i < w => StartOf(s, i) < StartOf(s, w))
             /\ (i > w => StartOf(s, i) > StartOf(s, w) /\ StartOf(s, i) >= End(s, size, w))
             /\ (i > w + 1 => StartOf(s, i) > End(s, size, w))
  <2>1. i < w => StartOf(s, i) < StartOf(s, w)
    BY <1>2
  <2>2. i > w => StartOf(s, w) < StartOf(s, i)
    BY <1>1, <1>2
  <2>3. i > w => w < Len(s) /\ (i = w + 1 \/ i > w + 1)
    BY <1>1
  <2>4. i > w + 1 => w < Len(s) /\ StartOf(s, w + 1) < StartOf(s, i)
    <3>1. i > w + 1 => w < Len(s) /\ w + 1 < i
      BY <1>1
    <3> QED
      BY <3>1, <1>2, <1>3
  <2>5. i > w + 1 => StartOf(s, i) > End(s, size, w)
    BY <2>4, <1>1, <1>3
  <2>6. i > w => StartOf(s, i) >= End(s, size, w)
    BY <2>3, <2>5, <1>1, <1>3, <1>6
  <2> QED
    BY <2>1, <2>2, <2>5, <2>6, <1>1
<1> QED
  BY <1>1, <1>4, <1>6, <1>7 DEF Ascends

SplitIs(q, E, s, r, e) ==
    /\ q \in Seq(E) /\ Len(q) = Len(s) + 1 /\ q[r + 1] = e
    /\ Follows(Rest(q, r + 2, r + 2), E, Rest(s, r, r), r, 1, e, r)

\* Splitting a run at the cursor, in these terms
LEMMA SplitIn ==
    ASSUME NEW E, NEW s \in Seq(E), NEW r \in 1..Len(s), NEW a \in E, NEW e \in E
    PROVE  SplitIs(ReplaceAt(InsertAt(s, r + 1, a), r + 1, e), E, s, r, e)
BY SplitRun, SMTT(40) DEF SplitIs

\* A run that begins before the cursor is split there.
LEMMA WriteSplit ==
    ASSUME NEW V, NEW size \in Nat, NEW s, NEW r, NEW w, NEW from, NEW to,
           At(s, V, size, r, w, from, to), NEW new \in V, Value(s, r) # new, StartOf(s, r) < from
    PROVE  Written(ReplaceAt(InsertAt(s, r + 1, <<Value(s, r), from>>), r + 1, <<new, from>>),
                   r + 2, w + 2, V, Rest(s, w, r), w, w, 1, new, from)
<1> DEFINE R == Rest(s, w, r)
           a == <<Value(s, r), from>>  e == <<new, from>>
           q == ReplaceAt(InsertAt(s, r + 1, a), r + 1, e)
<1>1. /\ r = w /\ s \in Seq(V \X Nat) /\ Len(s) \in Nat /\ r \in 1..Len(s) /\ from \in Nat
      /\ Distinct(R, 2..w) /\ IsOrdered(R, V, size) /\ from < End(s, size, r)
  BY DEF At
<1>2. /\ Len(R) \in Nat /\ w \in 1..Len(R) /\ Value(R, w) = Value(s, r)
      /\ StartOf(R, w) = StartOf(s, r) /\ End(R, size, w) = End(s, size, r)
  <2>1. Here(Rest(s, w, r), s, V, size, r, w)
    BY HereParts
  <2> QED
    BY <2>1 DEF Here
<1>3. Rest(s, r, r) = R
  BY <1>1
<1> HIDE DEF R
<1>4. /\ \A i \in 1..Len(R) : Value(R, i) \in V /\ StartOf(R, i) \in Nat
      /\ \A i \in 1..Len(R) : (i < w => StartOf(R, i) < StartOf(R, w))
                           /\ (i > w => StartOf(R, i) >= End(R, size, w))
      /\ End(R, size, w) \in Nat
  <2>1. Ascends(R, V, size, w)
    BY <1>1, <1>2, Ascending
  <2> QED
    BY <2>1 DEF Ascends
<1>5. a \in V \X Nat /\ e \in V \X Nat
  BY <1>1, <1>2, <1>4
<1> HIDE DEF a
<1>6. /\ q \in Seq(V \X Nat) /\ Len(q) = Len(s) + 1 /\ q[r + 1] = e
      /\ Follows(Rest(q, r + 2, r + 2), V \X Nat, R, r, 1, e, r)
  <2> DEFINE E == V \X Nat
  <2>1. s \in Seq(E) /\ a \in E /\ e \in E
    BY <1>1, <1>5
  <2> HIDE DEF e, E
  <2>2. SplitIs(q, E, s, r, e)
    BY <1>1, <2>1, SplitIn
  <2> QED
    BY <2>2, <1>3 DEF E, SplitIs
<1> HIDE DEF q
<1>7. Begins(R, w, w, 1, new, from)
  <2>1. w \in Nat /\ w <= w /\ w <= w + 1 /\ 1 \in {0, 1} /\ 1 # 0
    BY <1>1
  <2>2. ASSUME NEW i \in 1..w
        PROVE  StartOf(R, i) < from
    <3>1. i \in 1..Len(R) /\ (i < w \/ i = w)
      BY <1>2
    <3> QED
      BY <3>1, <1>1, <1>2, <1>4
  <2>3. \A i \in 1..Len(R) : i > w => StartOf(R, i) >= from
    BY <1>1, <1>2, <1>4
  <2> QED
    BY <2>1, <2>2, <2>3, <1>1, <1>2 DEF Begins
<1>8. r + 2 \in 1..Len(q) + 1 /\ w + 2 = (w + 1) + 1 /\ w + 2 <= r + 2 /\ r + 1 = w + 1
  BY <1>1, <1>6
<1>9. Value(q, w + 1) = new
  BY <1>6, <1>8 DEF Value, e
<1> QED
  BY <1>1, <1>6, <1>7, <1>8, <1>9 DEF Written, q, a, e, R

\* A run that differs from the one before it takes the value.
LEMMA WritePut ==
    ASSUME NEW V, NEW size \in Nat, NEW s, NEW r, NEW w, NEW from, NEW to,
           At(s, V, size, r, w, from, to), NEW new \in V, w = 1 \/ Value(s, w - 1) # new
    PROVE  Written(ReplaceAt(s, w, <<new, StartOf(s, r)>>),
                   r + 1, w + 1, V, Rest(s, w, r), w, w - 1, 1, new, StartOf(s, r))
<1> DEFINE R == Rest(s, w, r)  b == StartOf(s, r)  e == <<new, b>>
           q == ReplaceAt(s, w, e)
<1>1. /\ s \in Seq(V \X Nat) /\ Len(s) \in Nat /\ r \in 1..Len(s) /\ w \in 1..r
      /\ Distinct(R, 2..w - 1) /\ IsOrdered(R, V, size)
  BY DEF At
<1>2. /\ Len(R) \in Nat /\ w \in 1..Len(R) /\ StartOf(R, w) = b
      /\ \A i \in 1..w - 1 : Value(R, i) = Value(s, i)
  <2>1. Here(Rest(s, w, r), s, V, size, r, w)
    BY HereParts
  <2> QED
    BY <2>1 DEF Here
<1> HIDE DEF R, b
<1>4. /\ \A i \in 1..Len(R) : StartOf(R, i) \in Nat
      /\ \A i \in 1..Len(R) : (i < w => StartOf(R, i) < StartOf(R, w))
                           /\ (i > w => StartOf(R, i) > StartOf(R, w))
  <2>1. Ascends(R, V, size, w)
    BY <1>1, <1>2, Ascending
  <2> QED
    BY <2>1 DEF Ascends
<1>5. e \in V \X Nat /\ b \in Nat
  BY <1>1, <1>2, <1>4
<1>6. /\ q \in Seq(V \X Nat) /\ Len(q) = Len(s) /\ q[w] = e
      /\ Follows(Rest(q, w + 1, r + 1), V \X Nat, R, w - 1, 1, e, w)
  <2> DEFINE E == V \X Nat
  <2>1. s \in Seq(E) /\ e \in E
    BY <1>1, <1>5
  <2> HIDE DEF e, E
  <2>2. LET p == ReplaceAt(s, w, e)
        IN  /\ p \in Seq(E) /\ Len(p) = Len(s) /\ p[w] = e
            /\ Follows(Rest(p, w + 1, r + 1), E, Rest(s, w, r), w - 1, 1, e, w)
    BY <1>1, <2>1, PutRun, Zenon
  <2> QED
    BY <2>2 DEF E, R
<1> HIDE DEF q
<1>7. Begins(R, w, w - 1, 1, new, b)
  <2>1. w - 1 \in Nat /\ w - 1 <= w /\ w <= (w - 1) + 1 /\ 1 \in {0, 1} /\ 1 # 0
    BY <1>1
  <2>2. \A i \in 1..w - 1 : i \in 1..Len(R) /\ i < w
    BY <1>2
  <2>3. \A i \in 1..Len(R) : i > w - 1 => i = w \/ i > w
    BY <1>2
  <2>4. \A i \in 1..Len(R) : i > w - 1 => StartOf(R, i) >= b
    BY <2>3, <1>2, <1>4, <1>5
  <2>5. w - 1 = 0 \/ Value(R, w - 1) # new
    <3>1. w = 1 \/ w - 1 \in 1..w - 1
      BY <1>1
    <3>2. w = 1 => w - 1 = 0
      OBVIOUS
    <3> QED
      BY <3>1, <3>2, <1>2
  <2> QED
    BY <2>1, <2>2, <2>4, <2>5, <1>1, <1>2, <1>4, <1>5 DEF Begins
<1>8. r + 1 \in 1..Len(q) + 1 /\ w + 1 = ((w - 1) + 1) + 1 /\ w + 1 <= r + 1 /\ w = (w - 1) + 1
  BY <1>1, <1>6, SMTT(40)
<1>9. Value(q, (w - 1) + 1) = new
  BY <1>6, <1>8 DEF Value, e
<1>10. Written(q, r + 1, w + 1, V, R, w, w - 1, 1, new, b)
  BY <1>1, <1>6, <1>7, <1>8, <1>9, Zenon DEF Written, e
<1> QED
  BY <1>10, Zenon DEF q, e, R, b

\* A run that would be the same as the one before it is left out.
LEMMA WriteSkip ==
    ASSUME NEW V, NEW size \in Nat, NEW s, NEW r, NEW w, NEW from, NEW to,
           At(s, V, size, r, w, from, to), NEW new \in V, w # 1, Value(s, w - 1) = new
    PROVE  Written(s, r + 1, w, V, Rest(s, w, r), w, w - 1, 0, new, StartOf(s, r))
<1> DEFINE R == Rest(s, w, r)  b == StartOf(s, r)  e == <<new, b>>
<1>1. /\ s \in Seq(V \X Nat) /\ Len(s) \in Nat /\ r \in 1..Len(s) /\ w \in 1..r
      /\ Distinct(R, 2..w - 1) /\ IsOrdered(R, V, size)
  BY DEF At
<1>2. /\ Len(R) \in Nat /\ w \in 1..Len(R) /\ StartOf(R, w) = b
      /\ \A i \in 1..w - 1 : Value(R, i) = Value(s, i)
  <2>1. Here(Rest(s, w, r), s, V, size, r, w)
    BY HereParts
  <2> QED
    BY <2>1 DEF Here
<1> HIDE DEF R, b
<1>4. /\ \A i \in 1..Len(R) : StartOf(R, i) \in Nat
      /\ \A i \in 1..Len(R) : (i < w => StartOf(R, i) < StartOf(R, w))
                           /\ (i > w => StartOf(R, i) > StartOf(R, w))
  <2>1. Ascends(R, V, size, w)
    BY <1>1, <1>2, Ascending
  <2> QED
    BY <2>1 DEF Ascends
<1>5. b \in Nat
  BY <1>1, <1>2, <1>4
<1>6. Follows(Rest(s, w, r + 1), V \X Nat, R, w - 1, 0, e, w)
  <2> HIDE DEF e
  <2> QED
    BY <1>1, SkipRun DEF R
<1>7. Begins(R, w, w - 1, 0, new, b)
  <2>1. w - 1 \in Nat /\ w - 1 <= w /\ w <= (w - 1) + 1 /\ 0 \in {0, 1} /\ 1 # 0 /\ w - 1 >= 1
    BY <1>1
  <2>2. \A i \in 1..w - 1 : i \in 1..Len(R) /\ i < w
    BY <1>2
  <2>3. \A i \in 1..Len(R) : i > w - 1 => i = w \/ i > w
    BY <1>2
  <2>4. \A i \in 1..Len(R) : i > w - 1 => StartOf(R, i) >= b
    BY <2>3, <1>2, <1>4, <1>5
  <2>5. Value(R, w - 1) = new
    <3>1. w - 1 \in 1..w - 1
      BY <1>1
    <3> QED
      BY <3>1, <1>2
  <2> QED
    BY <2>1, <2>2, <2>4, <2>5, <1>1, <1>2, <1>4, <1>5 DEF Begins
<1>8. r + 1 \in 1..Len(s) + 1 /\ w = ((w - 1) + 0) + 1 /\ w <= r + 1 /\ w - 1 = (w - 1) + 0
  BY <1>1
<1>9. Value(s, (w - 1) + 0) = new
  BY <1>8
<1> QED
  BY <1>1, <1>6, <1>7, <1>8, <1>9, Zenon DEF Written, e, R, b

\* What the cursor has written splices the value into the runs, up to the end of its run ...
LEMMA SpliceKept ==
    ASSUME NEW V, NEW size \in Nat, NEW R, IsOrdered(R, V, size), NEW w \in 1..Len(R), w < Len(R),
           NEW k, NEW m, NEW new \in V, NEW b, Begins(R, w, k, m, new, b), b < End(R, size, w),
           NEW z, Follows(z, V \X Nat, R, k, m, <<new, b>>, w)
    PROVE  Splices(R, size, z, new, b, End(R, size, w), k, m, 1, (k + m) + 1, w + 1)
<1> DEFINE E == End(R, size, w)  n == (k + m) + 1  g == Len(R)  l == Len(z)
<1>1. /\ g \in Nat /\ E \in Nat /\ StartOf(R, w + 1) = E /\ E < size
      /\ \A i \in 1..g : i > w + 1 => StartOf(R, i) > E
      /\ \A i \in 1..g : R[i] = <<Value(R, i), StartOf(R, i)>>
  <2>1. Ascends(R, V, size, w)
    BY Ascending
  <2> QED
    BY <2>1 DEF Ascends
<1>2. /\ k \in Nat /\ m \in {0, 1} /\ k <= w /\ w <= k + 1
      /\ m = 0 => k >= 1 /\ Value(R, k) = new
      /\ \A i \in 1..k : StartOf(R, i) < b
      /\ \A i \in 1..g : i > k => StartOf(R, i) >= b
  BY DEF Begins
<1>3. /\ l = k + m + (g - w) /\ z \in Seq(V \X Nat)
      /\ \A i \in 1..k : z[i] = R[i]
      /\ m = 1 => z[k + 1] = <<new, b>>
      /\ \A i \in k + m + 1..l : z[i] = R[(i - (k + m)) + w]
  BY DEF Follows
<1>4. w \in 1..g /\ w < g
  OBVIOUS
<1> HIDE DEF E, g, l
<1>5. /\ n \in Nat /\ n = k + m + 1 /\ w + 1 \in 1..g /\ k <= w + 1 /\ l = n + (g - (w + 1)) /\ n \in k + m + 1..l
      /\ (n - (k + m)) + w = w + 1
  <2>1. n \in Nat /\ n = k + m + 1 /\ w + 1 \in 1..g /\ k <= w + 1
    BY <1>1, <1>2, <1>4
  <2>2. l = n + (g - (w + 1)) /\ l \in Nat /\ n <= l
    BY <1>1, <1>2, <1>3, <1>4
  <2>3. (n - (k + m)) + w = w + 1
    BY <1>1, <1>2, <1>4
  <2> QED
    BY <2>1, <2>2, <2>3
<1>6. z[n] = <<Value(R, w + 1), E>>
  BY <1>1, <1>3, <1>5
<1> HIDE DEF n
<1>7. \A i \in n + 1..l : i \in k + m + 1..l /\ (i - (k + m)) + w = (i - n) + (w + 1)
  BY <1>1, <1>2, <1>3, <1>4, <1>5
<1>8. \A i \in n + 1..l : z[i] = R[(i - n) + (w + 1)]
  BY <1>3, <1>7
<1>9. E <= E /\ 1 \in {0, 1} /\ ~(1 = 0)
  BY <1>1
<1>10. Splices(R, size, z, new, b, E, k, m, 1, n, w + 1)
  BY <1>1, <1>2, <1>3, <1>5, <1>6, <1>8, <1>9, Zenon DEF Splices, n, g, l
<1> QED
  BY <1>10 DEF E, n

RunsTo(R, w, l, new) == (l = w /\ w = Len(R)) \/ (l = w + 1 /\ w < Len(R) /\ Value(R, l) = new)

\* ... or of the next if that is the same, or of all, ...
LEMMA SpliceMerged ==
    ASSUME NEW V, NEW size \in Nat, NEW R, IsOrdered(R, V, size), NEW w \in 1..Len(R),
           NEW k, NEW m, NEW new \in V, NEW b, Begins(R, w, k, m, new, b), b < End(R, size, w),
           NEW l, RunsTo(R, w, l, new),
           NEW z, Follows(z, V \X Nat, R, k, m, <<new, b>>, l)
    PROVE  Splices(R, size, z, new, b, End(R, size, w), k, m, 0, k + m, l)
<1> DEFINE E == End(R, size, w)  n == k + m  g == Len(R)  h == Len(z)
<1>1. /\ g \in Nat /\ E \in Nat /\ StartOf(R, w) < E /\ (w < g => StartOf(R, w + 1) = E)
      /\ (w = g => E = size) /\ StartOf(R, w) \in Nat
      /\ \A i \in 1..g : i > w + 1 => StartOf(R, i) > E
  <2>1. Ascends(R, V, size, w)
    BY Ascending
  <2> QED
    BY <2>1 DEF Ascends
<1>2. /\ k \in Nat /\ m \in {0, 1} /\ k <= w /\ w <= k + 1
      /\ m = 0 => k >= 1 /\ Value(R, k) = new
      /\ \A i \in 1..k : StartOf(R, i) < b
      /\ \A i \in 1..g : i > k => StartOf(R, i) >= b
  BY DEF Begins
<1>3. /\ h = k + m + (g - l) /\ z \in Seq(V \X Nat)
      /\ \A i \in 1..k : z[i] = R[i]
      /\ m = 1 => z[k + 1] = <<new, b>>
      /\ \A i \in k + m + 1..h : z[i] = R[(i - (k + m)) + l]
  BY DEF Follows
<1>4. w \in 1..g /\ ((l = w /\ w = g) \/ (l = w + 1 /\ w < g /\ Value(R, l) = new))
  BY DEF RunsTo
<1> HIDE DEF E, g, h
<1>5. /\ n \in Nat /\ n = k + m + 0 /\ l \in 1..g /\ k <= l /\ h = n + (g - l)
  <2>1. n \in Nat /\ n = k + m + 0
    BY <1>2
  <2>2. l \in 1..g /\ k <= l
    BY <1>1, <1>2, <1>4
  <2> QED
    BY <2>1, <2>2, <1>3
<1>6. StartOf(R, l) <= E /\ \A i \in 1..g : i > l => StartOf(R, i) > E
  <2>1. CASE l = w /\ w = g
    <3>1. \A i \in 1..g : ~(i > l)
      BY <2>1, <1>1
    <3> QED
      BY <3>1, <2>1, <1>1
  <2>2. CASE l = w + 1 /\ w < g
    BY <2>2, <1>1
  <2> QED
    BY <2>1, <2>2, <1>4
<1>7. E = size \/ Value(R, l) = new
  BY <1>1, <1>4
<1>9. 0 \in {0, 1} /\ ~(0 = 1)
  OBVIOUS
<1>10. Splices(R, size, z, new, b, E, k, m, 0, n, l)
  BY <1>2, <1>3, <1>5, <1>6, <1>7, <1>9, Zenon DEF Splices, n, g, h
<1> QED
  BY <1>10 DEF E, n

\* ... or up to where the run is cut.
LEMMA SpliceCut ==
    ASSUME NEW V, NEW size \in Nat, NEW R, IsOrdered(R, V, size), NEW w \in 1..Len(R),
           NEW k, NEW m, NEW new \in V, NEW b, Begins(R, w, k, m, new, b),
           NEW to \in Nat, StartOf(R, w) <= to, to < End(R, size, w),
           NEW q, Follows(q, V \X Nat, R, k, m, <<new, b>>, w),
           NEW z, Follows(z, V \X Nat, q, k + m, 1, <<Value(R, w), to>>, k + m)
    PROVE  Splices(R, size, z, new, b, to, k, m, 1, (k + m) + 1, w)
<1> DEFINE E == End(R, size, w)  n == (k + m) + 1  g == Len(R)  h == Len(z)  l == Len(q)
<1>1. /\ g \in Nat /\ E \in Nat /\ E <= size
      /\ \A i \in 1..g : StartOf(R, i) \in Nat /\ (i > w => StartOf(R, i) >= E)
  <2>1. Ascends(R, V, size, w)
    BY Ascending
  <2> QED
    BY <2>1 DEF Ascends
<1>2. /\ k \in Nat /\ m \in {0, 1} /\ k <= w /\ w <= k + 1
      /\ m = 0 => k >= 1 /\ Value(R, k) = new
      /\ \A i \in 1..k : StartOf(R, i) < b
      /\ \A i \in 1..g : i > k => StartOf(R, i) >= b
  BY DEF Begins
<1>3. /\ l = k + m + (g - w) /\ q \in Seq(V \X Nat)
      /\ \A i \in 1..k : q[i] = R[i]
      /\ m = 1 => q[k + 1] = <<new, b>>
      /\ \A i \in k + m + 1..l : q[i] = R[(i - (k + m)) + w]
  BY DEF Follows
<1>4. /\ h = (k + m) + 1 + (l - (k + m)) /\ z \in Seq(V \X Nat)
      /\ \A i \in 1..k + m : z[i] = q[i]
      /\ z[(k + m) + 1] = <<Value(R, w), to>>
      /\ \A i \in (k + m) + 1 + 1..h : z[i] = q[(i - ((k + m) + 1)) + (k + m)]
  BY DEF Follows
<1>5. w \in 1..g /\ to < E /\ StartOf(R, w) <= to
  OBVIOUS
<1> HIDE DEF E, g, h, l
<1>6. /\ n \in Nat /\ n = k + m + 1 /\ k <= w /\ h = n + (g - w)
  BY <1>1, <1>2, <1>3, <1>4
<1>7. \A i \in 1..k : z[i] = R[i]
  <2>1. \A i \in 1..k : i \in 1..k + m
    BY <1>2
  <2> QED
    BY <2>1, <1>3, <1>4
<1>8. m = 1 => z[k + 1] = <<new, b>>
  <2>1. m = 1 => k + 1 \in 1..k + m
    BY <1>2
  <2> QED
    BY <2>1, <1>3, <1>4
<1>9. \A i \in n + 1..h : z[i] = R[(i - n) + w]
  <2> TAKE i \in n + 1..h
  <2>1. /\ i \in (k + m) + 1 + 1..h /\ (i - ((k + m) + 1)) + (k + m) = i - 1 /\ i - 1 \in k + m + 1..l
        /\ ((i - 1) - (k + m)) + w = (i - n) + w
    BY <1>1, <1>2, <1>3, <1>4
  <2>2. z[i] = q[i - 1]
    BY <2>1, <1>4
  <2>3. q[i - 1] = R[((i - 1) - (k + m)) + w]
    BY <2>1, <1>3
  <2> QED
    BY <2>1, <2>2, <2>3
<1>10. /\ \A i \in 1..g : i > w => StartOf(R, i) > to
       /\ to < size /\ 1 \in {0, 1} /\ ~(1 = 0)
  BY <1>1, <1>5
<1>11. z[n] = <<Value(R, w), to>>
  BY <1>4
<1> HIDE DEF n
<1>12. Splices(R, size, z, new, b, to, k, m, 1, n, w)
  BY <1>2, <1>5, <1>6, <1>7, <1>8, <1>9, <1>10, <1>11, Zenon DEF Splices, n, g, h
<1> QED
  BY <1>12 DEF n

\* What is at the gap: before it the value, after it the next run.
GapIs(q, r, w2, R, w, k, m, new) ==
    /\ Len(q) \in Nat /\ Len(R) \in Nat /\ k \in Nat /\ m \in {0, 1}
    /\ k + m \in 1..Len(q) /\ w2 = (k + m) + 1 /\ w2 - 1 = k + m /\ w2 \in 1..r /\ r \in 1..Len(q) + 1
    /\ Value(q, k + m) = new
    /\ r <= Len(q) <=> w < Len(R)
    /\ w < Len(R) => q[r] = R[w + 1]

\* Writing leaves the gap as it is to be.
LEMMA AtGap ==
    ASSUME NEW V, NEW R, Len(R) \in Nat, NEW w \in 1..Len(R), NEW q, NEW r, NEW w2, NEW k, NEW m, NEW new, NEW b,
           Written(q, r, w2, V, R, w, k, m, new, b)
    PROVE  GapIs(q, r, w2, R, w, k, m, new)
<1> DEFINE Q == Rest(q, w2, r)  E == V \X Nat
<1>1. /\ k \in Nat /\ m \in {0, 1} /\ (m = 0 => k >= 1)
  BY DEF Written, Begins
<1>2. /\ q \in Seq(E) /\ Len(q) \in Nat /\ r \in 1..Len(q) + 1 /\ w2 = (k + m) + 1 /\ w2 <= r
      /\ Value(q, k + m) = new
  BY DEF Written
<1>3. /\ Len(Q) = k + m + (Len(R) - w)
      /\ \A i \in k + m + 1..Len(Q) : Q[i] = R[(i - (k + m)) + w]
  BY DEF Written, Follows
<1> HIDE DEF E
<1>4. w2 \in 1..r /\ k + m \in 1..Len(q) /\ w2 - 1 = k + m
  BY <1>1, <1>2
<1>5. /\ Len(Q) = (w2 - 1) + (Len(q) - (r - 1))
      /\ \A i \in w2..Len(Q) : Q[i] = q[(i - w2) + r]
  BY <1>2, <1>4, GapParts
<1> HIDE DEF Q
<1>6. r <= Len(q) <=> w < Len(R)
  <2> DEFINE n == Len(q)  g == Len(R)  h == Len(Q)
  <2>1. n \in Nat /\ g \in Nat /\ h = k + m + (g - w) /\ h = (k + m) + (n - (r - 1)) /\ r \in 1..n + 1 /\ w \in 1..g
    BY <1>2, <1>3, <1>4, <1>5
  <2> HIDE DEF n, g, h
  <2>2. r <= n <=> w < g
    BY <2>1, <1>1
  <2> QED
    BY <2>2 DEF n, g
<1>7. ASSUME w < Len(R)
      PROVE  q[r] = R[w + 1]
  <2> DEFINE n == Len(q)  g == Len(R)  h == Len(Q)
  <2>1. n \in Nat /\ g \in Nat /\ h = k + m + (g - w) /\ w < g /\ w \in 1..g /\ r \in 1..n + 1
    BY <1>2, <1>3, <1>7
  <2> HIDE DEF n, g, h
  <2>2. /\ w2 \in w2..h /\ w2 \in k + m + 1..h /\ (w2 - w2) + r = r /\ (w2 - (k + m)) + w = w + 1
    BY <2>1, <1>1, <1>2
  <2>3. Q[w2] = q[(w2 - w2) + r] /\ Q[w2] = R[(w2 - (k + m)) + w]
    BY <2>2, <1>3, <1>5 DEF h
  <2> QED
    BY <2>2, <2>3
<1> QED
  BY <1>1, <1>2, <1>4, <1>6, <1>7 DEF GapIs

\* The gap is closed behind the end of a run that the range cuts.
LEMMA CloseCut ==
    ASSUME NEW V, NEW size \in Nat, NEW R, IsOrdered(R, V, size), NEW w \in 1..Len(R),
           Distinct(R, w + 1..Len(R)),
           NEW q, NEW k, NEW m, NEW new \in V, NEW b, NEW cur,
           Written(q, cur.read, cur.write, V, R, w, k, m, new, b),
           cur.to \in Nat, StartOf(R, w) <= cur.to, cur.to < End(R, size, w), Value(R, w) # new
    PROVE  LET z == CloseGap(q, size, cur, Value(R, w), End(R, size, w), new)
           IN  z \in Seq(V \X Nat) /\ Splices(R, size, z, new, b, cur.to, k, m, 1, (k + m) + 1, w)
<1> DEFINE E == V \X Nat  r == cur.read  w2 == cur.write  to == cur.to
           e == <<Value(R, w), to>>
           z == CloseGap(q, size, cur, Value(R, w), End(R, size, w), new)
           Q == Rest(q, w2, r)
<1>0. Ascends(R, V, size, w)
  BY Ascending
<1>1. Len(R) \in Nat /\ Value(R, w) \in V /\ End(R, size, w) \in Nat
  BY <1>0 DEF Ascends
<1>2. e \in E
  BY <1>1
<1>3. GapIs(q, r, w2, R, w, k, m, new)
  BY <1>1, AtGap, Zenon
<1>4. /\ q \in Seq(E) /\ Begins(R, w, k, m, new, b) /\ Follows(Q, E, R, k, m, <<new, b>>, w)
  BY DEF Written
<1>5. End(R, size, w) > to
  BY <1>1
<1> HIDE DEF E
<1>6. ASSUME w2 < r
      PROVE  z = Rest(ReplaceAt(q, w2, e), w2 + 1, r)
  <2> DEFINE f == ReplaceAt(q, w2, e)
  <2>1. z = SubSeq(f, 1, (w2 + 1) - 1)
              \o SubSeq(f, IF r <= Len(f) /\ Value(f, r) = Value(f, (w2 + 1) - 1) THEN r + 1 ELSE r, Len(f))
    BY <1>5, <1>6 DEF CloseGap
  <2>2. (w2 + 1) - 1 = w2 /\ w2 \in 1..Len(q) /\ r # w2
    BY <1>3, <1>6 DEF GapIs
  <2>3. PutAtIs(f, E, q, w2, e)
    BY <1>2, <1>4, <2>2, PutIn
  <2> HIDE DEF f
  <2>4. Len(f) = Len(q) /\ f[w2] = e /\ (r <= Len(q) => f[r] = q[r])
    <3>1. r <= Len(q) => r \in 1..Len(q)
      BY <1>3 DEF GapIs
    <3> QED
      BY <3>1, <2>2, <2>3 DEF PutAtIs
  <2>5. Value(f, w2) = Value(R, w)
    BY <2>4 DEF Value, e
  <2>6. r <= Len(f) => Value(f, r) # Value(f, w2)
    <3>1. r <= Len(f) => w < Len(R) /\ f[r] = R[w + 1]
      BY <1>3, <2>4 DEF GapIs
    <3>2. r <= Len(f) => Value(f, r) = Value(R, w + 1)
      BY <3>1 DEF Value
    <3>3. w < Len(R) => w + 1 \in w + 1..Len(R) /\ (w + 1) - 1 = w
      BY <1>1
    <3>4. w < Len(R) => Value(R, w) # Value(R, w + 1)
      BY <3>3 DEF Distinct
    <3> QED
      BY <3>1, <3>2, <3>4, <2>5
  <2> QED
    BY <2>1, <2>2, <2>6 DEF Rest, f
<1>7. ASSUME w2 = r
      PROVE  z = Rest(InsertAt(q, r, e), w2, r)
  <2> DEFINE f == InsertAt(q, r, e)
  <2>1. z = SubSeq(f, 1, w2 - 1)
              \o SubSeq(f, IF r <= Len(f) /\ Value(f, r) = Value(f, w2 - 1) THEN r + 1 ELSE r, Len(f))
    <3>1. ~(w2 < r)
      BY <1>3, <1>7 DEF GapIs
    <3> QED
      BY <3>1, <1>5 DEF CloseGap
  <2>2. w2 - 1 = k + m /\ r \in 1..Len(q) + 1 /\ k + m \in 1..Len(q) + 1 /\ k + m < r
    BY <1>3, <1>7 DEF GapIs
  <2>3. InsertIs(f, E, q, r, e)
    BY <1>2, <1>4, <2>2, InsertIn
  <2> HIDE DEF f
  <2>4. f[r] = e /\ f[k + m] = q[k + m]
    <3>1. ~(r < r)
      BY <2>2
    <3> QED
      BY <3>1, <2>2, <2>3 DEF InsertIs
  <2>5. Value(f, r) = Value(R, w) /\ Value(f, k + m) = new
    <3>1. Value(q, k + m) = new
      BY <1>3 DEF GapIs
    <3> QED
      BY <3>1, <2>4 DEF Value, e
  <2> QED
    BY <2>1, <2>2, <2>5 DEF Rest, f
<1>8. Follows(z, E, Q, k + m, 1, e, k + m)
  <2>1. r \in 1..Len(q) + 1 /\ w2 \in 1..r /\ w2 - 1 = k + m
    BY <1>3 DEF GapIs
  <2>2. w2 < r \/ w2 = r
    BY <2>1, <1>3 DEF GapIs
  <2> HIDE DEF e, z
  <2>3. /\ w2 < r => Follows(Rest(ReplaceAt(q, w2, e), w2 + 1, r), E, Rest(q, w2, r), w2 - 1, 1, e, w2 - 1)
        /\ w2 = r => Follows(Rest(InsertAt(q, r, e), w2, r), E, Rest(q, w2, r), w2 - 1, 1, e, w2 - 1)
    BY <2>1, <1>2, <1>4, FillGap
  <2> QED
    BY <2>1, <2>2, <2>3, <1>6, <1>7
<1> HIDE DEF z, Q
<1>9. z \in Seq(E)
  BY <1>8 DEF Follows
<1>10. Splices(R, size, z, new, b, to, k, m, 1, (k + m) + 1, w)
  BY <1>4, <1>8, SpliceCut DEF E, e
<1> QED
  BY <1>9, <1>10 DEF z, E

Closes(z, V, size, R, w, k, m, new, b) ==
    /\ z \in Seq(V \X Nat)
    /\ \E v, l : /\ Splices(R, size, z, new, b, End(R, size, w), k, m, v, (k + m) + v, l)
                 /\ v = 1 => Value(R, l) # new
                 /\ l \in {w, w + 1}

\* The gap is closed at the end of a run, or of one that has the value already.
LEMMA CloseOpen ==
    ASSUME NEW V, NEW size \in Nat, NEW R, IsOrdered(R, V, size), NEW w \in 1..Len(R),
           NEW q, NEW k, NEW m, NEW new \in V, NEW b, NEW cur,
           Written(q, cur.read, cur.write, V, R, w, k, m, new, b), b < End(R, size, w),
           cur.to \in Nat, ~(End(R, size, w) > cur.to /\ Value(R, w) # new)
    PROVE  Closes(CloseGap(q, size, cur, Value(R, w), End(R, size, w), new), V, size, R, w, k, m, new, b)
<1> DEFINE E == V \X Nat  r == cur.read  w2 == cur.write
           z == CloseGap(q, size, cur, Value(R, w), End(R, size, w), new)
           Q == Rest(q, w2, r)
<1>0. Ascends(R, V, size, w)
  BY Ascending
<1>1. Len(R) \in Nat
  BY <1>0 DEF Ascends
<1>3. GapIs(q, r, w2, R, w, k, m, new)
  BY <1>1, AtGap, Zenon
<1>4. /\ q \in Seq(E) /\ Begins(R, w, k, m, new, b) /\ Follows(Q, E, R, k, m, <<new, b>>, w)
  BY DEF Written
<1>5. z = SubSeq(q, 1, w2 - 1) \o SubSeq(q, IF r <= Len(q) /\ Value(q, r) = Value(q, w2 - 1) THEN r + 1 ELSE r, Len(q))
  BY DEF CloseGap
<1>6. Value(q, w2 - 1) = new /\ (r <= Len(q) <=> w < Len(R)) /\ (w < Len(R) => Value(q, r) = Value(R, w + 1))
  BY <1>3 DEF GapIs, Value
<1>7. k + m + 0 = k + m /\ k + m \in Nat
  BY <1>3 DEF GapIs
<1>8. w < Len(R) \/ w = Len(R)
  <2> DEFINE g == Len(R)
  <2>1. g \in Nat /\ w \in 1..g
    BY <1>1
  <2> HIDE DEF g
  <2>2. w < g \/ w = g
    BY <2>1
  <2> QED
    BY <2>2 DEF g
<1> HIDE DEF z
<1>9. CASE w = Len(R)
  <2>1. z = Q
    <3>1. ~(w < Len(R))
      BY <1>1, <1>9
    <3> QED
      BY <3>1, <1>5, <1>6 DEF Rest
  <2>2. w \in {w, w + 1} /\ ~(w = w + 1)
    BY <1>9, <1>1
  <2>3. Splices(R, size, Q, new, b, End(R, size, w), k, m, 0, k + m, w)
    <3> DEFINE l == w
    <3>1. RunsTo(R, w, l, new)
      BY <1>9 DEF RunsTo
    <3>2. Follows(Q, V \X Nat, R, k, m, <<new, b>>, l)
      BY <1>4
    <3> HIDE DEF l, Q
    <3>3. Splices(R, size, Q, new, b, End(R, size, w), k, m, 0, k + m, l)
      BY <1>4, <3>1, <3>2, SpliceMerged
    <3> QED
      BY <3>3 DEF l
  <2>4. Q \in Seq(E) /\ ~(0 = 1)
    BY <1>4 DEF Follows
  <2> HIDE DEF Q
  <2> QED
    BY <2>1, <2>2, <2>3, <2>4, <1>7 DEF z, Closes
<1>10. CASE w < Len(R) /\ Value(R, w + 1) = new
  <2>1. z = Rest(q, w2, r + 1)
    BY <1>5, <1>6, <1>10 DEF Rest
  <2>2. Follows(Rest(q, w2, r + 1), E, Q, w2 - 1, 0, <<new, b>>, w2)
    <3>1. r \in 1..Len(q) /\ w2 \in 1..r
      BY <1>3, <1>6, <1>10 DEF GapIs
    <3> HIDE DEF E
    <3> QED
      BY <3>1, <1>4, SkipRun
  <2>3. Follows(z, E, R, k, m, <<new, b>>, w + 1)
    <3> DEFINE g == Len(R)  h == Len(Q)  l == Len(z)  n == k + m
    <3>0. n \in Nat /\ w2 = n + 1 /\ w2 - 1 = n /\ k \in Nat /\ m \in {0, 1} /\ g \in Nat /\ w \in 1..g /\ w < g
      BY <1>3, <1>10 DEF GapIs
    <3>1. /\ z \in Seq(E) /\ l = n + 0 + (h - (n + 1)) /\ \A i \in 1..n : z[i] = Q[i]
          /\ \A i \in n + 0 + 1..l : z[i] = Q[(i - (n + 0)) + (n + 1)]
      <4>1. Follows(z, E, Q, n, 0, <<new, b>>, n + 1)
        BY <2>1, <2>2, <3>0
      <4> QED
        BY <4>1 DEF Follows
    <3>2. /\ h = k + m + (g - w) /\ \A i \in 1..k : Q[i] = R[i]
          /\ m = 1 => Q[k + 1] = <<new, b>>
          /\ \A i \in k + m + 1..h : Q[i] = R[(i - (k + m)) + w]
      BY <1>4 DEF Follows
    <3>3. n = k + m
      OBVIOUS
    <3> HIDE DEF g, h, l, n, Q
    <3>4. l = k + m + (g - (w + 1))
      BY <3>0, <3>1, <3>2, <3>3
    <3>5. \A i \in 1..k : z[i] = R[i]
      <4>1. \A i \in 1..k : i \in 1..n
        BY <3>0, <3>3
      <4> QED
        BY <4>1, <3>1, <3>2
    <3>6. m = 1 => z[k + 1] = <<new, b>>
      <4>1. m = 1 => k + 1 \in 1..n
        BY <3>0, <3>3
      <4> QED
        BY <4>1, <3>1, <3>2
    <3>7. ASSUME NEW i \in k + m + 1..l
          PROVE  z[i] = R[(i - (k + m)) + (w + 1)]
      <4>1. /\ i \in n + 0 + 1..l /\ (i - (n + 0)) + (n + 1) = i + 1 /\ i + 1 \in k + m + 1..h
            /\ ((i + 1) - (k + m)) + w = (i - (k + m)) + (w + 1)
        BY <3>0, <3>1, <3>2, <3>3
      <4>2. z[i] = Q[i + 1]
        BY <4>1, <3>1
      <4>3. Q[i + 1] = R[((i + 1) - (k + m)) + w]
        BY <4>1, <3>2
      <4> QED
        BY <4>1, <4>2, <4>3
    <3> QED
      BY <3>0, <3>1, <3>4, <3>5, <3>6, <3>7 DEF Follows, g, l
  <2>4. Splices(R, size, z, new, b, End(R, size, w), k, m, 0, k + m, w + 1)
    <3> DEFINE l == w + 1
    <3>1. RunsTo(R, w, l, new)
      BY <1>10 DEF RunsTo
    <3>2. Follows(z, V \X Nat, R, k, m, <<new, b>>, l)
      BY <2>3
    <3> HIDE DEF l
    <3>3. Splices(R, size, z, new, b, End(R, size, w), k, m, 0, k + m, l)
      BY <1>4, <3>1, <3>2, SpliceMerged
    <3> QED
      BY <3>3 DEF l
  <2>5. z \in Seq(E) /\ ~(0 = 1) /\ w + 1 \in {w, w + 1}
    BY <2>3 DEF Follows
  <2> QED
    BY <2>4, <2>5, <1>7 DEF z, Closes
<1>11. CASE w < Len(R) /\ Value(R, w + 1) # new
  <2>1. z = Q
    BY <1>5, <1>6, <1>11 DEF Rest
  <2>2. Splices(R, size, Q, new, b, End(R, size, w), k, m, 1, (k + m) + 1, w + 1)
    <3> HIDE DEF Q
    <3> QED
      BY <1>4, <1>11, SpliceKept
  <2>3. Q \in Seq(E) /\ w + 1 \in {w, w + 1}
    BY <1>4 DEF Follows
  <2> HIDE DEF Q
  <2> QED
    BY <2>1, <2>2, <2>3, <1>11 DEF z, Closes
<1> QED
  BY <1>8, <1>9, <1>10, <1>11

\* The bytes of a run have its value.
LEMMA RunHas ==
    ASSUME NEW V, NEW size \in Nat, NEW R, IsOrdered(R, V, size), NEW w \in 1..Len(R),
           NEW x \in Nat, StartOf(R, w) <= x, x < End(R, size, w)
    PROVE  RunValueAt(R, x) = Value(R, w)
<1>1. Ascends(R, V, size, w)
  BY Ascending
<1>2. DOMAIN R = 1..Len(R)
  BY RunParts
<1>3. \A q \in DOMAIN R : q > w => StartOf(R, q) > x
  <2>1. /\ \A q \in 1..Len(R) : StartOf(R, q) \in Nat /\ (q > w => StartOf(R, q) >= End(R, size, w))
        /\ End(R, size, w) \in Nat
    BY <1>1 DEF Ascends
  <2> QED
    BY <2>1, <1>2
<1>4. RunIndexAt(R, x) = w
  BY <1>2, <1>3, RunIs
<1> QED
  BY <1>4 DEF RunValueAt

\* What changes to the value that it has does not change.
LEMMA ChangesPart ==
    ASSUME NEW V, NEW size \in Nat, NEW R, IsOrdered(R, V, size), NEW w \in 1..Len(R),
           NEW z, NEW new, NEW b \in Nat, NEW e \in Nat, Changes(z, R, size, new, b, e),
           NEW from \in Nat, NEW to \in Nat, b <= from, to <= e, from < to,
           StartOf(R, w) <= b, e <= End(R, size, w), b < from \/ to < e => Value(R, w) = new
    PROVE  Changes(z, R, size, new, from, to)
<1>1. SUFFICES ASSUME NEW x \in 0..size - 1
               PROVE  RunValueAt(z, x) = IF from <= x /\ x < to THEN new ELSE RunValueAt(R, x)
  BY DEF Changes
<1>2. RunValueAt(z, x) = IF b <= x /\ x < e THEN new ELSE RunValueAt(R, x)
  BY DEF Changes
<1>3. Ascends(R, V, size, w)
  BY Ascending
<1>4. StartOf(R, w) \in Nat /\ End(R, size, w) \in Nat /\ x \in Nat
  BY <1>3 DEF Ascends
<1>5. CASE (from <= x /\ x < to) \/ ~(b <= x /\ x < e)
  BY <1>2, <1>4, <1>5
<1>6. CASE ~(from <= x /\ x < to) /\ (b <= x /\ x < e)
  <2>1. (b < from \/ to < e) /\ StartOf(R, w) <= x /\ x < End(R, size, w)
    BY <1>4, <1>6
  <2>2. RunValueAt(R, x) = new
    BY <2>1, <1>4, RunHas
  <2> QED
    BY <2>2, <1>2, <1>6
<1> QED
  BY <1>5, <1>6

\* Behind the gap the cursor stands at the beginning of the next run.
LEMMA WrittenAt ==
    ASSUME NEW V, NEW size \in Nat, NEW R, IsOrdered(R, V, size), NEW w \in 1..Len(R),
           Distinct(R, w + 1..Len(R)),
           NEW q, NEW r, NEW w2, NEW k, NEW m, NEW new \in V, NEW b,
           Written(q, r, w2, V, R, w, k, m, new, b), b < End(R, size, w),
           NEW to \in Nat, to <= size, End(R, size, w) < to
    PROVE  /\ At(q, V, size, r, w2, End(R, size, w), to)
           /\ Changes(Rest(q, w2, r), R, size, new, b, End(R, size, w))
<1> DEFINE Q == Rest(q, w2, r)  E == End(R, size, w)
<1>1. Ascends(R, V, size, w)
  BY Ascending
<1>2. Len(R) \in Nat /\ E \in Nat /\ (w = Len(R) => E = size) /\ (w < Len(R) => StartOf(R, w + 1) = E)
  BY <1>1 DEF Ascends
<1>3. w < Len(R)
  <2> DEFINE g == Len(R)
  <2>1. g \in Nat /\ w \in 1..g /\ w # g
    BY <1>2
  <2> HIDE DEF g
  <2>2. w < g
    BY <2>1
  <2> QED
    BY <2>2 DEF g
<1>4. GapIs(q, r, w2, R, w, k, m, new)
  BY <1>2, AtGap, Zenon
<1>5. Begins(R, w, k, m, new, b) /\ Follows(Q, V \X Nat, R, k, m, <<new, b>>, w) /\ q \in Seq(V \X Nat)
  BY DEF Written
<1>6. Splices(R, size, Q, new, b, E, k, m, 1, (k + m) + 1, w + 1)
  <2> HIDE DEF Q
  <2> QED
    BY <1>3, <1>5, SpliceKept DEF E
<1>7. Q \in Seq(V \X Nat) /\ b \in Nat
  BY <1>5 DEF Follows, Begins
<1>8. E <= size /\ b < E
  BY <1>2
<1>9. IsOrdered(Q, V, size) /\ Changes(Q, R, size, new, b, E)
  <2> HIDE DEF E, Q
  <2> QED
    BY <1>2, <1>6, <1>7, <1>8, SplicedOrder
<1>10. r \in 1..Len(q) /\ w2 \in 1..r /\ q[r] = R[w + 1] /\ Len(q) \in Nat /\ r \in 1..Len(q) + 1
  <2>1. r <= Len(q) /\ r \in 1..Len(q) + 1 /\ Len(q) \in Nat /\ w2 \in 1..r /\ q[r] = R[w + 1]
    BY <1>3, <1>4 DEF GapIs
  <2>2. r \in 1..Len(q)
    BY <2>1
  <2> QED
    BY <2>1, <2>2
<1>11. /\ k \in Nat /\ m \in {0, 1} /\ (m = 1 => k = 0 \/ Value(R, k) # new) /\ (m = 0 => k >= 1)
       /\ \A i \in 2..k : Value(R, i - 1) # Value(R, i)
  BY <1>5 DEF Begins, Distinct
<1>12. /\ Len(Q) = k + m + (Len(R) - w)
       /\ \A i \in 1..k : Value(Q, i) = Value(R, i)
       /\ m = 1 => Value(Q, k + 1) = new
       /\ \A i \in k + m + 1..Len(Q) : Value(Q, i) = Value(R, (i - (k + m)) + w)
  BY <1>5, SMTT(40) DEF Follows, Value
<1>13. w2 = (k + m) + 1
  BY <1>4 DEF GapIs
<1>14. Distinct(Q, 2..w2 - 1)
  <2> SUFFICES ASSUME NEW i \in 2..w2 - 1
               PROVE  Value(Q, i - 1) # Value(Q, i)
    BY DEF Distinct
  <2>1. i \in 2..k \/ (i = k + 1 /\ m = 1 /\ k \in 1..k)
    BY <1>11, <1>13
  <2>2. CASE i \in 2..k
    <3>1. i - 1 \in 1..k /\ i \in 1..k
      BY <2>2, <1>11
    <3> QED
      BY <3>1, <2>2, <1>11, <1>12
  <2>3. CASE i = k + 1 /\ m = 1 /\ k \in 1..k
    <3>1. (k + 1) - 1 = k /\ k # 0
      BY <2>3, <1>11
    <3> QED
      BY <3>1, <2>3, <1>11, <1>12
  <2> QED
    BY <2>1, <2>2, <2>3
<1>15. Distinct(Q, w2 + 1..Len(Q))
  <2> SUFFICES ASSUME NEW i \in w2 + 1..Len(Q)
               PROVE  Value(Q, i - 1) # Value(Q, i)
    BY DEF Distinct
  <2> DEFINE g == Len(R)  h == Len(Q)  n == k + m  j == (i - n) + w
  <2>1. n \in Nat /\ g \in Nat /\ h = n + (g - w) /\ w \in 1..g /\ w2 = n + 1 /\ i \in w2 + 1..h
    BY <1>2, <1>11, <1>12, <1>13
  <2>2. Value(Q, i - 1) = Value(R, ((i - 1) - n) + w) /\ Value(Q, i) = Value(R, (i - n) + w)
    <3> HIDE DEF g, h, n
    <3>1. i - 1 \in n + 1..h /\ i \in n + 1..h
      BY <2>1
    <3> QED
      BY <3>1, <1>12 DEF n, h
  <2>3. /\ ((i - 1) - n) + w = j - 1 /\ j \in w + 1..g
    <3> HIDE DEF g, h, n
    <3> QED
      BY <2>1
  <2>4. Value(R, j - 1) # Value(R, j)
    BY <2>3 DEF Distinct
  <2> HIDE DEF g, h, n
  <2> QED
    BY <2>2, <2>3, <2>4
<1>16. StartOf(q, r) = E
  BY <1>2, <1>3, <1>10 DEF StartOf
<1>17. E < End(q, size, r)
  <2>1. /\ \A i \in w2..Len(Q) : Q[i] = q[(i - w2) + r]
        /\ Len(Q) = (w2 - 1) + (Len(q) - (r - 1)) /\ Len(Q) \in Nat
    BY <1>5, <1>10, GapParts
  <2> DEFINE g == Len(q)  h == Len(Q)
  <2>2. w2 \in 1..h /\ w2 \in w2..h /\ (w2 - w2) + r = r
    <3>1. g \in Nat /\ h = (w2 - 1) + (g - (r - 1)) /\ r \in 1..g /\ w2 \in 1..r
      BY <2>1, <1>10
    <3> HIDE DEF g, h
    <3> QED
      BY <3>1
  <2>3. Q[w2] = q[r]
    BY <2>1, <2>2
  <2>4. StartOf(Q, w2) = E
    BY <2>3, <1>16 DEF StartOf
  <2>5. Ascends(Q, V, size, w2)
    BY <1>9, <2>2, Ascending
  <2>6. E < End(Q, size, w2)
    BY <2>4, <2>5 DEF Ascends
  <2>7. End(Q, size, w2) = End(q, size, r)
    <3>1. w2 < h <=> r < g
      <4>1. g \in Nat /\ h = (w2 - 1) + (g - (r - 1)) /\ r \in 1..g /\ w2 \in 1..r
        BY <2>1, <1>10
      <4> HIDE DEF g, h
      <4> QED
        BY <4>1
    <3>2. w2 < h => w2 + 1 \in w2..h /\ ((w2 + 1) - w2) + r = r + 1
      <4>1. h \in Nat /\ w2 \in 1..h /\ r \in Nat
        BY <2>1, <2>2, <1>10
      <4> HIDE DEF h
      <4> QED
        BY <4>1
    <3>3. w2 < h => Q[w2 + 1] = q[r + 1]
      BY <3>2, <2>1
    <3> HIDE DEF Q
    <3> QED
      BY <3>1, <3>3 DEF End, StartOf, g, h
  <2> QED
    BY <2>6, <2>7
<1>18. At(q, V, size, r, w2, E, to)
  <2>1. E <= E /\ ~(E < E)
    BY <1>2
  <2> HIDE DEF E
  <2> QED
    BY <2>1, <1>2, <1>5, <1>9, <1>10, <1>14, <1>15, <1>16, <1>17 DEF At, Q, E
<1> QED
  BY <1>9, <1>18

CursorAt(s, V, size, cur) ==
    /\ cur \in [read : Nat, write : Nat, from : Nat, to : Nat]
    /\ At(s, V, size, cur.read, cur.write, cur.from, cur.to)

\* A cursor begins where the range does.
LEMMA CursorBegins ==
    ASSUME NEW V, NEW size \in Nat, NEW s, IsRuns(s, V, size), NEW range,
           range[1] \in Nat, range[2] \in Nat, range[1] < range[2], range[2] <= size
    PROVE  LET cur == Cursor(s, range)
           IN  /\ CursorAt(s, V, size, cur) /\ Rest(s, cur.write, cur.read) = s
               /\ cur.from = range[1] /\ cur.to = range[2]
<1> DEFINE r == RunIndexAt(s, range[1])  from == range[1]  to == range[2]
           cur == Cursor(s, range)  R == Rest(s, r, r)
<1>1. IsOrdered(s, V, size) /\ Distinct(s, 2..Len(s))
  BY DEF IsRuns
<1>2. r \in DOMAIN s /\ StartOf(s, r) <= from /\ \A q \in DOMAIN s : q > r => StartOf(s, q) > from
  BY <1>1, RunOf
<1>3. DOMAIN s = 1..Len(s) /\ Len(s) \in Nat /\ s \in Seq(V \X Nat)
  BY <1>1, RunParts DEF IsOrdered
<1>4. cur.read = r /\ cur.write = r /\ cur.from = from /\ cur.to = to
      /\ cur \in [read : Nat, write : Nat, from : Nat, to : Nat]
  <2>1. cur = [read |-> r, write |-> r, from |-> from, to |-> to]
    BY DEF Cursor
  <2>2. r \in Nat
    BY <1>2, <1>3
  <2> HIDE DEF cur, r
  <2> QED
    BY <2>1, <2>2
<1> HIDE DEF r, cur
<1>5. R = s
  <2>1. r \in 1..Len(s) + 1 /\ r \in 1..r
    BY <1>2, <1>3
  <2>2. /\ R \in Seq(V \X Nat) /\ Len(R) = (r - 1) + (Len(s) - (r - 1))
        /\ \A i \in 1..r - 1 : R[i] = s[i]
        /\ \A i \in r..Len(R) : R[i] = s[(i - r) + r]
    BY <2>1, <1>3, GapParts, SMTT(40)
  <2> HIDE DEF R
  <2>3. Len(R) = Len(s)
    BY <2>1, <2>2, <1>3
  <2>4. ASSUME NEW i \in 1..Len(s)
        PROVE  R[i] = s[i]
    <3>1. i \in 1..r - 1 \/ (i \in r..Len(R) /\ (i - r) + r = i)
      BY <2>1, <2>3, <1>3
    <3> QED
      BY <3>1, <2>2
  <2> QED
    BY <1>3, <2>2, <2>3, <2>4, SeqEqual
<1> HIDE DEF R
<1>6. from < End(s, size, r)
  <2>1. CASE r < Len(s)
    <3>1. r + 1 \in DOMAIN s /\ r + 1 > r
      BY <1>2, <1>3, <2>1
    <3> QED
      BY <3>1, <2>1, <1>2 DEF End
  <2>2. CASE ~(r < Len(s))
    BY <2>2 DEF End
  <2> QED
    BY <2>1, <2>2
<1>7. Distinct(s, 2..r - 1) /\ Distinct(s, r + 1..Len(s)) /\ Distinct(s, 2..r)
  <2>1. 2..r - 1 \subseteq 2..Len(s) /\ r + 1..Len(s) \subseteq 2..Len(s) /\ 2..r \subseteq 2..Len(s)
    BY <1>2, <1>3
  <2> QED
    BY <2>1, <1>1 DEF Distinct
<1>8. At(s, V, size, r, r, from, to)
  <2>1. r \in 1..Len(s) /\ r \in 1..r
    BY <1>2, <1>3
  <2>2. Rest(s, r, r) = s
    BY <1>5 DEF R
  <2> QED
    BY <2>1, <2>2, <1>1, <1>2, <1>3, <1>6, <1>7, Zenon DEF At
<1> QED
  BY <1>4, <1>5, <1>8 DEF CursorAt, cur, R

\* The last step of a cursor that has written all of its range
LEMMA ClosedGap ==
    ASSUME NEW V, NEW size \in Nat, NEW R, IsOrdered(R, V, size), NEW w \in 1..Len(R),
           Distinct(R, w + 1..Len(R)),
           NEW q, NEW k, NEW m, NEW new \in V, NEW b, NEW cur,
           Written(q, cur.read, cur.write, V, R, w, k, m, new, b),
           NEW from \in Nat, from < End(R, size, w), from < cur.to, cur.to <= size,
           StartOf(R, w) <= b, b <= from, b < from => Value(R, w) = new,
           cur.to \in Nat, cur.to <= End(R, size, w)
    PROVE  Assigns(CloseGap(q, size, cur, Value(R, w), End(R, size, w), new), R, V, size, new, from, cur.to)
<1> DEFINE E == End(R, size, w)  to == cur.to
           z == CloseGap(q, size, cur, Value(R, w), End(R, size, w), new)
<1>1. Ascends(R, V, size, w)
  BY Ascending
<1>2. /\ Len(R) \in Nat /\ E \in Nat /\ StartOf(R, w) \in Nat /\ E <= size
      /\ (w = Len(R) => E = size) /\ w \in Nat
  BY <1>1 DEF Ascends
<1>3. /\ k \in Nat /\ m \in {0, 1} /\ b \in Nat /\ (m = 1 => k = 0 \/ Value(R, k) # new) /\ Distinct(R, 2..k)
  BY DEF Written, Begins
<1>4. b < E /\ b < to
  BY <1>2, <1>3
<1>5. CASE to < E /\ Value(R, w) # new
  <2>1. b = from
    BY <1>3, <1>5
  <2>2. StartOf(R, w) <= to
    BY <1>2, <1>3, <1>4
  <2>3. z \in Seq(V \X Nat) /\ Splices(R, size, z, new, b, to, k, m, 1, (k + m) + 1, w)
    <3>1. LET y == CloseGap(q, size, cur, Value(R, w), End(R, size, w), new)
          IN  y \in Seq(V \X Nat) /\ Splices(R, size, y, new, b, cur.to, k, m, 1, (k + m) + 1, w)
      BY <1>5, <2>2, CloseCut
    <3> QED
      BY <3>1
  <2> HIDE DEF z, E
  <2>4. IsOrdered(z, V, size) /\ Changes(z, R, size, new, b, to)
    BY <1>3, <1>4, <2>3, SplicedOrder
  <2>5. SetsApart(R, new, k, m, 1, w)
    BY <1>3, <1>5 DEF SetsApart
  <2>6. Distinct(z, 2..Len(z))
    BY <1>3, <1>4, <2>3, <2>5, SplicedDistinct
  <2> QED
    BY <2>1, <2>4, <2>6 DEF Assigns, IsRuns, z
<1>6. CASE ~(to < E /\ Value(R, w) # new)
  <2>0. ~(E > to /\ Value(R, w) # new)
    BY <1>6, <1>2
  <2>1. /\ z \in Seq(V \X Nat)
        /\ \E v, l : /\ Splices(R, size, z, new, b, E, k, m, v, (k + m) + v, l)
                     /\ v = 1 => Value(R, l) # new
                     /\ l \in {w, w + 1}
    <3>1. Closes(z, V, size, R, w, k, m, new, b)
      BY <2>0, <1>4, CloseOpen
    <3> QED
      BY <3>1 DEF Closes
  <2> HIDE DEF z, E
  <2>2. PICK v, l : /\ Splices(R, size, z, new, b, E, k, m, v, (k + m) + v, l)
                    /\ v = 1 => Value(R, l) # new
                    /\ l \in {w, w + 1}
    BY <2>1
  <2> DEFINE n == (k + m) + v
  <2>3. Splices(R, size, z, new, b, E, k, m, v, n, l)
    BY <2>2
  <2> HIDE DEF n
  <2>4. IsOrdered(z, V, size) /\ Changes(z, R, size, new, b, E)
    BY <1>2, <1>3, <1>4, <2>1, <2>3, SplicedOrder
  <2>5. SetsApart(R, new, k, m, v, l)
    BY <1>3, <2>2 DEF SetsApart
  <2>6. Distinct(R, l + 1..Len(R))
    <3>1. l + 1..Len(R) \subseteq w + 1..Len(R)
      BY <1>2, <2>2
    <3> QED
      BY <3>1 DEF Distinct
  <2>7. Distinct(z, 2..Len(z))
    BY <1>2, <1>3, <1>4, <2>1, <2>3, <2>5, <2>6, SplicedDistinct
  <2>8. Changes(z, R, size, new, from, to)
    <3>1. b < from \/ to < E => Value(R, w) = new
      BY <1>6
    <3>2. E <= End(R, size, w) /\ to <= E
      BY <1>2 DEF E
    <3> QED
      BY <3>1, <3>2, <1>2, <1>3, <2>4, ChangesPart
  <2> QED
    BY <2>4, <2>7, <2>8 DEF Assigns, IsRuns, z
<1> QED
  BY <1>5, <1>6

\* A run that keeps its value
LEMMA KeptRun ==
    ASSUME NEW V, NEW size \in Nat, NEW s, NEW r, NEW w, NEW from, NEW to,
           At(s, V, size, r, w, from, to), r = w, to <= End(s, size, r),
           w = 1 \/ Value(s, w - 1) # Value(s, r)
    PROVE  Assigns(s, Rest(s, w, r), V, size, Value(s, r), from, to)
<1> DEFINE R == Rest(s, w, r)
<1>1. Here(R, s, V, size, r, w)
  BY HereParts
<1>2. R = s /\ w \in 1..Len(R) /\ Len(R) \in Nat /\ Value(R, w) = Value(s, r) /\ End(R, size, w) = End(s, size, r)
  BY <1>1 DEF Here
<1>3. /\ IsOrdered(R, V, size) /\ Distinct(R, 2..w - 1) /\ Distinct(R, w + 1..Len(R))
      /\ from \in Nat /\ to \in Nat /\ StartOf(s, r) <= from
  BY DEF At
<1> HIDE DEF R
<1>4. Distinct(s, 2..Len(s))
  <2>1. ASSUME NEW i \in 2..Len(s)
        PROVE  Value(s, i - 1) # Value(s, i)
    <3>1. i \in 2..w - 1 \/ (i = w /\ w # 1) \/ i \in w + 1..Len(s)
      BY <1>2
    <3> QED
      BY <3>1, <1>2, <1>3 DEF Distinct
  <2> QED
    BY <2>1 DEF Distinct
<1>5. Changes(s, R, size, Value(s, r), from, to)
  <2>1. ASSUME NEW x \in 0..size - 1, from <= x, x < to
        PROVE  RunValueAt(s, x) = Value(s, r)
    <3>0. Ascends(R, V, size, w)
      BY <1>2, <1>3, Ascending
    <3>1. End(s, size, r) \in Nat /\ StartOf(s, r) \in Nat
      BY <3>0, <1>2 DEF Ascends
    <3>2. x \in Nat /\ StartOf(s, r) <= x /\ x < End(s, size, r)
      BY <2>1, <3>1, <1>3
    <3> QED
      BY <3>2, <1>2, <1>3, RunHas
  <2> QED
    BY <2>1, <1>2 DEF Changes
<1> QED
  BY <1>2, <1>3, <1>4, <1>5 DEF Assigns, IsRuns, R

\* A step of the cursor hands out bytes that had one value and assigns the new one.
PieceDone(s, V, size, cur, new, p) ==
    LET R == Rest(s, cur.write, cur.read)
    IN  /\ p.value = Value(s, cur.read)
        /\ p.range = <<cur.from, p.cursor.from>>
        /\ p.cursor \in [read : Nat, write : Nat, from : Nat, to : Nat]
        /\ cur.from < p.cursor.from /\ p.cursor.from <= cur.to /\ p.cursor.to = cur.to
        /\ \A x \in cur.from..p.cursor.from - 1 : RunValueAt(R, x) = p.value
        /\ p.cursor.from = cur.to => Assigns(p.map, R, V, size, new, cur.from, cur.to)
        /\ p.cursor.from # cur.to =>
                /\ CursorAt(p.map, V, size, p.cursor)
                /\ Changes(Rest(p.map, p.cursor.write, p.cursor.read), R, size, new, cur.from, p.cursor.from)

\* Each step of the cursor does so.
LEMMA NextPiece ==
    ASSUME NEW V, NEW size \in Nat, NEW s, NEW cur, CursorAt(s, V, size, cur), NEW new \in V
    PROVE  PieceDone(s, V, size, cur, new, CursorNext(s, size, cur, new))
<1> DEFINE r == cur.read  w == cur.write  from == cur.from  to == cur.to
           R == Rest(s, w, r)
           old == Value(s, r)
           oldEnd == End(s, size, r)
           end == IF to < oldEnd THEN to ELSE oldEnd
           inside == StartOf(s, r) < from
           split == inside /\ old # new
           start == IF inside /\ ~split THEN StartOf(s, r) ELSE from
           runs1 == IF split THEN InsertAt(s, r + 1, <<old, from>>) ELSE s
           at == IF split THEN w + 1 ELSE w
           put == at = 1 \/ Value(runs1, at - 1) # new
           runs2 == IF put THEN ReplaceAt(runs1, at, <<new, start>>) ELSE runs1
           read2 == IF split THEN r + 2 ELSE r + 1
           write2 == IF put THEN at + 1 ELSE at
           cur2 == [cur EXCEPT !.read = read2, !.write = write2, !.from = end]
           p == CursorNext(s, size, cur, new)
<1>1. p = IF Untouched(s, size, cur, new)
          THEN [map |-> s, cursor |-> [cur EXCEPT !.from = to], value |-> old, range |-> <<from, to>>]
          ELSE [map |-> IF end = to THEN CloseGap(runs2, size, cur2, old, oldEnd, new) ELSE runs2,
                cursor |-> cur2, value |-> old, range |-> <<from, end>>]
  BY DEF CursorNext
<1> SUFFICES PieceDone(s, V, size, cur, new, p)
  OBVIOUS
<1> HIDE DEF p
<1>2. /\ At(s, V, size, r, w, from, to) /\ cur \in [read : Nat, write : Nat, from : Nat, to : Nat]
      /\ r \in Nat /\ w \in Nat /\ from \in Nat /\ to \in Nat
  BY DEF CursorAt
<1>3. /\ s \in Seq(V \X Nat) /\ r \in 1..Len(s) /\ w \in 1..r
      /\ from < to /\ to <= size
      /\ IsOrdered(R, V, size)
      /\ Distinct(R, 2..w - 1) /\ Distinct(R, w + 1..Len(R))
      /\ StartOf(s, r) <= from /\ from < oldEnd
      /\ StartOf(s, r) < from => r = w /\ Distinct(R, 2..w)
  BY <1>2 DEF At
<1>4. /\ w \in 1..Len(R) /\ Len(R) \in Nat /\ Value(R, w) = old /\ StartOf(R, w) = StartOf(s, r)
      /\ End(R, size, w) = oldEnd
  <2>1. Here(R, s, V, size, r, w)
    BY <1>2, HereParts
  <2> QED
    BY <2>1 DEF Here
<1> HIDE DEF R
<1>5. /\ StartOf(s, r) \in Nat /\ oldEnd \in Nat /\ old \in V /\ oldEnd <= size
  <2>1. Ascends(R, V, size, w)
    BY <1>3, <1>4, Ascending
  <2> QED
    BY <2>1, <1>4 DEF Ascends
<1>6. ASSUME NEW e \in Nat, e <= oldEnd
      PROVE  \A x \in from..e - 1 : RunValueAt(R, x) = old
  <2> TAKE x \in from..e - 1
  <2> HIDE DEF oldEnd
  <2>1. x \in Nat /\ StartOf(R, w) <= x /\ x < End(R, size, w)
    BY <1>2, <1>3, <1>4, <1>5, <1>6
  <2> QED
    BY <2>1, <1>3, <1>4, RunHas
<1>7. CASE Untouched(s, size, cur, new)
  <2>1. p = [map |-> s, cursor |-> [cur EXCEPT !.from = to], value |-> old, range |-> <<from, to>>]
    BY <1>1, <1>7
  <2>2. /\ p.map = s /\ p.value = old /\ p.range = <<from, to>> /\ p.cursor.from = to /\ p.cursor.to = to
        /\ p.cursor \in [read : Nat, write : Nat, from : Nat, to : Nat]
    BY <2>1, <1>2
  <2>3. new = old /\ to <= oldEnd /\ r = w /\ (w = 1 \/ Value(s, w - 1) # old)
    BY <1>7 DEF Untouched
  <2>4. Assigns(s, R, V, size, new, from, to)
    BY <2>3, <1>2, KeptRun DEF R
  <2>5. \A x \in from..to - 1 : RunValueAt(R, x) = old
    BY <2>3, <1>2, <1>6
  <2> HIDE DEF old, oldEnd
  <2> QED
    BY <2>2, <2>4, <2>5, <1>2, <1>3 DEF PieceDone, R, old
<1>8. CASE ~Untouched(s, size, cur, new)
  <2>1. p = [map |-> IF end = to THEN CloseGap(runs2, size, cur2, old, oldEnd, new) ELSE runs2,
             cursor |-> cur2, value |-> old, range |-> <<from, end>>]
    BY <1>1, <1>8
  <2>2. end \in Nat /\ from < end /\ end <= to /\ end <= oldEnd /\ (end # to => end = oldEnd /\ oldEnd < to)
    <3> HIDE DEF oldEnd
    <3> QED
      BY <1>2, <1>3, <1>5
  <2> HIDE DEF end
  <2>3. \E k, m, b : /\ Written(runs2, read2, write2, V, R, w, k, m, new, b)
                     /\ StartOf(R, w) <= b /\ b <= from /\ b \in Nat /\ (b < from => old = new)
    <3>1. CASE split
      <4>1. r = w /\ StartOf(s, r) < from /\ old # new
        BY <3>1, <1>3
      <4>2. at = w + 1 /\ at - 1 = w /\ at # 1
        BY <3>1, <1>2, <1>3
      <4>3. Value(runs1, w) = old
        <5> DEFINE E == V \X Nat  a == <<old, from>>  n == r + 1
        <5>1. s \in Seq(E) /\ a \in E /\ n \in 1..Len(s) + 1 /\ w \in 1..Len(s) + 1 /\ w < n
          BY <1>2, <1>3, <1>5, <4>1
        <5> HIDE DEF E, a, n
        <5>2. InsertIs(InsertAt(s, n, a), E, s, n, a)
          BY <5>1, InsertIn
        <5>3. InsertAt(s, n, a)[w] = s[w]
          BY <5>1, <5>2 DEF InsertIs
        <5>4. runs1 = InsertAt(s, n, a)
          BY <3>1 DEF n, a
        <5> QED
          BY <5>3, <5>4, <4>1 DEF Value
      <4>4. put
        BY <4>1, <4>2, <4>3
      <4>5. runs2 = ReplaceAt(InsertAt(s, r + 1, <<old, from>>), r + 1, <<new, from>>)
        BY <3>1, <4>1, <4>2, <4>4
      <4>6. read2 = r + 2 /\ write2 = w + 2
        BY <3>1, <4>2, <4>4, <1>2
      <4>7. Written(runs2, read2, write2, V, R, w, w, 1, new, from)
        <5> HIDE DEF old, runs2, read2, write2
        <5>1. Value(s, r) # new
          BY <4>1 DEF old
        <5>2. Written(ReplaceAt(InsertAt(s, r + 1, <<Value(s, r), from>>), r + 1, <<new, from>>),
                   r + 2, w + 2, V, Rest(s, w, r), w, w, 1, new, from)
          BY <5>1, <4>1, <1>2, WriteSplit
        <5> QED
          BY <5>2, <4>5, <4>6 DEF R, old
      <4>8. StartOf(R, w) <= from /\ from <= from /\ ~(from < from)
        BY <1>2, <1>3, <1>4
      <4> HIDE DEF runs2, read2, write2
      <4> QED
        BY <4>7, <4>8, <1>2
    <3>2. CASE ~split
      <4>1. runs1 = s /\ at = w /\ read2 = r + 1
        BY <3>2
      <4>2. start = StartOf(s, r)
        BY <3>2, <1>2, <1>3, <1>5
      <4>3. StartOf(R, w) <= StartOf(s, r) /\ StartOf(s, r) <= from /\ (StartOf(s, r) < from => old = new)
        BY <3>2, <1>3, <1>4, <1>5
      <4>4. CASE put
        <5>1. w = 1 \/ Value(s, w - 1) # new
          BY <4>1, <4>4
        <5>2. runs2 = ReplaceAt(s, w, <<new, StartOf(s, r)>>) /\ write2 = w + 1
          BY <4>1, <4>2, <4>4
        <5>3. Written(ReplaceAt(s, w, <<new, StartOf(s, r)>>),
                   r + 1, w + 1, V, Rest(s, w, r), w, w - 1, 1, new, StartOf(s, r))
          BY <5>1, <1>2, WritePut
        <5> HIDE DEF runs2, read2, write2
        <5>4. Written(runs2, read2, write2, V, R, w, w - 1, 1, new, StartOf(s, r))
          BY <4>1, <5>2, <5>3 DEF R
        <5> QED
          BY <5>4, <4>3, <1>5
      <4>5. CASE ~put
        <5>1. w # 1 /\ Value(s, w - 1) = new
          BY <4>1, <4>5
        <5>2. runs2 = s /\ write2 = w
          BY <4>1, <4>5
        <5>3. Written(s, r + 1, w, V, Rest(s, w, r), w, w - 1, 0, new, StartOf(s, r))
          BY <5>1, <1>2, WriteSkip
        <5> HIDE DEF runs2, read2, write2
        <5>4. Written(runs2, read2, write2, V, R, w, w - 1, 0, new, StartOf(s, r))
          BY <4>1, <5>2, <5>3 DEF R
        <5> QED
          BY <5>4, <4>3, <1>5
      <4> QED
        BY <4>4, <4>5
    <3> QED
      BY <3>1, <3>2
  <2> HIDE DEF runs2, read2, write2
  <2>4. PICK k, m, b : /\ Written(runs2, read2, write2, V, R, w, k, m, new, b)
                       /\ StartOf(R, w) <= b /\ b <= from /\ b \in Nat /\ (b < from => old = new)
    BY <2>3
  <2>5. cur2.read = read2 /\ cur2.write = write2 /\ cur2.from = end /\ cur2.to = to
    BY <1>2
  <2>6. cur2 \in [read : Nat, write : Nat, from : Nat, to : Nat]
    <3>1. k \in Nat /\ m \in {0, 1} /\ Len(runs2) \in Nat /\ read2 \in 1..Len(runs2) + 1 /\ write2 = (k + m) + 1
      BY <2>4 DEF Written, Begins
    <3>2. read2 \in Nat /\ write2 \in Nat
      BY <3>1
    <3> QED
      BY <3>2, <2>2, <1>2
  <2> HIDE DEF cur2, old, oldEnd
  <2>7. p.cursor = cur2 /\ p.value = old /\ p.range = <<from, end>>
    BY <2>1
  <2>8. \A x \in from..end - 1 : RunValueAt(R, x) = old
    BY <2>2, <1>6
  <2>9. ASSUME end = to
        PROVE  Assigns(p.map, R, V, size, new, from, to)
    <3>1. p.map = CloseGap(runs2, size, cur2, Value(R, w), End(R, size, w), new)
      BY <2>1, <2>9, <1>4
    <3>2. Written(runs2, cur2.read, cur2.write, V, R, w, k, m, new, b)
      BY <2>4, <2>5
    <3>3. /\ from < End(R, size, w) /\ from < cur2.to /\ cur2.to <= size /\ cur2.to \in Nat
          /\ cur2.to <= End(R, size, w) /\ (b < from => Value(R, w) = new)
      BY <2>2, <2>4, <2>5, <2>9, <1>2, <1>3, <1>4
    <3> DEFINE f == from
    <3>4. f \in Nat /\ f < End(R, size, w) /\ f < cur2.to /\ b <= f /\ (b < f => Value(R, w) = new)
      BY <1>2, <2>4, <3>3
    <3> HIDE DEF f
    <3>5. Assigns(CloseGap(runs2, size, cur2, Value(R, w), End(R, size, w), new), R, V, size, new, f, cur2.to)
      BY <3>2, <3>3, <3>4, <2>4, <1>3, <1>4, ClosedGap
    <3> QED
      BY <3>1, <3>5, <2>5 DEF f
  <2>10. ASSUME end # to
         PROVE  CursorAt(p.map, V, size, p.cursor) /\ Changes(Rest(p.map, cur2.write, cur2.read), R, size, new, from, end)
    <3>1. p.map = runs2
      BY <2>1, <2>10
    <3>2. end = oldEnd /\ oldEnd < to /\ b < oldEnd
      BY <2>2, <2>10, <2>4, <1>2, <1>3, <1>5
    <3>3. /\ At(runs2, V, size, read2, write2, End(R, size, w), to)
          /\ Changes(Rest(runs2, write2, read2), R, size, new, b, End(R, size, w))
      <4> DEFINE t == to
      <4>1. t \in Nat /\ t <= size /\ End(R, size, w) < t /\ b < End(R, size, w)
        BY <3>2, <1>2, <1>3, <1>4
      <4> HIDE DEF t
      <4>2. /\ At(runs2, V, size, read2, write2, End(R, size, w), t)
            /\ Changes(Rest(runs2, write2, read2), R, size, new, b, End(R, size, w))
        BY <4>1, <2>4, <1>3, <1>4, WrittenAt
      <4> QED
        BY <4>2 DEF t
    <3>4. CursorAt(p.map, V, size, p.cursor)
      BY <3>1, <3>2, <3>3, <2>5, <2>6, <2>7, <1>4 DEF CursorAt
    <3>5. Changes(Rest(runs2, write2, read2), R, size, new, from, end)
      <4> DEFINE f == from  z == Rest(runs2, write2, read2)
      <4>1. /\ f \in Nat /\ b <= f /\ f < end /\ end \in Nat /\ end <= end /\ end <= End(R, size, w)
            /\ (b < f \/ end < end => Value(R, w) = new) /\ Changes(z, R, size, new, b, end)
        BY <3>2, <3>3, <2>2, <2>4, <1>2, <1>3, <1>4, <1>5
      <4> HIDE DEF f, z
      <4>2. Changes(z, R, size, new, f, end)
        BY <4>1, <2>4, <1>3, <1>4, ChangesPart
      <4> QED
        BY <4>2 DEF f, z
    <3> QED
      BY <3>1, <3>4, <3>5, <2>5
  <2>11. /\ p.value = Value(s, cur.read) /\ p.range = <<cur.from, p.cursor.from>>
         /\ p.cursor \in [read : Nat, write : Nat, from : Nat, to : Nat]
         /\ cur.from < p.cursor.from /\ p.cursor.from <= cur.to /\ p.cursor.to = cur.to
         /\ p.cursor.from = end
    BY <2>2, <2>5, <2>6, <2>7 DEF old
  <2> QED
    BY <2>7, <2>8, <2>9, <2>10, <2>11 DEF PieceDone, R
<1> QED
  BY <1>7, <1>8

-----------------------------------------------------------------------------
(* The tracker of accesses: its operations and what they answer             *)

IsAccessTracker == tracker \in Trackers /\ IsAccess

\* What an operation is
LEMMA AccessOp ==
    ASSUME IsAccessTracker, NEW t \in Users, NEW o \in tracker.ops[t]
    PROVE  /\ t \in Threads /\ t # None /\ o # None
           /\ o.ranges \in Seq(RangesOf(tracker)) /\ Len(o.ranges) = 1
           /\ o.ranges[1] \in RangesOf(tracker)
           /\ \/ o.do = "read"
              \/ o.do = "mark" /\ tracker.of = "image" /\ o.value = "resolve"
              \/ o.do = "swap" /\ o.value \in {"nothing"} \cup tracker.values
<1>1. tracker \in Trackers /\ tracker.kind = "access" /\ t \in DOMAIN tracker.ops
  BY DEF IsAccessTracker, IsAccess, Users
<1>2. t \in Threads /\ t # None
  BY <1>1, TrackerAssumption, NoneAssumption
<1>3. o # None /\ o.ranges \in Seq(RangesOf(tracker)) \ {<<>>}
  BY <1>1, TrackerAssumption
<1>4. /\ Len(o.ranges) = 1
      /\ \/ o.do = "read"
         \/ o.do = "mark" /\ tracker.of = "image" /\ o.value = "resolve"
         \/ o.do = "swap" /\ o.value \in {"nothing"} \cup tracker.values
  BY <1>1, AccessAssumption
<1>5. o.ranges[1] \in RangesOf(tracker)
  BY <1>3, <1>4
<1> QED
  BY <1>2, <1>3, <1>4, <1>5

Sets(k) == {{v} : v \in {"nothing"} \cup k.values} \cup SUBSET (k.values \cap Sampled)

\* The values of a tracker of each kind
LEMMA ValuesAre ==
    ASSUME NEW k
    PROVE  /\ k.of = "buffer" => AccessValues(k) = {"nothing", "general"} \cup k.values
           /\ k.of # "buffer" =>
                \A v : v \in AccessValues(k) <=>
                    v # {} /\ (v \in Sets(k) \/ \E s \in Sets(k) : v = s \cup {"resolve"})
BY DEF AccessValues, Sets

\* An access set after another access
LEMMA AfterIs ==
    ASSUME NEW k, k.of # "buffer", NEW v \in AccessValues(k), NEW next \in {"nothing"} \cup k.values
    PROVE  AfterAccess(v, next) \in AccessValues(k)
<1> DEFINE both == v \cup {next}
<1>1. {next} \in Sets(k)
  BY DEF Sets
<1>2. CASE ~(v \subseteq Sampled /\ next \in Sampled)
  <2>1. AfterAccess(v, next) = {next}
    BY <1>2 DEF AfterAccess
  <2> QED
    BY <2>1, <1>1, ValuesAre
<1>3. CASE v \subseteq Sampled /\ next \in Sampled
  <2>1. "resolve" \notin Sampled /\ "nothing" \notin Sampled
    BY DEF Sampled
  <2>2. v \in Sets(k) /\ v # {}
    BY <2>1, <1>3, ValuesAre
  <2>3. v \subseteq k.values
    BY <2>1, <2>2, <1>3 DEF Sets
  <2>4. next \in k.values
    BY <2>1, <1>3
  <2>5. both \subseteq k.values \cap Sampled
    BY <2>3, <2>4, <1>3
  <2>6. both \in Sets(k) /\ both # {}
    BY <2>5 DEF Sets
  <2>7. "anyStage" \in both => {"anyStage"} \in Sets(k)
    BY <2>5 DEF Sets
  <2>8. AfterAccess(v, next) = IF "anyStage" \in both THEN {"anyStage"} ELSE both
    BY <1>3 DEF AfterAccess
  <2> HIDE DEF both
  <2> QED
    BY <2>6, <2>7, <2>8, ValuesAre
<1> QED
  BY <1>2, <1>3

\* An operation makes values of values.
LEMMA UpdatedIs ==
    ASSUME IsAccessTracker, NEW t \in Users, NEW o \in tracker.ops[t], NEW v \in AccessValues(tracker)
    PROVE  Updated(o, v) \in AccessValues(tracker)
<1> DEFINE k == tracker
<1>1. \/ o.do = "read"
      \/ o.do = "mark" /\ tracker.of = "image" /\ o.value = "resolve"
      \/ o.do = "swap" /\ o.value \in {"nothing"} \cup tracker.values
  BY AccessOp
<1>2. "read" # "mark" /\ "swap" # "mark" /\ "read" # "swap" /\ "image" # "buffer"
  OBVIOUS
<1>3. CASE o.do = "read"
  <2>1. Updated(o, v) = v
    BY <1>2, <1>3 DEF Updated
  <2> QED
    BY <2>1
<1>4. CASE o.do = "mark" /\ tracker.of = "image" /\ o.value = "resolve"
  <2>1. Updated(o, v) = v \cup {"resolve"}
    BY <1>2, <1>4 DEF Updated
  <2>2. tracker.of # "buffer"
    BY <1>2, <1>4
  <2>3. v \in Sets(k) \/ \E s \in Sets(k) : v = s \cup {"resolve"}
    BY <2>2, ValuesAre
  <2>4. \E s \in Sets(k) : v \cup {"resolve"} = s \cup {"resolve"}
    BY <2>3
  <2>5. v \cup {"resolve"} # {}
    OBVIOUS
  <2> QED
    BY <2>1, <2>2, <2>4, <2>5, ValuesAre
<1>5. CASE o.do = "swap" /\ IsBuffer
  <2>1. Updated(o, v) = TrackedAccessAfter(v, o.value)
    BY <1>2, <1>5 DEF Updated
  <2>2. Updated(o, v) \in {"general", o.value}
    BY <2>1 DEF TrackedAccessAfter
  <2>3. o.value \in {"nothing"} \cup tracker.values /\ tracker.of = "buffer"
    BY <1>1, <1>2, <1>5 DEF IsBuffer
  <2> QED
    BY <2>2, <2>3, ValuesAre
<1>6. CASE o.do = "swap" /\ ~IsBuffer
  <2>1. o.value \in {"nothing"} \cup tracker.values /\ tracker.of # "buffer"
    BY <1>1, <1>2, <1>6 DEF IsBuffer
  <2>2. {o.value} \in AccessValues(k)
    <3>1. {o.value} \in Sets(k) /\ {o.value} # {}
      BY <2>1 DEF Sets
    <3> QED
      BY <3>1, <2>1, ValuesAre
  <2>3. AfterAccess(v, o.value) \in AccessValues(k)
    BY <2>1, AfterIs
  <2>4. CASE o.keep
    <3>1. Updated(o, v) = AfterAccess(v, o.value)
      BY <1>2, <1>6, <2>4 DEF Updated
    <3> QED
      BY <3>1, <2>3
  <2>5. CASE ~o.keep
    <3>1. Updated(o, v) = {o.value}
      BY <1>2, <1>6, <2>5 DEF Updated
    <3> QED
      BY <3>1, <2>2
  <2> QED
    BY <2>4, <2>5
<1> QED
  BY <1>1, <1>3, <1>4, <1>5, <1>6

\* Nothing has been done to a cell at first.
LEMMA NothingIs ==
    ASSUME IsAccessTracker
    PROVE  Nothing \in AccessValues(tracker)
<1>1. CASE IsBuffer
  BY <1>1, ValuesAre DEF Nothing, IsBuffer
<1>2. CASE ~IsBuffer
  <2>1. {"nothing"} \in Sets(tracker) /\ {"nothing"} # {}
    BY DEF Sets
  <2> QED
    BY <2>1, <1>2, ValuesAre DEF Nothing, IsBuffer
<1> QED
  BY <1>1, <1>2

\* The word and the cells of an answer are none of them None.
LEMMA AnswerIsOne ==
    ASSUME IsAccessTracker, NEW cells \in SUBSET (0..SizeOf(tracker) - 1),
           NEW a \in [cells -> AccessValues(tracker)]
    PROVE  a # None
<1>1. tracker \in Trackers /\ tracker.kind = "access"
  BY DEF IsAccessTracker, IsAccess
<1>2. tracker.kind # "claims" /\ ValuesOf(tracker) = AccessValues(tracker)
  BY <1>1 DEF ValuesOf
<1> QED
  BY <1>1, <1>2, NoneAssumption

\* An answer to an access is not None either.
LEMMA AccessAnswer ==
    ASSUME IsAccessTracker, NEW t, op[t].ranges[1] \in RangesOf(tracker),
           NEW m \in [Cells -> AccessValues(tracker)]
    PROVE  /\ AnswerOf(t, m) \in [CellsOf(op[t].ranges[1]) -> AccessValues(tracker)]
           /\ AnswerOf(t, m) # None
<1> DEFINE cells == CellsOf(op[t].ranges[1])
           a == [c \in cells |-> m[c]]
<1>1. cells \subseteq Cells /\ Cells = 0..SizeOf(tracker) - 1
  BY RangeIs, Terms DEF IsAccessTracker
<1> HIDE DEF cells
<1>2. a \in [cells -> AccessValues(tracker)]
  BY <1>1
<1> HIDE DEF a
<1>3. a # None
  BY <1>1, <1>2, AnswerIsOne
<1> QED
  BY <1>2, <1>3 DEF AnswerOf, a, cells

\* A range of an image
LEMMA ImageRange ==
    ASSUME IsAccessTracker, tracker.of = "image", NEW range \in RangesOf(tracker)
    PROVE  /\ IsRange(tracker.shape, range)
           /\ CellCount(tracker.shape) = SizeOf(tracker)
           /\ SizeOf(tracker) = 1 => IsWholeImage(tracker.shape, range)
<1>1. tracker \in Trackers /\ ~IsBuffer
  BY DEF IsAccessTracker, IsBuffer
<1>2. IsShape(tracker.shape) /\ CellCount(tracker.shape) = SizeOf(tracker)
  BY <1>1, TrackerIs DEF Size
<1>3. /\ range \in [layer : Nat, layers : Nat \ {0}, level : Nat, levels : Nat \ {0},
                    aspect : Nat, aspects : Nat \ {0}]
      /\ range.layer + range.layers <= tracker.shape.layers
      /\ range.level + range.levels <= tracker.shape.levels
      /\ range.aspect + range.aspects <= tracker.shape.aspects
  BY <1>1 DEF RangesOf, IsBuffer
<1>4. IsRange(tracker.shape, range)
  BY <1>2, <1>3 DEF IsRange
<1>5. ASSUME SizeOf(tracker) = 1
      PROVE  IsWholeImage(tracker.shape, range)
  <2> DEFINE L == tracker.shape.layers  M == tracker.shape.levels  A == tracker.shape.aspects
  <2>1. L \in Nat \ {0} /\ M \in Nat \ {0} /\ A \in Nat \ {0} /\ (L * M) * A = 1
    BY <1>2, <1>5 DEF IsShape, CellCount
  <2>2. \A a, b \in Nat \ {0} : a * b \in Nat \ {0} /\ a <= a * b /\ b <= a * b
    <3> TAKE a, b \in Nat \ {0}
    <3>1. 1 * b <= a * b /\ 1 * a <= b * a
      BY Products
    <3>2. a * b = b * a /\ 1 * b = b /\ 1 * a = a
      OBVIOUS
    <3>3. a * b \in Nat
      BY Products
    <3> QED
      BY <3>1, <3>2, <3>3
  <2> HIDE DEF L, M, A
  <2>3. L * M \in Nat \ {0}
    BY <2>1, <2>2
  <2>4. L * M <= 1 /\ A <= 1
    <3> DEFINE LM == L * M
    <3>1. LM \in Nat \ {0} /\ LM * A = 1
      BY <2>1, <2>3
    <3> HIDE DEF LM
    <3>2. LM <= LM * A /\ A <= LM * A
      BY <3>1, <2>1, <2>2
    <3>3. LM <= 1 /\ A <= 1
      BY <3>1, <3>2
    <3> QED
      BY <3>3 DEF LM
  <2>5. L <= L * M /\ M <= L * M
    BY <2>1, <2>2
  <2> DEFINE LM == L * M
  <2>6. L <= LM /\ M <= LM /\ LM <= 1 /\ LM \in Nat
    BY <2>3, <2>4, <2>5
  <2> HIDE DEF LM
  <2>7. L = 1 /\ M = 1 /\ A = 1
    BY <2>1, <2>4, <2>6
  <2>8. /\ range.layer \in Nat /\ range.layers \in Nat \ {0} /\ range.level \in Nat
        /\ range.levels \in Nat \ {0} /\ range.aspect \in Nat /\ range.aspects \in Nat \ {0}
        /\ range.layer + range.layers <= 1 /\ range.level + range.levels <= 1
        /\ range.aspect + range.aspects <= 1
    BY <1>3, <2>7 DEF L, M, A
  <2>9. /\ range.layer = 0 /\ range.layers = 1 /\ range.level = 0 /\ range.levels = 1
        /\ range.aspects = 1
    BY <2>8
  <2> QED
    BY <2>7, <2>9 DEF IsWholeImage, L, M, A
<1> QED
  BY <1>2, <1>4, <1>5

-----------------------------------------------------------------------------
(* The invariant of the tracker of accesses                                 *)

Under == {"capture", "set_dense", "pieces"}
IsSingleIn(k) == k.of = "image" /\ SizeOf(k) = 1
AccessLabels == {"idle", "load", "load_set", "exchange", "lock", "locked", "capture", "set_dense",
                 "pieces", "unlock", "return"}
AccessHolding == {"locked", "capture", "set_dense", "pieces", "unlock"}
AccessAnswered == {"pieces", "unlock", "return"}
Lockless == {"idle", "load", "load_set", "exchange", "return"}
Words(k) == [state : {"uniform", "promoting", "dense"}, set : AccessValues(k)]
WholeIn(k, range) ==
    IF k.of = "buffer" THEN range = <<0, SizeOf(k)>> ELSE IsWholeImage(k.shape, range)

RunItems(k, range, cur, items, s) ==
    /\ cur \in [read : Nat, write : Nat, from : Nat, to : Nat]
    /\ range[1] <= cur.from /\ cur.from <= cur.to /\ cur.to = range[2]
    /\ items \in [range[1]..cur.from - 1 -> AccessValues(k)]
    /\ cur.from = cur.to => IsRuns(s, AccessValues(k), SizeOf(k))
    /\ cur.from # cur.to => CursorAt(s, AccessValues(k), SizeOf(k), cur)
RectangleItems(k, range, cur, items, w, s) ==
    /\ w.state = "dense"
    /\ DenseAt(s, AccessValues(k), k.shape, range, cur)
    /\ items \in [Passed(k.shape, range, cur) -> AccessValues(k)]
Items(k, range, cur, items, w, s) ==
    IF k.of = "buffer" THEN RunItems(k, range, cur, items, s)
    ELSE RectangleItems(k, range, cur, items, w, s)

AccessThread(t) ==
    /\ op[t] \in (IF t \in Users THEN tracker.ops[t] ELSE {}) \cup {None}
    /\ pc[t] = "idle" <=> op[t] = None
    /\ lock = t <=> pc[t] \in AccessHolding
    /\ reply[t] # None <=> pc[t] \in AccessAnswered
    /\ pc[t] \in {"load", "load_set", "exchange", "capture", "set_dense"} => tracker.of = "image"
    /\ pc[t] = "load_set" => op[t].do = "read"
    /\ pc[t] \in {"exchange", "capture", "set_dense", "pieces"} => op[t].do # "read"
    /\ pc[t] = "exchange" => /\ WholeIn(tracker, op[t].ranges[1])
                             /\ local[t] \in Words(tracker) /\ local[t].state = "uniform"
    /\ pc[t] \in {"capture", "set_dense"} => word.state = "promoting"
    /\ pc[t] = "set_dense" => store = DenseOf(word.set)
    /\ pc[t] = "pieces" => Items(tracker, op[t].ranges[1], local[t], reply[t], word, store)
    /\ IsSingleIn(tracker) => pc[t] \in Lockless

AccessMap ==
    IF tracker.of = "buffer"
    THEN word = None /\ (Nobody("pieces") => IsRuns(store, AccessValues(tracker), SizeOf(tracker)))
    ELSE /\ word \in Words(tracker)
         /\ store = None \/ IsDense(store, AccessValues(tracker), SizeOf(tracker))
         /\ word.state = "dense" => IsDense(store, AccessValues(tracker), SizeOf(tracker))
         /\ word.state = "dense" /\ Nobody("pieces") => ~IsUniform(store)
         /\ word.state = "promoting" => ~(Nobody("capture") /\ Nobody("set_dense"))
         /\ IsSingleIn(tracker) => word.state = "uniform"

AccessTyped ==
    /\ IsAccessTracker
    /\ lock \in Users \cup {None}
    /\ pc \in [Threads -> AccessLabels]
    /\ IsFun(op) /\ IsFun(local) /\ IsFun(reply) /\ IsFun(past)

AccessInv == AccessTyped /\ AccessMap /\ \A t \in Threads : AccessThread(t)

\* A step of a thread changes what is its own, and takes or frees the lock for itself only.
OnlyThread(t) ==
    /\ tracker' = tracker /\ pc' \in [Threads -> AccessLabels]
    /\ IsPut(op', op, t, op'[t]) /\ IsPut(local', local, t, local'[t])
    /\ IsPut(reply', reply, t, reply'[t])
    /\ \A u \in Threads : u # t => pc'[u] = pc[u]
    /\ lock' = lock \/ (lock = None /\ lock' = t) \/ (lock = t /\ lock' = None)

\* A function of which one place changes
LEMMA Changed ==
    ASSUME NEW f, NEW g, NEW t \in Threads, IsFun(f), g = f \/ \E v : g = [f EXCEPT ![t] = v]
    PROVE  IsPut(g, f, t, g[t])
<1>1. CASE g = f
  BY <1>1 DEF IsPut
<1>2. CASE \E v : g = [f EXCEPT ![t] = v]
  <2>1. PICK v : g = [f EXCEPT ![t] = v]
    BY <1>2
  <2>2. IsPut(g, f, t, v)
    BY <2>1, Excepted, Zenon
  <2> QED
    BY <2>2 DEF IsPut
<1> QED
  BY <1>1, <1>2

\* What a step starts from
LEMMA AccessFrom ==
    ASSUME AccessInv, NEW t \in Users
    PROVE  /\ t \in Threads /\ t # None /\ AccessTyped /\ AccessMap /\ AccessThread(t)
           /\ IsAccessTracker /\ IsFun(op) /\ IsFun(local) /\ IsFun(reply)
           /\ pc \in [Threads -> AccessLabels]
           /\ op[t] # None => op[t] \in tracker.ops[t]
           /\ pc[t] # "idle" => op[t] # None /\ op[t] \in tracker.ops[t]
<1>1. t \in Threads /\ t # None
  BY TrackerAssumption, NoneAssumption DEF AccessInv, AccessTyped, IsAccessTracker, Users
<1>2. AccessTyped /\ AccessMap /\ AccessThread(t)
  BY <1>1 DEF AccessInv
<1>3. op[t] # None => op[t] \in tracker.ops[t]
  BY <1>2 DEF AccessThread
<1> QED
  BY <1>1, <1>2, <1>3 DEF AccessTyped, AccessThread

\* All of its actions are of this kind.
LEMMA AccessMoves ==
    ASSUME AccessInv, NEW t \in Users, AccessStep(t)
    PROVE  OnlyThread(t)
<1> DEFINE Own(f, g) == g = f \/ \E v : g = [f EXCEPT ![t] = v]
           Locks == lock' = lock \/ (lock = None /\ lock' = t) \/ (lock = t /\ lock' = None)
           Part1 == /\ tracker' = tracker /\ Own(op, op') /\ Own(local, local') /\ Own(reply, reply')
           Moved == pc' = pc \/ \E l \in AccessLabels : pc' = [pc EXCEPT ![t] = l]
<1>1. t \in Threads /\ AccessThread(t) /\ IsFun(op) /\ IsFun(local) /\ IsFun(reply)
      /\ pc \in [Threads -> AccessLabels]
  BY AccessFrom
<1>2. Part1 /\ Moved /\ Locks
  <2>1. CASE CallAccess(t)
    <3>1. /\ tracker' = tracker /\ lock' = lock /\ local' = local /\ reply' = reply
          /\ \E o : op' = [op EXCEPT ![t] = o]
          /\ \E l \in {"lock", "load"} : pc' = [pc EXCEPT ![t] = l]
      BY <2>1 DEF CallAccess, Begin, Goto
    <3> QED
      BY <3>1 DEF AccessLabels
  <2>2. CASE LoadAccess(t) \/ ExchangeAccess(t)
    <3>1. /\ tracker' = tracker /\ lock' = lock /\ op' = op
          /\ (\E w : Decide(t, w)) \/ (/\ reply' = [reply EXCEPT ![t] = AnswerOf(t, Everywhere(word.set))]
                                       /\ pc' = [pc EXCEPT ![t] = "return"] /\ local' = local)
      BY <2>2 DEF LoadAccess, ExchangeAccess, Reply, Goto
    <3>2. CASE \E w : Decide(t, w)
      <4>1. PICK w : Decide(t, w)
        BY <3>2
      <4>2. /\ Own(local, local') /\ Own(reply, reply')
            /\ \E l \in {"lock", "return", "exchange"} : pc' = [pc EXCEPT ![t] = l]
        BY <4>1 DEF Decide, Goto, Reply
      <4> QED
        BY <3>1, <4>2 DEF AccessLabels
    <3>3. CASE /\ reply' = [reply EXCEPT ![t] = AnswerOf(t, Everywhere(word.set))]
               /\ pc' = [pc EXCEPT ![t] = "return"] /\ local' = local
      BY <3>1, <3>3 DEF AccessLabels
    <3> QED
      BY <3>1, <3>2, <3>3
  <2>3. CASE SwapAtOnce(t)
    BY <2>3 DEF SwapAtOnce, Reply, Goto, AccessLabels
  <2>4. CASE LoadState(t)
    <3>1. /\ tracker' = tracker /\ lock' = lock /\ local' = local /\ reply' = reply /\ op' = op
          /\ \E l \in {"lock", "load_set"} : pc' = [pc EXCEPT ![t] = l]
      BY <2>4 DEF LoadState, Goto
    <3> QED
      BY <3>1 DEF AccessLabels
  <2>5. CASE LoadSet(t)
    BY <2>5 DEF LoadSet, Reply, Goto, AccessLabels
  <2>6. CASE Lock(t)
    BY <2>6 DEF Lock, Goto, AccessLabels
  <2>7. CASE ReadAccessLocked(t)
    BY <2>7 DEF ReadAccessLocked, Reply, Goto, AccessLabels
  <2>8. CASE SetPromoting(t)
    BY <2>8 DEF SetPromoting, Goto, AccessLabels
  <2>9. CASE Capture(t)
    BY <2>9 DEF Capture, Goto, AccessLabels
  <2>10. CASE SetDense(t)
    BY <2>10 DEF SetDense, Reply, Goto, AccessLabels
  <2>11. CASE FindDense(t)
    BY <2>11 DEF FindDense, Reply, Goto, AccessLabels
  <2>12. CASE NextRun(t)
    BY <2>12 DEF NextRun, Yield, Reply
  <2>13. CASE NextRectangle(t)
    BY <2>13 DEF NextRectangle, Yield, Reply
  <2>14. CASE TryDemote(t)
    BY <2>14 DEF TryDemote, Goto, AccessLabels
  <2>15. CASE Unlock(t) \/ Return(t)
    <3>1. Part1 /\ \E l \in {"idle"} : pc' = [pc EXCEPT ![t] = l]
      BY <2>15 DEF Unlock, Return, Idle, Reply, Goto
    <3>2. Locks
      <4>1. pc[t] = "unlock" => lock = t
        BY <1>1 DEF AccessThread, AccessHolding
      <4> QED
        BY <2>15, <4>1 DEF Unlock, Return
    <3> HIDE DEF Part1, Locks
    <3> QED
      BY <3>1, <3>2 DEF AccessLabels
  <2> HIDE DEF Part1, Moved, Locks
  <2> QED
    BY <2>1, <2>2, <2>3, <2>4, <2>5, <2>6, <2>7, <2>8, <2>9, <2>10, <2>11, <2>12, <2>13, <2>14, <2>15
       DEF AccessStep
<1>3. pc' \in [Threads -> AccessLabels] /\ \A u \in Threads : u # t => pc'[u] = pc[u]
  <2>1. CASE pc' = pc
    BY <2>1, <1>1
  <2>2. CASE \E l \in AccessLabels : pc' = [pc EXCEPT ![t] = l]
    <3>1. PICK l \in AccessLabels : pc' = [pc EXCEPT ![t] = l]
      BY <2>2
    <3> QED
      BY <3>1, <1>1
  <2> QED
    BY <2>1, <2>2, <1>2
<1>4. IsPut(op', op, t, op'[t])
  <2>1. Own(op, op')
    BY <1>2
  <2> QED
    BY <2>1, <1>1, Changed, Zenon
<1>5. IsPut(local', local, t, local'[t])
  <2>1. Own(local, local')
    BY <1>2
  <2> QED
    BY <2>1, <1>1, Changed, Zenon
<1>6. IsPut(reply', reply, t, reply'[t])
  <2>1. Own(reply, reply')
    BY <1>2
  <2> QED
    BY <2>1, <1>1, Changed, Zenon
<1>7. tracker' = tracker
  BY <1>2
<1> HIDE DEF Part1, Moved
<1> QED
  BY <1>2, <1>3, <1>4, <1>5, <1>6, <1>7 DEF OnlyThread

\* Only one thread is under the lock.
LEMMA OneAccess ==
    ASSUME AccessInv, NEW t \in Threads, pc[t] \in AccessHolding, NEW u \in Threads, u # t
    PROVE  pc[u] \notin AccessHolding /\ pc[u] \notin Under
<1>1. lock = t /\ (lock = u <=> pc[u] \in AccessHolding)
  BY DEF AccessInv, AccessThread
<1> QED
  BY <1>1 DEF AccessHolding, Under

\* What a step leaves alone of the other threads stays true of them.
LEMMA AccessOthers ==
    ASSUME AccessInv, NEW t \in Threads, t # None, OnlyThread(t), NEW u \in Threads, u # t,
           pc[u] \in Under => word' = word /\ store' = store
    PROVE  AccessThread(u)'
<1>1. AccessThread(u)
  BY DEF AccessInv
<1>2. /\ pc'[u] = pc[u] /\ op'[u] = op[u] /\ local'[u] = local[u] /\ reply'[u] = reply[u]
      /\ tracker' = tracker /\ Users' = Users
  BY DEF OnlyThread, IsPut, Users
<1>3. lock' = u <=> lock = u
  BY NoneAssumption DEF OnlyThread
<1>4. CASE pc[u] \in Under
  BY <1>1, <1>2, <1>3, <1>4 DEF AccessThread
<1>5. CASE pc[u] \notin Under
  BY <1>1, <1>2, <1>3, <1>5 DEF AccessThread, Under
<1> QED
  BY <1>4, <1>5

\* A step that leaves word and map alone, and whose thread does not leave what is under way
LEMMA AccessMapKept ==
    ASSUME AccessMap, tracker' = tracker, word' = word, store' = store,
           \A t \in Threads : pc[t] \in Under => pc'[t] = pc[t]
    PROVE  AccessMap'
<1>1. (Nobody("pieces") \/ ~Nobody("pieces"))
      /\ (Nobody("pieces")' => Nobody("pieces"))
      /\ (Nobody("capture")' => Nobody("capture"))
      /\ (Nobody("set_dense")' => Nobody("set_dense"))
  BY DEF Nobody, Under
<1>2. CASE tracker.of = "buffer"
  BY <1>1, <1>2 DEF AccessMap
<1>3. CASE tracker.of # "buffer"
  BY <1>1, <1>3 DEF AccessMap
<1> QED
  BY <1>2, <1>3

\* What is left to show of a step
LEMMA AccessKeeps ==
    ASSUME AccessInv, NEW t \in Users, OnlyThread(t), Remember, AccessMap', AccessThread(t)',
           \A u \in Threads : u # t /\ pc[u] \in Under => word' = word /\ store' = store
    PROVE  AccessInv'
<1>1. t \in Threads /\ t # None
  BY AccessFrom
<1>2. \A u \in Threads : AccessThread(u)'
  <2>1. ASSUME NEW u \in Threads, u # t
        PROVE  AccessThread(u)'
    BY <2>1, <1>1, AccessOthers
  <2> QED
    BY <2>1
<1>3. IsFun(past')
  <2>1. past' \in [Threads -> {past'[u] : u \in Threads}]
    BY DEF Remember
  <2> QED
    BY <2>1 DEF IsFun
<1>4. AccessTyped'
  <2>1. /\ tracker' = tracker /\ IsAccessTracker' /\ Users' = Users
    BY DEF OnlyThread, AccessInv, AccessTyped, IsAccessTracker, IsAccess, Users
  <2>2. lock' \in Users \cup {None}
    BY DEF OnlyThread, AccessInv, AccessTyped
  <2>3. IsFun(op') /\ IsFun(local') /\ IsFun(reply') /\ pc' \in [Threads -> AccessLabels]
    BY DEF OnlyThread, IsPut
  <2> QED
    BY <2>1, <2>2, <2>3, <1>3 DEF AccessTyped
<1> QED
  BY <1>2, <1>4 DEF AccessInv

-----------------------------------------------------------------------------
(* Every step of the tracker of accesses keeps the invariant                *)

\* What a tracker is of
LEMMA OfParts ==
    ASSUME IsAccessTracker
    PROVE  /\ tracker.of \in {"buffer", "image"} /\ (IsBuffer <=> tracker.of = "buffer")
           /\ "buffer" # "image"
           /\ IsSingle <=> IsSingleIn(tracker)
           /\ \A range : WholeRange(range) <=> WholeIn(tracker, range)
           /\ SizeOf(tracker) \in Nat \ {0}
<1>1. tracker.of \in {"buffer", "image"} /\ (IsBuffer <=> tracker.of = "buffer") /\ Size = SizeOf(tracker)
      /\ SizeOf(tracker) \in Nat \ {0} /\ "buffer" # "image"
  BY TrackerIs DEF IsAccessTracker, IsBuffer, Size
<1> QED
  BY <1>1 DEF IsSingle, IsSingleIn, WholeRange, WholeIn

\* The answer that an iterator begins with is one.
LEMMA EmptyAnswer ==
    ASSUME NEW V
    PROVE  <<>> \in [{} -> V] /\ DOMAIN <<>> = {}
<1>1. <<>> \in [1..0 -> V] /\ 1..0 = {} /\ DOMAIN <<>> = 1..0
  OBVIOUS
<1> QED
  BY <1>1

\* A word of which one part changes
LEMMA WordPut ==
    ASSUME NEW k, NEW w \in Words(k), NEW v, NEW x
    PROVE  /\ [w EXCEPT !.set = v] = [state |-> w.state, set |-> v]
           /\ [w EXCEPT !.state = x] = [state |-> x, set |-> w.set]
           /\ w.state \in {"uniform", "promoting", "dense"} /\ w.set \in AccessValues(k)
BY DEF Words

\* A map has values of the tracker.
LEMMA RunsHave ==
    ASSUME NEW V, NEW size \in Nat, NEW s, IsOrdered(s, V, size), NEW c \in Nat
    PROVE  RunValueAt(s, c) \in V
<1>1. RunIndexAt(s, c) \in DOMAIN s
  BY RunOf
<1>2. Value(s, RunIndexAt(s, c)) \in V
  BY <1>1, RunParts
<1> QED
  BY <1>2 DEF RunValueAt

\* A step that leaves word and map alone, of a thread that has nothing under way
LEMMA AccessQuiet ==
    ASSUME AccessInv, NEW t \in Users, OnlyThread(t), Remember, word' = word, store' = store,
           pc[t] \notin Under, AccessThread(t)'
    PROVE  AccessInv'
<1>1. AccessMap'
  <2>1. \A u \in Threads : pc[u] \in Under => pc'[u] = pc[u]
    BY DEF OnlyThread
  <2> QED
    BY <2>1, AccessMapKept DEF AccessInv, OnlyThread
<1> QED
  BY <1>1, AccessKeeps

\* A call keeps it.
LEMMA CallAccessKeeps ==
    ASSUME AccessInv, NEW t \in Users, CallAccess(t), OnlyThread(t), Remember
    PROVE  AccessInv'
<1>1. t \in Threads /\ IsAccessTracker /\ AccessThread(t) /\ IsFun(op) /\ pc \in [Threads -> AccessLabels]
  BY AccessFrom
<1>2. PICK o \in tracker.ops[t] : /\ op' = [op EXCEPT ![t] = o]
                                  /\ pc' = [pc EXCEPT ![t] = IF IsBuffer THEN "lock" ELSE "load"]
  BY DEF CallAccess, Begin, Goto
<1>3. /\ pc[t] = "idle" /\ tracker' = tracker /\ word' = word /\ store' = store /\ lock' = lock
      /\ reply' = reply
  BY DEF CallAccess, Begin
<1>4. pc'[t] = IF tracker.of = "buffer" THEN "lock" ELSE "load"
  BY <1>1, <1>2, OfParts
<1>5. op'[t] = o /\ o # None
  <2>1. IsPut(op', op, t, o)
    BY <1>1, <1>2, Excepted, Zenon
  <2> QED
    BY <2>1, <1>1, AccessOp DEF IsPut
<1>6. AccessThread(t)'
  BY <1>1, <1>3, <1>4, <1>5, OfParts DEF AccessThread, Users, AccessHolding, AccessAnswered, IsSingleIn, Lockless
<1> QED
  BY <1>3, <1>6, AccessQuiet DEF Under

\* So does a decision: an operation that changes nothing, is about everything, or needs the map,
LEMMA DecideKeeps ==
    ASSUME AccessInv, NEW t \in Users, OnlyThread(t), Remember, pc[t] \in {"load", "exchange"},
           op[t].do # "read", Decide(t, word),
           tracker' = tracker, word' = word, store' = store, lock' = lock, op' = op
    PROVE  AccessInv'
<1>1. t \in Threads /\ IsAccessTracker /\ AccessThread(t) /\ AccessMap
      /\ IsFun(local) /\ IsFun(reply) /\ pc \in [Threads -> AccessLabels]
      /\ op[t] # None /\ op[t] \in tracker.ops[t]
  <2>1. pc[t] # "idle"
    OBVIOUS
  <2> QED
    BY <2>1, AccessFrom
<1>2. tracker.of = "image" /\ lock # t /\ reply[t] = None
  BY <1>1 DEF AccessThread, AccessHolding, AccessAnswered
<1>3. op[t].ranges[1] \in RangesOf(tracker)
  BY <1>1, AccessOp
<1>4. word \in Words(tracker) /\ word.set \in AccessValues(tracker)
  <2>1. word \in Words(tracker)
    BY <1>1, <1>2, OfParts DEF AccessMap
  <2> QED
    BY <2>1, WordPut
<1>5. \/ /\ pc' = [pc EXCEPT ![t] = "lock"] /\ local' = local /\ reply' = reply
         /\ word.state # "uniform" \/ ~WholeIn(tracker, op[t].ranges[1])
      \/ /\ pc' = [pc EXCEPT ![t] = "return"]
         /\ reply' = [reply EXCEPT ![t] = AnswerOf(t, Everywhere(word.set))]
      \/ /\ pc' = [pc EXCEPT ![t] = "exchange"] /\ reply' = reply
         /\ local' = [local EXCEPT ![t] = word]
         /\ word.state = "uniform" /\ WholeIn(tracker, op[t].ranges[1])
  BY <1>1, OfParts DEF Decide, Goto, Reply
<1>6. pc[t] \notin Under
  BY DEF Under
<1>7. CASE /\ pc' = [pc EXCEPT ![t] = "lock"] /\ local' = local /\ reply' = reply
           /\ word.state # "uniform" \/ ~WholeIn(tracker, op[t].ranges[1])
  <2>1. pc'[t] = "lock" /\ reply'[t] = None
    BY <1>1, <1>2, <1>7
  <2>2. ~IsSingleIn(tracker)
    BY <1>1, <1>2, <1>3, <1>7, ImageRange, OfParts DEF AccessMap, IsSingleIn, WholeIn
  <2>3. AccessThread(t)'
    BY <2>1, <2>2, <1>1, <1>2 DEF AccessThread, Users, AccessHolding, AccessAnswered
  <2> QED
    BY <2>3, <1>6, AccessQuiet
<1>8. CASE /\ pc' = [pc EXCEPT ![t] = "return"]
           /\ reply' = [reply EXCEPT ![t] = AnswerOf(t, Everywhere(word.set))]
  <2> DEFINE a == AnswerOf(t, Everywhere(word.set))
  <2>1. Everywhere(word.set) \in [Cells -> AccessValues(tracker)]
    BY <1>4 DEF Everywhere
  <2>2. a # None
    BY <2>1, <1>1, <1>3, AccessAnswer
  <2>3. reply' = [reply EXCEPT ![t] = a]
    BY <1>8
  <2> HIDE DEF a
  <2>4. IsPut(reply', reply, t, a)
    BY <2>3, <1>1, Excepted, Zenon
  <2>5. pc'[t] = "return" /\ reply'[t] # None
    BY <2>2, <2>4, <1>1, <1>8 DEF IsPut
  <2>6. AccessThread(t)'
    BY <2>5, <1>1, <1>2 DEF AccessThread, Users, AccessHolding, AccessAnswered, Lockless
  <2> QED
    BY <2>6, <1>6, AccessQuiet
<1>9. CASE /\ pc' = [pc EXCEPT ![t] = "exchange"] /\ reply' = reply
           /\ local' = [local EXCEPT ![t] = word]
           /\ word.state = "uniform" /\ WholeIn(tracker, op[t].ranges[1])
  <2>1. IsPut(local', local, t, word)
    BY <1>1, <1>9, Excepted, Zenon
  <2>2. pc'[t] = "exchange" /\ reply'[t] = None /\ local'[t] = word
    BY <2>1, <1>1, <1>2, <1>9 DEF IsPut
  <2>3. AccessThread(t)'
    BY <2>2, <1>1, <1>2, <1>4, <1>9 DEF AccessThread, Users, AccessHolding, AccessAnswered, Lockless
  <2> QED
    BY <2>3, <1>6, AccessQuiet
<1> QED
  BY <1>5, <1>7, <1>8, <1>9

\* and by the load of a word that counts for itself,
LEMMA LoadAccessKeeps ==
    ASSUME AccessInv, NEW t \in Users, LoadAccess(t), OnlyThread(t), Remember
    PROVE  AccessInv'
BY DecideKeeps DEF LoadAccess

\* What an exchange, which only succeeds while the word counts, finds
LEMMA UniformAlone ==
    ASSUME AccessInv, tracker.of = "image", word.state = "uniform", NEW u \in Threads
    PROVE  pc[u] \notin Under
<1>1. AccessThread(u) /\ IsAccessTracker
  BY DEF AccessInv, AccessTyped
<1>2. pc[u] # "pieces"
  <2>1. SUFFICES ASSUME pc[u] = "pieces"
                 PROVE  FALSE
    OBVIOUS
  <2>2. RectangleItems(tracker, op[u].ranges[1], local[u], reply[u], word, store)
    BY <2>1, <1>1, OfParts DEF AccessThread, Items
  <2> QED
    BY <2>2 DEF RectangleItems
<1> QED
  BY <1>1, <1>2 DEF AccessThread, Under

\* the exchange of the set in the word, which takes effect at once,
LEMMA SetPut ==
    ASSUME AccessInv, NEW t \in Users, OnlyThread(t), Remember, op[t] # None,
           pc[t] \in {"load", "exchange"}, word.state = "uniform",
           word' = [word EXCEPT !.set = Updated(op[t], @)],
           reply' = [reply EXCEPT ![t] = AnswerOf(t, Everywhere(word.set))],
           pc' = [pc EXCEPT ![t] = "return"],
           tracker' = tracker, store' = store, lock' = lock, op' = op
    PROVE  AccessInv'
<1>1. t \in Threads /\ IsAccessTracker /\ AccessThread(t) /\ AccessMap
      /\ IsFun(local) /\ IsFun(reply) /\ pc \in [Threads -> AccessLabels]
      /\ op[t] # None /\ op[t] \in tracker.ops[t]
  BY AccessFrom
<1>2. tracker.of = "image" /\ lock # t
  BY <1>1 DEF AccessThread, AccessHolding
<1>3. op[t].ranges[1] \in RangesOf(tracker)
  BY <1>1, AccessOp
<1>4. word \in Words(tracker) /\ word.set \in AccessValues(tracker)
  <2>1. word \in Words(tracker)
    BY <1>1, <1>2, OfParts DEF AccessMap
  <2> QED
    BY <2>1, WordPut
<1> DEFINE a == AnswerOf(t, Everywhere(word.set))  v == Updated(op[t], word.set)
<1>5. a # None
  <2>1. Everywhere(word.set) \in [Cells -> AccessValues(tracker)]
    BY <1>4 DEF Everywhere
  <2> QED
    BY <2>1, <1>1, <1>3, AccessAnswer
<1>6. v \in AccessValues(tracker) /\ word' = [word EXCEPT !.set = v] /\ reply' = [reply EXCEPT ![t] = a]
  BY <1>1, <1>4, UpdatedIs
<1> HIDE DEF a, v
<1>7. word' = [state |-> "uniform", set |-> v]
  BY <1>4, <1>6, WordPut
<1>8. word' \in Words(tracker) /\ word'.state = "uniform"
  BY <1>6, <1>7 DEF Words
<1>9. pc'[t] = "return" /\ reply'[t] # None
  <2>1. IsPut(reply', reply, t, a)
    BY <1>1, <1>6, Excepted, Zenon
  <2> QED
    BY <2>1, <1>1, <1>5 DEF IsPut
<1>10. AccessThread(t)'
  BY <1>1, <1>2, <1>9 DEF AccessThread, Users, AccessHolding, AccessAnswered, Lockless
<1>11. AccessMap'
  BY <1>1, <1>2, <1>8, OfParts DEF AccessMap
<1>12. \A u \in Threads : pc[u] \notin Under
  BY <1>2, UniformAlone
<1> QED
  BY <1>10, <1>11, <1>12, AccessKeeps

\* a swap of all subresources that share a word,
LEMMA SwapKeeps ==
    ASSUME AccessInv, NEW t \in Users, SwapAtOnce(t), OnlyThread(t), Remember
    PROVE  AccessInv'
<1>1. /\ pc[t] = "load" /\ IsSingle
      /\ word' = [word EXCEPT !.set = Updated(op[t], @)]
      /\ reply' = [reply EXCEPT ![t] = AnswerOf(t, Everywhere(word.set))]
      /\ pc' = [pc EXCEPT ![t] = "return"]
      /\ tracker' = tracker /\ store' = store /\ lock' = lock /\ op' = op
  BY DEF SwapAtOnce, Reply, Goto
<1>2. IsAccessTracker /\ AccessMap /\ op[t] # None
  BY <1>1, AccessFrom
<1>3. word.state = "uniform"
  BY <1>1, <1>2, OfParts DEF AccessMap, IsSingleIn
<1> QED
  BY <1>1, <1>2, <1>3, SetPut

\* or fails because the word has changed,
LEMMA ExchangeAccessKeeps ==
    ASSUME AccessInv, NEW t \in Users, ExchangeAccess(t), OnlyThread(t), Remember
    PROVE  AccessInv'
<1>1. /\ pc[t] = "exchange"
      /\ tracker' = tracker /\ store' = store /\ lock' = lock /\ op' = op
  BY DEF ExchangeAccess
<1>2. op[t] # None /\ op[t].do # "read" /\ local[t].state = "uniform"
  BY <1>1, AccessFrom DEF AccessThread
<1>3. CASE word = local[t]
  <2>1. /\ word' = [word EXCEPT !.set = Updated(op[t], @)]
        /\ reply' = [reply EXCEPT ![t] = AnswerOf(t, Everywhere(word.set))]
        /\ pc' = [pc EXCEPT ![t] = "return"]
    BY <1>3 DEF ExchangeAccess, Reply, Goto
  <2>2. word.state = "uniform"
    BY <1>2, <1>3
  <2> QED
    BY <2>1, <2>2, <1>1, <1>2, SetPut
<1>4. CASE word # local[t]
  <2>1. Decide(t, word) /\ word' = word
    BY <1>4 DEF ExchangeAccess
  <2> QED
    BY <2>1, <1>1, <1>2, DecideKeeps
<1> QED
  BY <1>3, <1>4

\* the two loads of a reader,
LEMMA LoadStateKeeps ==
    ASSUME AccessInv, NEW t \in Users, LoadState(t), OnlyThread(t), Remember
    PROVE  AccessInv'
<1>1. /\ pc[t] = "load" /\ op[t].do = "read"
      /\ pc' = [pc EXCEPT ![t] = IF word.state = "uniform" THEN "load_set" ELSE "lock"]
      /\ tracker' = tracker /\ word' = word /\ store' = store /\ lock' = lock /\ op' = op
      /\ reply' = reply
  BY DEF LoadState, Goto
<1>2. t \in Threads /\ AccessThread(t) /\ AccessMap /\ IsAccessTracker /\ pc \in [Threads -> AccessLabels]
  BY AccessFrom
<1>3. pc'[t] = IF word.state = "uniform" THEN "load_set" ELSE "lock"
  BY <1>1, <1>2
<1>4. IsSingleIn(tracker) => word.state = "uniform"
  BY <1>2, OfParts DEF AccessMap, IsSingleIn
<1>5. AccessThread(t)'
  BY <1>1, <1>2, <1>3, <1>4 DEF AccessThread, Users, AccessHolding, AccessAnswered, Lockless
<1> QED
  BY <1>1, <1>5, AccessQuiet DEF Under

\* the second of which finds the set, or that the map counts by now,
LEMMA LoadSetKeeps ==
    ASSUME AccessInv, NEW t \in Users, LoadSet(t), OnlyThread(t), Remember
    PROVE  AccessInv'
<1> DEFINE a == AnswerOf(t, Everywhere(word.set))
<1>1. /\ pc[t] = "load_set" /\ pc' = [pc EXCEPT ![t] = "return"] /\ reply' = [reply EXCEPT ![t] = a]
      /\ tracker' = tracker /\ word' = word /\ store' = store /\ lock' = lock /\ op' = op
  BY DEF LoadSet, Goto, Reply
<1>2. t \in Threads /\ AccessThread(t) /\ AccessMap /\ IsAccessTracker /\ pc \in [Threads -> AccessLabels]
      /\ IsFun(reply) /\ op[t] # None /\ op[t] \in tracker.ops[t]
  BY <1>1, AccessFrom
<1>3. a # None
  <2>1. tracker.of = "image"
    BY <1>1, <1>2 DEF AccessThread
  <2>2. word \in Words(tracker)
    BY <2>1, <1>2, OfParts DEF AccessMap
  <2>3. Everywhere(word.set) \in [Cells -> AccessValues(tracker)]
    BY <2>2, WordPut DEF Everywhere
  <2>4. op[t].ranges[1] \in RangesOf(tracker)
    BY <1>2, AccessOp
  <2> QED
    BY <2>3, <2>4, <1>2, AccessAnswer
<1> HIDE DEF a
<1>4. pc'[t] = "return" /\ reply'[t] # None
  <2>1. IsPut(reply', reply, t, a)
    BY <1>1, <1>2, Excepted, Zenon
  <2> QED
    BY <2>1, <1>1, <1>2, <1>3 DEF IsPut
<1>5. AccessThread(t)'
  BY <1>1, <1>2, <1>4 DEF AccessThread, Users, AccessHolding, AccessAnswered, Lockless
<1> QED
  BY <1>1, <1>5, AccessQuiet DEF Under

\* taking the lock,
LEMMA LockAccessKeeps ==
    ASSUME AccessInv, NEW t \in Users, Lock(t), OnlyThread(t), Remember
    PROVE  AccessInv'
<1>1. /\ pc[t] = "lock" /\ lock' = t /\ pc' = [pc EXCEPT ![t] = "locked"]
      /\ tracker' = tracker /\ word' = word /\ store' = store /\ op' = op /\ reply' = reply
  BY DEF Lock, Goto
<1>2. t \in Threads /\ AccessThread(t) /\ pc \in [Threads -> AccessLabels]
  BY AccessFrom
<1>3. pc'[t] = "locked"
  BY <1>1, <1>2
<1>4. AccessThread(t)'
  BY <1>1, <1>2, <1>3 DEF AccessThread, Users, AccessHolding, AccessAnswered, Lockless
<1> QED
  BY <1>1, <1>4, AccessQuiet DEF Under

\* What the holder of the lock finds before it has anything under way
LEMMA LockedFinds ==
    ASSUME AccessInv, NEW t \in Users, pc[t] \in AccessHolding \ Under
    PROVE  /\ \A u \in Threads : pc[u] \notin Under
           /\ tracker.of = "buffer" => IsRuns(store, AccessValues(tracker), SizeOf(tracker))
           /\ tracker.of = "image" =>
                /\ word \in Words(tracker) /\ word.state \in {"uniform", "dense"}
                /\ word.state = "dense" => IsDense(store, AccessValues(tracker), SizeOf(tracker))
<1>1. t \in Threads /\ AccessMap /\ IsAccessTracker
  BY AccessFrom
<1>2. \A u \in Threads : pc[u] \notin Under
  BY <1>1, OneAccess
<1>3. Nobody("pieces") /\ Nobody("capture") /\ Nobody("set_dense")
  BY <1>2 DEF Nobody, Under
<1>4. tracker.of = "buffer" => IsRuns(store, AccessValues(tracker), SizeOf(tracker))
  BY <1>1, <1>3 DEF AccessMap
<1>5. ASSUME tracker.of = "image"
      PROVE  /\ word \in Words(tracker) /\ word.state \in {"uniform", "dense"}
             /\ word.state = "dense" => IsDense(store, AccessValues(tracker), SizeOf(tracker))
  <2>1. /\ word \in Words(tracker) /\ word.state # "promoting"
        /\ word.state = "dense" => IsDense(store, AccessValues(tracker), SizeOf(tracker))
    BY <1>1, <1>3, <1>5, OfParts DEF AccessMap
  <2> QED
    BY <2>1, WordPut
<1> QED
  BY <1>2, <1>4, <1>5

\* a reader under the lock,
LEMMA ReadAccessKeeps ==
    ASSUME AccessInv, NEW t \in Users, ReadAccessLocked(t), OnlyThread(t), Remember
    PROVE  AccessInv'
<1> DEFINE m == IF ~IsBuffer /\ word.state = "uniform" THEN Everywhere(word.set)
                ELSE [c \in Cells |-> StoredAt(c)]
           a == AnswerOf(t, m)
<1>1. /\ pc[t] = "locked" /\ reply' = [reply EXCEPT ![t] = a] /\ pc' = [pc EXCEPT ![t] = "unlock"]
      /\ tracker' = tracker /\ word' = word /\ store' = store /\ lock' = lock /\ op' = op
  BY DEF ReadAccessLocked, Goto, Reply
<1>2. t \in Threads /\ AccessThread(t) /\ AccessMap /\ IsAccessTracker /\ pc \in [Threads -> AccessLabels]
      /\ IsFun(reply) /\ op[t] # None /\ op[t] \in tracker.ops[t]
  BY <1>1, AccessFrom
<1>3. m \in [Cells -> AccessValues(tracker)]
  <2>1. pc[t] \in AccessHolding \ Under
    BY <1>1 DEF AccessHolding, Under
  <2>2. SizeOf(tracker) \in Nat /\ Cells = 0..SizeOf(tracker) - 1
    BY <1>2, OfParts, Terms
  <2>3. CASE IsBuffer
    <3>1. IsOrdered(store, AccessValues(tracker), SizeOf(tracker))
      BY <2>1, <2>3, <1>2, LockedFinds, OfParts DEF IsRuns
    <3>2. \A c \in Cells : RunValueAt(store, c) \in AccessValues(tracker)
      BY <3>1, <2>2, RunsHave
    <3> QED
      BY <3>2, <2>3 DEF StoredAt
  <2>4. CASE ~IsBuffer /\ word.state = "uniform"
    <3>1. word \in Words(tracker)
      BY <2>1, <2>4, <1>2, LockedFinds, OfParts
    <3>2. word.set \in AccessValues(tracker)
      BY <3>1, WordPut
    <3> QED
      BY <3>2, <2>4 DEF Everywhere
  <2>5. CASE ~IsBuffer /\ word.state # "uniform"
    <3>1. IsDense(store, AccessValues(tracker), SizeOf(tracker))
      BY <2>1, <2>5, <1>2, LockedFinds, OfParts
    <3>2. \A c \in Cells : ValueAt(store, c) \in AccessValues(tracker)
      BY <3>1, <2>2, DenseHas
    <3> QED
      BY <3>2, <2>5 DEF StoredAt
  <2> QED
    BY <2>3, <2>4, <2>5
<1> HIDE DEF m
<1>4. a # None
  <2>1. op[t].ranges[1] \in RangesOf(tracker)
    BY <1>2, AccessOp
  <2> QED
    BY <2>1, <1>2, <1>3, AccessAnswer
<1> HIDE DEF a
<1>5. pc'[t] = "unlock" /\ reply'[t] # None
  <2>1. IsPut(reply', reply, t, a)
    BY <1>1, <1>2, Excepted, Zenon
  <2> QED
    BY <2>1, <1>1, <1>2, <1>4 DEF IsPut
<1>6. AccessThread(t)'
  BY <1>1, <1>2, <1>5 DEF AccessThread, Users, AccessHolding, AccessAnswered, Lockless
<1> QED
  BY <1>1, <1>6, AccessQuiet DEF Under

\* marking a promotion,
LEMMA SetPromotingKeeps ==
    ASSUME AccessInv, NEW t \in Users, SetPromoting(t), OnlyThread(t), Remember
    PROVE  AccessInv'
<1>1. /\ pc[t] = "locked" /\ op[t].do # "read" /\ ~MapCounts
      /\ word' = [word EXCEPT !.state = "promoting"] /\ pc' = [pc EXCEPT ![t] = "capture"]
      /\ tracker' = tracker /\ store' = store /\ lock' = lock /\ op' = op /\ reply' = reply
  BY DEF SetPromoting, Goto
<1>2. t \in Threads /\ AccessThread(t) /\ AccessMap /\ IsAccessTracker /\ pc \in [Threads -> AccessLabels]
  BY AccessFrom
<1>3. tracker.of = "image"
  BY <1>1, <1>2, OfParts DEF MapCounts
<1>4. word \in Words(tracker) /\ \A u \in Threads : pc[u] \notin Under
  BY <1>1, <1>3, LockedFinds DEF AccessHolding, Under
<1>5. word' \in Words(tracker) /\ word'.state = "promoting"
  <2>1. word.set \in AccessValues(tracker)
    BY <1>4, WordPut
  <2>2. [word EXCEPT !.state = "promoting"] = [state |-> "promoting", set |-> word.set]
    BY <1>4 DEF Words
  <2> QED
    BY <2>1, <2>2, <1>1 DEF Words
<1>6. pc'[t] = "capture"
  BY <1>1, <1>2
<1>7. ~IsSingleIn(tracker)
  BY <1>1, <1>2 DEF AccessThread, Lockless
<1>8. AccessMap'
  <2>1. ~Nobody("capture")'
    BY <1>2, <1>6 DEF Nobody
  <2> QED
    BY <2>1, <1>1, <1>2, <1>3, <1>5, <1>7, OfParts DEF AccessMap
<1>9. AccessThread(t)'
  BY <1>1, <1>2, <1>3, <1>5, <1>6, <1>7 DEF AccessThread, Users, AccessHolding, AccessAnswered
<1> QED
  BY <1>4, <1>8, <1>9, AccessKeeps

\* capturing the set in a map,
LEMMA CaptureKeeps ==
    ASSUME AccessInv, NEW t \in Users, Capture(t), OnlyThread(t), Remember
    PROVE  AccessInv'
<1>1. /\ pc[t] = "capture" /\ store' = DenseOf(word.set) /\ pc' = [pc EXCEPT ![t] = "set_dense"]
      /\ tracker' = tracker /\ word' = word /\ lock' = lock /\ op' = op /\ reply' = reply
  BY DEF Capture, Goto
<1>2. t \in Threads /\ AccessThread(t) /\ AccessMap /\ IsAccessTracker /\ pc \in [Threads -> AccessLabels]
  BY AccessFrom
<1>3. /\ tracker.of = "image" /\ word.state = "promoting" /\ op[t].do # "read" /\ ~IsSingleIn(tracker)
  BY <1>1, <1>2 DEF AccessThread, Lockless
<1>4. word \in Words(tracker) /\ word.set \in AccessValues(tracker)
  <2>1. word \in Words(tracker)
    BY <1>2, <1>3, OfParts DEF AccessMap
  <2> QED
    BY <2>1, WordPut
<1>5. pc'[t] = "set_dense"
  BY <1>1, <1>2
<1>6. IsDense(store', AccessValues(tracker), SizeOf(tracker))
  BY <1>1, <1>4, UniformDense
<1>7. AccessMap'
  <2>1. ~Nobody("set_dense")'
    BY <1>2, <1>5 DEF Nobody
  <2> QED
    BY <2>1, <1>1, <1>2, <1>3, <1>4, <1>6, OfParts DEF AccessMap
<1>8. AccessThread(t)'
  BY <1>1, <1>2, <1>3, <1>5 DEF AccessThread, Users, AccessHolding, AccessAnswered
<1>9. \A u \in Threads : u # t => pc[u] \notin Under
  BY <1>1, <1>2, OneAccess DEF AccessHolding
<1> QED
  BY <1>7, <1>8, <1>9, AccessKeeps

\* What an iterator has given before its first item: nothing.
LEMMA FirstRectangle ==
    ASSUME IsAccessTracker, tracker.of = "image", NEW range \in RangesOf(tracker),
           NEW w, w.state = "dense",
           NEW s, IsDense(s, AccessValues(tracker), SizeOf(tracker))
    PROVE  Items(tracker, range, DenseCursor, <<>>, w, s)
<1>1. IsRange(tracker.shape, range) /\ CellCount(tracker.shape) = SizeOf(tracker)
  BY ImageRange
<1>2. DenseCursorAt(range, DenseCursor) /\ Passed(tracker.shape, range, DenseCursor) = {}
  BY <1>1, CursorEnds
<1>3. DenseAt(s, AccessValues(tracker), tracker.shape, range, DenseCursor)
  BY <1>1, <1>2 DEF DenseAt
<1>4. <<>> \in [Passed(tracker.shape, range, DenseCursor) -> AccessValues(tracker)]
  BY <1>2, EmptyAnswer
<1>5. RectangleItems(tracker, range, DenseCursor, <<>>, w, s)
  BY <1>3, <1>4 DEF RectangleItems
<1> QED
  BY <1>5, OfParts DEF Items

\* The cursor of a buffer begins with the runs as they are.
LEMMA FirstRun ==
    ASSUME IsAccessTracker, tracker.of = "buffer", NEW range \in RangesOf(tracker), NEW w,
           NEW s, IsRuns(s, AccessValues(tracker), SizeOf(tracker))
    PROVE  Items(tracker, range, Cursor(s, range), <<>>, w, s)
<1> DEFINE cur == Cursor(s, range)
<1>1. /\ range[1] \in Nat /\ range[2] \in Nat /\ range[1] < range[2] /\ range[2] <= SizeOf(tracker)
      /\ SizeOf(tracker) \in Nat
  BY RangeIs, OfParts, Terms DEF IsAccessTracker
<1>2. /\ CursorAt(s, AccessValues(tracker), SizeOf(tracker), cur)
      /\ cur.from = range[1] /\ cur.to = range[2]
  BY <1>1, CursorBegins
<1> SUFFICES Items(tracker, range, cur, <<>>, w, s)
  OBVIOUS
<1> HIDE DEF cur
<1>3. range[1]..cur.from - 1 = {}
  BY <1>1, <1>2
<1>4. <<>> \in [range[1]..cur.from - 1 -> AccessValues(tracker)]
  BY <1>3, EmptyAnswer
<1>5. cur \in [read : Nat, write : Nat, from : Nat, to : Nat]
  BY <1>2 DEF CursorAt
<1>6. RunItems(tracker, range, cur, <<>>, s)
  BY <1>1, <1>2, <1>4, <1>5 DEF RunItems
<1> QED
  BY <1>6 DEF Items

\* An iterator begins.
LEMMA IteratorBegins ==
    ASSUME AccessInv, NEW t \in Users, OnlyThread(t), Remember, op[t].do # "read",
           pc[t] \in {"locked", "set_dense"}, pc' = [pc EXCEPT ![t] = "pieces"],
           reply' = [reply EXCEPT ![t] = <<>>],
           local' = [local EXCEPT ![t] = NewCursor(op[t])],
           tracker' = tracker, store' = store, lock' = lock, op' = op,
           IF tracker.of = "buffer" THEN word' = word /\ IsRuns(store, AccessValues(tracker), SizeOf(tracker))
           ELSE /\ word' \in Words(tracker) /\ word'.state = "dense"
                /\ IsDense(store, AccessValues(tracker), SizeOf(tracker))
    PROVE  AccessInv'
<1>1. t \in Threads /\ AccessThread(t) /\ AccessMap /\ IsAccessTracker /\ pc \in [Threads -> AccessLabels]
      /\ IsFun(local) /\ IsFun(reply) /\ op[t] # None /\ op[t] \in tracker.ops[t]
  <2>1. pc[t] # "idle"
    OBVIOUS
  <2> QED
    BY <2>1, AccessFrom
<1>2. op[t].ranges[1] \in RangesOf(tracker)
  BY <1>1, AccessOp
<1>3. pc'[t] = "pieces" /\ reply'[t] = <<>> /\ local'[t] = NewCursor(op[t])
  <2> DEFINE c == NewCursor(op[t])  e == <<>>
  <2>1. reply' = [reply EXCEPT ![t] = e] /\ local' = [local EXCEPT ![t] = c]
    OBVIOUS
  <2> SUFFICES pc'[t] = "pieces" /\ reply'[t] = e /\ local'[t] = c
    OBVIOUS
  <2> HIDE DEF c, e
  <2>2. IsPut(local', local, t, c)
    BY <2>1, <1>1, Excepted, Zenon
  <2>3. IsPut(reply', reply, t, e)
    BY <2>1, <1>1, Excepted, Zenon
  <2>4. pc'[t] = "pieces"
    BY <1>1
  <2> QED
    BY <2>2, <2>3, <2>4 DEF IsPut
<1>4. ~IsSingleIn(tracker)
  BY <1>1 DEF AccessThread, Lockless
<1>5. Items(tracker, op[t].ranges[1], local'[t], <<>>, word', store)
  <2>1. CASE tracker.of = "buffer"
    <3>1. local'[t] = Cursor(store, op[t].ranges[1])
      BY <2>1, <1>3 DEF NewCursor, IsBuffer
    <3>2. IsRuns(store, AccessValues(tracker), SizeOf(tracker))
      BY <2>1
    <3> QED
      BY <2>1, <3>1, <3>2, <1>1, <1>2, FirstRun
  <2>2. CASE tracker.of = "image"
    <3>1. local'[t] = DenseCursor
      BY <2>2, <1>1, <1>3, OfParts DEF NewCursor
    <3>2. word'.state = "dense" /\ IsDense(store, AccessValues(tracker), SizeOf(tracker))
      BY <2>2, <1>1, OfParts
    <3> QED
      BY <2>2, <3>1, <3>2, <1>1, <1>2, FirstRectangle
  <2> QED
    BY <2>1, <2>2, <1>1, OfParts
<1>6. ~Nobody("pieces")'
  BY <1>1, <1>3 DEF Nobody
<1>7. AccessMap'
  <2>1. CASE tracker.of = "buffer"
    BY <2>1, <1>1, <1>6 DEF AccessMap
  <2>2. CASE tracker.of # "buffer"
    BY <2>2, <1>1, <1>4, <1>6 DEF AccessMap
  <2> QED
    BY <2>1, <2>2
<1>8. AccessThread(t)'
  <2>1. <<>> # None
    BY NoneAssumption
  <2> QED
    BY <2>1, <1>1, <1>3, <1>4, <1>5 DEF AccessThread, Users, AccessHolding, AccessAnswered
<1>9. \A u \in Threads : u # t => pc[u] \notin Under
  BY <1>1, OneAccess DEF AccessHolding
<1> QED
  BY <1>7, <1>8, <1>9, AccessKeeps

\* storing that the map counts,
LEMMA SetDenseKeeps ==
    ASSUME AccessInv, NEW t \in Users, SetDense(t), OnlyThread(t), Remember
    PROVE  AccessInv'
<1>1. /\ pc[t] = "set_dense" /\ word' = [word EXCEPT !.state = "dense"]
      /\ local' = [local EXCEPT ![t] = NewCursor(op[t])]
      /\ reply' = [reply EXCEPT ![t] = <<>>] /\ pc' = [pc EXCEPT ![t] = "pieces"]
      /\ tracker' = tracker /\ store' = store /\ lock' = lock /\ op' = op
  BY DEF SetDense, Goto, Reply
<1>2. t \in Threads /\ AccessThread(t) /\ AccessMap /\ IsAccessTracker
  BY AccessFrom
<1>3. tracker.of = "image" /\ tracker.of # "buffer" /\ store = DenseOf(word.set) /\ op[t].do # "read"
  BY <1>1, <1>2, OfParts DEF AccessThread
<1>4. word \in Words(tracker)
  BY <1>2, <1>3 DEF AccessMap
<1>5. /\ word' = [state |-> "dense", set |-> word.set]
      /\ word.set \in AccessValues(tracker)
  <2>1. [word EXCEPT !.state = "dense"] = [state |-> "dense", set |-> word.set]
    BY <1>4 DEF Words
  <2>2. word.set \in AccessValues(tracker)
    BY <1>4, WordPut
  <2> QED
    BY <2>1, <2>2, <1>1
<1>6. word' \in Words(tracker) /\ word'.state = "dense"
  BY <1>5 DEF Words
<1>7. IsDense(store, AccessValues(tracker), SizeOf(tracker))
  BY <1>3, <1>5, UniformDense
<1> QED
  BY <1>1, <1>3, <1>6, <1>7, IteratorBegins

\* or finding that it counts already,
LEMMA FindDenseKeeps ==
    ASSUME AccessInv, NEW t \in Users, FindDense(t), OnlyThread(t), Remember
    PROVE  AccessInv'
<1>1. /\ pc[t] = "locked" /\ op[t].do # "read" /\ MapCounts /\ word' = word
      /\ local' = [local EXCEPT ![t] = NewCursor(op[t])]
      /\ reply' = [reply EXCEPT ![t] = <<>>] /\ pc' = [pc EXCEPT ![t] = "pieces"]
      /\ tracker' = tracker /\ store' = store /\ lock' = lock /\ op' = op
  BY DEF FindDense, Goto, Reply
<1>2. IsAccessTracker
  BY AccessFrom
<1>3. pc[t] \in AccessHolding \ Under
  BY <1>1 DEF AccessHolding, Under
<1>4. tracker.of = "buffer" => IsRuns(store, AccessValues(tracker), SizeOf(tracker))
  BY <1>3, LockedFinds
<1>5. tracker.of # "buffer" => /\ word \in Words(tracker) /\ word.state = "dense"
                               /\ IsDense(store, AccessValues(tracker), SizeOf(tracker))
  BY <1>1, <1>2, <1>3, LockedFinds, OfParts DEF MapCounts
<1> QED
  BY <1>1, <1>4, <1>5, IteratorBegins

\* An answer that grows by one value in some cells
GrownBy(g, f, S, T, v, V) ==
    /\ DOMAIN g = S \cup T
    /\ \A c \in S \cup T : g[c] = IF c \in S THEN f[c] ELSE v
    /\ v \in V => g \in [S \cup T -> V]

\* It is an answer that has those cells as well.
LEMMA Grown ==
    ASSUME NEW f, NEW S, NEW V, f \in [S -> V], NEW T, T \subseteq Cells, NEW v
    PROVE  GrownBy(Extended(f, T, Everywhere(v)), f, S, T, v, V)
<1> DEFINE h == Everywhere(v)  g == [x \in S \cup T |-> IF x \in S THEN f[x] ELSE h[x]]
<1>1. DOMAIN f = S /\ \A c \in T : h[c] = v
  BY DEF Everywhere
<1> HIDE DEF h
<1>2. Extended(f, T, h) = g
  BY <1>1 DEF Extended
<1>3. GrownBy(g, f, S, T, v, V)
  BY <1>1 DEF GrownBy
<1> HIDE DEF g
<1>4. GrownBy(Extended(f, T, h), f, S, T, v, V)
  BY <1>2, <1>3
<1> QED
  BY <1>4 DEF h

\* What an item of an iterator over runs is
RunTaken(t, cur, new, p) ==
    LET V == AccessValues(tracker)
        range == op[t].ranges[1]
    IN  /\ cur = local[t] /\ op[t] \in tracker.ops[t] /\ op[t] # None
        /\ range \in RangesOf(tracker) /\ range[1] \in Nat /\ range[2] \in Nat
        /\ range[1] <= cur.from /\ cur.to = range[2]
        /\ reply[t] \in [range[1]..cur.from - 1 -> V]
        /\ CursorAt(store, V, SizeOf(tracker), cur)
        /\ new = Updated(op[t], Value(store, cur.read)) /\ new \in V /\ Value(store, cur.read) \in V
        /\ PieceDone(store, V, SizeOf(tracker), cur, new, p)
        /\ store' = p.map /\ local'[t] = p.cursor
        /\ reply'[t] = Extended(reply[t], cur.from..p.cursor.from - 1, Everywhere(p.value))

\* The cursor of an iterator over runs stands in one.
LEMMA RunOfCursor ==
    ASSUME NEW V, NEW size \in Nat, NEW s, NEW cur, CursorAt(s, V, size, cur)
    PROVE  Value(s, cur.read) \in V
<1>1. s \in Seq(V \X Nat) /\ cur.read \in 1..Len(s)
  BY DEF CursorAt, At
<1>2. s[cur.read] \in V \X Nat
  BY <1>1
<1> QED
  BY <1>2 DEF Value

\* NextRun takes such an item.
LEMMA NextRunIs ==
    ASSUME AccessInv, NEW t \in Users, NextRun(t)
    PROVE  \E cur, new, p : RunTaken(t, cur, new, p)
<1> DEFINE cur == local[t]  V == AccessValues(tracker)  size == SizeOf(tracker)
           range == op[t].ranges[1]
           new == Updated(op[t], Value(store, cur.read))
           p == CursorNext(store, size, cur, new)
<1>1. /\ pc[t] = "pieces" /\ IsBuffer /\ ~Exhausted(t) /\ Size = size
      /\ store' = p.map /\ local' = [local EXCEPT ![t] = p.cursor]
      /\ reply' = [reply EXCEPT ![t] = Extended(reply[t], CellsOf(p.range), Everywhere(p.value))]
  BY DEF NextRun, Yield, Reply, Size
<1>2. t \in Threads /\ AccessThread(t) /\ IsAccessTracker /\ IsFun(local) /\ IsFun(reply)
      /\ op[t] # None /\ op[t] \in tracker.ops[t]
  BY <1>1, AccessFrom
<1>3. range \in RangesOf(tracker)
  BY <1>2, AccessOp
<1>4. range[1] \in Nat /\ range[2] \in Nat /\ size \in Nat
  BY <1>1, <1>2, <1>3, RangeIs, OfParts DEF IsAccessTracker
<1>5. RunItems(tracker, range, cur, reply[t], store)
  BY <1>1, <1>2 DEF AccessThread, Items, IsBuffer
<1>6. cur.from # cur.to
  BY <1>1 DEF Exhausted, CursorDone
<1>7. /\ CursorAt(store, V, size, cur) /\ range[1] <= cur.from /\ cur.to = range[2]
      /\ reply[t] \in [range[1]..cur.from - 1 -> V]
  BY <1>5, <1>6 DEF RunItems
<1>8. Value(store, cur.read) \in V
  <2> HIDE DEF cur, V, size
  <2> QED
    BY <1>4, <1>7, RunOfCursor
<1>9. new \in V
  BY <1>2, <1>8, UpdatedIs
<1>10. PieceDone(store, V, size, cur, new, p)
  <2> HIDE DEF cur, V, new
  <2> QED
    BY <1>4, <1>7, <1>9, NextPiece
<1>11. CellsOf(p.range) = cur.from..p.cursor.from - 1
  <2>1. p.range = <<cur.from, p.cursor.from>>
    BY <1>10 DEF PieceDone
  <2> HIDE DEF p, cur
  <2> QED
    BY <2>1, <1>1 DEF CellsOf
<1> DEFINE c2 == p.cursor  r2 == Extended(reply[t], cur.from..p.cursor.from - 1, Everywhere(p.value))
<1>12. local'[t] = c2
  <2>1. local' = [local EXCEPT ![t] = c2]
    BY <1>1
  <2> HIDE DEF c2
  <2>2. IsPut(local', local, t, c2)
    BY <2>1, <1>2, Excepted, Zenon
  <2> QED
    BY <2>2 DEF IsPut
<1>13. reply'[t] = r2
  <2>1. reply' = [reply EXCEPT ![t] = r2]
    BY <1>1, <1>11
  <2> HIDE DEF r2
  <2>2. IsPut(reply', reply, t, r2)
    BY <2>1, <1>2, Excepted, Zenon
  <2> QED
    BY <2>2 DEF IsPut
<1>14. RunTaken(t, cur, new, p)
  <2>1. cur = local[t] /\ new = Updated(op[t], Value(store, cur.read)) /\ store' = p.map
    BY <1>1
  <2>2. local'[t] = p.cursor /\ reply'[t] = Extended(reply[t], cur.from..p.cursor.from - 1, Everywhere(p.value))
    BY <1>12, <1>13
  <2> HIDE DEF cur, new, p, c2, r2
  <2> QED
    BY <2>1, <2>2, <1>2, <1>3, <1>4, <1>7, <1>8, <1>9, <1>10 DEF RunTaken
<1> HIDE DEF cur, new, p
<1> QED
  BY <1>14

\* an item of a map of runs,
LEMMA NextRunKeeps ==
    ASSUME AccessInv, NEW t \in Users, NextRun(t), OnlyThread(t), Remember
    PROVE  AccessInv'
<1> DEFINE V == AccessValues(tracker)  size == SizeOf(tracker)  range == op[t].ranges[1]
<1>1. PICK cur, new, p : RunTaken(t, cur, new, p)
  BY NextRunIs
<1>2. /\ pc[t] = "pieces" /\ IsBuffer /\ tracker' = tracker /\ word' = word /\ lock' = lock
      /\ pc' = pc /\ op' = op
  BY DEF NextRun
<1>3. t \in Threads /\ AccessThread(t) /\ AccessMap /\ IsAccessTracker
  BY AccessFrom
<1> DEFINE from == cur.from  end == p.cursor.from  first == range[1]
<1>4. /\ first \in Nat /\ from \in Nat /\ end \in Nat /\ first <= from /\ from < end /\ end <= cur.to
      /\ p.value \in V /\ cur.to = range[2] /\ p.cursor.to = cur.to
      /\ p.cursor \in [read : Nat, write : Nat, from : Nat, to : Nat]
      /\ reply[t] \in [first..from - 1 -> V]
      /\ reply'[t] = Extended(reply[t], from..end - 1, Everywhere(p.value))
      /\ local'[t] = p.cursor /\ store' = p.map
  <2>1. PieceDone(store, V, size, cur, new, p)
    BY <1>1 DEF RunTaken
  <2>2. /\ p.cursor \in [read : Nat, write : Nat, from : Nat, to : Nat]
        /\ cur.from < p.cursor.from /\ p.cursor.from <= cur.to /\ p.cursor.to = cur.to
        /\ p.value = Value(store, cur.read)
    BY <2>1 DEF PieceDone
  <2>3. CursorAt(store, V, size, cur)
    BY <1>1 DEF RunTaken
  <2>4. cur.from \in Nat
    BY <2>3 DEF CursorAt
  <2>5. p.cursor.from \in Nat
    BY <2>2
  <2> QED
    BY <2>2, <2>4, <2>5, <1>1 DEF RunTaken
<1>14. first..end - 1 \subseteq 0..size - 1 /\ from..end - 1 \subseteq Cells
  <2>1. range[2] <= size /\ size \in Nat /\ range[2] \in Nat /\ Cells = 0..size - 1
    BY <1>1, <1>2, <1>3, RangeIs, OfParts, Terms DEF IsAccessTracker, RunTaken
  <2> DEFINE last == cur.to
  <2>2. /\ first \in Nat /\ from \in Nat /\ end \in Nat /\ first <= from /\ from < end
        /\ end <= last /\ last <= size /\ last \in Nat
    BY <2>1, <1>4
  <2> HIDE DEF size, first, from, end, last
  <2> QED
    BY <2>1, <2>2
<1>5. reply'[t] \in [first..end - 1 -> V]
  <2> HIDE DEF first, from, end, V
  <2>1. Extended(reply[t], from..end - 1, Everywhere(p.value)) \in [(first..from - 1) \cup (from..end - 1) -> V]
    <3>1. GrownBy(Extended(reply[t], from..end - 1, Everywhere(p.value)), reply[t], first..from - 1, from..end - 1, p.value, V)
      BY <1>4, <1>14, Grown
    <3> QED
      BY <3>1, <1>4 DEF GrownBy
  <2>2. (first..from - 1) \cup (from..end - 1) = first..end - 1
    BY <1>4
  <2> QED
    BY <2>1, <2>2, <1>4
<1>6. p.cursor.from = p.cursor.to => IsRuns(store', V, size)
  BY <1>1, <1>4 DEF RunTaken, PieceDone, Assigns
<1>7. p.cursor.from # p.cursor.to => CursorAt(store', V, size, p.cursor)
  BY <1>1, <1>4 DEF RunTaken, PieceDone
<1>8. RunItems(tracker, range, p.cursor, reply'[t], store')
  <2> HIDE DEF V, size
  <2>1. range[1] <= p.cursor.from /\ p.cursor.from <= p.cursor.to /\ p.cursor.to = range[2]
    BY <1>4
  <2> QED
    BY <2>1, <1>4, <1>5, <1>6, <1>7 DEF RunItems, V, size
<1>9. Items(tracker, range, local'[t], reply'[t], word', store')
  BY <1>2, <1>4, <1>8 DEF Items, IsBuffer
<1>10. reply'[t] # None
  <2>1. reply'[t] \in [first..end - 1 -> V]
    BY <1>5
  <2>2. first..end - 1 \subseteq 0..size - 1
    BY <1>14
  <2> DEFINE cells == first..end - 1
  <2>3. cells \in SUBSET (0..SizeOf(tracker) - 1) /\ reply'[t] \in [cells -> V]
    BY <2>1, <2>2
  <2> HIDE DEF cells
  <2> QED
    BY <2>3, <1>3, AnswerIsOne
<1>11. AccessThread(t)'
  BY <1>2, <1>3, <1>9, <1>10 DEF AccessThread, Users, AccessHolding, AccessAnswered
<1>12. AccessMap'
  <2>1. ~Nobody("pieces")'
    BY <1>2, <1>3 DEF Nobody
  <2> QED
    BY <2>1, <1>2, <1>3 DEF AccessMap, IsBuffer
<1>13. \A u \in Threads : u # t => pc[u] \notin Under
  BY <1>2, <1>3, OneAccess DEF AccessHolding
<1> QED
  BY <1>11, <1>12, <1>13, AccessKeeps

\* What an item of an iterator over subresources is
RectangleTaken(t, piece, old, value) ==
    LET V == AccessValues(tracker)
        range == op[t].ranges[1]
        shape == tracker.shape
    IN  /\ op[t] \in tracker.ops[t] /\ op[t] # None /\ range \in RangesOf(tracker)
        /\ IsRange(shape, range) /\ CellCount(shape) = SizeOf(tracker) /\ word.state = "dense"
        /\ DenseAt(store, V, shape, range, local[t])
        /\ reply[t] \in [Passed(shape, range, local[t]) -> V]
        /\ old = PieceValue(store, shape, piece) /\ value = Updated(op[t], old)
        /\ old \in V /\ value \in V
        /\ RectangleDone(store, store', V, shape, range, local[t], local'[t], piece, value)
        /\ reply'[t] = Extended(reply[t], IndicesOf(shape, piece), Everywhere(old))

\* NextRectangle takes such an item.
LEMMA NextRectangleIs ==
    ASSUME AccessInv, NEW t \in Users, NextRectangle(t)
    PROVE  \E piece, old, value : RectangleTaken(t, piece, old, value)
<1> DEFINE cur == local[t]  V == AccessValues(tracker)  range == op[t].ranges[1]
           shape == tracker.shape
           piece == DensePiece(store, shape, range, cur)
           old == PieceValue(store, shape, piece)
           value == Updated(op[t], old)
           next == PieceCursor(store, range, cur, piece)
           answer == Extended(reply[t], CellsOf(piece), Everywhere(old))
<1>1. /\ pc[t] = "pieces" /\ ~IsBuffer /\ ~Exhausted(t)
      /\ store' = PieceMap(store, shape, cur, piece, value)
      /\ local' = [local EXCEPT ![t] = next]
      /\ reply' = [reply EXCEPT ![t] = answer]
  <2>1. /\ pc[t] = "pieces" /\ ~IsBuffer /\ ~Exhausted(t)
        /\ store' = PieceMap(store, shape, cur, piece, Updated(op[t], old))
        /\ local' = [local EXCEPT ![t] = PieceCursor(store, range, @, piece)]
        /\ reply' = [reply EXCEPT ![t] = Extended(reply[t], CellsOf(piece), Everywhere(old))]
    BY DEF NextRectangle, Yield, Reply
  <2> HIDE DEF piece, old
  <2> QED
    BY <2>1
<1>2. t \in Threads /\ AccessThread(t) /\ IsAccessTracker /\ IsFun(local) /\ IsFun(reply)
      /\ op[t] # None /\ op[t] \in tracker.ops[t]
  BY <1>1, AccessFrom
<1>3. range \in RangesOf(tracker)
  BY <1>2, AccessOp
<1>4. tracker.of = "image"
  BY <1>1, <1>2, OfParts
<1>5. RectangleItems(tracker, range, cur, reply[t], word, store)
  BY <1>1, <1>2, <1>4, OfParts DEF AccessThread, Items
<1>6. /\ word.state = "dense" /\ DenseAt(store, V, shape, range, cur)
      /\ reply[t] \in [Passed(shape, range, cur) -> V]
  BY <1>5 DEF RectangleItems
<1>7. IsRange(shape, range) /\ CellCount(shape) = SizeOf(tracker)
  BY <1>2, <1>3, <1>4, ImageRange
<1>8. DenseCursorAt(range, cur)
  <2>1. ~DenseCursorDone(cur, range)
    BY <1>1 DEF Exhausted
  <2>2. DenseCursorAt(range, cur) \/ DenseCursorEnd(range, cur)
    BY <1>6 DEF DenseAt
  <2> QED
    BY <2>1, <2>2, <1>7, CursorEnds
<1>9. \A v \in V : RectangleDone(store, PieceMap(store, shape, cur, piece, v), V, shape, range, cur, next, piece, v)
  <2> TAKE v \in V
  <2> DEFINE p == piece
  <2>1. p = DensePiece(store, shape, range, cur) /\ next = PieceCursor(store, range, cur, p)
    OBVIOUS
  <2> SUFFICES RectangleDone(store, PieceMap(store, shape, cur, p, v), V, shape, range, cur, next, p, v)
    OBVIOUS
  <2> HIDE DEF p, next, cur, V, shape, range
  <2>2. RectangleDone(store, PieceMap(store, shape, cur, p, v), V, shape, range, cur,
                      PieceCursor(store, range, cur, p), p, v)
    BY <2>1, <1>6, <1>7, <1>8, NextPieceOfImage
  <2> QED
    BY <2>1, <2>2
<1>10. old \in V
  <2>1. Nothing \in V
    BY <1>2, NothingIs
  <2> HIDE DEF next, cur, V, shape, range, piece
  <2>2. RectangleDone(store, PieceMap(store, shape, cur, piece, Nothing), V, shape, range, cur, next, piece, Nothing)
    BY <2>1, <1>9
  <2> QED
    BY <2>2 DEF RectangleDone
<1>11. value \in V
  <2> HIDE DEF old
  <2> QED
    BY <1>2, <1>10, UpdatedIs
<1>12. local'[t] = next
  <2>1. local' = [local EXCEPT ![t] = next]
    BY <1>1
  <2> HIDE DEF next
  <2>2. IsPut(local', local, t, next)
    BY <2>1, <1>2, Excepted, Zenon
  <2> QED
    BY <2>2 DEF IsPut
<1>13. reply'[t] = Extended(reply[t], IndicesOf(shape, piece), Everywhere(old))
  <2>1. reply' = [reply EXCEPT ![t] = answer]
    BY <1>1
  <2>2. answer = Extended(reply[t], IndicesOf(shape, piece), Everywhere(old))
    BY <1>1 DEF CellsOf
  <2> HIDE DEF answer
  <2>3. IsPut(reply', reply, t, answer)
    BY <2>1, <1>2, Excepted, Zenon
  <2>4. reply'[t] = answer
    BY <2>3 DEF IsPut
  <2> HIDE DEF piece, old
  <2> QED
    BY <2>2, <2>4
<1>14. RectangleTaken(t, piece, old, value)
  <2>1. old = PieceValue(store, shape, piece) /\ value = Updated(op[t], old)
    OBVIOUS
  <2>2. RectangleDone(store, store', V, shape, range, cur, local'[t], piece, value)
    <3>1. store' = PieceMap(store, shape, cur, piece, value)
      BY <1>1
    <3> HIDE DEF next, value, piece
    <3> QED
      BY <3>1, <1>9, <1>11, <1>12
  <2> HIDE DEF piece, old, value
  <2> QED
    BY <2>1, <2>2, <1>2, <1>3, <1>6, <1>7, <1>10, <1>11, <1>13 DEF RectangleTaken
<1> HIDE DEF piece, old, value
<1> QED
  BY <1>14

\* and one of a map of subresources,
LEMMA NextRectangleKeeps ==
    ASSUME AccessInv, NEW t \in Users, NextRectangle(t), OnlyThread(t), Remember
    PROVE  AccessInv'
<1> DEFINE V == AccessValues(tracker)  range == op[t].ranges[1]  shape == tracker.shape
           passed == Passed(shape, range, local[t])
           next == Passed(shape, range, local'[t])
<1>1. PICK piece, old, value : RectangleTaken(t, piece, old, value)
  BY NextRectangleIs
<1>2. /\ pc[t] = "pieces" /\ ~IsBuffer /\ tracker' = tracker /\ word' = word /\ lock' = lock
      /\ pc' = pc /\ op' = op
  BY DEF NextRectangle
<1>3. t \in Threads /\ AccessThread(t) /\ AccessMap /\ IsAccessTracker
  BY AccessFrom
<1>4. tracker.of = "image" /\ tracker.of # "buffer"
  BY <1>2, <1>3, OfParts
<1> DEFINE cells == IndicesOf(shape, piece)
<1>5. /\ IsRange(shape, range) /\ CellCount(shape) = SizeOf(tracker) /\ word.state = "dense"
      /\ reply[t] \in [passed -> V] /\ old \in V
      /\ reply'[t] = Extended(reply[t], cells, Everywhere(old))
      /\ RectangleDone(store, store', V, shape, range, local[t], local'[t], piece, value)
  BY <1>1 DEF RectangleTaken
<1>6. DenseAt(store', V, shape, range, local'[t]) /\ next = passed \cup cells
  BY <1>5 DEF RectangleDone
<1>7. next \subseteq Cells /\ Cells = 0..SizeOf(tracker) - 1
  <2>1. next \subseteq 0..CellCount(shape) - 1
    BY <1>5, RangeSpots
  <2> QED
    BY <2>1, <1>5, Terms
<1>8. reply'[t] \in [next -> V]
  <2> HIDE DEF cells, passed, next, V
  <2>1. GrownBy(Extended(reply[t], cells, Everywhere(old)), reply[t], passed, cells, old, V)
    <3>1. cells \subseteq Cells
      BY <1>6, <1>7
    <3> QED
      BY <3>1, <1>5, Grown
  <2> QED
    BY <2>1, <1>5, <1>6 DEF GrownBy
<1>9. RectangleItems(tracker, range, local'[t], reply'[t], word', store')
  BY <1>2, <1>5, <1>6, <1>8 DEF RectangleItems
<1>10. reply'[t] # None
  <2> HIDE DEF next
  <2>1. next \in SUBSET (0..SizeOf(tracker) - 1)
    BY <1>7
  <2> QED
    BY <2>1, <1>3, <1>8, AnswerIsOne
<1>11. AccessThread(t)'
  <2>1. Items(tracker, range, local'[t], reply'[t], word', store')
    BY <1>4, <1>9 DEF Items
  <2> QED
    BY <2>1, <1>2, <1>3, <1>10 DEF AccessThread, Users, AccessHolding, AccessAnswered
<1>12. AccessMap'
  <2>1. ~Nobody("pieces")'
    BY <1>2, <1>3 DEF Nobody
  <2>2. IsDense(store', V, SizeOf(tracker))
    BY <1>5, <1>6 DEF DenseAt
  <2> QED
    BY <2>1, <2>2, <1>2, <1>3, <1>4, <1>5 DEF AccessMap
<1>13. \A u \in Threads : u # t => pc[u] \notin Under
  BY <1>2, <1>3, OneAccess DEF AccessHolding
<1> QED
  BY <1>11, <1>12, <1>13, AccessKeeps

\* dropping what has become uniform,
LEMMA TryDemoteKeeps ==
    ASSUME AccessInv, NEW t \in Users, TryDemote(t), OnlyThread(t), Remember
    PROVE  AccessInv'
<1> DEFINE V == AccessValues(tracker)  range == op[t].ranges[1]
<1>1. /\ pc[t] = "pieces" /\ Exhausted(t)
      /\ word' = IF ~IsBuffer /\ word.state = "dense" /\ IsUniform(store)
                 THEN [state |-> "uniform", set |-> store.values[1]] ELSE word
      /\ pc' = [pc EXCEPT ![t] = "unlock"]
      /\ tracker' = tracker /\ store' = store /\ lock' = lock /\ op' = op /\ reply' = reply
  BY DEF TryDemote, Goto
<1>2. t \in Threads /\ AccessThread(t) /\ AccessMap /\ IsAccessTracker /\ pc \in [Threads -> AccessLabels]
      /\ op[t] # None /\ op[t] \in tracker.ops[t]
  BY <1>1, AccessFrom
<1>3. pc'[t] = "unlock"
  BY <1>1, <1>2
<1>4. Items(tracker, range, local[t], reply[t], word, store) /\ ~IsSingleIn(tracker)
  BY <1>1, <1>2 DEF AccessThread, Lockless
<1>5. AccessThread(t)'
  BY <1>1, <1>2, <1>3, <1>4 DEF AccessThread, Users, AccessHolding, AccessAnswered
<1>6. AccessMap'
  <2>1. CASE tracker.of = "buffer"
    <3>1. local[t].from = local[t].to
      BY <2>1, <1>1 DEF Exhausted, CursorDone, IsBuffer
    <3>2. IsRuns(store, V, SizeOf(tracker))
      BY <2>1, <3>1, <1>4 DEF Items, RunItems
    <3>3. word' = word
      BY <2>1, <1>1 DEF IsBuffer
    <3> QED
      BY <2>1, <3>2, <3>3, <1>1, <1>2 DEF AccessMap
  <2>2. CASE tracker.of = "image"
    <3>1. tracker.of # "buffer" /\ ~IsBuffer /\ SizeOf(tracker) \in Nat \ {0}
      BY <2>2, <1>2, OfParts
    <3>2. RectangleItems(tracker, range, local[t], reply[t], word, store)
      BY <3>1, <1>4 DEF Items
    <3>3. CellCount(tracker.shape) = SizeOf(tracker)
      BY <2>2, <1>2, AccessOp, ImageRange
    <3>4. word.state = "dense" /\ IsDense(store, V, SizeOf(tracker))
      BY <3>2, <3>3 DEF RectangleItems, DenseAt
    <3>5. CASE IsUniform(store)
      <4>1. word' = [state |-> "uniform", set |-> store.values[1]]
        BY <3>1, <3>4, <3>5, <1>1
      <4>2. store.values[1] \in V
        BY <3>1, <3>4, <3>5, NoTransition
      <4>3. word' \in Words(tracker) /\ word'.state = "uniform"
        BY <4>1, <4>2 DEF Words
      <4> QED
        BY <3>1, <3>4, <4>3, <1>1, <1>2 DEF AccessMap
    <3>6. CASE ~IsUniform(store)
      <4>1. word' = word
        BY <3>6, <1>1
      <4> QED
        BY <3>1, <3>4, <3>6, <4>1, <1>1, <1>2, <1>4 DEF AccessMap
    <3> QED
      BY <3>5, <3>6
  <2> QED
    BY <2>1, <2>2, <1>2, OfParts
<1>7. \A u \in Threads : u # t => pc[u] \notin Under
  BY <1>1, <1>2, OneAccess DEF AccessHolding
<1> QED
  BY <1>5, <1>6, <1>7, AccessKeeps

\* and the end of an operation.
LEMMA EndAccessKeeps ==
    ASSUME AccessInv, NEW t \in Users, Unlock(t) \/ Return(t), OnlyThread(t), Remember
    PROVE  AccessInv'
<1>1. /\ pc[t] \in {"unlock", "return"} /\ tracker' = tracker /\ word' = word /\ store' = store
      /\ op' = [op EXCEPT ![t] = None] /\ reply' = [reply EXCEPT ![t] = None]
      /\ pc' = [pc EXCEPT ![t] = "idle"]
      /\ pc[t] = "unlock" => lock' = None
      /\ pc[t] = "return" => lock' = lock
  BY DEF Unlock, Return, Idle, Goto, Reply
<1>2. t \in Threads /\ t # None /\ AccessThread(t) /\ IsFun(op) /\ IsFun(reply) /\ pc \in [Threads -> AccessLabels]
  BY AccessFrom
<1>3. op'[t] = None /\ reply'[t] = None /\ pc'[t] = "idle"
  <2>1. IsPut(op', op, t, None)
    BY <1>1, <1>2, Excepted, Zenon
  <2>2. IsPut(reply', reply, t, None)
    BY <1>1, <1>2, Excepted, Zenon
  <2> QED
    BY <2>1, <2>2, <1>1, <1>2 DEF IsPut
<1>4. lock' # t
  BY <1>1, <1>2 DEF AccessThread, AccessHolding
<1>5. AccessThread(t)'
  BY <1>1, <1>2, <1>3, <1>4 DEF AccessThread, Users, AccessHolding, AccessAnswered, Lockless
<1>6. pc[t] \notin Under
  BY <1>1 DEF Under
<1> QED
  BY <1>1, <1>5, <1>6, AccessQuiet

\* All of it is true of a tracker that nobody has used.
LEMMA AccessStarts ==
    ASSUME Init, IsAccess
    PROVE  AccessInv
<1>1. IsAccessTracker
  BY DEF Init, IsAccessTracker
<1>2. /\ lock = None /\ pc = [t \in Threads |-> "idle"] /\ op = [t \in Threads |-> None]
      /\ local = [t \in Threads |-> None] /\ reply = [t \in Threads |-> None]
      /\ past = [t \in Threads |-> {}] /\ AccessInit
  BY DEF Init, IsAccess, IsSharing
<1>3. AccessTyped
  BY <1>1, <1>2 DEF AccessTyped, IsFun, AccessLabels
<1>4. AccessMap
  <2>1. Nothing \in AccessValues(tracker) /\ SizeOf(tracker) \in Nat \ {0}
    BY <1>1, NothingIs, OfParts
  <2>2. CASE tracker.of = "buffer"
    <3>1. word = None /\ store = RunsOf(Nothing)
      BY <2>2, <1>2 DEF AccessInit, IsBuffer
    <3> HIDE DEF Nothing
    <3>2. IsRuns(store, AccessValues(tracker), SizeOf(tracker))
      BY <2>1, <3>1, UniformRuns
    <3> QED
      BY <2>2, <3>1, <3>2 DEF AccessMap
  <2>3. CASE tracker.of = "image"
    <3>1. tracker.of # "buffer" /\ word = [state |-> "uniform", set |-> Nothing] /\ store = None
      BY <2>3, <1>1, <1>2, OfParts DEF AccessInit
    <3>2. word \in Words(tracker) /\ word.state = "uniform"
      BY <2>1, <3>1 DEF Words
    <3> QED
      BY <3>1, <3>2 DEF AccessMap
  <2> QED
    BY <2>2, <2>3, <1>1, OfParts
<1>5. ASSUME NEW t \in Threads
      PROVE  AccessThread(t)
  BY <1>2, NoneAssumption DEF AccessThread, AccessHolding, AccessAnswered, Lockless
<1> QED
  BY <1>3, <1>4, <1>5 DEF AccessInv

\* So every step keeps the invariant,
LEMMA AccessStepKeeps ==
    ASSUME AccessInv, NEW t \in Users, AccessStep(t), Remember
    PROVE  AccessInv'
<1>1. OnlyThread(t)
  BY AccessMoves
<1> QED
  BY <1>1, CallAccessKeeps, LoadAccessKeeps, SwapKeeps, ExchangeAccessKeeps, LoadStateKeeps, LoadSetKeeps,
     LockAccessKeeps, ReadAccessKeeps, SetPromotingKeeps, CaptureKeeps, SetDenseKeeps, FindDenseKeeps,
     NextRunKeeps, NextRectangleKeeps, TryDemoteKeeps, EndAccessKeeps
     DEF AccessStep

\* No step of another kind of tracker is one of this.
LEMMA AccessSteps ==
    ASSUME IsAccess, Next
    PROVE  \E t \in Users : AccessStep(t) /\ Remember
<1>1. ~IsSharing /\ ~IsClaims
  BY DEF IsAccess, IsSharing, IsClaims
<1> QED
  BY <1>1 DEF Next, Step

\* and it stays true
LEMMA AccessStays == AccessInv /\ [Next]_vars => AccessInv'
<1> SUFFICES ASSUME AccessInv, [Next]_vars
             PROVE  AccessInv'
  OBVIOUS
<1>1. CASE Next
  <2>1. IsAccess
    BY DEF AccessInv, AccessTyped, IsAccessTracker
  <2>2. PICK t \in Users : AccessStep(t) /\ Remember
    BY <1>1, <2>1, AccessSteps
  <2> QED
    BY <2>2, AccessStepKeeps
<1>2. CASE UNCHANGED vars
  <2>1. /\ tracker' = tracker /\ word' = word /\ store' = store /\ lock' = lock /\ pc' = pc
        /\ op' = op /\ local' = local /\ reply' = reply /\ past' = past
    BY <1>2 DEF vars, trackerVars
  <2>2. AccessTyped'
    BY <2>1 DEF AccessInv, AccessTyped, IsAccessTracker, IsAccess, Users
  <2>3. AccessMap'
    BY <2>1, AccessMapKept DEF AccessInv
  <2>4. ASSUME NEW t \in Threads
        PROVE  AccessThread(t)'
    <3>1. AccessThread(t)
      BY DEF AccessInv
    <3> QED
      BY <2>1, <3>1 DEF AccessThread, Users
  <2> QED
    BY <2>2, <2>3, <2>4 DEF AccessInv
<1> QED
  BY <1>1, <1>2

\* at all times.
LEMMA AccessAlways == Spec /\ IsAccess => []AccessInv
<1>1. Init /\ IsAccess => AccessInv
  BY AccessStarts
<1>2. AccessInv /\ [Next]_vars => AccessInv'
  BY AccessStays
<1> QED
  BY <1>1, <1>2, PTL DEF Spec

-----------------------------------------------------------------------------
(* What the tracker of accesses says                                        *)

UpdatedIn(k, o, previous) ==
    CASE o.do = "mark" -> previous \cup {o.value}
      [] o.do = "read" -> previous
      [] o.do = "swap" /\ k.of = "buffer" -> TrackedAccessAfter(previous, o.value)
      [] o.do = "swap" /\ k.of # "buffer" /\ o.keep -> AfterAccess(previous, o.value)
      [] o.do = "swap" /\ k.of # "buffer" /\ ~o.keep -> {o.value}

\* The update of the model is this one.
LEMMA UpdatedTerms ==
    ASSUME NEW o, NEW v
    PROVE  Updated(o, v) = UpdatedIn(tracker, o, v)
BY DEF Updated, UpdatedIn, IsBuffer

\* The map while nothing is under way, and without the gap of a cursor
BeforeOf(k, w, s) == IF k.of # "buffer" /\ w.state # "dense" THEN AllOf(k, w.set) ELSE MapOf(k, s)
ReadableOf(k, s, cur) ==
    IF k.of = "buffer" /\ cur.from # cur.to THEN Rest(s, cur.write, cur.read) ELSE s
\* The map with an operation carried out in some cells
Laid(k, o, base, cells) ==
    [c \in 0..SizeOf(k) - 1 |-> IF c \in cells THEN UpdatedIn(k, o, base[c]) ELSE base[c]]

BeforeIs(base, rest) == Before = base /\ Remaining = rest

\* Nobody has anything under way,
LEMMA BeforeQuiet ==
    ASSUME AccessInv, \A u \in Threads : pc[u] \notin Under
    PROVE  /\ BeforeIs(BeforeOf(tracker, word, store), {}) /\ ~Promoting /\ ~Iterating
           /\ Contents = BeforeOf(tracker, word, store)
<1>1. IsAccessTracker /\ lock \in Users \cup {None}
  BY DEF AccessInv, AccessTyped
<1>2. ~Promoting /\ ~Iterating
  <2>1. lock # None => lock \in Threads
    BY <1>1, TrackerAssumption DEF IsAccessTracker, Users
  <2> QED
    BY <2>1 DEF Promoting, Iterating, Under
<1>3. BeforeIs(BeforeOf(tracker, word, store), {})
  <2>1. Remaining = {}
    BY <1>2 DEF Remaining
  <2>2. CASE tracker.of = "buffer"
    <3>1. Before = [c \in Cells |-> RunValueAt(store, c)]
      BY <2>2, <1>2 DEF Before, IsBuffer
    <3>2. BeforeOf(tracker, word, store) = [c \in 0..SizeOf(tracker) - 1 |-> RunValueAt(store, c)]
      BY <2>2 DEF BeforeOf, MapOf, StoredIn
    <3> QED
      BY <2>1, <3>1, <3>2, Terms DEF BeforeIs
  <2>3. CASE tracker.of # "buffer" /\ word.state # "dense"
    <3>1. Before = Everywhere(word.set)
      BY <2>3 DEF Before, IsBuffer
    <3> QED
      BY <2>1, <2>3, <3>1, Terms DEF BeforeIs, BeforeOf, AllOf, Everywhere
  <2>4. CASE tracker.of # "buffer" /\ word.state = "dense"
    <3>1. Before = [c \in Cells |-> StoredAt(c)]
      BY <2>4, <1>2 DEF Before, IsBuffer
    <3>2. \A c : StoredAt(c) = StoredIn(tracker, store, c)
      BY Terms
    <3> QED
      BY <2>1, <2>4, <3>1, <3>2, Terms DEF BeforeIs, BeforeOf, MapOf
  <2> QED
    BY <2>2, <2>3, <2>4
<1>4. Contents = BeforeOf(tracker, word, store)
  <2>1. Contents = Accesses
    BY <1>1 DEF Contents, IsAccessTracker, IsAccess, IsSharing
  <2>2. Accesses = [c \in Cells |-> Before[c]]
    BY <1>3 DEF Accesses, BeforeIs
  <2>3. BeforeOf(tracker, word, store) = [c \in Cells |-> BeforeOf(tracker, word, store)[c]]
    BY Terms DEF BeforeOf, AllOf, MapOf
  <2> QED
    BY <2>1, <2>2, <2>3, <1>3 DEF BeforeIs
<1> QED
  BY <1>2, <1>3, <1>4

\* a thread promotes,
LEMMA BeforePromoting ==
    ASSUME AccessInv, NEW t \in Threads, pc[t] \in {"capture", "set_dense"}
    PROVE  /\ BeforeIs(AllOf(tracker, word.set), Part(tracker, op[t].ranges[1]))
           /\ lock = t /\ Promoting
           /\ Contents = Laid(tracker, op[t], AllOf(tracker, word.set), Part(tracker, op[t].ranges[1]))
<1>1. IsAccessTracker /\ AccessThread(t) /\ lock \in Users \cup {None}
  BY DEF AccessInv, AccessTyped
<1>2. lock = t /\ t # None
  BY <1>1, NoneAssumption DEF AccessThread, AccessHolding
<1>3. Promoting
  BY <1>2 DEF Promoting
<1>4. tracker.of = "image" /\ word.state = "promoting"
  BY <1>1 DEF AccessThread
<1>5. BeforeIs(AllOf(tracker, word.set), Part(tracker, op[t].ranges[1]))
  <2>1. Before = Everywhere(word.set)
    BY <1>1, <1>4, OfParts DEF Before
  <2>2. Remaining = CellsOf(op[t].ranges[1])
    BY <1>2, <1>3 DEF Remaining
  <2> QED
    BY <2>1, <2>2, Terms DEF BeforeIs, AllOf, Everywhere
<1>6. Contents = Laid(tracker, op[t], AllOf(tracker, word.set), Part(tracker, op[t].ranges[1]))
  <2>1. Contents = Accesses
    BY <1>1 DEF Contents, IsAccessTracker, IsAccess, IsSharing
  <2>2. Accesses = [c \in Cells |-> IF c \in Remaining THEN Updated(op[t], Before[c]) ELSE Before[c]]
    BY <1>2 DEF Accesses
  <2> QED
    BY <2>1, <2>2, <1>5, Terms, UpdatedTerms DEF BeforeIs, Laid
<1> QED
  BY <1>2, <1>3, <1>5, <1>6

\* or a thread is at its pieces.
LEMMA BeforePieces ==
    ASSUME AccessInv, NEW t \in Threads, pc[t] = "pieces"
    PROVE  /\ BeforeIs(MapOf(tracker, ReadableOf(tracker, store, local[t])),
                       Part(tracker, op[t].ranges[1]) \ DOMAIN reply[t])
           /\ lock = t /\ Iterating /\ ~Promoting
           /\ Contents = Laid(tracker, op[t], MapOf(tracker, ReadableOf(tracker, store, local[t])),
                              Part(tracker, op[t].ranges[1]) \ DOMAIN reply[t])
<1>1. IsAccessTracker /\ AccessThread(t) /\ lock \in Users \cup {None}
  BY DEF AccessInv, AccessTyped
<1>2. lock = t /\ t # None
  BY <1>1, NoneAssumption DEF AccessThread, AccessHolding
<1>3. Iterating /\ ~Promoting
  BY <1>2 DEF Promoting, Iterating
<1>4. BeforeIs(MapOf(tracker, ReadableOf(tracker, store, local[t])),
               Part(tracker, op[t].ranges[1]) \ DOMAIN reply[t])
  <2>1. Remaining = Part(tracker, op[t].ranges[1]) \ DOMAIN reply[t]
    <3>1. Remaining = CellsOf(op[t].ranges[1]) \ DOMAIN reply[t]
      BY <1>2, <1>3 DEF Remaining
    <3> QED
      BY <3>1, Terms
  <2>2. CASE tracker.of = "buffer"
    <3> DEFINE q == Readable(t)
    <3>1. Before = [c \in Cells |-> RunValueAt(q, c)]
      BY <2>2, <1>2, <1>3 DEF Before, IsBuffer
    <3>2. q = ReadableOf(tracker, store, local[t])
      BY <2>2 DEF Readable, ReadableOf, IsBuffer, Exhausted, CursorDone, Rest
    <3> HIDE DEF q
    <3>3. MapOf(tracker, q) = [c \in 0..SizeOf(tracker) - 1 |-> RunValueAt(q, c)]
      BY <2>2 DEF MapOf, StoredIn
    <3> QED
      BY <2>1, <3>1, <3>2, <3>3, Terms DEF BeforeIs
  <2>3. CASE tracker.of = "image"
    <3>1. word.state = "dense" /\ ~IsBuffer /\ tracker.of # "buffer"
      <4>1. Items(tracker, op[t].ranges[1], local[t], reply[t], word, store)
        BY <1>1 DEF AccessThread
      <4> QED
        BY <4>1, <2>3, <1>1, OfParts DEF Items, RectangleItems
    <3>2. Before = [c \in Cells |-> StoredAt(c)]
      BY <3>1 DEF Before
    <3>3. ReadableOf(tracker, store, local[t]) = store
      BY <3>1 DEF ReadableOf
    <3>4. \A c : StoredAt(c) = StoredIn(tracker, store, c)
      BY Terms
    <3> QED
      BY <2>1, <3>2, <3>3, <3>4, Terms DEF BeforeIs, MapOf
  <2> QED
    BY <2>2, <2>3, <1>1, OfParts
<1>5. Contents = Laid(tracker, op[t], MapOf(tracker, ReadableOf(tracker, store, local[t])),
                      Part(tracker, op[t].ranges[1]) \ DOMAIN reply[t])
  <2>1. Contents = Accesses
    BY <1>1 DEF Contents, IsAccessTracker, IsAccess, IsSharing
  <2>2. Accesses = [c \in Cells |-> IF c \in Remaining THEN Updated(op[t], Before[c]) ELSE Before[c]]
    BY <1>2 DEF Accesses
  <2> QED
    BY <2>1, <2>2, <1>4, Terms, UpdatedTerms DEF BeforeIs, Laid
<1> QED
  BY <1>2, <1>3, <1>4, <1>5

-----------------------------------------------------------------------------
(* The items of an iterator                                                 *)

\* What PiecesCover says of a thread
PiecesOf(t) ==
    pc[t] = "pieces" => LET before == Before IN
        /\ DOMAIN reply[t] \subseteq DOMAIN reply'[t]
        /\ \A c \in DOMAIN reply'[t] \ DOMAIN reply[t] :
                c \in CellsOf(op[t].ranges[1]) /\ reply'[t][c] = before[c]
        /\ pc'[t] # "pieces" => DOMAIN reply[t] = CellsOf(op[t].ranges[1])

\* Items of runs hand out what was there before the operation,
LEMMA RunsCover ==
    ASSUME AccessInv, NEW t \in Users, NextRun(t), pc[t] = "pieces"
    PROVE  PiecesOf(t)
<1> DEFINE V == AccessValues(tracker)  size == SizeOf(tracker)  range == op[t].ranges[1]
<1>1. PICK cur, new, p : RunTaken(t, cur, new, p)
  BY NextRunIs
<1>2. t \in Threads /\ IsAccessTracker /\ IsBuffer /\ pc' = pc /\ tracker.of = "buffer"
  BY AccessFrom DEF NextRun, IsBuffer
<1> DEFINE from == cur.from  end == p.cursor.from  first == range[1]  last == range[2]
           R == Rest(store, cur.write, cur.read)
<1>3. /\ cur = local[t] /\ reply[t] \in [first..from - 1 -> V] /\ range \in RangesOf(tracker)
      /\ reply'[t] = Extended(reply[t], from..end - 1, Everywhere(p.value))
      /\ CursorAt(store, V, size, cur) /\ PieceDone(store, V, size, cur, new, p)
  BY <1>1 DEF RunTaken
<1>4. /\ first \in Nat /\ last \in Nat /\ from \in Nat /\ end \in Nat
      /\ first <= from /\ from < end /\ end <= last /\ cur.from # cur.to
  <2>1. first \in Nat /\ last \in Nat /\ first <= from /\ cur.to = last
    BY <1>1 DEF RunTaken
  <2>2. from \in Nat /\ end \in Nat /\ from < end /\ end <= cur.to
    <3>1. from \in Nat
      BY <1>3 DEF CursorAt
    <3>2. p.cursor \in [read : Nat, write : Nat, from : Nat, to : Nat] /\ from < end /\ end <= cur.to
      BY <1>3 DEF PieceDone
    <3> QED
      BY <3>1, <3>2
  <2> HIDE DEF first, last, end
  <2>3. cur.from # cur.to
    BY <2>1, <2>2
  <2> QED
    BY <2>1, <2>2, <2>3
<1>5. \A x \in from..end - 1 : RunValueAt(R, x) = p.value
  BY <1>3 DEF PieceDone
<1>6. Before = MapOf(tracker, R)
  <2>1. Before = MapOf(tracker, ReadableOf(tracker, store, local[t]))
    BY <1>2, BeforePieces DEF BeforeIs
  <2>2. ReadableOf(tracker, store, local[t]) = R
    BY <1>2, <1>3, <1>4 DEF ReadableOf
  <2> QED
    BY <2>1, <2>2
<1>7. CellsOf(range) = first..last - 1 /\ CellsOf(range) \subseteq 0..size - 1 /\ Cells = 0..size - 1
  <2>1. CellsOf(range) = range[1]..range[2] - 1
    BY <1>2 DEF CellsOf
  <2> QED
    BY <2>1, <1>2, <1>3, RangeIs, Terms DEF IsAccessTracker
<1>8. from..end - 1 \subseteq first..last - 1
  <2> HIDE DEF first, last, from, end
  <2> QED
    BY <1>4
<1>9. \A x \in from..end - 1 : Before[x] = p.value
  <2> HIDE DEF R, from, end, first, last, size
  <2> TAKE x \in from..end - 1
  <2>1. x \in 0..size - 1
    BY <1>7, <1>8
  <2>2. MapOf(tracker, R)[x] = RunValueAt(R, x)
    BY <2>1, <1>2 DEF MapOf, StoredIn, size
  <2> QED
    BY <2>2, <1>5, <1>6
<1> DEFINE b == Before  new2 == from..end - 1  old2 == first..from - 1
<1>10. GrownBy(reply'[t], reply[t], old2, new2, p.value, V)
  <2>1. /\ new2 \subseteq Cells /\ reply[t] \in [old2 -> V]
        /\ reply'[t] = Extended(reply[t], new2, Everywhere(p.value))
    BY <1>3, <1>7, <1>8
  <2> HIDE DEF new2, old2, V
  <2>2. GrownBy(Extended(reply[t], new2, Everywhere(p.value)), reply[t], old2, new2, p.value, V)
    BY <2>1, Grown
  <2> QED
    BY <2>1, <2>2
<1>11. DOMAIN reply[t] = old2
  BY <1>3
<1>12. \A x \in new2 : b[x] = p.value /\ x \in CellsOf(range)
  BY <1>7, <1>8, <1>9
<1> HIDE DEF b, new2, old2, V
<1>13. /\ DOMAIN reply[t] \subseteq DOMAIN reply'[t]
       /\ \A c \in DOMAIN reply'[t] \ DOMAIN reply[t] :
                c \in CellsOf(range) /\ reply'[t][c] = b[c]
  BY <1>10, <1>11, <1>12 DEF GrownBy
<1> QED
  BY <1>2, <1>13 DEF PiecesOf, b

\* and so do items of subresources.
LEMMA RectanglesCover ==
    ASSUME AccessInv, NEW t \in Users, NextRectangle(t), pc[t] = "pieces"
    PROVE  PiecesOf(t)
<1> DEFINE V == AccessValues(tracker)  range == op[t].ranges[1]  shape == tracker.shape
           passed == Passed(shape, range, local[t])
<1>1. PICK piece, old, value : RectangleTaken(t, piece, old, value)
  BY NextRectangleIs
<1> DEFINE cells == IndicesOf(shape, piece)
<1>2. t \in Threads /\ IsAccessTracker /\ ~IsBuffer /\ pc' = pc /\ tracker.of = "image"
      /\ tracker.of # "buffer"
  <2>1. t \in Threads /\ IsAccessTracker /\ ~IsBuffer /\ pc' = pc
    BY AccessFrom DEF NextRectangle
  <2> QED
    BY <2>1, OfParts
<1>3. /\ IsRange(shape, range) /\ CellCount(shape) = SizeOf(tracker)
      /\ reply[t] \in [passed -> V] /\ old = PieceValue(store, shape, piece)
      /\ reply'[t] = Extended(reply[t], cells, Everywhere(old))
      /\ RectangleDone(store, store', V, shape, range, local[t], local'[t], piece, value)
  BY <1>1 DEF RectangleTaken
<1>4. \A x \in cells : ValueAt(store, x) = old
  BY <1>3 DEF RectangleDone
<1>5. cells \subseteq CellsOf(range) /\ cells \subseteq Cells /\ Cells = 0..SizeOf(tracker) - 1
  <2>1. cells \subseteq Passed(shape, range, local'[t])
    BY <1>3 DEF RectangleDone
  <2>2. /\ Passed(shape, range, local'[t]) \subseteq IndicesOf(shape, range)
        /\ IndicesOf(shape, range) \subseteq 0..CellCount(shape) - 1
    BY <1>3, RangeSpots
  <2>3. CellsOf(range) = IndicesOf(shape, range)
    BY <1>2 DEF CellsOf
  <2> QED
    BY <2>1, <2>2, <2>3, <1>3, Terms
<1>6. Before = MapOf(tracker, store)
  <2>1. Before = MapOf(tracker, ReadableOf(tracker, store, local[t]))
    BY <1>2, BeforePieces DEF BeforeIs
  <2> QED
    BY <2>1, <1>2 DEF ReadableOf
<1> DEFINE b == Before
<1>7. \A x \in cells : b[x] = old /\ x \in CellsOf(range)
  <2> HIDE DEF cells
  <2> TAKE x \in cells
  <2>1. MapOf(tracker, store)[x] = ValueAt(store, x)
    BY <1>2, <1>5 DEF MapOf, StoredIn
  <2> QED
    BY <2>1, <1>4, <1>5, <1>6
<1> HIDE DEF b, cells, passed, V
<1>8. GrownBy(reply'[t], reply[t], passed, cells, old, V)
  BY <1>3, <1>5, Grown
<1>9. DOMAIN reply[t] = passed
  BY <1>3
<1>10. /\ DOMAIN reply[t] \subseteq DOMAIN reply'[t]
       /\ \A c \in DOMAIN reply'[t] \ DOMAIN reply[t] :
                c \in CellsOf(range) /\ reply'[t][c] = b[c]
  BY <1>7, <1>8, <1>9 DEF GrownBy
<1> QED
  BY <1>2, <1>10 DEF PiecesOf, b

\* An iterator that is exhausted has covered its range.
LEMMA ExhaustedCovers ==
    ASSUME AccessInv, NEW t \in Users, TryDemote(t)
    PROVE  PiecesOf(t)
<1> DEFINE range == op[t].ranges[1]
<1>1. t \in Threads /\ IsAccessTracker /\ AccessThread(t) /\ pc[t] = "pieces" /\ Exhausted(t) /\ reply' = reply
      /\ op[t] \in tracker.ops[t]
  BY AccessFrom DEF TryDemote
<1>2. Items(tracker, range, local[t], reply[t], word, store)
  BY <1>1 DEF AccessThread
<1>3. range \in RangesOf(tracker)
  BY <1>1, AccessOp
<1>4. DOMAIN reply[t] = CellsOf(range)
  <2>1. CASE tracker.of = "buffer"
    <3>1. /\ reply[t] \in [range[1]..local[t].from - 1 -> AccessValues(tracker)]
          /\ local[t].to = range[2]
      BY <2>1, <1>2 DEF Items, RunItems
    <3>2. local[t].from = local[t].to
      BY <2>1, <1>1 DEF Exhausted, CursorDone, IsBuffer
    <3>3. CellsOf(range) = range[1]..range[2] - 1
      BY <2>1 DEF CellsOf, IsBuffer
    <3> QED
      BY <3>1, <3>2, <3>3
  <2>2. CASE tracker.of = "image"
    <3>1. RectangleItems(tracker, range, local[t], reply[t], word, store)
      BY <2>2, <1>1, <1>2, OfParts DEF Items
    <3>2. IsRange(tracker.shape, range)
      BY <2>2, <1>1, <1>3, ImageRange
    <3>3. DenseCursorDone(local[t], range)
      BY <2>2, <1>1, OfParts DEF Exhausted
    <3>4. DenseCursorAt(range, local[t]) \/ DenseCursorEnd(range, local[t])
      BY <3>1 DEF RectangleItems, DenseAt
    <3>5. Passed(tracker.shape, range, local[t]) = IndicesOf(tracker.shape, range)
      BY <3>2, <3>3, <3>4, CursorEnds
    <3>6. CellsOf(range) = IndicesOf(tracker.shape, range)
      BY <2>2, <1>1, OfParts DEF CellsOf
    <3> QED
      BY <3>1, <3>5, <3>6 DEF RectangleItems
  <2> QED
    BY <2>1, <2>2, <1>1, OfParts
<1> QED
  BY <1>1, <1>4 DEF PiecesOf

\* A step of the tracker of accesses
LEMMA StepCovers ==
    ASSUME AccessInv, NEW t \in Users, AccessStep(t), NEW u \in Threads
    PROVE  PiecesOf(u)
<1>1. CASE u # t
  <2>1. OnlyThread(t)
    BY AccessMoves
  <2>2. pc'[u] = pc[u] /\ reply'[u] = reply[u]
    BY <2>1, <1>1 DEF OnlyThread, IsPut
  <2> QED
    BY <2>2 DEF PiecesOf
<1>2. CASE u = t
  <2>1. CASE pc[t] # "pieces"
    BY <2>1, <1>2 DEF PiecesOf
  <2>2. CASE pc[t] = "pieces"
    <3>1. NextRun(t) \/ NextRectangle(t) \/ TryDemote(t)
      BY <2>2 DEF AccessStep, CallAccess, Begin, LoadAccess, SwapAtOnce, ExchangeAccess, LoadState, LoadSet,
         Lock, ReadAccessLocked, SetPromoting, Capture, SetDense, FindDense, Unlock, Return
    <3> QED
      BY <3>1, <2>2, <1>2, RunsCover, RectanglesCover, ExhaustedCovers
  <2> QED
    BY <2>1, <2>2
<1> QED
  BY <1>1, <1>2

\* Only the tracker of accesses has iterators.
ClaimsAt == IsClaims /\ pc \in [Threads -> ClaimsLabels]

\* Claims only have labels of their own.
LEMMA ClaimsMove == ClaimsAt /\ [Next]_vars => ClaimsAt'
<1> SUFFICES ASSUME ClaimsAt, [Next]_vars
             PROVE  ClaimsAt'
  OBVIOUS
<1>1. CASE UNCHANGED vars
  BY <1>1 DEF ClaimsAt, IsClaims, vars, trackerVars
<1>2. CASE Next
  <2>1. PICK t \in Users : ClaimsStep(t)
    BY <1>2 DEF Next, Step, ClaimsAt, IsClaims, IsAccess, IsSharing
  <2>2. tracker' = tracker /\ \E l \in ClaimsLabels : pc' = [pc EXCEPT ![t] = l]
    BY <2>1 DEF ClaimsStep, CallUse, Begin, TrackPendingTransfers, RecordBarriers, Return, Idle, Goto, ClaimsLabels
  <2> QED
    BY <2>2 DEF ClaimsAt, IsClaims
<1> QED
  BY <1>1, <1>2

\* A thread that has no iterator has no items.
LEMMA NoPieces ==
    ASSUME pc \in [Threads -> Labels \cup ClaimsLabels], NEW t \in Threads
    PROVE  PiecesOf(t)
<1>1. pc[t] # "pieces"
  BY DEF Labels, ClaimsLabels
<1> QED
  BY <1>1 DEF PiecesOf

\* Each item of an iterator has one old value, no cell comes twice, and an iterator that is
\* exhausted has covered its range (next_with of RunMapCursor and of DenseMapCursor).
THEOREM IteratorsCover == Spec => PiecesCover
<1> DEFINE Inv == AccessInv \/ SharingInv \/ ClaimsAt
<1>1. Init => Inv
  <2> SUFFICES ASSUME Init
               PROVE  Inv
    OBVIOUS
  <2>1. tracker \in Trackers
    BY DEF Init
  <2>2. IsSharing \/ IsAccess \/ IsClaims
    BY <2>1, TrackerAssumption DEF IsSharing, IsAccess, IsClaims
  <2>3. IsClaims => ClaimsAt
    BY DEF Init, ClaimsAt, ClaimsLabels
  <2> QED
    BY <2>2, <2>3, InvInit, AccessStarts
<1>2. Inv /\ [Next]_vars => Inv'
  <2>1. AccessInv /\ [Next]_vars => AccessInv'
    BY AccessStays
  <2>2. SharingInv /\ [Next]_vars => SharingInv'
    BY InvNext
  <2>3. ClaimsAt /\ [Next]_vars => ClaimsAt'
    BY ClaimsMove
  <2> QED
    BY <2>1, <2>2, <2>3
<1>3. Inv /\ [Next]_vars => [\A t \in Threads : PiecesOf(t)]_vars
  <2> SUFFICES ASSUME Inv, Next, NEW u \in Threads
               PROVE  PiecesOf(u)
    OBVIOUS
  <2>1. CASE AccessInv
    <3>1. IsAccess
      BY <2>1 DEF AccessInv, AccessTyped, IsAccessTracker
    <3>2. PICK t \in Users : AccessStep(t)
      BY <3>1, AccessSteps
    <3> QED
      BY <2>1, <3>2, StepCovers
  <2>2. CASE SharingInv
    <3>1. pc \in [Threads -> Labels]
      BY <2>2 DEF SharingInv, Typed
    <3>2. pc \in [Threads -> Labels \cup ClaimsLabels]
      BY <3>1
    <3> QED
      BY <3>2, NoPieces
  <2>3. CASE ClaimsAt
    <3>1. pc \in [Threads -> Labels \cup ClaimsLabels]
      BY <2>3 DEF ClaimsAt
    <3> QED
      BY <3>1, NoPieces
  <2> QED
    BY <2>1, <2>2, <2>3
<1> HIDE DEF Inv
<1> QED
  BY <1>1, <1>2, <1>3, PTL DEF Spec, PiecesCover, PiecesOf

\* What is in the map has its type.
LEMMA PiecesBase ==
    ASSUME AccessInv, NEW t \in Threads, pc[t] = "pieces"
    PROVE  MapOf(tracker, ReadableOf(tracker, store, local[t]))
                \in [0..SizeOf(tracker) - 1 -> AccessValues(tracker)]
<1> DEFINE V == AccessValues(tracker)  size == SizeOf(tracker)
           q == ReadableOf(tracker, store, local[t])
<1>1. /\ IsAccessTracker /\ AccessThread(t) /\ size \in Nat \ {0}
  BY OfParts DEF AccessInv, AccessTyped
<1>2. Items(tracker, op[t].ranges[1], local[t], reply[t], word, store)
  BY <1>1 DEF AccessThread
<1>3. \A c \in 0..size - 1 : StoredIn(tracker, q, c) \in V
  <2>1. CASE tracker.of = "buffer"
    <3>1. RunItems(tracker, op[t].ranges[1], local[t], reply[t], store)
      BY <2>1, <1>2 DEF Items
    <3>2. IsOrdered(q, V, size)
      <4>1. CASE local[t].from = local[t].to
        BY <3>1, <4>1 DEF RunItems, ReadableOf, IsRuns
      <4>2. CASE local[t].from # local[t].to
        <5>1. CursorAt(store, V, size, local[t])
          BY <3>1, <4>2 DEF RunItems
        <5>2. q = Rest(store, local[t].write, local[t].read)
          BY <2>1, <4>2 DEF ReadableOf
        <5> QED
          BY <5>1, <5>2 DEF CursorAt, At
      <4> QED
        BY <4>1, <4>2
    <3> HIDE DEF q, V, size
    <3>3. \A c \in 0..size - 1 : RunValueAt(q, c) \in V
      BY <3>2, <1>1, RunsHave
    <3> QED
      BY <3>3, <2>1 DEF StoredIn
  <2>2. CASE tracker.of = "image"
    <3>1. tracker.of # "buffer"
      BY <2>2, <1>1, OfParts
    <3>2. /\ RectangleItems(tracker, op[t].ranges[1], local[t], reply[t], word, store)
          /\ q = store
      BY <3>1, <1>2 DEF Items, ReadableOf
    <3>3. CellCount(tracker.shape) = size
      <4>1. op[t] \in tracker.ops[t] /\ t \in Users
        BY <1>1 DEF AccessThread
      <4> QED
        BY <4>1, <2>2, <1>1, AccessOp, ImageRange
    <3>4. IsDense(q, V, size)
      BY <3>2, <3>3 DEF RectangleItems, DenseAt
    <3> HIDE DEF q, V, size
    <3>5. \A c \in 0..size - 1 : ValueAt(q, c) \in V
      BY <3>4, <1>1, DenseHas
    <3> QED
      BY <3>1, <3>5 DEF StoredIn
  <2> QED
    BY <2>1, <2>2, <1>1, OfParts
<1> QED
  BY <1>3 DEF MapOf

\* The same of a map while nothing is under way,
LEMMA QuietBase ==
    ASSUME AccessInv, \A u \in Threads : pc[u] \notin Under
    PROVE  BeforeOf(tracker, word, store) \in [0..SizeOf(tracker) - 1 -> AccessValues(tracker)]
<1> DEFINE V == AccessValues(tracker)  size == SizeOf(tracker)
<1>1. IsAccessTracker /\ AccessMap /\ size \in Nat \ {0}
  BY OfParts DEF AccessInv, AccessTyped
<1>2. CASE tracker.of = "buffer"
  <2>1. IsOrdered(store, V, size)
    <3>1. Nobody("pieces")
      BY DEF Nobody, Under
    <3> QED
      BY <3>1, <1>1, <1>2 DEF AccessMap, IsRuns
  <2> HIDE DEF V, size
  <2>2. \A c \in 0..size - 1 : RunValueAt(store, c) \in V
    BY <2>1, <1>1, RunsHave
  <2> QED
    BY <2>2, <1>2 DEF BeforeOf, MapOf, StoredIn, V, size
<1>3. CASE tracker.of # "buffer"
  <2>1. word \in Words(tracker) /\ (word.state = "dense" => IsDense(store, V, size))
    BY <1>1, <1>3 DEF AccessMap
  <2>2. word.set \in V
    BY <2>1, WordPut
  <2>3. CASE word.state = "dense"
    <3>1. IsDense(store, V, size)
      BY <2>1, <2>3
    <3> HIDE DEF V, size
    <3>2. \A c \in 0..size - 1 : ValueAt(store, c) \in V
      BY <3>1, <1>1, DenseHas
    <3> QED
      BY <3>2, <1>3, <2>3 DEF BeforeOf, MapOf, StoredIn, V, size
  <2>4. CASE word.state # "dense"
    BY <2>2, <2>4, <1>3 DEF BeforeOf, AllOf
  <2> QED
    BY <2>3, <2>4
<1> QED
  BY <1>2, <1>3

\* and while a thread promotes.
LEMMA PromotingBase ==
    ASSUME AccessInv, NEW t \in Threads, pc[t] \in {"capture", "set_dense"}
    PROVE  AllOf(tracker, word.set) \in [0..SizeOf(tracker) - 1 -> AccessValues(tracker)]
<1>1. IsAccessTracker /\ AccessMap /\ AccessThread(t)
  BY DEF AccessInv, AccessTyped
<1>2. tracker.of # "buffer"
  BY <1>1, OfParts DEF AccessThread
<1>3. word.set \in AccessValues(tracker)
  <2>1. word \in Words(tracker)
    BY <1>1, <1>2 DEF AccessMap
  <2> QED
    BY <2>1, WordPut
<1> QED
  BY <1>3 DEF AllOf

\* An operation carried out in some cells
LEMMA LaidTyped ==
    ASSUME IsAccessTracker, NEW t \in Users, NEW o \in tracker.ops[t], NEW cells,
           NEW m \in [0..SizeOf(tracker) - 1 -> AccessValues(tracker)]
    PROVE  Laid(tracker, o, m, cells) \in [0..SizeOf(tracker) - 1 -> AccessValues(tracker)]
<1>1. \A v \in AccessValues(tracker) : UpdatedIn(tracker, o, v) \in AccessValues(tracker)
  BY UpdatedIs, UpdatedTerms
<1> QED
  BY <1>1 DEF Laid

\* The thread that has something under way, if there is one
LEMMA UnderWay ==
    ASSUME AccessInv
    PROVE  \/ \A u \in Threads : pc[u] \notin Under
           \/ \E t \in Threads : /\ pc[t] \in Under /\ t \in Users /\ op[t] \in tracker.ops[t]
                                 /\ op[t] # None /\ op[t].do # "read" /\ lock = t
<1> SUFFICES ASSUME NEW t \in Threads, pc[t] \in Under
             PROVE  /\ t \in Users /\ op[t] \in tracker.ops[t] /\ op[t] # None /\ op[t].do # "read"
                    /\ lock = t
  OBVIOUS
<1>1. AccessThread(t) /\ pc[t] # "idle" /\ pc[t] \in AccessHolding
  BY DEF AccessInv, Under, AccessHolding
<1> QED
  BY <1>1 DEF AccessThread, Under

\* What the tracker says always has its type.
LEMMA AccessesTyped ==
    ASSUME AccessInv
    PROVE  Contents \in [0..SizeOf(tracker) - 1 -> AccessValues(tracker)]
<1>1. CASE \A u \in Threads : pc[u] \notin Under
  BY <1>1, BeforeQuiet, QuietBase
<1>2. CASE \E t \in Threads : /\ pc[t] \in Under /\ t \in Users /\ op[t] \in tracker.ops[t]
                              /\ op[t] # None /\ op[t].do # "read" /\ lock = t
  <2>1. PICK t \in Threads : pc[t] \in Under /\ t \in Users /\ op[t] \in tracker.ops[t]
    BY <1>2
  <2>2. IsAccessTracker
    BY DEF AccessInv, AccessTyped
  <2>3. CASE pc[t] \in {"capture", "set_dense"}
    BY <2>1, <2>2, <2>3, BeforePromoting, PromotingBase, LaidTyped
  <2>4. CASE pc[t] = "pieces"
    <3> DEFINE m == MapOf(tracker, ReadableOf(tracker, store, local[t]))
               cells == Part(tracker, op[t].ranges[1]) \ DOMAIN reply[t]
    <3>1. m \in [0..SizeOf(tracker) - 1 -> AccessValues(tracker)] /\ Contents = Laid(tracker, op[t], m, cells)
      BY <2>4, BeforePieces, PiecesBase
    <3> HIDE DEF m, cells
    <3> QED
      BY <2>1, <2>2, <3>1, LaidTyped
  <2> QED
    BY <2>1, <2>3, <2>4 DEF Under
<1> QED
  BY <1>1, <1>2, UnderWay

\* The next to take the lock of the accesses finds the map in form, also after an iterator has
\* assigned its range piece by piece (DenseAccessMapGuard, RunMap, DenseMap).
THEOREM AccessInForm == Spec /\ IsAccess => []StoreInForm
<1>1. AccessInv => StoreInForm
  <2> SUFFICES ASSUME AccessInv
               PROVE  StoreInForm
    OBVIOUS
  <2>1. /\ IsAccessTracker /\ AccessTyped /\ AccessMap /\ \A t \in Threads : AccessThread(t)
        /\ IsAccess /\ ~IsSharing /\ ~IsClaims
    BY DEF AccessInv, AccessTyped, IsAccessTracker, IsAccess, IsSharing, IsClaims
  <2> DEFINE V == AccessValues(tracker)
  <2>2. TypeOK
    <3>1. Contents \in [Cells -> CellValues]
      BY <2>1, AccessesTyped, Terms DEF CellValues, ValuesOf, IsAccess
    <3>2. \A t \in Threads :
            /\ pc[t] \in {"idle", "load", "load_set", "exchange", "lock", "locked", "ranges",
                          "capture", "set_dense", "pieces", "track", "tracked", "unlock", "return"}
            /\ op[t] \in (IF t \in Users THEN tracker.ops[t] ELSE {}) \cup {None}
            /\ pc[t] = "idle" <=> op[t] = None
      BY <2>1 DEF AccessThread, AccessTyped, AccessLabels
    <3> QED
      BY <2>1, <3>1, <3>2 DEF TypeOK, AccessTyped, IsAccessTracker
  <2>3. ASSUME lock = None
        PROVE  IF IsBuffer
               THEN Canonical(store) /\ (IsSharing /\ word # Dense => Len(store) = 1)
               ELSE /\ store = None \/ Counted(store)
                    /\ MapCountsUnlocked => store # None /\ ~IsUniform(store)
    <3>1. Nobody("pieces") /\ Nobody("capture") /\ Nobody("set_dense")
      BY <2>1, <2>3, NoneAssumption DEF AccessThread, AccessHolding, Nobody
    <3>2. CASE IsBuffer
      <4>1. IsRuns(store, V, Size)
        BY <2>1, <3>1, <3>2 DEF AccessMap, IsBuffer, Size
      <4>2. Len(store) \in Nat /\ DOMAIN store = 1..Len(store)
        BY <4>1, RunParts DEF IsRuns
      <4>3. ASSUME NEW r \in 2..Len(store)
            PROVE  /\ StartOf(store, r - 1) < StartOf(store, r)
                   /\ StartOf(store, r) < Size
                   /\ Value(store, r - 1) # Value(store, r)
        <5>1. r \in DOMAIN store /\ r - 1 \in DOMAIN store /\ r - 1 < r
          BY <4>2
        <5> QED
          BY <5>1, <4>1 DEF IsRuns, IsOrdered, Distinct
      <4>4. Canonical(store)
        BY <4>1, <4>3 DEF Canonical, IsRuns, IsOrdered, Distinct
      <4> QED
        BY <2>1, <3>2, <4>4
    <3>3. CASE ~IsBuffer
      <4>1. /\ store = None \/ IsDense(store, V, Size)
            /\ word.state = "dense" => IsDense(store, V, Size) /\ ~IsUniform(store)
            /\ word.state \in {"uniform", "dense"}
        <5>1. /\ word \in Words(tracker)
              /\ store = None \/ IsDense(store, V, Size)
              /\ word.state = "dense" => IsDense(store, V, Size) /\ ~IsUniform(store)
              /\ word.state # "promoting"
          BY <2>1, <3>1, <3>3 DEF AccessMap, IsBuffer, Size
        <5> QED
          BY <5>1, WordPut
      <4>2. IsDense(store, V, Size) => store # None /\ Counted(store)
        <5>1. None \notin [values : Seq(V), transitions : Nat]
          <6>1. tracker \in Trackers /\ tracker.kind # "claims" /\ ValuesOf(tracker) = V
            BY <2>1 DEF IsAccessTracker, IsAccess, ValuesOf
          <6> QED
            BY <6>1, NoneAssumption
        <5> QED
          BY <5>1 DEF IsDense, Counted, Differing
      <4> QED
        BY <2>1, <3>3, <4>1, <4>2 DEF MapCountsUnlocked
    <3> QED
      BY <3>2, <3>3
  <2> QED
    BY <2>1, <2>2, <2>3 DEF StoreInForm
<1> QED
  BY <1>1, AccessAlways, PTL

-----------------------------------------------------------------------------
(* What the tracker of accesses shows                                       *)

AbstractTo(k, o) ==
    [cells |-> Part(k, o.ranges[1]), update |-> [v \in AccessValues(k) |-> UpdatedIn(k, o, v)],
     answers |-> o.do # "set", reads |-> o.do = "read"]
CalledTo(k, ops) == [t \in Threads |-> IF ops[t] = None THEN None ELSE AbstractTo(k, ops[t])]

\* An access as an operation of the map
LEMMA AccessCall ==
    ASSUME IsAccessTracker, NEW t \in Users, NEW o \in tracker.ops[t], NEW a, a = AbstractTo(tracker, o)
    PROVE  /\ a # None /\ a.cells = Part(tracker, o.ranges[1]) /\ a.cells \subseteq 0..SizeOf(tracker) - 1
           /\ a.answers /\ (a.reads <=> o.do = "read")
           /\ \A v \in AccessValues(tracker) : a.update[v] = UpdatedIn(tracker, o, v)
<1> DEFINE V == AccessValues(tracker)
           f == [v \in V |-> UpdatedIn(tracker, o, v)]
           cells == Part(tracker, o.ranges[1])
<1>1. o.do # "set" /\ o.ranges[1] \in RangesOf(tracker)
  BY AccessOp
<1>2. f \in [V -> V]
  BY UpdatedIs, UpdatedTerms
<1>3. cells \subseteq 0..SizeOf(tracker) - 1 /\ cells \in SUBSET Nat
  <2>1. cells \subseteq Cells
    BY <1>1, RangeIs, Terms DEF IsAccessTracker
  <2>2. 0..SizeOf(tracker) - 1 \subseteq Nat
    BY OfParts
  <2> QED
    BY <2>1, <2>2, Terms
<1>4. \A v \in V : f[v] = UpdatedIn(tracker, o, v)
  OBVIOUS
<1>5. a = [cells |-> cells, update |-> f, answers |-> TRUE, reads |-> o.do = "read"]
  BY <1>1 DEF AbstractTo
<1>6. None \notin [cells : SUBSET Nat, update : [V -> V], answers : BOOLEAN, reads : BOOLEAN]
  BY NoneAssumption DEF IsAccessTracker, IsAccess, ValuesOf
<1> HIDE DEF f, cells, V
<1>7. a.cells = cells /\ a.update = f /\ a.answers /\ (a.reads <=> o.do = "read")
  <2>1. CASE o.do = "read"
    <3>1. a = [cells |-> cells, update |-> f, answers |-> TRUE, reads |-> TRUE]
      BY <2>1, <1>5
    <3> QED
      BY <2>1, <3>1
  <2>2. CASE o.do # "read"
    <3>1. a = [cells |-> cells, update |-> f, answers |-> TRUE, reads |-> FALSE]
      BY <2>2, <1>5
    <3> QED
      BY <2>2, <3>1
  <2> QED
    BY <2>1, <2>2
<1>8. a \in [cells : SUBSET Nat, update : [V -> V], answers : BOOLEAN, reads : BOOLEAN]
  BY <1>2, <1>3, <1>5
<1>9. a # None
  BY <1>6, <1>8
<1> QED
  BY <1>3, <1>4, <1>7, <1>9 DEF V, cells

\* The calls that the map is given
LEMMA AccessCalls == AccessInv => Called = CalledTo(tracker, op)
<1> SUFFICES ASSUME AccessInv PROVE Called = CalledTo(tracker, op)
  OBVIOUS
<1>1. IsAccess /\ ~IsSharing /\ ~IsClaims /\ IsAccessTracker
  BY DEF AccessInv, AccessTyped, IsAccessTracker, IsAccess, IsSharing, IsClaims
<1>2. ASSUME NEW u \in Threads, op[u] # None
      PROVE  Abstract(op[u]) = AbstractTo(tracker, op[u])
  <2> DEFINE o == op[u]
  <2>1. Len(o.ranges) = 1 /\ o.ranges \in Seq(RangesOf(tracker))
    <3>1. AccessThread(u)
      BY DEF AccessInv
    <3>2. u \in Users /\ o \in tracker.ops[u]
      BY <1>2, <3>1 DEF AccessThread
    <3> QED
      BY <3>2, <1>1, AccessOp
  <2> HIDE DEF o
  <2>2. UNION {CellsOf(r) : r \in ToSet(o.ranges)} = Part(tracker, o.ranges[1])
    <3>1. ToSet(o.ranges) = {o.ranges[1]}
      BY <2>1 DEF ToSet
    <3> QED
      BY <3>1, Terms
  <2>3. [v \in CellValues |-> CASE IsSharing -> IF o.do = "set" THEN o.value ELSE v
                                [] IsAccess -> Updated(o, v)
                                [] IsClaims -> Ignored]
            = [v \in AccessValues(tracker) |-> UpdatedIn(tracker, o, v)]
    <3>1. CellValues = AccessValues(tracker)
      BY <1>1 DEF CellValues, ValuesOf, IsAccess
    <3>2. \A v : Updated(o, v) = UpdatedIn(tracker, o, v)
      BY UpdatedTerms
    <3> QED
      BY <3>1, <3>2, <1>1
  <2>4. Abstract(o) = AbstractTo(tracker, o)
    BY <2>2, <2>3 DEF Abstract, AbstractTo
  <2> QED
    BY <2>4 DEF o
<1> QED
  BY <1>2 DEF Called, CalledTo

\* ... before and after a step
LEMMA AccessCallsNext == AccessInv' => Called' = CalledTo(tracker', op')
<1>1. AccessInv' => (Called = CalledTo(tracker, op))'
  BY AccessCalls, PTL
<1> QED
  BY <1>1

\* The answers that it is given: a thread that has something under way will have answered.
LEMMA AccessReplies ==
    ASSUME AccessInv
    PROVE  /\ IsFun(Replied)
           /\ \A u \in Threads : pc[u] \notin Under => Replied[u] = reply[u]
<1>1. Replied = [t \in Threads |-> AccessReply(t)]
  BY DEF Replied, AccessInv, AccessTyped, IsAccessTracker
<1>2. IsFun(Replied)
  <2>1. Replied \in [Threads -> {Replied[t] : t \in Threads}]
    BY <1>1
  <2> QED
    BY <2>1 DEF IsFun
<1>3. ASSUME NEW u \in Threads, pc[u] \notin Under
      PROVE  Replied[u] = reply[u]
  BY <1>1, <1>3 DEF AccessReply, Promoting, Iterating, Under
<1> QED
  BY <1>2, <1>3

\* The answer of a thread that promotes,
LEMMA PromotingReply ==
    ASSUME AccessInv, NEW t \in Threads, pc[t] \in {"capture", "set_dense"}
    PROVE  Replied[t] = LaidAnswer(AllOf(tracker, word.set), Part(tracker, op[t].ranges[1]))
<1> DEFINE b == AllOf(tracker, word.set)  cells == Part(tracker, op[t].ranges[1])
<1>1. Replied[t] = AccessReply(t)
  BY DEF Replied, AccessInv, AccessTyped, IsAccessTracker
<1>2. BeforeIs(b, cells) /\ lock = t /\ Promoting
  BY BeforePromoting
<1> HIDE DEF b, cells
<1>3. AccessReply(t) = Extended(<<>>, cells, b)
  BY <1>2 DEF AccessReply, BeforeIs
<1>4. DOMAIN <<>> = {}
  OBVIOUS
<1>5. Extended(<<>>, cells, b) = LaidAnswer(b, cells)
  BY <1>4 DEF Extended, LaidAnswer
<1> QED
  BY <1>1, <1>3, <1>5 DEF b, cells

\* and of one that has an iterator
LEMMA PiecesReply ==
    ASSUME AccessInv, NEW t \in Threads, pc[t] = "pieces"
    PROVE  Replied[t] = Extended(reply[t], Part(tracker, op[t].ranges[1]) \ DOMAIN reply[t],
                                 MapOf(tracker, ReadableOf(tracker, store, local[t])))
<1>1. Replied[t] = AccessReply(t)
  BY DEF Replied, AccessInv, AccessTyped, IsAccessTracker
<1>2. /\ BeforeIs(MapOf(tracker, ReadableOf(tracker, store, local[t])),
                  Part(tracker, op[t].ranges[1]) \ DOMAIN reply[t])
      /\ lock = t /\ Iterating /\ ~Promoting
  BY BeforePieces
<1> QED
  BY <1>1, <1>2 DEF AccessReply, BeforeIs

-----------------------------------------------------------------------------
Underway(t, c, r) ==
    /\ c = Contents /\ r = Replied[t]
    /\ \/ /\ pc[t] \in {"capture", "set_dense"}
          /\ c = Laid(tracker, op[t], AllOf(tracker, word.set), Part(tracker, op[t].ranges[1]))
          /\ r = LaidAnswer(AllOf(tracker, word.set), Part(tracker, op[t].ranges[1]))
       \/ /\ pc[t] = "pieces"
          /\ c = Laid(tracker, op[t], MapOf(tracker, ReadableOf(tracker, store, local[t])),
                      Part(tracker, op[t].ranges[1]) \ DOMAIN reply[t])
          /\ r = Extended(reply[t], Part(tracker, op[t].ranges[1]) \ DOMAIN reply[t],
                          MapOf(tracker, ReadableOf(tracker, store, local[t])))

\* What is shown while a thread has something under way
LEMMA UnderShows ==
    ASSUME AccessInv, NEW t \in Threads, pc[t] \in Under
    PROVE  Underway(t, Contents, Replied[t])
<1>1. CASE pc[t] \in {"capture", "set_dense"}
  BY <1>1, BeforePromoting, PromotingReply DEF Underway
<1>2. CASE pc[t] = "pieces"
  BY <1>2, BeforePieces, PiecesReply DEF Underway
<1> QED
  BY <1>1, <1>2 DEF Under

AccessShown ==
    /\ IsFun(Replied)
    /\ \A u \in Threads : pc[u] \notin Under => Replied[u] = reply[u]
    /\ \A u \in Threads : pc[u] \in Under => Underway(u, Contents, Replied[u])
    /\ (\A u \in Threads : pc[u] \notin Under) => Contents = BeforeOf(tracker, word, store)
    /\ Contents \in [0..SizeOf(tracker) - 1 -> AccessValues(tracker)]

\* All of this,
LEMMA AccessShows == AccessInv => AccessShown
BY AccessReplies, UnderShows, BeforeQuiet, AccessesTyped DEF AccessShown

\* after a step too
LEMMA AccessShowsNext == AccessInv' => AccessShown'
BY AccessShows, PTL

-----------------------------------------------------------------------------
(* Every step of the tracker of accesses is a step of the map               *)

\* Who waits for the answer of the map is a reader without an answer.
WaitersRead == \A u \in Threads : Waits(Called[u], Replied[u]) <=> Reading(op[u], reply[u])

LEMMA WaitersAre == AccessInv => WaitersRead
<1> SUFFICES ASSUME AccessInv, NEW u \in Threads
             PROVE  Waits(Called[u], Replied[u]) <=> Reading(op[u], reply[u])
  BY DEF WaitersRead
<1>1. AccessThread(u) /\ IsAccessTracker
  BY DEF AccessInv, AccessTyped
<1>2. CASE op[u] = None
  <2>1. Called[u] = None
    BY <1>2, AccessCalls DEF CalledTo
  <2> QED
    BY <2>1, <1>2 DEF Waits, Reading
<1>3. CASE op[u] # None
  <2>1. Called[u] = AbstractTo(tracker, op[u]) /\ u \in Users /\ op[u] \in tracker.ops[u]
    BY <1>1, <1>3, AccessCalls DEF CalledTo, AccessThread
  <2>2. Called[u] # None /\ (Called[u].reads <=> op[u].do = "read")
    BY <2>1, <1>1, AccessCall
  <2>3. op[u].do = "read" => Replied[u] = reply[u]
    <3>1. op[u].do = "read" => pc[u] \notin Under
      BY <1>1 DEF AccessThread, Under
    <3> QED
      BY <3>1, AccessReplies
  <2> QED
    BY <1>3, <2>2, <2>3 DEF Waits, Reading
<1> QED
  BY <1>2, <1>3

\* ... also after a step.
LEMMA WaitersNext == AccessInv' => WaitersRead'
BY WaitersAre, PTL

\* What is remembered for a reader has the map as it is, and what was in the word when it saw it.
AccessPast ==
    /\ \A u \in Threads : IF Waits(Called[u], Replied[u]) THEN Contents \in past[u] ELSE past[u] = {}
    /\ \A u \in Threads : pc[u] = "load_set" => AllOf(tracker, word.set) \in past[u]

\* A step, after which the invariant holds, and which leaves to whoever has something under way what is his
AccessMapStep(t) ==
    /\ AccessInv /\ AccessPast /\ AccessInv' /\ Remember /\ t \in Users /\ OnlyThread(t)
    /\ (\A u \in Threads : u # t => pc[u] \notin Under) \/ (word' = word /\ store' = store)

\* What a step says of the threads
LEMMA AccessStepParts ==
    ASSUME NEW t, AccessMapStep(t)
    PROVE  /\ t \in Threads /\ t \in Users /\ IsAccessTracker /\ tracker' = tracker /\ AccessThread(t)
           /\ IsFun(op) /\ IsFun(local) /\ IsFun(reply) /\ pc \in [Threads -> AccessLabels]
           /\ \A u \in Threads : u # t => /\ op'[u] = op[u] /\ local'[u] = local[u] /\ reply'[u] = reply[u]
                                          /\ pc'[u] = pc[u]
           /\ AccessShown /\ AccessShown'
           /\ Called = CalledTo(tracker, op) /\ Called' = CalledTo(tracker, op')
BY AccessFrom, AccessShows, AccessShowsNext, AccessCalls, AccessCallsNext DEF AccessMapStep, OnlyThread, IsPut

LEMMA OthersShow ==
    ASSUME NEW t, AccessMapStep(t), NEW u \in Threads, u # t
    PROVE  Called'[u] = Called[u] /\ Replied'[u] = Replied[u]
<1>1. Called'[u] = Called[u]
  BY AccessStepParts DEF CalledTo
<1>2. pc'[u] = pc[u] /\ reply'[u] = reply[u] /\ op'[u] = op[u] /\ local'[u] = local[u] /\ tracker' = tracker
  BY AccessStepParts
<1>3. ASSUME pc[u] \notin Under
      PROVE  Replied'[u] = Replied[u]
  <2>1. pc'[u] \notin Under
    BY <1>2, <1>3
  <2>2. Replied[u] = reply[u]
    BY <1>3, AccessStepParts DEF AccessShown
  <2>3. Replied'[u] = reply'[u]
    BY <2>1, AccessStepParts DEF AccessShown
  <2> QED
    BY <1>2, <2>2, <2>3
<1>4. ASSUME pc[u] \in Under
      PROVE  Replied'[u] = Replied[u]
  <2>1. word' = word /\ store' = store
    BY <1>4 DEF AccessMapStep
  <2>2. Underway(u, Contents, Replied[u])
    BY <1>4, AccessStepParts DEF AccessShown
  <2>3. Underway(u, Contents, Replied[u])'
    <3>1. pc'[u] \in Under
      BY <1>2, <1>4
    <3> QED
      BY <3>1, AccessStepParts DEF AccessShown
  <2>4. CASE pc[u] \in {"capture", "set_dense"}
    <3>1. Replied[u] = LaidAnswer(AllOf(tracker, word.set), Part(tracker, op[u].ranges[1]))
      BY <2>2, <2>4 DEF Underway
    <3>2. Replied'[u] = LaidAnswer(AllOf(tracker', word'.set), Part(tracker', op'[u].ranges[1]))
      BY <2>3, <2>4, <1>2 DEF Underway
    <3> QED
      BY <3>1, <3>2, <2>1, <1>2
  <2>5. CASE pc[u] = "pieces"
    <3>1. Replied[u] = Extended(reply[u], Part(tracker, op[u].ranges[1]) \ DOMAIN reply[u],
                                MapOf(tracker, ReadableOf(tracker, store, local[u])))
      BY <2>2, <2>5 DEF Underway
    <3>2. Replied'[u] = Extended(reply'[u], Part(tracker', op'[u].ranges[1]) \ DOMAIN reply'[u],
                                 MapOf(tracker', ReadableOf(tracker', store', local'[u])))
      BY <2>3, <2>5, <1>2 DEF Underway
    <3> QED
      BY <3>1, <3>2, <2>1, <1>2
  <2> QED
    BY <1>4, <2>4, <2>5 DEF Under
<1> QED
  BY <1>1, <1>3, <1>4

\* What is called is a function.
LEMMA CalledToFun ==
    ASSUME NEW k, NEW ops
    PROVE  IsFun(CalledTo(k, ops))
<1> DEFINE f == CalledTo(k, ops)
<1>1. f \in [Threads -> {f[u] : u \in Threads}]
  BY DEF CalledTo
<1> HIDE DEF f
<1>2. IsFun(f)
  BY <1>1 DEF IsFun
<1> QED
  BY <1>2 DEF f

\* A step shows what the map needs.
LEMMA AccessStepShows ==
    ASSUME NEW t, AccessMapStep(t)
    PROVE  Shows(t)
<1>1. IsFun(Called) /\ IsFun(Called') /\ IsFun(Replied) /\ IsFun(Replied')
  BY AccessStepParts, CalledToFun DEF AccessShown
<1>2. IsFun(past) /\ IsFun(past')
  <2>1. AccessTyped
    BY DEF AccessMapStep, AccessInv
  <2> QED
    BY <2>1, RememberIs DEF AccessMapStep, AccessTyped
<1>3. \A u \in Threads : past'[u] = IF Waits(Called'[u], Replied'[u]) THEN past[u] \cup {Contents'} ELSE {}
  <2>1. Remembered(past, op', reply', Contents', past')
    BY RememberIs DEF AccessMapStep
  <2>2. WaitersRead'
    BY WaitersNext DEF AccessMapStep
  <2> QED
    BY <2>1, <2>2 DEF Remembered, WaitersRead
<1>4. \A u \in Threads : IF Waits(Called[u], Replied[u]) THEN Contents \in past[u] ELSE past[u] = {}
  BY DEF AccessMapStep, AccessPast
<1>5. t \in Threads
  BY AccessStepParts
<1>6. \A u \in Threads : u # t => Called'[u] = Called[u] /\ Replied'[u] = Replied[u]
  BY OthersShow
<1> QED
  BY <1>1, <1>2, <1>3, <1>4, <1>5, <1>6 DEF Shows

AccessMapNext == AccessPast' /\ MapNext

\* The set that a reader saw in the word is still there, or it is what the whole map has.
Settled(t) ==
    /\ word' = word \/ word'.set = word.set \/ Contents' = AllOf(tracker, word'.set)
    /\ pc'[t] = "load_set" => Contents' = AllOf(tracker, word'.set)

\* What is remembered for readers after a step
LEMMA PastStays ==
    ASSUME NEW t, AccessMapStep(t), Settled(t)
    PROVE  AccessPast'
<1>1. Shows(t) /\ tracker' = tracker /\ AccessInv'
  BY AccessStepShows, AccessStepParts DEF AccessMapStep
<1>2. ASSUME NEW u \in Threads
      PROVE  IF Waits(Called'[u], Replied'[u]) THEN Contents' \in past'[u] ELSE past'[u] = {}
  BY <1>1 DEF Shows
<1>3. ASSUME NEW u \in Threads, pc'[u] = "load_set"
      PROVE  AllOf(tracker, word'.set) \in past'[u]
  <2>1. AccessThread(u)'
    BY <1>1 DEF AccessInv
  <2>2. Reading(op'[u], reply'[u])
    <3>1. op'[u] # None /\ reply'[u] = None /\ op'[u].do = "read"
      BY <2>1, <1>3 DEF AccessThread, AccessAnswered
    <3> QED
      BY <3>1 DEF Reading
  <2>3. Waits(Called'[u], Replied'[u])
    <3>1. WaitersRead'
      BY <1>1, WaitersNext
    <3> QED
      BY <3>1, <2>2 DEF WaitersRead
  <2>4. past'[u] = past[u] \cup {Contents'}
    BY <2>3, <1>1 DEF Shows
  <2>5. CASE Contents' = AllOf(tracker, word'.set)
    BY <2>4, <2>5
  <2>6. CASE Contents' # AllOf(tracker, word'.set)
    <3>1. u # t /\ word'.set = word.set
      BY <2>6, <1>3 DEF Settled
    <3>2. pc[u] = "load_set"
      BY <3>1, <1>3, AccessStepParts
    <3>3. AllOf(tracker, word.set) \in past[u]
      BY <3>2 DEF AccessMapStep, AccessPast
    <3> QED
      BY <3>1, <3>3, <2>4
  <2> QED
    BY <2>5, <2>6
<1> QED
  BY <1>1, <1>2, <1>3 DEF AccessPast

\* The call of a thread that goes on with its operation
LEMMA CalledParts ==
    ASSUME NEW t, AccessMapStep(t), op[t] # None, op'[t] = op[t]
    PROVE  /\ op[t] \in tracker.ops[t] /\ Called'[t] = Called[t]
           /\ \E a : /\ Called[t] = a /\ a # None /\ a.cells = Part(tracker, op[t].ranges[1])
                     /\ a.cells \subseteq 0..SizeOf(tracker) - 1
                     /\ a.answers /\ (a.reads <=> op[t].do = "read")
                     /\ \A v \in AccessValues(tracker) : a.update[v] = UpdatedIn(tracker, op[t], v)
<1>1. /\ t \in Threads /\ t \in Users /\ IsAccessTracker /\ tracker' = tracker /\ AccessThread(t)
      /\ Called = CalledTo(tracker, op) /\ Called' = CalledTo(tracker', op')
  BY AccessStepParts
<1>2. op[t] \in tracker.ops[t]
  BY <1>1 DEF AccessThread
<1> DEFINE a == AbstractTo(tracker, op[t])
<1>3. Called[t] = a /\ Called'[t] = a
  BY <1>1 DEF CalledTo
<1>4. /\ a # None /\ a.cells = Part(tracker, op[t].ranges[1])
      /\ a.cells \subseteq 0..SizeOf(tracker) - 1
      /\ a.answers /\ (a.reads <=> op[t].do = "read")
      /\ \A v \in AccessValues(tracker) : a.update[v] = UpdatedIn(tracker, op[t], v)
  BY <1>1, <1>2, AccessCall
<1> HIDE DEF a
<1> QED
  BY <1>2, <1>3, <1>4

\* A step in which nothing is to be seen,
LEMMA AccessStutters ==
    ASSUME NEW t, AccessMapStep(t), Settled(t), op'[t] = op[t], Replied'[t] = Replied[t], Contents' = Contents
    PROVE  AccessMapNext
<1>1. Called'[t] = Called[t]
  BY AccessStepParts DEF CalledTo
<1>2. UNCHANGED Map!vars
  BY <1>1, AccessStepShows, ShowsNothing
<1> QED
  BY <1>2, PastStays DEF AccessMapNext, MapNext

\* one in which an operation takes effect on all of its cells,
LEMMA AccessUpdates ==
    ASSUME NEW t, AccessMapStep(t), Settled(t), op[t] # None, op[t].do # "read", op'[t] = op[t],
           Replied[t] = None,
           Contents' = Laid(tracker, op[t], Contents, Part(tracker, op[t].ranges[1])),
           Replied'[t] = LaidAnswer(Contents, Part(tracker, op[t].ranges[1]))
    PROVE  AccessMapNext
<1>1. PICK a : /\ Called[t] = a /\ a # None /\ a.cells = Part(tracker, op[t].ranges[1])
               /\ a.cells \subseteq 0..SizeOf(tracker) - 1
               /\ a.answers /\ (a.reads <=> op[t].do = "read")
               /\ \A v \in AccessValues(tracker) : a.update[v] = UpdatedIn(tracker, op[t], v)
  BY CalledParts
<1>2. Called'[t] = a /\ t \in Threads
  BY <1>1, CalledParts, AccessStepParts
<1>3. Contents \in [0..SizeOf(tracker) - 1 -> AccessValues(tracker)]
  BY AccessStepParts DEF AccessShown
<1> DEFINE m == Contents
<1>4. Contents' = [c \in DOMAIN m |-> IF c \in a.cells THEN a.update[m[c]] ELSE m[c]]
  <2>1. m \in [0..SizeOf(tracker) - 1 -> AccessValues(tracker)]
    BY <1>3
  <2> HIDE DEF m
  <2>2. \A c \in DOMAIN m : a.update[m[c]] = UpdatedIn(tracker, op[t], m[c])
    BY <2>1, <1>1
  <2>3. Contents' = [c \in 0..SizeOf(tracker) - 1 |->
                        IF c \in a.cells THEN UpdatedIn(tracker, op[t], m[c]) ELSE m[c]]
    BY <1>1 DEF Laid, m
  <2> QED
    BY <2>1, <2>2, <2>3
<1>5. Replied'[t] = Map!Answer(a, m)
  BY <1>1 DEF LaidAnswer, Map!Answer
<1>6. Map!Update(t)
  BY <1>1, <1>2, <1>4, <1>5, AccessStepShows, ShowsUpdate
<1> QED
  BY <1>2, <1>6, PastStays DEF AccessMapNext, MapNext, Map!Next

\* and one in which a reader has its answer
LEMMA AccessReads ==
    ASSUME NEW t, AccessMapStep(t), Settled(t), op[t] # None, op[t].do = "read", op'[t] = op[t],
           Replied[t] = None, Contents' = Contents, NEW m, m \in past[t],
           Replied'[t] = LaidAnswer(m, Part(tracker, op[t].ranges[1])), Replied'[t] # None
    PROVE  AccessMapNext
<1>1. PICK a : /\ Called[t] = a /\ a # None /\ a.cells = Part(tracker, op[t].ranges[1])
               /\ a.cells \subseteq 0..SizeOf(tracker) - 1
               /\ a.answers /\ (a.reads <=> op[t].do = "read")
               /\ \A v \in AccessValues(tracker) : a.update[v] = UpdatedIn(tracker, op[t], v)
  BY CalledParts
<1>2. Called'[t] = a /\ t \in Threads
  BY <1>1, CalledParts, AccessStepParts
<1>3. Replied'[t] = Map!Answer(a, m)
  BY <1>1 DEF LaidAnswer, Map!Answer
<1>4. Map!Read(t)
  BY <1>1, <1>2, <1>3, AccessStepShows, ShowsRead
<1> QED
  BY <1>2, <1>4, PastStays DEF AccessMapNext, MapNext, Map!Next

\* The map of a step that touches neither word nor store, of a thread that has nothing under way
LEMMA QuietSame ==
    ASSUME NEW t, AccessMapStep(t), pc[t] \notin Under, pc'[t] \notin Under, word' = word, store' = store
    PROVE  Contents' = Contents /\ Replied[t] = reply[t] /\ Replied'[t] = reply'[t]
<1>1. /\ t \in Threads /\ tracker' = tracker /\ AccessShown /\ AccessShown'
      /\ \A u \in Threads : u # t => /\ op'[u] = op[u] /\ local'[u] = local[u] /\ reply'[u] = reply[u]
                                     /\ pc'[u] = pc[u]
  BY AccessStepParts
<1>2. Replied[t] = reply[t] /\ Replied'[t] = reply'[t]
  BY <1>1 DEF AccessShown
<1>3. ASSUME \A u \in Threads : pc[u] \notin Under
      PROVE  Contents' = Contents
  <2>1. \A u \in Threads : pc'[u] \notin Under
    BY <1>1, <1>3
  <2>2. Contents = BeforeOf(tracker, word, store)
    BY <1>1, <1>3 DEF AccessShown
  <2>3. Contents' = BeforeOf(tracker', word', store')
    BY <1>1, <2>1 DEF AccessShown
  <2> QED
    BY <2>2, <2>3, <1>1
<1>4. ASSUME NEW u \in Threads, pc[u] \in Under
      PROVE  Contents' = Contents
  <2>1. u # t /\ pc'[u] = pc[u] /\ op'[u] = op[u] /\ local'[u] = local[u] /\ reply'[u] = reply[u]
    BY <1>1, <1>4
  <2>2. Underway(u, Contents, Replied[u])
    BY <1>1, <1>4 DEF AccessShown
  <2>3. Underway(u, Contents, Replied[u])'
    <3>1. pc'[u] \in Under
      BY <1>4, <2>1
    <3> QED
      BY <3>1, <1>1 DEF AccessShown
  <2>4. CASE pc[u] \in {"capture", "set_dense"}
    <3>1. Contents = Laid(tracker, op[u], AllOf(tracker, word.set), Part(tracker, op[u].ranges[1]))
      BY <2>2, <2>4 DEF Underway
    <3>2. Contents' = Laid(tracker', op'[u], AllOf(tracker', word'.set), Part(tracker', op'[u].ranges[1]))
      BY <2>3, <2>4, <2>1 DEF Underway
    <3> QED
      BY <3>1, <3>2, <1>1, <2>1
  <2>5. CASE pc[u] = "pieces"
    <3>1. Contents = Laid(tracker, op[u], MapOf(tracker, ReadableOf(tracker, store, local[u])),
                          Part(tracker, op[u].ranges[1]) \ DOMAIN reply[u])
      BY <2>2, <2>5 DEF Underway
    <3>2. Contents' = Laid(tracker', op'[u], MapOf(tracker', ReadableOf(tracker', store', local'[u])),
                           Part(tracker', op'[u].ranges[1]) \ DOMAIN reply'[u])
      BY <2>3, <2>5, <2>1 DEF Underway
    <3> QED
      BY <3>1, <3>2, <1>1, <2>1
  <2> QED
    BY <1>4, <2>4, <2>5 DEF Under
<1> QED
  BY <1>2, <1>3, <1>4

\* An action of a thread is such a step.
LEMMA StepIs ==
    ASSUME AccessInv, AccessPast, NEW t \in Users, AccessStep(t), Remember,
           (\A u \in Threads : u # t => pc[u] \notin Under) \/ (word' = word /\ store' = store)
    PROVE  AccessMapStep(t)
BY AccessMoves, AccessStepKeeps DEF AccessMapStep

\* What a step of a thread that is at work starts from
LEMMA AccessStepFrom ==
    ASSUME AccessInv, NEW t \in Users, pc[t] # "idle"
    PROVE  /\ t \in Threads /\ IsAccessTracker /\ AccessThread(t) /\ AccessMap
           /\ IsFun(op) /\ IsFun(local) /\ IsFun(reply) /\ pc \in [Threads -> AccessLabels]
           /\ op[t] # None /\ op[t] \in tracker.ops[t] /\ op[t].ranges[1] \in RangesOf(tracker)
           /\ tracker.of = "image" => word \in Words(tracker) /\ word.set \in AccessValues(tracker)
<1>1. /\ t \in Threads /\ IsAccessTracker /\ AccessThread(t) /\ AccessMap
      /\ IsFun(op) /\ IsFun(local) /\ IsFun(reply) /\ pc \in [Threads -> AccessLabels]
      /\ op[t] # None /\ op[t] \in tracker.ops[t]
  BY AccessFrom
<1>2. op[t].ranges[1] \in RangesOf(tracker)
  BY <1>1, AccessOp
<1>3. ASSUME tracker.of = "image"
      PROVE  word \in Words(tracker) /\ word.set \in AccessValues(tracker)
  <2>1. word \in Words(tracker)
    BY <1>1, <1>3, OfParts DEF AccessMap
  <2> QED
    BY <2>1, WordPut
<1> QED
  BY <1>1, <1>2, <1>3

\* An answer in the words of the map
LEMMA AnswerTerms ==
    ASSUME NEW t, NEW m, NEW v
    PROVE  /\ AnswerOf(t, m) = LaidAnswer(m, Part(tracker, op[t].ranges[1]))
           /\ Everywhere(v) = AllOf(tracker, v)
BY Terms DEF AnswerOf, LaidAnswer, Everywhere, AllOf

\* What a reply is after a thread has given it
LEMMA Replies ==
    ASSUME IsFun(reply), NEW t \in Threads, NEW a, reply' = [reply EXCEPT ![t] = a]
    PROVE  reply'[t] = a
<1>1. IsPut(reply', reply, t, a)
  BY Excepted, Zenon
<1> QED
  BY <1>1 DEF IsPut

\* The map while the word counts for everything
LEMMA UniformContents ==
    ASSUME AccessInv, tracker.of = "image", word.state = "uniform"
    PROVE  Contents = AllOf(tracker, word.set)
<1>1. \A u \in Threads : pc[u] \notin Under
  BY UniformAlone
<1>2. Contents = BeforeOf(tracker, word, store)
  BY <1>1, BeforeQuiet
<1> QED
  BY <1>2 DEF BeforeOf

\* also after a step
LEMMA UniformNext ==
    AccessInv' /\ tracker'.of = "image" /\ word'.state = "uniform" => Contents' = AllOf(tracker', word'.set)
<1>1. (AccessInv /\ tracker.of = "image" /\ word.state = "uniform" => Contents = AllOf(tracker, word.set))'
  BY UniformContents, PTL
<1> QED
  BY <1>1

\* A call of the tracker is one of the map,
LEMMA CallAccessStep ==
    ASSUME AccessInv, AccessPast, NEW t \in Users, CallAccess(t), Remember
    PROVE  AccessMapNext
<1>1. /\ pc[t] = "idle" /\ tracker' = tracker /\ word' = word /\ store' = store /\ reply' = reply
      /\ \E o \in tracker.ops[t] : op' = [op EXCEPT ![t] = o]
      /\ pc' = [pc EXCEPT ![t] = "lock"] \/ pc' = [pc EXCEPT ![t] = "load"]
  BY DEF CallAccess, Begin, Goto
<1>2. PICK o \in tracker.ops[t] : op' = [op EXCEPT ![t] = o]
  BY <1>1
<1>3. /\ t \in Threads /\ IsAccessTracker /\ AccessThread(t) /\ IsFun(op)
      /\ pc \in [Threads -> AccessLabels]
  BY AccessFrom
<1>4. AccessMapStep(t)
  BY <1>1, StepIs DEF AccessStep
<1>5. op'[t] = o
  <2>1. IsPut(op', op, t, o)
    BY <1>2, <1>3, Excepted, Zenon
  <2> QED
    BY <2>1 DEF IsPut
<1>6. op[t] = None /\ reply[t] = None /\ pc'[t] \in {"lock", "load"}
  BY <1>1, <1>3 DEF AccessThread, AccessAnswered
<1>7. Contents' = Contents /\ Replied[t] = None /\ Replied'[t] = None
  <2>1. pc[t] \notin Under /\ pc'[t] \notin Under
    BY <1>1, <1>6 DEF Under
  <2> QED
    BY <2>1, <1>1, <1>4, <1>6, QuietSame
<1> DEFINE a == AbstractTo(tracker, o)
<1>8. Called[t] = None /\ Called'[t] = a
  <2>1. o # None
    BY <1>3, AccessOp
  <2> QED
    BY <2>1, <1>3, <1>4, <1>5, <1>6, AccessStepParts DEF CalledTo
<1>9. a # None /\ a.cells \subseteq 0..SizeOf(tracker) - 1
  <2>1. /\ a # None /\ a.cells = Part(tracker, o.ranges[1]) /\ a.cells \subseteq 0..SizeOf(tracker) - 1
    BY <1>3, AccessCall
  <2> QED
    BY <2>1
<1> HIDE DEF a
<1>10. DOMAIN Contents = 0..SizeOf(tracker) - 1
  BY <1>4, AccessStepParts DEF AccessShown
<1>11. Map!Call(t)
  BY <1>4, <1>7, <1>8, <1>9, <1>10, AccessStepShows, ShowsCall
<1>12. Settled(t)
  BY <1>1, <1>6 DEF Settled
<1> QED
  BY <1>3, <1>4, <1>11, <1>12, PastStays DEF AccessMapNext, MapNext, Map!Next

\* a return one of its returns,
LEMMA EndAccessStep ==
    ASSUME AccessInv, AccessPast, NEW t \in Users, Unlock(t) \/ Return(t), Remember
    PROVE  AccessMapNext
<1>1. /\ pc[t] \in {"unlock", "return"} /\ tracker' = tracker /\ word' = word /\ store' = store
      /\ op' = [op EXCEPT ![t] = None] /\ reply' = [reply EXCEPT ![t] = None]
      /\ pc' = [pc EXCEPT ![t] = "idle"]
  BY DEF Unlock, Return, Idle, Goto, Reply
<1>2. pc[t] # "idle"
  BY <1>1
<1>3. /\ t \in Threads /\ IsAccessTracker /\ AccessThread(t) /\ IsFun(op) /\ IsFun(reply)
      /\ pc \in [Threads -> AccessLabels] /\ op[t] # None /\ op[t] \in tracker.ops[t]
  BY <1>2, AccessStepFrom
<1>4. AccessMapStep(t)
  BY <1>1, StepIs DEF AccessStep
<1>5. op'[t] = None /\ reply'[t] = None /\ pc'[t] = "idle"
  <2>1. IsPut(op', op, t, None)
    BY <1>1, <1>3, Excepted, Zenon
  <2>2. reply'[t] = None
    BY <1>1, <1>3, Replies
  <2> QED
    BY <2>1, <2>2, <1>1, <1>3 DEF IsPut
<1>6. Contents' = Contents /\ Replied[t] = reply[t] /\ Replied'[t] = None
  <2>1. pc[t] \notin Under /\ pc'[t] \notin Under
    BY <1>1, <1>5 DEF Under
  <2> QED
    BY <2>1, <1>1, <1>4, <1>5, QuietSame
<1>7. reply[t] # None
  BY <1>1, <1>3 DEF AccessThread, AccessAnswered
<1>8. Called[t] # None /\ Called'[t] = None
  <2>1. Called[t] = AbstractTo(tracker, op[t]) /\ Called'[t] = None
    BY <1>3, <1>4, <1>5, AccessStepParts DEF CalledTo
  <2>2. AbstractTo(tracker, op[t]) # None
    BY <1>3, AccessCall
  <2> QED
    BY <2>1, <2>2
<1>9. Map!Return(t)
  BY <1>4, <1>6, <1>7, <1>8, AccessStepShows, ShowsReturn
<1>10. Settled(t)
  BY <1>1, <1>5 DEF Settled
<1> QED
  BY <1>3, <1>4, <1>9, <1>10, PastStays DEF AccessMapNext, MapNext, Map!Next

\* and taking the lock is none.
LEMMA LockAccessStep ==
    ASSUME AccessInv, AccessPast, NEW t \in Users, Lock(t), Remember
    PROVE  AccessMapNext
<1>1. /\ pc[t] = "lock" /\ tracker' = tracker /\ word' = word /\ store' = store /\ op' = op /\ reply' = reply
      /\ pc' = [pc EXCEPT ![t] = "locked"]
  BY DEF Lock, Goto
<1>2. pc'[t] = "locked"
  BY <1>1, AccessFrom
<1>3. AccessMapStep(t)
  BY <1>1, StepIs DEF AccessStep
<1>4. Contents' = Contents /\ Replied[t] = reply[t] /\ Replied'[t] = reply'[t]
  <2>1. pc[t] \notin Under /\ pc'[t] \notin Under
    BY <1>1, <1>2 DEF Under
  <2> QED
    BY <2>1, <1>1, <1>3, QuietSame
<1>5. Settled(t)
  BY <1>1, <1>2 DEF Settled
<1> QED
  BY <1>1, <1>3, <1>4, <1>5, AccessStutters

\* The first load of a reader shows nothing: the set that it finds is what the map has.
LEMMA LoadStateStep ==
    ASSUME AccessInv, AccessPast, NEW t \in Users, LoadState(t), Remember
    PROVE  AccessMapNext
<1>1. /\ pc[t] = "load" /\ tracker' = tracker /\ word' = word /\ store' = store /\ op' = op /\ reply' = reply
      /\ pc' = [pc EXCEPT ![t] = IF word.state = "uniform" THEN "load_set" ELSE "lock"]
  BY DEF LoadState, Goto
<1>2. /\ t \in Threads /\ IsAccessTracker /\ AccessThread(t) /\ pc \in [Threads -> AccessLabels]
  BY <1>1, AccessStepFrom
<1>3. pc'[t] = (IF word.state = "uniform" THEN "load_set" ELSE "lock") /\ tracker.of = "image"
  BY <1>1, <1>2 DEF AccessThread
<1>4. AccessMapStep(t)
  BY <1>1, StepIs DEF AccessStep
<1>5. Contents' = Contents /\ Replied[t] = reply[t] /\ Replied'[t] = reply'[t]
  <2>1. pc[t] \notin Under /\ pc'[t] \notin Under
    BY <1>1, <1>3 DEF Under
  <2> QED
    BY <2>1, <1>1, <1>4, QuietSame
<1>6. Settled(t)
  <2>1. pc'[t] = "load_set" => Contents = AllOf(tracker, word.set)
    BY <1>3, UniformContents
  <2> QED
    BY <2>1, <1>1, <1>5 DEF Settled
<1> QED
  BY <1>1, <1>4, <1>5, <1>6, AccessStutters

\* The second answers with it, although the map may be another by now,
LEMMA LoadSetStep ==
    ASSUME AccessInv, AccessPast, NEW t \in Users, LoadSet(t), Remember
    PROVE  AccessMapNext
<1> DEFINE m == AllOf(tracker, word.set)  r == AnswerOf(t, Everywhere(word.set))
<1>1. /\ pc[t] = "load_set" /\ tracker' = tracker /\ word' = word /\ store' = store /\ op' = op
      /\ reply' = [reply EXCEPT ![t] = r] /\ pc' = [pc EXCEPT ![t] = "return"]
  BY DEF LoadSet, Goto, Reply
<1>2. /\ t \in Threads /\ IsAccessTracker /\ AccessThread(t) /\ pc \in [Threads -> AccessLabels]
      /\ op[t] # None /\ IsFun(reply)
  BY <1>1, AccessStepFrom
<1>3. r = LaidAnswer(m, Part(tracker, op[t].ranges[1]))
  BY AnswerTerms
<1>4. m \in past[t]
  BY <1>1, <1>2 DEF AccessPast
<1> HIDE DEF m, r
<1>5. pc'[t] = "return" /\ reply'[t] = r
  BY <1>1, <1>2, Replies
<1>6. AccessMapStep(t)
  BY <1>1, StepIs DEF AccessStep
<1>7. Contents' = Contents /\ Replied[t] = reply[t] /\ Replied'[t] = reply'[t]
  <2>1. pc[t] \notin Under /\ pc'[t] \notin Under
    BY <1>1, <1>5 DEF Under
  <2> QED
    BY <2>1, <1>1, <1>6, QuietSame
<1>8. reply[t] = None /\ op[t].do = "read"
  BY <1>1, <1>2 DEF AccessThread, AccessAnswered
<1>9. reply'[t] # None
  <2>1. AccessThread(t)'
    BY <1>2, <1>6 DEF AccessMapStep, AccessInv
  <2> QED
    BY <2>1, <1>5 DEF AccessThread, AccessAnswered
<1>10. Settled(t)
  BY <1>1, <1>5 DEF Settled
<1> QED
  BY <1>1, <1>2, <1>3, <1>4, <1>5, <1>6, <1>7, <1>8, <1>9, <1>10, AccessReads

\* and a reader under the lock with what the map has.
LEMMA ReadAccessStep ==
    ASSUME AccessInv, AccessPast, NEW t \in Users, ReadAccessLocked(t), Remember
    PROVE  AccessMapNext
<1> DEFINE m == IF ~IsBuffer /\ word.state = "uniform" THEN Everywhere(word.set)
                ELSE [c \in Cells |-> StoredAt(c)]
           r == AnswerOf(t, m)
<1>1. /\ pc[t] = "locked" /\ op[t].do = "read" /\ tracker' = tracker /\ word' = word /\ store' = store
      /\ op' = op /\ reply' = [reply EXCEPT ![t] = r] /\ pc' = [pc EXCEPT ![t] = "unlock"]
  BY DEF ReadAccessLocked, Goto, Reply
<1>2. /\ t \in Threads /\ IsAccessTracker /\ AccessThread(t) /\ pc \in [Threads -> AccessLabels]
      /\ op[t] # None /\ IsFun(reply)
  BY <1>1, AccessStepFrom
<1>3. r = LaidAnswer(m, Part(tracker, op[t].ranges[1]))
  BY AnswerTerms
<1>4. m = Contents
  <2>1. pc[t] \in AccessHolding \ Under
    BY <1>1 DEF AccessHolding, Under
  <2>2. /\ \A u \in Threads : pc[u] \notin Under
        /\ tracker.of = "image" => word.state \in {"uniform", "dense"}
    BY <2>1, LockedFinds
  <2>3. Contents = BeforeOf(tracker, word, store)
    BY <2>2, BeforeQuiet
  <2>4. [c \in Cells |-> StoredAt(c)] = MapOf(tracker, store)
    BY Terms DEF MapOf
  <2>5. Everywhere(word.set) = AllOf(tracker, word.set)
    BY AnswerTerms
  <2> QED
    BY <2>2, <2>3, <2>4, <2>5, <1>2, OfParts DEF BeforeOf
<1> HIDE DEF m, r
<1>5. pc'[t] = "unlock" /\ reply'[t] = r
  BY <1>1, <1>2, Replies
<1>6. AccessMapStep(t)
  BY <1>1, StepIs DEF AccessStep
<1>7. Contents' = Contents /\ Replied[t] = reply[t] /\ Replied'[t] = reply'[t]
  <2>1. pc[t] \notin Under /\ pc'[t] \notin Under
    BY <1>1, <1>5 DEF Under
  <2> QED
    BY <2>1, <1>1, <1>6, QuietSame
<1>8. reply[t] = None
  BY <1>1, <1>2 DEF AccessThread, AccessAnswered
<1>9. reply'[t] # None
  <2>1. AccessThread(t)'
    BY <1>2, <1>6 DEF AccessMapStep, AccessInv
  <2> QED
    BY <2>1, <1>5 DEF AccessThread, AccessAnswered
<1>10. Settled(t)
  BY <1>1, <1>5 DEF Settled
<1>11. m \in past[t]
  <2>1. Waits(Called[t], Replied[t])
    <3>1. Reading(op[t], reply[t])
      BY <1>1, <1>2, <1>8 DEF Reading
    <3> QED
      BY <3>1, <1>2, WaitersAre DEF WaitersRead
  <2> QED
    BY <2>1, <1>2, <1>4 DEF AccessPast
<1> QED
  BY <1>1, <1>2, <1>3, <1>5, <1>6, <1>7, <1>8, <1>9, <1>10, <1>11, AccessReads

\* An operation that changes nothing answers without the lock and takes effect then,
LEMMA DecideStep ==
    ASSUME AccessInv, AccessPast, NEW t \in Users, AccessStep(t), Remember, pc[t] \in {"load", "exchange"},
           op[t].do # "read", Decide(t, word),
           tracker' = tracker, word' = word, store' = store, op' = op
    PROVE  AccessMapNext
<1> DEFINE o == op[t]  cells == Part(tracker, o.ranges[1])  m == AllOf(tracker, word.set)
           r == AnswerOf(t, Everywhere(word.set))
<1>1. /\ t \in Threads /\ IsAccessTracker /\ AccessThread(t) /\ pc \in [Threads -> AccessLabels]
      /\ o # None /\ IsFun(reply)
      /\ tracker.of = "image" => word \in Words(tracker) /\ word.set \in AccessValues(tracker)
  BY AccessStepFrom
<1>2. tracker.of = "image" /\ reply[t] = None
  BY <1>1 DEF AccessThread, AccessAnswered
<1>3. AccessMapStep(t)
  BY StepIs
<1>4. \/ pc' = [pc EXCEPT ![t] = "lock"] /\ reply' = reply
      \/ pc' = [pc EXCEPT ![t] = "exchange"] /\ reply' = reply
      \/ /\ pc' = [pc EXCEPT ![t] = "return"] /\ word.state = "uniform"
         /\ Updated(o, word.set) = word.set /\ reply' = [reply EXCEPT ![t] = r]
  BY DEF Decide, Goto, Reply
<1>5. pc'[t] \in {"lock", "exchange", "return"}
  BY <1>1, <1>4
<1>6. Contents' = Contents /\ Replied[t] = None /\ Replied'[t] = reply'[t] /\ Settled(t)
  <2>1. pc[t] \notin Under /\ pc'[t] \notin Under
    BY <1>5 DEF Under
  <2>2. Settled(t)
    BY <1>5 DEF Settled
  <2> QED
    BY <2>1, <2>2, <1>2, <1>3, QuietSame
<1>7. CASE reply' = reply
  BY <1>2, <1>3, <1>6, <1>7, AccessStutters
<1>8. CASE /\ word.state = "uniform" /\ Updated(o, word.set) = word.set
           /\ reply' = [reply EXCEPT ![t] = r]
  <2>1. r = LaidAnswer(m, cells)
    BY AnswerTerms
  <2>2. Contents = m
    BY <1>2, <1>8, UniformContents
  <2>3. Laid(tracker, o, m, cells) = m
    <3>1. UpdatedIn(tracker, o, word.set) = word.set
      BY <1>8, UpdatedTerms
    <3> HIDE DEF cells, o
    <3> QED
      BY <3>1 DEF Laid, AllOf
  <2> HIDE DEF m, r
  <2>4. reply'[t] = r
    BY <1>1, <1>8, Replies
  <2> QED
    BY <2>1, <2>2, <2>3, <2>4, <1>1, <1>3, <1>6, AccessUpdates
<1> QED
  BY <1>4, <1>7, <1>8

\* and so does one that exchanges the set in the word, which is that of the whole map.
LEMMA SetPutStep ==
    ASSUME AccessInv, AccessPast, NEW t \in Users, AccessStep(t), Remember, pc[t] \in {"load", "exchange"},
           op[t].do # "read", word.state = "uniform", WholeIn(tracker, op[t].ranges[1]),
           word' = [word EXCEPT !.set = Updated(op[t], @)],
           reply' = [reply EXCEPT ![t] = AnswerOf(t, Everywhere(word.set))],
           pc' = [pc EXCEPT ![t] = "return"], tracker' = tracker, op' = op
    PROVE  AccessMapNext
<1> DEFINE o == op[t]  cells == Part(tracker, o.ranges[1])  m == AllOf(tracker, word.set)
           r == AnswerOf(t, Everywhere(word.set))  v == Updated(o, word.set)
<1>1. /\ t \in Threads /\ IsAccessTracker /\ AccessThread(t) /\ pc \in [Threads -> AccessLabels]
      /\ o # None /\ IsFun(reply) /\ o.ranges[1] \in RangesOf(tracker)
      /\ tracker.of = "image" => word \in Words(tracker) /\ word.set \in AccessValues(tracker)
  BY AccessStepFrom
<1>2. tracker.of = "image" /\ reply[t] = None
  BY <1>1 DEF AccessThread, AccessAnswered
<1>3. \A u \in Threads : pc[u] \notin Under
  BY <1>2, UniformAlone
<1>4. AccessMapStep(t)
  BY <1>3, StepIs
<1>5. word' = [state |-> "uniform", set |-> v]
  <2>1. word' = [word EXCEPT !.set = v]
    OBVIOUS
  <2> HIDE DEF v
  <2> QED
    BY <2>1, <1>1, <1>2, WordPut
<1>6. r = LaidAnswer(m, cells)
  BY AnswerTerms
<1>7. cells = 0..SizeOf(tracker) - 1
  <2>1. IsRange(tracker.shape, o.ranges[1]) /\ CellCount(tracker.shape) = SizeOf(tracker)
    BY <1>1, <1>2, ImageRange
  <2>2. tracker.of # "buffer"
    BY <1>1, <1>2, OfParts
  <2> QED
    BY <2>1, <2>2, RangeSpots DEF Part, WholeIn
<1>8. Contents = m
  BY <1>2, UniformContents
<1>9. Contents' = AllOf(tracker, v) /\ word'.set = v
  <2>1. AccessInv' /\ word'.state = "uniform" /\ word'.set = v
    BY <1>4, <1>5 DEF AccessMapStep
  <2> HIDE DEF v
  <2> QED
    BY <2>1, <1>2, UniformNext
<1>10. AllOf(tracker, v) = Laid(tracker, o, m, cells)
  <2>1. v = UpdatedIn(tracker, o, word.set)
    BY UpdatedTerms
  <2> HIDE DEF v, cells, o
  <2> QED
    BY <2>1, <1>7 DEF Laid, AllOf
<1> HIDE DEF m, r, v, cells
<1>11. pc'[t] = "return" /\ reply'[t] = r
  <2>1. reply' = [reply EXCEPT ![t] = r]
    BY DEF r
  <2> QED
    BY <2>1, <1>1, Replies
<1>12. Replied[t] = None /\ Replied'[t] = r
  <2>1. AccessShown /\ AccessShown'
    BY <1>4, AccessStepParts
  <2>2. pc[t] \notin Under /\ pc'[t] \notin Under
    BY <1>11 DEF Under
  <2> QED
    BY <2>1, <2>2, <1>1, <1>2, <1>11 DEF AccessShown
<1>13. Settled(t)
  BY <1>9, <1>11 DEF Settled
<1>14. /\ Contents' = Laid(tracker, op[t], Contents, Part(tracker, op[t].ranges[1]))
       /\ Replied'[t] = LaidAnswer(Contents, Part(tracker, op[t].ranges[1]))
  BY <1>6, <1>8, <1>9, <1>10, <1>12 DEF cells
<1> QED
  BY <1>1, <1>4, <1>12, <1>13, <1>14, AccessUpdates

\* The load of a word,
LEMMA LoadAccessStep ==
    ASSUME AccessInv, AccessPast, NEW t \in Users, LoadAccess(t), Remember
    PROVE  AccessMapNext
BY DecideStep DEF LoadAccess, AccessStep

\* the swap of a word that is all there is,
LEMMA SwapStep ==
    ASSUME AccessInv, AccessPast, NEW t \in Users, SwapAtOnce(t), Remember
    PROVE  AccessMapNext
<1>1. /\ pc[t] = "load" /\ IsSingle /\ op[t].do = "swap"
      /\ word' = [word EXCEPT !.set = Updated(op[t], @)]
      /\ reply' = [reply EXCEPT ![t] = AnswerOf(t, Everywhere(word.set))]
      /\ pc' = [pc EXCEPT ![t] = "return"]
      /\ tracker' = tracker /\ op' = op
  BY DEF SwapAtOnce, Reply, Goto
<1>2. IsAccessTracker /\ AccessMap /\ op[t].ranges[1] \in RangesOf(tracker)
  BY <1>1, AccessStepFrom
<1>3. IsSingleIn(tracker)
  BY <1>1, <1>2, OfParts
<1>4. word.state = "uniform" /\ tracker.of = "image" /\ tracker.of # "buffer"
  BY <1>2, <1>3, OfParts DEF AccessMap, IsSingleIn
<1>5. WholeIn(tracker, op[t].ranges[1])
  BY <1>2, <1>3, <1>4, ImageRange DEF WholeIn, IsSingleIn
<1>6. AccessStep(t) /\ op[t].do # "read"
  BY <1>1 DEF AccessStep
<1> QED
  BY <1>1, <1>4, <1>5, <1>6, SetPutStep

\* and an exchange, which succeeds or decides again.
LEMMA ExchangeAccessStep ==
    ASSUME AccessInv, AccessPast, NEW t \in Users, ExchangeAccess(t), Remember
    PROVE  AccessMapNext
<1>1. /\ pc[t] = "exchange" /\ tracker' = tracker /\ store' = store /\ op' = op
  BY DEF ExchangeAccess
<1>2. /\ op[t].do # "read" /\ local[t].state = "uniform" /\ WholeIn(tracker, op[t].ranges[1])
  BY <1>1, AccessStepFrom DEF AccessThread
<1>3. AccessStep(t)
  BY DEF AccessStep
<1>4. CASE word = local[t]
  <2>1. /\ word' = [word EXCEPT !.set = Updated(op[t], @)]
        /\ reply' = [reply EXCEPT ![t] = AnswerOf(t, Everywhere(word.set))]
        /\ pc' = [pc EXCEPT ![t] = "return"]
    BY <1>4 DEF ExchangeAccess, Reply, Goto
  <2>2. word.state = "uniform"
    BY <1>2, <1>4
  <2> QED
    BY <2>1, <2>2, <1>1, <1>2, <1>3, SetPutStep
<1>5. CASE word # local[t]
  <2>1. Decide(t, word) /\ word' = word
    BY <1>5 DEF ExchangeAccess
  <2> QED
    BY <2>1, <1>1, <1>2, <1>3, DecideStep
<1> QED
  BY <1>4, <1>5

\* A step under the lock: nobody else has anything under way.
LEMMA HolderStep ==
    ASSUME AccessInv, AccessPast, NEW t \in Users, pc[t] \in AccessHolding, AccessStep(t), Remember
    PROVE  AccessMapStep(t)
<1>1. t \in Threads
  BY AccessFrom
<1>2. \A u \in Threads : u # t => pc[u] \notin Under
  BY <1>1, OneAccess
<1> QED
  BY <1>2, StepIs

\* Marking a promotion is what makes the operation count for its cells: nobody exchanges the set any more.
LEMMA SetPromotingStep ==
    ASSUME AccessInv, AccessPast, NEW t \in Users, SetPromoting(t), Remember
    PROVE  AccessMapNext
<1> DEFINE m == AllOf(tracker, word.set)  cells == Part(tracker, op[t].ranges[1])
<1>1. /\ pc[t] = "locked" /\ op[t].do # "read" /\ ~MapCounts
      /\ word' = [word EXCEPT !.state = "promoting"] /\ pc' = [pc EXCEPT ![t] = "capture"]
      /\ tracker' = tracker /\ op' = op
  BY DEF SetPromoting, Goto
<1>2. /\ t \in Threads /\ IsAccessTracker /\ AccessThread(t) /\ pc \in [Threads -> AccessLabels]
      /\ op[t] # None
      /\ tracker.of = "image" => word \in Words(tracker)
  BY <1>1, AccessStepFrom
<1>3. tracker.of = "image" /\ tracker.of # "buffer" /\ word.state # "dense"
  BY <1>1, <1>2, OfParts DEF MapCounts
<1>4. AccessMapStep(t)
  BY <1>1, HolderStep DEF AccessStep, AccessHolding
<1>5. word' = [state |-> "promoting", set |-> word.set]
  BY <1>1, <1>2, <1>3, WordPut, ZenonT(60)
<1>6. pc'[t] = "capture" /\ word'.set = word.set
  BY <1>1, <1>2, <1>5
<1>7. Contents = m /\ Replied[t] = None
  <2>1. pc[t] \in AccessHolding \ Under
    BY <1>1 DEF AccessHolding, Under
  <2>2. \A u \in Threads : pc[u] \notin Under
    BY <2>1, LockedFinds
  <2>3. Contents = BeforeOf(tracker, word, store)
    BY <2>2, BeforeQuiet
  <2>4. Replied[t] = reply[t] /\ reply[t] = None
    BY <2>2, <1>1, <1>2, AccessReplies DEF AccessThread, AccessAnswered
  <2> QED
    BY <2>3, <2>4, <1>3 DEF BeforeOf
<1>8. Contents' = Laid(tracker, op[t], m, cells) /\ Replied'[t] = LaidAnswer(m, cells)
  <2>1. Underway(t, Contents, Replied[t])'
    <3>1. pc'[t] \in Under /\ AccessShown'
      BY <1>4, <1>6, AccessStepParts DEF Under
    <3> QED
      BY <3>1, <1>2 DEF AccessShown
  <2>2. /\ Contents' = Laid(tracker', op'[t], AllOf(tracker', word'.set), Part(tracker', op'[t].ranges[1]))
        /\ Replied'[t] = LaidAnswer(AllOf(tracker', word'.set), Part(tracker', op'[t].ranges[1]))
    BY <2>1, <1>6 DEF Underway
  <2> QED
    BY <2>2, <1>1, <1>6
<1>9. Settled(t)
  BY <1>6 DEF Settled
<1> HIDE DEF m
<1> QED
  BY <1>1, <1>2, <1>4, <1>7, <1>8, <1>9, AccessUpdates

\* Capturing the set shows nothing,
LEMMA CaptureStep ==
    ASSUME AccessInv, AccessPast, NEW t \in Users, Capture(t), Remember
    PROVE  AccessMapNext
<1>1. /\ pc[t] = "capture" /\ word' = word /\ pc' = [pc EXCEPT ![t] = "set_dense"]
      /\ tracker' = tracker /\ op' = op
  BY DEF Capture, Goto
<1>2. t \in Threads /\ pc \in [Threads -> AccessLabels]
  BY <1>1, AccessStepFrom
<1>3. AccessMapStep(t)
  BY <1>1, HolderStep DEF AccessStep, AccessHolding
<1>4. pc'[t] = "set_dense"
  BY <1>1, <1>2
<1>5. Underway(t, Contents, Replied[t]) /\ Underway(t, Contents, Replied[t])'
  <2>1. pc[t] \in Under /\ pc'[t] \in Under /\ AccessShown /\ AccessShown'
    BY <1>1, <1>3, <1>4, AccessStepParts DEF Under
  <2> QED
    BY <2>1, <1>2 DEF AccessShown
<1>6. /\ Contents = Laid(tracker, op[t], AllOf(tracker, word.set), Part(tracker, op[t].ranges[1]))
      /\ Replied[t] = LaidAnswer(AllOf(tracker, word.set), Part(tracker, op[t].ranges[1]))
  BY <1>1, <1>5 DEF Underway
<1>7. /\ Contents' = Laid(tracker', op'[t], AllOf(tracker', word'.set), Part(tracker', op'[t].ranges[1]))
      /\ Replied'[t] = LaidAnswer(AllOf(tracker', word'.set), Part(tracker', op'[t].ranges[1]))
  BY <1>4, <1>5 DEF Underway
<1>8. Settled(t)
  BY <1>1, <1>4 DEF Settled
<1> QED
  BY <1>1, <1>3, <1>6, <1>7, <1>8, AccessStutters

\* What is shown when an iterator begins
LEMMA IteratorShows ==
    ASSUME NEW t, AccessMapStep(t), pc'[t] = "pieces", reply'[t] = <<>>, op'[t] = op[t],
           NEW base, MapOf(tracker, ReadableOf(tracker, store', local'[t])) = base
    PROVE  /\ Contents' = Laid(tracker, op[t], base, Part(tracker, op[t].ranges[1]))
           /\ Replied'[t] = LaidAnswer(base, Part(tracker, op[t].ranges[1]))
<1>1. Underway(t, Contents, Replied[t])'
  <2>1. pc'[t] \in Under /\ AccessShown' /\ t \in Threads
    BY AccessStepParts DEF Under
  <2> QED
    BY <2>1 DEF AccessShown
<1>2. tracker' = tracker
  BY AccessStepParts
<1> DEFINE P == Part(tracker, op[t].ranges[1])  e == <<>>
<1>3. DOMAIN e = {}
  OBVIOUS
<1> HIDE DEF e
<1>4. reply'[t] = e
  BY DEF e
<1>5. Contents' = Laid(tracker, op[t], base, P \ DOMAIN e) /\ Replied'[t] = Extended(e, P \ DOMAIN e, base)
  BY <1>1, <1>2, <1>4 DEF Underway
<1> HIDE DEF P
<1>6. P \ DOMAIN e = P
  BY <1>3
<1>7. Extended(e, P, base) = LaidAnswer(base, P)
  BY <1>3 DEF Extended, LaidAnswer
<1> QED
  BY <1>5, <1>6, <1>7 DEF P

\* nor does storing that the map counts,
LEMMA SetDenseStep ==
    ASSUME AccessInv, AccessPast, NEW t \in Users, SetDense(t), Remember
    PROVE  AccessMapNext
<1> DEFINE m == AllOf(tracker, word.set)  cells == Part(tracker, op[t].ranges[1])
           c == NewCursor(op[t])  e == <<>>
<1>1. /\ pc[t] = "set_dense" /\ word' = [word EXCEPT !.state = "dense"] /\ pc' = [pc EXCEPT ![t] = "pieces"]
      /\ tracker' = tracker /\ op' = op /\ store' = store
      /\ reply' = [reply EXCEPT ![t] = e] /\ local' = [local EXCEPT ![t] = c]
  BY DEF SetDense, Goto, Reply
<1>2. /\ t \in Threads /\ IsAccessTracker /\ AccessThread(t) /\ pc \in [Threads -> AccessLabels]
      /\ op[t] # None /\ IsFun(reply) /\ IsFun(local)
      /\ tracker.of = "image" => word \in Words(tracker)
  BY <1>1, AccessStepFrom
<1>3. tracker.of = "image" /\ tracker.of # "buffer" /\ store = DenseOf(word.set)
  BY <1>1, <1>2, OfParts DEF AccessThread
<1>4. AccessMapStep(t)
  BY <1>1, HolderStep DEF AccessStep, AccessHolding
<1>5. word' = [state |-> "dense", set |-> word.set]
  <2>1. word' = [word EXCEPT !.state = "dense"] /\ word \in Words(tracker)
    BY <1>1, <1>2, <1>3
  <2> QED
    BY <2>1, WordPut
<1> HIDE DEF e, c
<1>6. pc'[t] = "pieces" /\ word'.set = word.set /\ reply'[t] = e
  BY <1>1, <1>2, <1>5, Replies
<1>7. Contents = Laid(tracker, op[t], m, cells) /\ Replied[t] = LaidAnswer(m, cells)
  <2>1. Underway(t, Contents, Replied[t])
    BY <1>1, <1>2, UnderShows DEF Under
  <2> QED
    BY <2>1, <1>1 DEF Underway
<1>8. MapOf(tracker, ReadableOf(tracker, store', local'[t])) = m
  <2>1. ReadableOf(tracker, store', local'[t]) = DenseOf(word.set)
    BY <1>1, <1>3 DEF ReadableOf
  <2>2. \A x : StoredIn(tracker, DenseOf(word.set), x) = word.set
    BY <1>3 DEF StoredIn, DenseOf, ValueAt
  <2> QED
    BY <2>1, <2>2 DEF MapOf, AllOf
<1> HIDE DEF m
<1>9. Contents' = Laid(tracker, op[t], m, cells) /\ Replied'[t] = LaidAnswer(m, cells)
  BY <1>1, <1>4, <1>6, <1>8, IteratorShows DEF e
<1>10. Settled(t)
  BY <1>6 DEF Settled
<1> QED
  BY <1>1, <1>4, <1>7, <1>9, <1>10, AccessStutters

\* What the cursor that an iterator begins with leaves of the map: all of it
LEMMA CursorReads ==
    ASSUME IsAccessTracker, NEW o, o.ranges[1] \in RangesOf(tracker),
           tracker.of = "buffer" => IsRuns(store, AccessValues(tracker), SizeOf(tracker))
    PROVE  ReadableOf(tracker, store, NewCursor(o)) = store
<1>1. CASE tracker.of # "buffer"
  BY <1>1 DEF ReadableOf
<1>2. CASE tracker.of = "buffer"
  <2> DEFINE range == o.ranges[1]  cur == Cursor(store, range)
  <2>1. /\ range[1] \in Nat /\ range[2] \in Nat /\ range[1] < range[2] /\ range[2] <= SizeOf(tracker)
        /\ SizeOf(tracker) \in Nat
    BY <1>2, RangeIs, OfParts, Terms DEF IsAccessTracker
  <2>2. Rest(store, cur.write, cur.read) = store
    BY <2>1, <1>2, CursorBegins
  <2>3. NewCursor(o) = cur
    BY <1>2 DEF NewCursor, IsBuffer
  <2> HIDE DEF cur
  <2> QED
    BY <2>2, <2>3 DEF ReadableOf
<1> QED
  BY <1>1, <1>2

\* but where the map counts already, an operation counts when it has found it.
LEMMA FindDenseStep ==
    ASSUME AccessInv, AccessPast, NEW t \in Users, FindDense(t), Remember
    PROVE  AccessMapNext
<1> DEFINE m == MapOf(tracker, store)  c == NewCursor(op[t])  e == <<>>
<1>1. /\ pc[t] = "locked" /\ op[t].do # "read" /\ MapCounts
      /\ word' = word /\ pc' = [pc EXCEPT ![t] = "pieces"]
      /\ tracker' = tracker /\ op' = op /\ store' = store
      /\ reply' = [reply EXCEPT ![t] = e] /\ local' = [local EXCEPT ![t] = c]
  BY DEF FindDense, Goto, Reply
<1>2. /\ t \in Threads /\ IsAccessTracker /\ AccessThread(t) /\ pc \in [Threads -> AccessLabels]
      /\ op[t] # None /\ IsFun(reply) /\ IsFun(local) /\ op[t].ranges[1] \in RangesOf(tracker)
  BY <1>1, AccessStepFrom
<1>3. AccessMapStep(t)
  BY <1>1, HolderStep DEF AccessStep, AccessHolding
<1>4. pc[t] \in AccessHolding \ Under
  BY <1>1 DEF AccessHolding, Under
<1>5. /\ \A u \in Threads : pc[u] \notin Under
      /\ tracker.of = "buffer" => IsRuns(store, AccessValues(tracker), SizeOf(tracker))
  BY <1>4, LockedFinds
<1>6. Contents = m /\ Replied[t] = None
  <2>1. Contents = BeforeOf(tracker, word, store)
    BY <1>5, BeforeQuiet
  <2>2. Replied[t] = reply[t] /\ reply[t] = None
    BY <1>1, <1>2, <1>5, AccessReplies DEF AccessThread, AccessAnswered
  <2> QED
    BY <2>1, <2>2, <1>1, <1>2, OfParts DEF BeforeOf, MapCounts
<1>7. ReadableOf(tracker, store, c) = store
  BY <1>2, <1>5, CursorReads
<1> HIDE DEF e, c
<1>8. pc'[t] = "pieces" /\ reply'[t] = e
  BY <1>1, <1>2, Replies
<1>9. local'[t] = c
  <2>1. IsPut(local', local, t, c)
    BY <1>1, <1>2, Excepted, Zenon
  <2> QED
    BY <2>1 DEF IsPut
<1>10. MapOf(tracker, ReadableOf(tracker, store', local'[t])) = m
  BY <1>1, <1>7, <1>9
<1> HIDE DEF m
<1>11. /\ Contents' = Laid(tracker, op[t], m, Part(tracker, op[t].ranges[1]))
       /\ Replied'[t] = LaidAnswer(m, Part(tracker, op[t].ranges[1]))
  BY <1>1, <1>3, <1>8, <1>10, IteratorShows DEF e
<1>12. Settled(t)
  BY <1>1, <1>8 DEF Settled
<1> QED
  BY <1>1, <1>2, <1>3, <1>6, <1>11, <1>12, AccessUpdates

\* An item: the cells T, which had the value v, have another, and the answer has v for them.
IsItem(t, b, q, S, T, v) ==
    /\ b = MapOf(tracker, ReadableOf(tracker, store, local[t]))
    /\ q = MapOf(tracker, ReadableOf(tracker, store', local'[t]))
    /\ DOMAIN reply[t] = S /\ GrownBy(reply'[t], reply[t], S, T, v, AccessValues(tracker))
    /\ T \subseteq Part(tracker, op[t].ranges[1]) /\ S \cap T = {}
    /\ Part(tracker, op[t].ranges[1]) \subseteq 0..SizeOf(tracker) - 1
    /\ \A c \in T : b[c] = v
    /\ \A c \in 0..SizeOf(tracker) - 1 : /\ c \in T => q[c] = UpdatedIn(tracker, op[t], v)
                                         /\ c \notin T => q[c] = b[c]

\* It shows nothing: the operation has counted for these cells since before.
LEMMA ItemStutters ==
    ASSUME NEW t, AccessMapStep(t), pc[t] = "pieces", pc'[t] = "pieces", op'[t] = op[t], word' = word,
           NEW b, NEW q, NEW S, NEW T, NEW v, IsItem(t, b, q, S, T, v)
    PROVE  AccessMapNext
<1> DEFINE P == Part(tracker, op[t].ranges[1])  g == reply[t]  h == reply'[t]
           new == UpdatedIn(tracker, op[t], v)
<1>1. t \in Threads /\ tracker' = tracker
  BY AccessStepParts
<1>2. Underway(t, Contents, Replied[t]) /\ Underway(t, Contents, Replied[t])'
  <2>1. pc[t] \in Under /\ pc'[t] \in Under /\ AccessShown /\ AccessShown'
    BY AccessStepParts DEF Under
  <2> QED
    BY <2>1, <1>1 DEF AccessShown
<1>3. Contents = Laid(tracker, op[t], b, P \ S) /\ Replied[t] = Extended(g, P \ S, b)
  BY <1>2 DEF Underway, IsItem
<1>4. DOMAIN h = S \cup T
  BY DEF IsItem, GrownBy
<1>5. Contents' = Laid(tracker, op[t], q, P \ (S \cup T)) /\ Replied'[t] = Extended(h, P \ (S \cup T), q)
  BY <1>1, <1>2, <1>4 DEF Underway, IsItem
<1>6. /\ T \subseteq P /\ S \cap T = {} /\ P \subseteq 0..SizeOf(tracker) - 1 /\ DOMAIN g = S
      /\ \A c \in T : b[c] = v
      /\ \A c \in 0..SizeOf(tracker) - 1 : /\ c \in T => q[c] = new
                                           /\ c \notin T => q[c] = b[c]
  BY DEF IsItem
<1>7. \A c \in S \cup T : h[c] = IF c \in S THEN g[c] ELSE v
  BY DEF IsItem, GrownBy
<1> HIDE DEF P, g, h, new
<1>8. Laid(tracker, op[t], q, P \ (S \cup T)) = Laid(tracker, op[t], b, P \ S)
  <2> DEFINE G(x) == IF x \in P \ (S \cup T) THEN UpdatedIn(tracker, op[t], q[x]) ELSE q[x]
             H(x) == IF x \in P \ S THEN UpdatedIn(tracker, op[t], b[x]) ELSE b[x]
  <2>1. ASSUME NEW x \in 0..SizeOf(tracker) - 1
        PROVE  G(x) = H(x)
    <3>1. CASE x \in T
      <4>1. x \in P \ S /\ x \notin P \ (S \cup T)
        BY <3>1, <1>6
      <4>2. b[x] = v
        BY <3>1, <1>6
      <4>3. q[x] = new
        BY <3>1, <1>6
      <4> QED
        BY <4>1, <4>2, <4>3 DEF new
    <3>2. CASE x \notin T
      <4>1. (x \in P \ S <=> x \in P \ (S \cup T)) /\ q[x] = b[x]
        BY <3>2, <1>6
      <4> QED
        BY <4>1
    <3> QED
      BY <3>1, <3>2
  <2>2. /\ Laid(tracker, op[t], q, P \ (S \cup T)) = [x \in 0..SizeOf(tracker) - 1 |-> G(x)]
        /\ Laid(tracker, op[t], b, P \ S) = [x \in 0..SizeOf(tracker) - 1 |-> H(x)]
    BY DEF Laid
  <2> HIDE DEF G, H
  <2> QED
    BY <2>1, <2>2
<1>9. Extended(h, P \ (S \cup T), q) = Extended(g, P \ S, b)
  <2>1. DOMAIN h \cup (P \ (S \cup T)) = DOMAIN g \cup (P \ S)
    BY <1>4, <1>6
  <2>2. ASSUME NEW c \in DOMAIN g \cup (P \ S)
        PROVE  (IF c \in DOMAIN h THEN h[c] ELSE q[c]) = (IF c \in DOMAIN g THEN g[c] ELSE b[c])
    <3>1. CASE c \in S
      <4>1. c \in DOMAIN h /\ c \in DOMAIN g /\ h[c] = g[c]
        BY <3>1, <1>4, <1>6, <1>7
      <4> QED
        BY <4>1
    <3>2. CASE c \in T
      <4>1. c \in DOMAIN h /\ c \notin DOMAIN g /\ h[c] = v /\ b[c] = v
        BY <3>2, <1>4, <1>6, <1>7
      <4> QED
        BY <4>1
    <3>3. CASE c \notin S /\ c \notin T
      <4>1. c \notin DOMAIN h /\ c \notin DOMAIN g /\ c \in P
        BY <3>3, <1>4, <1>6
      <4>2. q[c] = b[c]
        BY <4>1, <3>3, <1>6
      <4> QED
        BY <4>1, <4>2
    <3> QED
      BY <3>1, <3>2, <3>3
  <2> QED
    BY <2>1, <2>2 DEF Extended
<1>10. Settled(t)
  BY DEF Settled
<1> QED
  BY <1>3, <1>5, <1>8, <1>9, <1>10, AccessStutters

\* Such an item is that of a map of runs,
LEMMA NextRunStep ==
    ASSUME AccessInv, AccessPast, NEW t \in Users, NextRun(t), Remember
    PROVE  AccessMapNext
<1> DEFINE V == AccessValues(tracker)  size == SizeOf(tracker)  range == op[t].ranges[1]
<1>1. PICK cur, new, p : RunTaken(t, cur, new, p)
  BY NextRunIs
<1>2. /\ t \in Threads /\ IsAccessTracker /\ tracker.of = "buffer" /\ pc' = pc /\ pc[t] = "pieces"
      /\ word' = word /\ op' = op
  BY AccessFrom DEF NextRun, IsBuffer
<1>3. AccessMapStep(t)
  BY <1>2, HolderStep DEF AccessStep, AccessHolding
<1> DEFINE from == cur.from  end == p.cursor.from  first == range[1]  last == range[2]
           R == Rest(store, cur.write, cur.read)  Q == ReadableOf(tracker, store', local'[t])
<1>4. /\ cur = local[t] /\ reply[t] \in [first..from - 1 -> V] /\ range \in RangesOf(tracker)
      /\ reply'[t] = Extended(reply[t], from..end - 1, Everywhere(p.value))
      /\ CursorAt(store, V, size, cur) /\ PieceDone(store, V, size, cur, new, p)
      /\ new = Updated(op[t], Value(store, cur.read)) /\ store' = p.map /\ local'[t] = p.cursor
  BY <1>1 DEF RunTaken
<1>5. /\ first \in Nat /\ last \in Nat /\ from \in Nat /\ end \in Nat
      /\ first <= from /\ from < end /\ end <= last /\ cur.from # cur.to /\ cur.to = last
      /\ p.cursor.to = cur.to /\ last <= size /\ size \in Nat
  <2>1. first \in Nat /\ last \in Nat /\ first <= from /\ cur.to = last
    BY <1>1 DEF RunTaken
  <2>2. from \in Nat /\ end \in Nat /\ from < end /\ end <= cur.to /\ p.cursor.to = cur.to
    <3>1. from \in Nat
      BY <1>4 DEF CursorAt
    <3>2. /\ p.cursor \in [read : Nat, write : Nat, from : Nat, to : Nat] /\ from < end /\ end <= cur.to
          /\ p.cursor.to = cur.to
      BY <1>4 DEF PieceDone
    <3> QED
      BY <3>1, <3>2
  <2>3. last <= size /\ size \in Nat
    BY <1>2, <1>4, RangeIs, OfParts, Terms DEF IsAccessTracker
  <2> HIDE DEF first, last, end
  <2>4. cur.from # cur.to
    BY <2>1, <2>2
  <2> QED
    BY <2>1, <2>2, <2>3, <2>4
<1>6. /\ \A x \in from..end - 1 : RunValueAt(R, x) = p.value
      /\ p.value = Value(store, cur.read)
  BY <1>4 DEF PieceDone
<1>7. Changes(Q, R, size, new, from, end)
  <2>1. CASE end = cur.to
    <3>1. Q = p.map
      BY <1>4, <1>5, <2>1 DEF ReadableOf
    <3>2. Assigns(p.map, R, V, size, new, cur.from, cur.to)
      BY <1>4, <2>1 DEF PieceDone
    <3> QED
      BY <3>1, <3>2, <2>1 DEF Assigns
  <2>2. CASE end # cur.to
    <3>1. Q = Rest(p.map, p.cursor.write, p.cursor.read)
      BY <1>2, <1>4, <1>5, <2>2 DEF ReadableOf
    <3> QED
      BY <3>1, <1>4, <2>2 DEF PieceDone
  <2> QED
    BY <2>1, <2>2
<1> DEFINE b == MapOf(tracker, R)  q == MapOf(tracker, Q)  S == first..from - 1  T == from..end - 1
           P == Part(tracker, range)
<1>8. b = MapOf(tracker, ReadableOf(tracker, store, local[t]))
  BY <1>2, <1>4, <1>5 DEF ReadableOf
<1>9. P = first..last - 1 /\ Cells = 0..size - 1
  BY <1>2, Terms DEF Part
<1>10. T \subseteq P /\ S \cap T = {} /\ P \subseteq 0..size - 1
  <2> HIDE DEF first, last, from, end, P, size
  <2> QED
    BY <1>5, <1>9
<1>11. \A x \in 0..size - 1 : b[x] = RunValueAt(R, x) /\ q[x] = RunValueAt(Q, x)
  <2> HIDE DEF R, Q
  <2> QED
    BY <1>2 DEF MapOf, StoredIn
<1>12. \A x \in T : b[x] = p.value
  <2> HIDE DEF R, Q, b, q, P, size, first, from, end
  <2> QED
    BY <1>6, <1>10, <1>11
<1>13. \A x \in 0..size - 1 : /\ x \in T => q[x] = UpdatedIn(tracker, op[t], p.value)
                              /\ x \notin T => q[x] = b[x]
  <2>1. new = UpdatedIn(tracker, op[t], p.value)
    BY <1>4, <1>6, UpdatedTerms
  <2> HIDE DEF R, Q, b, q, from, end, size
  <2>2. ASSUME NEW x \in 0..size - 1
        PROVE  (from <= x /\ x < end) <=> x \in T
    BY <1>5
  <2> HIDE DEF T
  <2> QED
    BY <2>1, <2>2, <1>7, <1>11 DEF Changes
<1>14. GrownBy(reply'[t], reply[t], S, T, p.value, V)
  <2>1. /\ T \subseteq Cells /\ reply[t] \in [S -> V]
        /\ reply'[t] = Extended(reply[t], T, Everywhere(p.value))
    BY <1>4, <1>9, <1>10
  <2> HIDE DEF S, T, V
  <2>2. GrownBy(Extended(reply[t], T, Everywhere(p.value)), reply[t], S, T, p.value, V)
    BY <2>1, Grown
  <2> QED
    BY <2>1, <2>2
<1>15. DOMAIN reply[t] = S
  BY <1>4
<1>16. IsItem(t, b, q, S, T, p.value)
  <2> HIDE DEF b, S, T
  <2> QED
    BY <1>8, <1>10, <1>12, <1>13, <1>14, <1>15 DEF IsItem
<1> HIDE DEF b, q, S, T
<1> QED
  BY <1>2, <1>3, <1>16, ItemStutters

\* and of a map of subresources.
LEMMA NextRectangleStep ==
    ASSUME AccessInv, AccessPast, NEW t \in Users, NextRectangle(t), Remember
    PROVE  AccessMapNext
<1> DEFINE V == AccessValues(tracker)  range == op[t].ranges[1]  shape == tracker.shape
           S == Passed(shape, range, local[t])
<1>1. PICK piece, old, value : RectangleTaken(t, piece, old, value)
  BY NextRectangleIs
<1> DEFINE T == IndicesOf(shape, piece)
<1>2. /\ t \in Threads /\ IsAccessTracker /\ tracker.of = "image" /\ tracker.of # "buffer"
      /\ pc' = pc /\ pc[t] = "pieces" /\ word' = word /\ op' = op
  <2>1. /\ t \in Threads /\ IsAccessTracker /\ ~IsBuffer /\ pc' = pc /\ pc[t] = "pieces"
        /\ word' = word /\ op' = op
    BY AccessFrom DEF NextRectangle
  <2> QED
    BY <2>1, OfParts
<1>3. AccessMapStep(t)
  BY <1>2, HolderStep DEF AccessStep, AccessHolding
<1>4. /\ IsRange(shape, range) /\ CellCount(shape) = SizeOf(tracker)
      /\ reply[t] \in [S -> V] /\ old = PieceValue(store, shape, piece) /\ value = Updated(op[t], old)
      /\ reply'[t] = Extended(reply[t], T, Everywhere(old))
      /\ RectangleDone(store, store', V, shape, range, local[t], local'[t], piece, value)
  BY <1>1 DEF RectangleTaken
<1>5. /\ \A x \in T : ValueAt(store, x) = old
      /\ \A x \in 0..SizeOf(tracker) - 1 :
            ValueAt(store', x) = IF x \in T THEN value ELSE ValueAt(store, x)
      /\ Passed(shape, range, local'[t]) = S \cup T /\ S \cap T = {}
  BY <1>4 DEF RectangleDone
<1> DEFINE b == MapOf(tracker, store)  q == MapOf(tracker, store')  P == Part(tracker, range)
<1>6. T \subseteq P /\ P \subseteq 0..SizeOf(tracker) - 1
  <2>1. T \subseteq Passed(shape, range, local'[t])
    BY <1>5
  <2>2. /\ Passed(shape, range, local'[t]) \subseteq IndicesOf(shape, range)
        /\ IndicesOf(shape, range) \subseteq 0..CellCount(shape) - 1
    BY <1>4, RangeSpots
  <2>3. P = IndicesOf(shape, range)
    BY <1>2 DEF Part
  <2> QED
    BY <2>1, <2>2, <2>3, <1>4
<1>7. \A x \in 0..SizeOf(tracker) - 1 : b[x] = ValueAt(store, x) /\ q[x] = ValueAt(store', x)
  BY <1>2 DEF MapOf, StoredIn
<1>8. /\ b = MapOf(tracker, ReadableOf(tracker, store, local[t]))
      /\ q = MapOf(tracker, ReadableOf(tracker, store', local'[t]))
  BY <1>2 DEF ReadableOf
<1>9. value = UpdatedIn(tracker, op[t], old)
  BY <1>4, UpdatedTerms
<1> HIDE DEF b, q, T, P
<1>10. /\ \A x \in T : b[x] = old
       /\ \A x \in 0..SizeOf(tracker) - 1 : /\ x \in T => q[x] = UpdatedIn(tracker, op[t], old)
                                            /\ x \notin T => q[x] = b[x]
  BY <1>5, <1>6, <1>7, <1>9
<1>11. GrownBy(reply'[t], reply[t], S, T, old, V)
  <2>1. Cells = 0..SizeOf(tracker) - 1
    BY Terms
  <2>2. T \subseteq Cells /\ reply[t] \in [S -> V]
    BY <2>1, <1>4, <1>6
  <2> HIDE DEF S, V
  <2>3. GrownBy(Extended(reply[t], T, Everywhere(old)), reply[t], S, T, old, V)
    BY <2>2, Grown
  <2>4. reply'[t] = Extended(reply[t], T, Everywhere(old))
    BY <1>4
  <2> QED
    BY <2>3, <2>4
<1>12. DOMAIN reply[t] = S
  BY <1>4
<1>13. IsItem(t, b, q, S, T, old)
  <2> HIDE DEF S
  <2> QED
    BY <1>5, <1>6, <1>8, <1>10, <1>11, <1>12 DEF IsItem, P
<1> HIDE DEF S
<1> QED
  BY <1>2, <1>3, <1>13, ItemStutters

\* The end of an iterator shows nothing either, also if the map becomes uniform.
LEMMA TryDemoteStep ==
    ASSUME AccessInv, AccessPast, NEW t \in Users, TryDemote(t), Remember
    PROVE  AccessMapNext
<1> DEFINE V == AccessValues(tracker)  range == op[t].ranges[1]  P == Part(tracker, range)
           m == MapOf(tracker, store)
<1>1. /\ pc[t] = "pieces" /\ Exhausted(t)
      /\ word' = IF ~IsBuffer /\ word.state = "dense" /\ IsUniform(store)
                 THEN [state |-> "uniform", set |-> store.values[1]] ELSE word
      /\ pc' = [pc EXCEPT ![t] = "unlock"]
      /\ tracker' = tracker /\ store' = store /\ op' = op /\ reply' = reply
  BY DEF TryDemote, Goto
<1>2. /\ t \in Threads /\ AccessThread(t) /\ IsAccessTracker /\ pc \in [Threads -> AccessLabels]
      /\ range \in RangesOf(tracker)
  BY <1>1, AccessStepFrom
<1>3. AccessMapStep(t)
  BY <1>1, HolderStep DEF AccessStep, AccessHolding
<1>4. pc'[t] = "unlock"
  BY <1>1, <1>2
<1>5. DOMAIN reply[t] = P
  <2>1. PiecesOf(t)
    BY ExhaustedCovers
  <2> QED
    BY <2>1, <1>1, <1>4, Terms DEF PiecesOf
<1>6. Items(tracker, range, local[t], reply[t], word, store)
  BY <1>1, <1>2 DEF AccessThread
<1>7. ReadableOf(tracker, store, local[t]) = store
  <2>1. tracker.of = "buffer" => local[t].from = local[t].to
    BY <1>1 DEF Exhausted, CursorDone, IsBuffer
  <2> QED
    BY <2>1 DEF ReadableOf
<1>8. Contents = m /\ Replied[t] = reply[t]
  <2>1. Underway(t, Contents, Replied[t])
    BY <1>1, <1>2, UnderShows DEF Under
  <2>2. Contents = Laid(tracker, op[t], m, P \ P) /\ Replied[t] = Extended(reply[t], P \ P, m)
    BY <2>1, <1>1, <1>5, <1>7 DEF Underway
  <2>3. Laid(tracker, op[t], m, {}) = m
    BY DEF Laid, MapOf
  <2>4. Extended(reply[t], {}, m) = reply[t]
    <3>1. reply[t] = [c \in DOMAIN reply[t] |-> reply[t][c]]
      <4>1. \E C, W : reply[t] \in [C -> W]
        BY <1>6 DEF Items, RunItems, RectangleItems
      <4> QED
        BY <4>1
    <3> HIDE DEF m
    <3>2. Extended(reply[t], {}, m) = [c \in DOMAIN reply[t] |-> reply[t][c]]
      BY DEF Extended
    <3> QED
      BY <3>1, <3>2
  <2>5. P \ P = {}
    OBVIOUS
  <2> HIDE DEF m, P
  <2> QED
    BY <2>2, <2>3, <2>4, <2>5
<1>9. \A u \in Threads : pc'[u] \notin Under
  <2>1. \A u \in Threads : u # t => pc[u] \notin Under
    BY <1>1, <1>2, OneAccess DEF AccessHolding
  <2> QED
    BY <2>1, <1>3, <1>4, AccessStepParts DEF Under
<1>10. Contents' = BeforeOf(tracker', word', store') /\ Replied'[t] = reply'[t]
  BY <1>2, <1>3, <1>9, AccessStepParts DEF AccessShown
<1>11. /\ Contents' = m
       /\ word' = word \/ Contents' = AllOf(tracker, word'.set)
  <2>1. CASE tracker.of = "buffer"
    <3>1. word' = word
      BY <2>1, <1>1 DEF IsBuffer
    <3> QED
      BY <2>1, <3>1, <1>1, <1>10 DEF BeforeOf
  <2>2. CASE tracker.of = "image"
    <3>1. tracker.of # "buffer" /\ ~IsBuffer /\ SizeOf(tracker) \in Nat \ {0}
      BY <2>2, <1>2, OfParts
    <3>2. RectangleItems(tracker, range, local[t], reply[t], word, store)
      BY <3>1, <1>6 DEF Items
    <3>3. CellCount(tracker.shape) = SizeOf(tracker)
      BY <2>2, <1>2, ImageRange
    <3>4. word.state = "dense" /\ IsDense(store, V, SizeOf(tracker))
      BY <3>2, <3>3 DEF RectangleItems, DenseAt
    <3>5. CASE IsUniform(store)
      <4>1. word' = [state |-> "uniform", set |-> store.values[1]]
        BY <3>1, <3>4, <3>5, <1>1
      <4>2. \A x \in 0..SizeOf(tracker) - 1 : ValueAt(store, x) = store.values[1]
        BY <3>1, <3>4, <3>5, NoTransition
      <4>3. Contents' = AllOf(tracker, word'.set) /\ word'.set = store.values[1]
        BY <3>1, <4>1, <1>1, <1>10 DEF BeforeOf
      <4>4. AllOf(tracker, store.values[1]) = m
        BY <3>1, <4>2 DEF AllOf, MapOf, StoredIn
      <4> HIDE DEF m
      <4> QED
        BY <4>3, <4>4
    <3>6. CASE ~IsUniform(store)
      <4>1. word' = word
        BY <3>6, <1>1
      <4> QED
        BY <3>1, <3>4, <4>1, <1>1, <1>10 DEF BeforeOf
    <3> QED
      BY <3>5, <3>6
  <2> QED
    BY <2>1, <2>2, <1>2, OfParts
<1>12. Settled(t)
  BY <1>4, <1>11 DEF Settled
<1> QED
  BY <1>1, <1>3, <1>8, <1>10, <1>11, <1>12, AccessStutters

\* The tracker of accesses begins as the map begins.
LEMMA AccessBegins == Init /\ IsAccess => Map!Init /\ AccessInv /\ AccessPast
<1> SUFFICES ASSUME Init, IsAccess PROVE Map!Init /\ AccessInv /\ AccessPast
  OBVIOUS
<1>1. AccessInv
  BY AccessStarts
<1>2. /\ pc = [t \in Threads |-> "idle"] /\ op = [t \in Threads |-> None]
      /\ reply = [t \in Threads |-> None] /\ past = [t \in Threads |-> {}]
  BY DEF Init
<1>3. Called = [t \in Threads |-> None]
  BY <1>2 DEF Called
<1>4. Replied = [t \in Threads |-> None]
  <2>1. IsFun(Replied) /\ \A u \in Threads : Replied[u] = reply[u]
    BY <1>1, <1>2, AccessReplies DEF Under
  <2>2. PICK values : Replied \in [Threads -> values]
    BY <2>1 DEF IsFun
  <2> QED
    BY <2>1, <2>2, <1>2
<1>5. AccessPast
  BY <1>2, <1>3 DEF AccessPast, Waits
<1> QED
  BY <1>1, <1>2, <1>3, <1>4, <1>5 DEF Map!Init

\* Each step of the tracker of accesses is one of the map, or leaves the map alone.
LEMMA AccessMaps == AccessInv /\ AccessPast /\ [Next]_vars => AccessMapNext
<1> SUFFICES ASSUME AccessInv, AccessPast, [Next]_vars PROVE AccessMapNext
  OBVIOUS
<1>1. CASE Next
  <2>1. IsAccess
    BY DEF AccessInv, AccessTyped, IsAccessTracker
  <2>2. PICK t \in Users : AccessStep(t) /\ Remember
    BY <1>1, <2>1, AccessSteps
  <2> QED
    BY <2>2, CallAccessStep, LoadAccessStep, SwapStep, ExchangeAccessStep, LoadStateStep, LoadSetStep,
       LockAccessStep, ReadAccessStep, SetPromotingStep, CaptureStep, SetDenseStep, FindDenseStep,
       NextRunStep, NextRectangleStep, TryDemoteStep, EndAccessStep
       DEF AccessStep
<1>2. CASE UNCHANGED vars
  <2>1. /\ tracker' = tracker /\ word' = word /\ store' = store /\ lock' = lock /\ pc' = pc
        /\ op' = op /\ local' = local /\ reply' = reply /\ past' = past
    BY <1>2 DEF vars, trackerVars
  <2>2. Contents' = Contents /\ Called' = Called /\ Replied' = Replied
    <3>1. AccessInv'
      BY AccessStays
    <3>2. AccessShown /\ AccessShown' /\ Called = CalledTo(tracker, op) /\ Called' = CalledTo(tracker', op')
      BY <3>1, AccessShows, AccessShowsNext, AccessCalls, AccessCallsNext
    <3>3. Contents' = Contents
      <4>1. CASE \A u \in Threads : pc[u] \notin Under
        BY <4>1, <2>1, <3>2 DEF AccessShown
      <4>2. CASE \E u \in Threads : pc[u] \in Under
        <5>1. PICK u \in Threads : pc[u] \in Under
          BY <4>2
        <5>2. Underway(u, Contents, Replied[u]) /\ Underway(u, Contents, Replied[u])'
          BY <5>1, <2>1, <3>2 DEF AccessShown
        <5>3. pc[u] # "pieces" \/ pc[u] \notin {"capture", "set_dense"}
          OBVIOUS
        <5> QED
          BY <5>1, <5>2, <5>3, <2>1 DEF Underway
      <4> QED
        BY <4>1, <4>2
    <3>4. ASSUME NEW u \in Threads
          PROVE  Replied'[u] = Replied[u]
      <4>1. CASE pc[u] \notin Under
        BY <4>1, <2>1, <3>2 DEF AccessShown
      <4>2. CASE pc[u] \in Under
        <5>1. Underway(u, Contents, Replied[u]) /\ Underway(u, Contents, Replied[u])'
          BY <4>2, <2>1, <3>2 DEF AccessShown
        <5>2. pc[u] # "pieces" \/ pc[u] \notin {"capture", "set_dense"}
          OBVIOUS
        <5> QED
          BY <5>1, <5>2, <2>1 DEF Underway
      <4> QED
        BY <4>1, <4>2
    <3>5. Replied' = Replied
      BY <3>2, <3>4, SameFun DEF AccessShown
    <3> QED
      BY <2>1, <3>2, <3>3, <3>5
  <2>3. AccessPast'
    BY <2>1, <2>2 DEF AccessPast
  <2> QED
    BY <2>1, <2>2, <2>3 DEF AccessMapNext, MapNext, Map!vars
<1> QED
  BY <1>1, <1>2

(* However threads race with promotions, demotions and each other, the     *)
(* tracker of accesses is an atomic map: each access takes effect at one   *)
(* moment between its call and its return and answers with what was before *)
(* it, also those that iterate over the map piece by piece under the lock, *)
(* and a query answers with what was there at some moment since its call   *)
(* (DenseAccess::ensure_dense, swap_accesses, DenseAccessMapGuard::        *)
(* try_demote_to_uniform).                                                 *)
THEOREM AccessLinearizable == Spec /\ IsAccess => Linearizable
<1> DEFINE Inv == AccessInv /\ AccessPast
<1>1. Init /\ IsAccess => Map!Init /\ Inv
  BY AccessBegins
<1>2. Inv /\ [Next]_vars => Inv' /\ [Map!Next]_(Map!vars)
  BY AccessMaps, AccessStays DEF AccessMapNext, MapNext
<1> HIDE DEF Inv
<1> QED
  BY <1>1, <1>2, PTL DEF Spec, Linearizable, Map!Spec

-----------------------------------------------------------------------------
(* All trackers                                                             *)

\* There are no other kinds of trackers.
LEMMA Kinds == Init => IsSharing \/ IsAccess \/ IsClaims
BY TrackerAssumption DEF Init, IsSharing, IsAccess, IsClaims

(* The trackers of buffers and images, of whatever kind, size and shape,   *)
(* with whatever operations on however many threads, are atomic maps.      *)
THEOREM TrackersLinearizable == Spec => Linearizable
<1>1. Spec => IsSharing \/ IsAccess \/ IsClaims
  BY Kinds, PTL DEF Spec
<1> QED
  BY <1>1, SharingLinearizable, AccessLinearizable, RecordingLinearizable, PTL

(* They are always in the form that the next operation relies on.          *)
THEOREM TrackersInForm == Spec => []StoreInForm
<1>1. Spec => IsSharing \/ IsAccess \/ IsClaims
  BY Kinds, PTL DEF Spec
<1> QED
  BY <1>1, SharingInForm, AccessInForm, RecordingInForm, PTL
=================================================================================
