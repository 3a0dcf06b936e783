--------------------------- MODULE PseudoTcpProofs ---------------------------
(***************************************************************************)
(* Of PseudoTcp, for all sizes, workloads and mishaps: the segments of     *)
(* m_slist always lie end to end over m_sbuf, and nobody is sent more than *)
(* it has room for.                                                        *)
(***************************************************************************)
EXTENDS PseudoTcp, WellFoundedInduction, TLAPS

Segment == [seq : Nat, len : Nat \ {0}, xmit : Nat, ctl : BOOLEAN]

EndOf(s) == s.seq + s.len

\* How far the first k of segments q, which begin at a, reach.
Reaches(q, a, k) == IF k = 0 THEN a ELSE EndOf(q[k])

\* Segments q lie end to end from a to b.
Tiles(q, a, b) ==
    /\ q \in Seq(Segment) /\ a \in Nat
    /\ \A i \in 1 .. Len(q) : q[i].seq = Reaches(q, a, i - 1)
    /\ \A i, j \in 1 .. Len(q) : i < j => EndOf(q[i]) <= q[j].seq
    /\ b = Reaches(q, a, Len(q))

\* The first k of segments q have been sent, the last of them ends at x.
SentTo(q, a, k, x) ==
    /\ k \in 0 .. Len(q) /\ x = Reaches(q, a, k)
    /\ \A i \in 1 .. Len(q) : q[i].xmit > 0 <=> i <= k

\* A receiver may acknowledge v: up to a everything, then ends of segments that were sent.
Mark(q, a, v) ==
    \/ v \in 0 .. a
    \/ \E i \in 1 .. Len(q) : q[i].xmit > 0 /\ v = EndOf(q[i])

-----------------------------------------------------------------------------
(* Numbers and sequences.                                                  *)

\* A set of numbers has a least.
LEMMA Least ==
    ASSUME NEW T \in SUBSET Nat, T # {}
    PROVE  \E x \in T : \A y \in T : x <= y
  <1>1. PICK R : R = OpToRel(<, Nat)
    BY Zenon
  <1>2. \A m, n \in Nat : <<m, n>> \in R <=> m < n
    BY <1>1 DEF OpToRel
  <1>3. IsWellFoundedOn(R, Nat)
    BY <1>1, NatLessThanWellFounded, Zenon
  <1>4. PICK x \in T : \A y \in T : <<y, x>> \notin R
    BY <1>3, WFMin
  <1>5. \A y \in T : ~(y < x)
    BY <1>2, <1>4
  <1> QED
    BY <1>5

\* What holds of 0 and passes on to the next number holds up to N.
LEMMA UpTo ==
    ASSUME NEW N \in Nat, NEW S, 0 \in S, \A n \in 0 .. N : n \in S /\ n < N => n + 1 \in S
    PROVE  0 .. N \subseteq S
  <1> DEFINE T == {n \in 0 .. N : n \notin S}
  <1>1. ASSUME T # {} PROVE FALSE
    <2>1. T \in SUBSET Nat
      OBVIOUS
    <2>2. PICK x \in T : \A y \in T : x <= y
      <3> HIDE DEF T
      <3> QED
        BY <1>1, <2>1, Least
    <2>3. x \in 0 .. N /\ x \notin S /\ x # 0
      OBVIOUS
    <2>4. x - 1 \in 0 .. N /\ x - 1 < N /\ (x - 1) + 1 = x /\ ~(x <= x - 1)
      BY <2>3
    <2>5. x - 1 \in S
      BY <2>2, <2>4
    <2> QED
      BY <2>3, <2>4, <2>5
  <1> QED
    BY <1>1

\* Within the space of sequence numbers nothing wraps.
LEMMA PlusIs ==
    ASSUME NEW m \in Nat, NEW n \in Nat, m + n < SeqSpace, SeqSpace \in Nat
    PROVE  Plus(m, n) = m + n
  BY DEF Plus

LEMMA MinusIs ==
    ASSUME NEW m \in Nat, NEW n \in Nat, n <= m, m < SeqSpace, SeqSpace \in Nat
    PROVE  Minus(m, n) = m - n
  BY DEF Minus

\* Sequence r is a, of length m, and behind it b, of length n.
Joins(r, a, b, m, n) ==
    /\ Len(r) = m + n
    /\ \A k \in 1 .. m : r[k] = a[k]
    /\ \A k \in 1 .. n : r[m + k] = b[k]

LEMMA ConcatFacts ==
    ASSUME NEW X, NEW a \in Seq(X), NEW b \in Seq(X)
    PROVE  a \o b \in Seq(X) /\ Joins(a \o b, a, b, Len(a), Len(b))
  BY DEF Joins

\* What is left of a sequence of length l without its first n elements.
LEMMA RestIs ==
    ASSUME NEW X, NEW s \in Seq(X), NEW l \in Nat, Len(s) = l, NEW n \in Nat, n <= l,
           NEW m \in Nat, m = l - n
    PROVE  SubSeq(s, n + 1, l) \in Seq(X) /\ Len(SubSeq(s, n + 1, l)) = m
  OBVIOUS

\* r is q with f in place of element i, or with f and g.
Replaces(q, i, f, r) ==
    /\ Len(r) = Len(q) /\ r[i] = f
    /\ \A j \in 1 .. i - 1 : r[j] = q[j]
    /\ \A j \in i + 1 .. Len(q) : r[j] = q[j]
Splits(q, i, f, g, r) ==
    /\ Len(r) = Len(q) + 1 /\ r[i] = f /\ r[i + 1] = g
    /\ \A j \in 1 .. i - 1 : r[j] = q[j]
    /\ \A j \in i + 1 .. Len(q) : r[j + 1] = q[j]

\* Splice puts one element or two in place of one.
LEMMA SpliceOne ==
    ASSUME NEW X, NEW q \in Seq(X), NEW i \in 1 .. Len(q), NEW f \in X
    PROVE  Splice(q, i, <<f>>) \in Seq(X) /\ Replaces(q, i, f, Splice(q, i, <<f>>))
  <1>1. PICK l \in Nat : l = Len(q) /\ i \in 1 .. l
    OBVIOUS
  <1>2. PICK a, b, c : a = SubSeq(q, 1, i - 1) /\ b = <<f>> /\ c = SubSeq(q, i + 1, l)
    OBVIOUS
  <1>3. PICK m, n \in Nat : m = i - 1 /\ n = l - i
    <2>1. i - 1 \in Nat /\ l - i \in Nat
      BY <1>1
    <2> QED
      BY <2>1
  <1>4. a \in Seq(X) /\ Len(a) = m /\ \A k \in 1 .. m : a[k] = q[k]
    BY <1>1, <1>2, <1>3
  <1>5. b \in Seq(X) /\ Len(b) = 1 /\ b[1] = f
    BY <1>2
  <1>6. c \in Seq(X) /\ Len(c) = n /\ \A k \in 1 .. n : c[k] = q[i + k]
    BY <1>1, <1>2, <1>3
  <1>7. PICK d, r : d = a \o b /\ r = d \o c
    OBVIOUS
  <1>8. d \in Seq(X) /\ Joins(d, a, b, m, 1)
    BY <1>4, <1>5, <1>7, ConcatFacts
  <1>9. Len(d) = i /\ d[i] = f /\ \A k \in 1 .. m : d[k] = q[k]
    BY <1>3, <1>4, <1>5, <1>8 DEF Joins
  <1>10. r \in Seq(X) /\ Joins(r, d, c, i, n)
    BY <1>6, <1>7, <1>8, <1>9, ConcatFacts
  <1>11. r = Splice(q, i, <<f>>)
    BY <1>1, <1>2, <1>7 DEF Splice
  <1>12. Len(r) = l /\ r[i] = f /\ \A j \in 1 .. i - 1 : r[j] = q[j]
    <2>1. i \in 1 .. i /\ i + n = l /\ \A j \in 1 .. i - 1 : j \in 1 .. i /\ j \in 1 .. m
      BY <1>1, <1>3
    <2> QED
      BY <1>9, <1>10, <2>1 DEF Joins
  <1>13. ASSUME NEW j \in i + 1 .. l PROVE r[j] = q[j]
    <2>1. PICK k \in 1 .. n : i + k = j
      <3>1. j - i \in 1 .. n /\ i + (j - i) = j
        BY <1>1, <1>3
      <3> QED
        BY <3>1
    <2>2. r[i + k] = c[k]
      BY <1>10 DEF Joins
    <2> QED
      BY <1>6, <2>1, <2>2
  <1> QED
    BY <1>1, <1>10, <1>11, <1>12, <1>13 DEF Replaces

LEMMA SpliceTwo ==
    ASSUME NEW X, NEW q \in Seq(X), NEW i \in 1 .. Len(q), NEW f \in X, NEW g \in X
    PROVE  Splice(q, i, <<f, g>>) \in Seq(X) /\ Splits(q, i, f, g, Splice(q, i, <<f, g>>))
  <1>1. PICK l \in Nat : l = Len(q) /\ i \in 1 .. l
    OBVIOUS
  <1>2. PICK a, b, c : a = SubSeq(q, 1, i - 1) /\ b = <<f, g>> /\ c = SubSeq(q, i + 1, l)
    OBVIOUS
  <1>3. PICK m, n \in Nat : m = i - 1 /\ n = l - i
    <2>1. i - 1 \in Nat /\ l - i \in Nat
      BY <1>1
    <2> QED
      BY <2>1
  <1>4. a \in Seq(X) /\ Len(a) = m /\ \A k \in 1 .. m : a[k] = q[k]
    BY <1>1, <1>2, <1>3
  <1>5. b \in Seq(X) /\ Len(b) = 2 /\ b[1] = f /\ b[2] = g
    BY <1>2
  <1>6. c \in Seq(X) /\ Len(c) = n /\ \A k \in 1 .. n : c[k] = q[i + k]
    BY <1>1, <1>2, <1>3
  <1>7. PICK d, r : d = a \o b /\ r = d \o c
    OBVIOUS
  <1>8. d \in Seq(X) /\ Joins(d, a, b, m, 2)
    BY <1>4, <1>5, <1>7, ConcatFacts
  <1>9. Len(d) = i + 1 /\ d[i] = f /\ d[i + 1] = g /\ \A k \in 1 .. m : d[k] = q[k]
    <2>1. m + 2 = i + 1 /\ m + 1 = i /\ 1 \in 1 .. 2 /\ 2 \in 1 .. 2
      BY <1>1, <1>3
    <2> QED
      BY <1>4, <1>5, <1>8, <2>1 DEF Joins
  <1>10. r \in Seq(X) /\ Joins(r, d, c, i + 1, n)
    BY <1>6, <1>7, <1>8, <1>9, ConcatFacts
  <1>11. r = Splice(q, i, <<f, g>>)
    BY <1>1, <1>2, <1>7 DEF Splice
  <1>12. Len(r) = l + 1 /\ r[i] = f /\ r[i + 1] = g /\ \A j \in 1 .. i - 1 : r[j] = q[j]
    <2>1. /\ i \in 1 .. i + 1 /\ i + 1 \in 1 .. i + 1 /\ (i + 1) + n = l + 1
          /\ \A j \in 1 .. i - 1 : j \in 1 .. i + 1 /\ j \in 1 .. m
      BY <1>1, <1>3
    <2> QED
      BY <1>9, <1>10, <2>1 DEF Joins
  <1>13. ASSUME NEW j \in i + 1 .. l PROVE r[j + 1] = q[j]
    <2>1. PICK k \in 1 .. n : i + k = j /\ (i + 1) + k = j + 1
      <3>1. j - i \in 1 .. n /\ i + (j - i) = j /\ (i + 1) + (j - i) = j + 1
        BY <1>1, <1>3
      <3> QED
        BY <3>1
    <2>2. r[(i + 1) + k] = c[k]
      BY <1>10 DEF Joins
    <2> QED
      BY <1>6, <2>1, <2>2
  <1> QED
    BY <1>1, <1>10, <1>11, <1>12, <1>13 DEF Splits

-----------------------------------------------------------------------------
(* The segments of m_slist.                                                *)

\* Segments q lie end to end from a to b; the first k have been sent, up to x.
Listed(q, a, b, k, x) == Tiles(q, a, b) /\ SentTo(q, a, k, x)

LEMMA SegmentType ==
    ASSUME NEW q \in Seq(Segment), NEW i \in 1 .. Len(q)
    PROVE  /\ q[i] \in Segment /\ q[i].seq \in Nat /\ q[i].len \in Nat /\ q[i].len > 0
           /\ q[i].xmit \in Nat /\ q[i].ctl \in BOOLEAN /\ EndOf(q[i]) \in Nat
           /\ EndOf(q[i]) > q[i].seq
  <1>1. q[i] \in Segment
    OBVIOUS
  <1> QED
    BY <1>1 DEF Segment, EndOf

\* Where the segments are.
LEMMA ListedFacts ==
    ASSUME NEW q, NEW a, NEW b, NEW k, NEW x, Listed(q, a, b, k, x)
    PROVE  /\ q \in Seq(Segment) /\ a \in Nat /\ b \in Nat /\ x \in Nat /\ k \in 0 .. Len(q)
           /\ a <= x /\ x <= b
           /\ \A i \in 1 .. Len(q) : i <= k => EndOf(q[i]) <= x
           /\ \A i \in 1 .. Len(q) : i > k => x <= q[i].seq
           /\ k < Len(q) => q[k + 1].seq = x
           /\ k < Len(q) <=> x < b
           /\ k > 0 <=> a < x
           /\ k > 0 => q[1].seq = a
           /\ \A i \in 1 .. Len(q) : a <= q[i].seq /\ EndOf(q[i]) <= b
  <1>1. PICK l \in Nat : l = Len(q)
    BY DEF Listed, Tiles
  <1>2. /\ q \in Seq(Segment) /\ a \in Nat
        /\ \A i \in 1 .. l : q[i].seq = Reaches(q, a, i - 1)
        /\ \A i, j \in 1 .. l : i < j => EndOf(q[i]) <= q[j].seq
        /\ b = Reaches(q, a, l) /\ k \in 0 .. l /\ x = Reaches(q, a, k)
    BY <1>1 DEF Listed, Tiles, SentTo
  <1>3. \A i \in 1 .. l : q[i].seq \in Nat /\ EndOf(q[i]) \in Nat /\ q[i].seq < EndOf(q[i])
    BY <1>1, <1>2, SegmentType
  <1>4. l > 0 => q[1].seq = a
    BY <1>2 DEF Reaches
  <1>5. \A i \in 1 .. l : a <= q[i].seq
    <2> SUFFICES ASSUME NEW i \in 1 .. l PROVE a <= q[i].seq
      OBVIOUS
    <2>1. CASE i = 1
      BY <1>2, <1>4, <2>1
    <2>2. CASE i > 1
      <3>1. 1 \in 1 .. l /\ EndOf(q[1]) <= q[i].seq
        BY <1>2, <2>2
      <3> QED
        BY <1>2, <1>3, <1>4, <3>1
    <2> QED
      BY <2>1, <2>2
  <1>6. \A i, j \in 1 .. l : i <= j => EndOf(q[i]) <= EndOf(q[j])
    <2> SUFFICES ASSUME NEW i \in 1 .. l, NEW j \in 1 .. l, i <= j PROVE EndOf(q[i]) <= EndOf(q[j])
      OBVIOUS
    <2>1. CASE i = j
      BY <1>3, <2>1
    <2>2. CASE i < j
      <3>1. EndOf(q[i]) <= q[j].seq
        BY <1>2, <2>2
      <3> QED
        BY <1>3, <3>1
    <2> QED
      BY <2>1, <2>2
  <1>7. b \in Nat /\ x \in Nat /\ a <= x /\ (k > 0 <=> a < x) /\ (k > 0 => x = EndOf(q[k]))
    <2>1. b \in Nat
      BY <1>2, <1>3 DEF Reaches
    <2>2. CASE k = 0
      BY <1>2, <2>1, <2>2 DEF Reaches
    <2>3. CASE k > 0
      <3>1. k \in 1 .. l /\ x = EndOf(q[k])
        BY <1>2, <2>3 DEF Reaches
      <3>2. a <= q[k].seq /\ q[k].seq < EndOf(q[k]) /\ q[k].seq \in Nat /\ EndOf(q[k]) \in Nat
        BY <1>3, <1>5, <3>1
      <3> QED
        BY <1>2, <2>1, <2>3, <3>1, <3>2
    <2> QED
      BY <1>2, <2>2, <2>3
  <1>8. \A i \in 1 .. l : EndOf(q[i]) <= b
    <2> SUFFICES ASSUME NEW i \in 1 .. l PROVE EndOf(q[i]) <= b
      OBVIOUS
    <2>1. l \in 1 .. l /\ i <= l /\ l # 0
      OBVIOUS
    <2>2. b = EndOf(q[l])
      BY <1>2, <2>1 DEF Reaches
    <2> QED
      BY <1>6, <2>1, <2>2
  <1>9. \A i \in 1 .. l : i <= k => EndOf(q[i]) <= x
    <2> SUFFICES ASSUME NEW i \in 1 .. l, i <= k PROVE EndOf(q[i]) <= x
      OBVIOUS
    <2>1. k \in 1 .. l /\ k > 0
      BY <1>2
    <2> QED
      BY <1>6, <1>7, <2>1
  <1>10. k < l => k + 1 \in 1 .. l /\ q[k + 1].seq = x
    <2>1. k < l => k + 1 \in 1 .. l /\ (k + 1) - 1 = k
      BY <1>2
    <2> QED
      BY <1>2, <2>1
  <1>11. \A i \in 1 .. l : i > k => x <= q[i].seq
    <2> SUFFICES ASSUME NEW i \in 1 .. l, i > k PROVE x <= q[i].seq
      OBVIOUS
    <2>1. k < l /\ k + 1 \in 1 .. l /\ k + 1 <= i /\ q[k + 1].seq = x
      BY <1>2, <1>10
    <2>2. CASE i = k + 1
      BY <1>7, <2>1, <2>2
    <2>3. CASE i > k + 1
      <3>1. EndOf(q[k + 1]) <= q[i].seq
        BY <1>2, <2>1, <2>3
      <3> QED
        BY <1>3, <2>1, <3>1
    <2> QED
      BY <1>2, <2>1, <2>2, <2>3
  <1>12. k < l <=> x < b
    <2>1. CASE k < l
      <3>1. k + 1 \in 1 .. l /\ q[k + 1].seq = x
        BY <1>10, <2>1
      <3>2. EndOf(q[k + 1]) <= b /\ x < EndOf(q[k + 1])
        BY <1>3, <1>8, <3>1
      <3> QED
        BY <1>3, <1>7, <2>1, <3>1, <3>2
    <2>2. CASE k = l
      <3>1. x = b
        BY <1>2, <2>2
      <3> QED
        BY <1>7, <2>2, <3>1
    <2> QED
      BY <1>2, <2>1, <2>2
  <1>13. x <= b
    <2>1. CASE k = l
      BY <1>2, <1>7, <2>1
    <2>2. CASE k < l
      BY <1>7, <1>12, <2>2
    <2> QED
      BY <1>2, <2>1, <2>2
  <1>14. k > 0 => q[1].seq = a
    BY <1>2, <1>4
  <1> QED
    BY <1>1, <1>2, <1>5, <1>7, <1>8, <1>9, <1>10, <1>11, <1>12, <1>13, <1>14

\* Segment i becomes the two segments f and g that cover it.
Halves(q, i, f, g) ==
    /\ f \in Segment /\ g \in Segment
    /\ f.seq = q[i].seq /\ g.seq = EndOf(f) /\ EndOf(g) = EndOf(q[i])

LEMMA TilesSplit ==
    ASSUME NEW q, NEW a, NEW b, Tiles(q, a, b), NEW i \in 1 .. Len(q), NEW f, NEW g,
           Halves(q, i, f, g), NEW r \in Seq(Segment), Splits(q, i, f, g, r)
    PROVE  Tiles(r, a, b)
  <1>1. PICK l \in Nat : l = Len(q)
    BY DEF Tiles
  <1>2. /\ q \in Seq(Segment) /\ a \in Nat /\ i \in 1 .. l
        /\ \A j \in 1 .. l : q[j].seq = Reaches(q, a, j - 1)
        /\ \A j, m \in 1 .. l : j < m => EndOf(q[j]) <= q[m].seq
        /\ b = Reaches(q, a, l)
    BY <1>1 DEF Tiles
  <1>3. /\ Len(r) = l + 1 /\ r[i] = f /\ r[i + 1] = g
        /\ \A j \in 1 .. i - 1 : r[j] = q[j]
        /\ \A j \in i + 1 .. l : r[j + 1] = q[j]
    BY <1>1 DEF Splits
  <1>4. \A j \in 1 .. l : q[j].seq \in Nat /\ EndOf(q[j]) \in Nat /\ q[j].seq < EndOf(q[j])
    BY <1>1, <1>2, SegmentType
  <1>5. \A j \in 1 .. l + 1 : r[j].seq \in Nat /\ EndOf(r[j]) \in Nat /\ r[j].seq < EndOf(r[j])
    BY <1>3, SegmentType
  <1>6. f.seq = q[i].seq /\ g.seq = EndOf(f) /\ EndOf(g) = EndOf(q[i])
    BY DEF Halves
  <1>7. ASSUME NEW j \in 1 .. l + 1
        PROVE  \/ j < i /\ j \in 1 .. l /\ r[j] = q[j]
               \/ j = i /\ r[j] = f
               \/ j = i + 1 /\ r[j] = g
               \/ j > i + 1 /\ j - 1 \in 1 .. l /\ r[j] = q[j - 1]
    <2>1. CASE j < i
      BY <1>2, <1>3, <2>1
    <2>2. CASE j > i + 1
      <3>1. j - 1 \in i + 1 .. l /\ j - 1 \in 1 .. l /\ (j - 1) + 1 = j
        BY <1>2, <2>2
      <3> QED
        BY <1>3, <2>2, <3>1
    <2> QED
      BY <1>2, <1>3, <2>1, <2>2
  <1> DEFINE o(j) == IF j <= i THEN j ELSE j - 1
  <1>8. ASSUME NEW j \in 1 .. l + 1
        PROVE  o(j) \in 1 .. l /\ q[o(j)].seq <= r[j].seq /\ EndOf(r[j]) <= EndOf(q[o(j)])
    <2>1. CASE j < i /\ r[j] = q[j]
      <3>1. o(j) = j /\ j \in 1 .. l
        BY <1>2, <2>1
      <3>2. q[j].seq \in Nat /\ EndOf(q[j]) \in Nat
        BY <1>4, <3>1
      <3> QED
        BY <2>1, <3>1, <3>2
    <2>2. CASE j = i /\ r[j] = f
      <3>1. o(j) = i /\ i + 1 \in 1 .. l + 1 /\ i \in 1 .. l + 1
        BY <1>2, <2>2
      <3>2. EndOf(f) = g.seq /\ g.seq < EndOf(g)
        BY <1>3, <1>5, <1>6, <3>1
      <3>3. q[i].seq \in Nat /\ EndOf(q[i]) \in Nat /\ EndOf(f) \in Nat /\ g.seq \in Nat
        BY <1>2, <1>3, <1>4, <1>5, <3>1
      <3> QED
        BY <1>2, <1>6, <2>2, <3>1, <3>2, <3>3
    <2>3. CASE j = i + 1 /\ r[j] = g
      <3>1. o(j) = i /\ i + 1 \in 1 .. l + 1 /\ i \in 1 .. l + 1
        BY <1>2, <2>3
      <3>2. f.seq < g.seq
        BY <1>3, <1>5, <1>6, <3>1
      <3>3. q[i].seq \in Nat /\ EndOf(q[i]) \in Nat /\ g.seq \in Nat
        BY <1>2, <1>3, <1>4, <1>5, <3>1
      <3>4. q[i].seq <= g.seq
        BY <1>6, <3>2, <3>3
      <3>5. EndOf(g) <= EndOf(q[i])
        BY <1>6, <3>3
      <3> QED
        BY <1>2, <2>3, <3>1, <3>4, <3>5
    <2>4. CASE j > i + 1 /\ r[j] = q[j - 1]
      <3>1. o(j) = j - 1 /\ j - 1 \in 1 .. l
        BY <1>2, <2>4
      <3>2. q[j - 1].seq \in Nat /\ EndOf(q[j - 1]) \in Nat
        BY <1>4, <3>1
      <3> QED
        BY <2>4, <3>1, <3>2
    <2> QED
      BY <1>7, <2>1, <2>2, <2>3, <2>4
  <1>9. ASSUME NEW j \in 1 .. l + 1, NEW m \in 1 .. l + 1, j < m PROVE EndOf(r[j]) <= r[m].seq
    <2>1. CASE o(j) < o(m)
      <3>1. PICK c, d : c = o(j) /\ d = o(m)
        OBVIOUS
      <3>2. c \in 1 .. l /\ d \in 1 .. l /\ EndOf(r[j]) <= EndOf(q[c]) /\ q[d].seq <= r[m].seq
        BY <1>8, <3>1
      <3>3. EndOf(q[c]) <= q[d].seq
        BY <1>2, <2>1, <3>1, <3>2
      <3>4. /\ EndOf(q[c]) \in Nat /\ q[d].seq \in Nat /\ EndOf(r[j]) \in Nat
            /\ r[m].seq \in Nat
        BY <1>4, <1>5, <3>2
      <3> QED
        BY <3>2, <3>3, <3>4
    <2>2. CASE ~(o(j) < o(m))
      <3>1. j = i /\ m = i + 1
        BY <1>2, <1>9, <2>2
      <3>2. EndOf(r[j]) = r[m].seq
        BY <1>3, <1>6, <3>1
      <3> QED
        BY <1>5, <3>2
    <2> QED
      BY <2>1, <2>2
  <1>10. ASSUME NEW j \in 1 .. l + 1 PROVE r[j].seq = Reaches(r, a, j - 1)
    <2>1. CASE j < i
      <3>1. j \in 1 .. l /\ j \in 1 .. i - 1 /\ (j - 1 # 0 => j - 1 \in 1 .. i - 1)
        BY <1>2, <2>1
      <3>2. r[j] = q[j] /\ (j - 1 # 0 => r[j - 1] = q[j - 1])
        BY <1>3, <3>1
      <3> QED
        BY <1>2, <3>1, <3>2 DEF Reaches
    <2>2. CASE j = i
      <3>1. j \in 1 .. l /\ (j - 1 # 0 => j - 1 \in 1 .. i - 1)
        BY <1>2, <2>2
      <3>2. r[j].seq = q[j].seq /\ (j - 1 # 0 => r[j - 1] = q[j - 1])
        BY <1>3, <1>6, <2>2, <3>1
      <3> QED
        BY <1>2, <3>1, <3>2 DEF Reaches
    <2>3. CASE j = i + 1
      <3>1. j - 1 = i /\ j - 1 # 0
        BY <1>2, <2>3
      <3> QED
        BY <1>3, <1>6, <2>3, <3>1 DEF Reaches
    <2>4. CASE j = i + 2
      <3>1. j - 1 = i + 1 /\ j - 1 # 0 /\ i + 1 \in 1 .. l /\ i + 1 \in i + 1 .. l
            /\ (i + 1) - 1 = i /\ i # 0 /\ (i + 1) + 1 = j
        BY <1>2, <2>4
      <3>2. r[j] = q[i + 1] /\ q[i + 1].seq = EndOf(q[i])
        BY <1>2, <1>3, <3>1 DEF Reaches
      <3> QED
        BY <1>3, <1>6, <3>1, <3>2 DEF Reaches
    <2>5. CASE j > i + 2
      <3>1. PICK m \in 1 .. l : /\ j = m + 1 /\ j - 1 = m /\ m \in i + 1 .. l
                                /\ m - 1 \in i + 1 .. l /\ (m - 1) + 1 = m /\ m - 1 # 0 /\ m # 0
        <4>1. /\ j - 1 \in 1 .. l /\ j = (j - 1) + 1 /\ j - 1 \in i + 1 .. l
              /\ (j - 1) - 1 \in i + 1 .. l /\ ((j - 1) - 1) + 1 = j - 1 /\ (j - 1) - 1 # 0
              /\ j - 1 # 0
          BY <1>2, <2>5
        <4> QED
          BY <4>1
      <3>2. r[m + 1] = q[m] /\ r[m] = q[m - 1]
        <4>1. r[(m - 1) + 1] = q[m - 1]
          BY <1>3, <3>1
        <4> QED
          BY <1>3, <3>1, <4>1
      <3>3. q[m].seq = EndOf(q[m - 1])
        BY <1>2, <3>1 DEF Reaches
      <3> QED
        BY <3>1, <3>2, <3>3 DEF Reaches
    <2> QED
      BY <1>2, <2>1, <2>2, <2>3, <2>4, <2>5
  <1>11. b = Reaches(r, a, l + 1)
    <2>1. b = EndOf(q[l]) /\ l + 1 # 0
      BY <1>2 DEF Reaches
    <2>2. CASE i = l
      BY <1>3, <1>6, <2>1, <2>2 DEF Reaches
    <2>3. CASE i < l
      <3>1. l \in i + 1 .. l
        BY <1>2, <2>3
      <3> QED
        BY <1>3, <2>1, <3>1 DEF Reaches
    <2> QED
      BY <1>2, <2>2, <2>3
  <1> QED
    BY <1>2, <1>3, <1>9, <1>10, <1>11 DEF Tiles

\* Segment i becomes f, which covers it.
LEMMA TilesReplace ==
    ASSUME NEW q, NEW a, NEW b, Tiles(q, a, b), NEW i \in 1 .. Len(q), NEW f \in Segment,
           f.seq = q[i].seq, EndOf(f) = EndOf(q[i]), NEW r \in Seq(Segment), Replaces(q, i, f, r)
    PROVE  Tiles(r, a, b)
  <1>1. PICK l \in Nat : l = Len(q)
    BY DEF Tiles
  <1>2. /\ q \in Seq(Segment) /\ a \in Nat /\ i \in 1 .. l
        /\ \A j \in 1 .. l : q[j].seq = Reaches(q, a, j - 1)
        /\ \A j, m \in 1 .. l : j < m => EndOf(q[j]) <= q[m].seq
        /\ b = Reaches(q, a, l)
    BY <1>1 DEF Tiles
  <1>3. Len(r) = l
    BY <1>1 DEF Replaces
  <1>4. ASSUME NEW j \in 1 .. l PROVE r[j].seq = q[j].seq /\ EndOf(r[j]) = EndOf(q[j])
    <2>1. CASE j = i
      BY <2>1 DEF Replaces
    <2>2. CASE j # i
      <3>1. j \in 1 .. i - 1 \/ j \in i + 1 .. l
        BY <1>2, <2>2
      <3>2. r[j] = q[j]
        BY <1>1, <3>1 DEF Replaces
      <3> QED
        BY <3>2
    <2> QED
      BY <2>1, <2>2
  <1>5. \A j \in 0 .. l : Reaches(r, a, j) = Reaches(q, a, j)
    <2>1. \A j \in 0 .. l : j = 0 \/ j \in 1 .. l
      OBVIOUS
    <2> QED
      BY <1>4, <2>1 DEF Reaches
  <1>6. \A j \in 1 .. l : j - 1 \in 0 .. l
    OBVIOUS
  <1>7. l \in 0 .. l
    OBVIOUS
  <1> QED
    BY <1>2, <1>3, <1>4, <1>5, <1>6, <1>7 DEF Tiles

\* Marks stay, and f's end, when it has been sent, is one.
LEMMA MarksSplit ==
    ASSUME NEW q \in Seq(Segment), NEW a, NEW i \in 1 .. Len(q), NEW f, NEW g, Halves(q, i, f, g),
           q[i].xmit > 0 => g.xmit > 0, NEW r \in Seq(Segment), Splits(q, i, f, g, r)
    PROVE  /\ \A v : Mark(q, a, v) => Mark(r, a, v)
           /\ f.xmit > 0 => Mark(r, a, EndOf(f))
  <1>1. PICK l \in Nat : l = Len(q)
    OBVIOUS
  <1>2. /\ Len(r) = l + 1 /\ r[i] = f /\ r[i + 1] = g /\ i \in 1 .. l
        /\ \A j \in 1 .. i - 1 : r[j] = q[j]
        /\ \A j \in i + 1 .. l : r[j + 1] = q[j]
    BY <1>1 DEF Splits
  <1>3. \A j \in 1 .. l + 1 : r[j].xmit > 0 => Mark(r, a, EndOf(r[j]))
    BY <1>2 DEF Mark
  <1>4. ASSUME NEW j \in 1 .. l, q[j].xmit > 0 PROVE Mark(r, a, EndOf(q[j]))
    <2>1. CASE j < i
      <3>1. j \in 1 .. i - 1 /\ j \in 1 .. l + 1
        BY <1>2, <2>1
      <3>2. r[j] = q[j]
        BY <1>2, <3>1
      <3> QED
        BY <1>3, <1>4, <3>1, <3>2
    <2>2. CASE j = i
      <3>1. i + 1 \in 1 .. l + 1
        BY <1>2
      <3>2. g.xmit > 0 /\ EndOf(g) = EndOf(q[j])
        BY <1>4, <2>2 DEF Halves
      <3> QED
        BY <1>2, <1>3, <3>1, <3>2
    <2>3. CASE j > i
      <3>1. j \in i + 1 .. l /\ j + 1 \in 1 .. l + 1
        BY <1>2, <2>3
      <3>2. r[j + 1] = q[j]
        BY <1>2, <3>1
      <3> QED
        BY <1>3, <1>4, <3>1, <3>2
    <2> QED
      BY <1>2, <2>1, <2>2, <2>3
  <1>5. ASSUME NEW v, Mark(q, a, v) PROVE Mark(r, a, v)
    <2>1. CASE v \in 0 .. a
      BY <2>1 DEF Mark
    <2>2. CASE \E j \in 1 .. l : q[j].xmit > 0 /\ v = EndOf(q[j])
      BY <1>4, <2>2
    <2> QED
      BY <1>1, <1>5, <2>1, <2>2 DEF Mark
  <1>6. i \in 1 .. l + 1
    BY <1>2
  <1> QED
    BY <1>2, <1>3, <1>5, <1>6

LEMMA MarksReplace ==
    ASSUME NEW q \in Seq(Segment), NEW a, NEW i \in 1 .. Len(q), NEW f,
           EndOf(f) = EndOf(q[i]), f.xmit > 0, NEW r \in Seq(Segment), Replaces(q, i, f, r)
    PROVE  /\ \A v : Mark(q, a, v) => Mark(r, a, v)
           /\ Mark(r, a, EndOf(f))
  <1>1. PICK l \in Nat : l = Len(q)
    OBVIOUS
  <1>2. /\ Len(r) = l /\ r[i] = f /\ i \in 1 .. l
        /\ \A j \in 1 .. l : j # i => r[j] = q[j]
    <2>1. \A j \in 1 .. l : j # i => j \in 1 .. i - 1 \/ j \in i + 1 .. l
      OBVIOUS
    <2> QED
      BY <1>1, <2>1 DEF Replaces
  <1>3. \A j \in 1 .. l : r[j].xmit > 0 => Mark(r, a, EndOf(r[j]))
    BY <1>2 DEF Mark
  <1>4. ASSUME NEW j \in 1 .. l, q[j].xmit > 0 PROVE Mark(r, a, EndOf(q[j]))
    BY <1>2, <1>3, <1>4
  <1>5. ASSUME NEW v, Mark(q, a, v) PROVE Mark(r, a, v)
    <2>1. CASE v \in 0 .. a
      BY <2>1 DEF Mark
    <2>2. CASE \E j \in 1 .. l : q[j].xmit > 0 /\ v = EndOf(q[j])
      BY <1>4, <2>2
    <2> QED
      BY <1>1, <1>5, <2>1, <2>2 DEF Mark
  <1> QED
    BY <1>2, <1>3, <1>5

\* How far r reaches, which is q split at i.
LEMMA ReachesSplit ==
    ASSUME NEW q \in Seq(Segment), NEW a, NEW i \in 1 .. Len(q), NEW f, NEW g, Halves(q, i, f, g),
           NEW r, Splits(q, i, f, g, r)
    PROVE  /\ \A j \in 0 .. i - 1 : Reaches(r, a, j) = Reaches(q, a, j)
           /\ Reaches(r, a, i) = EndOf(f)
           /\ \A j \in i .. Len(q) : Reaches(r, a, j + 1) = Reaches(q, a, j)
  <1>1. PICK l \in Nat : l = Len(q)
    OBVIOUS
  <1>2. /\ Len(r) = l + 1 /\ r[i] = f /\ r[i + 1] = g /\ i \in 1 .. l
        /\ \A j \in 1 .. i - 1 : r[j] = q[j]
        /\ \A j \in i + 1 .. l : r[j + 1] = q[j]
    BY <1>1 DEF Splits
  <1>3. \A j \in 0 .. i - 1 : j = 0 \/ j \in 1 .. i - 1
    OBVIOUS
  <1>4. \A j \in i .. l : j # 0 /\ j + 1 # 0 /\ (j = i \/ j \in i + 1 .. l)
    BY <1>2
  <1>5. EndOf(g) = EndOf(q[i]) /\ i # 0
    BY DEF Halves
  <1>6. ASSUME NEW j \in i .. l PROVE Reaches(r, a, j + 1) = Reaches(q, a, j)
    BY <1>2, <1>4, <1>5 DEF Reaches
  <1> QED
    BY <1>1, <1>2, <1>3, <1>5, <1>6 DEF Reaches

\* q split at i, element by element.
LEMMA SplitPlace ==
    ASSUME NEW q \in Seq(Segment), NEW i \in 1 .. Len(q), NEW f, NEW g, NEW r, Splits(q, i, f, g, r),
           NEW j \in 1 .. Len(q) + 1
    PROVE  \/ j < i /\ j \in 1 .. Len(q) /\ r[j] = q[j]
           \/ j = i /\ r[j] = f
           \/ j = i + 1 /\ r[j] = g
           \/ j > i + 1 /\ j - 1 \in 1 .. Len(q) /\ r[j] = q[j - 1]
  <1>1. PICK l \in Nat : l = Len(q) /\ i \in 1 .. l /\ j \in 1 .. l + 1
    OBVIOUS
  <1>2. /\ r[i] = f /\ r[i + 1] = g
        /\ \A m \in 1 .. i - 1 : r[m] = q[m]
        /\ \A m \in i + 1 .. l : r[m + 1] = q[m]
    BY <1>1 DEF Splits
  <1>3. CASE j < i
    BY <1>1, <1>2, <1>3
  <1>4. CASE j > i + 1
    <2>1. j - 1 \in i + 1 .. l /\ j - 1 \in 1 .. l /\ (j - 1) + 1 = j
      BY <1>1, <1>4
    <2> QED
      BY <1>1, <1>2, <1>4, <2>1
  <1> QED
    BY <1>1, <1>2, <1>3, <1>4

\* A segment that has not been sent is cut in two.
LEMMA CutKeeps ==
    ASSUME NEW q, NEW a, NEW b, NEW k, NEW x, Listed(q, a, b, k, x), NEW i \in 1 .. Len(q), i > k,
           NEW f, NEW g, Halves(q, i, f, g), f.xmit = 0, g.xmit = 0,
           NEW r \in Seq(Segment), Splits(q, i, f, g, r)
    PROVE  Listed(r, a, b, k, x) /\ \A v : Mark(q, a, v) => Mark(r, a, v)
  <1>1. PICK l \in Nat : l = Len(q)
    BY DEF Listed, Tiles
  <1>2. /\ q \in Seq(Segment) /\ i \in 1 .. l /\ k \in 0 .. l /\ x = Reaches(q, a, k)
        /\ \A j \in 1 .. l : q[j].xmit > 0 <=> j <= k
    BY <1>1 DEF Listed, Tiles, SentTo
  <1>3. Tiles(r, a, b)
    BY TilesSplit DEF Listed
  <1>4. Len(r) = l + 1
    BY <1>1 DEF Splits
  <1>5. k \in 0 .. l + 1 /\ k \in 0 .. i - 1
    BY <1>2
  <1>6. x = Reaches(r, a, k)
    <2>1. k = 0 \/ k \in 1 .. i - 1
      BY <1>5
    <2>2. k \in 1 .. i - 1 => r[k] = q[k]
      BY DEF Splits
    <2> QED
      BY <1>2, <2>1, <2>2 DEF Reaches
  <1>7. ~(f.xmit > 0) /\ ~(g.xmit > 0)
    OBVIOUS
  <1>8. ASSUME NEW j \in 1 .. l + 1 PROVE r[j].xmit > 0 <=> j <= k
    <2>1. \/ j < i /\ j \in 1 .. l /\ r[j] = q[j]
          \/ j = i /\ r[j] = f
          \/ j = i + 1 /\ r[j] = g
          \/ j > i + 1 /\ j - 1 \in 1 .. l /\ r[j] = q[j - 1]
      BY <1>1, <1>2, SplitPlace
    <2>2. j > i + 1 /\ j - 1 \in 1 .. l => ~(j <= k) /\ ~(j - 1 <= k)
      BY <1>2
    <2>3. j = i \/ j = i + 1 => ~(j <= k)
      BY <1>2
    <2> QED
      BY <1>2, <1>7, <2>1, <2>2, <2>3
  <1>9. \A v : Mark(q, a, v) => Mark(r, a, v)
    <2>1. ~(q[i].xmit > 0)
      BY <1>2
    <2> QED
      BY <1>2, <2>1, MarksSplit
  <1> QED
    BY <1>3, <1>4, <1>5, <1>6, <1>8, <1>9 DEF Listed, SentTo

\* A segment is sent, the first part of it or all of it: one that was sent before, or the
\* next one.
LEMMA SendSplits ==
    ASSUME NEW q, NEW a, NEW b, NEW k, NEW x, Listed(q, a, b, k, x), NEW i \in 1 .. Len(q), i <= k + 1,
           NEW f, NEW g, Halves(q, i, f, g), f.xmit > 0, g.xmit = q[i].xmit,
           NEW r \in Seq(Segment), Splits(q, i, f, g, r),
           NEW y, y = IF i = k + 1 THEN EndOf(f) ELSE x
    PROVE  /\ Listed(r, a, b, k + 1, y) /\ Mark(r, a, EndOf(f))
           /\ \A v : Mark(q, a, v) => Mark(r, a, v)
  <1>1. PICK l \in Nat : l = Len(q)
    BY DEF Listed, Tiles
  <1>2. /\ q \in Seq(Segment) /\ i \in 1 .. l /\ k \in 0 .. l /\ x = Reaches(q, a, k)
        /\ \A j \in 1 .. l : q[j].xmit > 0 <=> j <= k
    BY <1>1 DEF Listed, Tiles, SentTo
  <1>3. Tiles(r, a, b)
    BY TilesSplit DEF Listed
  <1>4. Len(r) = l + 1 /\ k + 1 \in 0 .. l + 1
    BY <1>1, <1>2 DEF Splits
  <1>6. y = Reaches(r, a, k + 1)
    <2>1. CASE i = k + 1
      BY <1>2, <2>1, ReachesSplit
    <2>2. CASE i # k + 1
      <3>1. k \in i .. l
        BY <1>2, <2>2
      <3> QED
        BY <1>1, <1>2, <2>2, <3>1, ReachesSplit
    <2> QED
      BY <2>1, <2>2
  <1>7. f.xmit > 0 /\ (g.xmit > 0 <=> i <= k)
    BY <1>2
  <1>8. ASSUME NEW j \in 1 .. l + 1 PROVE r[j].xmit > 0 <=> j <= k + 1
    <2>1. \/ j < i /\ j \in 1 .. l /\ r[j] = q[j]
          \/ j = i /\ r[j] = f
          \/ j = i + 1 /\ r[j] = g
          \/ j > i + 1 /\ j - 1 \in 1 .. l /\ r[j] = q[j - 1]
      BY <1>1, <1>2, SplitPlace
    <2>2. j < i => j <= k /\ j <= k + 1
      BY <1>2
    <2>3. j = i => j <= k + 1
      BY <1>2
    <2>4. j = i + 1 => (i <= k <=> j <= k + 1)
      BY <1>2
    <2>5. j - 1 <= k <=> j <= k + 1
      BY <1>2
    <2> QED
      BY <1>2, <1>7, <2>1, <2>2, <2>3, <2>4, <2>5
  <1>9. Mark(r, a, EndOf(f)) /\ \A v : Mark(q, a, v) => Mark(r, a, v)
    BY <1>2, <1>7, MarksSplit
  <1> QED
    BY <1>3, <1>4, <1>6, <1>8, <1>9 DEF Listed, SentTo

LEMMA SendReplaces ==
    ASSUME NEW q, NEW a, NEW b, NEW k, NEW x, Listed(q, a, b, k, x), NEW i \in 1 .. Len(q), i <= k + 1,
           NEW f \in Segment, f.seq = q[i].seq, EndOf(f) = EndOf(q[i]), f.xmit > 0,
           NEW r \in Seq(Segment), Replaces(q, i, f, r),
           NEW y, y = IF i = k + 1 THEN EndOf(f) ELSE x,
           NEW m, m = IF i = k + 1 THEN k + 1 ELSE k
    PROVE  /\ Listed(r, a, b, m, y) /\ Mark(r, a, EndOf(f))
           /\ \A v : Mark(q, a, v) => Mark(r, a, v)
  <1>1. PICK l \in Nat : l = Len(q)
    BY DEF Listed, Tiles
  <1>2. /\ q \in Seq(Segment) /\ i \in 1 .. l /\ k \in 0 .. l /\ x = Reaches(q, a, k)
        /\ \A j \in 1 .. l : q[j].xmit > 0 <=> j <= k
    BY <1>1 DEF Listed, Tiles, SentTo
  <1>3. Tiles(r, a, b)
    BY TilesReplace DEF Listed
  <1>4. Len(r) = l /\ m \in 0 .. l
    BY <1>1, <1>2 DEF Replaces
  <1>5. r[i] = f /\ \A j \in 1 .. l : j # i => r[j] = q[j]
    <2>1. \A j \in 1 .. l : j # i => j \in 1 .. i - 1 \/ j \in i + 1 .. l
      BY <1>2
    <2> QED
      BY <1>1, <2>1 DEF Replaces
  <1>6. y = Reaches(r, a, m)
    <2>1. CASE i = k + 1
      <3>1. m = i /\ i # 0
        BY <1>2, <2>1
      <3> QED
        BY <1>5, <2>1, <3>1 DEF Reaches
    <2>2. CASE i # k + 1
      <3>1. m = k /\ k # 0 /\ k \in 1 .. l
        BY <1>2, <2>2
      <3> QED
        BY <1>2, <1>5, <2>2, <3>1 DEF Reaches
    <2> QED
      BY <2>1, <2>2
  <1>8. ASSUME NEW j \in 1 .. l PROVE r[j].xmit > 0 <=> j <= m
    <2>1. CASE j = i
      <3>1. j <= m
        BY <1>2, <2>1
      <3> QED
        BY <1>5, <2>1, <3>1
    <2>2. CASE j # i
      <3>1. j <= m <=> j <= k
        BY <1>2, <2>2
      <3> QED
        BY <1>2, <1>5, <2>2, <3>1
    <2> QED
      BY <2>1, <2>2
  <1>9. Mark(r, a, EndOf(f)) /\ \A v : Mark(q, a, v) => Mark(r, a, v)
    BY <1>2, MarksReplace
  <1> QED
    BY <1>3, <1>4, <1>6, <1>8, <1>9 DEF Listed, SentTo

\* A new segment behind the others.
LEMMA AppendKeeps ==
    ASSUME NEW q, NEW a, NEW b, NEW k, NEW x, Listed(q, a, b, k, x), NEW s \in Segment, s.seq = b,
           s.xmit = 0, NEW r, r = Append(q, s)
    PROVE  Listed(r, a, EndOf(s), k, x) /\ \A v : Mark(q, a, v) => Mark(r, a, v)
  <1>1. PICK l \in Nat : l = Len(q)
    BY DEF Listed, Tiles
  <1>2. /\ q \in Seq(Segment) /\ a \in Nat /\ k \in 0 .. l /\ x = Reaches(q, a, k)
        /\ \A j \in 1 .. l : q[j].xmit > 0 <=> j <= k
        /\ \A j \in 1 .. l : q[j].seq = Reaches(q, a, j - 1)
        /\ \A j, m \in 1 .. l : j < m => EndOf(q[j]) <= q[m].seq
        /\ b = Reaches(q, a, l)
    BY <1>1 DEF Listed, Tiles, SentTo
  <1>3. \A i \in 1 .. l : EndOf(q[i]) <= b
    BY <1>1, ListedFacts
  <1>4. r \in Seq(Segment) /\ Len(r) = l + 1 /\ r[l + 1] = s /\ \A j \in 1 .. l : r[j] = q[j]
    BY <1>1, <1>2
  <1>5. \A j \in 0 .. l : Reaches(r, a, j) = Reaches(q, a, j)
    <2>1. \A j \in 0 .. l : j = 0 \/ j \in 1 .. l
      OBVIOUS
    <2> QED
      BY <1>4, <2>1 DEF Reaches
  <1>6. Reaches(r, a, l + 1) = EndOf(s)
    BY <1>4 DEF Reaches
  <1>7. \A j \in 1 .. l + 1 : j \in 1 .. l \/ j = l + 1
    OBVIOUS
  <1>8. Tiles(r, a, EndOf(s))
    <2>1. ASSUME NEW j \in 1 .. l + 1 PROVE r[j].seq = Reaches(r, a, j - 1)
      <3>1. j - 1 \in 0 .. l
        OBVIOUS
      <3>2. CASE j \in 1 .. l
        BY <1>2, <1>4, <1>5, <3>1, <3>2
      <3>3. CASE j = l + 1
        <4>1. j - 1 = l
          BY <3>3
        <4> QED
          BY <1>2, <1>4, <1>5, <3>1, <3>3, <4>1
      <3> QED
        BY <1>7, <3>2, <3>3
    <2>2. ASSUME NEW j \in 1 .. l + 1, NEW m \in 1 .. l + 1, j < m PROVE EndOf(r[j]) <= r[m].seq
      <3>1. j \in 1 .. l
        BY <2>2
      <3>2. CASE m \in 1 .. l
        BY <1>2, <1>4, <2>2, <3>1, <3>2
      <3>3. CASE m = l + 1
        BY <1>3, <1>4, <3>1, <3>3
      <3> QED
        BY <1>7, <3>2, <3>3
    <2> QED
      BY <1>2, <1>4, <1>6, <2>1, <2>2 DEF Tiles
  <1>9. SentTo(r, a, k, x)
    <2>1. k \in 0 .. l + 1 /\ ~(l + 1 <= k) /\ ~(s.xmit > 0)
      BY <1>2
    <2>2. \A j \in 1 .. l + 1 : r[j].xmit > 0 <=> j <= k
      BY <1>2, <1>4, <1>7, <2>1
    <2> QED
      BY <1>2, <1>4, <1>5, <2>1, <2>2 DEF SentTo
  <1>10. ASSUME NEW v, Mark(q, a, v) PROVE Mark(r, a, v)
    <2>1. \A j \in 1 .. l : j \in 1 .. l + 1
      OBVIOUS
    <2> QED
      BY <1>1, <1>4, <1>10, <2>1 DEF Mark
  <1> QED
    BY <1>8, <1>9, <1>10 DEF Listed

\* Segments q when the last grows by n.
Grown(q, n) == [q EXCEPT ![Len(q)].len = @ + n]

\* The last segment, when it has not been sent, grows by n.
LEMMA JoinKeeps ==
    ASSUME NEW q, NEW a, NEW b, NEW k, NEW x, Listed(q, a, b, k, x), Len(q) > 0, Len(q) > k,
           NEW n \in Nat, NEW r, r = Grown(q, n)
    PROVE  Listed(r, a, b + n, k, x) /\ \A v : Mark(q, a, v) => Mark(r, a, v)
  <1>1. PICK l \in Nat : l = Len(q) /\ l > 0 /\ l > k
    BY DEF Listed, Tiles
  <1>2. /\ q \in Seq(Segment) /\ a \in Nat /\ k \in 0 .. l /\ x = Reaches(q, a, k)
        /\ \A j \in 1 .. l : q[j].xmit > 0 <=> j <= k
        /\ \A j \in 1 .. l : q[j].seq = Reaches(q, a, j - 1)
        /\ \A j, m \in 1 .. l : j < m => EndOf(q[j]) <= q[m].seq
        /\ b = Reaches(q, a, l)
    BY <1>1 DEF Listed, Tiles, SentTo
  <1>3. PICK f : f = [q[l] EXCEPT !.len = @ + n]
    OBVIOUS
  <1>4. q[l] \in Segment /\ l \in 1 .. l
    BY <1>1, <1>2
  <1>5. f \in Segment /\ f.seq = q[l].seq /\ f.xmit = q[l].xmit /\ EndOf(f) = EndOf(q[l]) + n
    BY <1>3, <1>4 DEF Segment, EndOf
  <1>6. r \in Seq(Segment) /\ Len(r) = l /\ r[l] = f /\ \A j \in 1 .. l : j # l => r[j] = q[j]
    BY <1>1, <1>2, <1>3, <1>5 DEF Grown
  <1>7. \A j \in 0 .. l : j # l => Reaches(r, a, j) = Reaches(q, a, j)
    <2>1. \A j \in 0 .. l : j = 0 \/ j \in 1 .. l
      OBVIOUS
    <2> QED
      BY <1>6, <2>1 DEF Reaches
  <1>8. Reaches(r, a, l) = b + n
    BY <1>1, <1>2, <1>5, <1>6 DEF Reaches
  <1>9. \A j \in 1 .. l : r[j].seq = q[j].seq /\ r[j].xmit = q[j].xmit
    BY <1>5, <1>6
  <1>10. Tiles(r, a, b + n)
    <2>1. \A j \in 1 .. l : j - 1 \in 0 .. l /\ j - 1 # l
      OBVIOUS
    <2>2. \A j \in 1 .. l : r[j].seq = Reaches(r, a, j - 1)
      BY <1>2, <1>7, <1>9, <2>1
    <2>3. ASSUME NEW j \in 1 .. l, NEW m \in 1 .. l, j < m PROVE EndOf(r[j]) <= r[m].seq
      <3>1. j # l
        BY <2>3
      <3> QED
        BY <1>2, <1>6, <1>9, <2>3, <3>1
    <2> QED
      BY <1>2, <1>6, <1>8, <2>2, <2>3 DEF Tiles
  <1>11. SentTo(r, a, k, x)
    <2>1. k # l
      BY <1>1, <1>2
    <2> QED
      BY <1>2, <1>6, <1>7, <1>9, <2>1 DEF SentTo
  <1>12. ASSUME NEW v, Mark(q, a, v) PROVE Mark(r, a, v)
    <2>1. CASE v \in 0 .. a
      BY <2>1 DEF Mark
    <2>2. ASSUME NEW j \in 1 .. l, q[j].xmit > 0, v = EndOf(q[j]) PROVE Mark(r, a, v)
      <3>1. j # l
        BY <1>1, <1>2, <2>2
      <3>2. r[j] = q[j] /\ j \in 1 .. Len(r)
        BY <1>6, <3>1
      <3> QED
        BY <2>2, <3>2 DEF Mark
    <2> QED
      BY <1>1, <1>12, <2>1, <2>2 DEF Mark
  <1> QED
    BY <1>10, <1>11, <1>12 DEF Listed

\* r is q without its first j elements.
Suffix(q, j, r) ==
    Len(r) = Len(q) - j /\ \A m \in 1 .. Len(q) - j : r[m] = q[j + m]

\* The first j segments, all of them sent, are dropped.
LEMMA DropKeeps ==
    ASSUME NEW q, NEW a, NEW b, NEW k, NEW x, Listed(q, a, b, k, x), NEW j \in 1 .. k,
           NEW r \in Seq(Segment), Suffix(q, j, r)
    PROVE  /\ Listed(r, EndOf(q[j]), b, k - j, x)
           /\ \A w : Mark(q, a, w) => Mark(r, EndOf(q[j]), w)
  <1>1. PICK l \in Nat : l = Len(q)
    BY DEF Listed, Tiles
  <1>2. /\ q \in Seq(Segment) /\ a \in Nat /\ k \in 0 .. l /\ x = Reaches(q, a, k)
        /\ \A i \in 1 .. l : q[i].xmit > 0 <=> i <= k
        /\ \A i \in 1 .. l : q[i].seq = Reaches(q, a, i - 1)
        /\ \A i, m \in 1 .. l : i < m => EndOf(q[i]) <= q[m].seq
        /\ b = Reaches(q, a, l)
    BY <1>1 DEF Listed, Tiles, SentTo
  <1>3. PICK n \in Nat : n = l - j /\ j \in 1 .. l
    <2>1. l - j \in Nat /\ j \in 1 .. l
      BY <1>2
    <2> QED
      BY <2>1
  <1>4. Len(r) = n /\ \A m \in 1 .. n : r[m] = q[j + m]
    BY <1>1, <1>3 DEF Suffix
  <1>5. PICK v \in Nat : v = EndOf(q[j])
    BY <1>1, <1>2, <1>3, SegmentType
  <1>6. \A m \in 0 .. n : Reaches(r, v, m) = Reaches(q, a, j + m)
    <2> SUFFICES ASSUME NEW m \in 0 .. n PROVE Reaches(r, v, m) = Reaches(q, a, j + m)
      OBVIOUS
    <2>1. CASE m = 0
      BY <1>3, <1>5, <2>1 DEF Reaches
    <2>2. CASE m # 0
      <3>1. m \in 1 .. n /\ j + m # 0
        BY <1>3, <2>2
      <3> QED
        BY <1>4, <2>2, <3>1 DEF Reaches
    <2> QED
      BY <2>1, <2>2
  <1>7. \A m \in 1 .. n : j + m \in 1 .. l /\ (j + m) - 1 = j + (m - 1) /\ m - 1 \in 0 .. n
    BY <1>3
  <1>8. Tiles(r, v, b)
    <2>1. ASSUME NEW m \in 1 .. n PROVE r[m].seq = Reaches(r, v, m - 1)
      <3>1. q[j + m].seq = Reaches(q, a, j + (m - 1))
        BY <1>2, <1>7
      <3> QED
        BY <1>4, <1>6, <1>7, <3>1
    <2>2. ASSUME NEW i \in 1 .. n, NEW m \in 1 .. n, i < m PROVE EndOf(r[i]) <= r[m].seq
      <3>1. j + i < j + m /\ j + i \in 1 .. l /\ j + m \in 1 .. l
        BY <1>3, <1>7, <2>2
      <3> QED
        BY <1>2, <1>4, <3>1
    <2>3. n \in 0 .. n /\ j + n = l
      BY <1>3
    <2> QED
      BY <1>2, <1>4, <1>6, <2>1, <2>2, <2>3 DEF Tiles
  <1>9. SentTo(r, v, k - j, x)
    <2>1. k - j \in 0 .. n /\ j + (k - j) = k
      BY <1>2, <1>3
    <2>2. ASSUME NEW m \in 1 .. n PROVE r[m].xmit > 0 <=> m <= k - j
      <3>1. m <= k - j <=> j + m <= k
        BY <1>2, <1>3
      <3> QED
        BY <1>2, <1>4, <1>7, <3>1
    <2> QED
      BY <1>2, <1>4, <1>6, <2>1, <2>2 DEF SentTo
  <1>10. ASSUME NEW w, Mark(q, a, w) PROVE Mark(r, v, w)
    <2>1. CASE w \in 0 .. a
      <3>1. a <= q[j].seq /\ q[j].seq < v /\ q[j].seq \in Nat
        BY <1>1, <1>2, <1>3, <1>5, ListedFacts, SegmentType
      <3>2. w \in 0 .. v
        BY <1>2, <2>1, <3>1
      <3> QED
        BY <3>2 DEF Mark
    <2>2. ASSUME NEW i \in 1 .. l, q[i].xmit > 0, w = EndOf(q[i]) PROVE Mark(r, v, w)
      <3>0. w \in Nat
        BY <1>1, <1>2, <2>2, SegmentType
      <3>1. CASE i < j
        <4>1. w <= q[j].seq /\ q[j].seq < v /\ q[j].seq \in Nat
          BY <1>1, <1>2, <1>3, <1>5, <2>2, <3>1, SegmentType
        <4>2. w \in 0 .. v
          BY <3>0, <4>1
        <4> QED
          BY <4>2 DEF Mark
      <3>2. CASE i = j
        <4>1. w \in 0 .. v
          BY <1>5, <2>2, <3>2
        <4> QED
          BY <4>1 DEF Mark
      <3>3. CASE i > j
        <4>1. PICK m \in 1 .. n : i = j + m
          <5>1. i - j \in 1 .. n /\ i = j + (i - j)
            BY <1>3, <3>3
          <5> QED
            BY <5>1
        <4> QED
          BY <1>4, <2>2, <4>1 DEF Mark
      <3> QED
        BY <1>3, <3>1, <3>2, <3>3
    <2> QED
      BY <1>1, <1>10, <2>1, <2>2 DEF Mark
  <1> QED
    BY <1>5, <1>8, <1>9, <1>10 DEF Listed

-----------------------------------------------------------------------------
(* What an acknowledgement frees.                                          *)

\* f[i] is what Free has made of the first i of segments q, for i up to m.
FreedBy(f, q, n, m) ==
    f = [i \in 0 .. m |-> IF i = 0 THEN [n |-> n, left |-> <<>>] ELSE Free(f[i - 1], q[i])]

LEMMA FreedExists ==
    ASSUME NEW q, NEW n, NEW l \in Nat
    PROVE  \E f : FreedBy(f, q, n, l)
  <1> DEFINE S == {m \in 0 .. l : \E f : FreedBy(f, q, n, m)}
  <1>1. 0 \in S
    <2>1. FreedBy([i \in 0 .. 0 |-> [n |-> n, left |-> <<>>]], q, n, 0)
      BY DEF FreedBy
    <2> QED
      BY <2>1
  <1>2. ASSUME NEW m \in 0 .. l, m \in S, m < l PROVE m + 1 \in S
    <2>1. PICK f : FreedBy(f, q, n, m)
      BY <1>2
    <2>2. PICK g : g = [i \in 0 .. m + 1 |-> IF i <= m THEN f[i] ELSE Free(f[m], q[m + 1])]
      OBVIOUS
    <2>3. \A i \in 0 .. m : f[i] = IF i = 0 THEN [n |-> n, left |-> <<>>] ELSE Free(f[i - 1], q[i])
      BY <2>1 DEF FreedBy
    <2>4. \A i \in 0 .. m : g[i] = f[i]
      BY <2>2
    <2>5. g[m + 1] = Free(f[m], q[m + 1])
      BY <2>2
    <2>6. ASSUME NEW i \in 0 .. m + 1
          PROVE  g[i] = IF i = 0 THEN [n |-> n, left |-> <<>>] ELSE Free(g[i - 1], q[i])
      <3>1. CASE i = 0
        BY <2>3, <2>4, <3>1
      <3>2. CASE i # 0 /\ i <= m
        <4>1. i \in 0 .. m /\ i - 1 \in 0 .. m
          BY <3>2
        <4>2. f[i] = Free(f[i - 1], q[i])
          BY <2>3, <3>2, <4>1
        <4> QED
          BY <2>4, <3>2, <4>1, <4>2
      <3>3. CASE i = m + 1
        <4>1. i - 1 = m /\ m \in 0 .. m /\ i # 0
          BY <3>3
        <4> QED
          BY <2>4, <2>5, <3>3, <4>1
      <3> QED
        BY <3>1, <3>2, <3>3
    <2>7. FreedBy(g, q, n, m + 1)
      <3>1. g = [i \in 0 .. m + 1 |-> g[i]]
        BY <2>2
      <3> QED
        BY <2>6, <3>1 DEF FreedBy
    <2> QED
      BY <1>2, <2>7
  <1>3. 0 .. l \subseteq S
    <2> HIDE DEF S
    <2> QED
      BY <1>1, <1>2, UpTo
  <1> QED
    BY <1>3

\* acc after the first i segments, when the first j have been acknowledged.
FreedTo(acc, q, a, j, i) ==
    IF i < j THEN acc = [n |-> EndOf(q[j]) - Reaches(q, a, i), left |-> <<>>]
    ELSE \E s \in Seq(Segment) : /\ acc = [n |-> 0, left |-> s] /\ Len(s) = i - j
                                /\ \A m \in 1 .. i - j : s[m] = q[j + m]

\* An acknowledgement of the first j segments frees these and leaves the others as they are.
LEMMA FreeSegmentsDrops ==
    ASSUME NEW q, NEW a, NEW b, Tiles(q, a, b), NEW j \in 1 .. Len(q),
           NEW r, r = FreeSegments(q, EndOf(q[j]) - a)
    PROVE  r \in Seq(Segment) /\ Suffix(q, j, r)
  <1>1. PICK l \in Nat : l = Len(q) /\ j \in 1 .. l
    BY DEF Tiles
  <1>2. PICK v \in Nat : v = EndOf(q[j])
    BY SegmentType DEF Tiles
  <1>3. /\ q \in Seq(Segment) /\ a \in Nat
        /\ \A i \in 1 .. l : q[i].seq = Reaches(q, a, i - 1)
        /\ \A i, m \in 1 .. l : i < m => EndOf(q[i]) <= q[m].seq
    BY <1>1 DEF Tiles
  <1>4. PICK f : FreedBy(f, q, v - a, l) /\ r = f[l].left
    <2>1. \E f : FreedBy(f, q, v - a, l)
      BY FreedExists
    <2>2. FreedBy(CHOOSE f : FreedBy(f, q, v - a, l), q, v - a, l)
      BY <2>1, Zenon
    <2>3. r = (CHOOSE f : FreedBy(f, q, v - a, l))[l].left
      BY <1>1, <1>2 DEF FreeSegments, FreedBy
    <2> QED
      BY <2>2, <2>3
  <1>5. f[0] = [n |-> v - a, left |-> <<>>] /\ \A i \in 1 .. l : f[i] = Free(f[i - 1], q[i])
    <2>1. \A i \in 0 .. l : f[i] = IF i = 0 THEN [n |-> v - a, left |-> <<>>] ELSE Free(f[i - 1], q[i])
      BY <1>4 DEF FreedBy
    <2>2. 0 \in 0 .. l /\ \A i \in 1 .. l : i \in 0 .. l /\ i # 0
      OBVIOUS
    <2> QED
      BY <2>1, <2>2
  <1> DEFINE S == {i \in 0 .. l : FreedTo(f[i], q, a, j, i)}
  <1>6. 0 \in S
    BY <1>1, <1>2, <1>5 DEF FreedTo, Reaches
  <1>7. ASSUME NEW i \in 0 .. l, i \in S, i < l PROVE i + 1 \in S
    <2>1. FreedTo(f[i], q, a, j, i) /\ f[i + 1] = Free(f[i], q[i + 1]) /\ i + 1 \in 1 .. l
      <3>1. i + 1 \in 1 .. l /\ (i + 1) - 1 = i
        BY <1>7
      <3> QED
        BY <1>5, <1>7, <3>1
    <2>2. /\ q[i + 1].seq \in Nat /\ q[i + 1].len \in Nat /\ q[i + 1].len > 0
          /\ EndOf(q[i + 1]) = q[i + 1].seq + q[i + 1].len /\ q[i + 1] \in Segment
      BY <1>1, <1>3, <2>1, SegmentType DEF EndOf
    <2>3. q[i + 1].seq = Reaches(q, a, i) /\ Reaches(q, a, i + 1) = EndOf(q[i + 1])
      <3>1. (i + 1) - 1 = i /\ i + 1 # 0
        BY <2>1
      <3> QED
        BY <1>3, <2>1, <3>1 DEF Reaches
    <2>4. CASE i < j
      <3>1. f[i] = [n |-> v - q[i + 1].seq, left |-> <<>>]
        BY <1>2, <2>1, <2>3, <2>4 DEF FreedTo
      <3>2. EndOf(q[i + 1]) <= v
        <4>1. CASE i + 1 = j
          BY <1>2, <4>1
        <4>2. CASE i + 1 < j
          <5>1. EndOf(q[i + 1]) <= q[j].seq /\ q[j].seq \in Nat /\ q[j].seq < EndOf(q[j])
            BY <1>1, <1>3, <2>1, <4>2, SegmentType
          <5> QED
            BY <1>2, <2>2, <5>1
        <4> QED
          BY <1>1, <2>4, <4>1, <4>2
      <3>3. ~(f[i].n = 0) /\ ~(f[i].n < q[i + 1].len)
        BY <1>2, <2>2, <3>1, <3>2
      <3>4. f[i + 1] = [f[i] EXCEPT !.n = @ - q[i + 1].len]
        BY <2>1, <3>3 DEF Free
      <3>5. f[i + 1] = [n |-> v - EndOf(q[i + 1]), left |-> <<>>]
        BY <1>2, <2>2, <3>1, <3>4
      <3>6. CASE i + 1 < j
        BY <1>2, <2>1, <2>3, <3>5, <3>6 DEF FreedTo
      <3>7. CASE i + 1 = j
        <4>1. f[i + 1] = [n |-> 0, left |-> <<>>] /\ <<>> \in Seq(Segment) /\ Len(<<>>) = (i + 1) - j
          BY <1>1, <1>2, <3>5, <3>7
        <4>2. ~(i + 1 < j) /\ \A m \in 1 .. (i + 1) - j : <<>>[m] = q[j + m]
          BY <1>1, <3>7
        <4>3. FreedTo(f[i + 1], q, a, j, i + 1)
          BY <4>1, <4>2, Zenon DEF FreedTo
        <4> QED
          BY <2>1, <4>3
      <3> QED
        BY <1>1, <2>4, <3>6, <3>7
    <2>5. CASE ~(i < j)
      <3>1. PICK s \in Seq(Segment) : /\ f[i] = [n |-> 0, left |-> s] /\ Len(s) = i - j
                                      /\ \A m \in 1 .. i - j : s[m] = q[j + m]
        BY <2>1, <2>5 DEF FreedTo
      <3>2. f[i + 1] = [f[i] EXCEPT !.left = Append(@, q[i + 1])]
        BY <2>1, <3>1 DEF Free
      <3>3. PICK w : w = Append(s, q[i + 1])
        OBVIOUS
      <3>4. PICK n \in Nat : n = i - j /\ (i + 1) - j = n + 1 /\ j + (n + 1) = i + 1
        <4>1. i - j \in Nat
          BY <1>1, <2>5
        <4> QED
          BY <1>1, <4>1
      <3>5. w \in Seq(Segment) /\ Len(w) = n + 1 /\ w[n + 1] = q[i + 1] /\ \A m \in 1 .. n : w[m] = s[m]
        <4>1. PICK z \in Segment : z = q[i + 1]
          BY <2>2
        <4>2. Len(s) = n
          BY <3>1, <3>4
        <4>3. w = Append(s, z)
          BY <3>3, <4>1
        <4>4. w \in Seq(Segment) /\ Len(w) = n + 1 /\ w[n + 1] = z /\ \A m \in 1 .. n : w[m] = s[m]
          BY <4>2, <4>3
        <4> QED
          BY <4>1, <4>4
      <3>6. f[i + 1] = [n |-> 0, left |-> w]
        <4>1. f[i] = [n |-> 0, left |-> s]
          BY <3>1
        <4>2. [[n |-> 0, left |-> s] EXCEPT !.left = w] = [n |-> 0, left |-> w]
          OBVIOUS
        <4>3. f[i].left = s
          BY <4>1
        <4> QED
          BY <3>2, <3>3, <4>1, <4>2, <4>3
      <3>7. ASSUME NEW m \in 1 .. n + 1 PROVE w[m] = q[j + m]
        <4>1. m \in 1 .. n \/ m = n + 1
          OBVIOUS
        <4> QED
          BY <3>1, <3>4, <3>5, <4>1
      <3>8. ~(i + 1 < j)
        BY <1>1, <2>5
      <3>9. FreedTo(f[i + 1], q, a, j, i + 1)
        BY <3>4, <3>5, <3>6, <3>7, <3>8 DEF FreedTo
      <3> QED
        BY <2>1, <3>9
    <2> QED
      BY <2>4, <2>5
  <1>8. 0 .. l \subseteq S
    <2> HIDE DEF S
    <2> QED
      BY <1>6, <1>7, UpTo
  <1>9. FreedTo(f[l], q, a, j, l) /\ ~(l < j)
    BY <1>1, <1>8
  <1>10. PICK s \in Seq(Segment) : /\ f[l] = [n |-> 0, left |-> s] /\ Len(s) = l - j
                                   /\ \A m \in 1 .. l - j : s[m] = q[j + m]
    BY <1>9 DEF FreedTo
  <1>11. r = s
    BY <1>4, <1>10
  <1> QED
    BY <1>1, <1>10, <1>11 DEF Suffix

\* An acknowledgement of a mark past a is one of the first segments, some of those sent.
LEMMA AckKeeps ==
    ASSUME NEW q, NEW a, NEW b, NEW k, NEW x, Listed(q, a, b, k, x), NEW v, Mark(q, a, v), v > a,
           NEW r, r = FreeSegments(q, v - a)
    PROVE  /\ \E m \in 0 .. k : Listed(r, v, b, m, x)
           /\ \A w : Mark(q, a, w) => Mark(r, v, w)
           /\ v \in Nat /\ v <= x
  <1>1. q \in Seq(Segment) /\ a \in Nat /\ k \in 0 .. Len(q) /\ Tiles(q, a, b)
    BY DEF Listed, Tiles, SentTo
  <1>2. ~(v \in 0 .. a)
    BY <1>1
  <1>3. PICK j \in 1 .. Len(q) : q[j].xmit > 0 /\ v = EndOf(q[j])
    BY <1>2 DEF Mark
  <1>4. j \in 1 .. k
    <2>1. j <= k
      BY <1>3 DEF Listed, SentTo
    <2> QED
      BY <1>1, <2>1
  <1>5. r \in Seq(Segment) /\ Suffix(q, j, r)
    BY <1>1, <1>3, FreeSegmentsDrops
  <1>6. Listed(r, v, b, k - j, x) /\ \A w : Mark(q, a, w) => Mark(r, v, w)
    BY <1>3, <1>4, <1>5, DropKeeps
  <1>7. k - j \in 0 .. k
    BY <1>1, <1>4
  <1>8. v \in Nat /\ v <= x
    BY <1>1, <1>3, <1>4, ListedFacts, SegmentType
  <1> QED
    BY <1>6, <1>7, <1>8

-----------------------------------------------------------------------------
(* The state of an end.                                                    *)

Fields == DOMAIN Fresh(1, 1)
Packet == [seq : Nat, ctl : BOOLEAN, ack : Nat, wnd : Nat, data : Seq(Int)]
Saved == [seq : Nat, len : Nat]

\* The end of what the receiver has room for, and what it may have acknowledged.
Edge(t) == t.rcv_nxt + t.rcv_wnd
Marks(t) == {v \in 0 .. t.snd_nxt : Mark(t.slist, t.snd_una, v)}

Numbers(t) ==
    /\ t.mss \in Nat \ {0} /\ t.cwnd \in Nat \ {0} /\ t.ssthresh \in Nat \ {0}
    /\ t.mtu \in Nat \ {0} /\ t.dup_acks \in Nat

\* The segments from m_snd_una over m_sbuf, the timer with them.
Lists(t) ==
    \E k \in Nat : /\ Listed(t.slist, t.snd_una, t.snd_una + Len(t.sbuf), k, t.snd_nxt)
                   /\ t.rto <=> k > 0

\* The sending side, when the receiver has room up to E and W bytes have been queued in all.
Sends(t, E, W) ==
    /\ t.snd_una \in Nat /\ t.snd_nxt \in Nat /\ t.snd_wnd \in Nat
    /\ t.sbuf \in Seq(Int) /\ Len(t.sbuf) <= SBufLen
    /\ t.rto \in BOOLEAN /\ t.recover \in Nat /\ E \in Nat /\ W \in Nat
    /\ Lists(t)
    /\ 0 < t.snd_una + t.snd_wnd /\ t.snd_una + t.snd_wnd <= E /\ t.snd_nxt <= E
    /\ t.recover <= t.snd_nxt
    /\ t.snd_una + Len(t.sbuf) <= W /\ W + RBufLen < SeqSpace /\ RBufLen <= E
    /\ t.state = "LISTEN" => t.snd_una + Len(t.sbuf) = 0

\* The saved segments end at marks, within the room.
Saves(t, V) ==
    /\ t.rlist \in Seq(Saved)
    /\ \A i \in 1 .. Len(t.rlist) : EndOf(t.rlist[i]) \in V /\ EndOf(t.rlist[i]) <= Edge(t)

InSpace(V) == V \subseteq Nat /\ \A v \in V : v + RBufLen < SeqSpace

\* What is written past m_rbuf.
Aheads(ahead) == DOMAIN ahead \subseteq Int /\ \A o \in DOMAIN ahead : ahead[o] \in Int

\* The receiving side, when V are the marks of the sender.
Receives(t, V) ==
    /\ t.rcv_nxt \in V /\ t.rcv_wnd \in Nat /\ t.rbuf \in Seq(Int)
    /\ Len(t.rbuf) + t.rcv_wnd <= RBufLen
    /\ Aheads(t.ahead) /\ Saves(t, V) /\ RBufLen <= Edge(t) /\ InSpace(V)

\* A packet that t may have sent.
PacketBy(p, t, V) ==
    /\ p \in Packet /\ p.ack \in V
    /\ RBufLen <= p.ack + p.wnd /\ p.ack + p.wnd <= Edge(t)
    /\ p.seq + Len(p.data) <= t.snd_nxt
    /\ Len(p.data) > 0 => Mark(t.slist, t.snd_una, p.seq + Len(p.data))

Wrote(t, V) ==
    \E l \in Nat : l = Len(t.out) /\ DOMAIN t.out = 1 .. l /\ \A i \in 1 .. l : PacketBy(t.out[i], t, V)

Good(t, E, V, W) ==
    /\ DOMAIN t = Fields /\ Numbers(t) /\ Sends(t, E, W) /\ Receives(t, V)
    /\ t.out \in Seq(Packet) /\ Wrote(t, V)

\* Neither the room nor what was sent nor the marks grow less.
Grows(t, u) ==
    /\ Edge(t) <= Edge(u) /\ t.snd_nxt <= u.snd_nxt
    /\ \A v : Mark(t.slist, t.snd_una, v) => Mark(u.slist, u.snd_una, v)

Keeps(t, u, E, V, W) == Good(u, E, V, W) /\ Grows(t, u)

SameSend(t, u) ==
    /\ u.snd_una = t.snd_una /\ u.snd_nxt = t.snd_nxt /\ u.snd_wnd = t.snd_wnd
    /\ u.slist = t.slist /\ u.sbuf = t.sbuf /\ u.rto = t.rto /\ u.recover = t.recover
    /\ u.state = "LISTEN" => t.state = "LISTEN"
SameRecv(t, u) ==
    /\ u.rcv_nxt = t.rcv_nxt /\ u.rcv_wnd = t.rcv_wnd /\ u.rbuf = t.rbuf
    /\ u.ahead = t.ahead /\ u.rlist = t.rlist

LEMMA EdgeType ==
    ASSUME NEW t, NEW V, Receives(t, V)
    PROVE  t.rcv_nxt \in Nat /\ t.rcv_wnd \in Nat /\ Edge(t) \in Nat
  <1>1. V \subseteq Nat /\ t.rcv_nxt \in V /\ t.rcv_wnd \in Nat
    BY DEF Receives, InSpace
  <1>2. t.rcv_nxt \in Nat
    BY <1>1, Zenon
  <1> QED
    BY <1>1, <1>2 DEF Edge

LEMMA GrowsItself ==
    ASSUME NEW t, NEW E, NEW V, NEW W, Good(t, E, V, W)
    PROVE  Grows(t, t) /\ Keeps(t, t, E, V, W)
  <1>1. Edge(t) \in Nat /\ t.snd_nxt \in Nat
    BY EdgeType DEF Good, Sends
  <1> QED
    BY <1>1 DEF Grows, Keeps

LEMMA KeepsOn ==
    ASSUME NEW t, NEW u, NEW w, NEW E, NEW V, NEW W, NEW W0,
           Good(t, E, V, W0), Keeps(t, u, E, V, W0), Keeps(u, w, E, V, W)
    PROVE  Keeps(t, w, E, V, W)
  <1>1. /\ Edge(t) \in Nat /\ Edge(u) \in Nat /\ Edge(w) \in Nat
        /\ t.snd_nxt \in Nat /\ u.snd_nxt \in Nat /\ w.snd_nxt \in Nat
    BY EdgeType DEF Keeps, Good, Sends
  <1>2. Edge(t) <= Edge(w) /\ t.snd_nxt <= w.snd_nxt
    BY <1>1 DEF Keeps, Grows
  <1>3. \A v : Mark(t.slist, t.snd_una, v) => Mark(w.slist, w.snd_una, v)
    BY Zenon DEF Keeps, Grows
  <1> QED
    BY <1>2, <1>3 DEF Keeps, Grows

\* What t may have sent, u may have sent.
LEMMA PacketStays ==
    ASSUME NEW p, NEW t, NEW u, NEW V, PacketBy(p, t, V), Grows(t, u), InSpace(V),
           Edge(t) \in Nat, Edge(u) \in Nat, t.snd_nxt \in Nat, u.snd_nxt \in Nat
    PROVE  PacketBy(p, u, V)
  <1>1. p \in Packet /\ p.seq \in Nat /\ p.ack \in Nat /\ p.wnd \in Nat /\ Len(p.data) \in Nat
    BY DEF PacketBy, Packet
  <1>2. Edge(t) <= Edge(u) /\ t.snd_nxt <= u.snd_nxt
    BY DEF Grows
  <1>3. Len(p.data) > 0 => Mark(u.slist, u.snd_una, p.seq + Len(p.data))
    BY DEF Grows, PacketBy
  <1>4. p.ack + p.wnd <= Edge(u) /\ p.seq + Len(p.data) <= u.snd_nxt
    BY <1>1, <1>2 DEF PacketBy
  <1> QED
    BY <1>3, <1>4 DEF PacketBy

LEMMA WroteStays ==
    ASSUME NEW t, NEW u, NEW V, Wrote(t, V), Grows(t, u), u.out = t.out, InSpace(V),
           Edge(t) \in Nat, Edge(u) \in Nat, t.snd_nxt \in Nat, u.snd_nxt \in Nat
    PROVE  Wrote(u, V)
  <1>1. PICK l \in Nat : l = Len(t.out) /\ DOMAIN t.out = 1 .. l /\ \A i \in 1 .. l : PacketBy(t.out[i], t, V)
    BY DEF Wrote
  <1>2. \A i \in 1 .. l : PacketBy(u.out[i], u, V)
    BY <1>1, PacketStays
  <1> QED
    BY <1>1, <1>2 DEF Wrote

\* u has written a packet more than t, or none.
Writes(t, u, V) ==
    \/ u.out = t.out
    \/ \E p : u.out = Append(t.out, p) /\ PacketBy(p, u, V)

LEMMA WroteMore ==
    ASSUME NEW t, NEW u, NEW V, Wrote(t, V), t.out \in Seq(Packet), Grows(t, u), Writes(t, u, V),
           InSpace(V), Edge(t) \in Nat, Edge(u) \in Nat, t.snd_nxt \in Nat, u.snd_nxt \in Nat
    PROVE  Wrote(u, V) /\ u.out \in Seq(Packet)
  <1>1. CASE u.out = t.out
    BY <1>1, WroteStays
  <1>2. ASSUME NEW p, u.out = Append(t.out, p), PacketBy(p, u, V)
        PROVE  Wrote(u, V) /\ u.out \in Seq(Packet)
    <2>1. PICK l \in Nat : l = Len(t.out) /\ \A i \in 1 .. l : PacketBy(t.out[i], t, V)
      BY DEF Wrote
    <2>2. p \in Packet
      BY <1>2 DEF PacketBy
    <2>3. /\ u.out \in Seq(Packet) /\ Len(u.out) = l + 1 /\ DOMAIN u.out = 1 .. l + 1
          /\ u.out[l + 1] = p /\ \A i \in 1 .. l : u.out[i] = t.out[i]
      BY <1>2, <2>1, <2>2
    <2>4. ASSUME NEW i \in 1 .. l + 1 PROVE PacketBy(u.out[i], u, V)
      <3>1. CASE i \in 1 .. l
        BY <2>1, <2>3, <3>1, PacketStays
      <3>2. CASE i = l + 1
        BY <1>2, <2>3, <3>2
      <3> QED
        BY <3>1, <3>2
    <2> QED
      BY <2>3, <2>4 DEF Wrote
  <1> QED
    BY <1>1, <1>2 DEF Writes

\* Nothing changes but numbers, flags and the state.
LEMMA Frame ==
    ASSUME NEW t, NEW u, NEW E, NEW V, NEW W, Good(t, E, V, W), DOMAIN u = Fields, Numbers(u),
           SameSend(t, u), SameRecv(t, u), u.out = t.out
    PROVE  Keeps(t, u, E, V, W)
  <1>1. Sends(u, E, W)
    <2>1. Lists(u)
      BY DEF Good, Sends, SameSend, Lists
    <2> QED
      BY <2>1 DEF Good, Sends, SameSend
  <1>2. Receives(u, V) /\ Edge(u) = Edge(t)
    <2>1. Saves(u, V) /\ Edge(u) = Edge(t)
      BY DEF Good, Receives, SameRecv, Saves, Edge
    <2> QED
      BY <2>1 DEF Good, Receives, SameRecv
  <1>3. Edge(t) \in Nat /\ t.snd_nxt \in Nat
    BY EdgeType DEF Good, Sends
  <1>4. Grows(t, u)
    BY <1>2, <1>3 DEF Grows, SameSend
  <1>5. Wrote(u, V)
    <2>1. InSpace(V) /\ Wrote(t, V) /\ u.snd_nxt = t.snd_nxt
      BY DEF Good, Receives, SameSend
    <2> QED
      BY <1>2, <1>3, <1>4, <2>1, WroteStays
  <1> QED
    BY <1>1, <1>2, <1>4, <1>5 DEF Keeps, Good

\* Only the sending side changes, and a packet may be written.
LEMMA SendFrame ==
    ASSUME NEW t, NEW u, NEW E, NEW V, NEW W, NEW W0, Good(t, E, V, W0), DOMAIN u = Fields, Numbers(u),
           Sends(u, E, W), t.snd_nxt <= u.snd_nxt,
           \A v : Mark(t.slist, t.snd_una, v) => Mark(u.slist, u.snd_una, v),
           SameRecv(t, u), Writes(t, u, V)
    PROVE  Keeps(t, u, E, V, W)
  <1>2. Receives(u, V) /\ Edge(u) = Edge(t)
    <2>1. Saves(u, V) /\ Edge(u) = Edge(t)
      BY DEF Good, Receives, SameRecv, Saves, Edge
    <2> QED
      BY <2>1 DEF Good, Receives, SameRecv
  <1>3. Edge(t) \in Nat /\ t.snd_nxt \in Nat /\ u.snd_nxt \in Nat
    BY EdgeType DEF Good, Sends
  <1>4. Grows(t, u)
    BY <1>2, <1>3 DEF Grows
  <1>5. Wrote(u, V) /\ u.out \in Seq(Packet)
    <2>1. InSpace(V) /\ Wrote(t, V) /\ t.out \in Seq(Packet)
      BY DEF Good, Receives
    <2> QED
      BY <1>2, <1>3, <1>4, <2>1, WroteMore
  <1> QED
    BY <1>2, <1>4, <1>5 DEF Keeps, Good

\* Only the receiving side changes.
LEMMA RecvFrame ==
    ASSUME NEW t, NEW u, NEW E, NEW V, NEW W, Good(t, E, V, W), DOMAIN u = Fields, Numbers(u),
           SameSend(t, u), Receives(u, V), Edge(t) <= Edge(u), u.out = t.out
    PROVE  Keeps(t, u, E, V, W)
  <1>1. Sends(u, E, W)
    <2>1. Lists(u)
      BY DEF Good, Sends, SameSend, Lists
    <2> QED
      BY <2>1 DEF Good, Sends, SameSend
  <1>3. Edge(t) \in Nat /\ Edge(u) \in Nat /\ t.snd_nxt \in Nat /\ u.snd_nxt = t.snd_nxt
    BY EdgeType DEF Good, Sends, SameSend
  <1>4. Grows(t, u)
    BY <1>3 DEF Grows, SameSend
  <1>5. Wrote(u, V)
    <2>1. InSpace(V) /\ Wrote(t, V)
      BY DEF Good, Receives
    <2> QED
      BY <1>3, <1>4, <2>1, WroteStays
  <1> QED
    BY <1>1, <1>4, <1>5 DEF Keeps, Good

-----------------------------------------------------------------------------
(* Sending.                                                                *)

\* What the sizes are.
LEMMA Sizes ==
    /\ RBufLen \in Nat /\ SBufLen \in Nat /\ RBufLen > 0 /\ SBufLen > 0 /\ SeqSpace \in Nat
    /\ ConnectLen \in Nat /\ ConnectLen > 0 /\ ConnectLen <= RBufLen /\ ReadLen \in Nat
    /\ PacketMaximums \in Seq(Nat \ {0}) /\ Len(PacketMaximums) \in Nat /\ Len(PacketMaximums) > 0
    /\ \A l \in 1 .. Len(PacketMaximums) : PacketMaximums[l] \in Nat \ {0}
    /\ Routes \subseteq Nat \ {0}
    /\ Last(PacketMaximums) \in Nat \ {0}
  <1>1. Len(PacketMaximums) \in Nat /\ Len(PacketMaximums) > 0 /\ PacketMaximums \in Seq(Nat \ {0})
    BY PseudoTcpConstantsOK
  <1>2. \A l \in 1 .. Len(PacketMaximums) : PacketMaximums[l] \in Nat \ {0}
    BY <1>1
  <1>3. Last(PacketMaximums) \in Nat \ {0}
    BY <1>1, <1>2 DEF Last
  <1>4. ConnectLen \in Nat /\ ConnectLen > 0
    BY <1>3, PseudoTcpConstantsOK
  <1> QED
    BY <1>1, <1>2, <1>3, <1>4, PseudoTcpConstantsOK

\* The fields an EXCEPT may name.
LEMMA FieldNames ==
    {"state", "shutdown", "stream", "readEvent", "writeEvent", "readEnable", "writeEnable",
     "rcv_nxt", "rcv_wnd", "rlist", "rbuf", "ahead", "snd_nxt", "snd_una", "snd_wnd", "slist",
     "sbuf", "mss", "msslevel", "mtu", "path", "rto", "t_ack", "cwnd", "ssthresh", "dup_acks",
     "recover", "idle", "broken", "out"} \subseteq Fields
  BY DEF Fields, Fresh

LEMMA LowerMssKeeps ==
    ASSUME NEW t, NEW E, NEW V, NEW W, Good(t, E, V, W), NEW len
    PROVE  LET u == lowerMss(t, len)
           IN  /\ Keeps(t, u, E, V, W) /\ SameSend(t, u) /\ SameRecv(t, u) /\ u.out = t.out
               /\ u.broken = t.broken
  <1> DEFINE level == IF FittingLevels(t) = {} THEN Len(PacketMaximums)
                      ELSE CHOOSE l \in FittingLevels(t) : \A m \in FittingLevels(t) : l <= m
             low == [t EXCEPT !.msslevel = level, !.mss = PacketMaximums[level],
                              !.cwnd = 2 * PacketMaximums[level]]
  <1>1. CASE lowerMss(t, len) = t
    BY <1>1, GrowsItself DEF SameSend, SameRecv
  <1>2. CASE lowerMss(t, len) = low
    <2>1. PacketMaximums[level] \in Nat \ {0}
      <3>1. CASE FittingLevels(t) = {}
        <4>1. PacketMaximums[Len(PacketMaximums)] \in Nat \ {0}
          BY Sizes
        <4> QED
          BY <3>1, <4>1, Zenon
      <3>2. CASE FittingLevels(t) # {}
        <4>1. FittingLevels(t) \in SUBSET Nat
          BY Sizes DEF FittingLevels
        <4>2. \E l \in FittingLevels(t) : \A m \in FittingLevels(t) : l <= m
          BY <3>2, <4>1, Least
        <4>3. level \in FittingLevels(t)
          BY <3>2, <4>2
        <4>4. level \in 1 .. Len(PacketMaximums)
          BY <4>3, Sizes DEF FittingLevels
        <4> QED
          BY <4>4, Sizes
      <3> QED
        BY <3>1, <3>2
    <2> HIDE DEF level
    <2>2. DOMAIN t = Fields
      BY DEF Good
    <2>3. PICK u : u = low
      OBVIOUS
    <2>4. /\ DOMAIN u = Fields /\ u.out = t.out /\ u.broken = t.broken
          /\ u.mss = PacketMaximums[level] /\ u.cwnd = 2 * PacketMaximums[level]
          /\ u.ssthresh = t.ssthresh /\ u.mtu = t.mtu /\ u.dup_acks = t.dup_acks
      BY <2>2, <2>3 DEF Fields, Fresh
    <2>5. SameSend(t, u) /\ SameRecv(t, u)
      BY <2>2, <2>3 DEF SameSend, SameRecv, Fields, Fresh
    <2>6. Numbers(u)
      BY <2>1, <2>4 DEF Good, Numbers
    <2> QED
      BY <1>2, <2>3, <2>4, <2>5, <2>6, Frame
  <1>3. lowerMss(t, len) = t \/ lowerMss(t, len) = low
    BY DEF lowerMss
  <1> QED
    BY <1>1, <1>2, <1>3

LEMMA BytesType ==
    ASSUME NEW s \in Seq(Int), NEW offset \in Int, NEW n \in Nat
    PROVE  Bytes(s, offset, n) \in Seq(Int) /\ Len(Bytes(s, offset, n)) = n
  <1>1. \A i \in 1 .. n : (IF offset + i \in DOMAIN s THEN s[offset + i] ELSE Junk) \in Int
    BY DEF Junk
  <1>2. PICK b : b = [i \in 1 .. n |-> IF offset + i \in DOMAIN s THEN s[offset + i] ELSE Junk]
    OBVIOUS
  <1>3. b \in [1 .. n -> Int]
    BY <1>1, <1>2
  <1>4. b \in Seq(Int) /\ Len(b) = n
    BY <1>3
  <1> QED
    BY <1>2, <1>4 DEF Bytes

\* Segments q with segment i sent, n bytes of it, make the segments r.
SentPart(q, i, n, r) ==
    LET first == [q[i] EXCEPT !.len = n, !.xmit = @ + 1]
        rest == [q[i] EXCEPT !.seq = q[i].seq + n, !.len = @ - n]
    IN r = Splice(q, i, IF n < q[i].len THEN <<first, rest>> ELSE <<first>>)

\* The end of what was sent is where transmit says, and the list is in order again.
LEMMA SendPart ==
    ASSUME NEW q, NEW a, NEW b, NEW k, NEW x, Listed(q, a, b, k, x), NEW i \in 1 .. Len(q), i <= k + 1,
           NEW n \in Nat, 0 < n, n <= q[i].len, NEW r, SentPart(q, i, n, r),
           NEW y, y = IF i = k + 1 THEN q[i].seq + n ELSE x
    PROVE  /\ \E m \in Nat : m > 0 /\ Listed(r, a, b, m, y)
           /\ Mark(r, a, q[i].seq + n) /\ q[i].seq + n <= y /\ x <= y /\ y \in Nat
           /\ \A v : Mark(q, a, v) => Mark(r, a, v)
  <1>1. q \in Seq(Segment) /\ k \in Nat /\ x \in Nat
    BY ListedFacts
  <1>2. /\ q[i] \in Segment /\ q[i].seq \in Nat /\ q[i].len \in Nat /\ q[i].xmit \in Nat
        /\ EndOf(q[i]) = q[i].seq + q[i].len
    BY <1>1, SegmentType DEF EndOf
  <1>3. PICK first, rest : /\ first = [q[i] EXCEPT !.len = n, !.xmit = @ + 1]
                           /\ rest = [q[i] EXCEPT !.seq = q[i].seq + n, !.len = @ - n]
    OBVIOUS
  <1>4. /\ first \in Segment /\ first.seq = q[i].seq /\ first.len = n /\ first.xmit = q[i].xmit + 1
        /\ rest.seq = q[i].seq + n /\ rest.len = q[i].len - n /\ rest.xmit = q[i].xmit
        /\ n < q[i].len => rest \in Segment
    <2>1. PICK s \in Segment : s = q[i]
      BY <1>2
    <2>2. s.seq \in Nat /\ s.len \in Nat /\ s.xmit \in Nat
      BY DEF Segment
    <2>3. first = [s EXCEPT !.len = n, !.xmit = s.xmit + 1]
      BY <1>3, <2>1
    <2>4. rest = [s EXCEPT !.seq = s.seq + n, !.len = s.len - n]
      BY <1>3, <2>1
    <2>5. first \in Segment /\ first.seq = s.seq /\ first.len = n /\ first.xmit = s.xmit + 1
      <3>1. n \in Nat \ {0}
        OBVIOUS
      <3>2. PICK m \in Nat : m = s.xmit + 1
        BY <2>2
      <3>3. first = [s EXCEPT !.len = n, !.xmit = m]
        BY <2>3, <3>2
      <3>4. first \in Segment /\ first.seq = s.seq /\ first.len = n /\ first.xmit = m
        BY <3>1, <3>3 DEF Segment
      <3> QED
        BY <3>2, <3>4
    <2>6. rest.seq = s.seq + n /\ rest.len = s.len - n /\ rest.xmit = s.xmit
      BY <2>2, <2>4 DEF Segment
    <2>7. n < s.len => rest \in Segment
      <3>1. n < s.len => s.len - n \in Nat \ {0} /\ s.seq + n \in Nat
        BY <2>2
      <3> QED
        BY <2>4, <3>1 DEF Segment
    <2> QED
      BY <2>1, <2>5, <2>6, <2>7
  <1>5. EndOf(first) = q[i].seq + n /\ EndOf(rest) = EndOf(q[i]) /\ first.xmit > 0
    <2>1. q[i].seq \in Nat /\ q[i].len \in Nat /\ q[i].xmit \in Nat
      BY <1>2 DEF Segment
    <2>2. q[i].xmit + 1 > 0 /\ (q[i].seq + n) + (q[i].len - n) = q[i].seq + q[i].len
      BY <2>1
    <2> QED
      BY <1>4, <2>2 DEF EndOf
  <1>6. y \in Nat /\ q[i].seq + n <= y /\ x <= y
    <2>1. CASE i = k + 1
      <3>1. k < Len(q) /\ q[k + 1].seq = x
        BY <1>1, <2>1, ListedFacts
      <3> QED
        BY <1>1, <1>2, <2>1, <3>1
    <2>2. CASE i # k + 1
      <3>1. i <= k
        BY <1>1, <2>2
      <3>2. EndOf(q[i]) <= x
        BY <3>1, ListedFacts
      <3> QED
        BY <1>1, <1>2, <2>2, <3>2
    <2> QED
      BY <2>1, <2>2
  <1>7. y = IF i = k + 1 THEN EndOf(first) ELSE x
    BY <1>5
  <1>8. CASE n < q[i].len
    <2>1. r = Splice(q, i, <<first, rest>>)
      BY <1>3, <1>8 DEF SentPart
    <2>2. r \in Seq(Segment) /\ Splits(q, i, first, rest, r)
      BY <1>1, <1>4, <1>8, <2>1, SpliceTwo
    <2>3. Halves(q, i, first, rest)
      BY <1>4, <1>5, <1>8 DEF Halves
    <2>4. /\ Listed(r, a, b, k + 1, y) /\ Mark(r, a, EndOf(first))
          /\ \A v : Mark(q, a, v) => Mark(r, a, v)
      BY <1>4, <1>5, <1>7, <2>2, <2>3, SendSplits
    <2>5. k + 1 \in Nat /\ k + 1 > 0
      BY <1>1
    <2> QED
      BY <1>5, <1>6, <2>4, <2>5
  <1>9. CASE ~(n < q[i].len)
    <2>1. r = Splice(q, i, <<first>>)
      BY <1>3, <1>9 DEF SentPart
    <2>2. r \in Seq(Segment) /\ Replaces(q, i, first, r)
      BY <1>1, <1>4, <2>1, SpliceOne
    <2>3. EndOf(first) = EndOf(q[i])
      BY <1>2, <1>5, <1>9
    <2>4. PICK m \in Nat : m = (IF i = k + 1 THEN k + 1 ELSE k) /\ m > 0
      BY <1>1
    <2>5. /\ Listed(r, a, b, m, y) /\ Mark(r, a, EndOf(first))
          /\ \A v : Mark(q, a, v) => Mark(r, a, v)
      BY <1>4, <1>5, <1>7, <2>2, <2>3, <2>4, SendReplaces
    <2> QED
      BY <1>5, <1>6, <2>4, <2>5
  <1> QED
    BY <1>8, <1>9

\* Segments up to k of t have been sent.
SentK(t, k) ==
    /\ k \in Nat /\ (t.rto <=> k > 0)
    /\ Listed(t.slist, t.snd_una, t.snd_una + Len(t.sbuf), k, t.snd_nxt)

LEMMA SmallerIs ==
    ASSUME NEW m \in Nat, NEW n \in Nat
    PROVE  Smaller(m, n) \in Nat /\ Smaller(m, n) <= m /\ Smaller(m, n) <= n /\ Smaller(m, n) \in {m, n}
  BY DEF Smaller

LEMMA LargerIs ==
    ASSUME NEW m \in Nat, NEW n \in Nat
    PROVE  Larger(m, n) \in Nat /\ m <= Larger(m, n) /\ n <= Larger(m, n) /\ Larger(m, n) \in {m, n}
  BY DEF Larger

\* transmit of a segment that was sent, or of the next one if there is room for it.
LEMMA TransmitKeeps ==
    ASSUME NEW t, NEW E, NEW V, NEW W, Good(t, E, V, W), NEW k, SentK(t, k),
           NEW i \in 1 .. Len(t.slist), i <= k + 1, i = k + 1 => EndOf(t.slist[i]) <= E
    PROVE  Keeps(t, transmit(t, i).tcp, E, V, W)
  <1>1. PICK q, a, b, x, seg : /\ q = t.slist /\ a = t.snd_una /\ b = t.snd_una + Len(t.sbuf)
                               /\ x = t.snd_nxt /\ seg = t.slist[i]
    OBVIOUS
  <1>2. Listed(q, a, b, k, x) /\ i \in 1 .. Len(q) /\ seg = q[i] /\ k \in Nat
    BY <1>1 DEF SentK
  <1>3. a \in Nat /\ b \in Nat /\ x \in Nat /\ q \in Seq(Segment) /\ a <= seg.seq /\ EndOf(seg) <= b /\ x <= b
    BY <1>2, ListedFacts
  <1>4. /\ seg \in Segment /\ seg.seq \in Nat /\ seg.len \in Nat /\ seg.len > 0 /\ seg.xmit \in Nat
        /\ EndOf(seg) = seg.seq + seg.len
    BY <1>2, <1>3, SegmentType DEF EndOf
  <1>5. b <= W /\ W \in Nat /\ W < SeqSpace /\ SeqSpace \in Nat /\ E \in Nat /\ x <= E
    BY <1>1, Sizes DEF Good, Sends
  <1>6. PICK asked : asked = Smaller(seg.len, t.mss)
    OBVIOUS
  <1>7. asked \in Nat /\ asked > 0 /\ asked <= seg.len
    <2>1. t.mss \in Nat /\ t.mss > 0
      BY DEF Good, Numbers
    <2> QED
      BY <1>4, <1>6, <2>1, SmallerIs
  <1>8. PICK low : low = lowerMss(t, asked)
    OBVIOUS
  <1>9. /\ Keeps(t, low, E, V, W) /\ SameSend(t, low) /\ SameRecv(t, low) /\ low.out = t.out
        /\ low.broken = t.broken
    BY <1>8, LowerMssKeeps
  <1>10. PICK n : n = Smaller(asked, low.mss)
    OBVIOUS
  <1>11. n \in Nat /\ n > 0 /\ n <= seg.len
    <2>1. low.mss \in Nat /\ low.mss > 0
      BY <1>9 DEF Keeps, Good, Numbers
    <2>2. n \in Nat /\ n <= asked /\ n \in {asked, low.mss}
      BY <1>7, <1>10, <2>1, SmallerIs
    <2> QED
      BY <1>4, <1>7, <2>1, <2>2
  <1>12. PICK sent : sent = packet(low, seg.seq, seg.ctl, Minus(seg.seq, t.snd_una), n)
    OBVIOUS
  <1>13. PICK first, rest : /\ first = [seg EXCEPT !.len = n, !.xmit = @ + 1]
                            /\ rest = [seg EXCEPT !.seq = Plus(@, n), !.len = @ - n]
    OBVIOUS
  <1>14. PICK r : r = Splice(q, i, IF n < seg.len THEN <<first, rest>> ELSE <<first>>)
    OBVIOUS
  <1>15. PICK y : y = IF seg.xmit = 0 THEN Plus(x, n) ELSE x
    OBVIOUS
  <1>16. PICK u : u = [sent EXCEPT !.slist = r, !.snd_nxt = y, !.rto = TRUE]
    OBVIOUS
  <1>17. SentPart(q, i, n, r)
    <2>1. seg.seq + n < SeqSpace
      BY <1>3, <1>4, <1>5, <1>11
    <2>2. Plus(seg.seq, n) = seg.seq + n
      BY <1>4, <1>5, <1>11, <2>1, PlusIs
    <2> QED
      BY <1>2, <1>13, <1>14, <2>2 DEF SentPart
  <1>18. y = IF i = k + 1 THEN q[i].seq + n ELSE x
    <2>1. seg.xmit = 0 <=> i = k + 1
      <3>1. seg.xmit > 0 <=> i <= k
        BY <1>2 DEF Listed, SentTo
      <3> QED
        BY <1>2, <1>4, <3>1
    <2>2. ASSUME i = k + 1 PROVE q[i].seq = x /\ Plus(x, n) = x + n
      <3>1. q[k + 1].seq = x
        <4>1. k < Len(q)
          BY <1>2, <1>3, <2>2
        <4> QED
          BY <1>2, <4>1, ListedFacts
      <3>2. x + n < SeqSpace
        BY <1>2, <1>3, <1>4, <1>5, <1>11, <2>2, <3>1
      <3> QED
        BY <1>3, <1>5, <1>11, <2>2, <3>1, <3>2, PlusIs
    <2> QED
      BY <1>15, <2>1, <2>2
  <1>19. /\ \E m \in Nat : m > 0 /\ Listed(r, a, b, m, y)
         /\ Mark(r, a, seg.seq + n) /\ seg.seq + n <= y /\ x <= y /\ y \in Nat
         /\ \A v : Mark(q, a, v) => Mark(r, a, v)
    BY <1>2, <1>11, <1>17, <1>18, SendPart
  <1>20. transmit(t, i).tcp \in {t, low, u}
    <2>1. DOMAIN low = Fields /\ low.slist = q /\ low.snd_nxt = x
      BY <1>1, <1>9 DEF Keeps, Good, SameSend
    <2>2. sent.slist = q /\ sent.snd_nxt = x
      BY <1>12, <2>1 DEF packet, Fields, Fresh
    <2>3. u = [sent EXCEPT !.slist = Splice(@, i, IF n < seg.len THEN <<first, rest>> ELSE <<first>>),
                           !.snd_nxt = IF seg.xmit = 0 THEN Plus(@, n) ELSE @, !.rto = TRUE]
      BY <1>14, <1>15, <1>16, <2>2
    <2>4. PICK stop : stop = (seg.xmit >= (IF t.state = "ESTABLISHED" THEN XmitLimit ELSE ConnectLimit)
                              \/ t.broken)
      OBVIOUS
    <2>5. transmit(t, i) = IF stop THEN [ok |-> FALSE, tcp |-> t]
                           ELSE IF n > t.path THEN [ok |-> FALSE, tcp |-> low]
                           ELSE [ok |-> TRUE, tcp |-> u]
      BY <1>1, <1>6, <1>8, <1>10, <1>12, <1>13, <2>3, <2>4, Zenon DEF transmit
    <2> QED
      BY <2>5
  <1>21. Keeps(t, u, E, V, W)
    <2>1. PICK p : p = [seq |-> seg.seq, ctl |-> seg.ctl, ack |-> low.rcv_nxt, wnd |-> low.rcv_wnd,
                        data |-> Bytes(low.sbuf, Minus(seg.seq, t.snd_una), n)]
      OBVIOUS
    <2>2. sent = [low EXCEPT !.out = IF low.broken THEN @ ELSE Append(@, p), !.t_ack = FALSE,
                             !.idle = @ /\ n = 0]
      BY <1>12, <2>1 DEF packet
    <2>3. DOMAIN low = Fields
      BY <1>9 DEF Keeps, Good
    <2>4. /\ DOMAIN u = Fields /\ u.slist = r /\ u.snd_nxt = y /\ u.rto = TRUE
          /\ u.out = (IF low.broken THEN low.out ELSE Append(low.out, p))
      BY <1>16, <2>2, <2>3 DEF Fields, Fresh
    <2>5. /\ u.snd_una = low.snd_una /\ u.snd_wnd = low.snd_wnd /\ u.sbuf = low.sbuf
          /\ u.recover = low.recover /\ u.state = low.state
          /\ u.mss = low.mss /\ u.cwnd = low.cwnd /\ u.ssthresh = low.ssthresh /\ u.mtu = low.mtu
          /\ u.dup_acks = low.dup_acks
      BY <1>16, <2>2, <2>3 DEF Fields, Fresh
    <2>6. SameRecv(low, u)
      BY <1>16, <2>2, <2>3 DEF Fields, Fresh, SameRecv
    <2>7. Numbers(u)
      BY <1>9, <2>5 DEF Keeps, Good, Numbers
    <2>8. Sends(u, E, W)
      <3>1. y <= E
        <4>1. CASE i = k + 1
          <5>1. EndOf(seg) <= E
            BY <1>1, <4>1
          <5> QED
            BY <1>2, <1>4, <1>5, <1>11, <1>18, <4>1, <5>1
        <4>2. CASE i # k + 1
          BY <1>5, <1>18, <4>2
        <4> QED
          BY <4>1, <4>2
      <3>2. /\ u.snd_una = a /\ u.snd_una + Len(u.sbuf) = b /\ u.recover = t.recover
            /\ u.snd_wnd = t.snd_wnd /\ u.sbuf = t.sbuf /\ (u.state = "LISTEN" => t.state = "LISTEN")
        BY <1>1, <1>9, <2>5 DEF SameSend
      <3>3. Lists(u)
        <4>1. PICK m \in Nat : m > 0 /\ Listed(r, a, b, m, y)
          BY <1>19
        <4>2. Listed(u.slist, u.snd_una, u.snd_una + Len(u.sbuf), m, u.snd_nxt) /\ (u.rto <=> m > 0)
          BY <2>4, <3>2, <4>1
        <4> QED
          BY <4>2 DEF Lists
      <3>4. t.recover <= y /\ t.recover \in Nat
        BY <1>1, <1>3, <1>19 DEF Good, Sends
      <3> QED
        BY <1>1, <1>19, <2>4, <3>1, <3>2, <3>3, <3>4 DEF Good, Sends
    <2>9. Writes(low, u, V)
      <3>1. CASE low.broken
        BY <2>4, <3>1 DEF Writes
      <3>2. CASE ~low.broken
        <4>1. p.data \in Seq(Int) /\ Len(p.data) = n
          <5>1. low.sbuf \in Seq(Int)
            BY <1>9 DEF Keeps, Good, Sends
          <5>2. Minus(seg.seq, t.snd_una) \in Int
            <6>1. seg.seq < SeqSpace
              BY <1>3, <1>4, <1>5
            <6>2. Minus(seg.seq, a) = seg.seq - a
              BY <1>3, <1>4, <1>5, <6>1, MinusIs
            <6>3. seg.seq - a \in Int
              BY <1>3, <1>4
            <6> QED
              BY <1>1, <6>2, <6>3
          <5> QED
            BY <1>11, <2>1, <5>1, <5>2, BytesType
        <4>2. /\ low.rcv_nxt \in Nat /\ low.rcv_wnd \in Nat /\ low.rcv_nxt \in V
              /\ RBufLen <= low.rcv_nxt + low.rcv_wnd /\ low.rcv_nxt + low.rcv_wnd \in Nat
          BY <1>9, EdgeType DEF Keeps, Good, Receives, Edge
        <4>3. p \in Packet
          BY <1>4, <2>1, <4>1, <4>2 DEF Packet, Segment
        <4>4. Edge(u) = low.rcv_nxt + low.rcv_wnd
          BY <2>6 DEF SameRecv, Edge
        <4>5. p.seq = seg.seq /\ p.ack = low.rcv_nxt /\ p.wnd = low.rcv_wnd
          BY <2>1
        <4>6. u.snd_una = a
          BY <1>1, <1>9, <2>5 DEF SameSend
        <4>7. PacketBy(p, u, V)
          BY <1>19, <2>4, <4>1, <4>2, <4>3, <4>4, <4>5, <4>6 DEF PacketBy
        <4> QED
          BY <2>4, <3>2, <4>7 DEF Writes
      <3> QED
        BY <3>1, <3>2
    <2>10. /\ low.snd_nxt <= u.snd_nxt
           /\ \A v : Mark(low.slist, low.snd_una, v) => Mark(u.slist, u.snd_una, v)
      <3>1. low.snd_nxt = x /\ low.slist = q /\ low.snd_una = a /\ u.snd_una = a
        BY <1>1, <1>9, <2>5 DEF SameSend
      <3> QED
        BY <1>19, <2>4, <3>1
    <2>11. Good(low, E, V, W)
      BY <1>9 DEF Keeps
    <2>12. Keeps(low, u, E, V, W)
      BY <2>4, <2>6, <2>7, <2>8, <2>9, <2>10, <2>11, SendFrame
    <2> QED
      BY <1>9, <2>12, KeepsOn
  <1> QED
    BY <1>9, <1>20, <1>21, GrowsItself

\* A packet without data changes nothing else that matters.
LEMMA AckPacketKeeps ==
    ASSUME NEW t, NEW E, NEW V, NEW W, Good(t, E, V, W), NEW seq \in Nat, seq <= t.snd_nxt,
           NEW ctl \in BOOLEAN, NEW u, u = packet(t, seq, ctl, 0, 0)
    PROVE  Keeps(t, u, E, V, W)
  <1>1. PICK p : p = [seq |-> seq, ctl |-> ctl, ack |-> t.rcv_nxt, wnd |-> t.rcv_wnd,
                      data |-> Bytes(t.sbuf, 0, 0)]
    OBVIOUS
  <1>2. DOMAIN t = Fields
    BY DEF Good
  <1>3. u = [t EXCEPT !.out = IF t.broken THEN @ ELSE Append(@, p), !.t_ack = FALSE,
                      !.idle = @ /\ 0 = 0]
    BY <1>1 DEF packet
  <1>4. PICK o, w : /\ o = (IF t.broken THEN t.out ELSE Append(t.out, p)) /\ w = (t.idle /\ 0 = 0)
                    /\ u = [t EXCEPT !.out = o, !.t_ack = FALSE, !.idle = w]
    BY <1>3, Zenon
  <1>5. /\ DOMAIN u = Fields /\ u.out = (IF t.broken THEN t.out ELSE Append(t.out, p))
        /\ u.mss = t.mss /\ u.cwnd = t.cwnd /\ u.ssthresh = t.ssthresh /\ u.mtu = t.mtu
        /\ u.dup_acks = t.dup_acks /\ SameSend(t, u) /\ SameRecv(t, u)
    <2>1. \A f \in Fields \ {"out", "t_ack", "idle"} : u[f] = t[f]
      BY <1>2, <1>4, Zenon
    <2>2. DOMAIN u = Fields /\ u.out = o
      BY <1>2, <1>4 DEF Fields, Fresh
    <2>3. SameSend(t, u) /\ SameRecv(t, u)
      BY <2>1 DEF Fields, Fresh, SameSend, SameRecv
    <2>4. /\ u.mss = t.mss /\ u.cwnd = t.cwnd /\ u.ssthresh = t.ssthresh /\ u.mtu = t.mtu
          /\ u.dup_acks = t.dup_acks
      BY <2>1 DEF Fields, Fresh
    <2> QED
      BY <1>4, <2>2, <2>3, <2>4
  <1>6. Numbers(u)
    BY <1>5 DEF Good, Numbers
  <1>7. Sends(u, E, W)
    <2>1. Lists(u)
      BY <1>5 DEF Good, Sends, SameSend, Lists
    <2> QED
      BY <1>5, <2>1 DEF Good, Sends, SameSend
  <1>8. Writes(t, u, V)
    <2>1. CASE t.broken
      BY <1>5, <2>1 DEF Writes
    <2>2. CASE ~t.broken
      <3>1. p.data \in Seq(Int) /\ Len(p.data) = 0
        <4>1. t.sbuf \in Seq(Int)
          BY DEF Good, Sends
        <4> QED
          BY <1>1, <4>1, BytesType
      <3>2. /\ t.rcv_nxt \in Nat /\ t.rcv_wnd \in Nat /\ t.rcv_nxt \in V
            /\ RBufLen <= t.rcv_nxt + t.rcv_wnd /\ t.rcv_nxt + t.rcv_wnd \in Nat
        BY EdgeType DEF Good, Receives, Edge
      <3>3. p \in Packet /\ p.seq = seq /\ p.ack = t.rcv_nxt /\ p.wnd = t.rcv_wnd
        BY <1>1, <3>1, <3>2 DEF Packet
      <3>4. Edge(u) = t.rcv_nxt + t.rcv_wnd /\ u.snd_nxt = t.snd_nxt
        BY <1>5 DEF SameRecv, SameSend, Edge
      <3>5. p.seq + Len(p.data) <= u.snd_nxt /\ ~(Len(p.data) > 0) /\ p.ack + p.wnd <= Edge(u)
        <4>1. t.snd_nxt \in Nat
          BY DEF Good, Sends
        <4> QED
          BY <3>1, <3>2, <3>3, <3>4, <4>1
      <3>6. PacketBy(p, u, V)
        BY <3>2, <3>3, <3>5 DEF PacketBy
      <3> QED
        BY <1>5, <2>2, <3>6 DEF Writes
    <2> QED
      BY <2>1, <2>2
  <1>9. /\ t.snd_nxt <= u.snd_nxt
        /\ \A v : Mark(t.slist, t.snd_una, v) => Mark(u.slist, u.snd_una, v)
    <2>1. t.snd_nxt \in Nat
      BY DEF Good, Sends
    <2> QED
      BY <1>5, <2>1 DEF SameSend
  <1> QED
    BY <1>5, <1>6, <1>7, <1>8, <1>9, SendFrame

\* Where the sender is.
LEMMA SendPlace ==
    ASSUME NEW t, NEW E, NEW V, NEW W, Good(t, E, V, W), NEW k, SentK(t, k)
    PROVE  /\ t.snd_una \in Nat /\ t.snd_nxt \in Nat /\ t.snd_wnd \in Nat /\ Len(t.sbuf) \in Nat
           /\ t.snd_una <= t.snd_nxt /\ t.snd_nxt <= t.snd_una + Len(t.sbuf)
           /\ t.snd_una + Len(t.sbuf) <= W /\ W \in Nat /\ W < SeqSpace /\ SeqSpace \in Nat
           /\ t.snd_una + t.snd_wnd <= E /\ t.snd_nxt <= E /\ E \in Nat
           /\ InFlight(t) = t.snd_nxt - t.snd_una /\ InFlight(t) \in Nat
           /\ k > 0 <=> t.snd_una < t.snd_nxt
           /\ k < Len(t.slist) <=> t.snd_nxt < t.snd_una + Len(t.sbuf)
           /\ k \in 0 .. Len(t.slist) /\ t.slist \in Seq(Segment)
  <1>1. /\ t.snd_una \in Nat /\ t.snd_nxt \in Nat /\ t.snd_wnd \in Nat /\ Len(t.sbuf) \in Nat
        /\ t.snd_una + Len(t.sbuf) <= W /\ W \in Nat /\ W < SeqSpace /\ SeqSpace \in Nat
        /\ t.snd_una + t.snd_wnd <= E /\ t.snd_nxt <= E /\ E \in Nat
    BY Sizes DEF Good, Sends
  <1>2. Listed(t.slist, t.snd_una, t.snd_una + Len(t.sbuf), k, t.snd_nxt)
    BY DEF SentK
  <1>3. /\ t.snd_una <= t.snd_nxt /\ t.snd_nxt <= t.snd_una + Len(t.sbuf)
        /\ k > 0 <=> t.snd_una < t.snd_nxt
        /\ k < Len(t.slist) <=> t.snd_nxt < t.snd_una + Len(t.sbuf)
        /\ k \in 0 .. Len(t.slist) /\ t.slist \in Seq(Segment)
    BY <1>2, ListedFacts
  <1>4. InFlight(t) = t.snd_nxt - t.snd_una /\ InFlight(t) \in Nat
    <2>1. t.snd_nxt < SeqSpace /\ t.snd_nxt - t.snd_una \in Nat
      BY <1>1, <1>3
    <2> QED
      BY <1>1, <1>3, <2>1, MinusIs DEF InFlight
  <1> QED
    BY <1>1, <1>3, <1>4

LEMMA SendK ==
    ASSUME NEW t, NEW E, NEW V, NEW W, Good(t, E, V, W)
    PROVE  \E k : SentK(t, k)
  BY DEF Good, Sends, Lists, SentK

\* What attemptSend may send has been queued and is within the window.
LEMMA AvailableFits ==
    ASSUME NEW t, NEW E, NEW V, NEW W, Good(t, E, V, W), NEW k, SentK(t, k), NEW n, n = Available(t)
    PROVE  /\ n \in Nat
           /\ n > 0 => t.snd_nxt + n <= E /\ k + 1 \in 1 .. Len(t.slist)
  <1>1. PICK f, a, x, w, l \in Nat : /\ f = InFlight(t) /\ a = t.snd_una /\ x = t.snd_nxt
                                     /\ w = t.snd_wnd /\ l = Len(t.sbuf)
    BY SendPlace
  <1>2. f = x - a /\ x <= a + l /\ a <= x /\ a + w <= E /\ E \in Nat
    BY <1>1, SendPlace
  <1>3. PICK c : c = IF t.dup_acks \in {1, 2} THEN t.cwnd + t.dup_acks * t.mss ELSE t.cwnd
    OBVIOUS
  <1>4. c \in Nat /\ t.mss \in Nat
    <2>1. t.cwnd \in Nat /\ t.mss \in Nat
      BY DEF Good, Numbers
    <2> QED
      BY <1>3, <2>1
  <1>5. PICK win : win = Smaller(w, c)
    OBVIOUS
  <1>6. win \in Nat /\ win <= w
    BY <1>4, <1>5, SmallerIs
  <1>7. PICK use : use = IF f < win THEN win - f ELSE 0
    OBVIOUS
  <1>8. use \in Nat /\ (use > 0 => x + use <= a + w)
    BY <1>2, <1>6, <1>7
  <1>9. Minus(l, f) = l - f /\ l - f \in Nat
    <2>1. f <= l
      BY <1>2
    <2>2. PICK y, c0 \in Nat : y = W /\ c0 = SeqSpace /\ a + l <= y /\ y < c0
      BY <1>1, SendPlace
    <2>3. l < SeqSpace /\ SeqSpace \in Nat
      BY <2>2
    <2> QED
      BY <2>1, <2>3, MinusIs
  <1>10. PICK av : av = Smaller(Minus(l, f), t.mss)
    OBVIOUS
  <1>11. av \in Nat /\ av <= l - f
    BY <1>4, <1>9, <1>10, SmallerIs
  <1>12. n = IF av <= use THEN av ELSE IF use * 4 < win THEN 0 ELSE use
    BY <1>1, <1>3, <1>5, <1>7, <1>10 DEF Available
  <1>13. n \in Nat /\ n <= av /\ n <= use
    BY <1>8, <1>11, <1>12
  <1>14. n > 0 => x + n <= E
    BY <1>2, <1>8, <1>13
  <1>15. n > 0 => x < a + l
    BY <1>2, <1>9, <1>11, <1>13
  <1>16. x < a + l => k + 1 \in 1 .. Len(t.slist)
    <2>1. x < a + l => k < Len(t.slist) /\ k \in 0 .. Len(t.slist)
      BY <1>1, SendPlace
    <2> QED
      BY <2>1
  <1> QED
    BY <1>1, <1>13, <1>14, <1>15, <1>16

\* The next segment to send is the one behind those sent.
LEMMA NextToSend ==
    ASSUME NEW q \in Seq(Segment), NEW k \in Nat, k + 1 \in 1 .. Len(q),
           \A i \in 1 .. Len(q) : q[i].xmit > 0 <=> i <= k
    PROVE  SelectInSeq(q, LAMBDA seg : seg.xmit = 0) = k + 1
  <1> DEFINE I == {i \in 1 .. Len(q) : q[i].xmit = 0}
  <1>1. \A i \in 1 .. Len(q) : q[i].xmit \in Nat
    BY SegmentType
  <1>2. k + 1 \in I /\ \A i \in I : k + 1 <= i
    BY <1>1
  <1>3. \A x \in I : (\A y \in I : x <= y) => x = k + 1
    BY <1>2
  <1>4. Min(I) = k + 1
    <2> HIDE DEF I
    <2>1. PICK z : z = CHOOSE x \in I : \A y \in I : x <= y
      OBVIOUS
    <2>2. z \in I /\ \A y \in I : z <= y
      BY <1>2, <2>1
    <2> QED
      BY <1>3, <2>1, <2>2 DEF Min
  <1>5. I # {}
    BY <1>2
  <1> QED
    BY <1>4, <1>5 DEF SelectInSeq

\* The next segment is cut to what may be sent of it.
LEMMA CutFits ==
    ASSUME NEW t, NEW E, NEW V, NEW W, Good(t, E, V, W), NEW k, SentK(t, k),
           k + 1 \in 1 .. Len(t.slist), NEW n \in Nat, n > 0, t.snd_nxt + n <= E,
           NEW u, u = Cut(t, k + 1, n)
    PROVE  /\ Keeps(t, u, E, V, W) /\ SentK(u, k)
           /\ k + 1 \in 1 .. Len(u.slist) /\ EndOf(u.slist[k + 1]) <= E
  <1>1. PICK q, a, b, x, i, seg : /\ q = t.slist /\ a = t.snd_una /\ b = t.snd_una + Len(t.sbuf)
                                  /\ x = t.snd_nxt /\ i = k + 1 /\ seg = q[i]
    OBVIOUS
  <1>2. Listed(q, a, b, k, x) /\ i \in 1 .. Len(q) /\ i > k /\ k \in Nat /\ i \in Nat
    BY <1>1 DEF SentK
  <1>3. q \in Seq(Segment) /\ x \in Nat /\ b \in Nat /\ EndOf(seg) <= b /\ seg.seq = x /\ k < Len(q)
    <2>1. k < Len(q)
      BY <1>1, <1>2
    <2> QED
      BY <1>1, <1>2, <2>1, ListedFacts
  <1>4. /\ seg \in Segment /\ seg.len \in Nat /\ seg.len > 0 /\ EndOf(seg) = x + seg.len
        /\ seg.xmit \in Nat
    BY <1>1, <1>2, <1>3, SegmentType DEF EndOf
  <1>5. E \in Nat /\ b < SeqSpace /\ SeqSpace \in Nat
    BY <1>1, SendPlace
  <1>6. CASE seg.len <= n
    <2>1. u = t
      BY <1>1, <1>6 DEF Cut
    <2>2. EndOf(seg) <= E
      BY <1>1, <1>3, <1>4, <1>5, <1>6
    <2> QED
      BY <1>1, <1>2, <2>1, <2>2, GrowsItself
  <1>7. CASE ~(seg.len <= n)
    <2>1. Plus(x, n) = x + n
      <3>1. x + n < SeqSpace
        BY <1>3, <1>4, <1>5, <1>7
      <3> QED
        BY <1>3, <1>5, <3>1, PlusIs
    <2>2. PICK f, g : /\ f = [seg EXCEPT !.len = n]
                      /\ g = [seg EXCEPT !.seq = x + n, !.len = seg.len - n]
      OBVIOUS
    <2>3. f \in Segment /\ f.seq = x /\ f.len = n /\ f.xmit = seg.xmit
      <3>1. n \in Nat \ {0}
        OBVIOUS
      <3> QED
        BY <1>3, <1>4, <2>2, <3>1 DEF Segment
    <2>4. g \in Segment /\ g.seq = x + n /\ g.len = seg.len - n /\ g.xmit = seg.xmit
      <3>1. seg.len - n \in Nat \ {0} /\ x + n \in Nat
        BY <1>3, <1>4, <1>7
      <3> QED
        BY <1>4, <2>2, <3>1 DEF Segment
    <2>5. Halves(q, i, f, g) /\ EndOf(f) = x + n
      BY <1>1, <1>3, <1>4, <2>3, <2>4 DEF Halves, EndOf
    <2>6. PICK r : r = Splice(q, i, <<f, g>>)
      OBVIOUS
    <2>7. r \in Seq(Segment) /\ Splits(q, i, f, g, r)
      BY <1>2, <1>3, <2>3, <2>4, <2>6, SpliceTwo
    <2>8. seg.xmit = 0
      <3>1. ~(seg.xmit > 0)
        BY <1>1, <1>2 DEF Listed, SentTo
      <3> QED
        BY <1>4, <3>1
    <2>9. Listed(r, a, b, k, x) /\ \A v : Mark(q, a, v) => Mark(r, a, v)
      BY <1>2, <2>3, <2>4, <2>5, <2>7, <2>8, CutKeeps
    <2>10. u = [t EXCEPT !.slist = r]
      <3>1. g = [seg EXCEPT !.seq = Plus(@, n), !.len = @ - n]
        BY <1>3, <2>1, <2>2
      <3> QED
        BY <1>1, <1>7, <2>2, <2>6, <3>1 DEF Cut
    <2>11. DOMAIN t = Fields
      BY DEF Good
    <2>12. /\ DOMAIN u = Fields /\ u.slist = r /\ u.out = t.out
           /\ u.mss = t.mss /\ u.cwnd = t.cwnd /\ u.ssthresh = t.ssthresh /\ u.mtu = t.mtu
           /\ u.dup_acks = t.dup_acks
      BY <2>10, <2>11 DEF Fields, Fresh
    <2>13. /\ u.snd_una = t.snd_una /\ u.snd_nxt = t.snd_nxt /\ u.snd_wnd = t.snd_wnd
           /\ u.sbuf = t.sbuf /\ u.rto = t.rto /\ u.recover = t.recover /\ u.state = t.state
      BY <2>10, <2>11 DEF Fields, Fresh
    <2>14. SameRecv(t, u)
      BY <2>10, <2>11 DEF Fields, Fresh, SameRecv
    <2>15. SentK(u, k)
      BY <1>1, <2>9, <2>12, <2>13 DEF SentK
    <2>16. Sends(u, E, W)
      <3>1. Lists(u)
        BY <2>15 DEF Lists, SentK
      <3> QED
        BY <2>13, <3>1 DEF Good, Sends
    <2>17. Numbers(u) /\ Writes(t, u, V)
      BY <2>12 DEF Good, Numbers, Writes
    <2>18. t.snd_nxt <= u.snd_nxt /\ \A v : Mark(t.slist, t.snd_una, v) => Mark(u.slist, u.snd_una, v)
      BY <1>1, <1>3, <2>9, <2>12, <2>13
    <2>19. Keeps(t, u, E, V, W)
      BY <2>12, <2>14, <2>16, <2>17, <2>18, SendFrame
    <2>20. i \in 1 .. Len(r) /\ r[i] = f
      <3>1. Len(r) = Len(q) + 1 /\ r[i] = f /\ Len(q) \in Nat
        BY <1>3, <2>7 DEF Splits
      <3> QED
        BY <1>2, <3>1
    <2> QED
      BY <1>1, <2>5, <2>12, <2>15, <2>19, <2>20
  <1> QED
    BY <1>6, <1>7

TurnFields == {"tcp", "flags", "done"}

\* One turn of attemptSend's loop.
LEMMA SendTurnKeeps ==
    ASSUME NEW s, DOMAIN s = TurnFields, NEW E, NEW V, NEW W, Good(s.tcp, E, V, W)
    PROVE  Keeps(s.tcp, SendTurn(s).tcp, E, V, W) /\ DOMAIN SendTurn(s) = TurnFields
  <1>1. PICK t, n : t = s.tcp /\ n = Available(t)
    OBVIOUS
  <1>2. PICK next, r : /\ next = SelectInSeq(t.slist, LAMBDA seg : seg.xmit = 0)
                       /\ r = transmit(Cut(t, next, n), next)
    OBVIOUS
  <1>3. PICK k : SentK(t, k)
    BY <1>1, SendK
  <1>4. n \in Nat /\ (n > 0 => t.snd_nxt + n <= E /\ k + 1 \in 1 .. Len(t.slist))
    BY <1>1, <1>3, AvailableFits
  <1>5. Good(t, E, V, W) /\ Keeps(t, t, E, V, W)
    BY <1>1, GrowsItself
  <1>6. ASSUME n > 0 PROVE Keeps(t, r.tcp, E, V, W)
    <2>1. next = k + 1
      <3>1. t.slist \in Seq(Segment) /\ k \in Nat /\ \A i \in 1 .. Len(t.slist) : t.slist[i].xmit > 0 <=> i <= k
        BY <1>3 DEF SentK, Listed, Tiles, SentTo
      <3> QED
        BY <1>2, <1>4, <1>6, <3>1, NextToSend
    <2>2. PICK u : u = Cut(t, k + 1, n)
      OBVIOUS
    <2>3. /\ Keeps(t, u, E, V, W) /\ SentK(u, k)
          /\ k + 1 \in 1 .. Len(u.slist) /\ EndOf(u.slist[k + 1]) <= E
      BY <1>3, <1>4, <1>5, <1>6, <2>2, CutFits
    <2>4. r = transmit(u, k + 1) /\ k + 1 <= k + 1
      BY <1>2, <1>3, <2>1, <2>2 DEF SentK
    <2>5. Good(u, E, V, W)
      BY <2>3 DEF Keeps
    <2>6. Keeps(u, r.tcp, E, V, W)
      BY <2>3, <2>4, <2>5, TransmitKeeps
    <2> QED
      BY <1>5, <2>3, <2>6, KeepsOn
  <1>7. Keeps(t, ackPacket(t), E, V, W)
    <2>1. PICK c \in BOOLEAN : c = FALSE
      OBVIOUS
    <2>2. ackPacket(t) = packet(t, t.snd_nxt, c, 0, 0)
      BY <2>1 DEF ackPacket
    <2>3. t.snd_nxt \in Nat /\ t.snd_nxt <= t.snd_nxt
      BY <1>5 DEF Good, Sends
    <2> QED
      BY <1>5, <2>2, <2>3, AckPacketKeeps
  <1>8. Keeps(t, [t EXCEPT !.t_ack = TRUE], E, V, W)
    <2>1. PICK u : u = [t EXCEPT !.t_ack = TRUE]
      OBVIOUS
    <2>2. DOMAIN t = Fields /\ Numbers(t)
      BY <1>5 DEF Good
    <2>3. DOMAIN u = Fields /\ u.out = t.out /\ Numbers(u)
      BY <2>1, <2>2 DEF Fields, Fresh, Numbers
    <2>4. SameSend(t, u) /\ SameRecv(t, u)
      BY <2>1, <2>2 DEF Fields, Fresh, SameSend, SameRecv
    <2> QED
      BY <1>5, <2>1, <2>3, <2>4, Frame
  <1>9. PICK v : v = CASE s.flags = "none" -> t
                       [] s.flags = "immediate" \/ (s.flags = "delayed" /\ t.t_ack) -> ackPacket(t)
                       [] OTHER -> [t EXCEPT !.t_ack = TRUE]
    OBVIOUS
  <1>10. Keeps(t, v, E, V, W)
    BY <1>5, <1>7, <1>8, <1>9
  <1>11. SendTurn(s) = IF s.done THEN s
                       ELSE IF n = 0 THEN [s EXCEPT !.done = TRUE, !.tcp = v]
                       ELSE IF UseNagling /\ t.snd_nxt > t.snd_una /\ n < t.mss THEN [s EXCEPT !.done = TRUE]
                       ELSE [tcp |-> r.tcp, flags |-> "none", done |-> ~r.ok]
    BY <1>1, <1>2, <1>9 DEF SendTurn
  <1>12. PICK w : w = SendTurn(s)
    OBVIOUS
  <1>13. DOMAIN w = TurnFields /\ (w.tcp = t \/ (n = 0 /\ w.tcp = v) \/ (n # 0 /\ w.tcp = r.tcp))
    BY <1>1, <1>11, <1>12 DEF TurnFields
  <1> QED
    BY <1>1, <1>4, <1>5, <1>6, <1>10, <1>12, <1>13

\* f[i] is the state of attemptSend's loop, begun in s, after i turns.
TurnsOf(f, s, m) == f = [i \in 0 .. m |-> IF i = 0 THEN s ELSE SendTurn(f[i - 1])]

LEMMA TurnsExist ==
    ASSUME NEW s, NEW l \in Nat
    PROVE  \E f : TurnsOf(f, s, l)
  <1> DEFINE S == {m \in 0 .. l : \E f : TurnsOf(f, s, m)}
  <1>1. 0 \in S
    <2>1. TurnsOf([i \in 0 .. 0 |-> s], s, 0)
      BY DEF TurnsOf
    <2> QED
      BY <2>1
  <1>2. ASSUME NEW m \in 0 .. l, m \in S, m < l PROVE m + 1 \in S
    <2>1. PICK f : TurnsOf(f, s, m)
      BY <1>2
    <2>2. PICK g : g = [i \in 0 .. m + 1 |-> IF i <= m THEN f[i] ELSE SendTurn(f[m])]
      OBVIOUS
    <2>3. \A i \in 0 .. m : f[i] = IF i = 0 THEN s ELSE SendTurn(f[i - 1])
      BY <2>1 DEF TurnsOf
    <2>4. \A i \in 0 .. m : g[i] = f[i]
      BY <2>2
    <2>5. g[m + 1] = SendTurn(f[m])
      BY <2>2
    <2>6. ASSUME NEW i \in 0 .. m + 1 PROVE g[i] = IF i = 0 THEN s ELSE SendTurn(g[i - 1])
      <3>1. CASE i = 0
        BY <2>3, <2>4, <3>1
      <3>2. CASE i # 0 /\ i <= m
        <4>1. i \in 0 .. m /\ i - 1 \in 0 .. m
          BY <3>2
        <4>2. f[i] = SendTurn(f[i - 1])
          BY <2>3, <3>2, <4>1
        <4> QED
          BY <2>4, <3>2, <4>1, <4>2
      <3>3. CASE i = m + 1
        <4>1. i - 1 = m /\ m \in 0 .. m /\ i # 0
          BY <3>3
        <4> QED
          BY <2>4, <2>5, <3>3, <4>1
      <3> QED
        BY <3>1, <3>2, <3>3
    <2>7. TurnsOf(g, s, m + 1)
      <3>1. g = [i \in 0 .. m + 1 |-> g[i]]
        BY <2>2
      <3> QED
        BY <2>6, <3>1 DEF TurnsOf
    <2> QED
      BY <1>2, <2>7
  <1>3. 0 .. l \subseteq S
    <2> HIDE DEF S
    <2> QED
      BY <1>1, <1>2, UpTo
  <1> QED
    BY <1>3

\* The fields that go with a number.
LEMMA IdleKeeps ==
    ASSUME NEW t, NEW E, NEW V, NEW W, Good(t, E, V, W), NEW u,
           u = IF t.idle THEN [t EXCEPT !.cwnd = t.mss] ELSE t
    PROVE  Keeps(t, u, E, V, W)
  <1>1. CASE u = t
    BY <1>1, GrowsItself
  <1>2. CASE u = [t EXCEPT !.cwnd = t.mss]
    <2>1. DOMAIN t = Fields /\ Numbers(t)
      BY DEF Good
    <2>2. DOMAIN u = Fields /\ u.out = t.out /\ Numbers(u)
      BY <1>2, <2>1 DEF Fields, Fresh, Numbers
    <2>3. SameSend(t, u) /\ SameRecv(t, u)
      BY <1>2, <2>1 DEF Fields, Fresh, SameSend, SameRecv
    <2> QED
      BY <2>2, <2>3, Frame
  <1> QED
    BY <1>1, <1>2

LEMMA AttemptSendKeeps ==
    ASSUME NEW t, NEW E, NEW V, NEW W, Good(t, E, V, W), NEW flags
    PROVE  Keeps(t, attemptSend(t, flags), E, V, W)
  <1>1. PICK u : u = IF t.idle THEN [t EXCEPT !.cwnd = t.mss] ELSE t
    OBVIOUS
  <1>2. Keeps(t, u, E, V, W)
    BY <1>1, IdleKeeps
  <1>3. PICK s : s = [tcp |-> u, flags |-> flags, done |-> FALSE]
    OBVIOUS
  <1>4. PICK l \in Nat : l = SBufLen + 1
    BY Sizes
  <1>5. PICK f : TurnsOf(f, s, l) /\ attemptSend(t, flags) = f[l].tcp
    <2>1. \E f : TurnsOf(f, s, l)
      BY TurnsExist
    <2>2. TurnsOf(CHOOSE f : TurnsOf(f, s, l), s, l)
      BY <2>1, Zenon
    <2>3. attemptSend(t, flags) = (CHOOSE f : TurnsOf(f, s, l))[l].tcp
      BY <1>1, <1>3, <1>4 DEF attemptSend, TurnsOf
    <2> QED
      BY <2>2, <2>3
  <1>6. f[0] = s /\ \A i \in 1 .. l : f[i] = SendTurn(f[i - 1])
    <2>1. \A i \in 0 .. l : f[i] = IF i = 0 THEN s ELSE SendTurn(f[i - 1])
      BY <1>5 DEF TurnsOf
    <2>2. 0 \in 0 .. l /\ \A i \in 1 .. l : i \in 0 .. l /\ i # 0
      OBVIOUS
    <2> QED
      BY <2>1, <2>2
  <1> DEFINE S == {i \in 0 .. l : DOMAIN f[i] = TurnFields /\ Keeps(t, f[i].tcp, E, V, W)}
  <1>7. 0 \in S
    <2>1. DOMAIN s = TurnFields /\ s.tcp = u
      BY <1>3 DEF TurnFields
    <2> QED
      BY <1>2, <1>6, <2>1
  <1>8. ASSUME NEW i \in 0 .. l, i \in S, i < l PROVE i + 1 \in S
    <2>1. f[i + 1] = SendTurn(f[i]) /\ i + 1 \in 0 .. l
      <3>1. i + 1 \in 1 .. l /\ (i + 1) - 1 = i
        BY <1>8
      <3> QED
        BY <1>6, <3>1
    <2>2. DOMAIN f[i] = TurnFields /\ Keeps(t, f[i].tcp, E, V, W)
      BY <1>8
    <2>3. Keeps(f[i].tcp, f[i + 1].tcp, E, V, W) /\ DOMAIN f[i + 1] = TurnFields
      BY <2>1, <2>2, SendTurnKeeps DEF Keeps
    <2>4. Keeps(t, f[i + 1].tcp, E, V, W)
      BY <2>2, <2>3, KeepsOn
    <2> QED
      BY <2>1, <2>3, <2>4
  <1>9. 0 .. l \subseteq S
    <2> HIDE DEF S
    <2> QED
      BY <1>7, <1>8, UpTo
  <1> QED
    BY <1>5, <1>9

-----------------------------------------------------------------------------
(* Queueing.                                                               *)

\* queue takes some of data and the segments cover it.
LEMMA QueueKeeps ==
    ASSUME NEW t, NEW E, NEW V, NEW W0, Good(t, E, V, W0), t.state # "LISTEN",
           NEW data \in Seq(Int), Len(data) > 0, Len(t.sbuf) < SBufLen, NEW ctl \in BOOLEAN,
           NEW u, u = queue(t, data, ctl)
    PROVE  /\ Len(u.sbuf) - Len(t.sbuf) \in 1 .. Len(data) /\ Len(t.sbuf) \in Nat /\ Len(u.sbuf) \in Nat
           /\ \A W \in Nat : /\ t.snd_una + Len(u.sbuf) <= W
                             /\ W + RBufLen < SeqSpace
                             => Keeps(t, u, E, V, W)
  <1>1. PICK k : SentK(t, k)
    BY SendK
  <1>2. PICK q, a, l, b, x, n : /\ q = t.slist /\ a = t.snd_una /\ l = Len(t.sbuf) /\ b = a + l
                                /\ x = t.snd_nxt /\ n = Len(q)
    OBVIOUS
  <1>3. Listed(q, a, b, k, x) /\ k \in Nat
    BY <1>1, <1>2 DEF SentK
  <1>4. /\ a \in Nat /\ l \in Nat /\ b \in Nat /\ x \in Nat /\ q \in Seq(Segment) /\ n \in Nat
        /\ b < SeqSpace /\ SeqSpace \in Nat /\ t.sbuf \in Seq(Int)
    <2>1. a \in Nat /\ l \in Nat /\ x \in Nat /\ q \in Seq(Segment) /\ SeqSpace \in Nat
      BY <1>1, <1>2, SendPlace
    <2>2. a + l <= W0 /\ W0 \in Nat /\ W0 < SeqSpace
      BY <1>1, <1>2, SendPlace
    <2>3. t.sbuf \in Seq(Int)
      BY DEF Good, Sends
    <2> QED
      BY <1>2, <2>1, <2>2, <2>3
  <1>5. PICK m : m = Smaller(Len(data), SBufLen - l)
    OBVIOUS
  <1>6. m \in Nat /\ m > 0 /\ m <= Len(data) /\ l + m <= SBufLen
    <2>1. PICK o, g, c \in Nat : o = Len(data) /\ g = SBufLen - l /\ g > 0 /\ c = SBufLen /\ l + g = c /\ o > 0
      <3>1. PICK c \in Nat : c = SBufLen
        BY Sizes
      <3>2. c - l \in Nat /\ c - l > 0 /\ l + (c - l) = c
        BY <1>2, <1>4, <3>1
      <3>3. Len(data) \in Nat
        OBVIOUS
      <3> QED
        BY <3>1, <3>2, <3>3
    <2>2. m \in Nat /\ m <= o /\ m <= g /\ m \in {o, g}
      BY <1>5, <2>1, SmallerIs
    <2>3. m > 0 /\ l + m <= c
      BY <1>4, <2>1, <2>2
    <2> QED
      BY <2>1, <2>2, <2>3
  <1>7. PICK d : d = SubSeq(data, 1, m)
    OBVIOUS
  <1>8. d \in Seq(Int) /\ Len(d) = m
    BY <1>6, <1>7
  <1>9. PICK seg : seg = [seq |-> Plus(a, l), len |-> m, xmit |-> 0, ctl |-> ctl]
    OBVIOUS
  <1> DEFINE joins == n > 0 /\ q[n].ctl = ctl /\ q[n].xmit = 0
  <1>10. seg \in Segment /\ seg.seq = b /\ seg.xmit = 0 /\ EndOf(seg) = b + m
    <2>1. Plus(a, l) = b
      BY <1>2, <1>4, PlusIs
    <2> QED
      BY <1>4, <1>6, <1>9, <2>1 DEF Segment, EndOf
  <1>11. PICK r : r = IF joins THEN Grown(q, m) ELSE Append(q, seg)
    OBVIOUS
  <1>12. Listed(r, a, b + m, k, x) /\ \A v : Mark(q, a, v) => Mark(r, a, v)
    <2>1. CASE joins
      <3>1. n \in 1 .. Len(q) /\ q[n].xmit = 0
        BY <1>2, <1>4, <2>1
      <3>2. ~(n <= k)
        BY <1>3, <3>1 DEF Listed, SentTo
      <3>3. Len(q) > 0 /\ Len(q) > k
        BY <1>2, <1>3, <1>4, <3>1, <3>2
      <3>4. r = Grown(q, m)
        BY <1>11, <2>1
      <3> QED
        BY <1>3, <1>6, <3>3, <3>4, JoinKeeps
    <2>2. CASE ~joins
      BY <1>3, <1>10, <1>11, <2>2, AppendKeeps
    <2> QED
      BY <2>1, <2>2
  <1>13. DOMAIN t = Fields
    BY DEF Good
  <1>14. u = [t EXCEPT !.sbuf = t.sbuf \o d, !.slist = r]
    <2>1. Grown(q, m) = [t.slist EXCEPT ![Len(t.slist)].len = @ + Len(d)]
      BY <1>2, <1>8 DEF Grown
    <2>2. /\ d = SubSeq(data, 1, Smaller(Len(data), SBufLen - Len(t.sbuf)))
          /\ seg = [seq |-> Plus(t.snd_una, Len(t.sbuf)), len |-> Len(d), xmit |-> 0, ctl |-> ctl]
      BY <1>2, <1>5, <1>7, <1>8, <1>9
    <2>3. CASE joins
      <3>1. r = [t.slist EXCEPT ![Len(t.slist)].len = @ + Len(d)]
        BY <1>11, <2>1, <2>3
      <3>2. Len(t.slist) > 0 /\ t.slist[Len(t.slist)].ctl = ctl /\ t.slist[Len(t.slist)].xmit = 0
        BY <1>2, <2>3
      <3> QED
        BY <2>2, <3>1, <3>2 DEF queue
    <2>4. CASE ~joins
      <3>1. r = Append(t.slist, seg)
        BY <1>2, <1>11, <2>4
      <3>2. ~(Len(t.slist) > 0 /\ t.slist[Len(t.slist)].ctl = ctl /\ t.slist[Len(t.slist)].xmit = 0)
        BY <1>2, <2>4
      <3> QED
        BY <2>2, <3>1, <3>2 DEF queue
    <2> QED
      BY <2>3, <2>4
  <1>15. /\ DOMAIN u = Fields /\ u.slist = r /\ u.sbuf = t.sbuf \o d /\ u.out = t.out
         /\ u.mss = t.mss /\ u.cwnd = t.cwnd /\ u.ssthresh = t.ssthresh /\ u.mtu = t.mtu
         /\ u.dup_acks = t.dup_acks
    BY <1>13, <1>14 DEF Fields, Fresh
  <1>16. /\ u.snd_una = t.snd_una /\ u.snd_nxt = t.snd_nxt /\ u.snd_wnd = t.snd_wnd
         /\ u.rto = t.rto /\ u.recover = t.recover /\ u.state = t.state
    BY <1>13, <1>14 DEF Fields, Fresh
  <1>17. SameRecv(t, u)
    BY <1>13, <1>14 DEF Fields, Fresh, SameRecv
  <1>18. u.sbuf \in Seq(Int) /\ Len(u.sbuf) = l + m
    BY <1>2, <1>4, <1>8, <1>15
  <1>19. Lists(u)
    <2>1. u.snd_una + Len(u.sbuf) = b + m
      <3>1. u.snd_una = a /\ Len(u.sbuf) = l + m /\ b = a + l
        BY <1>2, <1>16, <1>18
      <3> QED
        BY <1>4, <1>6, <3>1
    <2>2. SentK(u, k)
      BY <1>1, <1>2, <1>3, <1>12, <1>15, <1>16, <2>1 DEF SentK
    <2> QED
      BY <2>2 DEF Lists, SentK
  <1>20. ASSUME NEW W \in Nat, t.snd_una + Len(u.sbuf) <= W, W + RBufLen < SeqSpace
         PROVE  Keeps(t, u, E, V, W)
    <2>1. Sends(u, E, W)
      <3>1. Len(u.sbuf) <= SBufLen
        BY <1>6, <1>18
      <3> QED
        BY <1>16, <1>18, <1>19, <1>20, <3>1 DEF Good, Sends
    <2>2. Numbers(u) /\ Writes(t, u, V)
      BY <1>15 DEF Good, Numbers, Writes
    <2>3. t.snd_nxt <= u.snd_nxt /\ \A v : Mark(t.slist, t.snd_una, v) => Mark(u.slist, u.snd_una, v)
      BY <1>2, <1>4, <1>12, <1>15, <1>16
    <2> QED
      BY <1>15, <1>17, <2>1, <2>2, <2>3, SendFrame
  <1>21. Len(u.sbuf) - Len(t.sbuf) \in 1 .. Len(data) /\ Len(t.sbuf) \in Nat /\ Len(u.sbuf) \in Nat
    <2>1. Len(u.sbuf) - Len(t.sbuf) = m
      BY <1>2, <1>4, <1>6, <1>18
    <2> QED
      BY <1>2, <1>4, <1>6, <1>18, <2>1
  <1> QED
    BY <1>20, <1>21

\* A CONNECT message, the first thing an end sends.
LEMMA QueueConnectKeeps ==
    ASSUME NEW t, NEW E, NEW V, NEW W, Good(t, E, V, W), t.state = "LISTEN", ConnectLen <= W,
           NEW st, st # "LISTEN", NEW u, u = queueConnectMessage([t EXCEPT !.state = st])
    PROVE  Keeps(t, u, E, V, W)
  <1>1. PICK w : w = [t EXCEPT !.state = st, !.snd_wnd = ConnectLen]
    OBVIOUS
  <1>2. DOMAIN t = Fields
    BY DEF Good
  <1>3. /\ DOMAIN w = Fields /\ w.out = t.out /\ w.state = st /\ w.snd_wnd = ConnectLen
        /\ w.mss = t.mss /\ w.cwnd = t.cwnd /\ w.ssthresh = t.ssthresh /\ w.mtu = t.mtu
        /\ w.dup_acks = t.dup_acks
    BY <1>1, <1>2 DEF Fields, Fresh
  <1>4. /\ w.snd_una = t.snd_una /\ w.snd_nxt = t.snd_nxt /\ w.slist = t.slist
        /\ w.sbuf = t.sbuf /\ w.rto = t.rto /\ w.recover = t.recover
    BY <1>1, <1>2 DEF Fields, Fresh
  <1>5. SameRecv(t, w)
    BY <1>1, <1>2 DEF Fields, Fresh, SameRecv
  <1>6. /\ t.snd_una = 0 /\ Len(t.sbuf) = 0 /\ t.snd_nxt \in Nat /\ RBufLen <= E /\ E \in Nat
        /\ W \in Nat /\ W + RBufLen < SeqSpace
    <2>1. t.snd_una \in Nat /\ Len(t.sbuf) \in Nat /\ t.snd_una + Len(t.sbuf) = 0
      BY DEF Good, Sends
    <2> QED
      BY <2>1 DEF Good, Sends
  <1>7. Keeps(t, w, E, V, W)
    <2>1. Lists(w)
      BY <1>4 DEF Good, Sends, Lists
    <2>2. 0 < w.snd_una + w.snd_wnd /\ w.snd_una + w.snd_wnd <= E /\ w.snd_wnd \in Nat
      BY <1>3, <1>4, <1>6, Sizes
    <2>3. Sends(w, E, W)
      BY <1>3, <1>4, <2>1, <2>2 DEF Good, Sends
    <2>4. Numbers(w) /\ Writes(t, w, V)
      BY <1>3 DEF Good, Numbers, Writes
    <2>5. t.snd_nxt <= w.snd_nxt /\ \A v : Mark(t.slist, t.snd_una, v) => Mark(w.slist, w.snd_una, v)
      BY <1>4, <1>6
    <2> QED
      BY <1>3, <1>5, <2>3, <2>4, <2>5, SendFrame
  <1>8. PICK data : data = [i \in 1 .. ConnectLen |-> 0]
    OBVIOUS
  <1>9. data \in Seq(Int) /\ Len(data) = ConnectLen
    <2>1. PICK n \in Nat : n = ConnectLen
      BY Sizes
    <2>2. data \in [1 .. n -> Int]
      BY <1>8, <2>1
    <2>3. data \in Seq(Int) /\ Len(data) = n
      BY <2>2
    <2> QED
      BY <2>1, <2>3
  <1>10. PICK c \in BOOLEAN : c = TRUE
    OBVIOUS
  <1>11. u = queue(w, data, c)
    <2>1. [[t EXCEPT !.state = st] EXCEPT !.snd_wnd = ConnectLen] = w
      BY <1>1, <1>2 DEF Fields, Fresh
    <2> QED
      BY <1>8, <1>10, <2>1 DEF queueConnectMessage
  <1>12. Good(w, E, V, W)
    BY <1>7 DEF Keeps
  <1>13. Len(w.sbuf) < SBufLen /\ Len(data) > 0 /\ w.state # "LISTEN"
    BY <1>3, <1>4, <1>6, <1>9, Sizes
  <1>14. Len(u.sbuf) - Len(w.sbuf) \in 1 .. Len(data) /\ Len(u.sbuf) \in Nat
    BY <1>9, <1>11, <1>12, <1>13, QueueKeeps
  <1>15. w.snd_una + Len(u.sbuf) <= W
    <2>1. Len(w.sbuf) = 0 /\ w.snd_una = 0
      BY <1>4, <1>6
    <2> QED
      BY <1>6, <1>9, <1>14, <2>1, Sizes
  <1>16. \A X \in Nat : /\ w.snd_una + Len(u.sbuf) <= X
                        /\ X + RBufLen < SeqSpace
                        => Keeps(w, u, E, V, X)
    BY <1>9, <1>11, <1>12, <1>13, QueueKeeps
  <1>17. Keeps(w, u, E, V, W)
    BY <1>6, <1>15, <1>16
  <1> QED
    BY <1>7, <1>17, KeepsOn

-----------------------------------------------------------------------------
(* Receiving: connections and acknowledgements.                            *)

\* A packet on its way to t.
PacketFor(p, t, E, V) ==
    /\ p \in Packet /\ Mark(t.slist, t.snd_una, p.ack)
    /\ RBufLen <= p.ack + p.wnd /\ p.ack + p.wnd <= E
    /\ p.seq + Len(p.data) <= Edge(t)
    /\ Len(p.data) > 0 => p.seq + Len(p.data) \in V

LEMMA PacketTypes ==
    ASSUME NEW p \in Packet
    PROVE  /\ p.seq \in Nat /\ p.ctl \in BOOLEAN /\ p.ack \in Nat /\ p.wnd \in Nat
           /\ p.data \in Seq(Int) /\ Len(p.data) \in Nat
  BY DEF Packet

\* It stays one whatever t does.
LEMMA PacketForStays ==
    ASSUME NEW p, NEW t, NEW u, NEW E, NEW V, NEW W, NEW W0, PacketFor(p, t, E, V),
           Good(t, E, V, W0), Keeps(t, u, E, V, W)
    PROVE  PacketFor(p, u, E, V)
  <1>1. p \in Packet /\ p.seq + Len(p.data) <= Edge(t) /\ Mark(t.slist, t.snd_una, p.ack)
    BY DEF PacketFor
  <1>2. p.seq \in Nat /\ Len(p.data) \in Nat
    BY <1>1, PacketTypes
  <1>3. Edge(t) \in Nat /\ Edge(u) \in Nat /\ Edge(t) <= Edge(u)
    BY EdgeType DEF Keeps, Good, Grows
  <1>4. Mark(u.slist, u.snd_una, p.ack)
    BY <1>1 DEF Keeps, Grows
  <1>5. p.seq + Len(p.data) <= Edge(u)
    BY <1>1, <1>2, <1>3
  <1> QED
    BY <1>4, <1>5 DEF PacketFor

LEMMA CloseKeeps ==
    ASSUME NEW t, NEW E, NEW V, NEW W, Good(t, E, V, W)
    PROVE  Keeps(t, closedown(t), E, V, W)
  <1>1. PICK u : u = [t EXCEPT !.state = "CLOSED"]
    OBVIOUS
  <1>2. DOMAIN t = Fields /\ Numbers(t)
    BY DEF Good
  <1>3. DOMAIN u = Fields /\ u.out = t.out /\ Numbers(u)
    BY <1>1, <1>2 DEF Fields, Fresh, Numbers
  <1>4. SameSend(t, u) /\ SameRecv(t, u)
    BY <1>1, <1>2 DEF Fields, Fresh, SameSend, SameRecv
  <1> QED
    BY <1>1, <1>3, <1>4, Frame DEF closedown

LEMMA AdjustMTUKeeps ==
    ASSUME NEW t, NEW E, NEW V, NEW W, Good(t, E, V, W)
    PROVE  Keeps(t, adjustMTU(t), E, V, W)
  <1>1. PICK u : u = adjustMTU(t)
    OBVIOUS
  <1>2. DOMAIN t = Fields /\ Numbers(t)
    BY DEF Good
  <1>3. PICK level : u = [t EXCEPT !.msslevel = level, !.mss = t.mtu,
                                   !.ssthresh = Larger(@, 2 * t.mtu), !.cwnd = Larger(@, t.mtu)]
    BY <1>1 DEF adjustMTU
  <1>4. /\ DOMAIN u = Fields /\ u.out = t.out /\ u.mss = t.mtu /\ u.mtu = t.mtu /\ u.dup_acks = t.dup_acks
        /\ u.ssthresh = Larger(t.ssthresh, 2 * t.mtu) /\ u.cwnd = Larger(t.cwnd, t.mtu)
    BY <1>2, <1>3 DEF Fields, Fresh
  <1>5. SameSend(t, u) /\ SameRecv(t, u)
    BY <1>2, <1>3 DEF Fields, Fresh, SameSend, SameRecv
  <1>6. Numbers(u)
    <2>1. t.mtu \in Nat /\ t.mtu > 0 /\ t.ssthresh \in Nat /\ t.cwnd \in Nat /\ 2 * t.mtu \in Nat /\ t.ssthresh > 0
          /\ t.cwnd > 0 /\ t.dup_acks \in Nat
      BY <1>2 DEF Numbers
    <2>2. u.ssthresh \in Nat /\ t.ssthresh <= u.ssthresh /\ u.cwnd \in Nat /\ t.cwnd <= u.cwnd
      BY <1>4, <2>1, LargerIs
    <2> QED
      BY <1>4, <2>1, <2>2 DEF Numbers
  <1> QED
    BY <1>1, <1>4, <1>5, <1>6, Frame

LEMMA OpenedKeeps ==
    ASSUME NEW t, NEW E, NEW V, NEW W, Good(t, E, V, W)
    PROVE  Keeps(t, Opened(t), E, V, W)
  <1>1. PICK u : u = [t EXCEPT !.state = "ESTABLISHED", !.readEvent = t.stream, !.writeEvent = t.stream]
    OBVIOUS
  <1>2. DOMAIN t = Fields /\ Numbers(t)
    BY DEF Good
  <1>3. DOMAIN u = Fields /\ u.out = t.out /\ Numbers(u)
    BY <1>1, <1>2 DEF Fields, Fresh, Numbers
  <1>4. SameSend(t, u) /\ SameRecv(t, u)
    BY <1>1, <1>2 DEF Fields, Fresh, SameSend, SameRecv
  <1>5. Keeps(t, u, E, V, W)
    BY <1>3, <1>4, Frame
  <1>6. Keeps(u, adjustMTU(u), E, V, W)
    BY <1>5, AdjustMTUKeeps DEF Keeps
  <1> QED
    BY <1>1, <1>5, <1>6, KeepsOn DEF Opened

LEMMA ConnectedKeeps ==
    ASSUME NEW t, NEW E, NEW V, NEW W, Good(t, E, V, W), ConnectLen <= W, NEW p
    PROVE  Keeps(t, Connected(t, p), E, V, W)
  <1>1. CASE p.ctl /\ t.state = "LISTEN"
    <2>1. Connected(t, p) = queueConnectMessage([t EXCEPT !.state = "SYN_RECEIVED"])
      BY <1>1 DEF Connected
    <2> QED
      BY <1>1, <2>1, QueueConnectKeeps
  <1>2. CASE p.ctl /\ t.state = "SYN_SENT"
    <2>1. Connected(t, p) = Opened(t)
      BY <1>2 DEF Connected
    <2> QED
      BY <2>1, OpenedKeeps
  <1>3. CASE ~(p.ctl /\ t.state = "LISTEN") /\ ~(p.ctl /\ t.state = "SYN_SENT")
    <2>1. Connected(t, p) = t
      BY <1>3 DEF Connected
    <2> QED
      BY <2>1, GrowsItself
  <1> QED
    BY <1>1, <1>2, <1>3

LEMMA ConfirmedKeeps ==
    ASSUME NEW t, NEW E, NEW V, NEW W, Good(t, E, V, W), NEW p
    PROVE  Keeps(t, Confirmed(t, p), E, V, W)
  BY GrowsItself, OpenedKeeps DEF Confirmed

LEMMA RefilledKeeps ==
    ASSUME NEW t, NEW E, NEW V, NEW W, Good(t, E, V, W)
    PROVE  Keeps(t, Refilled(t), E, V, W)
  <1>1. PICK u : u = [t EXCEPT !.writeEnable = FALSE, !.writeEvent = t.stream]
    OBVIOUS
  <1>2. DOMAIN t = Fields /\ Numbers(t)
    BY DEF Good
  <1>3. DOMAIN u = Fields /\ u.out = t.out /\ Numbers(u)
    BY <1>1, <1>2 DEF Fields, Fresh, Numbers
  <1>4. SameSend(t, u) /\ SameRecv(t, u)
    BY <1>1, <1>2 DEF Fields, Fresh, SameSend, SameRecv
  <1>5. Keeps(t, u, E, V, W)
    BY <1>3, <1>4, Frame
  <1> QED
    BY <1>1, <1>5, GrowsItself DEF Refilled

LEMMA ReadableKeeps ==
    ASSUME NEW t, NEW E, NEW V, NEW W, Good(t, E, V, W), NEW new
    PROVE  Keeps(t, Readable(t, new), E, V, W)
  <1>1. PICK u : u = [t EXCEPT !.readEnable = FALSE, !.readEvent = t.stream]
    OBVIOUS
  <1>2. DOMAIN t = Fields /\ Numbers(t)
    BY DEF Good
  <1>3. DOMAIN u = Fields /\ u.out = t.out /\ Numbers(u)
    BY <1>1, <1>2 DEF Fields, Fresh, Numbers
  <1>4. SameSend(t, u) /\ SameRecv(t, u)
    BY <1>1, <1>2 DEF Fields, Fresh, SameSend, SameRecv
  <1>5. Keeps(t, u, E, V, W)
    BY <1>3, <1>4, Frame
  <1> QED
    BY <1>1, <1>5, GrowsItself DEF Readable

\* What a packet acknowledges is taken off the list and the buffer.
LEMMA FreedKeeps ==
    ASSUME NEW t, NEW E, NEW V, NEW W, Good(t, E, V, W), NEW p, PacketFor(p, t, E, V),
           p.ack > t.snd_una, NEW n, n = Minus(p.ack, t.snd_una),
           NEW u, u = [t EXCEPT !.snd_wnd = p.wnd, !.snd_una = p.ack, !.rto = p.ack # t.snd_nxt,
                                !.sbuf = SubSeq(@, n + 1, Len(@)), !.slist = FreeSegments(@, n)]
    PROVE  Keeps(t, u, E, V, W) /\ n \in Nat
  <1>1. PICK k : SentK(t, k)
    BY SendK
  <1>2. PICK q, a, l, x, v : /\ q = t.slist /\ a = t.snd_una /\ l = Len(t.sbuf)
                             /\ x = t.snd_nxt /\ v = p.ack
    OBVIOUS
  <1>3. Listed(q, a, a + l, k, x) /\ k \in Nat
    BY <1>1, <1>2 DEF SentK
  <1>4. a \in Nat /\ l \in Nat /\ x \in Nat /\ x <= a + l /\ a + l < SeqSpace /\ SeqSpace \in Nat
    <2>1. a \in Nat /\ l \in Nat /\ x \in Nat /\ x <= a + l /\ SeqSpace \in Nat
      BY <1>1, <1>2, SendPlace
    <2>2. a + l <= W /\ W \in Nat /\ W < SeqSpace
      BY <1>1, <1>2, SendPlace
    <2> QED
      BY <2>1, <2>2
  <1>5. /\ v \in Nat /\ v > a /\ Mark(q, a, v) /\ p.wnd \in Nat
        /\ RBufLen <= v + p.wnd /\ v + p.wnd <= E
    BY <1>2, PacketTypes DEF PacketFor
  <1>6. PICK r : r = FreeSegments(q, v - a)
    OBVIOUS
  <1>7. /\ \E m \in 0 .. k : Listed(r, v, a + l, m, x)
        /\ \A w : Mark(q, a, w) => Mark(r, v, w)
        /\ v <= x
    BY <1>3, <1>5, <1>6, AckKeeps
  <1>8. n = v - a /\ n \in Nat
    <2>1. v < SeqSpace /\ a <= v /\ v - a \in Nat
      BY <1>4, <1>5, <1>7
    <2> QED
      BY <1>2, <1>4, <1>5, <2>1, MinusIs
  <1>9. PICK d : d = SubSeq(t.sbuf, n + 1, Len(t.sbuf))
    OBVIOUS
  <1>10. d \in Seq(Int) /\ Len(d) = l - n /\ v + Len(d) = a + l
    <2>1. n <= l
      BY <1>4, <1>7, <1>8, <1>5
    <2>2. t.sbuf \in Seq(Int)
      BY DEF Good, Sends
    <2>3. d \in Seq(Int) /\ Len(d) = l - n
      <3>1. PICK m \in Nat : m = l - n
        BY <1>4, <1>8, <2>1
      <3>2. d = SubSeq(t.sbuf, n + 1, l) /\ Len(t.sbuf) = l
        BY <1>2, <1>9
      <3>3. d \in Seq(Int) /\ Len(d) = m
        BY <1>4, <1>8, <2>1, <2>2, <3>1, <3>2, RestIs
      <3> QED
        BY <3>1, <3>3
    <2> QED
      BY <1>4, <1>5, <1>8, <2>3
  <1>11. DOMAIN t = Fields
    BY DEF Good
  <1>12. /\ DOMAIN u = Fields /\ u.slist = r /\ u.sbuf = d /\ u.snd_una = v /\ u.snd_wnd = p.wnd
         /\ u.rto = (v # x) /\ u.out = t.out
    BY <1>2, <1>6, <1>8, <1>9, <1>11 DEF Fields, Fresh
  <1>13. /\ u.snd_nxt = x /\ u.recover = t.recover /\ u.state = t.state
         /\ u.mss = t.mss /\ u.cwnd = t.cwnd /\ u.ssthresh = t.ssthresh /\ u.mtu = t.mtu
         /\ u.dup_acks = t.dup_acks
    BY <1>2, <1>11 DEF Fields, Fresh
  <1>14. SameRecv(t, u)
    BY <1>11 DEF Fields, Fresh, SameRecv
  <1>15. Lists(u)
    <2>1. PICK m \in 0 .. k : Listed(r, v, a + l, m, x)
      BY <1>7
    <2>2. m \in Nat /\ (m > 0 <=> v < x)
      BY <1>3, <2>1, ListedFacts
    <2>3. u.rto <=> m > 0
      <3>1. v # x <=> m > 0
        BY <1>4, <1>5, <1>7, <2>2
      <3>2. u.rto = (v # x)
        BY <1>12
      <3> QED
        BY <3>1, <3>2, Zenon
    <2>4. u.snd_una + Len(u.sbuf) = a + l
      BY <1>10, <1>12
    <2> QED
      BY <1>12, <1>13, <2>1, <2>2, <2>3, <2>4 DEF Lists
  <1>16. Sends(u, E, W)
    <2>1. 0 < u.snd_una + u.snd_wnd /\ u.snd_una + u.snd_wnd <= E
      <3>1. E \in Nat
        BY DEF Good, Sends
      <3>2. RBufLen \in Nat /\ RBufLen > 0
        BY Sizes
      <3> QED
        BY <1>5, <1>12, <3>1, <3>2
    <2>2. u.snd_una + Len(u.sbuf) = t.snd_una + Len(t.sbuf)
      BY <1>2, <1>10, <1>12
    <2>3. u.rto \in BOOLEAN
      BY <1>12
    <2>4. Len(u.sbuf) <= SBufLen
      <3>1. PICK c \in Nat : c = SBufLen /\ l <= c
        BY <1>2, Sizes DEF Good, Sends
      <3>2. l - n <= c
        BY <1>4, <1>8, <3>1
      <3> QED
        BY <1>10, <1>12, <3>1, <3>2
    <2> QED
      BY <1>2, <1>4, <1>5, <1>10, <1>12, <1>13, <1>15, <2>1, <2>2, <2>3, <2>4 DEF Good, Sends
  <1>17. Numbers(u) /\ Writes(t, u, V)
    BY <1>12, <1>13 DEF Good, Numbers, Writes
  <1>18. t.snd_nxt <= u.snd_nxt /\ \A w : Mark(t.slist, t.snd_una, w) => Mark(u.slist, u.snd_una, w)
    BY <1>2, <1>4, <1>7, <1>12, <1>13
  <1> QED
    BY <1>8, <1>12, <1>14, <1>16, <1>17, <1>18, SendFrame

\* The congestion window and the count of duplicate acks.
LEMMA CountsKeep ==
    ASSUME NEW t, NEW E, NEW V, NEW W, Good(t, E, V, W), NEW c \in Nat \ {0}, NEW d \in Nat,
           NEW u, u = [t EXCEPT !.dup_acks = d, !.cwnd = c]
    PROVE  Keeps(t, u, E, V, W)
  <1>1. DOMAIN t = Fields /\ Numbers(t)
    BY DEF Good
  <1>2. /\ DOMAIN u = Fields /\ u.out = t.out /\ u.cwnd = c /\ u.dup_acks = d
        /\ u.mss = t.mss /\ u.ssthresh = t.ssthresh /\ u.mtu = t.mtu
    BY <1>1 DEF Fields, Fresh
  <1>3. Numbers(u)
    BY <1>1, <1>2 DEF Numbers
  <1>4. SameSend(t, u) /\ SameRecv(t, u)
    BY <1>1 DEF Fields, Fresh, SameSend, SameRecv
  <1> QED
    BY <1>2, <1>3, <1>4, Frame

\* A segment in flight is sent again.
LEMMA AgainKeeps ==
    ASSUME NEW t, NEW E, NEW V, NEW W, Good(t, E, V, W), t.snd_una # t.snd_nxt
    PROVE  Keeps(t, transmit(t, 1).tcp, E, V, W)
  <1>1. PICK k : SentK(t, k)
    BY SendK
  <1>2. k > 0 /\ k \in 0 .. Len(t.slist) /\ Len(t.slist) \in Nat
    <2>1. t.snd_una \in Nat /\ t.snd_nxt \in Nat /\ t.snd_una <= t.snd_nxt /\ (k > 0 <=> t.snd_una < t.snd_nxt)
      BY <1>1, SendPlace
    <2>2. k \in 0 .. Len(t.slist) /\ t.slist \in Seq(Segment)
      BY <1>1, SendPlace
    <2> QED
      BY <2>1, <2>2
  <1>3. 1 \in 1 .. Len(t.slist) /\ 1 <= k + 1 /\ 1 # k + 1
    BY <1>2
  <1> QED
    BY <1>1, <1>3, TransmitKeeps

LEMMA NewAckKeeps ==
    ASSUME NEW t, NEW E, NEW V, NEW W, Good(t, E, V, W), NEW p, PacketFor(p, t, E, V), p.ack > t.snd_una
    PROVE  Keeps(t, NewAck(t, p), E, V, W)
  <1>1. PICK n : n = Minus(p.ack, t.snd_una)
    OBVIOUS
  <1>2. PICK u : u = [t EXCEPT !.snd_wnd = p.wnd, !.snd_una = p.ack, !.rto = p.ack # t.snd_nxt,
                               !.sbuf = SubSeq(@, n + 1, Len(@)), !.slist = FreeSegments(@, n)]
    OBVIOUS
  <1>3. Keeps(t, u, E, V, W) /\ n \in Nat
    BY <1>1, <1>2, FreedKeeps
  <1>4. Good(u, E, V, W) /\ Numbers(u) /\ Numbers(t) /\ DOMAIN u = Fields /\ DOMAIN t = Fields
    BY <1>3 DEF Keeps, Good
  <1>5. /\ u.cwnd \in Nat /\ u.cwnd > 0 /\ t.mss \in Nat /\ t.mss > 0 /\ t.ssthresh \in Nat
        /\ t.ssthresh > 0 /\ u.dup_acks \in Nat
    BY <1>4 DEF Numbers
  <1>6. p.ack \in Nat /\ t.snd_una \in Nat /\ t.snd_nxt \in Nat /\ t.recover \in Nat /\ t.recover <= t.snd_nxt
    BY PacketTypes DEF PacketFor, Good, Sends
  <1>7. PICK again : again = transmit(u, 1)
    OBVIOUS
  <1>8. CASE t.dup_acks < 3
    <2>1. PICK c : c = u.cwnd + IF u.cwnd < t.ssthresh THEN t.mss ELSE Larger(1, (t.mss * t.mss) \div u.cwnd)
      OBVIOUS
    <2>2. c \in Nat \ {0}
      <3>1. (t.mss * t.mss) \div u.cwnd \in Nat
        BY <1>5
      <3>2. Larger(1, (t.mss * t.mss) \div u.cwnd) \in Nat
        BY <3>1, LargerIs
      <3> HIDE DEF Larger
      <3>3. PICK z \in Nat : c = u.cwnd + z
        BY <1>5, <2>1, <3>2
      <3> QED
        BY <1>5, <3>3
    <2>3. NewAck(t, p) = [u EXCEPT !.dup_acks = 0, !.cwnd = c]
      <3>1. t.dup_acks \in Nat
        BY <1>4 DEF Numbers
      <3>2. ~(t.dup_acks >= 3)
        BY <1>8, <3>1
      <3>3. NewAck(t, p) = [u EXCEPT !.dup_acks = 0,
                                     !.cwnd = @ + IF @ < t.ssthresh THEN t.mss
                                                  ELSE Larger(1, (t.mss * t.mss) \div @)]
        BY <1>1, <1>2, <1>8, <3>2 DEF NewAck
      <3> QED
        BY <2>1, <3>3
    <2>4. Keeps(u, NewAck(t, p), E, V, W)
      BY <1>4, <2>2, <2>3, CountsKeep
    <2> QED
      BY <1>3, <2>4, KeepsOn
  <1>9. CASE ~(t.dup_acks < 3) /\ p.ack >= t.recover
    <2>1. PICK c : c = Smaller(t.ssthresh, InFlight(u) + t.mss)
      OBVIOUS
    <2>2. c \in Nat \ {0}
      <3>1. InFlight(u) \in Nat
        BY <1>4, SendK, SendPlace
      <3>2. PICK z \in Nat : z = InFlight(u) + t.mss /\ z > 0
        BY <1>5, <3>1
      <3>3. c \in Nat /\ c \in {t.ssthresh, z}
        BY <1>5, <2>1, <3>2, SmallerIs
      <3> QED
        BY <1>5, <3>2, <3>3
    <2>3. NewAck(t, p) = [u EXCEPT !.dup_acks = 0, !.cwnd = c]
      <3>1. t.dup_acks \in Nat
        BY <1>4 DEF Numbers
      <3>2. t.dup_acks >= 3
        BY <1>9, <3>1
      <3>3. NewAck(t, p) = [u EXCEPT !.dup_acks = 0, !.cwnd = Smaller(t.ssthresh, InFlight(u) + t.mss)]
        BY <1>1, <1>2, <1>6, <1>9, <3>2 DEF NewAck
      <3> QED
        BY <2>1, <3>3
    <2>4. Keeps(u, NewAck(t, p), E, V, W)
      BY <1>4, <2>2, <2>3, CountsKeep
    <2> QED
      BY <1>3, <2>4, KeepsOn
  <1>10. CASE ~(t.dup_acks < 3) /\ ~(p.ack >= t.recover)
    <2>1. Keeps(u, again.tcp, E, V, W)
      <3>1. u.snd_una = p.ack /\ u.snd_nxt = t.snd_nxt
        BY <1>2, <1>4 DEF Fields, Fresh
      <3>2. u.snd_una # u.snd_nxt
        BY <1>6, <1>10, <3>1
      <3> QED
        BY <1>4, <1>7, <3>2, AgainKeeps
    <2>2. Good(again.tcp, E, V, W)
      BY <2>1 DEF Keeps
    <2>3. PICK w : w = again.tcp
      OBVIOUS
    <2>4. NewAck(t, p) = IF again.ok THEN [w EXCEPT !.cwnd = @ + w.mss - Smaller(n, @)]
                         ELSE closedown(w)
      <3>1. t.dup_acks \in Nat
        BY <1>4 DEF Numbers
      <3>2. t.dup_acks >= 3 /\ p.ack < t.recover
        BY <1>6, <1>10, <3>1
      <3> QED
        BY <1>1, <1>2, <1>7, <1>10, <2>3, <3>2 DEF NewAck
    <2>5. Keeps(w, closedown(w), E, V, W)
      BY <2>2, <2>3, CloseKeeps
    <2>6. ASSUME NEW y, y = [w EXCEPT !.cwnd = @ + w.mss - Smaller(n, @)] PROVE Keeps(w, y, E, V, W)
      <3>1. DOMAIN w = Fields /\ Numbers(w)
        BY <2>2, <2>3 DEF Good
      <3>2. PICK c : c = w.cwnd + w.mss - Smaller(n, w.cwnd)
        OBVIOUS
      <3>3. c \in Nat \ {0}
        <4>1. w.cwnd \in Nat /\ w.mss \in Nat /\ w.mss > 0
          BY <3>1 DEF Numbers
        <4>2. Smaller(n, w.cwnd) \in Nat /\ Smaller(n, w.cwnd) <= w.cwnd
          BY <1>3, <4>1, SmallerIs
        <4> QED
          BY <3>2, <4>1, <4>2
      <3>4. /\ DOMAIN y = Fields /\ y.out = w.out /\ y.cwnd = c /\ y.dup_acks = w.dup_acks
            /\ y.mss = w.mss /\ y.ssthresh = w.ssthresh /\ y.mtu = w.mtu
        BY <2>6, <3>1, <3>2 DEF Fields, Fresh
      <3>5. Numbers(y)
        BY <3>1, <3>3, <3>4 DEF Numbers
      <3>6. SameSend(w, y) /\ SameRecv(w, y)
        BY <2>6, <3>1 DEF Fields, Fresh, SameSend, SameRecv
      <3> QED
        BY <2>2, <2>3, <3>4, <3>5, <3>6, Frame
    <2>7. Keeps(w, NewAck(t, p), E, V, W)
      BY <2>4, <2>5, <2>6
    <2>8. Keeps(t, w, E, V, W)
      BY <1>3, <2>1, <2>3, KeepsOn
    <2> QED
      BY <2>7, <2>8, KeepsOn
  <1> QED
    BY <1>8, <1>9, <1>10

\* The window the packet tells.
LEMMA WindowKeeps ==
    ASSUME NEW t, NEW E, NEW V, NEW W, Good(t, E, V, W), NEW p, PacketFor(p, t, E, V), p.ack = t.snd_una,
           NEW u, u = [t EXCEPT !.snd_wnd = p.wnd]
    PROVE  Keeps(t, u, E, V, W)
  <1>1. DOMAIN t = Fields
    BY DEF Good
  <1>2. /\ DOMAIN u = Fields /\ u.out = t.out /\ u.snd_wnd = p.wnd
        /\ u.mss = t.mss /\ u.cwnd = t.cwnd /\ u.ssthresh = t.ssthresh /\ u.mtu = t.mtu
        /\ u.dup_acks = t.dup_acks
    BY <1>1 DEF Fields, Fresh
  <1>3. /\ u.snd_una = t.snd_una /\ u.snd_nxt = t.snd_nxt /\ u.slist = t.slist /\ u.sbuf = t.sbuf
        /\ u.rto = t.rto /\ u.recover = t.recover /\ u.state = t.state
    BY <1>1 DEF Fields, Fresh
  <1>4. SameRecv(t, u)
    BY <1>1 DEF Fields, Fresh, SameRecv
  <1>5. p.ack \in Nat /\ p.wnd \in Nat /\ RBufLen <= p.ack + p.wnd /\ p.ack + p.wnd <= E
    BY PacketTypes DEF PacketFor
  <1>6. Sends(u, E, W)
    <2>1. Lists(u)
      BY <1>3 DEF Good, Sends, Lists
    <2>2. 0 < u.snd_una + u.snd_wnd /\ u.snd_una + u.snd_wnd <= E /\ u.snd_wnd \in Nat
      <3>1. u.snd_una + u.snd_wnd = p.ack + p.wnd /\ u.snd_wnd \in Nat
        BY <1>2, <1>3, <1>5
      <3> QED
        BY <1>5, <3>1, Sizes
    <2> QED
      BY <1>3, <2>1, <2>2 DEF Good, Sends
  <1>7. Numbers(u) /\ Writes(t, u, V)
    BY <1>2 DEF Good, Numbers, Writes
  <1>8. t.snd_nxt <= u.snd_nxt /\ \A v : Mark(t.slist, t.snd_una, v) => Mark(u.slist, u.snd_una, v)
    <2>1. t.snd_nxt \in Nat
      BY DEF Good, Sends
    <2> QED
      BY <1>3, <2>1
  <1> QED
    BY <1>2, <1>4, <1>6, <1>7, <1>8, SendFrame

\* Recovery begins.
LEMMA RecoverKeeps ==
    ASSUME NEW t, NEW E, NEW V, NEW W, Good(t, E, V, W), NEW h, h = Larger(InFlight(t) \div 2, 2 * t.mss),
           NEW u, u = [t EXCEPT !.recover = t.snd_nxt, !.ssthresh = h, !.cwnd = h + 3 * t.mss]
    PROVE  Keeps(t, u, E, V, W)
  <1>1. DOMAIN t = Fields /\ Numbers(t)
    BY DEF Good
  <1>2. /\ DOMAIN u = Fields /\ u.out = t.out
        /\ u.mss = t.mss /\ u.cwnd = h + 3 * t.mss /\ u.ssthresh = h /\ u.mtu = t.mtu
        /\ u.dup_acks = t.dup_acks
    BY <1>1 DEF Fields, Fresh
  <1>3. /\ u.snd_una = t.snd_una /\ u.snd_nxt = t.snd_nxt /\ u.slist = t.slist /\ u.sbuf = t.sbuf
        /\ u.rto = t.rto /\ u.recover = t.snd_nxt /\ u.state = t.state /\ u.snd_wnd = t.snd_wnd
    BY <1>1 DEF Fields, Fresh
  <1>4. SameRecv(t, u)
    BY <1>1 DEF Fields, Fresh, SameRecv
  <1>5. t.snd_nxt \in Nat
    BY DEF Good, Sends
  <1>6. Sends(u, E, W)
    <2>1. Lists(u)
      BY <1>3 DEF Good, Sends, Lists
    <2> QED
      BY <1>3, <1>5, <2>1 DEF Good, Sends
  <1>7. Numbers(u)
    <2>1. t.mss \in Nat /\ t.mss > 0 /\ t.mtu \in Nat \ {0} /\ t.dup_acks \in Nat
      BY <1>1 DEF Numbers
    <2>2. InFlight(t) \in Nat
      BY SendK, SendPlace
    <2>3. InFlight(t) \div 2 \in Nat /\ 2 * t.mss \in Nat
      BY <2>1, <2>2
    <2>4. h \in Nat /\ 2 * t.mss <= h
      BY <2>3, LargerIs
    <2>5. h \in Nat \ {0} /\ h + 3 * t.mss \in Nat \ {0} /\ t.mss \in Nat \ {0}
      BY <2>1, <2>4
    <2> QED
      BY <1>2, <2>1, <2>5 DEF Numbers
  <1>8. Writes(t, u, V)
    BY <1>2 DEF Writes
  <1>9. t.snd_nxt <= u.snd_nxt /\ \A v : Mark(t.slist, t.snd_una, v) => Mark(u.slist, u.snd_una, v)
    BY <1>3, <1>5
  <1> QED
    BY <1>2, <1>4, <1>6, <1>7, <1>8, <1>9, SendFrame

LEMMA OldAckKeeps ==
    ASSUME NEW t, NEW E, NEW V, NEW W, Good(t, E, V, W), NEW p, PacketFor(p, t, E, V), p.ack = t.snd_una
    PROVE  Keeps(t, OldAck(t, p), E, V, W)
  <1>1. PICK u : u = [t EXCEPT !.snd_wnd = p.wnd]
    OBVIOUS
  <1>2. Keeps(t, u, E, V, W)
    BY <1>1, WindowKeeps
  <1>3. Good(u, E, V, W) /\ Numbers(u) /\ DOMAIN u = Fields
    BY <1>2 DEF Keeps, Good
  <1>4. u.cwnd \in Nat \ {0} /\ u.dup_acks \in Nat
    BY <1>3 DEF Numbers
  <1>5. ASSUME NEW d \in Nat, NEW w, w = [u EXCEPT !.dup_acks = d]
        PROVE  Keeps(u, w, E, V, W)
    <2>1. /\ DOMAIN w = Fields /\ w.out = u.out /\ w.dup_acks = d
          /\ w.mss = u.mss /\ w.cwnd = u.cwnd /\ w.ssthresh = u.ssthresh /\ w.mtu = u.mtu
      BY <1>3, <1>5 DEF Fields, Fresh
    <2>2. Numbers(w)
      BY <1>3, <2>1 DEF Numbers
    <2>3. SameSend(u, w) /\ SameRecv(u, w)
      BY <1>3, <1>5 DEF Fields, Fresh, SameSend, SameRecv
    <2> QED
      BY <1>3, <2>1, <2>2, <2>3, Frame
  <1>6. PICK dup : dup = [u EXCEPT !.dup_acks = (@ + 1) % 256]
    OBVIOUS
  <1>7. Keeps(t, dup, E, V, W)
    <2>1. (u.dup_acks + 1) % 256 \in Nat
      BY <1>4
    <2>2. Keeps(u, dup, E, V, W)
      BY <1>5, <1>6, <2>1
    <2> QED
      BY <1>2, <2>2, KeepsOn
  <1>8. PICK again, w : again = transmit(dup, 1) /\ w = again.tcp
    OBVIOUS
  <1>9. PICK half : half = Larger(InFlight(w) \div 2, 2 * w.mss)
    OBVIOUS
  <1>10. OldAck(t, p) = CASE p.data # <<>> -> u
           [] p.data = <<>> /\ t.snd_una = t.snd_nxt -> [u EXCEPT !.dup_acks = 0]
           [] p.data = <<>> /\ t.snd_una # t.snd_nxt ->
                CASE dup.dup_acks = 3 ->
                       IF again.ok THEN [w EXCEPT !.recover = w.snd_nxt, !.ssthresh = half,
                                                  !.cwnd = half + 3 * w.mss]
                       ELSE closedown(w)
                  [] dup.dup_acks > 3 -> [dup EXCEPT !.cwnd = @ + t.mss]
                  [] OTHER -> dup
    BY <1>1, <1>6, <1>8, <1>9 DEF OldAck
  <1>11. CASE p.data # <<>>
    <2>1. OldAck(t, p) = u
      BY <1>10, <1>11
    <2> QED
      BY <1>2, <2>1
  <1>12. CASE p.data = <<>> /\ t.snd_una = t.snd_nxt
    <2>1. OldAck(t, p) = [u EXCEPT !.dup_acks = 0]
      BY <1>10, <1>12
    <2>2. Keeps(u, OldAck(t, p), E, V, W)
      BY <1>5, <2>1
    <2> QED
      BY <1>2, <2>2, KeepsOn
  <1>13. CASE p.data = <<>> /\ t.snd_una # t.snd_nxt /\ dup.dup_acks = 3
    <2>1. OldAck(t, p) = IF again.ok THEN [w EXCEPT !.recover = w.snd_nxt, !.ssthresh = half,
                                                    !.cwnd = half + 3 * w.mss]
                         ELSE closedown(w)
      BY <1>10, <1>13
    <2>2. dup.snd_una = t.snd_una /\ dup.snd_nxt = t.snd_nxt
      <3>1. DOMAIN t = Fields
        BY DEF Good
      <3> QED
        BY <1>1, <1>3, <1>6, <3>1 DEF Fields, Fresh
    <2>3. Good(dup, E, V, W)
      BY <1>7 DEF Keeps
    <2>4. Keeps(dup, w, E, V, W)
      BY <1>8, <1>13, <2>2, <2>3, AgainKeeps
    <2>5. Good(w, E, V, W)
      BY <2>4 DEF Keeps
    <2>6. Keeps(w, closedown(w), E, V, W)
      BY <2>5, CloseKeeps
    <2>7. ASSUME NEW y, y = [w EXCEPT !.recover = w.snd_nxt, !.ssthresh = half, !.cwnd = half + 3 * w.mss]
          PROVE  Keeps(w, y, E, V, W)
      BY <1>9, <2>5, <2>7, RecoverKeeps
    <2>8. Keeps(w, OldAck(t, p), E, V, W)
      BY <2>1, <2>6, <2>7
    <2>9. Keeps(t, w, E, V, W)
      BY <1>7, <2>4, KeepsOn
    <2> QED
      BY <2>8, <2>9, KeepsOn
  <1>14. CASE p.data = <<>> /\ t.snd_una # t.snd_nxt /\ dup.dup_acks # 3
    <2>1. OldAck(t, p) = dup \/ OldAck(t, p) = [dup EXCEPT !.cwnd = @ + t.mss]
      <3>1. dup.dup_acks > 3 => OldAck(t, p) = [dup EXCEPT !.cwnd = @ + t.mss]
        BY <1>10, <1>14
      <3>2. ~(dup.dup_acks > 3) => OldAck(t, p) = dup
        BY <1>10, <1>14
      <3> QED
        BY <3>1, <3>2
    <2>2. ASSUME NEW y, y = [dup EXCEPT !.cwnd = @ + t.mss] PROVE Keeps(t, y, E, V, W)
      <3>1. Good(dup, E, V, W) /\ DOMAIN dup = Fields /\ Numbers(dup) /\ Numbers(t)
        BY <1>7 DEF Keeps, Good
      <3>2. /\ DOMAIN y = Fields /\ y.out = dup.out /\ y.dup_acks = dup.dup_acks
            /\ y.mss = dup.mss /\ y.cwnd = dup.cwnd + t.mss /\ y.ssthresh = dup.ssthresh /\ y.mtu = dup.mtu
        BY <2>2, <3>1 DEF Fields, Fresh
      <3>3. Numbers(y)
        <4>1. dup.cwnd + t.mss \in Nat \ {0}
          BY <3>1 DEF Numbers
        <4> QED
          BY <3>1, <3>2, <4>1 DEF Numbers
      <3>4. SameSend(dup, y) /\ SameRecv(dup, y)
        BY <2>2, <3>1 DEF Fields, Fresh, SameSend, SameRecv
      <3>5. Keeps(dup, y, E, V, W)
        BY <3>1, <3>2, <3>3, <3>4, Frame
      <3> QED
        BY <1>7, <3>5, KeepsOn
    <2> QED
      BY <1>7, <2>1, <2>2
  <1> QED
    BY <1>11, <1>12, <1>13, <1>14

LEMMA AckedKeeps ==
    ASSUME NEW t, NEW E, NEW V, NEW W, Good(t, E, V, W), NEW p, PacketFor(p, t, E, V)
    PROVE  Keeps(t, Acked(t, p), E, V, W)
  <1>1. p.ack \in Nat /\ t.snd_una \in Nat /\ t.snd_nxt \in Nat
    BY PacketTypes DEF PacketFor, Good, Sends
  <1>2. CASE p.ack > t.snd_una /\ p.ack <= t.snd_nxt
    <2>1. Acked(t, p) = NewAck(t, p)
      BY <1>1, <1>2 DEF Acked
    <2> QED
      BY <1>2, <2>1, NewAckKeeps
  <1>3. CASE p.ack = t.snd_una
    <2>1. Acked(t, p) = OldAck(t, p)
      BY <1>1, <1>3 DEF Acked
    <2> QED
      BY <1>3, <2>1, OldAckKeeps
  <1>4. CASE ~(p.ack > t.snd_una /\ p.ack <= t.snd_nxt) /\ p.ack # t.snd_una
    <2>1. Acked(t, p) = t
      BY <1>4 DEF Acked
    <2> QED
      BY <2>1, GrowsItself
  <1> QED
    BY <1>2, <1>3, <1>4

-----------------------------------------------------------------------------
(* Receiving: data.                                                        *)

\* What a receiver can rely on.
LEMMA RecvPlace ==
    ASSUME NEW t, NEW V, Receives(t, V)
    PROVE  /\ t.rcv_nxt \in Nat /\ t.rcv_wnd \in Nat /\ Len(t.rbuf) \in Nat /\ t.rcv_nxt \in V
           /\ Len(t.rbuf) + t.rcv_wnd <= RBufLen /\ RBufLen \in Nat /\ SeqSpace \in Nat
           /\ Edge(t) = t.rcv_nxt + t.rcv_wnd /\ Edge(t) < SeqSpace
           /\ \A v \in V : v \in Nat /\ v < SeqSpace
  <1>1. /\ t.rcv_nxt \in V /\ t.rcv_wnd \in Nat /\ Len(t.rbuf) \in Nat
        /\ Len(t.rbuf) + t.rcv_wnd <= RBufLen
    BY DEF Receives
  <1>2. t.rcv_nxt \in Nat /\ Edge(t) = t.rcv_nxt + t.rcv_wnd
    BY EdgeType DEF Edge
  <1>3. V \subseteq Nat /\ \A v \in V : v + RBufLen < SeqSpace
    BY DEF Receives, InSpace
  <1>4. t.rcv_nxt + RBufLen < SeqSpace
    BY <1>1, <1>3
  <1>5. \A v \in V : v \in Nat
    BY <1>3, Zenon
  <1>6. \A v \in V : v < SeqSpace
    BY <1>3, <1>5, Sizes
  <1>7. Edge(t) < SeqSpace
    BY <1>1, <1>2, <1>4, Sizes
  <1> QED
    BY <1>1, <1>2, <1>5, <1>6, <1>7, Sizes

\* q is what is left of packet p: nothing, or all of p that is new.
Left(q, p, t) ==
    \/ Len(q.data) = 0
    \/ /\ q.seq \in Nat /\ q.seq >= t.rcv_nxt /\ q.data \in Seq(Int) /\ Len(q.data) > 0
       /\ q.seq + Len(q.data) = p.seq + Len(p.data)

\* A packet within the room is never cut at its end.
LEMMA FittedIs ==
    ASSUME NEW t, NEW V, Receives(t, V), NEW p \in Packet, p.seq + Len(p.data) <= Edge(t)
    PROVE  Left(Fitted(t, p), p, t)
  <1>1. PICK n, s \in Nat : n = Len(p.data) /\ s = p.seq
    BY PacketTypes
  <1>2. p.data \in Seq(Int)
    BY PacketTypes
  <1>3. PICK x, w \in Nat : x = t.rcv_nxt /\ w = t.rcv_wnd
    BY RecvPlace
  <1>4. SeqSpace \in Nat /\ s + n <= x + w /\ x + w < SeqSpace
    BY <1>1, <1>3, RecvPlace
  <1>5. PICK room \in Nat : room = Room(t) /\ w <= room
    <2>1. PICK b, R \in Nat : b = Len(t.rbuf) /\ R = RBufLen /\ b + w <= R
      BY <1>3, RecvPlace
    <2>2. R - b \in Nat /\ Room(t) = R - b /\ w <= R - b
      BY <2>1 DEF Room
    <2> QED
      BY <2>2
  <1>6. CASE s >= x
    <2>1. Minus(Plus(s, n), x) = (s + n) - x
      <3>1. s + n < SeqSpace /\ x <= s + n /\ s + n \in Nat
        BY <1>4, <1>6
      <3>2. Plus(s, n) = s + n
        BY <1>4, <3>1, PlusIs
      <3>3. Minus(s + n, x) = (s + n) - x
        BY <1>4, <3>1, MinusIs
      <3> QED
        BY <3>2, <3>3
    <2>2. ((s + n) - x) - room <= 0
      BY <1>4, <1>5
    <2>3. Minus(Plus(p.seq, Len(p.data)), t.rcv_nxt) - Room(t) <= 0
      BY <1>1, <1>3, <1>5, <2>1, <2>2
    <2>4. Fitted(t, p) = p
      BY <1>1, <1>3, <1>6, <2>3 DEF Fitted
    <2>5. Len(p.data) = 0 \/ Len(p.data) > 0
      BY <1>1
    <2> QED
      BY <1>1, <1>2, <1>3, <1>6, <2>4, <2>5 DEF Left
  <1>7. CASE ~(s >= x)
    <2>1. PICK old \in Nat : old = x - s /\ Minus(x, s) = old
      <3>1. s <= x /\ x < SeqSpace /\ x - s \in Nat
        BY <1>4, <1>7
      <3> QED
        BY <1>4, <3>1, MinusIs
    <2>2. CASE old < n
      <3>1. PICK d : d = SubSeq(p.data, old + 1, Len(p.data))
        OBVIOUS
      <3>2. PICK m \in Nat : m = n - old /\ m > 0 /\ x + m = s + n
        <4>1. n - old \in Nat /\ n - old > 0 /\ x + (n - old) = s + n
          BY <2>1, <2>2
        <4> QED
          BY <4>1
      <3>3. d \in Seq(Int) /\ Len(d) = m
        <4>1. old <= n /\ Len(p.data) = n /\ d = SubSeq(p.data, old + 1, n)
          BY <1>1, <2>2, <3>1
        <4> QED
          BY <1>2, <3>2, <4>1, RestIs
      <3>4. PICK new : new = [p EXCEPT !.seq = x, !.data = d]
        OBVIOUS
      <3>5. new.seq = x /\ new.data = d
        BY <3>4 DEF Packet
      <3>6. Minus(Plus(x, m), x) = m
        <4>1. x + m < SeqSpace /\ x + m \in Nat /\ x <= x + m
          BY <1>4, <3>2
        <4>2. Plus(x, m) = x + m
          BY <1>4, <4>1, PlusIs
        <4>3. Minus(x + m, x) = (x + m) - x
          BY <1>4, <4>1, MinusIs
        <4>4. (x + m) - x = m
          OBVIOUS
        <4> QED
          BY <4>2, <4>3, <4>4
      <3>7. m - room <= 0
        BY <1>4, <1>5, <3>2
      <3>8. PICK over : over = Minus(Plus(new.seq, Len(new.data)), t.rcv_nxt) - Room(t)
        OBVIOUS
      <3>9. over <= 0
        BY <1>3, <1>5, <3>3, <3>5, <3>6, <3>7, <3>8
      <3>10. new = [p EXCEPT !.seq = t.rcv_nxt, !.data = SubSeq(@, Minus(t.rcv_nxt, p.seq) + 1, Len(@))]
        BY <1>1, <1>3, <2>1, <3>1, <3>4
      <3>11. ~(p.seq >= t.rcv_nxt) /\ Minus(t.rcv_nxt, p.seq) < Len(p.data)
        BY <1>1, <1>3, <1>7, <2>1, <2>2
      <3>12. Fitted(t, p) = new
        BY <3>8, <3>9, <3>10, <3>11 DEF Fitted
      <3>13. x >= t.rcv_nxt
        BY <1>3
      <3> QED
        BY <1>1, <3>2, <3>3, <3>5, <3>12, <3>13 DEF Left
    <2>3. CASE ~(old < n)
      <3>1. PICK new : new = [p EXCEPT !.data = <<>>]
        OBVIOUS
      <3>2. new.seq = p.seq /\ new.data = <<>> /\ Len(new.data) = 0 /\ DOMAIN new = DOMAIN p
        BY <3>1 DEF Packet
      <3>3. PICK over : over = Minus(Plus(new.seq, Len(new.data)), t.rcv_nxt) - Room(t)
        OBVIOUS
      <3>4. over \in Int
        <4>1. over = Minus(Plus(s, 0), x) - room
          BY <1>1, <1>3, <1>5, <3>2, <3>3
        <4>2. Plus(s, 0) \in Int
          BY <1>4 DEF Plus
        <4>3. Minus(Plus(s, 0), x) \in Int
          BY <1>4, <4>2 DEF Minus
        <4> QED
          BY <4>1, <4>3
      <3>5. ~(p.seq >= t.rcv_nxt) /\ ~(Minus(t.rcv_nxt, p.seq) < Len(p.data))
        BY <1>1, <1>3, <1>7, <2>1, <2>3
      <3>6. Fitted(t, p) = IF over <= 0 THEN new
                           ELSE IF over < Len(new.data)
                           THEN [new EXCEPT !.data = SubSeq(@, 1, Len(@) - over)]
                           ELSE [new EXCEPT !.data = <<>>]
        BY <3>1, <3>3, <3>5 DEF Fitted
      <3>7. Fitted(t, p) \in {new, [new EXCEPT !.data = <<>>]}
        BY <3>2, <3>4, <3>6
      <3>8. "data" \in DOMAIN new
        BY <3>2 DEF Packet
      <3>9. Len(Fitted(t, p).data) = 0
        BY <3>2, <3>7, <3>8
      <3> QED
        BY <3>9 DEF Left
    <2> QED
      BY <2>2, <2>3
  <1> QED
    BY <1>6, <1>7

\* Bytes are written past m_rbuf.
LEMMA WriteOffsetKeeps ==
    ASSUME NEW t, NEW E, NEW V, NEW W, Good(t, E, V, W), NEW offset \in Int, NEW data \in Seq(Int),
           NEW u, u = WriteOffset(t, offset, data)
    PROVE  Keeps(t, u, E, V, W) /\ SameSend(t, u) /\ u.rcv_nxt = t.rcv_nxt /\ u.rcv_wnd = t.rcv_wnd
           /\ u.rlist = t.rlist /\ u.rbuf = t.rbuf
  <1>1. PICK at : at = {offset + i : i \in 0 .. Len(data) - 1}
    OBVIOUS
  <1>2. PICK old, new : old = t.ahead /\ new = [o \in DOMAIN old \cup at |-> IF o \in at THEN data[o - offset + 1] ELSE old[o]]
    OBVIOUS
  <1>3. DOMAIN t = Fields /\ Numbers(t) /\ Receives(t, V)
    BY DEF Good
  <1>4. u = [t EXCEPT !.ahead = new]
    BY <1>1, <1>2 DEF WriteOffset
  <1>5. Aheads(new)
    <2>1. DOMAIN old \subseteq Int /\ \A o \in DOMAIN old : old[o] \in Int
      BY <1>2, <1>3 DEF Receives, Aheads
    <2>2. \A o \in at : o \in Int /\ data[o - offset + 1] \in Int
      <3> SUFFICES ASSUME NEW i \in 0 .. Len(data) - 1
                   PROVE  offset + i \in Int /\ data[(offset + i) - offset + 1] \in Int
        BY <1>1
      <3>1. (offset + i) - offset + 1 = i + 1 /\ i + 1 \in 1 .. Len(data) /\ offset + i \in Int
        OBVIOUS
      <3>2. data[i + 1] \in Int
        BY <3>1
      <3> QED
        BY <3>1, <3>2
    <2>3. DOMAIN new = DOMAIN old \cup at
      BY <1>2
    <2>4. \A o \in DOMAIN new : new[o] \in Int /\ o \in Int
      BY <1>2, <2>1, <2>2, <2>3
    <2> QED
      BY <2>4 DEF Aheads
  <1>6. DOMAIN u = Fields /\ u.out = t.out /\ Numbers(u) /\ SameSend(t, u) /\ u.ahead = new
    BY <1>3, <1>4 DEF Fields, Fresh, Numbers, SameSend
  <1>7. u.rcv_nxt = t.rcv_nxt /\ u.rcv_wnd = t.rcv_wnd /\ u.rlist = t.rlist /\ u.rbuf = t.rbuf
    BY <1>3, <1>4 DEF Fields, Fresh
  <1>8. Receives(u, V) /\ Edge(u) = Edge(t)
    <2>1. Saves(u, V) /\ Edge(u) = Edge(t)
      BY <1>3, <1>7 DEF Receives, Saves, Edge
    <2> QED
      BY <1>3, <1>5, <1>6, <1>7, <2>1 DEF Receives
  <1>9. Edge(t) <= Edge(u)
    <2>1. Edge(t) \in Nat
      BY <1>3, EdgeType
    <2> QED
      BY <1>8, <2>1
  <1> QED
    BY <1>6, <1>7, <1>8, <1>9, RecvFrame

\* n more bytes are readable; the window ends where it did.
LEMMA ConsumeKeeps ==
    ASSUME NEW t, NEW E, NEW V, NEW W, Good(t, E, V, W), NEW n \in Nat, t.rcv_nxt + n \in V,
           n <= t.rcv_wnd, NEW u, u = Consume(t, n)
    PROVE  Keeps(t, u, E, V, W) /\ SameSend(t, u) /\ Edge(u) = Edge(t) /\ u.rcv_nxt = t.rcv_nxt + n
           /\ u.rlist = t.rlist
  <1>1. PICK old, new : old = t.ahead /\ new = [o \in {x - n : x \in {y \in DOMAIN old : y >= n}} |-> old[o + n]]
    OBVIOUS
  <1>2. PICK b : b = [i \in 1 .. n |-> IF i - 1 \in DOMAIN old THEN old[i - 1] ELSE Junk]
    OBVIOUS
  <1>3. DOMAIN t = Fields /\ Numbers(t) /\ Receives(t, V)
    BY DEF Good
  <1>4. PICK x, w, l \in Nat : x = t.rcv_nxt /\ w = t.rcv_wnd /\ l = Len(t.rbuf)
    BY <1>3, RecvPlace
  <1>5. /\ n <= w /\ x + w < SeqSpace /\ SeqSpace \in Nat /\ l + w <= RBufLen /\ RBufLen \in Nat
        /\ Edge(t) = x + w
    BY <1>3, <1>4, RecvPlace
  <1>6. Plus(x, n) = x + n
    <2>1. x + n < SeqSpace
      BY <1>5
    <2> QED
      BY <1>5, <2>1, PlusIs
  <1>7. PICK z \in Nat : z = w - n /\ Minus(w, n) = z
    <2>1. w < SeqSpace /\ w - n \in Nat
      BY <1>5
    <2> QED
      BY <1>5, <2>1, MinusIs
  <1>8. u = [t EXCEPT !.rbuf = @ \o b, !.ahead = new, !.rcv_nxt = x + n, !.rcv_wnd = z]
    BY <1>1, <1>2, <1>4, <1>6, <1>7 DEF Consume
  <1>9. DOMAIN old \subseteq Int /\ \A o \in DOMAIN old : old[o] \in Int
    BY <1>1, <1>3 DEF Receives, Aheads
  <1>10. Aheads(new)
    <2>1. \A o \in DOMAIN new : o \in Int /\ o + n \in DOMAIN old
      <3> SUFFICES ASSUME NEW y \in DOMAIN old PROVE y - n \in Int /\ (y - n) + n \in DOMAIN old
        BY <1>1
      <3>1. y \in Int
        BY <1>9
      <3> QED
        BY <3>1
    <2>2. \A o \in DOMAIN new : new[o] = old[o + n]
      BY <1>1
    <2> QED
      BY <1>9, <2>1, <2>2 DEF Aheads
  <1>11. b \in Seq(Int) /\ Len(b) = n
    <2>1. \A i \in 1 .. n : (IF i - 1 \in DOMAIN old THEN old[i - 1] ELSE Junk) \in Int
      BY <1>9 DEF Junk
    <2>2. b \in [1 .. n -> Int]
      BY <1>2, <2>1
    <2> QED
      BY <2>2
  <1>12. DOMAIN u = Fields /\ u.out = t.out /\ Numbers(u) /\ SameSend(t, u) /\ u.ahead = new
    BY <1>3, <1>8 DEF Fields, Fresh, Numbers, SameSend
  <1>13. u.rcv_nxt = x + n /\ u.rcv_wnd = z /\ u.rlist = t.rlist /\ u.rbuf = t.rbuf \o b
    BY <1>3, <1>8 DEF Fields, Fresh
  <1>14. Edge(u) = Edge(t)
    <2>1. (x + n) + z = x + w
      BY <1>5, <1>7
    <2> QED
      BY <1>5, <1>13, <2>1 DEF Edge
  <1>15. u.rbuf \in Seq(Int) /\ Len(u.rbuf) + u.rcv_wnd <= RBufLen
    <2>1. t.rbuf \in Seq(Int)
      BY <1>3 DEF Receives
    <2>2. PICK r : r = t.rbuf
      OBVIOUS
    <2>3. r \in Seq(Int) /\ Len(r) = l /\ u.rbuf = r \o b
      BY <1>4, <1>13, <2>1, <2>2
    <2>4. r \o b \in Seq(Int) /\ Len(r \o b) = l + n
      BY <1>11, <2>3, ConcatFacts DEF Joins
    <2>5. u.rbuf \in Seq(Int) /\ Len(u.rbuf) = l + n
      BY <2>3, <2>4
    <2> QED
      BY <1>5, <1>7, <1>13, <2>5
  <1>16. Receives(u, V)
    <2>1. Saves(u, V)
      BY <1>3, <1>13, <1>14 DEF Receives, Saves
    <2>2. u.rcv_nxt \in V /\ u.rcv_wnd \in Nat
      BY <1>4, <1>13
    <2> QED
      BY <1>3, <1>10, <1>12, <1>14, <1>15, <2>1, <2>2 DEF Receives
  <1>17. Edge(t) <= Edge(u)
    BY <1>5, <1>14
  <1> QED
    BY <1>4, <1>12, <1>13, <1>14, <1>16, <1>17, RecvFrame

\* A saved segment is passed on or consumed.
LEMMA ReachKeeps ==
    ASSUME NEW t, NEW E, NEW V, NEW W, Good(t, E, V, W), NEW seg \in Saved,
           EndOf(seg) \in V, EndOf(seg) <= Edge(t), NEW u, u = Reach(t, seg)
    PROVE  Keeps(t, u, E, V, W)
  <1>1. DOMAIN t = Fields /\ Numbers(t) /\ Receives(t, V)
    BY DEF Good
  <1>2. seg.seq \in Nat /\ seg.len \in Nat /\ EndOf(seg) = seg.seq + seg.len
    BY DEF Saved, EndOf
  <1>3. PICK end \in Nat : end = EndOf(seg) /\ Plus(seg.seq, seg.len) = end
    <2>1. EndOf(seg) \in Nat /\ EndOf(seg) < SeqSpace /\ SeqSpace \in Nat
      BY <1>1, RecvPlace
    <2> QED
      BY <1>2, <2>1, PlusIs
  <1>4. PICK x, w \in Nat : x = t.rcv_nxt /\ w = t.rcv_wnd /\ Edge(t) = x + w
    BY <1>1, RecvPlace
  <1>5. CASE seg.seq > x
    <2>1. u = [t EXCEPT !.rlist = Append(@, seg)]
      BY <1>4, <1>5 DEF Reach
    <2>2. DOMAIN u = Fields /\ u.out = t.out /\ Numbers(u) /\ SameSend(t, u)
      BY <1>1, <2>1 DEF Fields, Fresh, Numbers, SameSend
    <2>3. /\ u.rcv_nxt = t.rcv_nxt /\ u.rcv_wnd = t.rcv_wnd /\ u.rbuf = t.rbuf /\ u.ahead = t.ahead
          /\ u.rlist = Append(t.rlist, seg)
      BY <1>1, <2>1 DEF Fields, Fresh
    <2>4. Edge(u) = Edge(t) /\ Edge(t) <= Edge(u)
      BY <1>4, <2>3 DEF Edge
    <2>5. Saves(u, V)
      <3>1. PICK q, l : q = t.rlist /\ l = Len(q)
        OBVIOUS
      <3>2. q \in Seq(Saved) /\ l \in Nat /\ \A i \in 1 .. l : EndOf(q[i]) \in V /\ EndOf(q[i]) <= Edge(t)
        BY <1>1, <3>1 DEF Receives, Saves
      <3>3. PICK r : r = Append(q, seg)
        OBVIOUS
      <3>4. r \in Seq(Saved) /\ Len(r) = l + 1 /\ r[l + 1] = seg /\ \A i \in 1 .. l : r[i] = q[i]
        BY <3>1, <3>2, <3>3
      <3>5. \A i \in 1 .. l + 1 : i \in 1 .. l \/ i = l + 1
        BY <3>2
      <3>6. \A i \in 1 .. l + 1 : EndOf(r[i]) \in V /\ EndOf(r[i]) <= Edge(t)
        BY <3>2, <3>4, <3>5
      <3> QED
        BY <2>3, <2>4, <3>1, <3>3, <3>4, <3>6 DEF Saves
    <2>6. Receives(u, V)
      BY <1>1, <2>3, <2>4, <2>5 DEF Receives
    <2> QED
      BY <2>2, <2>4, <2>6, RecvFrame
  <1>6. CASE ~(seg.seq > x) /\ end > x
    <2>1. PICK n \in Nat : n = end - x
      <3>1. end - x \in Nat
        BY <1>6
      <3> QED
        BY <3>1
    <2>2. x + n = end /\ n <= w
      BY <1>3, <1>4, <2>1
    <2>3. u = Consume(t, n)
      BY <1>3, <1>4, <1>6, <2>1 DEF Reach
    <2>4. t.rcv_nxt + n \in V /\ n <= t.rcv_wnd
      BY <1>3, <1>4, <2>2
    <2> QED
      BY <2>3, <2>4, ConsumeKeeps
  <1>7. CASE ~(seg.seq > x) /\ ~(end > x)
    <2>1. u = t
      BY <1>3, <1>4, <1>7 DEF Reach
    <2> QED
      BY <2>1, GrowsItself
  <1> QED
    BY <1>5, <1>6, <1>7

\* f[i] is the state of the loop over saved segments q, begun in s, after i of them.
ReachedBy(f, s, q, m) == f = [i \in 0 .. m |-> IF i = 0 THEN s ELSE Reach(f[i - 1], q[i])]

LEMMA ReachedExists ==
    ASSUME NEW s, NEW q, NEW l \in Nat
    PROVE  \E f : ReachedBy(f, s, q, l)
  <1> DEFINE S == {m \in 0 .. l : \E f : ReachedBy(f, s, q, m)}
  <1>1. 0 \in S
    <2>1. ReachedBy([i \in 0 .. 0 |-> s], s, q, 0)
      BY DEF ReachedBy
    <2> QED
      BY <2>1
  <1>2. ASSUME NEW m \in 0 .. l, m \in S, m < l PROVE m + 1 \in S
    <2>1. PICK f : ReachedBy(f, s, q, m)
      BY <1>2
    <2>2. PICK g : g = [i \in 0 .. m + 1 |-> IF i <= m THEN f[i] ELSE Reach(f[m], q[m + 1])]
      OBVIOUS
    <2>3. \A i \in 0 .. m : f[i] = IF i = 0 THEN s ELSE Reach(f[i - 1], q[i])
      BY <2>1 DEF ReachedBy
    <2>4. \A i \in 0 .. m : g[i] = f[i]
      BY <2>2
    <2>5. g[m + 1] = Reach(f[m], q[m + 1])
      BY <2>2
    <2>6. ASSUME NEW i \in 0 .. m + 1 PROVE g[i] = IF i = 0 THEN s ELSE Reach(g[i - 1], q[i])
      <3>1. CASE i = 0
        BY <2>3, <2>4, <3>1
      <3>2. CASE i # 0 /\ i <= m
        <4>1. i \in 0 .. m /\ i - 1 \in 0 .. m
          BY <3>2
        <4>2. f[i] = Reach(f[i - 1], q[i])
          BY <2>3, <3>2, <4>1
        <4> QED
          BY <2>4, <3>2, <4>1, <4>2
      <3>3. CASE i = m + 1
        <4>1. i - 1 = m /\ m \in 0 .. m /\ i # 0
          BY <3>3
        <4> QED
          BY <2>4, <2>5, <3>3, <4>1
      <3> QED
        BY <3>1, <3>2, <3>3
    <2>7. ReachedBy(g, s, q, m + 1)
      <3>1. g = [i \in 0 .. m + 1 |-> g[i]]
        BY <2>2
      <3> QED
        BY <2>6, <3>1 DEF ReachedBy
    <2> QED
      BY <1>2, <2>7
  <1>3. 0 .. l \subseteq S
    <2> HIDE DEF S
    <2> QED
      BY <1>1, <1>2, UpTo
  <1> QED
    BY <1>3

\* The saved segments that the stream has reached are consumed.
LEMMA SavedKeeps ==
    ASSUME NEW t, NEW E, NEW V, NEW W, Good(t, E, V, W)
    PROVE  Keeps(t, Recover(t), E, V, W)
  <1>1. DOMAIN t = Fields /\ Numbers(t) /\ Receives(t, V)
    BY DEF Good
  <1>2. PICK s : s = [t EXCEPT !.rlist = <<>>]
    OBVIOUS
  <1>3. DOMAIN s = Fields /\ s.out = t.out /\ Numbers(s) /\ SameSend(t, s)
    BY <1>1, <1>2 DEF Fields, Fresh, Numbers, SameSend
  <1>4. /\ s.rcv_nxt = t.rcv_nxt /\ s.rcv_wnd = t.rcv_wnd /\ s.rbuf = t.rbuf /\ s.ahead = t.ahead
        /\ s.rlist = <<>>
    BY <1>1, <1>2 DEF Fields, Fresh
  <1>5. Edge(s) = Edge(t) /\ Edge(t) <= Edge(s)
    <2>1. Edge(t) \in Nat
      BY <1>1, EdgeType
    <2> QED
      BY <1>4, <2>1 DEF Edge
  <1>6. Saves(s, V)
    BY <1>4 DEF Saves
  <1>7. Receives(s, V)
    BY <1>1, <1>4, <1>5, <1>6 DEF Receives
  <1>8. Keeps(t, s, E, V, W)
    BY <1>3, <1>5, <1>7, RecvFrame
  <1>9. PICK q : q = t.rlist
    OBVIOUS
  <1>10. PICK l \in Nat : l = Len(q)
    BY <1>1, <1>9 DEF Receives, Saves
  <1>11. \A i \in 1 .. l : q[i] \in Saved /\ EndOf(q[i]) \in V /\ EndOf(q[i]) <= Edge(t)
    BY <1>1, <1>9, <1>10 DEF Receives, Saves
  <1>12. PICK f : ReachedBy(f, s, q, l) /\ Recover(t) = f[l]
    <2>1. \E f : ReachedBy(f, s, q, l)
      BY ReachedExists
    <2>2. ReachedBy(CHOOSE f : ReachedBy(f, s, q, l), s, q, l)
      BY <2>1, Zenon
    <2>3. Recover(t) = (CHOOSE f : ReachedBy(f, s, q, l))[l]
      BY <1>2, <1>9, <1>10 DEF Recover, ReachedBy
    <2> QED
      BY <2>2, <2>3
  <1>13. f[0] = s /\ \A i \in 1 .. l : f[i] = Reach(f[i - 1], q[i])
    <2>1. \A i \in 0 .. l : f[i] = IF i = 0 THEN s ELSE Reach(f[i - 1], q[i])
      BY <1>12 DEF ReachedBy
    <2>2. 0 \in 0 .. l /\ \A i \in 1 .. l : i \in 0 .. l /\ i # 0
      OBVIOUS
    <2> QED
      BY <2>1, <2>2
  <1> DEFINE S == {i \in 0 .. l : Keeps(t, f[i], E, V, W)}
  <1>14. 0 \in S
    BY <1>8, <1>13
  <1>15. ASSUME NEW i \in 0 .. l, i \in S, i < l PROVE i + 1 \in S
    <2>1. i + 1 \in 1 .. l /\ i + 1 \in 0 .. l /\ f[i + 1] = Reach(f[i], q[i + 1])
      <3>1. i + 1 \in 1 .. l /\ (i + 1) - 1 = i /\ i + 1 \in 0 .. l
        BY <1>15
      <3> QED
        BY <1>13, <3>1
    <2>2. Keeps(t, f[i], E, V, W)
      BY <1>15
    <2>3. PICK seg : seg = q[i + 1]
      OBVIOUS
    <2>4. seg \in Saved /\ EndOf(seg) \in V /\ EndOf(seg) <= Edge(t)
      BY <1>11, <2>1, <2>3
    <2>5. EndOf(seg) <= Edge(f[i])
      <3>1. EndOf(seg) \in Nat
        BY <1>1, <2>4, RecvPlace
      <3>2. Edge(t) \in Nat /\ Edge(f[i]) \in Nat /\ Edge(t) <= Edge(f[i])
        BY <1>1, <2>2, EdgeType DEF Keeps, Good, Grows
      <3> QED
        BY <2>4, <3>1, <3>2
    <2>6. Keeps(f[i], f[i + 1], E, V, W)
      BY <2>1, <2>2, <2>3, <2>4, <2>5, ReachKeeps DEF Keeps
    <2>7. Keeps(t, f[i + 1], E, V, W)
      BY <2>2, <2>6, KeepsOn
    <2> QED
      BY <2>1, <2>7
  <1>16. 0 .. l \subseteq S
    <2> HIDE DEF S
    <2> QED
      BY <1>14, <1>15, UpTo
  <1> QED
    BY <1>12, <1>16

\* The first place in q that is not before number x, 0 if there is none.
FirstFrom(q, x) == SelectInSeq(q, LAMBDA seg : seg.seq >= x)

LEMMA PlaceIs ==
    ASSUME NEW q, Len(q) \in Nat, NEW x
    PROVE  FirstFrom(q, x) \in 0 .. Len(q)
  <1> DEFINE I == {i \in 1 .. Len(q) : q[i].seq >= x}
  <1>1. I \in SUBSET Nat /\ I \subseteq 1 .. Len(q)
    OBVIOUS
  <1>2. CASE I # {}
    <2>1. Min(I) \in I
      <3> HIDE DEF I
      <3>1. \E z \in I : \A y \in I : z <= y
        BY <1>1, <1>2, Least
      <3>2. (CHOOSE z \in I : \A y \in I : z <= y) \in I
        BY <3>1
      <3> QED
        BY <3>2 DEF Min
    <2>2. FirstFrom(q, x) = Min(I)
      BY <1>2 DEF FirstFrom, SelectInSeq
    <2> QED
      BY <1>1, <2>1, <2>2
  <1>3. CASE I = {}
    <2>1. FirstFrom(q, x) = 0
      BY <1>3 DEF FirstFrom, SelectInSeq
    <2> QED
      BY <2>1
  <1> QED
    BY <1>2, <1>3

\* Sequence r holds what q holds and e.
Inserts(q, e, r) ==
    \A i \in 1 .. Len(r) : r[i] = e \/ \E j \in 1 .. Len(q) : r[i] = q[j]

LEMMA InsertIs ==
    ASSUME NEW X, NEW q \in Seq(X), NEW e \in X, NEW i \in 1 .. Len(q) + 1, NEW r, r = InsertAt(q, i, e)
    PROVE  r \in Seq(X) /\ Inserts(q, e, r)
  <1>1. PICK l \in Nat : l = Len(q) /\ i \in 1 .. l + 1
    OBVIOUS
  <1>2. PICK a, b, c : a = SubSeq(q, 1, i - 1) /\ b = <<e>> /\ c = SubSeq(q, i, l)
    OBVIOUS
  <1>3. PICK m, n \in Nat : m = i - 1 /\ n = (l + 1) - i
    <2>1. i - 1 \in Nat /\ (l + 1) - i \in Nat
      BY <1>1
    <2> QED
      BY <2>1
  <1>4. a \in Seq(X) /\ Len(a) = m /\ \A k \in 1 .. m : a[k] = q[k]
    BY <1>1, <1>2, <1>3
  <1>5. b \in Seq(X) /\ Len(b) = 1 /\ b[1] = e
    BY <1>2
  <1>6. c \in Seq(X) /\ Len(c) = n /\ \A k \in 1 .. n : c[k] = q[m + k]
    <2>1. \A k \in 1 .. n : i + k - 1 = m + k
      BY <1>1, <1>3
    <2> QED
      BY <1>1, <1>2, <1>3, <2>1
  <1>7. PICK d : d = a \o b
    OBVIOUS
  <1>8. d \in Seq(X) /\ Joins(d, a, b, m, 1)
    BY <1>4, <1>5, <1>7, ConcatFacts
  <1>9. Len(d) = i /\ d[i] = e /\ \A k \in 1 .. m : d[k] = q[k]
    BY <1>3, <1>4, <1>5, <1>8 DEF Joins
  <1>10. r = d \o c
    BY <1>1, <1>2, <1>7 DEF InsertAt
  <1>11. r \in Seq(X) /\ Joins(r, d, c, i, n)
    BY <1>6, <1>8, <1>9, <1>10, ConcatFacts
  <1>12. ASSUME NEW k \in 1 .. l + 1 PROVE r[k] = e \/ \E j \in 1 .. l : r[k] = q[j]
    <2>1. CASE k \in 1 .. m
      <3>1. k \in 1 .. i /\ k \in 1 .. l
        BY <1>1, <1>3, <2>1
      <3>2. r[k] = q[k]
        BY <1>9, <1>11, <2>1, <3>1 DEF Joins
      <3> QED
        BY <3>1, <3>2
    <2>2. CASE k = i
      <3>1. i \in 1 .. i
        BY <1>1
      <3> QED
        BY <1>9, <1>11, <2>2, <3>1 DEF Joins
    <2>3. CASE k > i
      <3>1. PICK j \in 1 .. n : i + j = k /\ m + j \in 1 .. l
        <4>1. k - i \in 1 .. n /\ i + (k - i) = k /\ m + (k - i) \in 1 .. l
          BY <1>1, <1>3, <2>3
        <4> QED
          BY <4>1
      <3>2. r[k] = q[m + j]
        BY <1>6, <1>11, <3>1 DEF Joins
      <3> QED
        BY <3>1, <3>2
    <2>4. k \in 1 .. m \/ k = i \/ k > i
      BY <1>1, <1>3
    <2> QED
      BY <2>1, <2>2, <2>3, <2>4
  <1>13. Len(r) = l + 1
    BY <1>1, <1>3, <1>11 DEF Joins
  <1> QED
    BY <1>1, <1>11, <1>12, <1>13 DEF Inserts

\* A segment that came too early is saved.
LEMMA SaveKeeps ==
    ASSUME NEW t, NEW E, NEW V, NEW W, Good(t, E, V, W), NEW p, p.seq \in Nat, p.data \in Seq(Int),
           p.seq + Len(p.data) \in V, p.seq + Len(p.data) <= Edge(t), NEW u, u = Save(t, p)
    PROVE  Keeps(t, u, E, V, W)
  <1>1. PICK o : o = Minus(p.seq, t.rcv_nxt)
    OBVIOUS
  <1>2. o \in Int
    <2>1. PICK a, b, c \in Nat : a = p.seq /\ b = t.rcv_nxt /\ c = SeqSpace /\ c > 0
      <3>1. t.rcv_nxt \in Nat /\ SeqSpace \in Nat /\ t.rcv_nxt \in V /\ \A v \in V : v < SeqSpace
        BY RecvPlace DEF Good
      <3>2. SeqSpace > 0
        BY <3>1
      <3> QED
        BY <3>1, <3>2
    <2> QED
      BY <1>1, <2>1 DEF Minus
  <1>3. PICK w : w = WriteOffset(t, o, p.data)
    OBVIOUS
  <1>4. Keeps(t, w, E, V, W) /\ w.rcv_nxt = t.rcv_nxt /\ w.rcv_wnd = t.rcv_wnd /\ w.rlist = t.rlist
    BY <1>2, <1>3, WriteOffsetKeeps
  <1>5. DOMAIN w = Fields /\ Numbers(w) /\ Receives(w, V) /\ Good(w, E, V, W)
    BY <1>4 DEF Keeps, Good
  <1>6. PICK q : q = w.rlist
    OBVIOUS
  <1>7. PICK l \in Nat : l = Len(q)
    BY <1>5, <1>6 DEF Receives, Saves
  <1>8. PICK next : next = FirstFrom(q, p.seq)
    OBVIOUS
  <1>9. next \in 0 .. l
    BY <1>7, <1>8, PlaceIs
  <1>10. PICK place : place = IF next = 0 THEN l + 1 ELSE next
    OBVIOUS
  <1>11. place \in 1 .. l + 1
    BY <1>9, <1>10
  <1>12. PICK e : e = [seq |-> p.seq, len |-> Len(p.data)]
    OBVIOUS
  <1>13. e \in Saved /\ EndOf(e) = p.seq + Len(p.data)
    BY <1>12 DEF Saved, EndOf
  <1>14. PICK r : r = InsertAt(q, place, e)
    OBVIOUS
  <1>15. u = [w EXCEPT !.rlist = r]
    <2>1. u = [w EXCEPT !.rlist = InsertAt(@, place, e)]
      BY <1>1, <1>3, <1>4, <1>6, <1>7, <1>8, <1>10, <1>12 DEF Save, FirstFrom
    <2> QED
      BY <1>6, <1>14, <2>1
  <1>16. DOMAIN u = Fields /\ u.out = w.out /\ Numbers(u) /\ SameSend(w, u)
    BY <1>5, <1>15 DEF Fields, Fresh, Numbers, SameSend
  <1>17. /\ u.rcv_nxt = w.rcv_nxt /\ u.rcv_wnd = w.rcv_wnd /\ u.rbuf = w.rbuf /\ u.ahead = w.ahead
         /\ u.rlist = r
    BY <1>5, <1>15 DEF Fields, Fresh
  <1>18. Edge(u) = Edge(w) /\ Edge(w) = Edge(t) /\ Edge(w) <= Edge(u)
    <2>1. Edge(w) \in Nat
      BY <1>5, EdgeType
    <2> QED
      BY <1>4, <1>17, <2>1 DEF Edge
  <1>19. Saves(u, V)
    <2>1. q \in Seq(Saved) /\ \A i \in 1 .. l : EndOf(q[i]) \in V /\ EndOf(q[i]) <= Edge(u)
      BY <1>5, <1>6, <1>7, <1>18 DEF Receives, Saves
    <2>2. r \in Seq(Saved) /\ Inserts(q, e, r)
      BY <1>7, <1>11, <1>13, <1>14, <2>1, InsertIs
    <2>3. EndOf(e) \in V /\ EndOf(e) <= Edge(u)
      BY <1>13, <1>18
    <2>4. \A i \in 1 .. Len(r) : EndOf(r[i]) \in V /\ EndOf(r[i]) <= Edge(u)
      BY <1>7, <2>1, <2>2, <2>3, Zenon DEF Inserts
    <2> QED
      BY <1>17, <2>2, <2>4 DEF Saves
  <1>20. Receives(u, V)
    BY <1>5, <1>17, <1>18, <1>19 DEF Receives
  <1>21. Keeps(w, u, E, V, W)
    BY <1>5, <1>16, <1>18, <1>20, RecvFrame
  <1> QED
    BY <1>4, <1>21, KeepsOn

\* Data a packet brings is skipped, consumed or saved.
LEMMA ReceivedKeeps ==
    ASSUME NEW t, NEW E, NEW V, NEW W, Good(t, E, V, W), NEW p, PacketFor(p, t, E, V)
    PROVE  Keeps(t, Received(t, p), E, V, W)
  <1>1. DOMAIN t = Fields /\ Numbers(t) /\ Receives(t, V)
    BY DEF Good
  <1>2. PICK q : q = Fitted(t, p)
    OBVIOUS
  <1>3. Left(q, p, t)
    BY <1>1, <1>2, FittedIs DEF PacketFor
  <1>4. CASE Len(q.data) = 0
    <2>1. Received(t, p) = t
      BY <1>2, <1>4 DEF Received
    <2> QED
      BY <2>1, GrowsItself
  <1>5. CASE Len(q.data) # 0
    <2>1. /\ q.seq \in Nat /\ q.seq >= t.rcv_nxt /\ q.data \in Seq(Int) /\ Len(q.data) > 0
          /\ q.seq + Len(q.data) = p.seq + Len(p.data)
      BY <1>3, <1>5 DEF Left
    <2>2. PICK n \in Nat : n = Len(q.data) /\ n > 0
      BY <2>1
    <2>3. q.seq + n \in V /\ q.seq + n <= Edge(t)
      <3>1. p \in Packet /\ p.seq \in Nat /\ Len(p.data) \in Nat
        BY PacketTypes DEF PacketFor
      <3>2. p.seq + Len(p.data) <= Edge(t) /\ (Len(p.data) > 0 => p.seq + Len(p.data) \in V)
        BY DEF PacketFor
      <3>3. CASE Len(p.data) > 0
        BY <2>1, <2>2, <3>2, <3>3
      <3>4. CASE Len(p.data) = 0
        <4>1. Len(q.data) = 0
          <5>1. Fitted(t, p).data \in {p.data, <<>>}
            BY <3>1, <3>4 DEF Fitted
          <5> QED
            BY <1>2, <3>4, <5>1
        <4> QED
          BY <1>5, <4>1
      <3> QED
        BY <3>1, <3>3, <3>4
    <2>4. CASE q.ctl \/ t.shutdown
      <3>1. CASE q.seq = t.rcv_nxt
        <4>1. Received(t, p) = [t EXCEPT !.rcv_nxt = Plus(@, n)]
          BY <1>2, <2>2, <2>4, <3>1 DEF Received
        <4>2. PICK x, w \in Nat : x = t.rcv_nxt /\ w = t.rcv_wnd
          BY <1>1, RecvPlace
        <4>3. Plus(x, n) = x + n /\ x + n \in V
          <5>1. x + n \in V /\ x + n < SeqSpace /\ SeqSpace \in Nat
            BY <1>1, <2>3, <3>1, <4>2, RecvPlace
          <5> QED
            BY <5>1, PlusIs
        <4>4. PICK u : u = [t EXCEPT !.rcv_nxt = x + n]
          OBVIOUS
        <4>5. DOMAIN u = Fields /\ u.out = t.out /\ Numbers(u) /\ SameSend(t, u)
          BY <1>1, <4>4 DEF Fields, Fresh, Numbers, SameSend
        <4>6. /\ u.rcv_nxt = x + n /\ u.rcv_wnd = t.rcv_wnd /\ u.rbuf = t.rbuf /\ u.ahead = t.ahead
              /\ u.rlist = t.rlist
          BY <1>1, <4>4 DEF Fields, Fresh
        <4>7. PICK d, e \in Nat : d = Edge(t) /\ e = Edge(u) /\ d = x + w /\ e = x + n + w /\ d <= e
          BY <4>2, <4>6 DEF Edge
        <4>8. Saves(u, V)
          <5>1. t.rlist \in Seq(Saved) /\ \A i \in 1 .. Len(t.rlist) : EndOf(t.rlist[i]) \in V /\ EndOf(t.rlist[i]) <= d
            BY <1>1, <4>7 DEF Receives, Saves
          <5>2. \A v \in V : v \in Nat
            BY <1>1, RecvPlace
          <5>3. \A v \in V : v <= d => v <= e
            BY <4>7, <5>2
          <5> QED
            BY <4>6, <4>7, <5>1, <5>3 DEF Saves
        <4>9. RBufLen <= d /\ d \in Nat
          BY <1>1, <4>7 DEF Receives
        <4>10. RBufLen <= Edge(u)
          BY <4>7, <4>9, Sizes
        <4>11. Receives(u, V)
          BY <1>1, <4>3, <4>6, <4>8, <4>10 DEF Receives
        <4>12. Received(t, p) = u
          BY <4>1, <4>2, <4>3, <4>4
        <4>13. Edge(t) <= Edge(u)
          BY <4>7
        <4> QED
          BY <4>5, <4>11, <4>12, <4>13, RecvFrame
      <3>2. CASE q.seq # t.rcv_nxt
        <4>1. Received(t, p) = t
          BY <1>2, <2>2, <2>4, <3>2 DEF Received
        <4> QED
          BY <4>1, GrowsItself
      <3> QED
        BY <3>1, <3>2
    <2>5. CASE ~(q.ctl \/ t.shutdown) /\ q.seq = t.rcv_nxt
      <3>1. PICK w : w = WriteOffset(t, 0, q.data)
        OBVIOUS
      <3>2. PICK u : u = Consume(w, n)
        OBVIOUS
      <3>3. Received(t, p) = Recover(u)
        BY <1>2, <2>2, <2>5, <3>1, <3>2 DEF Received
      <3>4. Keeps(t, w, E, V, W) /\ w.rcv_nxt = t.rcv_nxt /\ w.rcv_wnd = t.rcv_wnd
        BY <2>1, <3>1, WriteOffsetKeeps
      <3>5. w.rcv_nxt + n \in V /\ n <= w.rcv_wnd
        <4>1. PICK x, y \in Nat : x = t.rcv_nxt /\ y = t.rcv_wnd /\ Edge(t) = x + y
          BY <1>1, RecvPlace
        <4>2. x + n \in V /\ x + n <= x + y
          BY <2>3, <2>5, <4>1
        <4> QED
          BY <3>4, <4>1, <4>2
      <3>6. Keeps(w, u, E, V, W)
        BY <3>2, <3>4, <3>5, ConsumeKeeps DEF Keeps
      <3>7. Keeps(t, u, E, V, W)
        BY <3>4, <3>6, KeepsOn
      <3>8. Keeps(u, Recover(u), E, V, W)
        BY <3>7, SavedKeeps DEF Keeps
      <3> QED
        BY <3>3, <3>7, <3>8, KeepsOn
    <2>6. CASE ~(q.ctl \/ t.shutdown) /\ q.seq # t.rcv_nxt
      <3>1. Received(t, p) = Save(t, q)
        BY <1>2, <2>2, <2>6 DEF Received
      <3> QED
        BY <2>1, <2>2, <2>3, <3>1, SaveKeeps
    <2> QED
      BY <2>4, <2>5, <2>6
  <1> QED
    BY <1>4, <1>5

\* A packet is processed.
LEMMA ProcessKeeps ==
    ASSUME NEW t, NEW E, NEW V, NEW W, Good(t, E, V, W), ConnectLen <= W, NEW p, PacketFor(p, t, E, V)
    PROVE  Keeps(t, process(t, p), E, V, W)
  <1>1. PICK a : a = Connected(t, p)
    OBVIOUS
  <1>2. PICK b : b = Acked(a, p)
    OBVIOUS
  <1>3. PICK c : c = Confirmed(b, p)
    OBVIOUS
  <1>4. PICK d : d = Refilled(c)
    OBVIOUS
  <1>5. PICK e : e = Received(d, p)
    OBVIOUS
  <1>6. PICK f : f = attemptSend(e, AckFor(d, p, e))
    OBVIOUS
  <1>7. PICK g : g = Readable(f, Len(e.rbuf) > Len(d.rbuf))
    OBVIOUS
  <1>8. Keeps(t, a, E, V, W) /\ Good(a, E, V, W)
    BY <1>1, ConnectedKeeps DEF Keeps
  <1>9. PacketFor(p, a, E, V)
    BY <1>8, PacketForStays
  <1>10. Keeps(a, b, E, V, W) /\ Good(b, E, V, W)
    BY <1>2, <1>8, <1>9, AckedKeeps DEF Keeps
  <1>11. Keeps(t, b, E, V, W)
    BY <1>8, <1>10, KeepsOn
  <1>12. Keeps(b, c, E, V, W) /\ Good(c, E, V, W)
    BY <1>3, <1>10, ConfirmedKeeps DEF Keeps
  <1>13. Keeps(c, d, E, V, W) /\ Good(d, E, V, W)
    BY <1>4, <1>12, RefilledKeeps DEF Keeps
  <1>14. Keeps(t, c, E, V, W)
    BY <1>11, <1>12, KeepsOn
  <1>15. Keeps(t, d, E, V, W)
    BY <1>13, <1>14, KeepsOn
  <1>16. PacketFor(p, d, E, V)
    BY <1>15, PacketForStays
  <1>17. Keeps(d, e, E, V, W) /\ Good(e, E, V, W)
    BY <1>5, <1>13, <1>16, ReceivedKeeps DEF Keeps
  <1>18. Keeps(t, e, E, V, W)
    BY <1>15, <1>17, KeepsOn
  <1>19. Keeps(e, f, E, V, W) /\ Good(f, E, V, W)
    BY <1>6, <1>17, AttemptSendKeeps DEF Keeps
  <1>20. Keeps(t, f, E, V, W)
    BY <1>18, <1>19, KeepsOn
  <1>21. Keeps(f, g, E, V, W)
    BY <1>7, <1>19, ReadableKeeps
  <1>22. Keeps(t, g, E, V, W)
    BY <1>20, <1>21, KeepsOn
  <1>23. Keeps(t, t, E, V, W)
    BY GrowsItself
  <1>24. process(t, p) \in {t, b, g}
    BY <1>1, <1>2, <1>3, <1>4, <1>5, <1>6, <1>7 DEF process
  <1> QED
    BY <1>11, <1>22, <1>23, <1>24

-----------------------------------------------------------------------------
(* Timers, calls of the applications.                                      *)

\* The retransmit timer runs out.
LEMMA RetransmitKeeps ==
    ASSUME NEW t, NEW E, NEW V, NEW W, Good(t, E, V, W), t.rto
    PROVE  Keeps(t, Retransmit(t), E, V, W)
  <1>1. t.snd_una # t.snd_nxt
    <2>1. PICK k : SentK(t, k)
      BY SendK
    <2>2. k > 0
      BY <2>1 DEF SentK
    <2>3. t.snd_una < t.snd_nxt /\ t.snd_una \in Nat /\ t.snd_nxt \in Nat
      BY <2>1, <2>2, SendPlace
    <2> QED
      BY <2>3
  <1>2. PICK again, u : again = transmit(t, 1) /\ u = again.tcp
    OBVIOUS
  <1>3. Keeps(t, u, E, V, W) /\ Good(u, E, V, W)
    BY <1>1, <1>2, AgainKeeps DEF Keeps
  <1>4. PICK h : h = Larger(InFlight(u) \div 2, 2 * u.mss)
    OBVIOUS
  <1>5. PICK w : w = [u EXCEPT !.ssthresh = h, !.cwnd = u.mss]
    OBVIOUS
  <1>6. DOMAIN u = Fields /\ Numbers(u)
    BY <1>3 DEF Good
  <1>7. h \in Nat \ {0}
    <2>1. PICK k : SentK(u, k)
      BY <1>3, SendK
    <2>2. PICK n, m \in Nat : n = InFlight(u) /\ m = u.mss /\ m > 0
      BY <1>3, <1>6, <2>1, SendPlace DEF Numbers
    <2>3. n \div 2 \in Nat /\ 2 * m \in Nat /\ 2 * m > 0
      BY <2>2
    <2>4. h = Larger(n \div 2, 2 * m)
      BY <1>4, <2>2
    <2>5. h \in Nat /\ 2 * m <= h
      BY <2>3, <2>4, LargerIs
    <2> QED
      BY <2>3, <2>5
  <1>8. /\ DOMAIN w = Fields /\ w.out = u.out /\ w.mss = u.mss /\ w.mtu = u.mtu /\ w.dup_acks = u.dup_acks
        /\ w.ssthresh = h /\ w.cwnd = u.mss
    BY <1>5, <1>6 DEF Fields, Fresh
  <1>9. SameSend(u, w) /\ SameRecv(u, w)
    BY <1>5, <1>6 DEF Fields, Fresh, SameSend, SameRecv
  <1>10. Numbers(w)
    BY <1>6, <1>7, <1>8 DEF Numbers
  <1>11. Keeps(u, w, E, V, W)
    BY <1>3, <1>8, <1>9, <1>10, Frame
  <1>12. Keeps(u, closedown(u), E, V, W)
    BY <1>3, CloseKeeps
  <1>13. Retransmit(t) \in {w, closedown(u)}
    BY <1>2, <1>4, <1>5 DEF Retransmit
  <1> QED
    BY <1>3, <1>11, <1>12, <1>13, KeepsOn

\* A closed window is probed.
LEMMA ProbeKeeps ==
    ASSUME NEW t, NEW E, NEW V, NEW W, Good(t, E, V, W), t.snd_wnd = 0
    PROVE  Keeps(t, Probe(t), E, V, W)
  <1>1. PICK k : SentK(t, k)
    BY SendK
  <1>2. PICK a, x \in Nat : a = t.snd_una /\ x = t.snd_nxt /\ a <= x /\ 0 < a /\ x < SeqSpace /\ SeqSpace \in Nat
    <2>1. /\ t.snd_una \in Nat /\ t.snd_nxt \in Nat /\ t.snd_una <= t.snd_nxt
          /\ t.snd_nxt <= t.snd_una + Len(t.sbuf) /\ t.snd_una + Len(t.sbuf) <= W /\ W < SeqSpace
          /\ W \in Nat /\ SeqSpace \in Nat /\ Len(t.sbuf) \in Nat
      BY <1>1, SendPlace
    <2>2. 0 < t.snd_una + t.snd_wnd
      BY DEF Good, Sends
    <2>3. 0 < t.snd_una
      BY <2>1, <2>2
    <2>4. t.snd_nxt < SeqSpace
      BY <2>1
    <2> QED
      BY <2>1, <2>3, <2>4
  <1>3. PICK y \in Nat : y = Minus(t.snd_nxt, 1) /\ y <= t.snd_nxt
    <2>1. 1 <= x /\ x - 1 \in Nat /\ x - 1 <= x
      BY <1>2
    <2>2. Minus(x, 1) = x - 1
      BY <1>2, <2>1, MinusIs
    <2> QED
      BY <1>2, <2>1, <2>2
  <1>4. PICK c \in BOOLEAN : c = FALSE
    OBVIOUS
  <1>5. PICK u : u = packet(t, y, c, 0, 0)
    OBVIOUS
  <1>6. Keeps(t, u, E, V, W)
    BY <1>3, <1>5, AckPacketKeeps
  <1>7. PICK w : w = [u EXCEPT !.idle = FALSE]
    OBVIOUS
  <1>8. DOMAIN u = Fields /\ Numbers(u) /\ Good(u, E, V, W)
    BY <1>6 DEF Keeps, Good
  <1>9. DOMAIN w = Fields /\ w.out = u.out /\ Numbers(w)
    BY <1>7, <1>8 DEF Fields, Fresh, Numbers
  <1>10. SameSend(u, w) /\ SameRecv(u, w)
    BY <1>7, <1>8 DEF Fields, Fresh, SameSend, SameRecv
  <1>11. Keeps(u, w, E, V, W)
    BY <1>8, <1>9, <1>10, Frame
  <1>12. Probe(t) = w
    BY <1>3, <1>4, <1>5, <1>7 DEF Probe
  <1> QED
    BY <1>6, <1>11, <1>12, KeepsOn

LEMMA AckKeepsAll ==
    ASSUME NEW t, NEW E, NEW V, NEW W, Good(t, E, V, W)
    PROVE  Keeps(t, ackPacket(t), E, V, W)
  <1>1. PICK x \in Nat : x = t.snd_nxt /\ x <= t.snd_nxt
    BY DEF Good, Sends
  <1>2. PICK c \in BOOLEAN : c = FALSE
    OBVIOUS
  <1>3. ackPacket(t) = packet(t, x, c, 0, 0)
    BY <1>1, <1>2 DEF ackPacket
  <1> QED
    BY <1>1, <1>3, AckPacketKeeps

\* NotifyClock, for timers that are set.
LEMMA ClockedKeeps ==
    ASSUME NEW t, NEW E, NEW V, NEW W, Good(t, E, V, W), NEW due, due \subseteq Armed(t), NEW dead
    PROVE  Keeps(t, Clocked(t, due, dead), E, V, W)
  <1>1. ("rto" \in due => t.rto) /\ ("probe" \in due => t.snd_wnd = 0)
    BY DEF Armed
  <1>2. PICK a : a = IF "rto" \in due THEN Retransmit(t) ELSE t
    OBVIOUS
  <1>3. Keeps(t, a, E, V, W) /\ Good(a, E, V, W)
    BY <1>1, <1>2, RetransmitKeeps, GrowsItself DEF Keeps
  <1>4. PICK b : b = IF "probe" \in due /\ "rto" \notin due THEN Probe(a) ELSE a
    OBVIOUS
  <1>5. Keeps(a, b, E, V, W) /\ Good(b, E, V, W)
    <2>1. CASE "probe" \in due /\ "rto" \notin due
      <3>1. a = t /\ b = Probe(t)
        BY <1>2, <1>4, <2>1
      <3> QED
        BY <1>1, <2>1, <3>1, ProbeKeeps DEF Keeps
    <2>2. CASE ~("probe" \in due /\ "rto" \notin due)
      <3>1. b = a
        BY <1>4, <2>2
      <3> QED
        BY <1>3, <3>1, GrowsItself
    <2> QED
      BY <2>1, <2>2
  <1>6. Keeps(t, b, E, V, W)
    BY <1>3, <1>5, KeepsOn
  <1>7. Keeps(t, closedown(a), E, V, W)
    BY <1>3, CloseKeeps, KeepsOn
  <1>8. Keeps(t, ackPacket(b), E, V, W)
    BY <1>5, <1>6, AckKeepsAll, KeepsOn
  <1>9. Clocked(t, due, dead) \in {a, closedown(a), ackPacket(b), b}
    BY <1>2, <1>4 DEF Clocked
  <1> QED
    BY <1>3, <1>6, <1>7, <1>8, <1>9

\* Flags, the state and the MTU may change at will, but for going back to LISTEN.
LEMMA FlagsKeep ==
    ASSUME NEW t, NEW E, NEW V, NEW W, Good(t, E, V, W), NEW u, DOMAIN u = Fields,
           \A x \in Fields : x \in {"shutdown", "stream", "readEvent", "writeEvent", "readEnable",
                                    "writeEnable", "idle", "broken"} \/ u[x] = t[x]
    PROVE  Keeps(t, u, E, V, W)
  <1>1. Numbers(u) /\ u.out = t.out
    BY FieldNames DEF Good, Numbers
  <1>2. SameSend(t, u) /\ SameRecv(t, u)
    BY FieldNames DEF SameSend, SameRecv
  <1> QED
    BY <1>1, <1>2, Frame

LEMMA RouteKeeps ==
    ASSUME NEW t, NEW E, NEW V, NEW W, Good(t, E, V, W), NEW mtu \in Nat \ {0},
           NEW u, u = [t EXCEPT !.mtu = mtu]
    PROVE  Keeps(t, u, E, V, W)
  <1>1. DOMAIN t = Fields /\ Numbers(t)
    BY DEF Good
  <1>2. DOMAIN u = Fields /\ u.out = t.out /\ Numbers(u)
    BY <1>1 DEF Fields, Fresh, Numbers
  <1>3. SameSend(t, u) /\ SameRecv(t, u)
    BY <1>1 DEF Fields, Fresh, SameSend, SameRecv
  <1> QED
    BY <1>2, <1>3, Frame

\* The application has read n bytes; the window is opened as far as there is room, or not yet.
LEMMA ReadKeeps ==
    ASSUME NEW t, NEW E, NEW V, NEW W, Good(t, E, V, W), NEW n \in Nat, n <= Len(t.rbuf),
           NEW u, u = [t EXCEPT !.rbuf = SubSeq(@, n + 1, Len(@))],
           NEW w, w = [u EXCEPT !.rcv_wnd = Room(u)]
    PROVE  Keeps(t, u, E, V, W) /\ Keeps(t, w, E, V, W)
  <1>1. DOMAIN t = Fields /\ Numbers(t) /\ Receives(t, V)
    BY DEF Good
  <1>2. DOMAIN u = Fields /\ u.out = t.out /\ Numbers(u) /\ SameSend(t, u)
    BY <1>1 DEF Fields, Fresh, Numbers, SameSend
  <1>3. /\ u.rcv_nxt = t.rcv_nxt /\ u.rcv_wnd = t.rcv_wnd /\ u.ahead = t.ahead /\ u.rlist = t.rlist
        /\ u.rbuf = SubSeq(t.rbuf, n + 1, Len(t.rbuf))
    BY <1>1 DEF Fields, Fresh
  <1>4. PICK x, y, l \in Nat : x = t.rcv_nxt /\ y = t.rcv_wnd /\ l = Len(t.rbuf) /\ Edge(t) = x + y
                               /\ l + y <= RBufLen
    BY <1>1, RecvPlace
  <1>5. PICK m \in Nat : m = l - n
    <2>1. l - n \in Nat
      BY <1>4
    <2> QED
      BY <2>1
  <1>6. u.rbuf \in Seq(Int) /\ Len(u.rbuf) = m
    <2>1. PICK r : r = t.rbuf /\ r \in Seq(Int) /\ Len(r) = l
      BY <1>1, <1>4 DEF Receives
    <2>2. SubSeq(r, n + 1, l) \in Seq(Int) /\ Len(SubSeq(r, n + 1, l)) = m
      BY <1>4, <1>5, <2>1, RestIs
    <2> QED
      BY <1>3, <2>1, <2>2
  <1>7. PICK R \in Nat : R = RBufLen /\ m + y <= R /\ x + y <= x + y
    <2>1. PICK R \in Nat : R = RBufLen
      BY Sizes
    <2>2. l + y <= R /\ m <= l
      BY <1>4, <1>5, <2>1
    <2>3. m + y <= R
      BY <2>2
    <2> QED
      BY <2>1, <2>3
  <1>8. Edge(u) = Edge(t) /\ Edge(t) <= Edge(u)
    BY <1>3, <1>4, <1>7 DEF Edge
  <1>9. Saves(u, V)
    BY <1>1, <1>3, <1>8 DEF Receives, Saves
  <1>10. Receives(u, V)
    BY <1>1, <1>3, <1>4, <1>6, <1>7, <1>8, <1>9 DEF Receives
  <1>11. Keeps(t, u, E, V, W)
    BY <1>2, <1>8, <1>10, RecvFrame
  <1>12. PICK z \in Nat : z = Room(u) /\ m + z = R /\ y <= z
    <2>1. R - m \in Nat /\ m + (R - m) = R /\ y <= R - m
      BY <1>7
    <2> QED
      BY <1>6, <1>7, <2>1 DEF Room
  <1>13. DOMAIN w = Fields /\ w.out = u.out /\ Numbers(w) /\ SameSend(u, w)
    BY <1>2 DEF Fields, Fresh, Numbers, SameSend
  <1>14. /\ w.rcv_nxt = u.rcv_nxt /\ w.rcv_wnd = z /\ w.ahead = u.ahead /\ w.rlist = u.rlist
         /\ w.rbuf = u.rbuf
    BY <1>2, <1>12 DEF Fields, Fresh
  <1>15. PICK d, e \in Nat : d = Edge(u) /\ e = Edge(w) /\ d <= e
    <2>1. Edge(u) = x + y /\ Edge(w) = x + z
      BY <1>3, <1>4, <1>14 DEF Edge
    <2>2. x + y <= x + z /\ x + y \in Nat /\ x + z \in Nat
      BY <1>12
    <2> QED
      BY <2>1, <2>2
  <1>16. Saves(w, V)
    <2>1. u.rlist \in Seq(Saved) /\ \A i \in 1 .. Len(u.rlist) : EndOf(u.rlist[i]) \in V /\ EndOf(u.rlist[i]) <= d
      BY <1>9, <1>15 DEF Saves
    <2>2. \A v \in V : v \in Nat
      BY <1>1, RecvPlace
    <2>3. \A v \in V : v <= d => v <= e
      BY <1>15, <2>2
    <2> QED
      BY <1>14, <1>15, <2>1, <2>3 DEF Saves
  <1>17. RBufLen <= Edge(w)
    <2>1. RBufLen <= d
      BY <1>10, <1>15 DEF Receives
    <2> QED
      BY <1>15, <2>1, Sizes
  <1>18. Len(w.rbuf) + w.rcv_wnd <= RBufLen
    <2>1. Len(w.rbuf) = m /\ w.rcv_wnd = z /\ m + z <= R
      BY <1>6, <1>12, <1>14
    <2> QED
      BY <1>7, <2>1
  <1>19. Receives(w, V)
    BY <1>10, <1>14, <1>16, <1>17, <1>18 DEF Receives
  <1>20. Good(u, E, V, W)
    BY <1>11 DEF Keeps
  <1>21. Edge(u) <= Edge(w)
    BY <1>15
  <1>22. Keeps(u, w, E, V, W)
    BY <1>13, <1>19, <1>20, <1>21, RecvFrame
  <1> QED
    BY <1>11, <1>22, KeepsOn

-----------------------------------------------------------------------------
(* Both ends and the network between them.                                 *)

\* What is written goes on the network.
LEMMA ClearKeeps ==
    ASSUME NEW t, NEW E, NEW V, NEW W, Good(t, E, V, W), NEW u, u = [t EXCEPT !.out = <<>>]
    PROVE  Good(u, E, V, W) /\ Grows(t, u) /\ Edge(u) = Edge(t) /\ Marks(u) = Marks(t) /\ u.out = <<>>
  <1>1. DOMAIN t = Fields /\ Numbers(t)
    BY DEF Good
  <1>2. DOMAIN u = Fields /\ u.out = <<>> /\ Numbers(u)
    BY <1>1 DEF Fields, Fresh, Numbers
  <1>3. SameSend(t, u) /\ SameRecv(t, u)
    BY <1>1 DEF Fields, Fresh, SameSend, SameRecv
  <1>4. Sends(u, E, W)
    <2>1. Lists(u)
      BY <1>3 DEF Good, Sends, SameSend, Lists
    <2> QED
      BY <1>3, <2>1 DEF Good, Sends, SameSend
  <1>5. Receives(u, V) /\ Edge(u) = Edge(t)
    <2>1. Saves(u, V) /\ Edge(u) = Edge(t)
      BY <1>3 DEF Good, Receives, SameRecv, Saves, Edge
    <2> QED
      BY <1>3, <2>1 DEF Good, Receives, SameRecv
  <1>6. Edge(t) \in Nat /\ t.snd_nxt \in Nat
    BY EdgeType DEF Good, Sends
  <1>7. Grows(t, u)
    BY <1>3, <1>5, <1>6 DEF Grows, SameSend
  <1>8. Marks(u) = Marks(t)
    BY <1>3 DEF Marks, SameSend
  <1>9. Wrote(u, V) /\ u.out \in Seq(Packet)
    BY <1>2 DEF Wrote
  <1> QED
    BY <1>2, <1>4, <1>5, <1>7, <1>8, <1>9 DEF Good

\* More room and more marks do no harm.
LEMMA GoodMore ==
    ASSUME NEW t, NEW E, NEW V, NEW W, Good(t, E, V, W), NEW F \in Nat, E <= F, NEW U, V \subseteq U,
           InSpace(U)
    PROVE  Good(t, F, U, W)
  <1>1. Sends(t, F, W)
    <2>1. PICK a, x, w \in Nat : a = t.snd_una /\ x = t.snd_nxt /\ w = t.snd_wnd
      BY DEF Good, Sends
    <2>2. E \in Nat /\ a + w <= E /\ x <= E /\ RBufLen <= E
      BY <2>1 DEF Good, Sends
    <2>3. a + w <= F /\ x <= F /\ RBufLen <= F
      BY <2>2, Sizes
    <2> QED
      BY <2>1, <2>3 DEF Good, Sends
  <1>2. Receives(t, U)
    <2>1. Saves(t, U)
      BY DEF Good, Receives, Saves
    <2> QED
      BY <2>1 DEF Good, Receives
  <1>3. Wrote(t, U)
    <2>1. \A p : PacketBy(p, t, V) => PacketBy(p, t, U)
      BY DEF PacketBy
    <2> QED
      BY <2>1 DEF Good, Wrote
  <1> QED
    BY <1>1, <1>2, <1>3 DEF Good

\* The marks of an end grow, within the space.
LEMMA MarksGrow ==
    ASSUME NEW t, NEW u, NEW E, NEW V, NEW W, NEW W0, Good(t, E, V, W0), Keeps(t, u, E, V, W)
    PROVE  Marks(t) \subseteq Marks(u) /\ InSpace(Marks(u)) /\ Edge(t) <= Edge(u) /\ Edge(u) \in Nat
           /\ Edge(t) \in Nat
  <1>1. PICK x, y \in Nat : x = t.snd_nxt /\ y = u.snd_nxt /\ x <= y
    BY DEF Keeps, Good, Sends, Grows
  <1>2. \A v : Mark(t.slist, t.snd_una, v) => Mark(u.slist, u.snd_una, v)
    BY DEF Keeps, Grows
  <1>3. \A v \in 0 .. x : v \in 0 .. y
    BY <1>1
  <1>4. Marks(t) \subseteq Marks(u)
    BY <1>1, <1>2, <1>3, Zenon DEF Marks
  <1>5. y + RBufLen < SeqSpace
    <2>1. PICK k : SentK(u, k)
      BY SendK DEF Keeps
    <2>2. PICK a, l, w \in Nat : a = u.snd_una /\ l = Len(u.sbuf) /\ w = W /\ y <= a + l /\ a + l <= w
      BY <1>1, <2>1, SendPlace DEF Keeps
    <2>3. w + RBufLen < SeqSpace
      BY <2>2 DEF Keeps, Good, Sends
    <2> QED
      BY <2>2, <2>3, Sizes
  <1>6. InSpace(Marks(u))
    <2>1. \A v \in 0 .. y : v \in Nat /\ v + RBufLen < SeqSpace
      BY <1>5, Sizes
    <2> QED
      BY <1>1, <2>1 DEF InSpace, Marks
  <1>7. Edge(t) <= Edge(u) /\ Edge(u) \in Nat /\ Edge(t) \in Nat
    BY EdgeType DEF Keeps, Good, Grows
  <1> QED
    BY <1>4, <1>6, <1>7

\* Packets q, on their way to t, can be received.
Fits(t, q, E, V, W) ==
    /\ Good(t, E, V, W) /\ t.out = <<>>
    /\ \A i \in 1 .. Len(q) : PacketFor(q[i], t, E, V)

\* r has no packet that q has not.
Within(r, q) == \A i \in 1 .. Len(r) : \E j \in 1 .. Len(q) : r[i] = q[j]

\* The end that takes a step.
LEMMA FitsStill ==
    ASSUME NEW t, NEW q, NEW r, NEW E, NEW V, NEW W, NEW W0, Fits(t, q, E, V, W0), Within(r, q),
           NEW s, Keeps(t, s, E, V, W), NEW u, u = [s EXCEPT !.out = <<>>]
    PROVE  Fits(u, r, E, V, W)
  <1>1. Good(s, E, V, W) /\ Good(t, E, V, W0)
    BY DEF Fits, Keeps
  <1>2. Good(u, E, V, W) /\ u.out = <<>> /\ Keeps(s, u, E, V, W)
    BY <1>1, ClearKeeps DEF Keeps
  <1>3. ASSUME NEW i \in 1 .. Len(r) PROVE PacketFor(r[i], u, E, V)
    <2>1. PICK j \in 1 .. Len(q) : r[i] = q[j]
      BY DEF Within
    <2>2. PacketFor(r[i], t, E, V)
      BY <2>1 DEF Fits
    <2>3. PacketFor(r[i], s, E, V)
      BY <1>1, <2>2, PacketForStays
    <2> QED
      BY <1>1, <1>2, <2>3, PacketForStays
  <1> QED
    BY <1>2, <1>3 DEF Fits

\* The other end: there may be more room, and there are more packets on their way.
LEMMA FitsMore ==
    ASSUME NEW t, NEW u, NEW q \in Seq(Packet), NEW W, NEW W0, NEW X,
           Good(t, Edge(u), Marks(u), W0), Fits(u, q, Edge(t), Marks(t), X),
           NEW s, Keeps(t, s, Edge(u), Marks(u), W)
    PROVE  Fits(u, q \o s.out, Edge(s), Marks(s), X)
  <1>1. /\ Marks(t) \subseteq Marks(s) /\ InSpace(Marks(s)) /\ Edge(t) <= Edge(s) /\ Edge(s) \in Nat
        /\ Edge(t) \in Nat
    BY MarksGrow
  <1>2. Good(u, Edge(s), Marks(s), X) /\ u.out = <<>>
    BY <1>1, GoodMore DEF Fits
  <1>3. Good(s, Edge(u), Marks(u), W)
    BY DEF Keeps
  <1>4. PICK r : r = s.out
    OBVIOUS
  <1>5. PICK m, n \in Nat : m = Len(q) /\ n = Len(r)
    BY <1>3, <1>4 DEF Good
  <1>6. q \o r \in Seq(Packet) /\ Joins(q \o r, q, r, m, n)
    BY <1>3, <1>4, <1>5, ConcatFacts DEF Good
  <1>7. ASSUME NEW p, PacketFor(p, u, Edge(t), Marks(t)) PROVE PacketFor(p, u, Edge(s), Marks(s))
    <2>1. p.ack \in Nat /\ p.wnd \in Nat
      BY <1>7, PacketTypes DEF PacketFor
    <2>2. p.ack + p.wnd <= Edge(s)
      BY <1>1, <1>7, <2>1 DEF PacketFor
    <2> QED
      BY <1>1, <1>7, <2>2 DEF PacketFor
  <1>8. ASSUME NEW p, PacketBy(p, s, Marks(u)) PROVE PacketFor(p, u, Edge(s), Marks(s))
    <2>1. p \in Packet /\ p.seq \in Nat /\ Len(p.data) \in Nat
      BY <1>8, PacketTypes DEF PacketBy
    <2>2. Mark(u.slist, u.snd_una, p.ack)
      BY <1>8 DEF PacketBy, Marks
    <2>3. PICK x, d, y \in Nat : x = s.snd_nxt /\ d = Edge(u) /\ y = p.seq + Len(p.data) /\ x <= d /\ y <= x
      BY <1>3, <1>8, <2>1 DEF Good, Sends, PacketBy
    <2>4. p.seq + Len(p.data) <= Edge(u) /\ p.seq + Len(p.data) \in 0 .. s.snd_nxt
      BY <2>3
    <2>5. Len(p.data) > 0 => p.seq + Len(p.data) \in Marks(s)
      BY <1>8, <2>4 DEF PacketBy, Marks
    <2> QED
      BY <1>8, <2>1, <2>2, <2>4, <2>5 DEF PacketFor, PacketBy
  <1>9. \A i \in 1 .. n : PacketBy(r[i], s, Marks(u))
    BY <1>3, <1>4, <1>5 DEF Good, Wrote
  <1>10. ASSUME NEW i \in 1 .. m + n PROVE PacketFor((q \o r)[i], u, Edge(s), Marks(s))
    <2>1. CASE i \in 1 .. m
      <3>1. (q \o r)[i] = q[i]
        BY <1>6, <2>1 DEF Joins
      <3>2. PacketFor(q[i], u, Edge(t), Marks(t))
        BY <1>5, <2>1 DEF Fits
      <3> QED
        BY <1>7, <3>1, <3>2
    <2>2. CASE i > m
      <3>1. PICK j \in 1 .. n : m + j = i
        <4>1. i - m \in 1 .. n /\ m + (i - m) = i
          BY <2>2
        <4> QED
          BY <4>1
      <3>2. (q \o r)[i] = r[j]
        BY <1>6, <3>1 DEF Joins
      <3> QED
        BY <1>8, <1>9, <3>2
    <2>3. i \in 1 .. m \/ i > m
      OBVIOUS
    <2> QED
      BY <2>1, <2>2, <2>3
  <1>11. Len(q \o r) = m + n
    BY <1>6 DEF Joins
  <1> QED
    BY <1>2, <1>4, <1>10, <1>11 DEF Fits

\* A packet that is gone or there twice.
LEMMA RemoveWithin ==
    ASSUME NEW X, NEW q \in Seq(X), NEW i \in 1 .. Len(q), NEW r, r = RemoveAt(q, i)
    PROVE  r \in Seq(X) /\ Within(r, q)
  <1>1. PICK l \in Nat : l = Len(q) /\ i \in 1 .. l
    OBVIOUS
  <1>2. PICK a, c : a = SubSeq(q, 1, i - 1) /\ c = SubSeq(q, i + 1, l)
    OBVIOUS
  <1>3. PICK m, n \in Nat : m = i - 1 /\ n = l - i
    <2>1. i - 1 \in Nat /\ l - i \in Nat
      BY <1>1
    <2> QED
      BY <2>1
  <1>4. a \in Seq(X) /\ Len(a) = m /\ \A k \in 1 .. m : a[k] = q[k]
    BY <1>1, <1>2, <1>3
  <1>5. c \in Seq(X) /\ Len(c) = n /\ \A k \in 1 .. n : c[k] = q[i + k]
    BY <1>1, <1>2, <1>3
  <1>6. r = a \o c
    BY <1>1, <1>2 DEF RemoveAt
  <1>7. r \in Seq(X) /\ Joins(r, a, c, m, n)
    BY <1>4, <1>5, <1>6, ConcatFacts
  <1>8. Len(r) = m + n
    BY <1>7 DEF Joins
  <1>9. ASSUME NEW k \in 1 .. m + n PROVE \E j \in 1 .. l : r[k] = q[j]
    <2>1. CASE k \in 1 .. m
      <3>1. k \in 1 .. l /\ r[k] = q[k]
        BY <1>1, <1>3, <1>4, <1>7, <2>1 DEF Joins
      <3> QED
        BY <3>1
    <2>2. CASE k > m
      <3>1. PICK j \in 1 .. n : m + j = k /\ i + j \in 1 .. l
        <4>1. k - m \in 1 .. n /\ m + (k - m) = k /\ i + (k - m) \in 1 .. l
          BY <1>1, <1>3, <2>2
        <4> QED
          BY <4>1
      <3>2. r[k] = q[i + j]
        BY <1>5, <1>7, <3>1 DEF Joins
      <3> QED
        BY <3>1, <3>2
    <2> QED
      BY <2>1, <2>2
  <1> QED
    BY <1>1, <1>7, <1>8, <1>9 DEF Within

LEMMA RepeatWithin ==
    ASSUME NEW X, NEW q \in Seq(X), NEW i \in 1 .. Len(q), NEW r, r = Append(q, q[i])
    PROVE  r \in Seq(X) /\ Within(r, q)
  <1>1. PICK l \in Nat : l = Len(q) /\ i \in 1 .. l
    OBVIOUS
  <1>2. PICK p \in X : p = q[i]
    OBVIOUS
  <1>3. r \in Seq(X) /\ Len(r) = l + 1 /\ r[l + 1] = p /\ \A k \in 1 .. l : r[k] = q[k]
    BY <1>1, <1>2
  <1>4. \A k \in 1 .. l + 1 : k \in 1 .. l \/ k = l + 1
    BY <1>1
  <1>5. \A k \in 1 .. l + 1 : \E j \in 1 .. l : r[k] = q[j]
    BY <1>1, <1>2, <1>3, <1>4
  <1> QED
    BY <1>1, <1>3, <1>5 DEF Within

Partner(e, E, V) == Alive(Peer(e)) => E = Edge(tcp[Peer(e)]) /\ V = Marks(tcp[Peer(e)])

\* An end and the packets on their way to it go with what the other end has room for and has sent.
EndOK(e) ==
    Alive(e) => \E E, V : Fits(tcp[e], net[e], E, V, ConnectLen + written[e]) /\ Partner(e, E, V)

\* What an application may still write.
WriteOK(e) ==
    /\ written[e] \in Nat /\ plan.writes[e] \in Nat /\ written[e] <= plan.writes[e]
    /\ SeqSpace > RBufLen + SBufLen + ConnectLen + plan.writes[e]

Shape ==
    /\ DOMAIN tcp = Ends /\ net \in [Ends -> Seq(Packet)] /\ DOMAIN written = Ends
    /\ "writes" \in DOMAIN plan

\* The inductive invariant.
IInv == Shape /\ \A e \in Ends : WriteOK(e) /\ EndOK(e)

LEMMA Peers ==
    ASSUME NEW e \in Ends
    PROVE  Peer(e) \in Ends /\ Peer(e) # e /\ Peer(Peer(e)) = e /\ \A d \in Ends : d = e \/ d = Peer(e)
  BY DEF Ends, Peer

\* End e goes from tcp[e] over s, writing the packets s.out, to s or to nothing.
LEMMA StepKeeps ==
    ASSUME IInv, NEW e \in Ends, Alive(e), NEW E, NEW V, Fits(tcp[e], net[e], E, V, ConnectLen + written[e]),
           Partner(e, E, V), NEW s, Keeps(tcp[e], s, E, V, ConnectLen + written'[e]),
           DOMAIN tcp' = Ends, tcp'[Peer(e)] = tcp[Peer(e)],
           tcp'[e] = [s EXCEPT !.out = <<>>] \/ tcp'[e].state = "DELETED",
           net' \in [Ends -> Seq(Packet)], Within(net'[e], net[e]),
           net'[Peer(e)] = net[Peer(e)] \o s.out,
           DOMAIN written' = Ends, written'[Peer(e)] = written[Peer(e)], WriteOK(e)',
           "writes" \in DOMAIN plan', plan'.writes = plan.writes
    PROVE  IInv'
  <1>1. PICK f : f = Peer(e)
    OBVIOUS
  <1>2. f \in Ends /\ f # e /\ Peer(f) = e /\ \A d \in Ends : d = e \/ d = f
    BY <1>1, Peers
  <1>3. Shape'
    BY DEF Shape
  <1>4. WriteOK(f)'
    BY <1>1, <1>2 DEF IInv, WriteOK
  <1>5. EndOK(e)'
    <2> SUFFICES ASSUME Alive(e)'
                 PROVE  \E F, U : Fits(tcp'[e], net'[e], F, U, ConnectLen + written'[e]) /\ Partner(e, F, U)'
      BY DEF EndOK
    <2>1. tcp'[e] = [s EXCEPT !.out = <<>>]
      BY DEF Alive
    <2>2. Fits(tcp'[e], net'[e], E, V, ConnectLen + written'[e])
      BY <2>1, FitsStill
    <2>3. Partner(e, E, V)'
      BY DEF Partner, Alive
    <2> QED
      BY <2>2, <2>3
  <1>6. EndOK(f)'
    <2> SUFFICES ASSUME Alive(f)'
                 PROVE  \E F, U : Fits(tcp'[f], net'[f], F, U, ConnectLen + written'[f]) /\ Partner(f, F, U)'
      BY DEF EndOK
    <2>1. Alive(f) /\ tcp'[f] = tcp[f] /\ written'[f] = written[f] /\ net'[f] = net[f] \o s.out
      BY <1>1 DEF Alive
    <2>2. E = Edge(tcp[f]) /\ V = Marks(tcp[f])
      BY <1>1, <2>1 DEF Partner
    <2>3. PICK F, U : Fits(tcp[f], net[f], F, U, ConnectLen + written[f]) /\ Partner(f, F, U)
      BY <1>2, <2>1 DEF IInv, EndOK
    <2>4. F = Edge(tcp[e]) /\ U = Marks(tcp[e])
      BY <1>2, <2>3 DEF Partner
    <2>5. net[f] \in Seq(Packet)
      BY <1>2 DEF IInv, Shape
    <2>6. Good(tcp[e], Edge(tcp[f]), Marks(tcp[f]), ConnectLen + written[e])
      BY <2>2 DEF Fits
    <2>7. Fits(tcp[f], net[f] \o s.out, Edge(s), Marks(s), ConnectLen + written[f])
      BY <2>2, <2>3, <2>4, <2>5, <2>6, FitsMore
    <2>8. Fits(tcp'[f], net'[f], Edge(s), Marks(s), ConnectLen + written'[f])
      BY <2>1, <2>7
    <2>9. Partner(f, Edge(s), Marks(s))'
      <3> SUFFICES ASSUME Alive(e)' PROVE Edge(s) = Edge(tcp'[e]) /\ Marks(s) = Marks(tcp'[e])
        BY <1>2 DEF Partner
      <3>1. tcp'[e] = [s EXCEPT !.out = <<>>]
        BY DEF Alive
      <3> QED
        BY <3>1, ClearKeeps DEF Keeps
    <2> QED
      BY <2>8, <2>9
  <1> QED
    BY <1>2, <1>3, <1>4, <1>5, <1>6 DEF IInv

\* A call of end e ends; the packets on their way to e are those of rest.
LEMMA CallKeeps ==
    ASSUME IInv, NEW e \in Ends, Alive(e), NEW E, NEW V, Fits(tcp[e], net[e], E, V, ConnectLen + written[e]),
           Partner(e, E, V), NEW s, Keeps(tcp[e], s, E, V, ConnectLen + written'[e]),
           NEW z, z = s \/ z = AdjustClock(s), NEW rest \in [Ends -> Seq(Packet)], Within(rest[e], net[e]),
           rest[Peer(e)] = net[Peer(e)], StepFrom(e, z, rest),
           DOMAIN written' = Ends, written'[Peer(e)] = written[Peer(e)], WriteOK(e)',
           "writes" \in DOMAIN plan', plan'.writes = plan.writes
    PROVE  IInv'
  <1>1. PICK f : f = Peer(e) /\ f \in Ends /\ f # e
    BY Peers
  <1>2. z.out = s.out
    BY DEF AdjustClock
  <1>3. tcp' = [tcp EXCEPT ![e] = [z EXCEPT !.out = <<>>]] /\ net' = [rest EXCEPT ![f] = @ \o z.out]
    BY <1>1 DEF StepFrom
  <1>4. DOMAIN tcp = Ends
    BY DEF IInv, Shape
  <1>5. DOMAIN tcp' = Ends /\ tcp'[f] = tcp[f] /\ tcp'[e] = [z EXCEPT !.out = <<>>]
    BY <1>1, <1>3, <1>4
  <1>6. tcp'[e] = [s EXCEPT !.out = <<>>] \/ tcp'[e].state = "DELETED"
    <2>1. CASE z = s
      BY <1>5, <2>1
    <2>2. CASE z = [state |-> "DELETED", failed |-> s.state # "ESTABLISHED" \/ s.broken, out |-> s.out]
      <3>1. tcp'[e].state = z.state /\ z.state = "DELETED"
        BY <1>5, <2>2
      <3> QED
        BY <3>1
    <2> QED
      BY <2>1, <2>2 DEF AdjustClock
  <1>7. s.out \in Seq(Packet) /\ rest[f] \in Seq(Packet)
    BY <1>1 DEF Keeps, Good
  <1>8. rest[f] \o s.out \in Seq(Packet)
    BY <1>7, ConcatFacts
  <1>9. net'[f] = rest[f] \o s.out /\ net'[e] = rest[e] /\ net' \in [Ends -> Seq(Packet)]
    BY <1>1, <1>2, <1>3, <1>8
  <1>10. Within(net'[e], net[e]) /\ net'[f] = net[f] \o s.out
    BY <1>1, <1>9
  <1> QED
    BY <1>1, <1>5, <1>6, <1>9, <1>10, StepKeeps

LEMMA WithinItself ==
    ASSUME NEW q
    PROVE  Within(q, q)
  BY DEF Within

SamePlan == UNCHANGED plan \/ \E kind : Mishap(kind)

LEMMA PlanKeeps ==
    ASSUME IInv, SamePlan
    PROVE  "writes" \in DOMAIN plan' /\ plan'.writes = plan.writes
  BY DEF IInv, Shape, SamePlan, Mishap

LEMMA WriteKeeps ==
    ASSUME IInv, SamePlan, UNCHANGED written, NEW e \in Ends
    PROVE  WriteOK(e)' /\ DOMAIN written' = Ends /\ ConnectLen <= ConnectLen + written'[e]
  <1>1. WriteOK(e) /\ DOMAIN written = Ends
    BY DEF IInv, Shape
  <1>2. WriteOK(e)'
    BY <1>1, PlanKeeps DEF WriteOK
  <1>3. written'[e] \in Nat
    BY <1>1 DEF WriteOK
  <1> QED
    BY <1>1, <1>2, <1>3, Sizes

\* A call that writes no data of the application.
LEMMA QuietCall ==
    ASSUME IInv, NEW e \in Ends, Alive(e), SamePlan, UNCHANGED written, NEW s,
           \A E, V, W : Good(tcp[e], E, V, W) /\ ConnectLen <= W => Keeps(tcp[e], s, E, V, W),
           NEW z, z = s \/ z = AdjustClock(s), Step(e, z)
    PROVE  IInv'
  <1>1. PICK E, V : Fits(tcp[e], net[e], E, V, ConnectLen + written[e]) /\ Partner(e, E, V)
    BY DEF IInv, EndOK
  <1>2. PICK W : W = ConnectLen + written[e]
    OBVIOUS
  <1>3. W = ConnectLen + written'[e] /\ ConnectLen <= W /\ WriteOK(e)' /\ DOMAIN written' = Ends
    BY <1>2, WriteKeeps
  <1>4. Good(tcp[e], E, V, W)
    BY <1>1, <1>2 DEF Fits
  <1>5. Keeps(tcp[e], s, E, V, W)
    BY <1>3, <1>4
  <1>6. Keeps(tcp[e], s, E, V, ConnectLen + written'[e])
    BY <1>3, <1>5
  <1>7. net \in [Ends -> Seq(Packet)]
    BY DEF IInv, Shape
  <1>8. StepFrom(e, z, net)
    BY DEF Step
  <1> QED
    BY <1>1, <1>3, <1>6, <1>7, <1>8, PlanKeeps, WithinItself, CallKeeps

\* Only packets to e go, or come again.
LEMMA NetKeeps ==
    ASSUME IInv, NEW e \in Ends, SamePlan, UNCHANGED <<tcp, written>>, net' \in [Ends -> Seq(Packet)],
           Within(net'[e], net[e]), net'[Peer(e)] = net[Peer(e)]
    PROVE  IInv'
  <1>1. PICK f : f = Peer(e) /\ f \in Ends /\ f # e /\ \A d \in Ends : d = e \/ d = f
    BY Peers
  <1>2. Shape'
    BY PlanKeeps DEF IInv, Shape
  <1>3. WriteOK(e)' /\ WriteOK(f)'
    BY <1>1, WriteKeeps
  <1>4. EndOK(f)'
    <2>1. EndOK(f)
      BY <1>1 DEF IInv
    <2> QED
      BY <1>1, <2>1 DEF EndOK, Alive, Partner
  <1>5. EndOK(e)'
    <2> SUFFICES ASSUME Alive(e)
                 PROVE  \E F, U : Fits(tcp[e], net'[e], F, U, ConnectLen + written[e]) /\ Partner(e, F, U)
      BY DEF EndOK, Alive, Partner
    <2>1. PICK E, V : Fits(tcp[e], net[e], E, V, ConnectLen + written[e]) /\ Partner(e, E, V)
      BY DEF IInv, EndOK
    <2>2. Fits(tcp[e], net'[e], E, V, ConnectLen + written[e])
      BY <2>1, Zenon DEF Fits, Within
    <2> QED
      BY <2>1, <2>2
  <1> QED
    BY <1>1, <1>2, <1>3, <1>4, <1>5 DEF IInv

-----------------------------------------------------------------------------
(* Each action.                                                            *)

LEMMA ConnectStep ==
    ASSUME IInv, NEW e \in Ends, Connect(e)
    PROVE  IInv'
  <1>1. PICK u : u = queueConnectMessage([tcp[e] EXCEPT !.state = "SYN_SENT"])
    OBVIOUS
  <1>2. PICK s : s = attemptSend(u, "none")
    OBVIOUS
  <1>3. /\ Alive(e) /\ tcp[e].state = "LISTEN" /\ Step(e, AdjustClock(s))
        /\ UNCHANGED written /\ SamePlan
    BY <1>1, <1>2 DEF Connect, SamePlan
  <1>4. ASSUME NEW E, NEW V, NEW W, Good(tcp[e], E, V, W), ConnectLen <= W
        PROVE  Keeps(tcp[e], s, E, V, W)
    <2>1. Keeps(tcp[e], u, E, V, W)
      BY <1>1, <1>3, <1>4, QueueConnectKeeps
    <2>2. Keeps(u, s, E, V, W)
      BY <1>2, <2>1, AttemptSendKeeps DEF Keeps
    <2> QED
      BY <1>4, <2>1, <2>2, KeepsOn
  <1> QED
    BY <1>3, <1>4, QuietCall

LEMMA PacketStep ==
    ASSUME IInv, NEW e \in Ends, NEW i, NotifyPacket(e, i)
    PROVE  IInv'
  <1>1. PICK q, rest : q = net[e] /\ rest = [net EXCEPT ![e] = RemoveAt(@, i)]
    OBVIOUS
  <1>2. net \in [Ends -> Seq(Packet)]
    BY DEF IInv, Shape
  <1>3. q \in Seq(Packet) /\ i \in 1 .. Len(q)
    <2>1. q \in Seq(Packet)
      BY <1>1, <1>2
    <2>2. i \in DOMAIN q
      BY <1>1 DEF NotifyPacket
    <2> QED
      BY <2>1, <2>2
  <1>4. PICK r : r = RemoveAt(q, i)
    OBVIOUS
  <1>5. r \in Seq(Packet) /\ Within(r, q)
    BY <1>3, <1>4, RemoveWithin
  <1>6. Peer(e) \in Ends /\ Peer(e) # e
    BY Peers
  <1>7. rest = [net EXCEPT ![e] = r]
    BY <1>1, <1>4
  <1>8. /\ rest \in [Ends -> Seq(Packet)] /\ rest[Peer(e)] = net[Peer(e)] /\ rest[e] = r
    BY <1>2, <1>5, <1>6, <1>7
  <1>9. UNCHANGED written /\ SamePlan
    BY DEF NotifyPacket, SamePlan
  <1>10. CASE ~Alive(e)
    <2>1. net' = rest /\ UNCHANGED tcp
      BY <1>1, <1>10 DEF NotifyPacket
    <2> QED
      BY <1>1, <1>5, <1>8, <1>9, <2>1, NetKeeps
  <1>11. CASE Alive(e)
    <2>1. PICK s : s = process(tcp[e], q[i])
      OBVIOUS
    <2>2. StepFrom(e, AdjustClock(s), rest)
      BY <1>1, <1>11, <2>1 DEF NotifyPacket
    <2>3. PICK E, V : Fits(tcp[e], net[e], E, V, ConnectLen + written[e]) /\ Partner(e, E, V)
      BY <1>11 DEF IInv, EndOK
    <2>4. PICK W : W = ConnectLen + written[e]
      OBVIOUS
    <2>5. W = ConnectLen + written'[e] /\ ConnectLen <= W /\ WriteOK(e)' /\ DOMAIN written' = Ends
      BY <1>9, <2>4, WriteKeeps
    <2>6. Good(tcp[e], E, V, W) /\ PacketFor(q[i], tcp[e], E, V)
      BY <1>1, <1>3, <2>3, <2>4 DEF Fits
    <2>7. Keeps(tcp[e], s, E, V, W)
      BY <2>1, <2>5, <2>6, ProcessKeeps
    <2>8. Keeps(tcp[e], s, E, V, ConnectLen + written'[e])
      BY <2>5, <2>7
    <2>9. Within(rest[e], net[e]) /\ written'[Peer(e)] = written[Peer(e)]
      BY <1>1, <1>5, <1>8, <1>9
    <2> QED
      BY <1>8, <1>9, <1>11, <2>2, <2>3, <2>5, <2>8, <2>9, PlanKeeps, CallKeeps
  <1> QED
    BY <1>10, <1>11

LEMMA ClockStep ==
    ASSUME IInv, NEW e \in Ends, NEW due, NEW dead, NotifyClock(e, due, dead), SamePlan
    PROVE  IInv'
  <1>1. PICK s : s = Clocked(tcp[e], due, dead)
    OBVIOUS
  <1>2. Alive(e) /\ due \subseteq Armed(tcp[e]) /\ Step(e, AdjustClock(s)) /\ UNCHANGED written
    BY <1>1 DEF NotifyClock
  <1>3. \A E, V, W : Good(tcp[e], E, V, W) /\ ConnectLen <= W => Keeps(tcp[e], s, E, V, W)
    BY <1>1, <1>2, ClockedKeeps
  <1> QED
    BY <1>2, <1>3, QuietCall

LEMMA RouteStep ==
    ASSUME IInv, NEW e \in Ends, NEW mtu \in Routes, NotifyMTU(e, mtu)
    PROVE  IInv'
  <1>1. PICK u : u = [tcp[e] EXCEPT !.mtu = mtu]
    OBVIOUS
  <1>2. PICK s : s = IF u.state = "ESTABLISHED" THEN adjustMTU(u) ELSE u
    OBVIOUS
  <1>3. Alive(e) /\ Step(e, AdjustClock(s)) /\ UNCHANGED written /\ SamePlan
    BY <1>1, <1>2 DEF NotifyMTU, SamePlan
  <1>4. mtu \in Nat \ {0}
    BY Sizes
  <1>5. ASSUME NEW E, NEW V, NEW W, Good(tcp[e], E, V, W) PROVE Keeps(tcp[e], s, E, V, W)
    <2>1. Keeps(tcp[e], u, E, V, W)
      BY <1>1, <1>4, <1>5, RouteKeeps
    <2>2. Keeps(u, s, E, V, W)
      BY <1>2, <2>1, AdjustMTUKeeps, GrowsItself DEF Keeps
    <2> QED
      BY <1>5, <2>1, <2>2, KeepsOn
  <1> QED
    BY <1>3, <1>5, QuietCall

\* A call of e that changes flags only.
LEMMA FlagsStep ==
    ASSUME IInv, NEW e \in Ends, Alive(e), NEW s, DOMAIN s = DOMAIN tcp[e],
           \A x \in Fields : x \in {"shutdown", "stream", "readEvent", "writeEvent", "readEnable",
                                    "writeEnable", "idle", "broken"} \/ s[x] = tcp[e][x],
           NEW z, z = s \/ z = AdjustClock(s), Step(e, z), UNCHANGED written, SamePlan
    PROVE  IInv'
  <1>1. ASSUME NEW E, NEW V, NEW W, Good(tcp[e], E, V, W) PROVE Keeps(tcp[e], s, E, V, W)
    <2>1. DOMAIN s = Fields
      BY <1>1 DEF Good
    <2> QED
      BY <1>1, <2>1, FlagsKeep
  <1> QED
    BY <1>1, QuietCall

\* Every end that is alive has the fields of Fresh and nothing to put on the network.
LEMMA AliveFields ==
    ASSUME IInv, NEW e \in Ends, Alive(e)
    PROVE  DOMAIN tcp[e] = Fields /\ tcp[e].out = <<>>
  BY DEF IInv, EndOK, Fits, Good

LEMMA CloseStep ==
    ASSUME IInv, NEW e \in Ends, Close(e)
    PROVE  IInv'
  <1>1. PICK s : s = [tcp[e] EXCEPT !.stream = FALSE, !.readEvent = FALSE,
                                    !.writeEvent = FALSE, !.shutdown = TRUE]
    OBVIOUS
  <1>2. Alive(e) /\ Step(e, AdjustClock(s)) /\ UNCHANGED written /\ SamePlan
    BY <1>1 DEF Close, SamePlan
  <1>3. DOMAIN tcp[e] = Fields
    BY <1>2, AliveFields
  <1>4. DOMAIN s = DOMAIN tcp[e]
        /\ \A x \in Fields : x \in {"shutdown", "stream", "readEvent", "writeEvent", "readEnable",
                                    "writeEnable", "idle", "broken"} \/ s[x] = tcp[e][x]
    BY <1>1, <1>3
  <1> QED
    BY <1>2, <1>4, FlagsStep

LEMMA ReadStep ==
    ASSUME IInv, NEW e \in Ends, Read(e)
    PROVE  IInv'
  <1>1. PICK t, n : t = tcp[e] /\ n = Smaller(ReadLen, Len(t.rbuf))
    OBVIOUS
  <1>2. PICK u : u = [t EXCEPT !.rbuf = SubSeq(@, n + 1, Len(@))]
    OBVIOUS
  <1>3. PICK w : w = [u EXCEPT !.rcv_wnd = Room(u)]
    OBVIOUS
  <1>4. PICK s : s = attemptSend(w, "immediate")
    OBVIOUS
  <1>5. PICK a, b : a = [t EXCEPT !.readEvent = FALSE] /\ b = [t EXCEPT !.readEvent = FALSE, !.readEnable = TRUE]
    OBVIOUS
  <1>6. Alive(e) /\ UNCHANGED written /\ SamePlan
    BY DEF Read, SamePlan
  <1>7. \/ Step(e, a) \/ Step(e, b)
        \/ Step(e, u) \/ Step(e, w) \/ Step(e, s)
    <2>1. n \in Nat
      <3>1. PICK E, V, W : Good(t, E, V, W)
        BY <1>1, <1>6 DEF IInv, EndOK, Fits
      <3>2. Len(t.rbuf) \in Nat
        BY <3>1, RecvPlace DEF Good
      <3> QED
        BY <1>1, <3>2, Sizes, SmallerIs
    <2>2. CASE t.state # "ESTABLISHED"
      BY <1>1, <1>5, <2>2 DEF Read
    <2>3. CASE t.state = "ESTABLISHED" /\ n = 0
      BY <1>1, <1>5, <2>3 DEF Read
    <2>4. CASE t.state = "ESTABLISHED" /\ n > 0
      <3>1. ~(t.state # "ESTABLISHED") /\ ~(t.state = "ESTABLISHED" /\ n = 0)
        BY <2>1, <2>4
      <3> QED
        BY <1>1, <1>2, <1>3, <1>4, <2>4, <3>1 DEF Read
    <2> QED
      BY <2>1, <2>2, <2>3, <2>4
  <1>8. CASE Step(e, a) \/ Step(e, b)
    <2>1. DOMAIN t = Fields
      BY <1>1, <1>6, AliveFields
    <2>2. \A c \in {a, b} :
            /\ DOMAIN c = DOMAIN t
            /\ \A x \in Fields : x \in {"shutdown", "stream", "readEvent", "writeEvent", "readEnable",
                                        "writeEnable", "idle", "broken"} \/ c[x] = t[x]
      BY <1>5, <2>1
    <2> QED
      BY <1>1, <1>6, <1>8, <2>2, FlagsStep
  <1>9. ASSUME NEW E, NEW V, NEW W, Good(t, E, V, W)
        PROVE  Keeps(t, u, E, V, W) /\ Keeps(t, w, E, V, W) /\ Keeps(t, s, E, V, W)
    <2>1. n \in Nat /\ n <= Len(t.rbuf)
      <3>1. Len(t.rbuf) \in Nat
        BY <1>9, RecvPlace DEF Good
      <3> QED
        BY <1>1, <3>1, Sizes, SmallerIs
    <2>2. Keeps(t, u, E, V, W) /\ Keeps(t, w, E, V, W)
      BY <1>2, <1>3, <1>9, <2>1, ReadKeeps
    <2>3. Keeps(w, s, E, V, W)
      BY <1>4, <2>2, AttemptSendKeeps DEF Keeps
    <2> QED
      BY <1>9, <2>2, <2>3, KeepsOn
  <1>10. CASE Step(e, u)
    BY <1>1, <1>6, <1>9, <1>10, QuietCall
  <1>11. CASE Step(e, w)
    BY <1>1, <1>6, <1>9, <1>11, QuietCall
  <1>12. CASE Step(e, s)
    BY <1>1, <1>6, <1>9, <1>12, QuietCall
  <1> QED
    BY <1>7, <1>8, <1>10, <1>11, <1>12

LEMMA WriteStep ==
    ASSUME IInv, NEW e \in Ends, Write(e)
    PROVE  IInv'
  <1>1. PICK t : t = tcp[e]
    OBVIOUS
  <1>2. PICK m, n \in Nat : m = written[e] /\ n = plan.writes[e] /\ m <= n /\ SeqSpace > RBufLen + SBufLen + ConnectLen + n
    BY DEF IInv, WriteOK
  <1>3. PICK data : data = [i \in 1 .. n - m |-> m + i]
    OBVIOUS
  <1>4. PICK c \in BOOLEAN : c = FALSE
    OBVIOUS
  <1>5. PICK u, s : u = queue(t, data, c) /\ s = attemptSend(u, "none")
    OBVIOUS
  <1>6. PICK a, b : a = [t EXCEPT !.writeEvent = FALSE] /\ b = [t EXCEPT !.writeEvent = FALSE, !.writeEnable = TRUE]
    OBVIOUS
  <1>7. Alive(e) /\ UNCHANGED plan /\ SamePlan
    BY DEF Write, SamePlan
  <1>8. \/ (Step(e, a) \/ Step(e, b)) /\ UNCHANGED written
        \/ /\ t.state = "ESTABLISHED" /\ data # <<>> /\ Len(t.sbuf) < SBufLen
           /\ written' = [written EXCEPT ![e] = @ + Len(u.sbuf) - Len(t.sbuf)]
           /\ Step(e, s)
    <2>1. PICK x, y \in Nat : x = Len(t.sbuf) /\ y = SBufLen /\ x <= y
      <3>1. PICK E, V, W : Good(t, E, V, W)
        BY <1>1, <1>7 DEF IInv, EndOK, Fits
      <3> QED
        BY <3>1, Sizes DEF Good, Sends
    <2>2. data = [i \in 1 .. plan.writes[e] - written[e] |-> written[e] + i]
      BY <1>2, <1>3
    <2>3. CASE t.state # "ESTABLISHED" \/ data = <<>>
      BY <1>1, <1>6, <2>2, <2>3 DEF Write
    <2>4. CASE t.state = "ESTABLISHED" /\ data # <<>> /\ x = y
      <3>1. /\ ~(t.state # "ESTABLISHED" \/ data = <<>>) /\ Len(t.sbuf) = SBufLen
            /\ ~(Len(t.sbuf) < SBufLen)
        BY <2>1, <2>4
      <3> QED
        BY <1>1, <1>6, <2>2, <2>4, <3>1 DEF Write
    <2>5. CASE t.state = "ESTABLISHED" /\ data # <<>> /\ x < y
      <3>1. ~(x = y) /\ Len(t.sbuf) # SBufLen /\ Len(t.sbuf) < SBufLen
        BY <2>1, <2>5
      <3> QED
        BY <1>1, <1>4, <1>5, <2>2, <2>5, <3>1 DEF Write
    <2>6. x = y \/ x < y
      BY <2>1
    <2> QED
      BY <2>3, <2>4, <2>5, <2>6, Zenon
  <1>9. CASE (Step(e, a) \/ Step(e, b)) /\ UNCHANGED written
    <2>1. DOMAIN t = Fields
      BY <1>1, <1>7, AliveFields
    <2>2. \A d \in {a, b} :
            /\ DOMAIN d = DOMAIN t
            /\ \A x \in Fields : x \in {"shutdown", "stream", "readEvent", "writeEvent", "readEnable",
                                        "writeEnable", "idle", "broken"} \/ d[x] = t[x]
      BY <1>6, <2>1
    <2> QED
      BY <1>1, <1>7, <1>9, <2>2, FlagsStep
  <1>10. CASE /\ t.state = "ESTABLISHED" /\ data # <<>> /\ Len(t.sbuf) < SBufLen
              /\ written' = [written EXCEPT ![e] = @ + Len(u.sbuf) - Len(t.sbuf)]
              /\ Step(e, s)
    <2>1. PICK l \in Nat : l = n - m
      <3>1. n - m \in Nat
        BY <1>2
      <3> QED
        BY <3>1
    <2>2. data \in Seq(Int) /\ Len(data) = l
      <3>1. data \in [1 .. l -> Int]
        BY <1>3, <2>1
      <3> QED
        BY <3>1
    <2>3. Len(data) > 0
      BY <1>10, <2>1, <2>2
    <2>4. PICK E, V : Fits(tcp[e], net[e], E, V, ConnectLen + written[e]) /\ Partner(e, E, V)
      BY <1>7 DEF IInv, EndOK
    <2>5. PICK W0 \in Nat : W0 = ConnectLen + written[e]
      BY <1>2, Sizes
    <2>6. Good(t, E, V, W0) /\ t.state # "LISTEN"
      BY <1>1, <1>10, <2>4, <2>5 DEF Fits
    <2>7. PICK x, y, k \in Nat : x = Len(t.sbuf) /\ y = Len(u.sbuf) /\ k = y - x /\ y = x + k /\ k <= l
      <3>1. Len(u.sbuf) - Len(t.sbuf) \in 1 .. Len(data) /\ Len(t.sbuf) \in Nat /\ Len(u.sbuf) \in Nat
        BY <1>5, <1>10, <2>2, <2>3, <2>6, QueueKeeps
      <3>2. Len(u.sbuf) = Len(t.sbuf) + (Len(u.sbuf) - Len(t.sbuf))
        BY <3>1
      <3>3. Len(u.sbuf) - Len(t.sbuf) \in Nat /\ Len(u.sbuf) - Len(t.sbuf) <= l
        BY <2>2, <3>1
      <3> QED
        BY <3>1, <3>2, <3>3
    <2>8. DOMAIN written = Ends
      BY DEF IInv, Shape
    <2>9. DOMAIN written' = Ends /\ written'[e] = m + k /\ written'[Peer(e)] = written[Peer(e)]
      <3>1. Peer(e) # e /\ Peer(e) \in Ends
        BY Peers
      <3>2. written'[e] = m + y - x
        BY <1>2, <1>10, <2>7, <2>8
      <3>3. m + y - x = m + k
        BY <2>7
      <3> QED
        BY <1>10, <2>8, <3>1, <3>2, <3>3
    <2>10. m + k \in Nat /\ m + k <= n
      <3>1. k <= l
        BY <2>7
      <3>2. l = n - m
        BY <2>1
      <3> QED
        BY <3>1, <3>2
    <2>11. WriteOK(e)'
      BY <1>2, <1>7, <2>9, <2>10 DEF WriteOK
    <2>12. PICK W \in Nat : W = ConnectLen + written'[e]
      BY <2>9, <2>10, Sizes
    <2>13. t.snd_una + Len(u.sbuf) <= W
      <3>1. PICK d, g \in Nat : d = t.snd_una /\ g = ConnectLen /\ d + x <= W0 /\ W0 = g + m /\ W = g + (m + k)
        BY <1>2, <2>5, <2>6, <2>7, <2>9, <2>12, Sizes DEF Good, Sends
      <3>2. y = x + k /\ d + x <= g + m /\ W = g + (m + k)
        BY <2>7, <3>1
      <3>3. d + y <= W
        BY <3>2
      <3> QED
        BY <2>7, <3>1, <3>3
    <2>14. W + RBufLen < SeqSpace
      <3>1. PICK g, h, i \in Nat : g = ConnectLen /\ h = RBufLen /\ i = SBufLen
        BY Sizes
      <3>2. W = g + (m + k) /\ SeqSpace > h + i + g + n
        BY <1>2, <2>9, <2>12, <3>1
      <3>3. W + h < SeqSpace
        BY <2>10, <3>2, Sizes
      <3> QED
        BY <3>1, <3>3
    <2>15. \A X \in Nat : t.snd_una + Len(u.sbuf) <= X /\ X + RBufLen < SeqSpace => Keeps(t, u, E, V, X)
      BY <1>5, <1>10, <2>2, <2>3, <2>6, QueueKeeps
    <2>16. Keeps(t, u, E, V, W)
      BY <2>13, <2>14, <2>15
    <2>17. Keeps(u, s, E, V, W)
      BY <1>5, <2>16, AttemptSendKeeps DEF Keeps
    <2>18. Good(t, E, V, W)
      <3>1. t.snd_una + Len(t.sbuf) <= W
        <4>1. PICK d \in Nat : d = t.snd_una
          BY <2>6 DEF Good, Sends
        <4> QED
          BY <2>7, <2>13, <4>1
      <3>2. Sends(t, E, W)
        BY <2>6, <2>14, <3>1 DEF Good, Sends
      <3> QED
        BY <2>6, <3>2 DEF Good
    <2>19. Keeps(tcp[e], s, E, V, ConnectLen + written'[e])
      BY <1>1, <2>12, <2>16, <2>17, <2>18, KeepsOn
    <2>20. net \in [Ends -> Seq(Packet)] /\ StepFrom(e, s, net)
      BY <1>10 DEF IInv, Shape, Step
    <2> QED
      BY <1>7, <2>4, <2>9, <2>11, <2>19, <2>20, PlanKeeps, WithinItself, CallKeeps
  <1> QED
    BY <1>8, <1>9, <1>10

LEMMA LoseStep ==
    ASSUME IInv, NEW e \in Ends, NEW i, Lose(e, i) \/ Duplicate(e, i)
    PROVE  IInv'
  <1>1. PICK q : q = net[e]
    OBVIOUS
  <1>2. net \in [Ends -> Seq(Packet)]
    BY DEF IInv, Shape
  <1>3. q \in Seq(Packet) /\ i \in 1 .. Len(q)
    <2>1. q \in Seq(Packet)
      BY <1>1, <1>2
    <2>2. i \in DOMAIN q
      BY <1>1 DEF Lose, Duplicate
    <2> QED
      BY <2>1, <2>2
  <1>4. PICK r : r \in {RemoveAt(q, i), Append(q, q[i])} /\ net' = [net EXCEPT ![e] = r]
    BY <1>1 DEF Lose, Duplicate
  <1>5. r \in Seq(Packet) /\ Within(r, q)
    BY <1>3, <1>4, RemoveWithin, RepeatWithin
  <1>6. Peer(e) \in Ends /\ Peer(e) # e
    BY Peers
  <1>7. net' \in [Ends -> Seq(Packet)] /\ net'[Peer(e)] = net[Peer(e)] /\ net'[e] = r
    BY <1>2, <1>4, <1>5, <1>6
  <1>8. UNCHANGED <<tcp, written>> /\ SamePlan
    BY DEF Lose, Duplicate, SamePlan
  <1> QED
    BY <1>1, <1>5, <1>7, <1>8, NetKeeps

LEMMA RestStep ==
    ASSUME IInv, NEW e \in Ends, Rest(e) \/ Break(e)
    PROVE  IInv'
  <1>1. Alive(e) /\ UNCHANGED <<net, written>> /\ SamePlan
    BY DEF Rest, Break, SamePlan
  <1>2. PICK t : t = tcp[e] /\ DOMAIN t = Fields /\ t.out = <<>>
    BY <1>1, AliveFields
  <1>3. DOMAIN tcp = Ends /\ net \in [Ends -> Seq(Packet)]
    BY DEF IInv, Shape
  <1>4. PICK s : s \in {[t EXCEPT !.idle = TRUE], [t EXCEPT !.broken = TRUE]} /\ tcp' = [tcp EXCEPT ![e] = s]
    BY <1>2 DEF Rest, Break
  <1>5. DOMAIN s = Fields /\ s.out = <<>>
        /\ \A x \in Fields : x \in {"shutdown", "stream", "readEvent", "writeEvent", "readEnable",
                                    "writeEnable", "idle", "broken"} \/ s[x] = t[x]
    BY <1>2, <1>4, FieldNames
  <1>6. s = [s EXCEPT !.out = <<>>]
    BY <1>2, <1>4, <1>5
  <1>7. Peer(e) \in Ends /\ Peer(e) # e
    BY Peers
  <1>8. Step(e, s)
    <2>1. tcp' = [tcp EXCEPT ![e] = [s EXCEPT !.out = <<>>]]
      BY <1>4, <1>6, Zenon
    <2>2. net' = [net EXCEPT ![Peer(e)] = @ \o s.out]
      <3>1. net[Peer(e)] \o <<>> = net[Peer(e)]
        BY <1>3, <1>7
      <3>2. net = [net EXCEPT ![Peer(e)] = net[Peer(e)]]
        BY <1>3, <1>7
      <3> QED
        BY <1>1, <1>5, <3>1, <3>2
    <2> QED
      BY <2>1, <2>2 DEF Step, StepFrom
  <1> QED
    BY <1>1, <1>2, <1>5, <1>8, FlagsStep

-----------------------------------------------------------------------------
(* The invariant and what follows from it.                                 *)

LEMMA FreshIsGood ==
    ASSUME NEW mtu \in Nat \ {0}, NEW path, NEW W \in Nat, W + RBufLen < SeqSpace,
           NEW t, t = Fresh(mtu, path)
    PROVE  Good(t, RBufLen, {0}, W) /\ Edge(t) = RBufLen /\ Marks(t) = {0} /\ t.out = <<>>
  <1>1. DOMAIN t = Fields /\ t.out = <<>> /\ t.state = "LISTEN"
    BY DEF Fields, Fresh
  <1>2. /\ t.mss = Last(PacketMaximums) /\ t.cwnd = 2 * Last(PacketMaximums) /\ t.ssthresh = RBufLen
        /\ t.mtu = mtu /\ t.dup_acks = 0
    BY DEF Fresh
  <1>3. /\ t.snd_una = 0 /\ t.snd_nxt = 0 /\ t.snd_wnd = 1 /\ t.slist = <<>> /\ t.sbuf = <<>>
        /\ t.rto = FALSE /\ t.recover = 0
    BY DEF Fresh
  <1>4. t.rcv_nxt = 0 /\ t.rcv_wnd = RBufLen /\ t.rlist = <<>> /\ t.rbuf = <<>> /\ t.ahead = <<>>
    BY DEF Fresh
  <1>5. Numbers(t)
    <2>1. PICK m, r \in Nat : m = Last(PacketMaximums) /\ m > 0 /\ r = RBufLen /\ r > 0
      BY Sizes
    <2>2. m \in Nat \ {0} /\ 2 * m \in Nat \ {0} /\ r \in Nat \ {0}
      BY <2>1
    <2> QED
      BY <1>2, <2>1, <2>2 DEF Numbers
  <1>6. Lists(t)
    <2>1. Listed(t.slist, 0, 0, 0, 0)
      BY <1>3 DEF Listed, Tiles, SentTo, Reaches
    <2>2. t.snd_una + Len(t.sbuf) = 0
      BY <1>3
    <2>3. t.rto <=> 0 > 0
      BY <1>3
    <2> QED
      BY <1>3, <2>1, <2>2, <2>3 DEF Lists
  <1>7. Sends(t, RBufLen, W)
    <2>1. PICK r, b \in Nat : r = RBufLen /\ b = SBufLen /\ 0 < r
      BY Sizes
    <2>2. t.sbuf \in Seq(Int) /\ Len(t.sbuf) = 0
      BY <1>3
    <2>3. 0 + 1 <= r /\ 0 <= b /\ 0 < 0 + 1 /\ 0 <= r /\ r <= r /\ 0 + 0 <= W /\ 0 <= 0 /\ 0 + 0 = 0
      BY <2>1
    <2>4. t.rto \in BOOLEAN
      BY <1>3
    <2>5. t.snd_una \in Nat /\ t.snd_nxt \in Nat /\ t.snd_wnd \in Nat /\ t.recover \in Nat /\ RBufLen \in Nat
      BY <1>3, <2>1
    <2>6. /\ Len(t.sbuf) <= SBufLen /\ 0 < t.snd_una + t.snd_wnd /\ t.snd_una + t.snd_wnd <= RBufLen
          /\ t.snd_nxt <= RBufLen /\ t.recover <= t.snd_nxt /\ RBufLen <= RBufLen
      BY <1>3, <2>1, <2>2, <2>3
    <2>7. t.snd_una + Len(t.sbuf) <= W /\ t.snd_una + Len(t.sbuf) = 0
      BY <1>3, <2>2, <2>3
    <2> QED
      BY <1>6, <2>2, <2>4, <2>5, <2>6, <2>7, Zenon DEF Sends
  <1>8. Edge(t) = RBufLen
    BY <1>4, Sizes DEF Edge
  <1>9. Receives(t, {0})
    <2>1. Saves(t, {0})
      BY <1>4 DEF Saves
    <2>2. Aheads(t.ahead)
      BY <1>4 DEF Aheads
    <2>3. InSpace({0})
      BY Sizes DEF InSpace
    <2> QED
      BY <1>4, <1>8, <2>1, <2>2, <2>3, Sizes DEF Receives
  <1>10. Wrote(t, {0}) /\ t.out \in Seq(Packet)
    BY <1>1 DEF Wrote
  <1>11. Marks(t) = {0}
    BY <1>3 DEF Marks, Mark
  <1> QED
    BY <1>1, <1>5, <1>7, <1>8, <1>9, <1>10, <1>11 DEF Good

LEMMA InitIInv ==
    ASSUME Init
    PROVE  IInv
  <1>1. /\ plan \in Workloads /\ tcp = [e \in Ends |-> Fresh(plan.mtu, plan.path)]
        /\ net = [e \in Ends |-> <<>>] /\ written = [e \in Ends |-> 0]
    BY DEF Init
  <1>2. /\ plan \in [writes : [Ends -> Nat], closing : SUBSET Ends, mishaps : Nat,
                     kinds : SUBSET Kinds, mtu : Nat \ {0}, path : Nat \ {0}]
        /\ \A e \in Ends : SeqSpace > RBufLen + SBufLen + ConnectLen + plan.writes[e]
    BY <1>1, PseudoTcpConstantsOK
  <1>3. "writes" \in DOMAIN plan /\ plan.writes \in [Ends -> Nat] /\ plan.mtu \in Nat \ {0}
    BY <1>2
  <1>4. Shape
    BY <1>1, <1>3 DEF Shape
  <1>5. ASSUME NEW e \in Ends PROVE WriteOK(e) /\ EndOK(e)
    <2>1. plan.writes[e] \in Nat /\ written[e] = 0
      BY <1>1, <1>3
    <2>2. WriteOK(e)
      BY <1>2, <2>1 DEF WriteOK
    <2>3. PICK W \in Nat : W = ConnectLen + written[e] /\ W + RBufLen < SeqSpace
      <3>1. PICK c, r, b, n \in Nat : c = ConnectLen /\ r = RBufLen /\ b = SBufLen /\ n = plan.writes[e]
        BY <2>1, Sizes
      <3>2. SeqSpace > r + b + c + n /\ SeqSpace \in Nat
        BY <1>2, <3>1, Sizes
      <3>3. c + 0 \in Nat /\ (c + 0) + r < SeqSpace
        BY <3>2
      <3> QED
        BY <2>1, <3>1, <3>3
    <2>4. PICK t : t = Fresh(plan.mtu, plan.path)
      OBVIOUS
    <2>5. Peer(e) \in Ends /\ tcp[e] = t /\ tcp[Peer(e)] = t /\ net[e] = <<>>
      BY <1>1, <2>4, Peers
    <2>6. Good(t, RBufLen, {0}, W) /\ Edge(t) = RBufLen /\ Marks(t) = {0} /\ t.out = <<>>
      BY <1>3, <2>3, <2>4, FreshIsGood
    <2>7. Fits(tcp[e], net[e], RBufLen, {0}, ConnectLen + written[e])
      BY <2>3, <2>5, <2>6 DEF Fits
    <2>8. Partner(e, RBufLen, {0})
      BY <2>5, <2>6 DEF Partner
    <2> QED
      BY <2>2, <2>7, <2>8 DEF EndOK
  <1> QED
    BY <1>4, <1>5 DEF IInv

LEMMA NextIInv ==
    ASSUME IInv, [Next]_vars
    PROVE  IInv'
  <1>1. CASE UNCHANGED vars
    BY <1>1 DEF vars, IInv, Shape, WriteOK, EndOK, Alive, Partner
  <1>2. ASSUME NEW e \in Ends, EndStep(e) PROVE IInv'
    <2>1. CASE Connect(e)
      BY <2>1, ConnectStep
    <2>2. CASE NotifyPacket(e, 1)
      BY <2>2, PacketStep
    <2>3. CASE Clock(e)
      BY <2>3, ClockStep DEF Clock, SamePlan
    <2>4. CASE AckClock(e)
      BY <2>4, ClockStep DEF AckClock, SamePlan
    <2>5. CASE Read(e)
      BY <2>5, ReadStep
    <2>6. CASE Write(e)
      BY <2>6, WriteStep
    <2>7. CASE Close(e)
      BY <2>7, CloseStep
    <2> QED
      BY <1>2, <2>1, <2>2, <2>3, <2>4, <2>5, <2>6, <2>7 DEF EndStep
  <1>3. ASSUME NEW e \in Ends, Fault(e) PROVE IInv'
    <2>1. ASSUME NEW i \in DOMAIN net[e], NotifyPacket(e, i) PROVE IInv'
      BY <2>1, PacketStep
    <2>2. ASSUME NEW i \in DOMAIN net[e], Lose(e, i) \/ Duplicate(e, i) PROVE IInv'
      BY <2>2, LoseStep
    <2>3. CASE EarlyClock(e)
      BY <2>3, ClockStep DEF EarlyClock, SamePlan
    <2>4. ASSUME NEW mtu \in Routes, NotifyMTU(e, mtu) PROVE IInv'
      BY <2>4, RouteStep
    <2>5. CASE Rest(e) \/ Break(e)
      BY <2>5, RestStep
    <2> QED
      BY <1>3, <2>1, <2>2, <2>3, <2>4, <2>5 DEF Fault
  <1> QED
    BY <1>1, <1>2, <1>3 DEF Next

\* Whatever the network and the applications do, both ends agree with each other: everything
\* on its way is of segments that were sent, within the room its receiver has offered, and
\* acknowledges ends of segments.
THEOREM EndsAgree == Spec => []IInv
  <1>1. Init => IInv
    BY InitIInv
  <1>2. IInv /\ [Next]_vars => IInv'
    BY NextIInv
  <1> QED
    BY <1>1, <1>2, PTL DEF Spec

LEMMA ListsTile ==
    ASSUME IInv
    PROVE  SendListTiles
  <1> SUFFICES ASSUME NEW e \in Ends, Established(e)
               PROVE  LET t == tcp[e]
                          End(i) == IF i = 0 THEN t.snd_una ELSE t.slist[i].seq + t.slist[i].len
                          sent == {i \in DOMAIN t.slist : t.slist[i].xmit > 0}
                      IN /\ \A i \in DOMAIN t.slist : t.slist[i].seq = End(i - 1) /\ t.slist[i].len > 0
                         /\ End(Len(t.slist)) = t.snd_una + Len(t.sbuf)
                         /\ \A i \in DOMAIN t.slist : i \in sent <=> End(i) <= t.snd_nxt
                         /\ \E i \in 0..Len(t.slist) : End(i) = t.snd_nxt
                         /\ t.rto <=> sent # {}
    BY DEF SendListTiles
  <1> DEFINE t == tcp[e]
             End(i) == IF i = 0 THEN t.snd_una ELSE t.slist[i].seq + t.slist[i].len
             sent == {i \in DOMAIN t.slist : t.slist[i].xmit > 0}
  <1>1. Lists(t)
    BY DEF IInv, EndOK, Established, Fits, Good, Sends
  <1>2. PICK q, a, x, b : q = t.slist /\ a = t.snd_una /\ x = t.snd_nxt /\ b = t.snd_una + Len(t.sbuf)
    OBVIOUS
  <1>3. PICK k \in Nat : Listed(q, a, b, k, x) /\ (t.rto <=> k > 0)
    BY <1>1, <1>2 DEF Lists
  <1>4. PICK l \in Nat : l = Len(q)
    BY <1>3, ListedFacts
  <1>5. /\ q \in Seq(Segment) /\ a \in Nat /\ x \in Nat /\ k \in 0 .. l
        /\ \A i \in 1 .. l : i <= k => EndOf(q[i]) <= x
        /\ \A i \in 1 .. l : i > k => x <= q[i].seq
    BY <1>3, <1>4, ListedFacts
  <1>6. /\ \A i \in 1 .. l : q[i].seq = Reaches(q, a, i - 1)
        /\ b = Reaches(q, a, l) /\ x = Reaches(q, a, k)
        /\ \A i \in 1 .. l : q[i].xmit > 0 <=> i <= k
    BY <1>3, <1>4 DEF Listed, Tiles, SentTo
  <1>7. \A i \in 0 .. l : End(i) = Reaches(q, a, i)
    BY <1>2 DEF Reaches, EndOf
  <1>8. DOMAIN t.slist = 1 .. l /\ Len(t.slist) = l
    BY <1>2, <1>4, <1>5
  <1>9. sent = {i \in 1 .. l : i <= k}
    BY <1>2, <1>6, <1>8
  <1> HIDE DEF End, sent
  <1>10. \A i \in 1 .. l : q[i].seq \in Nat /\ q[i].len > 0 /\ EndOf(q[i]) \in Nat /\ EndOf(q[i]) > q[i].seq
    BY <1>4, <1>5, SegmentType
  <1>11. ASSUME NEW i \in 1 .. l PROVE q[i].seq = End(i - 1) /\ q[i].len > 0
    <2>1. i - 1 \in 0 .. l
      OBVIOUS
    <2> QED
      BY <1>6, <1>7, <1>10, <2>1
  <1>12. End(l) = b
    BY <1>6, <1>7
  <1>13. ASSUME NEW i \in 1 .. l PROVE i \in sent <=> End(i) <= x
    <2>1. End(i) = EndOf(q[i])
      BY <1>7 DEF Reaches
    <2>2. CASE i <= k
      BY <1>5, <1>9, <2>1, <2>2
    <2>3. CASE i > k
      <3>1. ~(EndOf(q[i]) <= x)
        BY <1>5, <1>10, <2>3
      <3>2. ~(i <= k)
        BY <1>5, <2>3
      <3> QED
        BY <1>9, <2>1, <3>1, <3>2
    <2> QED
      BY <1>5, <2>2, <2>3
  <1>14. \E i \in 0 .. l : End(i) = x
    BY <1>5, <1>6, <1>7
  <1>15. t.rto <=> sent # {}
    <2>1. k > 0 <=> sent # {}
      <3>1. CASE k > 0
        <4>1. 1 \in 1 .. l /\ 1 <= k
          BY <1>5, <3>1
        <4> QED
          BY <1>9, <3>1, <4>1
      <3>2. CASE k = 0
        BY <1>9, <3>2
      <3> QED
        BY <1>5, <3>1, <3>2
    <2> QED
      BY <1>3, <2>1
  <1>16. /\ \A i \in DOMAIN t.slist : t.slist[i].seq = End(i - 1) /\ t.slist[i].len > 0
         /\ End(Len(t.slist)) = t.snd_una + Len(t.sbuf)
         /\ \A i \in DOMAIN t.slist : i \in sent <=> End(i) <= t.snd_nxt
         /\ \E i \in 0..Len(t.slist) : End(i) = t.snd_nxt
    BY <1>2, <1>8, <1>11, <1>12, <1>13, <1>14
  <1> QED
    BY <1>15, <1>16, Zenon DEF End, sent

\* The segments of m_slist always lie end to end over m_sbuf, the sent ones first and up to
\* m_snd_nxt, and the retransmit timer runs exactly while there are sent ones.
THEOREM AlwaysSendListTiles == Spec => []SendListTiles
  <1>1. IInv => SendListTiles
    BY ListsTile
  <1> QED
    BY <1>1, EndsAgree, PTL

\* Nothing on its way is ever more than its receiver has room for, and m_rcv_wnd never
\* promises more than is free.
THEOREM AlwaysWindowIsKept == Spec => []WindowIsKept
  <1>1. IInv => WindowIsKept
    <2> SUFFICES ASSUME IInv, NEW e \in Ends, Alive(e)
                 PROVE  /\ tcp[e].rcv_wnd <= Room(tcp[e])
                        /\ \A i \in DOMAIN net[e] :
                             net[e][i].seq + Len(net[e][i].data) <= tcp[e].rcv_nxt + Room(tcp[e])
      BY DEF WindowIsKept
    <2>1. PICK t, q : t = tcp[e] /\ q = net[e]
      OBVIOUS
    <2>2. PICK E, V, W : Fits(t, q, E, V, W)
      BY <2>1 DEF IInv, EndOK
    <2>3. PICK x, w, l, r \in Nat : x = t.rcv_nxt /\ w = t.rcv_wnd /\ l = Len(t.rbuf) /\ r = RBufLen
                                    /\ Edge(t) = x + w /\ l + w <= r
      BY <2>2, RecvPlace DEF Fits, Good
    <2>4. Room(t) = r - l /\ w <= r - l
      BY <2>3 DEF Room
    <2>5. DOMAIN q = 1 .. Len(q)
      BY <2>1 DEF IInv, Shape
    <2>6. ASSUME NEW i \in DOMAIN q PROVE q[i].seq + Len(q[i].data) <= x + (r - l)
      <3>1. PacketFor(q[i], t, E, V)
        BY <2>2, <2>5 DEF Fits
      <3>2. PICK y \in Nat : y = q[i].seq + Len(q[i].data) /\ y <= x + w
        <4>1. q[i].seq \in Nat /\ Len(q[i].data) \in Nat
          BY <3>1, PacketTypes DEF PacketFor
        <4> QED
          BY <2>3, <3>1, <4>1 DEF PacketFor
      <3> QED
        BY <2>4, <3>2
    <2> QED
      BY <2>1, <2>3, <2>4, <2>6
  <1> QED
    BY <1>1, EndsAgree, PTL
====
