---------------------------- MODULE ReportProofs ----------------------------
(***************************************************************************)
(* Proofs about what is made of the daily statistics: windows of days,     *)
(* changes between windows, rankings, and the reports of exchanges, for    *)
(* any days of any transactions that the tracker can have made.            *)
(*                                                                         *)
(* A fold is the last of a chain of values, one for each element; what is  *)
(* true of the first and kept by every step of the fold is true of the     *)
(* last.  What the maps of a scan hold is said for sets of rows, so that   *)
(* the maps of several days, merged, are those of the rows of all.         *)
(***************************************************************************)
EXTENDS DailyStatisticsProofs

-----------------------------------------------------------------------------
(* Histograms: cells hold the counts of the marked lengths in their order. *)

Lengths == 1..MaxLength
LengthCounts == [Lengths -> Nat]

\* Which of the marks a length is, in increasing order.
Rank(M, length) == 1 + Cardinality({i \in M : (1 <= i) /\ (i < length)})

Histogram == [marks : SUBSET Lengths, cells : Seq(Nat)]

\* A histogram holds these counts: every length that occurs is marked, and no other.
Holds(ts, count) ==
    /\ ts \in Histogram
    /\ ts.marks = {l \in Lengths : count[l] > 0}
    /\ Len(ts.cells) = Cardinality(ts.marks)
    /\ \A l \in ts.marks : ts.cells[Rank(ts.marks, l)] = count[l]

\* Sets of lengths are finite.
LEMMA MarksFinite ==
  ASSUME NEW M \in SUBSET Lengths
  PROVE  IsFiniteSet(M) /\ Cardinality(M) \in Nat
<1>1. IsFiniteSet(1..18)
  <2>1. 1 \in Int /\ 18 \in Int
    OBVIOUS
  <2> QED
    BY <2>1, FS_Interval, Zenon
<1>2. M \subseteq 1..18
  BY DEF Lengths, MaxLength
<1> QED
  BY <1>1, <1>2, FS_Subset, FS_CardinalityType

\* Ranks count from one, to as many as there are marks.
LEMMA RankType ==
  ASSUME NEW M \in SUBSET Lengths, NEW x \in Lengths
  PROVE  /\ Rank(M, x) \in 1..(Cardinality(M) + 1)
         /\ (x \in M) => (Rank(M, x) \in 1..Cardinality(M))
<1> DEFINE B == {i \in M : (1 <= i) /\ (i < x)}
<1>1. B \in SUBSET M /\ B \in SUBSET Lengths /\ x \notin B
  <2>1. ~(x < x)
    BY DEF Lengths
  <2> QED
    BY <2>1
<1> HIDE DEF B
<1>2. IsFiniteSet(M) /\ Cardinality(M) \in Nat /\ Cardinality(B) \in Nat
  BY <1>1, MarksFinite
<1>3. Cardinality(B) <= Cardinality(M) /\ (Cardinality(B) = Cardinality(M) => B = M)
  BY <1>1, <1>2, FS_Subset
<1>4. Rank(M, x) = 1 + Cardinality(B)
  BY DEF Rank, B
<1> QED
  BY <1>1, <1>2, <1>3, <1>4

\* They increase, strictly after a mark.
LEMMA RankGrows ==
  ASSUME NEW M \in SUBSET Lengths, NEW x \in Lengths, NEW y \in Lengths, x < y
  PROVE  Rank(M, x) <= Rank(M, y) /\ ((x \in M) => (Rank(M, x) < Rank(M, y)))
<1> DEFINE B(z) == {i \in M : (1 <= i) /\ (i < z)}
<1>0. \A i \in Lengths : i \in Nat /\ 1 <= i
  BY DEF Lengths
<1>1. B(x) \subseteq B(y) /\ ((x \in M) => (x \in B(y))) /\ x \notin B(x) /\ B(y) \in SUBSET Lengths
  BY <1>0
<1>2. Rank(M, x) = 1 + Cardinality(B(x)) /\ Rank(M, y) = 1 + Cardinality(B(y))
  BY DEF Rank
<1> HIDE DEF B
<1>3. IsFiniteSet(B(y)) /\ Cardinality(B(y)) \in Nat
  BY <1>1, MarksFinite
<1>4. /\ Cardinality(B(x)) <= Cardinality(B(y)) /\ Cardinality(B(x)) \in Nat
      /\ Cardinality(B(x)) = Cardinality(B(y)) => B(x) = B(y)
  BY <1>1, <1>3, FS_Subset, FS_CardinalityType
<1> QED
  BY <1>1, <1>2, <1>3, <1>4

\* A new mark moves those after it by one.
LEMMA RankMoves ==
  ASSUME NEW M \in SUBSET Lengths, NEW x \in Lengths, x \notin M, NEW y \in Lengths
  PROVE  Rank(M \cup {x}, y) = Rank(M, y) + (IF x < y THEN 1 ELSE 0)
<1> DEFINE B == {i \in M : (1 <= i) /\ (i < y)}
           C == {i \in M \cup {x} : (1 <= i) /\ (i < y)}
<1>0. 1 <= x
  BY DEF Lengths
<1>1. B \in SUBSET Lengths /\ x \notin B /\ C = IF x < y THEN B \cup {x} ELSE B
  BY <1>0
<1>2. Rank(M, y) = 1 + Cardinality(B) /\ Rank(M \cup {x}, y) = 1 + Cardinality(C)
  BY DEF Rank
<1> HIDE DEF B, C
<1>3. IsFiniteSet(B) /\ Cardinality(B) \in Nat
  BY <1>1, MarksFinite
<1>4. Cardinality(B \cup {x}) = Cardinality(B) + 1
  BY <1>1, <1>3, FS_AddElement
<1> QED
  BY <1>1, <1>2, <1>3, <1>4

\* Every cell is that of a mark.
LEMMA RankOnto ==
  ASSUME NEW M \in SUBSET Lengths, NEW j \in 1..Cardinality(M)
  PROVE  \E x \in M : Rank(M, x) = j
<1> DEFINE f == [x \in M |-> Rank(M, x)]
           T == {Rank(M, x) : x \in M}
           n == Cardinality(M)
<1>0. IsFiniteSet(M) /\ n \in Nat
  BY MarksFinite
<1>1. T \subseteq 1..n
  BY RankType
<1>2. \A x, y \in M : Rank(M, x) = Rank(M, y) => x = y
  <2> SUFFICES ASSUME NEW x \in M, NEW y \in M, x # y PROVE Rank(M, x) # Rank(M, y)
    OBVIOUS
  <2>1. x \in Lengths /\ y \in Lengths /\ (x < y \/ y < x)
    BY DEF Lengths
  <2>2. Rank(M, x) \in 1..n /\ Rank(M, y) \in 1..n
    BY <2>1, RankType
  <2>3. Rank(M, x) < Rank(M, y) \/ Rank(M, y) < Rank(M, x)
    BY <2>1, RankGrows
  <2> HIDE DEF n
  <2> QED
    BY <1>0, <2>2, <2>3
<1>3. f \in Bijection(M, T)
  BY <1>2 DEF Bijection, Injection, Surjection, IsInjective
<1> HIDE DEF f
<1>4. IsFiniteSet(T) /\ Cardinality(T) = n
  <2>1. ExistsBijection(M, T)
    BY <1>3 DEF ExistsBijection
  <2> HIDE DEF T
  <2> QED
    BY <1>0, <2>1, FS_Bijection
<1>5. IsFiniteSet(1..n) /\ Cardinality(1..n) = n
  BY <1>0, FS_Interval, SMTT(30)
<1>6. T = 1..n
  <2> HIDE DEF T, n
  <2> QED
    BY <1>1, <1>4, <1>5, FS_Subset
<1> QED
  BY <1>6

\* One sequence after another.
LEMMA Concatenated ==
  ASSUME NEW c \in Seq(Nat), NEW b \in Seq(Nat)
  PROVE  /\ c \o b \in Seq(Nat) /\ Len(c \o b) = Len(c) + Len(b)
         /\ \A j \in 1..Len(c) : (c \o b)[j] = c[j]
         /\ \A j \in 1..Len(b) : (c \o b)[Len(c) + j] = b[j]
OBVIOUS

\* What InsertAt does.
LEMMA Inserted ==
  ASSUME NEW s \in Seq(Nat), NEW i \in 1..(Len(s) + 1), NEW e \in Nat
  PROVE  LET t == InsertAt(s, i, e)
         IN  /\ t \in Seq(Nat) /\ Len(t) = Len(s) + 1
             /\ t[i] = e
             /\ \A j \in 1..(i - 1) : t[j] = s[j]
             /\ \A j \in i..Len(s) : t[j + 1] = s[j]
<1> DEFINE a == SubSeq(s, 1, i - 1)
           b == SubSeq(s, i, Len(s))
           c == a \o <<e>>
           t == c \o b
<1>1. /\ a \in Seq(Nat) /\ Len(a) = i - 1 /\ \A j \in 1..(i - 1) : a[j] = s[j]
  OBVIOUS
<1>2. /\ b \in Seq(Nat) /\ Len(b) = Len(s) + 1 - i
      /\ \A j \in 1..(Len(s) + 1 - i) : b[j] = s[i + j - 1]
  OBVIOUS
<1> HIDE DEF a, b
<1>3. c \in Seq(Nat) /\ Len(c) = i /\ c[i] = e /\ \A j \in 1..(i - 1) : c[j] = s[j]
  <2>1. c = Append(a, e)
    BY <1>1
  <2>2. i \in Nat /\ Len(a) + 1 = i
    BY <1>1
  <2> HIDE DEF c
  <2>3. c \in Seq(Nat) /\ Len(c) = Len(a) + 1 /\ c[Len(a) + 1] = e
    BY <1>1, <2>1
  <2>4. \A j \in 1..Len(a) : c[j] = a[j]
    BY <1>1, <2>1
  <2> QED
    BY <1>1, <2>2, <2>3, <2>4
<1> HIDE DEF c
<1>4. /\ t \in Seq(Nat) /\ Len(t) = Len(s) + 1
      /\ \A j \in 1..i : t[j] = c[j]
      /\ \A j \in 1..(Len(s) + 1 - i) : t[i + j] = b[j]
  <2>1. Len(c) = i /\ Len(b) = Len(s) + 1 - i /\ Len(s) \in Nat /\ i \in Nat
    BY <1>2, <1>3
  <2>2. /\ t \in Seq(Nat) /\ Len(t) = Len(c) + Len(b)
        /\ \A j \in 1..Len(c) : t[j] = c[j]
        /\ \A j \in 1..Len(b) : t[Len(c) + j] = b[j]
    BY <1>2, <1>3, Concatenated
  <2> HIDE DEF t
  <2> QED
    BY <2>1, <2>2
<1>5. t = InsertAt(s, i, e)
  BY DEF InsertAt, a, b, c
<1> HIDE DEF t
<1>6. ASSUME NEW j \in i..Len(s)
      PROVE  t[j + 1] = s[j]
  <2> DEFINE k == j + 1 - i
  <2>1. k \in 1..(Len(s) + 1 - i) /\ i + k = j + 1 /\ i + k - 1 = j
    OBVIOUS
  <2>2. t[i + k] = b[k] /\ b[k] = s[i + k - 1]
    BY <1>2, <1>4, <2>1
  <2> QED
    BY <2>1, <2>2
<1> QED
  BY <1>3, <1>4, <1>5, <1>6

\* No transfers, and nothing marked.
LEMMA NoLengths ==
  Holds(NewTransferStats, [l \in Lengths |-> 0])
<1> DEFINE zero == [l \in Lengths |-> 0]
<1>1. {l \in Lengths : zero[l] > 0} = {}
  OBVIOUS
<1>2. Cardinality({}) = 0
  BY FS_EmptySet
<1>3. NewTransferStats = [marks |-> {}, cells |-> <<>>]
  BY DEF NewTransferStats
<1> HIDE DEF zero
<1>4. Holds(NewTransferStats, zero)
  BY <1>1, <1>2, <1>3 DEF Holds, Histogram
<1> QED
  BY <1>4 DEF zero

\* A histogram with the marks M, some of which may have no transfers yet.
Marked(ts, M, count) ==
    /\ ts \in Histogram /\ ts.marks = M
    /\ Len(ts.cells) = Cardinality(M)
    /\ \A l \in M : ts.cells[Rank(M, l)] = count[l]
    /\ \A l \in Lengths \ M : count[l] = 0

\* What a length adds to the counts.
Added(count, l, c) == [count EXCEPT ![l] = @ + c]

\* A new mark has a cell of its own, in its place.
LEMMA NewMark ==
  ASSUME NEW count \in LengthCounts, NEW ts, NEW M, Marked(ts, M, count),
         NEW l \in Lengths, l \notin M
  PROVE  Marked(Mark(ts, l), M \cup {l}, count)
<1> DEFINE i == Rank(M, l)
           s == ts.cells
           t == InsertAt(s, i, 0)
           N == M \cup {l}
<1>1. /\ M \in SUBSET Lengths /\ s \in Seq(Nat) /\ Len(s) = Cardinality(M) /\ ts.marks = M
      /\ \A m \in M : s[Rank(M, m)] = count[m]
      /\ \A m \in Lengths \ M : count[m] = 0
  BY DEF Marked, Histogram
<1>2. Mark(ts, l) = [marks |-> N, cells |-> t]
  BY <1>1 DEF Mark, Index, Rank
<1>3. i \in 1..(Len(s) + 1) /\ Len(s) \in Nat
  BY <1>1, RankType, MarksFinite
<1>4. /\ t \in Seq(Nat) /\ Len(t) = Len(s) + 1 /\ t[i] = 0
      /\ \A j \in 1..(i - 1) : t[j] = s[j]
      /\ \A j \in i..Len(s) : t[j + 1] = s[j]
  <2>1. s \in Seq(Nat) /\ i \in 1..(Len(s) + 1) /\ 0 \in Nat
    BY <1>1, <1>3
  <2> HIDE DEF i, s
  <2> QED
    BY <2>1, Inserted
<1>5. Cardinality(N) = Len(s) + 1
  BY <1>1, MarksFinite, FS_AddElement
<1> HIDE DEF t
<1>7. Mark(ts, l) \in Histogram /\ Mark(ts, l).marks = N /\ Mark(ts, l).cells = t
  BY <1>1, <1>2, <1>4 DEF Histogram
<1>8. \A m \in Lengths \ N : count[m] = 0
  BY <1>1
<1> HIDE DEF N
<1>6. ASSUME NEW m \in N
      PROVE  t[Rank(N, m)] = count[m]
  <2>0. m \in Lengths /\ l \in Int /\ m \in Int /\ (m \in M \/ m = l)
    BY <1>1 DEF Lengths, N
  <2>1. Rank(N, m) = Rank(M, m) + (IF l < m THEN 1 ELSE 0)
    BY <1>1, <2>0, RankMoves DEF N
  <2>2. Rank(M, m) \in 1..(Cardinality(M) + 1)
    BY <1>1, <2>0, RankType
  <2>3. CASE m = l
    BY <1>1, <1>4, <2>0, <2>1, <2>2, <2>3
  <2>4. CASE m # l /\ m < l
    <3>1. m \in M
      BY <2>0, <2>4
    <3>2. Rank(M, m) < i
      BY <1>1, <2>0, <2>4, <3>1, RankGrows
    <3>3. Rank(M, m) \in 1..(i - 1)
      BY <1>3, <2>2, <3>2
    <3> HIDE DEF i, s
    <3> QED
      BY <1>1, <1>4, <2>0, <2>1, <2>2, <2>4, <3>1, <3>3
  <2>5. CASE m # l /\ ~(m < l)
    <3>1. m \in M /\ l < m
      BY <2>0, <2>5
    <3>2. i <= Rank(M, m)
      BY <1>1, <2>0, <3>1, RankGrows
    <3>3. Rank(M, m) \in 1..Cardinality(M)
      BY <1>1, <2>0, <3>1, RankType
    <3>4. Rank(M, m) \in i..Len(s)
      BY <1>1, <1>3, <3>2, <3>3
    <3> HIDE DEF i, s
    <3> QED
      BY <1>1, <1>4, <2>0, <2>1, <3>1, <3>4
  <2> QED
    BY <2>3, <2>4, <2>5
<1> QED
  BY <1>1, <1>4, <1>5, <1>6, <1>7, <1>8 DEF Marked, N

\* A mark's cell is raised, and no other.
LEMMA CellRaised ==
  ASSUME NEW count \in LengthCounts, NEW ts, NEW M, Marked(ts, M, count),
         NEW l \in M, NEW c \in Nat
  PROVE  Marked([ts EXCEPT !.cells[Index(ts, l)] = @ + c], M, Added(count, l, c))
<1> DEFINE i == Rank(M, l)
           s == ts.cells
           t == [s EXCEPT ![i] = @ + c]
           raised == [marks |-> M, cells |-> t]
<1>1. /\ M \in SUBSET Lengths /\ s \in Seq(Nat) /\ Len(s) = Cardinality(M) /\ ts.marks = M
      /\ ts \in Histogram
      /\ \A m \in M : s[Rank(M, m)] = count[m]
      /\ \A m \in Lengths \ M : count[m] = 0
  BY DEF Marked, Histogram
<1>2. Index(ts, l) = i
  BY <1>1 DEF Index, Rank
<1>3. i \in 1..Len(s) /\ l \in Lengths
  BY <1>1, RankType
<1>0. s = ts.cells
  OBVIOUS
<1> HIDE DEF i, s
<1>4. [ts EXCEPT !.cells[i] = @ + c] = raised
  <2>1. [ts EXCEPT !.cells[i] = @ + c] = [ts EXCEPT !.cells = t]
    BY <1>0
  <2>2. DOMAIN ts = {"marks", "cells"} /\ ts.marks = M
    BY <1>1 DEF Histogram
  <2> HIDE DEF t
  <2>3. [ts EXCEPT !.cells = t] = raised
    BY <2>2
  <2> QED
    BY <2>1, <2>3
<1>5. t \in Seq(Nat) /\ Len(t) = Len(s) /\ t[i] = s[i] + c /\ \A j \in 1..Len(s) : j # i => t[j] = s[j]
  BY <1>1, <1>3
<1> HIDE DEF t
<1>6. ASSUME NEW m \in M
      PROVE  t[Rank(M, m)] = Added(count, l, c)[m]
  <2>0. m \in Lengths /\ l \in Int /\ m \in Int
    BY <1>1, <1>3 DEF Lengths
  <2>1. Added(count, l, c)[m] = IF m = l THEN count[l] + c ELSE count[m]
    BY <1>3, <2>0 DEF Added, LengthCounts
  <2>2. Rank(M, m) \in 1..Len(s)
    BY <1>1, <2>0, RankType
  <2>3. CASE m = l
    BY <1>1, <1>5, <2>1, <2>3 DEF i
  <2>4. CASE m # l
    <3>1. Rank(M, m) # i
      <4>1. m < l \/ l < m
        BY <2>0, <2>4
      <4>2. Rank(M, m) < Rank(M, l) \/ Rank(M, l) < Rank(M, m)
        BY <1>1, <1>3, <2>0, <4>1, RankGrows
      <4> QED
        BY <1>3, <2>2, <4>2 DEF i
    <3> QED
      BY <1>1, <1>5, <2>1, <2>2, <2>4, <3>1
  <2> QED
    BY <2>3, <2>4
<1>7. \A m \in Lengths \ M : Added(count, l, c)[m] = 0
  BY <1>1 DEF Added, LengthCounts
<1>8. Marked(raised, M, Added(count, l, c))
  BY <1>1, <1>5, <1>6, <1>7 DEF Marked, Histogram
<1> QED
  BY <1>2, <1>4, <1>8

\* A histogram after more transfers of a length.
LEMMA LengthAdded ==
  ASSUME NEW count \in LengthCounts, NEW ts, Holds(ts, count), NEW l \in Lengths, NEW c \in Nat \ {0}
  PROVE  /\ Added(count, l, c) \in LengthCounts
         /\ Holds(AddLength(ts, l, c), Added(count, l, c))
<1> DEFINE M == {m \in Lengths : count[m] > 0}
           N == M \cup {l}
           marked == IF l \in ts.marks THEN ts ELSE Mark(ts, l)
           raised == Added(count, l, c)
<1>0. \A m \in Lengths : count[m] \in Nat
  BY DEF LengthCounts
<1>1. Marked(ts, M, count) /\ ts.marks = M
  BY <1>0 DEF Holds, Marked
<1>2. Marked(marked, N, count)
  <2>1. CASE l \in M
    <3>1. N = M
      BY <2>1
    <3> QED
      BY <1>1, <2>1, <3>1
  <2>2. CASE l \notin M
    <3> HIDE DEF M
    <3>1. marked = Mark(ts, l)
      BY <1>1, <2>2
    <3> QED
      BY <1>1, <2>2, <3>1, NewMark
  <2> QED
    BY <2>1, <2>2
<1>3. AddLength(ts, l, c) = [marked EXCEPT !.cells[Index(marked, l)] = @ + c]
  BY DEF AddLength
<1>4. raised \in LengthCounts /\ raised[l] = count[l] + c /\ \A m \in Lengths : m # l => raised[m] = count[m]
  BY <1>0 DEF Added, LengthCounts
<1>5. l \in N /\ c \in Nat
  OBVIOUS
<1> HIDE DEF marked
<1>6. Marked(AddLength(ts, l, c), N, raised)
  <2> HIDE DEF N
  <2> QED
    BY <1>2, <1>3, <1>5, CellRaised
<1>7. N = {m \in Lengths : raised[m] > 0}
  <2> HIDE DEF raised
  <2> QED
    BY <1>0, <1>4
<1> HIDE DEF N, raised
<1>8. Holds(AddLength(ts, l, c), raised)
  BY <1>6, <1>7 DEF Marked, Holds
<1> QED
  BY <1>4, <1>8 DEF raised

\* What a histogram says of a length.
LEMMA LengthRead ==
  ASSUME NEW count \in LengthCounts, NEW ts, Holds(ts, count), NEW l \in Lengths
  PROVE  /\ GetLength(ts, l) = count[l]
         /\ l \in ts.marks <=> count[l] > 0
         /\ GetLength(ts, 0) = 0 /\ 0 \notin ts.marks
<1>1. count[l] \in Nat /\ ts.marks = {m \in Lengths : count[m] > 0} /\ 0 \notin Lengths
  BY DEF LengthCounts, Holds, Lengths
<1>2. l \in ts.marks => ts.cells[Rank(ts.marks, l)] = count[l]
  BY DEF Holds
<1> QED
  BY <1>1, <1>2 DEF GetLength, Index, Rank

\* Histograms of the same counts are the same.
LEMMA SameCounts ==
  ASSUME NEW count, NEW ts, Holds(ts, count), NEW us, Holds(us, count)
  PROVE  ts = us
<1> DEFINE M == {m \in Lengths : count[m] > 0}
<1>1. /\ ts \in Histogram /\ us \in Histogram
      /\ ts.marks = M /\ us.marks = M
      /\ ts.cells \in Seq(Nat) /\ Len(ts.cells) = Cardinality(M)
      /\ us.cells \in Seq(Nat) /\ Len(us.cells) = Cardinality(M)
      /\ \A m \in M : ts.cells[Rank(M, m)] = us.cells[Rank(M, m)]
  BY DEF Holds, Histogram
<1>2. M \in SUBSET Lengths
  OBVIOUS
<1> HIDE DEF M
<1>3. \A j \in 1..Cardinality(M) : ts.cells[j] = us.cells[j]
  BY <1>1, <1>2, RankOnto
<1>4. ts.cells = us.cells
  <2> DEFINE c == ts.cells
             d == us.cells
             n == Cardinality(M)
  <2>1. c \in Seq(Nat) /\ d \in Seq(Nat) /\ Len(c) = n /\ Len(d) = n /\ \A j \in 1..n : c[j] = d[j]
    BY <1>1, <1>3
  <2> HIDE DEF c, d, n
  <2>2. c \in [1..n -> Nat] /\ d \in [1..n -> Nat]
    BY <2>1
  <2>3. c = d
    BY <2>1, <2>2
  <2> QED
    BY <2>3 DEF c, d
<1> QED
  BY <1>1, <1>4 DEF Histogram

\* The counts of two histograms together, the second's up to a length.
Together(count, other, k) == [l \in Lengths |-> count[l] + (IF l <= k THEN other[l] ELSE 0)]
BothCounts(count, other) == [l \in Lengths |-> count[l] + other[l]]

LEMMA TogetherType ==
  ASSUME NEW count \in LengthCounts, NEW other \in LengthCounts, NEW k
  PROVE  Together(count, other, k) \in LengthCounts
<1>1. \A l \in Lengths : count[l] \in Nat /\ other[l] \in Nat
  BY DEF LengthCounts
<1> QED
  BY <1>1 DEF Together, LengthCounts

\* One length more.
LEMMA TogetherStep ==
  ASSUME NEW count \in LengthCounts, NEW other \in LengthCounts, NEW k \in Nat, k + 1 \in Lengths
  PROVE  Together(count, other, k + 1) = Added(Together(count, other, k), k + 1, other[k + 1])
<1> DEFINE f == Together(count, other, k)
           g == Together(count, other, k + 1)
           x == other[k + 1]
<1>1. \A l \in Lengths : count[l] \in Nat /\ other[l] \in Nat /\ l \in Nat
  BY DEF LengthCounts, Lengths
<1>2. f \in LengthCounts /\ g \in LengthCounts
  BY TogetherType
<1>3. \A l \in Lengths : /\ f[l] = count[l] + (IF l <= k THEN other[l] ELSE 0)
                         /\ g[l] = count[l] + (IF l <= k + 1 THEN other[l] ELSE 0)
  BY DEF Together
<1> HIDE DEF f, g
<1>4. ASSUME NEW l \in Lengths
      PROVE  g[l] = Added(f, k + 1, x)[l]
  <2>1. Added(f, k + 1, x)[l] = IF l = k + 1 THEN f[k + 1] + x ELSE f[l]
    BY <1>2 DEF Added, LengthCounts
  <2>2. CASE l = k + 1
    BY <1>1, <1>3, <2>1, <2>2
  <2>3. CASE l # k + 1
    <3>1. (l <= k + 1) <=> (l <= k)
      BY <1>1, <2>3
    <3> QED
      BY <1>3, <2>1, <2>3, <3>1
  <2> QED
    BY <2>2, <2>3
<1>5. g = [l \in Lengths |-> g[l]] /\ Added(f, k + 1, x) = [l \in Lengths |-> Added(f, k + 1, x)[l]]
  BY <1>2 DEF LengthCounts, Added
<1>6. [l \in Lengths |-> g[l]] = [l \in Lengths |-> Added(f, k + 1, x)[l]]
  BY <1>4
<1> QED
  BY <1>5, <1>6 DEF f, g

\* A merged histogram holds the counts of both.
LEMMA MergedHolds ==
  ASSUME NEW count \in LengthCounts, NEW ts, Holds(ts, count),
         NEW other \in LengthCounts, NEW us, Holds(us, other)
  PROVE  /\ BothCounts(count, other) \in LengthCounts
         /\ Holds(MergeTransferStats(ts, us), BothCounts(count, other))
<1> DEFINE seq == NumbersTo(MaxLength)
<1>1. PICK h : Chain("lengths", us, ts, seq, h) /\ h[MaxLength] = MergeTransferStats(ts, us)
  BY LengthsOver
<1>2. \A l \in Lengths : count[l] \in Nat /\ other[l] \in Nat /\ l \in Nat
  BY DEF LengthCounts, Lengths
<1>3. MaxLength \in Nat /\ DOMAIN seq = 1..MaxLength /\ \A k \in 1..MaxLength : seq[k] = k
  BY DEF NumbersTo, MaxLength
<1>4. h[0] = ts /\ \A k \in 1..MaxLength : h[k] = StepOf("lengths", us, h[k - 1], k)
  BY <1>1, <1>3 DEF Chain
<1> DEFINE P == {k \in Nat : k <= MaxLength => Holds(h[k], Together(count, other, k))}
<1>5. 0 \in P
  <2>1. \A l \in Lengths : ~(l <= 0)
    BY DEF Lengths
  <2>2. Together(count, other, 0) = [l \in Lengths |-> count[l]]
    BY <1>2, <2>1 DEF Together
  <2>3. [l \in Lengths |-> count[l]] = count
    BY DEF LengthCounts
  <2> QED
    BY <1>4, <2>2, <2>3
<1>6. ASSUME NEW k \in Nat, k \in P
      PROVE  k + 1 \in P
  <2> SUFFICES ASSUME k + 1 <= MaxLength PROVE Holds(h[k + 1], Together(count, other, k + 1))
    OBVIOUS
  <2> DEFINE f == Together(count, other, k)
  <2>1. k + 1 \in Lengths /\ k + 1 \in 1..MaxLength /\ (k + 1) - 1 = k
    BY <1>3 DEF Lengths
  <2>2. Holds(h[k], f) /\ f \in LengthCounts
    BY <1>3, <1>6, TogetherType
  <2>3. Together(count, other, k + 1) = Added(f, k + 1, other[k + 1])
    BY <2>1, TogetherStep
  <2>4. h[k + 1] = IF k + 1 \in us.marks THEN AddLength(h[k], k + 1, GetLength(us, k + 1)) ELSE h[k]
    BY <1>4, <2>1 DEF StepOf
  <2>5. GetLength(us, k + 1) = other[k + 1] /\ (k + 1 \in us.marks <=> other[k + 1] > 0)
    BY <2>1, LengthRead
  <2> HIDE DEF f
  <2>6. CASE other[k + 1] > 0
    <3>1. other[k + 1] \in Nat \ {0}
      BY <1>2, <2>1, <2>6
    <3> QED
      BY <2>1, <2>2, <2>3, <2>4, <2>5, <2>6, <3>1, LengthAdded
  <2>7. CASE ~(other[k + 1] > 0)
    <3>1. other[k + 1] = 0
      BY <1>2, <2>1, <2>7
    <3>2. Added(f, k + 1, 0) = f
      <4>1. \A l \in Lengths : f[l] \in Nat
        BY <2>2 DEF LengthCounts
      <4>2. [f EXCEPT ![k + 1] = f[k + 1] + 0] = f
        BY <2>1, <2>2, <4>1 DEF LengthCounts
      <4> QED
        BY <4>2 DEF Added
    <3> QED
      BY <2>2, <2>3, <2>4, <2>5, <2>7, <3>1, <3>2
  <2> QED
    BY <2>6, <2>7
<1>7. MaxLength \in P
  <2> HIDE DEF P
  <2> QED
    BY <1>3, <1>5, <1>6, AllNumbers
<1>8. Holds(h[MaxLength], Together(count, other, MaxLength))
  BY <1>3, <1>7
<1>9. Together(count, other, MaxLength) = BothCounts(count, other)
  <2>1. \A l \in Lengths : l <= MaxLength
    BY <1>3 DEF Lengths
  <2> QED
    BY <2>1 DEF Together, BothCounts
<1> QED
  BY <1>1, <1>8, <1>9, TogetherType

\* A histogram read back from its counts in full is the same.
LEMMA ReadBack ==
  ASSUME NEW count \in LengthCounts, NEW ts, Holds(ts, count), count[MaxLength] = 0
  PROVE  ScanLegacy(Counts(ts)) = ts
<1> DEFINE seq == NumbersTo(18)
           full == Counts(ts)
           zero == [l \in Lengths |-> 0]
<1>0. Len(full) = 18 /\ 18 \in Nat /\ \A i \in 1..18 : full[i] = GetLength(ts, i - 1)
  BY DEF Counts
<1> HIDE DEF full
<1>1. PICK h : Chain("legacy", full, NewTransferStats, seq, h) /\ h[18] = ScanLegacy(full)
  BY <1>0, LegacyOver
<1>2. \A l \in Lengths : count[l] \in Nat /\ l \in Nat
  BY DEF LengthCounts, Lengths
<1>3. MaxLength = 18 /\ DOMAIN seq = 1..18 /\ \A k \in 1..18 : seq[k] = k
  BY DEF NumbersTo, MaxLength
<1>4. h[0] = NewTransferStats /\ \A k \in 1..18 : h[k] = StepOf("legacy", full, h[k - 1], k)
  BY <1>1, <1>3 DEF Chain
<1>5. zero \in LengthCounts /\ Holds(NewTransferStats, zero) /\ \A l \in Lengths : zero[l] = 0
  BY NoLengths DEF LengthCounts
<1> HIDE DEF zero
<1> DEFINE P == {k \in Nat : k + 1 <= 18 => Holds(h[k + 1], Together(zero, count, k))}
<1>6. 0 \in P
  <2>1. Together(zero, count, 0) = zero
    <3>1. \A l \in Lengths : ~(l <= 0)
      BY DEF Lengths
    <3>2. Together(zero, count, 0) = [l \in Lengths |-> zero[l]]
      BY <1>5, <3>1 DEF Together
    <3>3. [l \in Lengths |-> zero[l]] = zero
      BY <1>5 DEF LengthCounts
    <3> QED
      BY <3>2, <3>3
  <2>2. full[1] = 0
    <3>1. GetLength(ts, 0) = 0
      <4>1. 1 \in Lengths
        BY <1>3 DEF Lengths
      <4> QED
        BY <4>1, LengthRead
    <3>2. 1 \in 1..18 /\ 1 - 1 = 0
      OBVIOUS
    <3> QED
      BY <1>0, <3>1, <3>2
  <2>3. h[1] = NewTransferStats
    <3>1. 1 \in 1..18 /\ 1 - 1 = 0 /\ ~(0 > 0)
      OBVIOUS
    <3> QED
      BY <1>4, <2>2, <3>1 DEF StepOf
  <2>4. 0 + 1 = 1
    OBVIOUS
  <2> QED
    BY <1>5, <2>1, <2>3, <2>4
<1>7. ASSUME NEW k \in Nat, k \in P
      PROVE  k + 1 \in P
  <2> SUFFICES ASSUME (k + 1) + 1 <= 18 PROVE Holds(h[(k + 1) + 1], Together(zero, count, k + 1))
    OBVIOUS
  <2> DEFINE f == Together(zero, count, k)
             x == k + 1
             y == x + 1
  <2>1. x \in Lengths /\ x \in 1..18 /\ y \in 1..18 /\ y - 1 = x /\ x <= 18
    BY <1>3 DEF Lengths
  <2>2. Holds(h[x], f) /\ f \in LengthCounts
    BY <1>5, <1>7, <2>1, TogetherType
  <2>3. Together(zero, count, x) = Added(f, x, count[x])
    BY <1>5, <2>1, TogetherStep
  <2> HIDE DEF x, y
  <2>4. h[y] = IF full[y] > 0 THEN AddLength(h[x], x, full[y]) ELSE h[x]
    BY <1>4, <2>1 DEF StepOf
  <2>5. full[y] = count[x]
    <3>1. full[y] = GetLength(ts, x)
      BY <1>0, <2>1
    <3>2. GetLength(ts, x) = count[x]
      BY <2>1, LengthRead
    <3> QED
      BY <3>1, <3>2
  <2> HIDE DEF f
  <2>6. CASE count[x] > 0
    <3>1. count[x] \in Nat \ {0}
      BY <1>2, <2>1, <2>6
    <3>2. Holds(h[y], Together(zero, count, x))
      BY <2>1, <2>2, <2>3, <2>4, <2>5, <2>6, <3>1, LengthAdded
    <3> QED
      BY <3>2 DEF x, y
  <2>7. CASE ~(count[x] > 0)
    <3>1. count[x] = 0
      BY <1>2, <2>1, <2>7
    <3>2. Added(f, x, 0) = f
      <4>1. \A l \in Lengths : f[l] \in Nat
        BY <2>2 DEF LengthCounts
      <4>2. [f EXCEPT ![x] = f[x] + 0] = f
        BY <2>1, <2>2, <4>1 DEF LengthCounts
      <4> QED
        BY <4>2 DEF Added
    <3>3. Holds(h[y], Together(zero, count, x))
      BY <2>2, <2>3, <2>4, <2>5, <2>7, <3>1, <3>2
    <3> QED
      BY <3>3 DEF x, y
  <2> QED
    BY <2>6, <2>7
<1>8. 17 \in P
  <2> HIDE DEF P
  <2> QED
    BY <1>6, <1>7, AllNumbers
<1>9. Holds(h[18], Together(zero, count, 17))
  <2>1. 17 + 1 = 18 /\ 17 + 1 <= 18
    OBVIOUS
  <2> QED
    BY <1>8, <2>1
<1>10. Together(zero, count, 17) = count
  <2>1. ASSUME NEW l \in Lengths
        PROVE  Together(zero, count, 17)[l] = count[l]
    <3>1. (l <= 17) \/ (l = MaxLength)
      BY <1>3 DEF Lengths
    <3> QED
      BY <1>2, <1>5, <3>1 DEF Together
  <2>2. Together(zero, count, 17) \in LengthCounts
    BY <1>5, TogetherType
  <2> QED
    BY <2>1, <2>2 DEF LengthCounts
<1> QED
  BY <1>1, <1>9, <1>10, SameCounts DEF full

-----------------------------------------------------------------------------
(* What the maps of the flush say of the rows they were made of.  R are    *)
(* the rows of all days one after the other, J the set of those counted.   *)

CostAt(R, c) == [i \in DOMAIN R |-> R[i].cost[c]]
CountAt(R, c) == [i \in DOMAIN R |-> IF UserCounted(c, R[i]) THEN 1 ELSE 0]
OneEach(R) == [i \in DOMAIN R |-> 1]
IsTRX(tx) == BaseType(tx) = 1
IsUSDT(tx) == IsTRC20(tx) /\ (tx.name = USDT) /\ tx.ok
TRXAt(R, l) == [i \in DOMAIN R |-> IF IsTRX(R[i]) /\ (Length(R[i].amount) = l) THEN 1 ELSE 0]
USDTAt(R, l) == [i \in DOMAIN R |-> IF IsUSDT(R[i]) /\ (Length(R[i].amount) = l) THEN 1 ELSE 0]

CostsOf(R, J) == [c \in Costs |-> SumOver(CostAt(R, c), J)]
CountsOf(R, J) == [c \in UserCounters |-> SumOver(CountAt(R, c), J)]
TRXOf(R, J) == [l \in Lengths |-> SumOver(TRXAt(R, l), J)]
USDTOf(R, J) == [l \in Lengths |-> SumOver(USDTAt(R, l), J)]

CountedToo(count, tx) ==
    [c \in UserCounters |-> count[c] + (IF UserCounted(c, tx) THEN 1 ELSE 0)]

UserStat == [cost : [Costs -> Nat], count : [UserCounters -> Nat],
             trx : Histogram, usdt : Histogram]

\* The statistic of these rows.
UserOf(s, R, J) ==
    /\ s \in UserStat
    /\ s.cost = CostsOf(R, J) /\ s.count = CountsOf(R, J)
    /\ Holds(s.trx, TRXOf(R, J)) /\ Holds(s.usdt, USDTOf(R, J))
TokenOf(R, J) == [txs |-> SumOver(OneEach(R), J), cost |-> CostsOf(R, J)]
FlowOf(R, J) == [txs |-> SumOver(OneEach(R), J), amount |-> SumOver(AmountOf(R), J),
                 cost |-> CostsOf(R, J)]

\* What is summed are natural numbers, row by row.
FiguresOf(R) == [DOMAIN R -> Nat]

LEMMA FiguresType ==
  ASSUME NEW R, Indexed(R)
  PROVE  /\ \A c \in Costs : CostAt(R, c) \in FiguresOf(R)
         /\ \A c \in UserCounters : CountAt(R, c) \in FiguresOf(R)
         /\ OneEach(R) \in FiguresOf(R) /\ AmountOf(R) \in FiguresOf(R)
         /\ \A l \in Lengths : TRXAt(R, l) \in FiguresOf(R) /\ USDTAt(R, l) \in FiguresOf(R)
<1>1. \A i \in DOMAIN R : R[i].cost \in [Costs -> Nat] /\ R[i].amount \in Nat
  BY DEF Indexed, Transactions
<1>2. \A c \in Costs : CostAt(R, c) \in FiguresOf(R)
  BY <1>1 DEF CostAt, FiguresOf
<1>3. AmountOf(R) \in FiguresOf(R)
  BY <1>1 DEF AmountOf, FiguresOf
<1>4. OneEach(R) \in FiguresOf(R)
  BY DEF OneEach, FiguresOf
<1>5. \A c \in UserCounters : CountAt(R, c) \in FiguresOf(R)
  BY DEF CountAt, FiguresOf
<1>6. \A l \in Lengths : TRXAt(R, l) \in FiguresOf(R) /\ USDTAt(R, l) \in FiguresOf(R)
  BY DEF TRXAt, USDTAt, FiguresOf
<1> QED
  BY <1>2, <1>3, <1>4, <1>5, <1>6

\* The sum of a figure over rows, with one more, and over disjoint rows.
LEMMA FigureSums ==
  ASSUME NEW R, Indexed(R), NEW f \in FiguresOf(R), NEW J \in SUBSET DOMAIN R
  PROVE  /\ Amounts(f, J) /\ SumOver(f, J) \in Nat
         /\ SumOver(f, {}) = 0
         /\ \A j \in DOMAIN R \ J : SumOver(f, J \cup {j}) = SumOver(f, J) + f[j]
         /\ \A K \in SUBSET DOMAIN R :
               (J \cap K = {}) => SumOver(f, J \cup K) = SumOver(f, J) + SumOver(f, K)
<1>1. \A K \in SUBSET DOMAIN R : Amounts(f, K)
  BY FS_Subset DEF Indexed, FiguresOf, Amounts
<1>2. \A j \in DOMAIN R : f[j] \in Nat
  BY DEF FiguresOf
<1>3. ASSUME NEW j \in DOMAIN R \ J
      PROVE  SumOver(f, J \cup {j}) = SumOver(f, J) + f[j]
  BY <1>1, <1>2, SumWith
<1>4. ASSUME NEW K \in SUBSET DOMAIN R, J \cap K = {}
      PROVE  SumOver(f, J \cup K) = SumOver(f, J) + SumOver(f, K)
  BY <1>1, <1>4, SumOfUnion
<1> QED
  BY <1>1, <1>3, <1>4, SumType, SumOfNone

\* Amounts have at most nine digits.
LEMMA LengthIsMarked ==
  ASSUME NEW n \in Nat
  PROVE  Length(n) \in Lengths /\ Length(n) < MaxLength
<1> DEFINE S == {k \in 1..8 : 10^k <= n}
<1>1. 1 \in Int /\ 8 \in Int
  OBVIOUS
<1>2. IsFiniteSet(1..8) /\ Cardinality(1..8) = (IF 1 > 8 THEN 0 ELSE 8 - 1 + 1)
  BY <1>1, FS_Interval, Zenon
<1>3. Cardinality(1..8) = 8
  BY <1>2
<1>4. S \subseteq 1..8
  OBVIOUS
<1>5. Length(n) = Cardinality(S) + 1
  BY DEF Length
<1> HIDE DEF S
<1>6. Cardinality(S) \in Nat /\ Cardinality(S) <= 8
  <2>1. IsFiniteSet(S) /\ Cardinality(S) <= Cardinality(1..8)
    BY <1>2, <1>4, FS_Subset
  <2> QED
    BY <1>3, <2>1, FS_CardinalityType
<1> QED
  BY <1>5, <1>6 DEF Lengths, MaxLength

\* The sums of costs and counts with one row more.
LEMMA CostsWith ==
  ASSUME NEW R, Indexed(R), NEW J \in SUBSET DOMAIN R, NEW j \in DOMAIN R \ J
  PROVE  /\ CostsOf(R, J) \in [Costs -> Nat]
         /\ CostsOf(R, J \cup {j}) = Plus(CostsOf(R, J), R[j].cost)
         /\ CountsOf(R, J) \in [UserCounters -> Nat]
         /\ CountsOf(R, J \cup {j}) = CountedToo(CountsOf(R, J), R[j])
<1>1. ASSUME NEW c \in Costs
      PROVE  /\ SumOver(CostAt(R, c), J) \in Nat
             /\ SumOver(CostAt(R, c), J \cup {j}) = SumOver(CostAt(R, c), J) + R[j].cost[c]
  <2>1. CostAt(R, c) \in FiguresOf(R) /\ CostAt(R, c)[j] = R[j].cost[c]
    BY FiguresType DEF CostAt
  <2> QED
    BY <2>1, FigureSums
<1>2. ASSUME NEW c \in UserCounters
      PROVE  /\ SumOver(CountAt(R, c), J) \in Nat
             /\ SumOver(CountAt(R, c), J \cup {j})
                  = SumOver(CountAt(R, c), J) + (IF UserCounted(c, R[j]) THEN 1 ELSE 0)
  <2>1. CountAt(R, c) \in FiguresOf(R) /\ CountAt(R, c)[j] = (IF UserCounted(c, R[j]) THEN 1 ELSE 0)
    BY FiguresType DEF CountAt
  <2> QED
    BY <2>1, FigureSums
<1>3. CostsOf(R, J \cup {j}) = Plus(CostsOf(R, J), R[j].cost)
  BY <1>1 DEF CostsOf, Plus
<1>4. CountsOf(R, J \cup {j}) = CountedToo(CountsOf(R, J), R[j])
  BY <1>2 DEF CountsOf, CountedToo
<1> QED
  BY <1>1, <1>2, <1>3, <1>4 DEF CostsOf, CountsOf

\* Those of disjoint rows.
LEMMA CostsBoth ==
  ASSUME NEW R, Indexed(R), NEW J \in SUBSET DOMAIN R, NEW K \in SUBSET DOMAIN R, J \cap K = {}
  PROVE  /\ CostsOf(R, J \cup K) = Plus(CostsOf(R, J), CostsOf(R, K))
         /\ CountsOf(R, J \cup K) = Plus(CountsOf(R, J), CountsOf(R, K))
         /\ TRXOf(R, J \cup K) = BothCounts(TRXOf(R, J), TRXOf(R, K))
         /\ USDTOf(R, J \cup K) = BothCounts(USDTOf(R, J), USDTOf(R, K))
<1>0. \A f \in FiguresOf(R) : SumOver(f, J \cup K) = SumOver(f, J) + SumOver(f, K)
  BY FigureSums
<1>1. CostsOf(R, J \cup K) = Plus(CostsOf(R, J), CostsOf(R, K))
  <2>1. \A c \in Costs : SumOver(CostAt(R, c), J \cup K)
                           = SumOver(CostAt(R, c), J) + SumOver(CostAt(R, c), K)
    BY <1>0, FiguresType
  <2> QED
    BY <2>1 DEF CostsOf, Plus
<1>2. CountsOf(R, J \cup K) = Plus(CountsOf(R, J), CountsOf(R, K))
  <2>1. \A c \in UserCounters : SumOver(CountAt(R, c), J \cup K)
                           = SumOver(CountAt(R, c), J) + SumOver(CountAt(R, c), K)
    BY <1>0, FiguresType
  <2> QED
    BY <2>1 DEF CountsOf, Plus
<1>3. TRXOf(R, J \cup K) = BothCounts(TRXOf(R, J), TRXOf(R, K))
  <2>1. \A l \in Lengths : SumOver(TRXAt(R, l), J \cup K)
                           = SumOver(TRXAt(R, l), J) + SumOver(TRXAt(R, l), K)
    BY <1>0, FiguresType
  <2> QED
    BY <2>1 DEF TRXOf, BothCounts
<1>4. USDTOf(R, J \cup K) = BothCounts(USDTOf(R, J), USDTOf(R, K))
  <2>1. \A l \in Lengths : SumOver(USDTAt(R, l), J \cup K)
                           = SumOver(USDTAt(R, l), J) + SumOver(USDTAt(R, l), K)
    BY <1>0, FiguresType
  <2> QED
    BY <2>1 DEF USDTOf, BothCounts
<1> QED
  BY <1>1, <1>2, <1>3, <1>4

\* The counts of lengths are numbers, and one transfer raises that of its length.
LEMMA LengthsWith ==
  ASSUME NEW R, Indexed(R), NEW J \in SUBSET DOMAIN R
  PROVE  /\ TRXOf(R, J) \in LengthCounts /\ USDTOf(R, J) \in LengthCounts
         /\ \A j \in DOMAIN R \ J :
               /\ TRXOf(R, J \cup {j}) = IF IsTRX(R[j]) THEN Added(TRXOf(R, J), Length(R[j].amount), 1)
                                         ELSE TRXOf(R, J)
               /\ USDTOf(R, J \cup {j}) = IF IsUSDT(R[j]) THEN Added(USDTOf(R, J), Length(R[j].amount), 1)
                                          ELSE USDTOf(R, J)
<1>0. \A f \in FiguresOf(R) : /\ SumOver(f, J) \in Nat
                              /\ \A j \in DOMAIN R \ J : SumOver(f, J \cup {j}) = SumOver(f, J) + f[j]
  BY FigureSums
<1>1. \A l \in Lengths : TRXAt(R, l) \in FiguresOf(R) /\ USDTAt(R, l) \in FiguresOf(R)
  BY FiguresType
<1>2. TRXOf(R, J) \in LengthCounts /\ USDTOf(R, J) \in LengthCounts
  BY <1>0, <1>1 DEF TRXOf, USDTOf, LengthCounts
<1>3. ASSUME NEW j \in DOMAIN R \ J
      PROVE  TRXOf(R, J \cup {j}) = IF IsTRX(R[j]) THEN Added(TRXOf(R, J), Length(R[j].amount), 1)
                                    ELSE TRXOf(R, J)
  <2>1. \A l \in Lengths : SumOver(TRXAt(R, l), J \cup {j}) = SumOver(TRXAt(R, l), J)
                             + (IF IsTRX(R[j]) /\ (Length(R[j].amount) = l) THEN 1 ELSE 0)
    BY <1>0, <1>1 DEF TRXAt
  <2>2. \A l \in Lengths : TRXOf(R, J \cup {j})[l] = TRXOf(R, J)[l]
                             + (IF IsTRX(R[j]) /\ (Length(R[j].amount) = l) THEN 1 ELSE 0)
    BY <2>1 DEF TRXOf
  <2>3. \A l \in Lengths : TRXOf(R, J)[l] \in Nat
    BY <1>2 DEF LengthCounts
  <2>4. TRXOf(R, J \cup {j}) = [l \in Lengths |-> TRXOf(R, J \cup {j})[l]]
    BY DEF TRXOf
  <2>5. TRXOf(R, J) = [l \in Lengths |-> TRXOf(R, J)[l]]
    BY DEF TRXOf
  <2> DEFINE f == TRXOf(R, J)
             g == TRXOf(R, J \cup {j})
             m == Length(R[j].amount)
  <2> HIDE DEF f, g, m
  <2>6. CASE IsTRX(R[j])
    <3>1. \A l \in Lengths : g[l] = IF l = m THEN f[m] + 1 ELSE f[l]
      <4>1. \A l \in Lengths : /\ g[l] = f[l] + (IF IsTRX(R[j]) /\ (m = l) THEN 1 ELSE 0)
                               /\ f[l] \in Nat
        BY <2>2, <2>3 DEF f, g, m
      <4> QED
        BY <2>6, <4>1
    <3>2. g = [l \in Lengths |-> IF l = m THEN f[m] + 1 ELSE f[l]]
      BY <2>4, <3>1 DEF g
    <3>3. Added(f, m, 1) = [l \in Lengths |-> IF l = m THEN f[m] + 1 ELSE f[l]]
      BY <1>2 DEF Added, LengthCounts, f
    <3> QED
      BY <2>6, <3>2, <3>3 DEF f, g, m
  <2>7. CASE ~IsTRX(R[j])
    <3>1. \A l \in Lengths : g[l] = f[l]
      <4>1. \A l \in Lengths : /\ g[l] = f[l] + (IF IsTRX(R[j]) /\ (m = l) THEN 1 ELSE 0)
                               /\ f[l] \in Nat
        BY <2>2, <2>3 DEF f, g, m
      <4> QED
        BY <2>7, <4>1
    <3> QED
      BY <2>4, <2>5, <2>7, <3>1 DEF f, g
  <2> QED
    BY <2>6, <2>7
<1>4. ASSUME NEW j \in DOMAIN R \ J
      PROVE  USDTOf(R, J \cup {j}) = IF IsUSDT(R[j]) THEN Added(USDTOf(R, J), Length(R[j].amount), 1)
                                     ELSE USDTOf(R, J)
  <2>1. \A l \in Lengths : SumOver(USDTAt(R, l), J \cup {j}) = SumOver(USDTAt(R, l), J)
                             + (IF IsUSDT(R[j]) /\ (Length(R[j].amount) = l) THEN 1 ELSE 0)
    BY <1>0, <1>1 DEF USDTAt
  <2>2. \A l \in Lengths : USDTOf(R, J \cup {j})[l] = USDTOf(R, J)[l]
                             + (IF IsUSDT(R[j]) /\ (Length(R[j].amount) = l) THEN 1 ELSE 0)
    BY <2>1 DEF USDTOf
  <2>3. \A l \in Lengths : USDTOf(R, J)[l] \in Nat
    BY <1>2 DEF LengthCounts
  <2>4. USDTOf(R, J \cup {j}) = [l \in Lengths |-> USDTOf(R, J \cup {j})[l]]
    BY DEF USDTOf
  <2>5. USDTOf(R, J) = [l \in Lengths |-> USDTOf(R, J)[l]]
    BY DEF USDTOf
  <2> DEFINE f == USDTOf(R, J)
             g == USDTOf(R, J \cup {j})
             m == Length(R[j].amount)
  <2> HIDE DEF f, g, m
  <2>6. CASE IsUSDT(R[j])
    <3>1. \A l \in Lengths : g[l] = IF l = m THEN f[m] + 1 ELSE f[l]
      <4>1. \A l \in Lengths : /\ g[l] = f[l] + (IF IsUSDT(R[j]) /\ (m = l) THEN 1 ELSE 0)
                               /\ f[l] \in Nat
        BY <2>2, <2>3 DEF f, g, m
      <4> QED
        BY <2>6, <4>1
    <3>2. g = [l \in Lengths |-> IF l = m THEN f[m] + 1 ELSE f[l]]
      BY <2>4, <3>1 DEF g
    <3>3. Added(f, m, 1) = [l \in Lengths |-> IF l = m THEN f[m] + 1 ELSE f[l]]
      BY <1>2 DEF Added, LengthCounts, f
    <3> QED
      BY <2>6, <3>2, <3>3 DEF f, g, m
  <2>7. CASE ~IsUSDT(R[j])
    <3>1. \A l \in Lengths : g[l] = f[l]
      <4>1. \A l \in Lengths : /\ g[l] = f[l] + (IF IsUSDT(R[j]) /\ (m = l) THEN 1 ELSE 0)
                               /\ f[l] \in Nat
        BY <2>2, <2>3 DEF f, g, m
      <4> QED
        BY <2>7, <4>1
    <3> QED
      BY <2>4, <2>5, <2>7, <3>1 DEF f, g
  <2> QED
    BY <2>6, <2>7
<1> QED
  BY <1>2, <1>3, <1>4

\* An empty statistic is that of no rows.
LEMMA NoUserRows ==
  ASSUME NEW R, Indexed(R)
  PROVE  UserOf(NewUserStatistic, R, {})
<1>1. \A f \in FiguresOf(R) : SumOver(f, {}) = 0
  BY FigureSums
<1>2. CostsOf(R, {}) = Zero(Costs) /\ CountsOf(R, {}) = Zero(UserCounters)
  <2>1. \A c \in Costs : SumOver(CostAt(R, c), {}) = 0
    BY <1>1, FiguresType
  <2>2. \A c \in UserCounters : SumOver(CountAt(R, c), {}) = 0
    BY <1>1, FiguresType
  <2> QED
    BY <2>1, <2>2 DEF CostsOf, CountsOf, Zero
<1>3. TRXOf(R, {}) = [l \in Lengths |-> 0] /\ USDTOf(R, {}) = [l \in Lengths |-> 0]
  <2>1. \A l \in Lengths : SumOver(TRXAt(R, l), {}) = 0 /\ SumOver(USDTAt(R, l), {}) = 0
    BY <1>1, FiguresType
  <2> QED
    BY <2>1 DEF TRXOf, USDTOf
<1>4. Holds(NewTransferStats, [l \in Lengths |-> 0]) /\ NewTransferStats \in Histogram
  BY NoLengths DEF Holds
<1>5. Zero(Costs) \in [Costs -> Nat] /\ Zero(UserCounters) \in [UserCounters -> Nat]
  BY DEF Zero
<1>6. NewUserStatistic = [cost |-> Zero(Costs), count |-> Zero(UserCounters),
                          trx |-> NewTransferStats, usdt |-> NewTransferStats]
  BY DEF NewUserStatistic
<1> QED
  BY <1>2, <1>3, <1>4, <1>5, <1>6 DEF UserOf, UserStat

\* One row more.
LEMMA UserRowMore ==
  ASSUME NEW R, Indexed(R), NEW J \in SUBSET DOMAIN R, NEW j \in DOMAIN R \ J,
         NEW s, UserOf(s, R, J)
  PROVE  UserOf(UserAdd(s, R[j]), R, J \cup {j})
<1> DEFINE tx == R[j]
           t == UserAdd(s, tx)
           m == Length(tx.amount)
<1>1. /\ s.cost = CostsOf(R, J) /\ s.count = CountsOf(R, J)
      /\ Holds(s.trx, TRXOf(R, J)) /\ Holds(s.usdt, USDTOf(R, J))
  BY DEF UserOf
<1>2. m \in Lengths /\ 1 \in Nat \ {0}
  <2>1. tx.amount \in Nat
    BY DEF Indexed, Transactions
  <2> QED
    BY <2>1, LengthIsMarked
<1>3. TRXOf(R, J) \in LengthCounts /\ USDTOf(R, J) \in LengthCounts
  BY LengthsWith
<1>4. /\ t.cost = Plus(s.cost, tx.cost)
      /\ t.count = CountedToo(s.count, tx)
      /\ t.trx = (IF IsTRX(tx) THEN AddLength(s.trx, m, 1) ELSE s.trx)
      /\ t.usdt = (IF IsUSDT(tx) THEN AddLength(s.usdt, m, 1) ELSE s.usdt)
      /\ t = [cost |-> t.cost, count |-> t.count, trx |-> t.trx, usdt |-> t.usdt]
  BY DEF UserAdd, IsTRX, IsUSDT, CountedToo
<1> HIDE DEF t, m, tx
<1>5. t.cost = CostsOf(R, J \cup {j}) /\ t.cost \in [Costs -> Nat]
  <2>1. CostsOf(R, J \cup {j}) = Plus(CostsOf(R, J), tx.cost)
    BY CostsWith DEF tx
  <2>2. CostsOf(R, J \cup {j}) \in [Costs -> Nat]
    <3>1. \A c \in Costs : SumOver(CostAt(R, c), J \cup {j}) \in Nat
      <4>1. J \cup {j} \in SUBSET DOMAIN R
        OBVIOUS
      <4> QED
        BY <4>1, FiguresType, FigureSums
    <3> QED
      BY <3>1 DEF CostsOf
  <2> QED
    BY <1>1, <1>4, <2>1, <2>2
<1>6. t.count = CountsOf(R, J \cup {j}) /\ t.count \in [UserCounters -> Nat]
  <2>1. CountsOf(R, J \cup {j}) = CountedToo(CountsOf(R, J), tx)
    BY CostsWith DEF tx
  <2>2. CountsOf(R, J) \in [UserCounters -> Nat]
    BY CostsWith
  <2>3. t.count = CountsOf(R, J \cup {j})
    BY <1>1, <1>4, <2>1
  <2>4. CountsOf(R, J \cup {j}) \in [UserCounters -> Nat]
    <3>1. \A c \in UserCounters : SumOver(CountAt(R, c), J \cup {j}) \in Nat
      <4>1. J \cup {j} \in SUBSET DOMAIN R
        OBVIOUS
      <4> QED
        BY <4>1, FiguresType, FigureSums
    <3> QED
      BY <3>1 DEF CountsOf
  <2> QED
    BY <2>3, <2>4
<1>7. Holds(t.trx, TRXOf(R, J \cup {j}))
  <2>1. TRXOf(R, J \cup {j}) = IF IsTRX(tx) THEN Added(TRXOf(R, J), m, 1) ELSE TRXOf(R, J)
    BY LengthsWith DEF tx, m
  <2> QED
    BY <1>1, <1>2, <1>3, <1>4, <2>1, LengthAdded
<1>8. Holds(t.usdt, USDTOf(R, J \cup {j}))
  <2>1. USDTOf(R, J \cup {j}) = IF IsUSDT(tx) THEN Added(USDTOf(R, J), m, 1) ELSE USDTOf(R, J)
    BY LengthsWith DEF tx, m
  <2> QED
    BY <1>1, <1>2, <1>3, <1>4, <2>1, LengthAdded
<1>9. t \in UserStat
  BY <1>4, <1>5, <1>6, <1>7, <1>8 DEF UserStat, Holds
<1>10. UserOf(t, R, J \cup {j})
  BY <1>5, <1>6, <1>7, <1>8, <1>9 DEF UserOf
<1> QED
  BY <1>10 DEF t, tx

\* Statistics of different rows, merged.
LEMMA UserRowsBoth ==
  ASSUME NEW R, Indexed(R), NEW J \in SUBSET DOMAIN R, NEW K \in SUBSET DOMAIN R, J \cap K = {},
         NEW s, UserOf(s, R, J), NEW o, UserOf(o, R, K)
  PROVE  UserOf(UserMerge(s, o), R, J \cup K)
<1> DEFINE t == UserMerge(s, o)
<1>1. /\ s.cost = CostsOf(R, J) /\ s.count = CountsOf(R, J)
      /\ Holds(s.trx, TRXOf(R, J)) /\ Holds(s.usdt, USDTOf(R, J))
      /\ o.cost = CostsOf(R, K) /\ o.count = CountsOf(R, K)
      /\ Holds(o.trx, TRXOf(R, K)) /\ Holds(o.usdt, USDTOf(R, K))
      /\ s \in UserStat /\ o \in UserStat
  BY DEF UserOf
<1>2. /\ TRXOf(R, J) \in LengthCounts /\ USDTOf(R, J) \in LengthCounts
      /\ TRXOf(R, K) \in LengthCounts /\ USDTOf(R, K) \in LengthCounts
  BY LengthsWith
<1>3. /\ t.cost = Plus(s.cost, o.cost) /\ t.count = Plus(s.count, o.count)
      /\ t.trx = MergeTransferStats(s.trx, o.trx) /\ t.usdt = MergeTransferStats(s.usdt, o.usdt)
      /\ t = [cost |-> t.cost, count |-> t.count, trx |-> t.trx, usdt |-> t.usdt]
  BY DEF UserMerge
<1> HIDE DEF t
<1>4. Holds(t.trx, TRXOf(R, J \cup K)) /\ Holds(t.usdt, USDTOf(R, J \cup K))
  <2>1. Holds(t.trx, BothCounts(TRXOf(R, J), TRXOf(R, K)))
    BY <1>1, <1>2, <1>3, MergedHolds
  <2>2. Holds(t.usdt, BothCounts(USDTOf(R, J), USDTOf(R, K)))
    BY <1>1, <1>2, <1>3, MergedHolds
  <2> QED
    BY <2>1, <2>2, CostsBoth
<1>5. t.cost = CostsOf(R, J \cup K) /\ t.count = CountsOf(R, J \cup K)
  BY <1>1, <1>3, CostsBoth
<1>6. t.cost \in [Costs -> Nat] /\ t.count \in [UserCounters -> Nat]
  BY <1>1, <1>3 DEF UserStat, Plus
<1>7. t \in UserStat
  BY <1>3, <1>4, <1>6 DEF UserStat, Holds
<1>8. UserOf(t, R, J \cup K)
  BY <1>4, <1>5, <1>7 DEF UserOf
<1> QED
  BY <1>8 DEF t

\* There is one statistic of some rows.
LEMMA OneUserOf ==
  ASSUME NEW R, NEW J, NEW s, UserOf(s, R, J), NEW o, UserOf(o, R, J)
  PROVE  s = o
<1>1. s.trx = o.trx /\ s.usdt = o.usdt
  BY SameCounts DEF UserOf
<1>2. s.cost = o.cost /\ s.count = o.count /\ s \in UserStat /\ o \in UserStat
  BY DEF UserOf
<1> QED
  BY <1>1, <1>2 DEF UserStat

-----------------------------------------------------------------------------
(* Maps of statistics.  P and Q say which rows are counted under which     *)
(* key: a map has the statistic of its rows for every key.                 *)

RowsIn(R, P, a) == {j \in DOMAIN R : <<a, j>> \in P}
KeysIn(P) == {p[1] : p \in P}
Tagged(R, P) == \A p \in P : (p = <<p[1], p[2]>>) /\ (p[2] \in DOMAIN R)

UserFor(R, J) == CHOOSE s : UserOf(s, R, J)
UserTokenFor(R, J, K) == [from |-> FlowOf(R, J), to |-> FlowOf(R, K)]

MapKinds == {"users", "tokens", "userTokens"}
StatOf(kind, R, J, K) ==
    CASE kind = "users"      -> UserFor(R, J)
      [] kind = "tokens"     -> TokenOf(R, J)
      [] kind = "userTokens" -> UserTokenFor(R, J, K)
MergeOf(kind, s, o) ==
    CASE kind = "users"      -> UserMerge(s, o)
      [] kind = "tokens"     -> TokenMerge(s, o)
      [] kind = "userTokens" -> UserTokenMerge(s, o)

MapOf(kind, R, P, Q) ==
    [a \in KeysIn(P \cup Q) |-> StatOf(kind, R, RowsIn(R, P, a), RowsIn(R, Q, a))]

\* Any rows have a statistic.
LEMMA UserForIsOf ==
  ASSUME NEW R, Indexed(R), NEW J \in SUBSET DOMAIN R
  PROVE  UserOf(UserFor(R, J), R, J)
<1> DEFINE P == {K \in SUBSET J : \E s : UserOf(s, R, K)}
<1>1. IsFiniteSet(J)
  BY FS_Subset DEF Indexed
<1>2. {} \in P
  BY NoUserRows
<1>3. ASSUME NEW K \in P, NEW j \in J, K \subseteq J, j \notin K
      PROVE  K \cup {j} \in P
  <2>1. PICK s : UserOf(s, R, K)
    OBVIOUS
  <2>2. j \in DOMAIN R \ K /\ K \in SUBSET DOMAIN R
    BY <1>3
  <2> QED
    BY <1>3, <2>1, <2>2, UserRowMore
<1>4. J \in P
  <2> HIDE DEF P
  <2> QED
    BY <1>1, <1>2, <1>3, FiniteInduction
<1> QED
  BY <1>4 DEF UserFor

\* Statistics with one row more, and of no rows.
LEMMA StatWith ==
  ASSUME NEW R, Indexed(R), NEW J \in SUBSET DOMAIN R, NEW j \in DOMAIN R \ J
  PROVE  /\ UserAdd(UserFor(R, J), R[j]) = UserFor(R, J \cup {j})
         /\ TokenAdd(TokenOf(R, J), R[j]) = TokenOf(R, J \cup {j})
         /\ FlowAdd(FlowOf(R, J), R[j]) = FlowOf(R, J \cup {j})
<1>1. UserAdd(UserFor(R, J), R[j]) = UserFor(R, J \cup {j})
  <2>1. UserOf(UserFor(R, J), R, J)
    BY UserForIsOf
  <2>2. UserOf(UserAdd(UserFor(R, J), R[j]), R, J \cup {j})
    BY <2>1, UserRowMore
  <2>3. UserOf(UserFor(R, J \cup {j}), R, J \cup {j})
    <3>1. J \cup {j} \in SUBSET DOMAIN R
      OBVIOUS
    <3> QED
      BY <3>1, UserForIsOf
  <2> QED
    BY <2>2, <2>3, OneUserOf
<1>2. /\ SumOver(OneEach(R), J \cup {j}) = SumOver(OneEach(R), J) + 1
      /\ SumOver(AmountOf(R), J \cup {j}) = SumOver(AmountOf(R), J) + R[j].amount
  <2>1. OneEach(R) \in FiguresOf(R) /\ AmountOf(R) \in FiguresOf(R)
    BY FiguresType
  <2>2. OneEach(R)[j] = 1 /\ AmountOf(R)[j] = R[j].amount
    BY DEF OneEach, AmountOf
  <2> QED
    BY <2>1, <2>2, FigureSums
<1>3. CostsOf(R, J \cup {j}) = Plus(CostsOf(R, J), R[j].cost)
  BY CostsWith
<1> QED
  BY <1>1, <1>2, <1>3 DEF TokenAdd, TokenOf, FlowAdd, FlowOf

LEMMA StatOfNone ==
  ASSUME NEW R, Indexed(R)
  PROVE  /\ NewUserStatistic = UserFor(R, {})
         /\ NewTokenStatistic = TokenOf(R, {})
         /\ NewFlow = FlowOf(R, {})
<1>0. {} \in SUBSET DOMAIN R
  OBVIOUS
<1>1. NewUserStatistic = UserFor(R, {})
  BY <1>0, NoUserRows, UserForIsOf, OneUserOf
<1>2. SumOver(OneEach(R), {}) = 0 /\ SumOver(AmountOf(R), {}) = 0
  BY SumOfNone
<1>3. CostsOf(R, {}) = Zero(Costs)
  BY SumOfNone DEF CostsOf, Zero
<1> QED
  BY <1>1, <1>2, <1>3 DEF NewTokenStatistic, NewFlow, TokenOf, FlowOf

\* Statistics of different rows, merged.
LEMMA StatsBoth ==
  ASSUME NEW R, Indexed(R), NEW kind \in MapKinds,
         NEW J \in SUBSET DOMAIN R, NEW J2 \in SUBSET DOMAIN R, J \cap J2 = {},
         NEW K \in SUBSET DOMAIN R, NEW K2 \in SUBSET DOMAIN R, K \cap K2 = {}
  PROVE  MergeOf(kind, StatOf(kind, R, J, K), StatOf(kind, R, J2, K2))
           = StatOf(kind, R, J \cup J2, K \cup K2)
<1>1. ASSUME NEW A \in SUBSET DOMAIN R, NEW B \in SUBSET DOMAIN R, A \cap B = {}
      PROVE  /\ SumOver(OneEach(R), A \cup B) = SumOver(OneEach(R), A) + SumOver(OneEach(R), B)
             /\ SumOver(AmountOf(R), A \cup B) = SumOver(AmountOf(R), A) + SumOver(AmountOf(R), B)
             /\ CostsOf(R, A \cup B) = Plus(CostsOf(R, A), CostsOf(R, B))
  BY <1>1, FiguresType, FigureSums, CostsBoth
<1>2. CASE kind = "users"
  <2>1. UserOf(UserFor(R, J), R, J) /\ UserOf(UserFor(R, J2), R, J2)
    BY UserForIsOf
  <2>2. UserOf(UserMerge(UserFor(R, J), UserFor(R, J2)), R, J \cup J2)
    BY <2>1, UserRowsBoth
  <2>3. UserOf(UserFor(R, J \cup J2), R, J \cup J2)
    <3>1. J \cup J2 \in SUBSET DOMAIN R
      OBVIOUS
    <3> QED
      BY <3>1, UserForIsOf
  <2>4. UserMerge(UserFor(R, J), UserFor(R, J2)) = UserFor(R, J \cup J2)
    BY <2>2, <2>3, OneUserOf
  <2> QED
    BY <1>2, <2>4 DEF MergeOf, StatOf
<1>3. CASE kind = "tokens"
  <2>1. TokenMerge(TokenOf(R, J), TokenOf(R, J2)) = TokenOf(R, J \cup J2)
    BY <1>1 DEF TokenMerge, TokenOf
  <2> QED
    BY <1>3, <2>1 DEF MergeOf, StatOf
<1>4. CASE kind = "userTokens"
  <2>1. FlowMerge(FlowOf(R, J), FlowOf(R, J2)) = FlowOf(R, J \cup J2)
    BY <1>1 DEF FlowMerge, FlowOf
  <2>2. FlowMerge(FlowOf(R, K), FlowOf(R, K2)) = FlowOf(R, K \cup K2)
    BY <1>1 DEF FlowMerge, FlowOf
  <2>3. UserTokenMerge(UserTokenFor(R, J, K), UserTokenFor(R, J2, K2))
          = UserTokenFor(R, J \cup J2, K \cup K2)
    BY <2>1, <2>2 DEF UserTokenMerge, UserTokenFor
  <2> QED
    BY <1>4, <2>3 DEF MergeOf, StatOf
<1> QED
  BY <1>2, <1>3, <1>4 DEF MapKinds

\* Which keys there are, and which rows of each.
LEMMA KeyHasRows ==
  ASSUME NEW R, NEW P, Tagged(R, P), NEW a
  PROVE  /\ a \in KeysIn(P) <=> RowsIn(R, P, a) # {}
         /\ RowsIn(R, P, a) \in SUBSET DOMAIN R
<1>1. ASSUME a \in KeysIn(P) PROVE RowsIn(R, P, a) # {}
  <2>1. PICK p \in P : a = p[1]
    BY <1>1 DEF KeysIn
  <2>2. p = <<a, p[2]>> /\ p[2] \in DOMAIN R
    BY <2>1 DEF Tagged
  <2>3. p[2] \in RowsIn(R, P, a)
    BY <2>2 DEF RowsIn
  <2> QED
    BY <2>3
<1>2. ASSUME RowsIn(R, P, a) # {} PROVE a \in KeysIn(P)
  <2>1. PICK j : <<a, j>> \in P
    BY <1>2 DEF RowsIn
  <2>2. <<a, j>>[1] = a
    OBVIOUS
  <2> QED
    BY <2>1, <2>2 DEF KeysIn
<1> QED
  BY <1>1, <1>2 DEF RowsIn

\* A map that has the right keys, and under each the right statistic.
HasStats(kind, R, P, Q, m) ==
    /\ m = [a \in KeysIn(P \cup Q) |-> m[a]]
    /\ \A a \in KeysIn(P \cup Q) : m[a] = StatOf(kind, R, RowsIn(R, P, a), RowsIn(R, Q, a))

LEMMA MapIs ==
  ASSUME NEW kind, NEW R, NEW P, NEW Q, NEW m, HasStats(kind, R, P, Q, m)
  PROVE  m = MapOf(kind, R, P, Q)
<1> DEFINE g(a) == StatOf(kind, R, RowsIn(R, P, a), RowsIn(R, Q, a))
           S == KeysIn(P \cup Q)
<1>1. m = [a \in S |-> m[a]] /\ \A a \in S : m[a] = g(a)
  BY DEF HasStats
<1>2. MapOf(kind, R, P, Q) = [a \in S |-> g(a)]
  BY DEF MapOf
<1> HIDE DEF g, S
<1> QED
  BY <1>1, <1>2

\* Two maps of different rows, merged.
MapsMerged(kind, f, g) ==
    CASE kind = "users"      -> UsersMerged(f, g)
      [] kind = "tokens"     -> TokensMerged(f, g)
      [] kind = "userTokens" -> UserTokensMerged(f, g)

Overlaid(kind, f, g) ==
    [a \in DOMAIN f \cup DOMAIN g |->
        IF a \notin DOMAIN g THEN f[a]
        ELSE IF a \notin DOMAIN f THEN g[a] ELSE MergeOf(kind, f[a], g[a])]

LEMMA MergedIs ==
  ASSUME NEW kind \in MapKinds, NEW f, NEW g
  PROVE  MapsMerged(kind, f, g) = Overlaid(kind, f, g)
<1>1. CASE kind = "users"
  BY <1>1 DEF MapsMerged, UsersMerged, MergedInto, MergeOf, Overlaid
<1>2. CASE kind = "tokens"
  BY <1>2 DEF MapsMerged, TokensMerged, MergedInto, MergeOf, Overlaid
<1>3. CASE kind = "userTokens"
  BY <1>3 DEF MapsMerged, UserTokensMerged, MergedInto, MergeOf, Overlaid
<1> QED
  BY <1>1, <1>2, <1>3 DEF MapKinds

LEMMA MapsBoth ==
  ASSUME NEW R, Indexed(R), NEW kind \in MapKinds,
         NEW P, NEW P2, Tagged(R, P), Tagged(R, P2), P \cap P2 = {},
         NEW Q, NEW Q2, Tagged(R, Q), Tagged(R, Q2), Q \cap Q2 = {}
  PROVE  MapsMerged(kind, MapOf(kind, R, P, Q), MapOf(kind, R, P2, Q2))
           = MapOf(kind, R, P \cup P2, Q \cup Q2)
<1> DEFINE f == MapOf(kind, R, P, Q)
           g == MapOf(kind, R, P2, Q2)
           h == MapsMerged(kind, f, g)
           Keys == KeysIn((P \cup P2) \cup (Q \cup Q2))
<1>1. DOMAIN f = KeysIn(P \cup Q) /\ DOMAIN g = KeysIn(P2 \cup Q2)
  BY DEF MapOf
<1>2. DOMAIN f \cup DOMAIN g = Keys
  BY <1>1 DEF KeysIn
<1> HIDE DEF f, g
<1>3. h = Overlaid(kind, f, g)
  BY MergedIs
<1> HIDE DEF h
<1>4. h = [a \in Keys |-> h[a]] /\ \A a \in Keys :
          h[a] = (IF a \notin DOMAIN g THEN f[a]
                  ELSE IF a \notin DOMAIN f THEN g[a] ELSE MergeOf(kind, f[a], g[a]))
  BY <1>2, <1>3 DEF Overlaid
<1>5. ASSUME NEW a \in Keys
      PROVE  h[a] = StatOf(kind, R, RowsIn(R, P \cup P2, a), RowsIn(R, Q \cup Q2, a))
  <2> DEFINE J == RowsIn(R, P, a)
             J2 == RowsIn(R, P2, a)
             K == RowsIn(R, Q, a)
             K2 == RowsIn(R, Q2, a)
  <2>1. /\ RowsIn(R, P \cup P2, a) = J \cup J2 /\ RowsIn(R, Q \cup Q2, a) = K \cup K2
        /\ J \cap J2 = {} /\ K \cap K2 = {}
        /\ J \in SUBSET DOMAIN R /\ J2 \in SUBSET DOMAIN R
        /\ K \in SUBSET DOMAIN R /\ K2 \in SUBSET DOMAIN R
    BY DEF RowsIn
  <2>2. /\ a \in DOMAIN f => f[a] = StatOf(kind, R, J, K)
        /\ a \in DOMAIN g => g[a] = StatOf(kind, R, J2, K2)
    BY <1>1 DEF MapOf, f, g
  <2>3. Tagged(R, P \cup Q) /\ Tagged(R, P2 \cup Q2)
    BY DEF Tagged
  <2>4. a \notin DOMAIN g => J2 = {} /\ K2 = {}
    <3>1. a \notin DOMAIN g => RowsIn(R, P2 \cup Q2, a) = {}
      BY <1>1, <2>3, KeyHasRows
    <3> QED
      BY <3>1 DEF RowsIn
  <2>5. a \notin DOMAIN f => J = {} /\ K = {}
    <3>1. a \notin DOMAIN f => RowsIn(R, P \cup Q, a) = {}
      BY <1>1, <2>3, KeyHasRows
    <3> QED
      BY <3>1 DEF RowsIn
  <2> HIDE DEF J, J2, K, K2
  <2>6. MergeOf(kind, StatOf(kind, R, J, K), StatOf(kind, R, J2, K2))
           = StatOf(kind, R, J \cup J2, K \cup K2)
    BY <2>1, StatsBoth
  <2>7. CASE a \notin DOMAIN g
    <3>1. a \in DOMAIN f /\ J \cup J2 = J /\ K \cup K2 = K
      BY <1>2, <2>4, <2>7
    <3> QED
      BY <1>4, <2>1, <2>2, <2>7, <3>1
  <2>8. CASE a \in DOMAIN g /\ a \notin DOMAIN f
    <3>1. J \cup J2 = J2 /\ K \cup K2 = K2
      BY <2>5, <2>8
    <3> QED
      BY <1>4, <2>1, <2>2, <2>8, <3>1
  <2>9. CASE a \in DOMAIN g /\ a \in DOMAIN f
    BY <1>4, <2>1, <2>2, <2>6, <2>9
  <2> QED
    BY <2>7, <2>8, <2>9
<1>6. HasStats(kind, R, P \cup P2, Q \cup Q2, h)
  BY <1>4, <1>5 DEF HasStats, Keys
<1>7. h = MapOf(kind, R, P \cup P2, Q \cup Q2)
  BY <1>6, MapIs
<1> QED
  BY <1>7 DEF h, f, g

\* Maps of several days, whose rows are different ones, merged one after the other.
MergedFor(kind, maps) ==
    CASE kind = "users"      -> MergedOver(maps, UserMerge)
      [] kind = "tokens"     -> MergedOver(maps, TokenMerge)
      [] kind = "userTokens" -> MergedOver(maps, UserTokenMerge)

UpTo(P, k) == UNION {P[d] : d \in 1..k}
Apart(P, n) == \A d, e \in 1..n : d # e => P[d] \cap P[e] = {}
WindowOf(kind, R, maps, n, P, Q) ==
    /\ DOMAIN maps = 1..n /\ Apart(P, n) /\ Apart(Q, n)
    /\ \A d \in 1..n : /\ Tagged(R, P[d]) /\ Tagged(R, Q[d])
                       /\ maps[d] = MapOf(kind, R, P[d], Q[d])

LEMMA WindowChain ==
  ASSUME NEW kind \in MapKinds, NEW maps, NEW n \in Nat, DOMAIN maps = 1..n
  PROVE  \E h : /\ h[0] = Empty /\ h[n] = MergedFor(kind, maps)
                /\ \A k \in 1..n : h[k] = MapsMerged(kind, h[k - 1], maps[k])
<1>1. CASE kind = "users"
  <2>1. PICK h : Chain("users", {}, Empty, maps, h) /\ h[n] = MergedOver(maps, UserMerge)
    BY UsersOver
  <2>2. \A k \in 1..n : h[k] = MapsMerged(kind, h[k - 1], maps[k])
    BY <1>1, <2>1 DEF Chain, StepOf, MapsMerged
  <2>3. h[0] = Empty /\ h[n] = MergedFor(kind, maps)
    BY <1>1, <2>1 DEF Chain, MergedFor
  <2> QED
    BY <2>2, <2>3
<1>2. CASE kind = "tokens"
  <2>1. PICK h : Chain("tokens", {}, Empty, maps, h) /\ h[n] = MergedOver(maps, TokenMerge)
    BY TokensOver
  <2>2. \A k \in 1..n : h[k] = MapsMerged(kind, h[k - 1], maps[k])
    BY <1>2, <2>1 DEF Chain, StepOf, MapsMerged
  <2>3. h[0] = Empty /\ h[n] = MergedFor(kind, maps)
    BY <1>2, <2>1 DEF Chain, MergedFor
  <2> QED
    BY <2>2, <2>3
<1>3. CASE kind = "userTokens"
  <2>1. PICK h : Chain("userTokens", {}, Empty, maps, h) /\ h[n] = MergedOver(maps, UserTokenMerge)
    BY UserTokensOver
  <2>2. \A k \in 1..n : h[k] = MapsMerged(kind, h[k - 1], maps[k])
    BY <1>3, <2>1 DEF Chain, StepOf, MapsMerged
  <2>3. h[0] = Empty /\ h[n] = MergedFor(kind, maps)
    BY <1>3, <2>1 DEF Chain, MergedFor
  <2> QED
    BY <2>2, <2>3
<1> QED
  BY <1>1, <1>2, <1>3 DEF MapKinds

\* A map of no rows is empty.
LEMMA NoMap ==
  ASSUME NEW kind, NEW R
  PROVE  MapOf(kind, R, {}, {}) = Empty
<1>1. KeysIn({} \cup {}) = {}
  BY DEF KeysIn
<1> QED
  BY <1>1 DEF MapOf, Empty

LEMMA WindowMerged ==
  ASSUME NEW R, Indexed(R), NEW kind \in MapKinds, NEW n \in Nat, NEW maps, NEW P, NEW Q,
         WindowOf(kind, R, maps, n, P, Q)
  PROVE  MergedFor(kind, maps) = MapOf(kind, R, UpTo(P, n), UpTo(Q, n))
<1>1. PICK h : /\ h[0] = Empty /\ h[n] = MergedFor(kind, maps)
               /\ \A k \in 1..n : h[k] = MapsMerged(kind, h[k - 1], maps[k])
  BY WindowChain DEF WindowOf
<1> DEFINE S == {k \in Nat : k <= n => h[k] = MapOf(kind, R, UpTo(P, k), UpTo(Q, k))}
<1>2. 0 \in S
  <2>1. UpTo(P, 0) = {} /\ UpTo(Q, 0) = {}
    BY DEF UpTo
  <2> QED
    BY <1>1, <2>1, NoMap
<1>3. ASSUME NEW k \in Nat, k \in S
      PROVE  k + 1 \in S
  <2> SUFFICES ASSUME k + 1 <= n PROVE h[k + 1] = MapOf(kind, R, UpTo(P, k + 1), UpTo(Q, k + 1))
    OBVIOUS
  <2>1. k + 1 \in 1..n /\ (k + 1) - 1 = k /\ \A d \in 1..k : d \in 1..n /\ d # k + 1
    OBVIOUS
  <2>2. h[k] = MapOf(kind, R, UpTo(P, k), UpTo(Q, k))
    BY <1>3
  <2>3. h[k + 1] = MapsMerged(kind, h[k], MapOf(kind, R, P[k + 1], Q[k + 1]))
    BY <1>1, <2>1 DEF WindowOf
  <2>4. ASSUME NEW V, Apart(V, n), \A d \in 1..n : Tagged(R, V[d])
        PROVE  /\ Tagged(R, UpTo(V, k)) /\ Tagged(R, V[k + 1])
               /\ UpTo(V, k) \cap V[k + 1] = {} /\ UpTo(V, k + 1) = UpTo(V, k) \cup V[k + 1]
    <3>1. UpTo(V, k + 1) = UpTo(V, k) \cup V[k + 1]
      <4>1. 1..(k + 1) = (1..k) \cup {k + 1}
        OBVIOUS
      <4> QED
        BY <4>1 DEF UpTo
    <3>2. Tagged(R, UpTo(V, k)) /\ Tagged(R, V[k + 1])
      BY <2>1, <2>4 DEF UpTo, Tagged
    <3>3. UpTo(V, k) \cap V[k + 1] = {}
      BY <2>1, <2>4 DEF UpTo, Apart
    <3> QED
      BY <3>1, <3>2, <3>3
  <2>5. /\ Tagged(R, UpTo(P, k)) /\ Tagged(R, P[k + 1])
        /\ UpTo(P, k) \cap P[k + 1] = {} /\ UpTo(P, k + 1) = UpTo(P, k) \cup P[k + 1]
    BY <2>4 DEF WindowOf
  <2>6. /\ Tagged(R, UpTo(Q, k)) /\ Tagged(R, Q[k + 1])
        /\ UpTo(Q, k) \cap Q[k + 1] = {} /\ UpTo(Q, k + 1) = UpTo(Q, k) \cup Q[k + 1]
    BY <2>4 DEF WindowOf
  <2> QED
    BY <2>2, <2>3, <2>5, <2>6, MapsBoth
<1>4. n \in S
  <2> HIDE DEF S
  <2> QED
    BY <1>2, <1>3, AllNumbers
<1> QED
  BY <1>1, <1>4

\* A part of a map.
Within(P, S) == {p \in P : p[1] \in S}

LEMMA MapWithin ==
  ASSUME NEW R, NEW kind, NEW P, NEW Q, Tagged(R, P), Tagged(R, Q), NEW S, S \subseteq KeysIn(P \cup Q)
  PROVE  /\ Restrict(MapOf(kind, R, P, Q), S) = MapOf(kind, R, Within(P, S), Within(Q, S))
         /\ Tagged(R, Within(P, S)) /\ Tagged(R, Within(Q, S))
<1> DEFINE h == Restrict(MapOf(kind, R, P, Q), S)
<1>1. KeysIn(Within(P, S) \cup Within(Q, S)) = S
  BY DEF Within, KeysIn
<1>2. h = [a \in S |-> StatOf(kind, R, RowsIn(R, P, a), RowsIn(R, Q, a))]
  BY DEF Restrict, MapOf
<1>3. \A a \in S : RowsIn(R, Within(P, S), a) = RowsIn(R, P, a) /\ RowsIn(R, Within(Q, S), a) = RowsIn(R, Q, a)
  BY DEF RowsIn, Within
<1> HIDE DEF h
<1>4. h = [a \in S |-> h[a]] /\ \A a \in S : h[a] = StatOf(kind, R, RowsIn(R, P, a), RowsIn(R, Q, a))
  BY <1>2
<1>5. HasStats(kind, R, Within(P, S), Within(Q, S), h)
  BY <1>1, <1>3, <1>4 DEF HasStats
<1>6. Tagged(R, Within(P, S)) /\ Tagged(R, Within(Q, S))
  BY DEF Tagged, Within
<1> QED
  BY <1>5, <1>6, MapIs DEF h

\* One row more under one key.
FreshOf(kind) == CASE kind = "users"      -> NewUserStatistic
                   [] kind = "tokens"     -> NewTokenStatistic
                   [] kind = "userTokens" -> NewUserTokenStatistic

EntryOf(m, a, fresh) == IF a \in DOMAIN m THEN m[a] ELSE fresh

LEMMA EntryIs ==
  ASSUME NEW R, Indexed(R), NEW kind \in MapKinds, NEW P, NEW Q, Tagged(R, P), Tagged(R, Q), NEW a
  PROVE  EntryOf(MapOf(kind, R, P, Q), a, FreshOf(kind))
           = StatOf(kind, R, RowsIn(R, P, a), RowsIn(R, Q, a))
<1>1. CASE a \in KeysIn(P \cup Q)
  BY <1>1 DEF EntryOf, MapOf
<1>2. CASE a \notin KeysIn(P \cup Q)
  <2>1. RowsIn(R, P, a) = {} /\ RowsIn(R, Q, a) = {}
    <3>1. Tagged(R, P \cup Q)
      BY DEF Tagged
    <3>2. RowsIn(R, P \cup Q, a) = {}
      BY <1>2, <3>1, KeyHasRows
    <3> QED
      BY <3>2 DEF RowsIn
  <2>2. FreshOf(kind) = StatOf(kind, R, {}, {})
    BY StatOfNone DEF FreshOf, StatOf, MapKinds, NewUserTokenStatistic, UserTokenFor
  <2> QED
    BY <1>2, <2>1, <2>2 DEF EntryOf, MapOf
<1> QED
  BY <1>1, <1>2

\* A map whose entry for one key has changed.
ChangedAt(m, a, h) == h = [k \in DOMAIN m \cup {a} |-> IF k # a THEN m[k] ELSE h[a]]

MorePairs(P, Q, P2, Q2, a, j) == /\ P \subseteq P2 /\ Q \subseteq Q2
                                 /\ P2 \cup Q2 = (P \cup Q) \cup {<<a, j>>}
                                 /\ P2 \ P \subseteq {<<a, j>>} /\ Q2 \ Q \subseteq {<<a, j>>}

LEMMA MapChanged ==
  ASSUME NEW R, NEW kind, NEW P, NEW Q, NEW P2, NEW Q2, NEW a, NEW j,
         MorePairs(P, Q, P2, Q2, a, j),
         NEW h, ChangedAt(MapOf(kind, R, P, Q), a, h),
         h[a] = StatOf(kind, R, RowsIn(R, P2, a), RowsIn(R, Q2, a))
  PROVE  h = MapOf(kind, R, P2, Q2)
<1> DEFINE m == MapOf(kind, R, P, Q)
           K == KeysIn(P2 \cup Q2)
<1>1. K = DOMAIN m \cup {a}
  <2>1. DOMAIN m = KeysIn(P \cup Q)
    BY DEF MapOf
  <2>2. P2 \cup Q2 = (P \cup Q) \cup {<<a, j>>}
    BY DEF MorePairs
  <2>3. KeysIn((P \cup Q) \cup {<<a, j>>}) = KeysIn(P \cup Q) \cup {a}
    <3> DEFINE V == P \cup Q
               q == <<a, j>>
    <3>1. q[1] = a
      OBVIOUS
    <3> HIDE DEF V, q
    <3>2. KeysIn(V \cup {q}) = KeysIn(V) \cup {q[1]}
      BY DEF KeysIn
    <3> QED
      BY <3>1, <3>2 DEF V, q
  <2> QED
    BY <2>1, <2>2, <2>3
<1>2. \A k \in DOMAIN m : m[k] = StatOf(kind, R, RowsIn(R, P, k), RowsIn(R, Q, k))
  BY DEF MapOf
<1> HIDE DEF m, K
<1>3. h = [k \in K |-> h[k]] /\ \A k \in K : k # a => h[k] = m[k] /\ k \in DOMAIN m
  <2>1. h = [k \in K |-> IF k # a THEN m[k] ELSE h[a]]
    BY <1>1 DEF ChangedAt, m
  <2> QED
    BY <1>1, <2>1
<1>4. \A k \in K : h[k] = StatOf(kind, R, RowsIn(R, P2, k), RowsIn(R, Q2, k))
  <2> SUFFICES ASSUME NEW k \in K, k # a
               PROVE  h[k] = StatOf(kind, R, RowsIn(R, P2, k), RowsIn(R, Q2, k))
    OBVIOUS
  <2>1. \A i : (<<k, i>> \in P2 <=> <<k, i>> \in P) /\ (<<k, i>> \in Q2 <=> <<k, i>> \in Q)
    BY DEF MorePairs
  <2>2. RowsIn(R, P2, k) = RowsIn(R, P, k) /\ RowsIn(R, Q2, k) = RowsIn(R, Q, k)
    BY <2>1 DEF RowsIn
  <2> QED
    BY <1>2, <1>3, <2>2
<1>5. HasStats(kind, R, P2, Q2, h)
  BY <1>3, <1>4 DEF HasStats, K
<1> QED
  BY <1>5, MapIs

\* The rows of a key with one more.
LEMMA RowsWithPair ==
  ASSUME NEW R, NEW P, Tagged(R, P), NEW a, NEW j \in DOMAIN R, <<a, j>> \notin P
  PROVE  /\ Tagged(R, P \cup {<<a, j>>})
         /\ RowsIn(R, P \cup {<<a, j>>}, a) = RowsIn(R, P, a) \cup {j}
         /\ j \in DOMAIN R \ RowsIn(R, P, a)
         /\ RowsIn(R, P, a) \in SUBSET DOMAIN R
BY DEF Tagged, RowsIn

LEMMA UserUpdated ==
  ASSUME NEW R, Indexed(R), NEW P, Tagged(R, P), NEW a, NEW j \in DOMAIN R, <<a, j>> \notin P
  PROVE  UpdateUser(MapOf("users", R, P, {}), a, R[j]) = MapOf("users", R, P \cup {<<a, j>>}, {})
<1> DEFINE m == MapOf("users", R, P, {})
           h == UpdateUser(m, a, R[j])
           e == EntryOf(m, a, NewUserStatistic)
           P2 == P \cup {<<a, j>>}
<1>1. h = [k \in DOMAIN m \cup {a} |-> IF k # a THEN m[k] ELSE UserAdd(e, R[j])]
  BY DEF UpdateUser, Updated, EntryOf
<1>2. e = UserFor(R, RowsIn(R, P, a))
  <2>1. Tagged(R, {}) /\ "users" \in MapKinds
    BY DEF Tagged, MapKinds
  <2>2. EntryOf(m, a, FreshOf("users")) = StatOf("users", R, RowsIn(R, P, a), RowsIn(R, {}, a))
    BY <2>1, EntryIs
  <2> QED
    BY <2>2 DEF FreshOf, StatOf
<1> HIDE DEF h, e, m
<1>3. h[a] = UserFor(R, RowsIn(R, P2, a))
  <2>1. h[a] = UserAdd(e, R[j])
    BY <1>1
  <2> QED
    BY <1>2, <2>1, RowsWithPair, StatWith
<1>4. ChangedAt(m, a, h)
  BY <1>1 DEF ChangedAt
<1>5. h[a] = StatOf("users", R, RowsIn(R, P2, a), RowsIn(R, {}, a))
  BY <1>3 DEF StatOf
<1>6. MorePairs(P, {}, P2, {}, a, j)
  BY DEF MorePairs
<1> HIDE DEF P2
<1>7. h = MapOf("users", R, P2, {})
  BY <1>4, <1>5, <1>6, MapChanged DEF m
<1> QED
  BY <1>7 DEF h, m, P2

LEMMA TokenUpdated ==
  ASSUME NEW R, Indexed(R), NEW P, Tagged(R, P), NEW a, NEW j \in DOMAIN R, <<a, j>> \notin P
  PROVE  UpdateToken(MapOf("tokens", R, P, {}), a, R[j]) = MapOf("tokens", R, P \cup {<<a, j>>}, {})
<1> DEFINE m == MapOf("tokens", R, P, {})
           h == UpdateToken(m, a, R[j])
           e == EntryOf(m, a, NewTokenStatistic)
           P2 == P \cup {<<a, j>>}
<1>1. h = [k \in DOMAIN m \cup {a} |-> IF k # a THEN m[k] ELSE TokenAdd(e, R[j])]
  BY DEF UpdateToken, Updated, EntryOf
<1>2. e = TokenOf(R, RowsIn(R, P, a))
  <2>1. Tagged(R, {}) /\ "tokens" \in MapKinds
    BY DEF Tagged, MapKinds
  <2>2. EntryOf(m, a, FreshOf("tokens")) = StatOf("tokens", R, RowsIn(R, P, a), RowsIn(R, {}, a))
    BY <2>1, EntryIs
  <2> QED
    BY <2>2 DEF FreshOf, StatOf
<1> HIDE DEF h, e, m
<1>3. h[a] = TokenOf(R, RowsIn(R, P2, a))
  <2>1. h[a] = TokenAdd(e, R[j])
    BY <1>1
  <2> QED
    BY <1>2, <2>1, RowsWithPair, StatWith
<1>4. ChangedAt(m, a, h)
  BY <1>1 DEF ChangedAt
<1>5. h[a] = StatOf("tokens", R, RowsIn(R, P2, a), RowsIn(R, {}, a))
  BY <1>3 DEF StatOf
<1>6. MorePairs(P, {}, P2, {}, a, j)
  BY DEF MorePairs
<1> HIDE DEF P2
<1>7. h = MapOf("tokens", R, P2, {})
  BY <1>4, <1>5, <1>6, MapChanged DEF m
<1> QED
  BY <1>7 DEF h, m, P2

\* Both halves of a transfer: of its sender's entry, then of its receiver's.
SentUpdated(m, a, tx) == Updated(m, a, NewUserTokenStatistic, LAMBDA s : AddFrom(s, tx))
ReceivedUpdated(m, a, tx) == Updated(m, a, NewUserTokenStatistic, LAMBDA s : AddTo(s, tx))

LEMMA SentIs ==
  ASSUME NEW R, Indexed(R), NEW P, Tagged(R, P), NEW Q, Tagged(R, Q), NEW a, NEW j \in DOMAIN R,
         <<a, j>> \notin P
  PROVE  SentUpdated(MapOf("userTokens", R, P, Q), a, R[j])
           = MapOf("userTokens", R, P \cup {<<a, j>>}, Q)
<1> DEFINE m == MapOf("userTokens", R, P, Q)
           s == SentUpdated(m, a, R[j])
           e == EntryOf(m, a, NewUserTokenStatistic)
           J == RowsIn(R, P, a)
           K == RowsIn(R, Q, a)
           P2 == P \cup {<<a, j>>}
<1>1. s = [k \in DOMAIN m \cup {a} |-> IF k # a THEN m[k] ELSE AddFrom(e, R[j])]
  BY DEF SentUpdated, Updated, EntryOf
<1>2. e = UserTokenFor(R, J, K)
  <2>1. "userTokens" \in MapKinds
    BY DEF MapKinds
  <2>2. EntryOf(m, a, FreshOf("userTokens")) = StatOf("userTokens", R, J, K)
    BY <2>1, EntryIs
  <2> QED
    BY <2>2 DEF FreshOf, StatOf
<1>3. AddFrom(e, R[j]) = [from |-> FlowAdd(FlowOf(R, J), R[j]), to |-> FlowOf(R, K)]
  <2> HIDE DEF e, J, K
  <2> QED
    BY <1>2 DEF AddFrom, UserTokenFor
<1> HIDE DEF s, e, m, J, K
<1>4. ChangedAt(m, a, s) /\ s[a] = AddFrom(e, R[j])
  BY <1>1 DEF ChangedAt
<1>5. RowsIn(R, P2, a) = J \cup {j} /\ j \in DOMAIN R \ J /\ J \in SUBSET DOMAIN R
  BY RowsWithPair DEF J
<1>6. FlowAdd(FlowOf(R, J), R[j]) = FlowOf(R, J \cup {j})
  BY <1>5, StatWith
<1>7. MorePairs(P, Q, P2, Q, a, j)
  BY DEF MorePairs
<1> HIDE DEF P2
<1>8. s[a] = StatOf("userTokens", R, RowsIn(R, P2, a), RowsIn(R, Q, a))
  BY <1>3, <1>4, <1>5, <1>6 DEF StatOf, UserTokenFor, K
<1>9. s = MapOf("userTokens", R, P2, Q)
  BY <1>4, <1>7, <1>8, MapChanged DEF m
<1> QED
  BY <1>9 DEF s, m, P2

LEMMA ReceivedIs ==
  ASSUME NEW R, Indexed(R), NEW P, Tagged(R, P), NEW Q, Tagged(R, Q), NEW a, NEW j \in DOMAIN R,
         <<a, j>> \notin Q
  PROVE  ReceivedUpdated(MapOf("userTokens", R, P, Q), a, R[j])
           = MapOf("userTokens", R, P, Q \cup {<<a, j>>})
<1> DEFINE m == MapOf("userTokens", R, P, Q)
           s == ReceivedUpdated(m, a, R[j])
           e == EntryOf(m, a, NewUserTokenStatistic)
           J == RowsIn(R, P, a)
           K == RowsIn(R, Q, a)
           Q2 == Q \cup {<<a, j>>}
<1>1. s = [k \in DOMAIN m \cup {a} |-> IF k # a THEN m[k] ELSE AddTo(e, R[j])]
  BY DEF ReceivedUpdated, Updated, EntryOf
<1>2. e = UserTokenFor(R, J, K)
  <2>1. "userTokens" \in MapKinds
    BY DEF MapKinds
  <2>2. EntryOf(m, a, FreshOf("userTokens")) = StatOf("userTokens", R, J, K)
    BY <2>1, EntryIs
  <2> QED
    BY <2>2 DEF FreshOf, StatOf
<1>3. AddTo(e, R[j]) = [from |-> FlowOf(R, J), to |-> FlowAdd(FlowOf(R, K), R[j])]
  <2> HIDE DEF e, J, K
  <2> QED
    BY <1>2 DEF AddTo, UserTokenFor
<1> HIDE DEF s, e, m, J, K
<1>4. ChangedAt(m, a, s) /\ s[a] = AddTo(e, R[j])
  BY <1>1 DEF ChangedAt
<1>5. RowsIn(R, Q2, a) = K \cup {j} /\ j \in DOMAIN R \ K /\ K \in SUBSET DOMAIN R
  BY RowsWithPair DEF K
<1>6. FlowAdd(FlowOf(R, K), R[j]) = FlowOf(R, K \cup {j})
  BY <1>5, StatWith
<1>7. MorePairs(P, Q, P, Q2, a, j)
  BY DEF MorePairs
<1> HIDE DEF Q2
<1>8. s[a] = StatOf("userTokens", R, RowsIn(R, P, a), RowsIn(R, Q2, a))
  BY <1>3, <1>4, <1>5, <1>6 DEF StatOf, UserTokenFor, J
<1>9. s = MapOf("userTokens", R, P, Q2)
  BY <1>4, <1>7, <1>8, MapChanged DEF m
<1> QED
  BY <1>9 DEF s, m, Q2

\* The keys that a row is counted under, in each of the maps.
OwnerPairs(R, J) == {<<R[j].owner, j>> : j \in J}
WholePairs(J) == {<<"total", j>> : j \in J}
Arrived(R, J) == {j \in J : R[j].to # NoAddr}
ToPairs(R, J) == {<<R[j].to, j>> : j \in Arrived(R, J)}
Named(R, J) == {j \in J : R[j].name # NoName}
NamePairs(R, J) == {<<R[j].name, j>> : j \in Named(R, J)}
Passed(R, J) == {j \in J : (R[j].name # NoName) /\ (R[j].from # NoAddr) /\ (R[j].to # NoAddr)}
SentPairs(R, J) == {<<<<R[j].from, R[j].name>>, j>> : j \in Passed(R, J)}
ReceivedPairs(R, J) == {<<<<R[j].to, R[j].name>>, j>> : j \in Passed(R, J)}

\* The maps of the flush are those of these rows.
CacheOf(c, R, J) ==
    /\ c.from = MapOf("users", R, OwnerPairs(R, J) \cup WholePairs(J), {})
    /\ c.to = MapOf("users", R, ToPairs(R, J), {})
    /\ c.token = MapOf("tokens", R, NamePairs(R, J) \cup WholePairs(Named(R, J)), {})
    /\ c.userToken = MapOf("userTokens", R, SentPairs(R, J), ReceivedPairs(R, J))

\* The totals are kept under a key of their own.
LEMMA NotTotal ==
  ASSUME NEW tx \in Transactions
  PROVE  (tx.owner # "total") /\ (tx.to # "total") /\ (tx.name # "total")
BY ScanAssumption, Zenon DEF Transactions

LEMMA NoRowsCached ==
  ASSUME NEW R
  PROVE  CacheOf(NewCache, R, {})
<1>1. /\ OwnerPairs(R, {}) \cup WholePairs({}) = {} /\ ToPairs(R, {}) = {}
      /\ NamePairs(R, {}) \cup WholePairs(Named(R, {})) = {}
      /\ SentPairs(R, {}) = {} /\ ReceivedPairs(R, {}) = {}
  BY DEF OwnerPairs, WholePairs, Arrived, ToPairs, Named, NamePairs, Passed, SentPairs, ReceivedPairs
<1>2. /\ NewCache.from = Empty /\ NewCache.to = Empty /\ NewCache.token = Empty
      /\ NewCache.userToken = Empty
  BY DEF NewCache
<1> QED
  BY <1>1, <1>2, NoMap DEF CacheOf

\* The pairs are of rows of R, and of different ones for different rows.
LEMMA PairsTagged ==
  ASSUME NEW R, NEW J \in SUBSET DOMAIN R
  PROVE  /\ Tagged(R, OwnerPairs(R, J)) /\ Tagged(R, WholePairs(J)) /\ Tagged(R, ToPairs(R, J))
         /\ Tagged(R, OwnerPairs(R, J) \cup WholePairs(J))
         /\ Tagged(R, NamePairs(R, J)) /\ Tagged(R, WholePairs(Named(R, J)))
         /\ Tagged(R, NamePairs(R, J) \cup WholePairs(Named(R, J)))
         /\ Tagged(R, SentPairs(R, J)) /\ Tagged(R, ReceivedPairs(R, J))
<1>1. \A a, j : <<a, j>>[1] = a /\ <<a, j>>[2] = j
  OBVIOUS
<1>2. Tagged(R, OwnerPairs(R, J))
  BY <1>1 DEF Tagged, OwnerPairs
<1>3. Tagged(R, WholePairs(J)) /\ Tagged(R, WholePairs(Named(R, J)))
  BY <1>1 DEF Tagged, WholePairs, Named
<1>4. Tagged(R, ToPairs(R, J)) /\ Tagged(R, NamePairs(R, J))
  BY <1>1 DEF Tagged, ToPairs, Arrived, NamePairs, Named
<1>5. Tagged(R, SentPairs(R, J)) /\ Tagged(R, ReceivedPairs(R, J))
  BY <1>1 DEF Tagged, SentPairs, ReceivedPairs, Passed
<1>6. \A P, Q : Tagged(R, P) /\ Tagged(R, Q) => Tagged(R, P \cup Q)
  BY DEF Tagged
<1> QED
  BY <1>2, <1>3, <1>4, <1>5, <1>6

\* One row more.
LEMMA FromWith ==
  ASSUME NEW R, Indexed(R), NEW J \in SUBSET DOMAIN R, NEW j \in DOMAIN R \ J,
         NEW m, m = MapOf("users", R, OwnerPairs(R, J) \cup WholePairs(J), {})
  PROVE  FromStats(m, R[j])
           = MapOf("users", R, OwnerPairs(R, J \cup {j}) \cup WholePairs(J \cup {j}), {})
<1> DEFINE P == OwnerPairs(R, J) \cup WholePairs(J)
           a == R[j].owner
           P2 == P \cup {<<a, j>>}
           P3 == P2 \cup {<<"total", j>>}
<1>1. R[j] \in Transactions
  BY DEF Indexed
<1>2. a # "total"
  BY <1>1, NotTotal
<1>3. Tagged(R, P)
  BY PairsTagged
<1>4. <<a, j>> \notin P /\ <<"total", j>> \notin P2
  BY <1>2 DEF OwnerPairs, WholePairs
<1>5. P3 = OwnerPairs(R, J \cup {j}) \cup WholePairs(J \cup {j})
  BY DEF OwnerPairs, WholePairs
<1> HIDE DEF P, a
<1>6. UpdateUser(m, a, R[j]) = MapOf("users", R, P2, {}) /\ Tagged(R, P2)
  BY <1>3, <1>4, UserUpdated, RowsWithPair DEF P
<1> HIDE DEF P2
<1>7. UpdateUser(UpdateUser(m, a, R[j]), "total", R[j]) = MapOf("users", R, P3, {})
  BY <1>4, <1>6, UserUpdated
<1> QED
  BY <1>5, <1>7 DEF FromStats, a

LEMMA ToWith ==
  ASSUME NEW R, Indexed(R), NEW J \in SUBSET DOMAIN R, NEW j \in DOMAIN R \ J,
         NEW m, m = MapOf("users", R, ToPairs(R, J), {})
  PROVE  (IF R[j].to # NoAddr THEN UpdateUser(m, R[j].to, R[j]) ELSE m)
           = MapOf("users", R, ToPairs(R, J \cup {j}), {})
<1> DEFINE P == ToPairs(R, J)
           a == R[j].to
<1>1. Tagged(R, P)
  BY PairsTagged
<1>2. <<a, j>> \notin P
  BY DEF ToPairs, Arrived
<1>3. ToPairs(R, J \cup {j}) = IF a # NoAddr THEN P \cup {<<a, j>>} ELSE P
  <2>1. Arrived(R, J \cup {j}) = IF a # NoAddr THEN Arrived(R, J) \cup {j} ELSE Arrived(R, J)
    BY DEF Arrived
  <2> QED
    BY <2>1 DEF ToPairs
<1> HIDE DEF P, a
<1>4. UpdateUser(m, a, R[j]) = MapOf("users", R, P \cup {<<a, j>>}, {})
  BY <1>1, <1>2, UserUpdated DEF P
<1> QED
  BY <1>3, <1>4 DEF P, a

LEMMA TokenWith ==
  ASSUME NEW R, Indexed(R), NEW J \in SUBSET DOMAIN R, NEW j \in DOMAIN R \ J,
         NEW m, m = MapOf("tokens", R, NamePairs(R, J) \cup WholePairs(Named(R, J)), {})
  PROVE  (IF R[j].name # NoName THEN UpdateToken(UpdateToken(m, R[j].name, R[j]), "total", R[j]) ELSE m)
           = MapOf("tokens", R, NamePairs(R, J \cup {j}) \cup WholePairs(Named(R, J \cup {j})), {})
<1> DEFINE P == NamePairs(R, J) \cup WholePairs(Named(R, J))
           a == R[j].name
           P2 == P \cup {<<a, j>>}
           P3 == P2 \cup {<<"total", j>>}
           P4 == NamePairs(R, J \cup {j}) \cup WholePairs(Named(R, J \cup {j}))
<1>1. R[j] \in Transactions
  BY DEF Indexed
<1>2. a # "total"
  BY <1>1, NotTotal
<1>3. Tagged(R, P)
  BY PairsTagged
<1>4. <<a, j>> \notin P /\ <<"total", j>> \notin P2
  BY <1>2 DEF NamePairs, Named, WholePairs
<1>5. P4 = IF a # NoName THEN P3 ELSE P
  <2>1. Named(R, J \cup {j}) = IF a # NoName THEN Named(R, J) \cup {j} ELSE Named(R, J)
    BY DEF Named
  <2>2. CASE a # NoName
    <3>1. Named(R, J \cup {j}) = Named(R, J) \cup {j}
      BY <2>1, <2>2
    <3> QED
      BY <2>2, <3>1 DEF NamePairs, WholePairs
  <2>3. CASE a = NoName
    <3>1. Named(R, J \cup {j}) = Named(R, J)
      BY <2>1, <2>3
    <3> QED
      BY <2>3, <3>1 DEF NamePairs, WholePairs
  <2> QED
    BY <2>2, <2>3
<1>0. m = MapOf("tokens", R, P, {})
  OBVIOUS
<1> HIDE DEF P, a, P4
<1>6. UpdateToken(m, a, R[j]) = MapOf("tokens", R, P2, {}) /\ Tagged(R, P2)
  <2>1. UpdateToken(MapOf("tokens", R, P, {}), a, R[j]) = MapOf("tokens", R, P2, {})
    BY <1>3, <1>4, TokenUpdated
  <2>2. Tagged(R, P2)
    BY <1>3, <1>4, RowsWithPair
  <2> QED
    BY <1>0, <2>1, <2>2
<1> HIDE DEF P2
<1>7. UpdateToken(UpdateToken(m, a, R[j]), "total", R[j]) = MapOf("tokens", R, P3, {})
  BY <1>4, <1>6, TokenUpdated
<1> QED
  BY <1>5, <1>7 DEF a, P4, P

LEMMA UserTokenWith ==
  ASSUME NEW R, Indexed(R), NEW J \in SUBSET DOMAIN R, NEW j \in DOMAIN R \ J,
         NEW m, m = MapOf("userTokens", R, SentPairs(R, J), ReceivedPairs(R, J))
  PROVE  (IF (R[j].name # NoName) /\ (R[j].from # NoAddr) /\ (R[j].to # NoAddr)
          THEN UpdateUserToken(m, R[j]) ELSE m)
           = MapOf("userTokens", R, SentPairs(R, J \cup {j}), ReceivedPairs(R, J \cup {j}))
<1> DEFINE P == SentPairs(R, J)
           Q == ReceivedPairs(R, J)
           a == <<R[j].from, R[j].name>>
           b == <<R[j].to, R[j].name>>
           P2 == P \cup {<<a, j>>}
           Q2 == Q \cup {<<b, j>>}
           passes == (R[j].name # NoName) /\ (R[j].from # NoAddr) /\ (R[j].to # NoAddr)
<1>1. Tagged(R, P) /\ Tagged(R, Q)
  BY PairsTagged
<1>2. <<a, j>> \notin P /\ <<b, j>> \notin Q
  BY DEF SentPairs, ReceivedPairs, Passed
<1>3. /\ SentPairs(R, J \cup {j}) = IF passes THEN P2 ELSE P
      /\ ReceivedPairs(R, J \cup {j}) = IF passes THEN Q2 ELSE Q
  <2>1. Passed(R, J \cup {j}) = IF passes THEN Passed(R, J) \cup {j} ELSE Passed(R, J)
    BY DEF Passed
  <2>2. CASE passes
    <3>1. Passed(R, J \cup {j}) = Passed(R, J) \cup {j}
      BY <2>1, <2>2
    <3> HIDE DEF passes
    <3> QED
      BY <2>2, <3>1 DEF SentPairs, ReceivedPairs
  <2>3. CASE ~passes
    <3>1. Passed(R, J \cup {j}) = Passed(R, J)
      BY <2>1, <2>3
    <3> HIDE DEF passes
    <3> QED
      BY <2>3, <3>1 DEF SentPairs, ReceivedPairs
  <2> QED
    BY <2>2, <2>3
<1>0. UpdateUserToken(m, R[j]) = ReceivedUpdated(SentUpdated(m, a, R[j]), b, R[j])
  BY DEF UpdateUserToken, ReceivedUpdated, SentUpdated
<1>6. m = MapOf("userTokens", R, P, Q)
  OBVIOUS
<1> HIDE DEF P, Q, a, b, passes
<1>7. SentUpdated(MapOf("userTokens", R, P, Q), a, R[j]) = MapOf("userTokens", R, P2, Q)
  BY <1>1, <1>2, SentIs
<1>4. SentUpdated(m, a, R[j]) = MapOf("userTokens", R, P2, Q) /\ Tagged(R, P2)
  BY <1>1, <1>2, <1>6, <1>7, RowsWithPair
<1> HIDE DEF P2
<1>5. ReceivedUpdated(MapOf("userTokens", R, P2, Q), b, R[j]) = MapOf("userTokens", R, P2, Q2)
  BY <1>1, <1>2, <1>4, ReceivedIs
<1> QED
  BY <1>0, <1>3, <1>4, <1>5 DEF passes, P, Q

LEMMA CacheWith ==
  ASSUME NEW R, Indexed(R), NEW J \in SUBSET DOMAIN R, NEW j \in DOMAIN R \ J,
         NEW c, CacheOf(c, R, J)
  PROVE  CacheOf(Accumulate(c, R[j]), R, J \cup {j})
<1> DEFINE d == Accumulate(c, R[j])
<1>1. /\ d.from = FromStats(c.from, R[j])
      /\ d.to = (IF R[j].to # NoAddr THEN UpdateUser(c.to, R[j].to, R[j]) ELSE c.to)
      /\ d.token = (IF R[j].name # NoName
                    THEN UpdateToken(UpdateToken(c.token, R[j].name, R[j]), "total", R[j]) ELSE c.token)
      /\ d.userToken = (IF (R[j].name # NoName) /\ (R[j].from # NoAddr) /\ (R[j].to # NoAddr)
                        THEN UpdateUserToken(c.userToken, R[j]) ELSE c.userToken)
  BY DEF Accumulate
<1> HIDE DEF d
<1>2. d.from = MapOf("users", R, OwnerPairs(R, J \cup {j}) \cup WholePairs(J \cup {j}), {})
  BY <1>1, FromWith DEF CacheOf
<1>3. d.to = MapOf("users", R, ToPairs(R, J \cup {j}), {})
  BY <1>1, ToWith DEF CacheOf
<1>4. d.token = MapOf("tokens", R, NamePairs(R, J \cup {j}) \cup WholePairs(Named(R, J \cup {j})), {})
  BY <1>1, TokenWith DEF CacheOf
<1>5. d.userToken = MapOf("userTokens", R, SentPairs(R, J \cup {j}), ReceivedPairs(R, J \cup {j}))
  BY <1>1, UserTokenWith DEF CacheOf
<1>6. CacheOf(d, R, J \cup {j})
  BY <1>2, <1>3, <1>4, <1>5 DEF CacheOf
<1> QED
  BY <1>6 DEF d

-----------------------------------------------------------------------------
(* The flush.  However the rows of the days are numbered - R[at[d][i]] is  *)
(* the i-th of day d -, the maps are those of the rows read so far.        *)

Numbering(txs, R, at) ==
    /\ Indexed(R)
    /\ \A d \in DOMAIN txs : \A i \in DOMAIN txs[d] : at[d][i] \in DOMAIN R /\ R[at[d][i]] = txs[d][i]
    /\ \A d, e \in DOMAIN txs : \A i \in DOMAIN txs[d], k \in DOMAIN txs[e] :
          at[d][i] = at[e][k] => d = e /\ i = k

\* The first n rows of a day, without the transfers inside contracts.
KeptOf(txs, d, n) == {i \in 1..n : txs[d][i].type # TransferType}
KeptRows(txs, at, d, n) == {at[d][i] : i \in KeptOf(txs, d, n)}

ReadRight(R, at) ==
    /\ \A d \in 1..(day - 1) : CacheOf(tables[d], R, KeptRows(days, at, d, Len(days[d])))
    /\ (day <= Len(days)) => CacheOf(cache, R, KeptRows(days, at, day, next - 1))

ReadInv ==
    (job = "flush") =>
        /\ day <= Len(days) + 1 /\ DOMAIN tables = 1..(day - 1)
        /\ (day <= Len(days)) => (next <= Len(days[day]) + 1)
        /\ \A R, at : Numbering(days, R, at) => ReadRight(R, at)

\* The rows of a day that are kept are rows.
LEMMA KeptAreRows ==
  ASSUME NEW txs \in Seq(Seq(Transactions)), NEW R, NEW at, Numbering(txs, R, at),
         NEW d \in DOMAIN txs, NEW n \in 0..Len(txs[d])
  PROVE  KeptRows(txs, at, d, n) \in SUBSET DOMAIN R
<1>1. txs[d] \in Seq(Transactions)
  OBVIOUS
<1>2. \A i \in 1..n : i \in DOMAIN txs[d]
  BY <1>1
<1> QED
  BY <1>2 DEF Numbering, KeptRows, KeptOf

\* One row more of a day.
LEMMA KeptMore ==
  ASSUME NEW txs \in Seq(Seq(Transactions)), NEW R, NEW at, Numbering(txs, R, at),
         NEW d \in DOMAIN txs, NEW n \in Nat, n + 1 \in DOMAIN txs[d]
  PROVE  /\ (txs[d][n + 1].type # TransferType) =>
               /\ KeptRows(txs, at, d, n + 1) = KeptRows(txs, at, d, n) \cup {at[d][n + 1]}
               /\ at[d][n + 1] \in DOMAIN R \ KeptRows(txs, at, d, n)
         /\ (txs[d][n + 1].type = TransferType) =>
               KeptRows(txs, at, d, n + 1) = KeptRows(txs, at, d, n)
<1>1. txs[d] \in Seq(Transactions)
  OBVIOUS
<1>2. \A i \in 1..n : i \in DOMAIN txs[d] /\ i # n + 1
  BY <1>1
<1>3. 1..(n + 1) = (1..n) \cup {n + 1}
  OBVIOUS
<1>4. KeptOf(txs, d, n + 1) = IF txs[d][n + 1].type # TransferType
                              THEN KeptOf(txs, d, n) \cup {n + 1} ELSE KeptOf(txs, d, n)
  BY <1>3 DEF KeptOf
<1>5. at[d][n + 1] \in DOMAIN R
  BY DEF Numbering
<1>6. \A i \in KeptOf(txs, d, n) : at[d][i] # at[d][n + 1]
  BY <1>2 DEF Numbering, KeptOf
<1> QED
  BY <1>4, <1>5, <1>6 DEF KeptRows

LEMMA InitRead == ScanInit => ReadInv
<1> SUFFICES ASSUME ScanInit PROVE ReadInv
  OBVIOUS
<1>1. day = 1 /\ next = 1 /\ cache = NewCache /\ tables = <<>>
  BY DEF ScanInit
<1>2. days \in Seq(Seq(Transactions))
  BY InitScanType DEF ScanTypeOK
<1>3. \A R, at : ReadRight(R, at)
  <2> SUFFICES ASSUME NEW R, NEW at PROVE ReadRight(R, at)
    OBVIOUS
  <2>1. KeptRows(days, at, 1, 0) = {}
    BY DEF KeptRows, KeptOf
  <2>2. day - 1 = 0 /\ next - 1 = 0 /\ \A d \in 1..0 : FALSE
    BY <1>1
  <2>3. CacheOf(cache, R, KeptRows(days, at, 1, 0))
    BY <1>1, <2>1, NoRowsCached
  <2> QED
    BY <1>1, <2>2, <2>3 DEF ReadRight
<1>4. (day <= Len(days)) => (next <= Len(days[day]) + 1)
  BY <1>1, <1>2
<1> QED
  BY <1>1, <1>2, <1>3, <1>4 DEF ReadInv

LEMMA StepRead ==
  ASSUME ScanTypeOK, FlushInv, ReadInv, [ScanNext]_scanVars
  PROVE  ReadInv'
<1> SUFFICES ASSUME job' = "flush" PROVE ReadInv'
  BY DEF ReadInv
<1>1. job = "flush" /\ job' = job /\ days' = days
  BY StepScanType DEF others
<1>0. /\ day <= Len(days) + 1 /\ DOMAIN tables = 1..(day - 1)
      /\ (day <= Len(days)) => (next <= Len(days[day]) + 1)
      /\ \A R, at : Numbering(days, R, at) => ReadRight(R, at)
      /\ days \in Seq(Seq(Transactions)) /\ day \in Nat \ {0} /\ next \in Nat \ {0}
      /\ tables \in Seq(Range(tables))
  BY <1>1 DEF ReadInv, ScanTypeOK, FlushInv
<1>2. \/ FlushRow \/ FlushPersist
      \/ UNCHANGED <<tables, cache, day, next>>
  BY <1>1 DEF ScanNext, FlushRow, FlushPersist, CountRow, ExchangeRow, ExchangePersist, DiffRow,
       TronLinkRow, NextDay, RegistryChanges, scanVars
<1>3. CASE UNCHANGED <<tables, cache, day, next>>
  BY <1>0, <1>1, <1>3 DEF ReadInv, ReadRight
<1>4. CASE FlushPersist
  <2>1. /\ tables' = Append(tables, cache) /\ cache' = NewCache /\ day' = day + 1 /\ next' = 1
        /\ day <= Len(days) /\ next > Len(days[day])
    BY <1>4 DEF FlushPersist, AtEnd
  <2>0. day \in DOMAIN days
    BY <1>0, <2>1
  <2>2. day \in DOMAIN days /\ Len(days[day]) \in Nat /\ next - 1 = Len(days[day])
    <3>1. days[day] \in Seq(Transactions)
      BY <1>0, <2>0
    <3>2. Len(days[day]) \in Nat
      BY <3>1
    <3>3. next \in Nat /\ next <= Len(days[day]) + 1 /\ next > Len(days[day])
      <4>1. next \in Nat
        BY <1>0
      <4>2. next <= Len(days[day]) + 1
        <5>1. (day <= Len(days)) => (next <= Len(days[day]) + 1)
          BY <1>0
        <5> QED
          BY <2>1, <5>1
      <4> QED
        BY <2>1, <4>1, <4>2
    <3>4. next - 1 = Len(days[day])
      BY <3>2, <3>3
    <3> QED
      BY <2>0, <3>2, <3>4
  <2>3. Len(tables) = day - 1
    BY <1>0
  <2>4. /\ DOMAIN tables' = 1..day /\ tables'[day] = cache
        /\ \A d \in 1..(day - 1) : tables'[d] = tables[d]
    <3> DEFINE S == Range(tables) \cup {cache}
    <3>1. tables \in Seq(S) /\ cache \in S
      BY <1>0
    <3> HIDE DEF S
    <3>2. Append(tables, cache) \in Seq(S) /\ Len(Append(tables, cache)) = Len(tables) + 1
      BY <3>1
    <3>3. /\ Append(tables, cache)[Len(tables) + 1] = cache
          /\ \A d \in 1..Len(tables) : Append(tables, cache)[d] = tables[d]
      BY <3>1
    <3>4. Len(tables) + 1 = day
      BY <1>0, <2>3
    <3>5. DOMAIN Append(tables, cache) = 1..(Len(tables) + 1)
      BY <3>2
    <3> QED
      BY <2>1, <2>3, <3>3, <3>4, <3>5
  <2>5. ASSUME NEW R, NEW at, Numbering(days, R, at)
        PROVE  ReadRight(R, at)'
    <3>1. /\ \A d \in 1..(day - 1) : CacheOf(tables[d], R, KeptRows(days, at, d, Len(days[d])))
          /\ CacheOf(cache, R, KeptRows(days, at, day, next - 1))
      BY <1>0, <2>1, <2>5 DEF ReadRight
    <3>2. \A d \in 1..day : CacheOf(tables'[d], R, KeptRows(days, at, d, Len(days[d])))
      <4>1. \A d \in 1..day : d \in 1..(day - 1) \/ d = day
        BY <1>0
      <4> QED
        BY <2>2, <2>4, <3>1, <4>1
    <3>3. CacheOf(cache', R, KeptRows(days, at, day + 1, 0))
      <4>1. KeptRows(days, at, day + 1, 0) = {}
        BY DEF KeptRows, KeptOf
      <4> QED
        BY <2>1, <4>1, NoRowsCached
    <3>4. day' - 1 = day /\ next' - 1 = 0
      BY <1>0, <2>1
    <3>5. \A d \in 1..(day' - 1) : CacheOf(tables'[d], R, KeptRows(days', at, d, Len(days'[d])))
      BY <1>1, <3>2, <3>4
    <3>6. CacheOf(cache', R, KeptRows(days', at, day', next' - 1))
      BY <1>1, <2>1, <3>3, <3>4
    <3> QED
      BY <3>5, <3>6 DEF ReadRight
  <2>6. (day' <= Len(days)) => (next' <= Len(days[day']) + 1)
    BY <1>0, <2>1
  <2>7. day' <= Len(days) + 1 /\ DOMAIN tables' = 1..(day' - 1)
    <3>1. day' - 1 = day
      BY <1>0, <2>1
    <3> QED
      BY <1>0, <2>1, <2>4, <3>1
  <2> QED
    BY <1>1, <2>5, <2>6, <2>7 DEF ReadInv
<1>5. CASE FlushRow
  <2>1. /\ tables' = tables /\ day <= Len(days) /\ next <= Len(days[day])
        /\ cache' = IF Row.type # TransferType THEN Accumulate(cache, Row) ELSE cache
        /\ day' = day /\ next' = next + 1
    BY <1>5 DEF FlushRow, AtRow, Advance
  <2>0. day \in DOMAIN days
    BY <1>0, <2>1
  <2>2. day \in DOMAIN days /\ days[day] \in Seq(Transactions) /\ next \in DOMAIN days[day]
    <3>1. days[day] \in Seq(Transactions)
      BY <1>0, <2>0
    <3>2. next \in Nat \ {0} /\ next <= Len(days[day])
      <4>1. next \in Nat \ {0}
        BY <1>0
      <4> QED
        BY <2>1, <4>1
    <3>3. DOMAIN days[day] = 1..Len(days[day]) /\ Len(days[day]) \in Nat
      BY <3>1
    <3>4. next \in DOMAIN days[day]
      BY <3>2, <3>3
    <3> QED
      BY <2>0, <3>1, <3>4
  <2>3. (next - 1) + 1 = next /\ next - 1 \in Nat /\ next' - 1 = next
    BY <1>0, <2>1
  <2>4. ASSUME NEW R, NEW at, Numbering(days, R, at)
        PROVE  ReadRight(R, at)'
    <3> DEFINE J == KeptRows(days, at, day, next - 1)
               K == KeptRows(days, at, day, next)
               j == at[day][next]
    <3>1. /\ \A d \in 1..(day - 1) : CacheOf(tables[d], R, KeptRows(days, at, d, Len(days[d])))
          /\ CacheOf(cache, R, J)
      BY <1>0, <2>1, <2>4 DEF ReadRight
    <3>2. /\ (Row.type # TransferType) => K = J \cup {j} /\ j \in DOMAIN R \ J
          /\ (Row.type = TransferType) => K = J
      <4>1. /\ (days[day][next].type # TransferType) => K = J \cup {j} /\ j \in DOMAIN R \ J
            /\ (days[day][next].type = TransferType) => K = J
        <5> HIDE DEF J, K, j
        <5> DEFINE n == next - 1
        <5>1. n \in Nat /\ n + 1 = next /\ n + 1 \in DOMAIN days[day]
          BY <2>2, <2>3
        <5>2. /\ J = KeptRows(days, at, day, n) /\ K = KeptRows(days, at, day, n + 1)
              /\ j = at[day][n + 1] /\ days[day][next] = days[day][n + 1]
          BY <5>1 DEF J, K, j
        <5> HIDE DEF n
        <5> QED
          BY <1>0, <2>2, <2>4, <5>1, <5>2, KeptMore
      <4> QED
        BY <4>1 DEF Row
    <3>3. J \in SUBSET DOMAIN R /\ Indexed(R) /\ R[j] = Row
      <4>1. next - 1 \in 0..Len(days[day])
        <5>1. Len(days[day]) \in Nat
          BY <2>2
        <5> QED
          BY <1>0, <2>1, <5>1
      <4>2. Indexed(R) /\ R[j] = Row
        BY <2>2, <2>4 DEF Numbering, Row
      <4> QED
        BY <1>0, <2>2, <2>4, <4>1, <4>2, KeptAreRows
    <3> HIDE DEF J, K, j
    <3>4. CacheOf(cache', R, K)
      <4>1. CASE Row.type # TransferType
        BY <2>1, <3>1, <3>2, <3>3, <4>1, CacheWith
      <4>2. CASE Row.type = TransferType
        BY <2>1, <3>1, <3>2, <4>2
      <4> QED
        BY <4>1, <4>2
    <3> QED
      BY <1>1, <2>1, <2>3, <3>1, <3>4 DEF ReadRight, K
  <2>5. next' <= Len(days[day]) + 1
    BY <1>0, <2>1, <2>2
  <2> QED
    BY <1>0, <1>1, <2>1, <2>4, <2>5 DEF ReadInv
<1> QED
  BY <1>2, <1>3, <1>4, <1>5

\* The window of the finished days.
WindowRight(R, at) ==
    /\ DOMAIN tables = DOMAIN days
    /\ \A d \in DOMAIN days : CacheOf(tables[d], R, KeptRows(days, at, d, Len(days[d])))

LEMMA DoneIsRight ==
  ASSUME ScanTypeOK, ReadInv, WindowDone, NEW R, NEW at, Numbering(days, R, at)
  PROVE  WindowRight(R, at)
<1>1. day - 1 = Len(days) /\ DOMAIN days = 1..Len(days)
  BY DEF ScanTypeOK, ReadInv, WindowDone
<1> QED
  BY <1>1 DEF ReadInv, ReadRight, WindowRight, WindowDone

-----------------------------------------------------------------------------
(* One scan over all days: the rows are numbered as in FlattenSeq(days).   *)

\* Row i of day d comes after all rows of the days before.
PlaceOf(f, txs) == [d \in 1..Len(txs) |-> [i \in DOMAIN txs[d] |-> Len(f[d - 1]) + i]]

\* The first k days are numbered in f[k].
PlacedUpTo(f, txs, k) ==
    /\ \A d \in 1..k : \A i \in DOMAIN txs[d] :
          Len(f[d - 1]) + i \in 1..Len(f[k]) /\ f[k][Len(f[d - 1]) + i] = txs[d][i]
    /\ \A d, e \in 1..k : \A i \in DOMAIN txs[d], j \in DOMAIN txs[e] :
          Len(f[d - 1]) + i = Len(f[e - 1]) + j => d = e /\ i = j
    /\ \A m \in 1..Len(f[k]) : \E d \in 1..k : \E i \in DOMAIN txs[d] : m = Len(f[d - 1]) + i

LEMMA PlacedMore ==
  ASSUME NEW txs \in Seq(Seq(Transactions)), NEW f, Joined(f, txs, Transactions),
         NEW k \in Nat, k < Len(txs), PlacedUpTo(f, txs, k)
  PROVE  PlacedUpTo(f, txs, k + 1)
<1> DEFINE s == f[k]
           t == txs[k + 1]
           u == f[k + 1]
<1>1. s \in Seq(Transactions) /\ t \in Seq(Transactions) /\ u = s \o t
  <2>1. Len(txs) \in Nat /\ k \in 0..Len(txs) /\ k + 1 \in 1..Len(txs) /\ (k + 1) - 1 = k
    OBVIOUS
  <2>2. f[k] \in Seq(Transactions) /\ txs[k + 1] \in Seq(Transactions)
    BY <2>1 DEF Joined
  <2>3. f[k + 1] = f[(k + 1) - 1] \o txs[k + 1]
    BY <2>1 DEF Joined
  <2> QED
    BY <2>1, <2>2, <2>3
<1>2. (k + 1) - 1 = k /\ \A d \in 1..(k + 1) : d \in 1..k \/ d = k + 1
  OBVIOUS
<1>3. \A d \in 1..k : d \in 1..(k + 1)
  OBVIOUS
<1> HIDE DEF s, t, u
<1>4. /\ Len(u) = Len(s) + Len(t) /\ Len(s) \in Nat /\ Len(t) \in Nat
      /\ DOMAIN t = 1..Len(t)
      /\ \A m \in 1..Len(s) : u[m] = s[m]
      /\ \A m \in 1..Len(t) : u[Len(s) + m] = t[m]
  BY <1>1
<1>5. /\ \A d \in 1..k : \A i \in DOMAIN txs[d] :
            Len(f[d - 1]) + i \in 1..Len(s) /\ s[Len(f[d - 1]) + i] = txs[d][i]
      /\ \A d, e \in 1..k : \A i \in DOMAIN txs[d], j \in DOMAIN txs[e] :
            Len(f[d - 1]) + i = Len(f[e - 1]) + j => d = e /\ i = j
      /\ \A m \in 1..Len(s) : \E d \in 1..k : \E i \in DOMAIN txs[d] : m = Len(f[d - 1]) + i
  BY DEF PlacedUpTo, s
<1>6. \A i \in DOMAIN txs[k + 1] :
         /\ Len(f[(k + 1) - 1]) + i \in 1..Len(u) /\ Len(f[(k + 1) - 1]) + i \notin 1..Len(s)
         /\ u[Len(f[(k + 1) - 1]) + i] = txs[k + 1][i]
  <2>1. \A i \in DOMAIN t : /\ Len(s) + i \in 1..Len(u) /\ Len(s) + i \notin 1..Len(s)
                            /\ u[Len(s) + i] = t[i]
    BY <1>4
  <2> QED
    BY <1>2, <2>1 DEF s, t
<1>7. \A d \in 1..k : \A i \in DOMAIN txs[d] :
         Len(f[d - 1]) + i \in 1..Len(u) /\ u[Len(f[d - 1]) + i] = txs[d][i]
  <2>1. \A m \in 1..Len(s) : m \in 1..Len(u)
    BY <1>4
  <2> QED
    BY <1>4, <1>5, <2>1
<1>8. \A d \in 1..(k + 1) : \A i \in DOMAIN txs[d] :
         Len(f[d - 1]) + i \in 1..Len(u) /\ u[Len(f[d - 1]) + i] = txs[d][i]
  BY <1>2, <1>6, <1>7
<1>9. ASSUME NEW d \in 1..(k + 1), NEW e \in 1..(k + 1), NEW i \in DOMAIN txs[d],
             NEW j \in DOMAIN txs[e], Len(f[d - 1]) + i = Len(f[e - 1]) + j
      PROVE  d = e /\ i = j
  <2>1. CASE d \in 1..k /\ e \in 1..k
    BY <1>5, <1>9, <2>1
  <2>2. CASE d = k + 1 /\ e = k + 1
    <3>1. i \in DOMAIN t /\ j \in DOMAIN t /\ Len(s) + i = Len(s) + j
      BY <1>2, <1>9, <2>2 DEF s, t
    <3>2. i = j
      BY <1>4, <3>1
    <3> QED
      BY <2>2, <3>2
  <2>3. CASE d \in 1..k /\ e = k + 1
    BY <1>5, <1>6, <1>9, <2>3
  <2>4. CASE d = k + 1 /\ e \in 1..k
    BY <1>5, <1>6, <1>9, <2>4
  <2> QED
    BY <1>2, <2>1, <2>2, <2>3, <2>4
<1>10. ASSUME NEW m \in 1..Len(u)
       PROVE  \E d \in 1..(k + 1) : \E i \in DOMAIN txs[d] : m = Len(f[d - 1]) + i
  <2>1. CASE m \in 1..Len(s)
    BY <1>3, <1>5, <2>1
  <2>2. CASE m \notin 1..Len(s)
    <3>1. m - Len(s) \in DOMAIN t /\ m = Len(s) + (m - Len(s))
      BY <1>4, <2>2
    <3>2. k + 1 \in 1..(k + 1)
      OBVIOUS
    <3> QED
      BY <1>2, <3>1, <3>2 DEF s, t
  <2> QED
    BY <2>1, <2>2
<1> QED
  BY <1>8, <1>9, <1>10 DEF PlacedUpTo, u

\* Every row of all days is that of one day.
RowsOfDays(txs, R, at) ==
    \A j \in DOMAIN R : \E d \in DOMAIN txs : \E i \in DOMAIN txs[d] : j = at[d][i]

LEMMA DaysNumbered ==
  ASSUME NEW txs \in Seq(Seq(Transactions))
  PROVE  \E at : Numbering(txs, FlattenSeq(txs), at) /\ RowsOfDays(txs, FlattenSeq(txs), at)
<1>1. PICK f : Joined(f, txs, Transactions)
  BY JoinedExists
<1> DEFINE P == {k \in Nat : k <= Len(txs) => PlacedUpTo(f, txs, k)}
           n == Len(txs)
           R == FlattenSeq(txs)
           at == PlaceOf(f, txs)
<1>2. 0 \in P
  <2>1. f[0] = <<>> /\ Len(<<>>) = 0
    BY <1>1 DEF Joined
  <2> QED
    BY <2>1 DEF PlacedUpTo
<1>3. ASSUME NEW k \in Nat, k \in P
      PROVE  k + 1 \in P
  <2> SUFFICES ASSUME k + 1 <= Len(txs) PROVE PlacedUpTo(f, txs, k + 1)
    OBVIOUS
  <2>1. k < Len(txs)
    OBVIOUS
  <2>2. PlacedUpTo(f, txs, k)
    BY <1>3, <2>1
  <2> QED
    BY <1>1, <2>1, <2>2, PlacedMore
<1>4. n \in P
  <2>1. n \in Nat
    OBVIOUS
  <2> HIDE DEF P
  <2> QED
    BY <1>2, <1>3, <2>1, AllNumbers
<1>5. PlacedUpTo(f, txs, n)
  BY <1>4
<1>6. R = f[n] /\ R \in Seq(Transactions)
  BY <1>1, FlattenIsJoined, FlattenType
<1>7. DOMAIN txs = 1..n /\ DOMAIN R = 1..Len(R)
  BY <1>6
<1> HIDE DEF P, n, R
<1>8. \A d \in DOMAIN txs : \A i \in DOMAIN txs[d] : at[d][i] = Len(f[d - 1]) + i
  BY <1>7 DEF PlaceOf, n
<1>9. Indexed(R)
  BY <1>6, RowsIndexed
<1> HIDE DEF at
<1>12. ASSUME NEW d \in DOMAIN txs, NEW i \in DOMAIN txs[d]
       PROVE  at[d][i] \in DOMAIN R /\ R[at[d][i]] = txs[d][i]
  <2>1. Len(f[d - 1]) + i \in 1..Len(f[n]) /\ f[n][Len(f[d - 1]) + i] = txs[d][i]
    BY <1>5, <1>7 DEF PlacedUpTo
  <2>2. at[d][i] = Len(f[d - 1]) + i
    BY <1>8
  <2> QED
    BY <1>6, <1>7, <2>1, <2>2
<1>13. ASSUME NEW d \in DOMAIN txs, NEW e \in DOMAIN txs, NEW i \in DOMAIN txs[d],
              NEW j \in DOMAIN txs[e], at[d][i] = at[e][j]
       PROVE  d = e /\ i = j
  <2>1. Len(f[d - 1]) + i = Len(f[e - 1]) + j
    BY <1>8, <1>13
  <2> QED
    BY <1>5, <1>7, <2>1 DEF PlacedUpTo
<1>14. ASSUME NEW m \in DOMAIN R
       PROVE  \E d \in DOMAIN txs : \E i \in DOMAIN txs[d] : m = at[d][i]
  <2>1. PICK d \in 1..n : \E i \in DOMAIN txs[d] : m = Len(f[d - 1]) + i
    BY <1>5, <1>6, <1>7 DEF PlacedUpTo
  <2>2. PICK i \in DOMAIN txs[d] : m = Len(f[d - 1]) + i
    BY <2>1
  <2>3. d \in DOMAIN txs
    BY <1>7
  <2>4. m = at[d][i]
    BY <1>8, <2>2, <2>3
  <2> QED
    BY <2>3, <2>4
<1>10. Numbering(txs, R, at)
  BY <1>9, <1>12, <1>13, Zenon DEF Numbering
<1>11. RowsOfDays(txs, R, at)
  BY <1>14, Zenon DEF RowsOfDays
<1> QED
  BY <1>10, <1>11 DEF R

\* The rows that the flush counts, of all days and of each.
KeptIn(R) == {j \in DOMAIN R : R[j].type # TransferType}
DayRows(txs, at) == [d \in 1..Len(txs) |-> KeptRows(txs, at, d, Len(txs[d]))]
KeptUpTo(R, n) == {j \in 1..n : R[j].type # TransferType}

LEMMA KeptOfDays ==
  ASSUME NEW txs \in Seq(Seq(Transactions)), NEW R, NEW at, Numbering(txs, R, at)
  PROVE  /\ UpTo(DayRows(txs, at), Len(txs)) \in SUBSET KeptIn(R)
         /\ Apart(DayRows(txs, at), Len(txs))
         /\ RowsOfDays(txs, R, at) => UpTo(DayRows(txs, at), Len(txs)) = KeptIn(R)
<1> DEFINE n == Len(txs)
           J == DayRows(txs, at)
<1>1. /\ n \in Nat /\ DOMAIN txs = 1..n
      /\ \A d \in 1..n : DOMAIN txs[d] = 1..Len(txs[d])
  <2>1. \A d \in 1..n : txs[d] \in Seq(Transactions)
    OBVIOUS
  <2> QED
    BY <2>1
<1>2. \A d \in 1..n : J[d] = {at[d][i] : i \in {k \in DOMAIN txs[d] : txs[d][k].type # TransferType}}
  BY <1>1 DEF DayRows, KeptRows, KeptOf
<1>3. /\ \A d \in 1..n : \A i \in DOMAIN txs[d] : at[d][i] \in DOMAIN R /\ R[at[d][i]] = txs[d][i]
      /\ \A d, e \in 1..n : \A i \in DOMAIN txs[d], k \in DOMAIN txs[e] :
            at[d][i] = at[e][k] => d = e /\ i = k
  BY <1>1 DEF Numbering
<1> HIDE DEF J, n
<1>4. \A d \in 1..n : \A j \in J[d] : j \in KeptIn(R)
  BY <1>2, <1>3 DEF KeptIn
<1>5. Apart(J, n)
  <2> SUFFICES ASSUME NEW d \in 1..n, NEW e \in 1..n, NEW j \in J[d], j \in J[e]
               PROVE  d = e
    BY DEF Apart
  <2>1. PICK i \in DOMAIN txs[d] : j = at[d][i]
    BY <1>2
  <2>2. PICK k \in DOMAIN txs[e] : j = at[e][k]
    BY <1>2
  <2>3. at[d][i] = at[e][k] => d = e /\ i = k
    BY <1>3
  <2> QED
    BY <2>1, <2>2, <2>3
<1>6. ASSUME RowsOfDays(txs, R, at), NEW j \in KeptIn(R)
      PROVE  j \in UpTo(J, n)
  <2>1. j \in DOMAIN R /\ R[j].type # TransferType
    BY DEF KeptIn
  <2>2. PICK d \in 1..n : \E i \in DOMAIN txs[d] : j = at[d][i]
    BY <1>1, <1>6, <2>1 DEF RowsOfDays
  <2>3. PICK i \in DOMAIN txs[d] : j = at[d][i]
    BY <2>2
  <2>4. txs[d][i].type # TransferType
    BY <1>3, <2>1, <2>3
  <2>5. j \in J[d]
    BY <1>2, <2>3, <2>4
  <2> QED
    BY <2>5 DEF UpTo
<1>7. UpTo(J, n) \in SUBSET KeptIn(R)
  BY <1>4 DEF UpTo
<1> QED
  BY <1>5, <1>6, <1>7 DEF J, n

\* All rows, read as if they were of one day.
LEMMA OneDayIs ==
  ASSUME days \in Seq(Seq(Transactions))
  PROVE  CacheOf(OneDay, FlattenSeq(days), KeptIn(FlattenSeq(days)))
<1> DEFINE R == FlattenSeq(days)
           n == Len(R)
<1>1. R \in Seq(Transactions)
  BY FlattenType
<1> HIDE DEF R
<1>2. DOMAIN R = 1..n /\ n \in Nat
  BY <1>1
<1>3. Indexed(R)
  BY <1>1, RowsIndexed
<1> HIDE DEF n
<1>4. PICK h : Chain("rows", {}, NewCache, R, h) /\ h[n] = OneDay
  <2>1. DOMAIN FlattenSeq(days) = 1..n /\ n \in Nat
    BY <1>2 DEF R
  <2>2. \E h : Chain("rows", {}, NewCache, FlattenSeq(days), h) /\ h[n] = OneDay
    BY <2>1, RowsOver
  <2> QED
    BY <2>2 DEF R
<1>5. h[0] = NewCache
  BY <1>4 DEF Chain
<1>6. ASSUME NEW k \in 1..n
      PROVE  h[k] = IF R[k].type = TransferType THEN h[k - 1] ELSE Accumulate(h[k - 1], R[k])
  <2>1. h[k] = StepOf("rows", {}, h[k - 1], R[k])
    BY <1>2, <1>4 DEF Chain
  <2> QED
    BY <2>1 DEF StepOf
<1> DEFINE P == {k \in Nat : k <= n => CacheOf(h[k], R, KeptUpTo(R, k))}
<1>7. 0 \in P
  <2>1. KeptUpTo(R, 0) = {}
    BY DEF KeptUpTo
  <2>2. CacheOf(h[0], R, KeptUpTo(R, 0))
    BY <1>5, <2>1, NoRowsCached
  <2> QED
    BY <2>2
<1>8. ASSUME NEW k \in Nat, k \in P
      PROVE  k + 1 \in P
  <2> SUFFICES ASSUME k + 1 <= n PROVE CacheOf(h[k + 1], R, KeptUpTo(R, k + 1))
    OBVIOUS
  <2> DEFINE j == k + 1
             J == KeptUpTo(R, k)
  <2>0. k + 1 \in 1..n /\ (k + 1) - 1 = k /\ k + 1 \notin 1..k /\ 1..(k + 1) = (1..k) \cup {k + 1}
    BY <1>2
  <2>1. CacheOf(h[k], R, J)
    BY <1>2, <1>8
  <2>2. KeptUpTo(R, k + 1) = IF R[j].type = TransferType THEN J ELSE J \cup {j}
    BY <2>0 DEF KeptUpTo
  <2>3. J \in SUBSET DOMAIN R /\ j \in DOMAIN R \ J
    BY <1>2, <2>0 DEF KeptUpTo
  <2>4. h[k + 1] = IF R[j].type = TransferType THEN h[k] ELSE Accumulate(h[k], R[j])
    BY <1>6, <2>0
  <2> HIDE DEF J, j
  <2>5. CacheOf(Accumulate(h[k], R[j]), R, J \cup {j})
    BY <1>3, <2>1, <2>3, CacheWith
  <2> QED
    BY <2>1, <2>2, <2>4, <2>5
<1>9. n \in P
  <2> HIDE DEF P
  <2> QED
    BY <1>2, <1>7, <1>8, AllNumbers
<1>10. KeptUpTo(R, n) = KeptIn(R)
  BY <1>2 DEF KeptUpTo, KeptIn
<1> QED
  BY <1>2, <1>4, <1>9, <1>10 DEF R

\* The keys under which rows are counted.
PairKinds == {"owner", "whole", "to", "name", "named", "sent", "received", "none"}
PairsOf(what, R, J) ==
    CASE what = "owner"    -> OwnerPairs(R, J)
      [] what = "whole"    -> WholePairs(J)
      [] what = "to"       -> ToPairs(R, J)
      [] what = "name"     -> NamePairs(R, J)
      [] what = "named"    -> WholePairs(Named(R, J))
      [] what = "sent"     -> SentPairs(R, J)
      [] what = "received" -> ReceivedPairs(R, J)
      [] what = "none"     -> {}

\* By day and over all days.
PairsByDay(what, R, J) == [d \in DOMAIN J |-> PairsOf(what, R, J[d])]

LEMMA PairsSecond ==
  ASSUME NEW R, NEW J, NEW what \in PairKinds, NEW p \in PairsOf(what, R, J)
  PROVE  p = <<p[1], p[2]>> /\ p[2] \in J
<1>1. \A x, y : <<x, y>>[1] = x /\ <<x, y>>[2] = y
  OBVIOUS
<1> QED
  BY <1>1 DEF PairKinds, PairsOf, OwnerPairs, WholePairs, ToPairs, Arrived, NamePairs, Named,
     SentPairs, ReceivedPairs, Passed

\* A row has its pairs whatever the others are.
LEMMA PairsOfOne ==
  ASSUME NEW R, NEW J, NEW K, NEW what \in PairKinds, NEW p \in PairsOf(what, R, J), p[2] \in K
  PROVE  p \in PairsOf(what, R, K)
<1>1. \A x, y : <<x, y>>[1] = x /\ <<x, y>>[2] = y
  OBVIOUS
<1>2. CASE what = "owner"
  BY <1>1, <1>2 DEF PairsOf, OwnerPairs
<1>3. CASE what = "whole"
  BY <1>1, <1>3 DEF PairsOf, WholePairs
<1>4. CASE what = "to"
  BY <1>1, <1>4 DEF PairsOf, ToPairs, Arrived
<1>5. CASE what = "name"
  BY <1>1, <1>5 DEF PairsOf, NamePairs, Named
<1>6. CASE what = "named"
  BY <1>1, <1>6 DEF PairsOf, WholePairs, Named
<1>7. CASE what = "sent"
  BY <1>1, <1>7 DEF PairsOf, SentPairs, Passed
<1>8. CASE what = "received"
  BY <1>1, <1>8 DEF PairsOf, ReceivedPairs, Passed
<1>9. CASE what = "none"
  BY <1>9 DEF PairsOf
<1> QED
  BY <1>2, <1>3, <1>4, <1>5, <1>6, <1>7, <1>8, <1>9 DEF PairKinds

LEMMA PairsOfDays ==
  ASSUME NEW R, NEW n \in Nat, NEW J, DOMAIN J = 1..n, Apart(J, n), UpTo(J, n) \in SUBSET DOMAIN R,
         NEW what \in PairKinds
  PROVE  /\ UpTo(PairsByDay(what, R, J), n) = PairsOf(what, R, UpTo(J, n))
         /\ Apart(PairsByDay(what, R, J), n)
         /\ \A d \in 1..n : Tagged(R, PairsByDay(what, R, J)[d])
         /\ Tagged(R, PairsOf(what, R, UpTo(J, n)))
<1> DEFINE P == PairsByDay(what, R, J)
           A == UpTo(J, n)
<1>1. \A d \in 1..n : P[d] = PairsOf(what, R, J[d]) /\ J[d] \subseteq A
  BY DEF PairsByDay, UpTo
<1>0. \A j \in A : \E d \in 1..n : j \in J[d]
  BY DEF UpTo
<1>8. A \in SUBSET DOMAIN R
  OBVIOUS
<1> HIDE DEF P, A
<1>2. \A d \in 1..n : \A p \in P[d] : p = <<p[1], p[2]>> /\ p[2] \in J[d] /\ p \in PairsOf(what, R, A)
  BY <1>1, PairsSecond, PairsOfOne
<1>3. ASSUME NEW p \in PairsOf(what, R, A)
      PROVE  p \in UpTo(P, n)
  <2>1. p[2] \in A
    BY PairsSecond
  <2>2. PICK d \in 1..n : p[2] \in J[d]
    BY <1>0, <2>1
  <2>3. p \in P[d]
    BY <1>1, <2>2, PairsOfOne
  <2> QED
    BY <2>3 DEF UpTo
<1>4. UpTo(P, n) = PairsOf(what, R, A)
  BY <1>2, <1>3 DEF UpTo
<1>5. Apart(P, n)
  BY <1>2 DEF Apart
<1>6. \A d \in 1..n : Tagged(R, P[d])
  BY <1>1, <1>2, <1>8 DEF Tagged
<1>7. Tagged(R, PairsOf(what, R, A))
  BY <1>8, PairsSecond DEF Tagged
<1> QED
  BY <1>4, <1>5, <1>6, <1>7 DEF P, A

\* The finished window, its rows numbered through.
WindowState(R, at) ==
    /\ days \in Seq(Seq(Transactions)) /\ Numbering(days, R, at) /\ RowsOfDays(days, R, at)
    /\ WindowRight(R, at)

LEMMA WindowRows ==
  ASSUME NEW R, NEW at, WindowState(R, at), NEW n, n = Len(days), NEW J, J = DayRows(days, at)
  PROVE  /\ Indexed(R) /\ n \in Nat /\ DOMAIN J = 1..n /\ DOMAIN tables = 1..n
         /\ Apart(J, n) /\ UpTo(J, n) = KeptIn(R) /\ KeptIn(R) \in SUBSET DOMAIN R
         /\ \A d \in 1..n : CacheOf(tables[d], R, J[d]) /\ J[d] \in SUBSET DOMAIN R
<1>1. days \in Seq(Seq(Transactions)) /\ Numbering(days, R, at) /\ RowsOfDays(days, R, at)
  BY DEF WindowState
<1>2. Apart(J, n) /\ UpTo(J, n) = KeptIn(R)
  BY <1>1, KeptOfDays
<1>3. DOMAIN days = 1..n /\ n \in Nat
  BY <1>1
<1>4. DOMAIN J = 1..n /\ \A d \in 1..n : J[d] = KeptRows(days, at, d, Len(days[d]))
  BY DEF DayRows
<1>5. DOMAIN tables = 1..n /\ \A d \in 1..n : CacheOf(tables[d], R, J[d])
  BY <1>3, <1>4 DEF WindowState, WindowRight
<1>6. Indexed(R)
  BY <1>1 DEF Numbering
<1>7. KeptIn(R) \in SUBSET DOMAIN R
  BY DEF KeptIn
<1>8. \A d \in 1..n : J[d] \in SUBSET DOMAIN R
  BY <1>2, <1>7 DEF UpTo
<1> QED
  BY <1>2, <1>3, <1>4, <1>5, <1>6, <1>7, <1>8

\* The maps of the days, merged, are those of all rows.
DailyMaps(kind, R, maps, n, J, what, what2) ==
    /\ DOMAIN maps = 1..n
    /\ \A d \in 1..n :
          maps[d] = MapOf(kind, R, PairsOf(what, R, J[d]), PairsOf(what2, R, J[d]))

LEMMA MergedWindow ==
  ASSUME NEW R, Indexed(R), NEW n \in Nat, NEW J, DOMAIN J = 1..n, Apart(J, n),
         UpTo(J, n) \in SUBSET DOMAIN R,
         NEW kind \in MapKinds, NEW what \in PairKinds, NEW what2 \in PairKinds,
         NEW maps, DailyMaps(kind, R, maps, n, J, what, what2)
  PROVE  MergedFor(kind, maps)
           = MapOf(kind, R, PairsOf(what, R, UpTo(J, n)), PairsOf(what2, R, UpTo(J, n)))
<1> DEFINE P == PairsByDay(what, R, J)
           Q == PairsByDay(what2, R, J)
<1>1. /\ UpTo(P, n) = PairsOf(what, R, UpTo(J, n)) /\ Apart(P, n)
      /\ \A d \in 1..n : Tagged(R, P[d])
  BY PairsOfDays
<1>2. /\ UpTo(Q, n) = PairsOf(what2, R, UpTo(J, n)) /\ Apart(Q, n)
      /\ \A d \in 1..n : Tagged(R, Q[d])
  BY PairsOfDays
<1>3. \A d \in 1..n : maps[d] = MapOf(kind, R, P[d], Q[d])
  BY DEF PairsByDay, DailyMaps
<1> HIDE DEF P, Q
<1>4. WindowOf(kind, R, maps, n, P, Q)
  BY <1>1, <1>2, <1>3 DEF WindowOf, DailyMaps
<1>5. MergedFor(kind, maps) = MapOf(kind, R, UpTo(P, n), UpTo(Q, n))
  BY <1>4, WindowMerged
<1> QED
  BY <1>1, <1>2, <1>5

\* A map without its totals.
LEMMA TotalsRemoved ==
  ASSUME NEW kind \in MapKinds, NEW R, NEW P, Tagged(R, P), \A p \in P : p[1] # "total",
         NEW J \in SUBSET DOMAIN R
  PROVE  Without(MapOf(kind, R, P \cup WholePairs(J), {}), "total") = MapOf(kind, R, P, {})
<1> DEFINE W == P \cup WholePairs(J)
           m == MapOf(kind, R, W, {})
           S == DOMAIN m \ {"total"}
<1>1. DOMAIN m = KeysIn(W)
  <2>1. W \cup {} = W
    OBVIOUS
  <2> QED
    BY <2>1 DEF MapOf
<1>2. Tagged(R, W) /\ Tagged(R, {})
  <2>1. Tagged(R, WholePairs(J))
    BY PairsTagged
  <2> QED
    BY <2>1 DEF Tagged
<1>3. Within(W, S) = P /\ Within({}, S) = {}
  <2>1. \A p \in WholePairs(J) : p[1] = "total"
    BY DEF WholePairs
  <2>2. \A p \in P : p[1] \in DOMAIN m
    BY <1>1 DEF KeysIn
  <2> HIDE DEF m
  <2> QED
    BY <2>1, <2>2 DEF Within
<1>4. S \subseteq KeysIn(W \cup {})
  <2>1. W \cup {} = W
    OBVIOUS
  <2> HIDE DEF m, W
  <2> QED
    BY <1>1, <2>1
<1>5. Without(m, "total") = Restrict(m, S)
  BY DEF Without
<1> HIDE DEF W, S
<1>6. Restrict(m, S) = MapOf(kind, R, Within(W, S), Within({}, S))
  BY <1>2, <1>4, MapWithin
<1> QED
  BY <1>3, <1>5, <1>6 DEF W

\* No row is counted under the key of the totals.
LEMMA NoneIsTotal ==
  ASSUME NEW R, Indexed(R), NEW J \in SUBSET DOMAIN R,
         NEW what \in {"owner", "to", "name"}, NEW p \in PairsOf(what, R, J)
  PROVE  p[1] # "total"
<1>0. \A x, y : <<x, y>>[1] = x
  OBVIOUS
<1>1. \A j \in J : (R[j].owner # "total") /\ (R[j].to # "total") /\ (R[j].name # "total")
  BY NotTotal DEF Indexed
<1>2. CASE what = "owner"
  BY <1>0, <1>1, <1>2 DEF PairsOf, OwnerPairs
<1>3. CASE what = "to"
  BY <1>0, <1>1, <1>3 DEF PairsOf, ToPairs, Arrived
<1>4. CASE what = "name"
  BY <1>0, <1>1, <1>4 DEF PairsOf, NamePairs, Named
<1> QED
  BY <1>2, <1>3, <1>4

\* The maps of the flush without their totals.
LEMMA CacheRows ==
  ASSUME NEW R, Indexed(R), NEW J \in SUBSET DOMAIN R, NEW c, CacheOf(c, R, J)
  PROVE  /\ Without(c.from, "total") = MapOf("users", R, PairsOf("owner", R, J), {})
         /\ Without(c.to, "total") = MapOf("users", R, PairsOf("to", R, J), {})
         /\ c.to = MapOf("users", R, PairsOf("to", R, J), {})
         /\ Without(c.token, "total") = MapOf("tokens", R, PairsOf("name", R, J), {})
<1> DEFINE P == PairsOf("owner", R, J)
           Q == PairsOf("to", R, J)
           N == PairsOf("name", R, J)
           K == Named(R, J)
<1>1. /\ c.from = MapOf("users", R, P \cup WholePairs(J), {})
      /\ c.to = MapOf("users", R, Q, {})
      /\ c.token = MapOf("tokens", R, N \cup WholePairs(K), {})
  BY DEF CacheOf, PairsOf
<1>2. Tagged(R, P) /\ Tagged(R, Q) /\ Tagged(R, N)
  BY PairsTagged DEF PairsOf
<1>3. \A p \in P : p[1] # "total"
  BY NoneIsTotal
<1>4. \A p \in Q : p[1] # "total"
  BY NoneIsTotal
<1>5. \A p \in N : p[1] # "total"
  BY NoneIsTotal
<1>6. K \in SUBSET DOMAIN R /\ {} \in SUBSET DOMAIN R
  BY DEF Named
<1>7. Q = Q \cup WholePairs({})
  BY DEF WholePairs
<1>8. "users" \in MapKinds /\ "tokens" \in MapKinds
  BY DEF MapKinds
<1> HIDE DEF P, Q, N, K
<1>9. Without(MapOf("users", R, P \cup WholePairs(J), {}), "total") = MapOf("users", R, P, {})
  BY <1>2, <1>3, <1>8, TotalsRemoved
<1>10. Without(MapOf("users", R, Q \cup WholePairs({}), {}), "total") = MapOf("users", R, Q, {})
  BY <1>2, <1>4, <1>6, <1>8, TotalsRemoved
<1>11. Without(MapOf("tokens", R, N \cup WholePairs(K), {}), "total") = MapOf("tokens", R, N, {})
  BY <1>2, <1>5, <1>6, <1>8, TotalsRemoved
<1> QED
  BY <1>1, <1>7, <1>9, <1>10, <1>11 DEF P, Q, N

LEMMA WindowMaps ==
  ASSUME NEW R, NEW at, WindowState(R, at)
  PROVE  /\ FromStatistic = MapOf("users", R, PairsOf("owner", R, KeptIn(R)), {})
         /\ ToStatistic = MapOf("users", R, PairsOf("to", R, KeptIn(R)), {})
         /\ TokenStatistics = MapOf("tokens", R, PairsOf("name", R, KeptIn(R)), {})
<1> DEFINE n == Len(days)
           J == DayRows(days, at)
           FromMaps == [d \in DOMAIN tables |-> Without(tables[d].from, "total")]
           ToMaps == [d \in DOMAIN tables |-> Without(tables[d].to, "total")]
           TokenMaps == [d \in DOMAIN tables |-> Without(tables[d].token, "total")]
<1>1. /\ FromStatistic = MergedFor("users", FromMaps)
      /\ ToStatistic = MergedFor("users", ToMaps)
      /\ TokenStatistics = MergedFor("tokens", TokenMaps)
  BY DEF FromStatistic, ToStatistic, TokenStatistics, OverWindow, OverDays, MergedFor
<1>2. /\ Indexed(R) /\ n \in Nat /\ DOMAIN J = 1..n /\ DOMAIN tables = 1..n
      /\ Apart(J, n) /\ UpTo(J, n) = KeptIn(R) /\ KeptIn(R) \in SUBSET DOMAIN R
      /\ \A d \in 1..n : CacheOf(tables[d], R, J[d]) /\ J[d] \in SUBSET DOMAIN R
  BY WindowRows
<1> HIDE DEF J, n
<1>3. \A d \in 1..n :
         /\ FromMaps[d] = MapOf("users", R, PairsOf("owner", R, J[d]), PairsOf("none", R, J[d]))
         /\ ToMaps[d] = MapOf("users", R, PairsOf("to", R, J[d]), PairsOf("none", R, J[d]))
         /\ TokenMaps[d] = MapOf("tokens", R, PairsOf("name", R, J[d]), PairsOf("none", R, J[d]))
  <2> SUFFICES ASSUME NEW d \in 1..n
               PROVE  /\ FromMaps[d] = MapOf("users", R, PairsOf("owner", R, J[d]), PairsOf("none", R, J[d]))
                      /\ ToMaps[d] = MapOf("users", R, PairsOf("to", R, J[d]), PairsOf("none", R, J[d]))
                      /\ TokenMaps[d] = MapOf("tokens", R, PairsOf("name", R, J[d]), PairsOf("none", R, J[d]))
    BY Zenon
  <2>1. PairsOf("none", R, J[d]) = {}
    BY DEF PairsOf
  <2>2. /\ FromMaps[d] = Without(tables[d].from, "total") /\ ToMaps[d] = Without(tables[d].to, "total")
        /\ TokenMaps[d] = Without(tables[d].token, "total")
    BY <1>2
  <2> HIDE DEF FromMaps, ToMaps, TokenMaps
  <2> DEFINE K == J[d]
  <2>3. CacheOf(tables[d], R, K) /\ K \in SUBSET DOMAIN R
    BY <1>2
  <2> HIDE DEF K
  <2>4. /\ Without(tables[d].from, "total") = MapOf("users", R, PairsOf("owner", R, K), {})
        /\ Without(tables[d].to, "total") = MapOf("users", R, PairsOf("to", R, K), {})
        /\ Without(tables[d].token, "total") = MapOf("tokens", R, PairsOf("name", R, K), {})
    BY <1>2, <2>3, CacheRows
  <2> QED
    BY <2>1, <2>2, <2>4 DEF K
<1>4. DOMAIN FromMaps = 1..n /\ DOMAIN ToMaps = 1..n /\ DOMAIN TokenMaps = 1..n
  BY <1>2
<1>5. /\ "users" \in MapKinds /\ "tokens" \in MapKinds
      /\ "owner" \in PairKinds /\ "to" \in PairKinds /\ "name" \in PairKinds /\ "none" \in PairKinds
      /\ PairsOf("none", R, KeptIn(R)) = {}
  BY DEF MapKinds, PairKinds, PairsOf
<1> HIDE DEF FromMaps, ToMaps, TokenMaps
<1>9. /\ DailyMaps("users", R, FromMaps, n, J, "owner", "none")
      /\ DailyMaps("users", R, ToMaps, n, J, "to", "none")
      /\ DailyMaps("tokens", R, TokenMaps, n, J, "name", "none")
  BY <1>3, <1>4 DEF DailyMaps
<1>6. MergedFor("users", FromMaps)
        = MapOf("users", R, PairsOf("owner", R, UpTo(J, n)), PairsOf("none", R, UpTo(J, n)))
  BY <1>2, <1>5, <1>9, MergedWindow
<1>7. MergedFor("users", ToMaps)
        = MapOf("users", R, PairsOf("to", R, UpTo(J, n)), PairsOf("none", R, UpTo(J, n)))
  BY <1>2, <1>5, <1>9, MergedWindow
<1>8. MergedFor("tokens", TokenMaps)
        = MapOf("tokens", R, PairsOf("name", R, UpTo(J, n)), PairsOf("none", R, UpTo(J, n)))
  BY <1>2, <1>5, <1>9, MergedWindow
<1> QED
  BY <1>1, <1>2, <1>5, <1>6, <1>7, <1>8

\* Statistics of different rows, merged one after the other.
StatChain(kind, R, h, D, n) ==
    /\ h[0] = StatOf(kind, R, {}, {})
    /\ \A k \in 1..n : h[k] = MergeOf(kind, h[k - 1], StatOf(kind, R, D[k], {}))

LEMMA StatsOfDays ==
  ASSUME NEW R, Indexed(R), NEW kind \in MapKinds, NEW n \in Nat, NEW D, Apart(D, n),
         \A d \in 1..n : D[d] \in SUBSET DOMAIN R, NEW h, StatChain(kind, R, h, D, n)
  PROVE  h[n] = StatOf(kind, R, UpTo(D, n), {})
<1> DEFINE P == {k \in Nat : k <= n => h[k] = StatOf(kind, R, UpTo(D, k), {})}
<1>1. 0 \in P
  <2>1. UpTo(D, 0) = {}
    BY DEF UpTo
  <2> QED
    BY <2>1 DEF StatChain
<1>2. ASSUME NEW k \in Nat, k \in P
      PROVE  k + 1 \in P
  <2> SUFFICES ASSUME k + 1 <= n PROVE h[k + 1] = StatOf(kind, R, UpTo(D, k + 1), {})
    OBVIOUS
  <2> DEFINE A == UpTo(D, k)
             B == D[k + 1]
  <2>1. h[k] = StatOf(kind, R, A, {})
    BY <1>2
  <2>2. k + 1 \in 1..n /\ (k + 1) - 1 = k /\ \A d \in 1..k : d \in 1..n /\ d # k + 1
    OBVIOUS
  <2>3. h[k + 1] = MergeOf(kind, h[k], StatOf(kind, R, B, {}))
    BY <2>2 DEF StatChain
  <2>4. A \in SUBSET DOMAIN R /\ B \in SUBSET DOMAIN R
    BY <2>2 DEF UpTo
  <2>5. A \cap B = {}
    BY <2>2 DEF UpTo, Apart
  <2>6. UpTo(D, k + 1) = A \cup B
    <3>1. 1..(k + 1) = (1..k) \cup {k + 1}
      OBVIOUS
    <3> QED
      BY <3>1 DEF UpTo
  <2> HIDE DEF A, B
  <2>7. {} \cup {} = {} /\ {} \in SUBSET DOMAIN R /\ {} \cap {} = {}
    OBVIOUS
  <2>8. MergeOf(kind, StatOf(kind, R, A, {}), StatOf(kind, R, B, {}))
          = StatOf(kind, R, A \cup B, {} \cup {})
    BY <2>4, <2>5, <2>7, StatsBoth
  <2> QED
    BY <2>1, <2>3, <2>6, <2>7, <2>8
<1>3. n \in P
  <2> HIDE DEF P
  <2> QED
    BY <1>1, <1>2, AllNumbers
<1> QED
  BY <1>3

\* The rows that count for a key, which may be that of the totals.
RowsFrom(R, J, a) == {j \in J : (R[j].owner = a) \/ (a = "total")}
RowsNamed(R, J, a) == {j \in J : (R[j].name # NoName) /\ ((R[j].name = a) \/ (a = "total"))}

LEMMA RowsOfKey ==
  ASSUME NEW R, NEW J \in SUBSET DOMAIN R, NEW a
  PROVE  /\ RowsIn(R, OwnerPairs(R, J) \cup WholePairs(J), a) = RowsFrom(R, J, a)
         /\ RowsIn(R, NamePairs(R, J) \cup WholePairs(Named(R, J)), a) = RowsNamed(R, J, a)
<1>1. \A x, y, u, v : <<x, y>> = <<u, v>> <=> x = u /\ y = v
  OBVIOUS
<1>2. RowsIn(R, OwnerPairs(R, J) \cup WholePairs(J), a) = RowsFrom(R, J, a)
  BY <1>1 DEF RowsIn, OwnerPairs, WholePairs, RowsFrom
<1>3. RowsIn(R, NamePairs(R, J) \cup WholePairs(Named(R, J)), a) = RowsNamed(R, J, a)
  BY <1>1 DEF RowsIn, NamePairs, WholePairs, Named, RowsNamed
<1> QED
  BY <1>2, <1>3

\* What a flush has for an address, or an empty statistic.
LEMMA EntryOfCache ==
  ASSUME NEW R, Indexed(R), NEW J \in SUBSET DOMAIN R, NEW c, CacheOf(c, R, J), NEW a
  PROVE  /\ EntryOf(c.from, a, NewUserStatistic) = UserFor(R, RowsFrom(R, J, a))
         /\ EntryOf(c.token, a, NewTokenStatistic) = TokenOf(R, RowsNamed(R, J, a))
<1> DEFINE P == OwnerPairs(R, J) \cup WholePairs(J)
           Q == NamePairs(R, J) \cup WholePairs(Named(R, J))
<1>1. c.from = MapOf("users", R, P, {}) /\ c.token = MapOf("tokens", R, Q, {})
  BY DEF CacheOf
<1>2. Tagged(R, P) /\ Tagged(R, Q) /\ Tagged(R, {})
  BY PairsTagged DEF Tagged
<1>3. RowsIn(R, P, a) = RowsFrom(R, J, a) /\ RowsIn(R, Q, a) = RowsNamed(R, J, a)
  BY RowsOfKey
<1>4. /\ "users" \in MapKinds /\ "tokens" \in MapKinds
      /\ FreshOf("users") = NewUserStatistic /\ FreshOf("tokens") = NewTokenStatistic
  BY DEF MapKinds, FreshOf
<1> HIDE DEF P, Q
<1>5. EntryOf(MapOf("users", R, P, {}), a, FreshOf("users"))
        = StatOf("users", R, RowsIn(R, P, a), RowsIn(R, {}, a))
  BY <1>2, <1>4, EntryIs
<1>6. EntryOf(MapOf("tokens", R, Q, {}), a, FreshOf("tokens"))
        = StatOf("tokens", R, RowsIn(R, Q, a), RowsIn(R, {}, a))
  BY <1>2, <1>4, EntryIs
<1>7. \A S, T : StatOf("users", R, S, T) = UserFor(R, S) /\ StatOf("tokens", R, S, T) = TokenOf(R, S)
  BY DEF StatOf
<1> QED
  BY <1>1, <1>3, <1>4, <1>5, <1>6, <1>7

\* One address over the window.
LEMMA UserWindow ==
  ASSUME NEW R, NEW at, WindowState(R, at), NEW a
  PROVE  UserOverWindow(a) = UserFor(R, RowsFrom(R, KeptIn(R), a))
<1> DEFINE n == Len(days)
           J == DayRows(days, at)
           D == [d \in 1..n |-> RowsFrom(R, J[d], a)]
<1>1. /\ Indexed(R) /\ n \in Nat /\ DOMAIN J = 1..n /\ DOMAIN tables = 1..n
      /\ Apart(J, n) /\ UpTo(J, n) = KeptIn(R) /\ KeptIn(R) \in SUBSET DOMAIN R
      /\ \A d \in 1..n : CacheOf(tables[d], R, J[d]) /\ J[d] \in SUBSET DOMAIN R
  BY WindowRows
<1> HIDE DEF J, n
<1>2. PICK h : Chain("user", a, NewUserStatistic, tables, h) /\ h[n] = UserOverWindow(a)
  BY <1>1, UserOver
<1>3. h[0] = NewUserStatistic
  BY <1>2 DEF Chain
<1>4. ASSUME NEW k \in 1..n
      PROVE  h[k] = UserMerge(h[k - 1], UserFor(R, D[k]))
  <2>1. h[k] = StepOf("user", a, h[k - 1], tables[k])
    BY <1>1, <1>2 DEF Chain
  <2>2. h[k] = UserMerge(h[k - 1], EntryOf(tables[k].from, a, NewUserStatistic))
    BY <2>1 DEF StepOf, EntryOf
  <2>3. EntryOf(tables[k].from, a, NewUserStatistic) = UserFor(R, RowsFrom(R, J[k], a))
    BY <1>1, EntryOfCache
  <2> QED
    BY <2>2, <2>3
<1>5. /\ \A d \in 1..n : D[d] \in SUBSET DOMAIN R
      /\ Apart(D, n) /\ UpTo(D, n) = RowsFrom(R, KeptIn(R), a)
  <2>1. \A d \in 1..n : D[d] = RowsFrom(R, J[d], a) /\ D[d] \subseteq J[d]
    BY DEF RowsFrom
  <2>2. \A j \in KeptIn(R) : \E d \in 1..n : j \in J[d]
    BY <1>1 DEF UpTo
  <2>3. \A d \in 1..n : J[d] \subseteq KeptIn(R)
    BY <1>1 DEF UpTo
  <2> HIDE DEF D
  <2>4. \A d \in 1..n : D[d] \in SUBSET DOMAIN R
    BY <1>1, <2>1
  <2>5. Apart(D, n)
    BY <1>1, <2>1 DEF Apart
  <2>6. UpTo(D, n) \subseteq RowsFrom(R, KeptIn(R), a)
    BY <2>1, <2>3 DEF UpTo, RowsFrom
  <2>7. RowsFrom(R, KeptIn(R), a) \subseteq UpTo(D, n)
    BY <2>1, <2>2 DEF UpTo, RowsFrom
  <2> QED
    BY <2>4, <2>5, <2>6, <2>7
<1> HIDE DEF D
<1>6. StatChain("users", R, h, D, n)
  <2>1. NewUserStatistic = UserFor(R, {})
    BY <1>1, StatOfNone
  <2> QED
    BY <1>3, <1>4, <2>1 DEF StatChain, StatOf, MergeOf
<1>7. h[n] = StatOf("users", R, UpTo(D, n), {})
  <2>1. "users" \in MapKinds
    BY DEF MapKinds
  <2> QED
    BY <1>1, <1>5, <1>6, <2>1, StatsOfDays
<1> QED
  BY <1>2, <1>5, <1>7 DEF StatOf

\* One token over the window.
LEMMA TokenWindow ==
  ASSUME NEW R, NEW at, WindowState(R, at), NEW a
  PROVE  TokenOverWindow(a) = TokenOf(R, RowsNamed(R, KeptIn(R), a))
<1> DEFINE n == Len(days)
           J == DayRows(days, at)
           D == [d \in 1..n |-> RowsNamed(R, J[d], a)]
<1>1. /\ Indexed(R) /\ n \in Nat /\ DOMAIN J = 1..n /\ DOMAIN tables = 1..n
      /\ Apart(J, n) /\ UpTo(J, n) = KeptIn(R) /\ KeptIn(R) \in SUBSET DOMAIN R
      /\ \A d \in 1..n : CacheOf(tables[d], R, J[d]) /\ J[d] \in SUBSET DOMAIN R
  BY WindowRows
<1> HIDE DEF J, n
<1>2. PICK h : Chain("token", a, NewTokenStatistic, tables, h) /\ h[n] = TokenOverWindow(a)
  BY <1>1, TokenOver
<1>3. h[0] = NewTokenStatistic
  BY <1>2 DEF Chain
<1>4. ASSUME NEW k \in 1..n
      PROVE  h[k] = TokenMerge(h[k - 1], TokenOf(R, D[k]))
  <2>1. h[k] = StepOf("token", a, h[k - 1], tables[k])
    BY <1>1, <1>2 DEF Chain
  <2>2. h[k] = TokenMerge(h[k - 1], EntryOf(tables[k].token, a, NewTokenStatistic))
    BY <2>1 DEF StepOf, EntryOf
  <2>3. EntryOf(tables[k].token, a, NewTokenStatistic) = TokenOf(R, RowsNamed(R, J[k], a))
    BY <1>1, EntryOfCache
  <2> QED
    BY <2>2, <2>3
<1>5. /\ \A d \in 1..n : D[d] \in SUBSET DOMAIN R
      /\ Apart(D, n) /\ UpTo(D, n) = RowsNamed(R, KeptIn(R), a)
  <2>1. \A d \in 1..n : D[d] = RowsNamed(R, J[d], a) /\ D[d] \subseteq J[d]
    BY DEF RowsNamed
  <2>2. \A j \in KeptIn(R) : \E d \in 1..n : j \in J[d]
    BY <1>1 DEF UpTo
  <2>3. \A d \in 1..n : J[d] \subseteq KeptIn(R)
    BY <1>1 DEF UpTo
  <2> HIDE DEF D
  <2>4. \A d \in 1..n : D[d] \in SUBSET DOMAIN R
    BY <1>1, <2>1
  <2>5. Apart(D, n)
    BY <1>1, <2>1 DEF Apart
  <2>6. UpTo(D, n) \subseteq RowsNamed(R, KeptIn(R), a)
    BY <2>1, <2>3 DEF UpTo, RowsNamed
  <2>7. RowsNamed(R, KeptIn(R), a) \subseteq UpTo(D, n)
    BY <2>1, <2>2 DEF UpTo, RowsNamed
  <2> QED
    BY <2>4, <2>5, <2>6, <2>7
<1> HIDE DEF D
<1>6. StatChain("tokens", R, h, D, n)
  <2>1. NewTokenStatistic = TokenOf(R, {})
    BY <1>1, StatOfNone
  <2> QED
    BY <1>3, <1>4, <2>1 DEF StatChain, StatOf, MergeOf
<1>7. h[n] = StatOf("tokens", R, UpTo(D, n), {})
  <2>1. "tokens" \in MapKinds
    BY DEF MapKinds
  <2> QED
    BY <1>1, <1>5, <1>6, <2>1, StatsOfDays
<1> QED
  BY <1>2, <1>5, <1>7 DEF StatOf

\* The transfers of one token by user.
OfToken(R, J, token) == {j \in J : R[j].name = token}

\* A cache's map, cut to a token, is that of the token's rows.
LEMMA TokenRowsOf ==
  ASSUME NEW R, NEW J \in SUBSET DOMAIN R, NEW token
  PROVE  LET m == MapOf("userTokens", R, SentPairs(R, J), ReceivedPairs(R, J))
         IN  Restrict(m, {k \in DOMAIN m : k[2] = token})
               = MapOf("userTokens", R, PairsOf("sent", R, OfToken(R, J, token)),
                       PairsOf("received", R, OfToken(R, J, token)))
<1> DEFINE P == SentPairs(R, J)
           Q == ReceivedPairs(R, J)
           m == MapOf("userTokens", R, P, Q)
           S == {k \in DOMAIN m : k[2] = token}
           K == OfToken(R, J, token)
<1>1. Tagged(R, P) /\ Tagged(R, Q)
  BY PairsTagged
<1>2. DOMAIN m = KeysIn(P \cup Q)
  BY DEF MapOf
<1>3. S \subseteq KeysIn(P \cup Q)
  BY <1>2
<1>4. \A x, y : <<x, y>>[1] = x /\ <<x, y>>[2] = y
  OBVIOUS
<1>5. \A p \in P \cup Q : p[1] \in S <=> p[1][2] = token
  BY <1>2 DEF KeysIn
<1> HIDE DEF S
<1>6. Within(P, S) = PairsOf("sent", R, K)
  BY <1>4, <1>5 DEF Within, PairsOf, SentPairs, Passed, OfToken
<1>7. Within(Q, S) = PairsOf("received", R, K)
  BY <1>4, <1>5 DEF Within, PairsOf, ReceivedPairs, Passed, OfToken
<1> HIDE DEF P, Q, K
<1>8. Restrict(m, S) = MapOf("userTokens", R, Within(P, S), Within(Q, S))
  BY <1>1, <1>3, MapWithin
<1>9. Restrict(m, S) = MapOf("userTokens", R, PairsOf("sent", R, K), PairsOf("received", R, K))
  BY <1>6, <1>7, <1>8
<1> QED
  BY <1>9 DEF S, P, Q, K

LEMMA TokenUsersWindow ==
  ASSUME NEW R, NEW at, WindowState(R, at), NEW token
  PROVE  UserTokenStatistics(token)
           = MapOf("userTokens", R, PairsOf("sent", R, OfToken(R, KeptIn(R), token)),
                   PairsOf("received", R, OfToken(R, KeptIn(R), token)))
<1> DEFINE n == Len(days)
           J == DayRows(days, at)
           D == [d \in 1..n |-> OfToken(R, J[d], token)]
           maps == [d \in DOMAIN tables |->
                      Restrict(tables[d].userToken,
                               {k \in DOMAIN tables[d].userToken : k[2] = token})]
<1>1. UserTokenStatistics(token) = MergedFor("userTokens", maps)
  BY DEF UserTokenStatistics, OverWindow, OverDays, MergedFor
<1>2. /\ Indexed(R) /\ n \in Nat /\ DOMAIN J = 1..n /\ DOMAIN tables = 1..n
      /\ Apart(J, n) /\ UpTo(J, n) = KeptIn(R) /\ KeptIn(R) \in SUBSET DOMAIN R
      /\ \A d \in 1..n : CacheOf(tables[d], R, J[d]) /\ J[d] \in SUBSET DOMAIN R
  BY WindowRows
<1> HIDE DEF J, n
<1>3. /\ UpTo(D, n) \in SUBSET DOMAIN R
      /\ Apart(D, n) /\ UpTo(D, n) = OfToken(R, KeptIn(R), token) /\ DOMAIN D = 1..n
  <2>1. \A d \in 1..n : D[d] = OfToken(R, J[d], token) /\ D[d] \subseteq J[d]
    BY DEF OfToken
  <2>2. \A j \in KeptIn(R) : \E d \in 1..n : j \in J[d]
    BY <1>2 DEF UpTo
  <2>3. \A d \in 1..n : J[d] \subseteq KeptIn(R)
    BY <1>2 DEF UpTo
  <2>8. DOMAIN D = 1..n
    OBVIOUS
  <2> HIDE DEF D
  <2>4. UpTo(D, n) \in SUBSET DOMAIN R
    BY <1>2, <2>1 DEF UpTo
  <2>5. Apart(D, n)
    BY <1>2, <2>1 DEF Apart
  <2>6. UpTo(D, n) \subseteq OfToken(R, KeptIn(R), token)
    BY <2>1, <2>3 DEF UpTo, OfToken
  <2>7. OfToken(R, KeptIn(R), token) \subseteq UpTo(D, n)
    BY <2>1, <2>2 DEF UpTo, OfToken
  <2> QED
    BY <2>4, <2>5, <2>6, <2>7, <2>8
<1>4. DailyMaps("userTokens", R, maps, n, D, "sent", "received")
  <2> SUFFICES ASSUME NEW d \in 1..n
               PROVE  maps[d] = MapOf("userTokens", R, PairsOf("sent", R, D[d]),
                                      PairsOf("received", R, D[d]))
    <3>1. DOMAIN maps = 1..n
      BY <1>2
    <3> HIDE DEF maps, D
    <3> QED
      BY <3>1 DEF DailyMaps
  <2> DEFINE m == tables[d].userToken
             K == J[d]
  <2>1. maps[d] = Restrict(m, {k \in DOMAIN m : k[2] = token})
    BY <1>2
  <2>2. m = MapOf("userTokens", R, SentPairs(R, K), ReceivedPairs(R, K)) /\ K \in SUBSET DOMAIN R
    BY <1>2 DEF CacheOf
  <2>3. D[d] = OfToken(R, K, token)
    OBVIOUS
  <2> HIDE DEF m, K, D, maps
  <2> QED
    BY <2>1, <2>2, <2>3, TokenRowsOf
<1>5. "userTokens" \in MapKinds /\ "sent" \in PairKinds /\ "received" \in PairKinds
  BY DEF MapKinds, PairKinds
<1> HIDE DEF maps, D
<1> QED
  BY <1>1, <1>2, <1>3, <1>4, <1>5, MergedWindow

\* The sum of ones is their number.
LEMMA SumOfOnes ==
  ASSUME NEW S, IsFiniteSet(S), NEW f, \A x \in S : f[x] = 0 \/ f[x] = 1
  PROVE  SumOver(f, S) = Cardinality({x \in S : f[x] = 1})
<1> DEFINE A == {x \in S : f[x] = 1}
           P == {s \in SUBSET A : SumOver(f, s) = Cardinality(s)}
<1>1. Amounts(f, S) /\ A \subseteq S /\ \A x \in S \ A : f[x] = 0
  BY DEF Amounts
<1>2. Amounts(f, A) /\ SumOver(f, A) = SumOver(f, S)
  BY <1>1, SumOfPart
<1>3. {} \in P
  BY SumOfNone, FS_EmptySet
<1>4. ASSUME NEW s \in P, NEW x \in A, s \subseteq A, x \notin s
      PROVE  s \cup {x} \in P
  <2>1. Amounts(f, s) /\ f[x] = 1
    BY <1>2, <1>4, SumOfPart
  <2>2. SumOver(f, s \cup {x}) = SumOver(f, s) + 1
    BY <1>4, <2>1, SumWith
  <2>3. IsFiniteSet(s)
    BY <2>1 DEF Amounts
  <2>4. Cardinality(s \cup {x}) = Cardinality(s) + 1
    BY <1>4, <2>3, FS_AddElement
  <2> QED
    BY <1>4, <2>2, <2>4
<1>5. A \in P
  <2>1. IsFiniteSet(A)
    BY <1>2 DEF Amounts
  <2> HIDE DEF P, A
  <2> QED
    BY <1>3, <1>4, <2>1, FiniteInduction
<1> QED
  BY <1>2, <1>5

\* The statistics of users: those of one scan, and their histograms read.
LEMMA UsersAreOneScan ==
  ASSUME NEW R, R = FlattenSeq(days), NEW at, WindowState(R, at)
  PROVE  /\ FromStatistic = Without(OneDay.from, "total")
         /\ TotalStatistics = (IF "total" \in DOMAIN OneDay.from THEN OneDay.from["total"]
                               ELSE NewUserStatistic)
         /\ \A a \in DOMAIN FromStatistic :
               /\ a # "total" /\ UserOverWindow(a) = OneDay.from[a]
               /\ FromStatistic[a] = UserFor(R, RowsFrom(R, KeptIn(R), a))
         /\ ToStatistic = OneDay.to
<1>1. Indexed(R) /\ KeptIn(R) \in SUBSET DOMAIN R
  BY WindowRows
<1>2. CacheOf(OneDay, R, KeptIn(R))
  BY OneDayIs DEF WindowState
<1>3. FromStatistic = Without(OneDay.from, "total")
  BY <1>1, <1>2, CacheRows, WindowMaps
<1>4. ToStatistic = OneDay.to
  BY <1>1, <1>2, CacheRows, WindowMaps
<1>5. \A a : EntryOf(OneDay.from, a, NewUserStatistic) = UserFor(R, RowsFrom(R, KeptIn(R), a))
  BY <1>1, <1>2, EntryOfCache
<1>6. TotalStatistics = EntryOf(OneDay.from, "total", NewUserStatistic)
  BY <1>5, UserWindow DEF TotalStatistics
<1>7. ASSUME NEW a \in DOMAIN FromStatistic
      PROVE  /\ a # "total" /\ UserOverWindow(a) = OneDay.from[a]
             /\ FromStatistic[a] = UserFor(R, RowsFrom(R, KeptIn(R), a))
  <2>1. a \in DOMAIN OneDay.from /\ a # "total" /\ FromStatistic[a] = OneDay.from[a]
    BY <1>3 DEF Without, Restrict
  <2>2. EntryOf(OneDay.from, a, NewUserStatistic) = OneDay.from[a]
    BY <2>1 DEF EntryOf
  <2>3. UserOverWindow(a) = UserFor(R, RowsFrom(R, KeptIn(R), a))
    BY UserWindow
  <2>4. OneDay.from[a] = UserFor(R, RowsFrom(R, KeptIn(R), a))
    BY <1>5, <2>2
  <2> QED
    BY <2>1, <2>3, <2>4
<1> QED
  BY <1>3, <1>4, <1>6, <1>7 DEF EntryOf

\* Those of tokens.
LEMMA TokensAreOneScan ==
  ASSUME NEW R, R = FlattenSeq(days), NEW at, WindowState(R, at)
  PROVE  /\ TokenStatistics = Without(OneDay.token, "total")
         /\ \A name \in DOMAIN TokenStatistics : TokenOverWindow(name) = TokenStatistics[name]
         /\ \A token : UserTokenStatistics(token)
                         = Restrict(OneDay.userToken, {k \in DOMAIN OneDay.userToken : k[2] = token})
<1>1. Indexed(R) /\ KeptIn(R) \in SUBSET DOMAIN R
  BY WindowRows
<1>2. CacheOf(OneDay, R, KeptIn(R))
  BY OneDayIs DEF WindowState
<1>3. TokenStatistics = Without(OneDay.token, "total")
  BY <1>1, <1>2, CacheRows, WindowMaps
<1>4. \A a : EntryOf(OneDay.token, a, NewTokenStatistic) = TokenOf(R, RowsNamed(R, KeptIn(R), a))
  BY <1>1, <1>2, EntryOfCache
<1>5. ASSUME NEW a \in DOMAIN TokenStatistics
      PROVE  TokenOverWindow(a) = TokenStatistics[a]
  <2>1. a \in DOMAIN OneDay.token /\ TokenStatistics[a] = OneDay.token[a]
    BY <1>3 DEF Without, Restrict
  <2>2. EntryOf(OneDay.token, a, NewTokenStatistic) = OneDay.token[a]
    BY <2>1 DEF EntryOf
  <2>3. TokenOverWindow(a) = TokenOf(R, RowsNamed(R, KeptIn(R), a))
    BY TokenWindow
  <2> QED
    BY <1>4, <2>1, <2>2, <2>3
<1>6. ASSUME NEW token
      PROVE  UserTokenStatistics(token)
               = Restrict(OneDay.userToken, {k \in DOMAIN OneDay.userToken : k[2] = token})
  <2> DEFINE J == KeptIn(R)
             m == MapOf("userTokens", R, SentPairs(R, J), ReceivedPairs(R, J))
             u == MapOf("userTokens", R, PairsOf("sent", R, OfToken(R, J, token)),
                        PairsOf("received", R, OfToken(R, J, token)))
  <2>1. OneDay.userToken = m
    BY <1>2 DEF CacheOf
  <2>2. Restrict(m, {k \in DOMAIN m : k[2] = token}) = u
    BY <1>1, TokenRowsOf
  <2>3. UserTokenStatistics(token) = u
    BY TokenUsersWindow
  <2> HIDE DEF m, u
  <2> QED
    BY <2>1, <2>2, <2>3
<1> QED
  BY <1>3, <1>5, <1>6

\* What the tracker writes.
RowsWhole(R) == \A j \in DOMAIN R : TransferIsWhole(R[j])

\* A cell of a histogram is the number of transfers of that length, and what is read
\* back is what was written.
LEMMA LengthsAreCounts ==
  ASSUME NEW R, R = FlattenSeq(days), NEW at, WindowState(R, at), RowsWhole(R),
         NEW a \in DOMAIN FromStatistic
  PROVE  /\ \A length \in 1..MaxLength :
               GetLength(FromStatistic[a].trx, length) = TransfersOfLength(a, length)
         /\ ScanLegacy(Counts(FromStatistic[a].trx)) = FromStatistic[a].trx
<1> DEFINE J == RowsFrom(R, KeptIn(R), a)
           s == FromStatistic[a]
           count == TRXOf(R, J)
<1>1. Indexed(R) /\ KeptIn(R) \in SUBSET DOMAIN R
  BY WindowRows
<1>2. a # "total" /\ s = UserFor(R, J)
  BY UsersAreOneScan
<1>3. J = {j \in DOMAIN R : R[j].type # TransferType /\ R[j].owner = a}
  BY <1>2 DEF RowsFrom, KeptIn
<1> HIDE DEF J, s
<1>4. J \in SUBSET DOMAIN R
  BY <1>3
<1>5. UserOf(s, R, J)
  BY <1>1, <1>2, <1>4, UserForIsOf
<1>6. Holds(s.trx, count) /\ count \in LengthCounts
  BY <1>1, <1>4, <1>5, LengthsWith DEF UserOf
<1>7. IsFiniteSet(J)
  BY <1>1, <1>4, FS_Subset DEF Indexed
<1>8. ASSUME NEW l \in Lengths
      PROVE  count[l] = Cardinality({j \in J : IsTRX(R[j]) /\ (Length(R[j].amount) = l)})
  <2>1. count[l] = SumOver(TRXAt(R, l), J)
    BY DEF TRXOf
  <2>2. \A j \in J : TRXAt(R, l)[j] = IF IsTRX(R[j]) /\ (Length(R[j].amount) = l) THEN 1 ELSE 0
    BY <1>4 DEF TRXAt
  <2>3. SumOver(TRXAt(R, l), J) = Cardinality({j \in J : TRXAt(R, l)[j] = 1})
    BY <1>7, <2>2, SumOfOnes
  <2>4. {j \in J : TRXAt(R, l)[j] = 1} = {j \in J : IsTRX(R[j]) /\ (Length(R[j].amount) = l)}
    BY <2>2
  <2> QED
    BY <2>1, <2>3, <2>4
<1> HIDE DEF count
<1>9. ASSUME NEW l \in 1..MaxLength
      PROVE  GetLength(s.trx, l) = TransfersOfLength(a, l)
  <2>1. l \in Lengths
    BY DEF Lengths
  <2>2. GetLength(s.trx, l) = count[l]
    BY <1>6, <2>1, LengthRead
  <2>3. \A j \in DOMAIN R : R[j].type \in Nat /\ R[j].type # 101
    BY <1>1 DEF Indexed, Transactions, RowsWhole, TransferIsWhole
  <2>4. \A j \in DOMAIN R : IsTRX(R[j]) <=> R[j].type = 1
    BY <2>3 DEF IsTRX, BaseType
  <2>5. {j \in J : IsTRX(R[j]) /\ (Length(R[j].amount) = l)}
          = {i \in DOMAIN R : /\ R[i].owner = a /\ (R[i].type = 1)
                              /\ Length(R[i].amount) = l}
    BY <1>3, <2>4 DEF TransferType
  <2>6. TransfersOfLength(a, l)
          = Cardinality({i \in DOMAIN R : /\ R[i].owner = a /\ (R[i].type = 1)
                                          /\ Length(R[i].amount) = l})
    BY DEF TransfersOfLength
  <2> QED
    BY <1>8, <2>1, <2>2, <2>5, <2>6
<1>10. ScanLegacy(Counts(s.trx)) = s.trx
  <2>1. MaxLength \in Lengths
    BY DEF Lengths, MaxLength
  <2>2. \A j \in J : Length(R[j].amount) # MaxLength
    <3>1. \A j \in J : R[j].amount \in Nat
      BY <1>1, <1>4 DEF Indexed, Transactions
    <3>2. \A n \in Nat : Length(n) < MaxLength /\ Length(n) \in Lengths
      BY LengthIsMarked
    <3>3. \A n \in Nat : Length(n) # MaxLength
      BY <3>2 DEF Lengths, MaxLength
    <3> QED
      BY <3>1, <3>3
  <2>3. {j \in J : IsTRX(R[j]) /\ (Length(R[j].amount) = MaxLength)} = {}
    BY <2>2
  <2>4. count[MaxLength] = 0
    BY <1>8, <2>1, <2>3, FS_EmptySet
  <2> QED
    BY <1>6, <2>4, ReadBack
<1> QED
  BY <1>9, <1>10 DEF s

\* The rows of a token that an address has sent and received.
SentRows(R, J, a, token) == {j \in J : R[j].from = a /\ R[j].name = token}
ReceivedRows(R, J, a, token) == {j \in J : R[j].to = a /\ R[j].name = token}

\* The statistics of the flush have those that are counted ...
LEMMA TokenEntry ==
  ASSUME NEW R, R = FlattenSeq(days), NEW at, WindowState(R, at), RowsWhole(R),
         NEW a, a # NoAddr, NEW token, token # NoName
  PROVE  EntryOf(UserTokenStatistics(token), <<a, token>>, NewUserTokenStatistic)
           = UserTokenFor(R, SentRows(R, KeptIn(R), a, token), ReceivedRows(R, KeptIn(R), a, token))
<1> DEFINE K == OfToken(R, KeptIn(R), token)
           P == PairsOf("sent", R, K)
           Q == PairsOf("received", R, K)
           e == <<a, token>>
<1>1. Indexed(R) /\ KeptIn(R) \in SUBSET DOMAIN R
  BY WindowRows
<1>2. UserTokenStatistics(token) = MapOf("userTokens", R, P, Q)
  BY TokenUsersWindow
<1>3. K \in SUBSET DOMAIN R /\ K = {j \in KeptIn(R) : R[j].name = token}
  BY <1>1 DEF OfToken
<1> HIDE DEF K
<1>4. Tagged(R, P) /\ Tagged(R, Q)
  BY <1>3, PairsTagged DEF PairsOf
<1>5. \A x, y, u, v : <<x, y>> = <<u, v>> <=> x = u /\ y = v
  OBVIOUS
<1>6. Passed(R, K) = {j \in K : R[j].from # NoAddr /\ R[j].to # NoAddr}
  BY <1>3 DEF Passed
<1>7. \A j \in K : (R[j].from = NoAddr) <=> (R[j].to = NoAddr)
  BY <1>3 DEF RowsWhole, TransferIsWhole
<1>8. RowsIn(R, P, e) = SentRows(R, KeptIn(R), a, token)
  <2>1. \A j : <<e, j>> \in P <=> j \in Passed(R, K) /\ R[j].from = a /\ R[j].name = token
    BY <1>5 DEF PairsOf, SentPairs
  <2> HIDE DEF P, e
  <2> QED
    BY <1>3, <1>6, <1>7, <2>1 DEF RowsIn, SentRows
<1>9. RowsIn(R, Q, e) = ReceivedRows(R, KeptIn(R), a, token)
  <2>1. \A j : <<e, j>> \in Q <=> j \in Passed(R, K) /\ R[j].to = a /\ R[j].name = token
    BY <1>5 DEF PairsOf, ReceivedPairs
  <2> HIDE DEF Q, e
  <2> QED
    BY <1>3, <1>6, <1>7, <2>1 DEF RowsIn, ReceivedRows
<1>10. "userTokens" \in MapKinds /\ FreshOf("userTokens") = NewUserTokenStatistic
  BY DEF MapKinds, FreshOf
<1> HIDE DEF P, Q, e
<1>11. EntryOf(MapOf("userTokens", R, P, Q), e, FreshOf("userTokens"))
         = StatOf("userTokens", R, RowsIn(R, P, e), RowsIn(R, Q, e))
  BY <1>1, <1>4, <1>10, EntryIs
<1> QED
  BY <1>2, <1>8, <1>9, <1>10, <1>11 DEF StatOf, e

\* ... and the summary all of them.
LEMMA SummaryIs ==
  ASSUME NEW R, R = FlattenSeq(days), Indexed(R), NEW a, NEW token
  PROVE  /\ TransferSummary({a}, token, 0).out.txs
              = Cardinality(SentRows(R, DOMAIN R, a, token))
         /\ TransferSummary({a}, token, 0).in.amount
              = SumOver(AmountOf(R), ReceivedRows(R, DOMAIN R, a, token))
<1>1. \A i \in DOMAIN R : Length(R[i].amount) >= 0
  <2>1. \A i \in DOMAIN R : R[i].amount \in Nat
    BY DEF Indexed, Transactions
  <2>2. \A n \in Nat : Length(n) \in Lengths
    BY LengthIsMarked
  <2>3. \A n \in Nat : Length(n) >= 0
    BY <2>2 DEF Lengths, MaxLength
  <2> QED
    BY <2>1, <2>3
<1> DEFINE Out == {i \in DOMAIN R : /\ R[i].from \in {a} /\ R[i].name = token
                                    /\ Length(R[i].amount) >= 0}
           In == {i \in DOMAIN R : /\ R[i].to \in {a} /\ R[i].name = token
                                   /\ Length(R[i].amount) >= 0}
<1>2. /\ TransferSummary({a}, token, 0).out.txs = Cardinality(Out)
      /\ TransferSummary({a}, token, 0).in.amount = SumOver([x \in In |-> R[x].amount], In)
  BY DEF TransferSummary, Total
<1>3. Out = SentRows(R, DOMAIN R, a, token) /\ In = ReceivedRows(R, DOMAIN R, a, token)
  BY <1>1 DEF SentRows, ReceivedRows
<1> HIDE DEF Out, In
<1>4. SumOver([x \in In |-> R[x].amount], In) = SumOver(AmountOf(R), In)
  <2>1. AmountOf(R) \in FiguresOf(R) /\ In \in SUBSET DOMAIN R
    BY <1>3, FiguresType DEF ReceivedRows
  <2>2. Amounts(AmountOf(R), In)
    BY <2>1, FigureSums
  <2>3. \A x \in In : [y \in In |-> R[y].amount][x] = AmountOf(R)[x]
    BY <2>1 DEF AmountOf
  <2> QED
    BY <2>2, <2>3, SumOfEqual
<1> QED
  BY <1>2, <1>3, <1>4

\* The summary and the statistics differ by the transfers inside contracts.
InternalFrom(R, a, token) == {i \in InternalTransfers(token) : R[i].from = a}
InternalTo(R, a, token) == {i \in InternalTransfers(token) : R[i].to = a}

SummaryOf(R, a, token) ==
    LET e == EntryOf(UserTokenStatistics(token), <<a, token>>, NewUserTokenStatistic)
    IN  /\ TransferSummary({a}, token, 0).out.txs
             = e.from.txs + Cardinality(InternalFrom(R, a, token))
        /\ TransferSummary({a}, token, 0).in.amount
             = e.to.amount + Total(LAMBDA i : R[i].amount, InternalTo(R, a, token))

LEMMA SummaryAgrees ==
  ASSUME NEW R, R = FlattenSeq(days), NEW at, WindowState(R, at), RowsWhole(R),
         NEW a \in Addrs, NEW token \in ValidTokens
  PROVE  SummaryOf(R, a, token)
<1> DEFINE K == KeptIn(R)
           e == EntryOf(UserTokenStatistics(token), <<a, token>>, NewUserTokenStatistic)
           A == SentRows(R, K, a, token)
           B == ReceivedRows(R, K, a, token)
           IA == InternalFrom(R, a, token)
           IB == InternalTo(R, a, token)
<1>1. Indexed(R) /\ K \in SUBSET DOMAIN R
  BY WindowRows
<1>2. a # NoAddr /\ token # NoName
  BY ScanAssumption
<1>3. e = UserTokenFor(R, A, B)
  BY <1>2, TokenEntry
<1>4. e.from.txs = SumOver(OneEach(R), A) /\ e.to.amount = SumOver(AmountOf(R), B)
  BY <1>3 DEF UserTokenFor, FlowOf
<1>5. /\ SentRows(R, DOMAIN R, a, token) = A \cup IA /\ A \cap IA = {}
      /\ ReceivedRows(R, DOMAIN R, a, token) = B \cup IB /\ B \cap IB = {}
      /\ A \in SUBSET DOMAIN R /\ IA \in SUBSET DOMAIN R
      /\ B \in SUBSET DOMAIN R /\ IB \in SUBSET DOMAIN R
  BY DEF SentRows, ReceivedRows, KeptIn, InternalFrom, InternalTo, InternalTransfers
<1>6. /\ TransferSummary({a}, token, 0).out.txs = Cardinality(A \cup IA)
      /\ TransferSummary({a}, token, 0).in.amount = SumOver(AmountOf(R), B \cup IB)
  BY <1>1, <1>5, SummaryIs
<1> HIDE DEF A, B, IA, IB, e, K
<1>7. IsFiniteSet(A) /\ IsFiniteSet(IA)
  BY <1>1, <1>5, FS_Subset DEF Indexed
<1>8. SumOver(OneEach(R), A) = Cardinality(A)
  <2>1. \A x \in A : OneEach(R)[x] = 1
    BY <1>5 DEF OneEach
  <2>2. {x \in A : OneEach(R)[x] = 1} = A
    BY <2>1
  <2> QED
    BY <1>7, <2>1, <2>2, SumOfOnes
<1>9. Cardinality(A \cup IA) = Cardinality(A) + Cardinality(IA)
  BY <1>5, <1>7, DisjointCount
<1>10. SumOver(AmountOf(R), B \cup IB) = SumOver(AmountOf(R), B) + SumOver(AmountOf(R), IB)
  <2>1. AmountOf(R) \in FiguresOf(R)
    BY <1>1, FiguresType
  <2> QED
    BY <1>1, <1>5, <2>1, FigureSums
<1>11. Total(LAMBDA i : R[i].amount, IB) = SumOver(AmountOf(R), IB)
  <2>1. AmountOf(R) \in FiguresOf(R)
    BY <1>1, FiguresType
  <2>2. Amounts(AmountOf(R), IB)
    BY <1>1, <1>5, <2>1, FigureSums
  <2>3. \A x \in IB : [y \in IB |-> R[y].amount][x] = AmountOf(R)[x]
    BY <1>5 DEF AmountOf
  <2> QED
    BY <2>2, <2>3, SumOfEqual DEF Total
<1>12. /\ TransferSummary({a}, token, 0).out.txs = e.from.txs + Cardinality(IA)
       /\ TransferSummary({a}, token, 0).in.amount = e.to.amount + Total(LAMBDA i : R[i].amount, IB)
  BY <1>4, <1>6, <1>8, <1>9, <1>10, <1>11
<1> QED
  BY <1>12 DEF e, IA, IB, SummaryOf

\* Both in the words of the property.
SummaryRight(a, token) ==
    LET stat     == UserTokenStatistics(token)
        summary  == TransferSummary({a}, token, 0)
        within == InternalTransfers(token)
    IN  /\ summary.out.txs
              = (IF <<a, token>> \in DOMAIN stat THEN stat[<<a, token>>].from.txs ELSE 0)
                + Cardinality({i \in within : FlattenSeq(days)[i].from = a})
        /\ summary.in.amount
              = (IF <<a, token>> \in DOMAIN stat THEN stat[<<a, token>>].to.amount ELSE 0)
                + Total(LAMBDA i : FlattenSeq(days)[i].amount,
                        {i \in within : FlattenSeq(days)[i].to = a})

LEMMA SummaryShown ==
  ASSUME NEW R, R = FlattenSeq(days), NEW at, WindowState(R, at), RowsWhole(R),
         NEW a \in Addrs, NEW token \in ValidTokens
  PROVE  SummaryRight(a, token)
<1> DEFINE stat == UserTokenStatistics(token)
           k == <<a, token>>
           e == EntryOf(stat, k, NewUserTokenStatistic)
<1>0. SummaryOf(R, a, token)
  BY SummaryAgrees
<1>1. /\ TransferSummary({a}, token, 0).out.txs
           = e.from.txs + Cardinality(InternalFrom(R, a, token))
      /\ TransferSummary({a}, token, 0).in.amount
           = e.to.amount + Total(LAMBDA i : R[i].amount, InternalTo(R, a, token))
  BY <1>0, Zenon DEF SummaryOf
<1>2. NewUserTokenStatistic.from.txs = 0 /\ NewUserTokenStatistic.to.amount = 0
  BY DEF NewUserTokenStatistic, NewFlow
<1>3. e = IF k \in DOMAIN stat THEN stat[k] ELSE NewUserTokenStatistic
  BY DEF EntryOf
<1> HIDE DEF stat, k, e
<1>4. /\ e.from.txs = (IF k \in DOMAIN stat THEN stat[k].from.txs ELSE 0)
      /\ e.to.amount = (IF k \in DOMAIN stat THEN stat[k].to.amount ELSE 0)
  BY <1>2, <1>3
<1>5. /\ InternalFrom(R, a, token) = {i \in InternalTransfers(token) : FlattenSeq(days)[i].from = a}
      /\ InternalTo(R, a, token) = {i \in InternalTransfers(token) : FlattenSeq(days)[i].to = a}
  BY DEF InternalFrom, InternalTo
<1> QED
  BY <1>1, <1>4, <1>5 DEF stat, k, SummaryRight

\* The invariant behind the statistics of a window.
RowsAsTracked == \A d \in DOMAIN days : \A i \in DOMAIN days[d] : TransferIsWhole(days[d][i])

WindowInv == ScanTypeOK /\ FlushInv /\ ReadInv /\ RowsAsTracked

LEMMA InitWindow == ScanInit => WindowInv
<1> SUFFICES ASSUME ScanInit PROVE WindowInv
  OBVIOUS
<1>1. \E s \in Scans : days = s.days
  BY Zenon DEF ScanInit
<1>2. RowsAsTracked
  BY <1>1, RowAssumption, Zenon DEF RowsAsTracked
<1> QED
  BY <1>2, InitScanType, InitFlush, InitRead DEF WindowInv

LEMMA StepWindow == WindowInv /\ [ScanNext]_scanVars => WindowInv'
<1> SUFFICES ASSUME WindowInv, [ScanNext]_scanVars PROVE WindowInv'
  OBVIOUS
<1>1. ScanTypeOK /\ FlushInv /\ ReadInv
  BY DEF WindowInv
<1>2. ScanTypeOK'
  BY <1>1, StepScanType
<1>3. FlushInv' /\ ReadInv'
  BY <1>1, StepFlush, StepRead
<1>4. RowsAsTracked'
  BY <1>1, StepScanType DEF others, WindowInv, RowsAsTracked
<1> QED
  BY <1>2, <1>3, <1>4 DEF WindowInv

LEMMA WindowNumbered ==
  ASSUME WindowInv, WindowDone
  PROVE  \E at : WindowState(FlattenSeq(days), at) /\ RowsWhole(FlattenSeq(days))
<1>1. days \in Seq(Seq(Transactions))
  BY DEF WindowInv, ScanTypeOK
<1> DEFINE R == FlattenSeq(days)
<1>2. PICK at : Numbering(days, R, at) /\ RowsOfDays(days, R, at)
  BY <1>1, DaysNumbered
<1> HIDE DEF R
<1>3. WindowRight(R, at)
  BY <1>2, DoneIsRight DEF WindowInv
<1>4. RowsWhole(R)
  BY <1>2 DEF RowsWhole, RowsOfDays, Numbering, WindowInv, RowsAsTracked
<1> QED
  BY <1>1, <1>2, <1>3, <1>4 DEF WindowState, R

\* Whatever the rows are, the statistics of days, merged, are those that one scan over all
\* of them would have made, down to the histograms and their JSON form, and the summary of the
\* transactions differs from them by the transfers inside contracts only.
THEOREM WindowsMerge == ScanSpec => []WindowIsOneScan
<1>1. WindowInv => WindowIsOneScan
  <2> SUFFICES ASSUME WindowInv, WindowDone PROVE WindowIsOneScan
    BY DEF WindowIsOneScan
  <2> DEFINE R == FlattenSeq(days)
  <2>1. PICK at : WindowState(R, at) /\ RowsWhole(R)
    BY WindowNumbered
  <2>2. /\ FromStatistic = Without(OneDay.from, "total")
        /\ TotalStatistics = (IF "total" \in DOMAIN OneDay.from THEN OneDay.from["total"]
                              ELSE NewUserStatistic)
        /\ \A a \in DOMAIN FromStatistic : UserOverWindow(a) = OneDay.from[a]
        /\ ToStatistic = OneDay.to
    BY <2>1, UsersAreOneScan
  <2>3. /\ TokenStatistics = Without(OneDay.token, "total")
        /\ \A name \in DOMAIN TokenStatistics : TokenOverWindow(name) = TokenStatistics[name]
        /\ \A token \in ValidTokens :
              UserTokenStatistics(token) =
                  Restrict(OneDay.userToken, {k \in DOMAIN OneDay.userToken : k[2] = token})
    BY <2>1, TokensAreOneScan
  <2>4. /\ \A a \in DOMAIN FromStatistic, length \in 1..MaxLength :
              GetLength(FromStatistic[a].trx, length) = TransfersOfLength(a, length)
        /\ \A a \in DOMAIN FromStatistic :
              ScanLegacy(Counts(FromStatistic[a].trx)) = FromStatistic[a].trx
    BY <2>1, LengthsAreCounts
  <2>5. \A a \in Addrs, token \in ValidTokens : SummaryRight(a, token)
    BY <2>1, SummaryShown
  <2> QED
    BY <2>2, <2>3, <2>4, <2>5 DEF WindowIsOneScan, SummaryRight
<1>2. ScanInit => WindowInv
  BY InitWindow
<1>3. WindowInv /\ [ScanNext]_scanVars => WindowInv'
  BY StepWindow
<1> QED
  BY <1>1, <1>2, <1>3, PTL DEF ScanSpec

-----------------------------------------------------------------------------
(* Changes from one window to the next.                                    *)

\* It is also the sum of what has grown and what has become less.
LEMMA SumOfChanges ==
  ASSUME NEW S, NEW p, NEW q, Amounts(p, S), Amounts(q, S),
         NEW f, \A x \in S : f[x] = p[x] - q[x],
         NEW T \in SUBSET S, NEW U \in SUBSET S, T \cap U = {},
         \A x \in S \ (T \cup U) : p[x] = q[x]
  PROVE  SumOver(f, T) + SumOver(f, U) = SumOver(p, S) - SumOver(q, S)
<1> DEFINE V == S \ (T \cup U)
<1>1. V \in SUBSET S /\ (T \cup U) \cap V = {} /\ (T \cup U) \cup V = S
  OBVIOUS
<1>2. \A x \in V : q[x] = p[x]
  OBVIOUS
<1> HIDE DEF V
<1>3. /\ Amounts(p, T) /\ Amounts(p, U) /\ Amounts(p, V)
      /\ Amounts(q, T) /\ Amounts(q, U) /\ Amounts(q, V)
  BY <1>1, SumOfPart
<1>4. SumOver(q, V) = SumOver(p, V)
  BY <1>2, <1>3, SumOfEqual
<1>5. Amounts(p, T \cup U) /\ SumOver(p, T \cup U) = SumOver(p, T) + SumOver(p, U)
  BY <1>3, SumOfUnion
<1>6. Amounts(q, T \cup U) /\ SumOver(q, T \cup U) = SumOver(q, T) + SumOver(q, U)
  BY <1>3, SumOfUnion
<1>7. SumOver(p, (T \cup U) \cup V) = SumOver(p, T \cup U) + SumOver(p, V)
  BY <1>1, <1>3, <1>5, SumOfUnion
<1>8. SumOver(q, (T \cup U) \cup V) = SumOver(q, T \cup U) + SumOver(q, V)
  BY <1>1, <1>3, <1>6, SumOfUnion
<1>9. SumOver(f, T) = SumOver(p, T) - SumOver(q, T)
  BY <1>3, SumOfDifferences
<1>10. SumOver(f, U) = SumOver(p, U) - SumOver(q, U)
  BY <1>3, SumOfDifferences
<1>11. /\ SumOver(p, T) \in Nat /\ SumOver(p, U) \in Nat /\ SumOver(p, V) \in Nat
       /\ SumOver(q, T) \in Nat /\ SumOver(q, U) \in Nat /\ SumOver(q, V) \in Nat
  BY <1>3, SumType
<1>12. /\ SumOver(p, S) = (SumOver(p, T) + SumOver(p, U)) + SumOver(p, V)
       /\ SumOver(q, S) = (SumOver(q, T) + SumOver(q, U)) + SumOver(p, V)
  BY <1>1, <1>4, <1>5, <1>6, <1>7, <1>8
<1> QED
  BY <1>9, <1>10, <1>11, <1>12

\* The days of a window of n days, and their rows.
Span(first, n) == {d \in DOMAIN days : (first <= d) /\ (d < first + n)}
SpanRows(at, first, n) == UNION {DayRows(days, at)[d] : d \in Span(first, n)}
FirstOf(first) == IF first > 1 THEN first ELSE 1
SpanDays(at, first, n) ==
    [k \in DOMAIN Window(first, n) |-> DayRows(days, at)[FirstOf(first) + k - 1]]

LEMMA WindowIs ==
  ASSUME NEW first \in Nat, NEW n \in Nat \ {0}, tables \in Seq(Range(tables)),
         DOMAIN tables = DOMAIN days, days \in Seq(Seq(Transactions))
  PROVE  /\ Len(Window(first, n)) \in Nat
         /\ DOMAIN Window(first, n) = 1..Len(Window(first, n))
         /\ \A k \in DOMAIN Window(first, n) :
               /\ FirstOf(first) + k - 1 \in Span(first, n)
               /\ Window(first, n)[k] = tables[FirstOf(first) + k - 1]
         /\ \A d \in Span(first, n) : \E k \in DOMAIN Window(first, n) : d = FirstOf(first) + k - 1
<1> DEFINE lo == FirstOf(first)
           hi == IF first + n - 1 < Len(tables) THEN first + n - 1 ELSE Len(tables)
<1>1. Max({1, first}) = lo
  <2>1. lo \in {1, first} /\ \A y \in {1, first} : lo >= y
    BY DEF FirstOf
  <2>2. \A x \in {1, first} : (\A y \in {1, first} : x >= y) => x = lo
    BY DEF FirstOf
  <2> HIDE DEF lo
  <2> QED
    BY <2>1, <2>2 DEF Max
<1>2. Len(tables) \in Nat /\ Len(days) \in Nat /\ DOMAIN tables = 1..Len(tables) /\ DOMAIN days = 1..Len(days)
  OBVIOUS
<1>3. Min({Len(tables), first + n - 1}) = hi
  <2> DEFINE l == Len(tables)
             e == first + n - 1
  <2>0. l \in Int /\ e \in Int
    BY <1>2
  <2>1. hi \in {l, e} /\ \A y \in {l, e} : hi <= y
    BY <2>0
  <2>2. \A x \in {l, e} : (\A y \in {l, e} : x <= y) => x = hi
    BY <2>0
  <2> HIDE DEF l, e, hi
  <2>3. Min({l, e}) = hi
    BY <2>1, <2>2 DEF Min
  <2> QED
    BY <2>3 DEF l, e
<1>4. lo \in Nat \ {0} /\ hi \in Nat /\ hi <= Len(tables)
  BY <1>2 DEF FirstOf
<1>5. Window(first, n) = SubSeq(tables, lo, hi)
  BY <1>1, <1>3 DEF Window
<1>6. Span(first, n) = lo..hi
  BY <1>2, <1>4 DEF Span, FirstOf
<1> HIDE DEF lo, hi
<1>7. CASE lo <= hi
  <2>1. lo \in 1..(Len(tables) + 1) /\ hi \in (lo - 1)..Len(tables)
    BY <1>2, <1>4, <1>7
  <2>2. /\ SubSeq(tables, lo, hi) \in Seq(Range(tables))
        /\ Len(SubSeq(tables, lo, hi)) = hi - lo + 1
        /\ \A i \in 1..(hi - lo + 1) : SubSeq(tables, lo, hi)[i] = tables[lo + i - 1]
    BY <2>1, SubSeqProperties
  <2>3. DOMAIN Window(first, n) = 1..(hi - lo + 1) /\ Len(Window(first, n)) = hi - lo + 1
    BY <1>5, <2>2
  <2>4. \A k \in 1..(hi - lo + 1) : lo + k - 1 \in lo..hi
    BY <1>4
  <2>5. \A d \in lo..hi : d - lo + 1 \in 1..(hi - lo + 1) /\ d = lo + (d - lo + 1) - 1
    BY <1>4
  <2>6. hi - lo + 1 \in Nat
    BY <1>4, <1>7
  <2> QED
    BY <1>5, <1>6, <2>2, <2>3, <2>4, <2>5, <2>6 DEF lo
<1>8. CASE ~(lo <= hi)
  <2>1. lo..hi = {} /\ hi < lo
    BY <1>4, <1>8
  <2>2. SubSeq(tables, lo, hi) = << >>
    BY <1>4, <2>1, SubSeqEmpty
  <2>3. DOMAIN Window(first, n) = {} /\ Len(Window(first, n)) = 0
    BY <1>5, <2>2
  <2> QED
    BY <1>6, <2>1, <2>3
<1> QED
  BY <1>7, <1>8

LEMMA SpanWindow ==
  ASSUME NEW R, NEW at, WindowState(R, at), tables \in Seq(Range(tables)),
         NEW first \in Nat, NEW n \in Nat \ {0}, NEW w, w = Window(first, n),
         NEW J, J = SpanDays(at, first, n), NEW m, m = Len(w)
  PROVE  /\ Indexed(R) /\ m \in Nat /\ DOMAIN J = 1..m /\ DOMAIN w = 1..m
         /\ Apart(J, m) /\ UpTo(J, m) = SpanRows(at, first, n)
         /\ SpanRows(at, first, n) \in SUBSET KeptIn(R) /\ SpanRows(at, first, n) \in SUBSET DOMAIN R
         /\ \A d \in 1..m : CacheOf(w[d], R, J[d]) /\ J[d] \in SUBSET DOMAIN R
<1> DEFINE D == DayRows(days, at)
           N == Len(days)
           lo == FirstOf(first)
<1>1. /\ Indexed(R) /\ N \in Nat /\ DOMAIN D = 1..N /\ DOMAIN tables = 1..N
      /\ Apart(D, N) /\ UpTo(D, N) = KeptIn(R) /\ KeptIn(R) \in SUBSET DOMAIN R
      /\ \A d \in 1..N : CacheOf(tables[d], R, D[d]) /\ D[d] \in SUBSET DOMAIN R
  BY WindowRows
<1>2. days \in Seq(Seq(Transactions)) /\ DOMAIN days = 1..N
  BY DEF WindowState
<1>3. /\ m \in Nat /\ DOMAIN w = 1..m
      /\ \A k \in 1..m : lo + k - 1 \in Span(first, n) /\ w[k] = tables[lo + k - 1]
      /\ \A d \in Span(first, n) : \E k \in 1..m : d = lo + k - 1
  <2>1. DOMAIN tables = DOMAIN days
    BY <1>1, <1>2
  <2>2. /\ Len(w) \in Nat /\ DOMAIN w = 1..Len(w)
        /\ \A k \in DOMAIN w : lo + k - 1 \in Span(first, n) /\ w[k] = tables[lo + k - 1]
        /\ \A d \in Span(first, n) : \E k \in DOMAIN w : d = lo + k - 1
    BY <1>2, <2>1, WindowIs
  <2> QED
    BY <2>2
<1>4. DOMAIN J = 1..m /\ \A k \in 1..m : J[k] = D[lo + k - 1]
  BY <1>3 DEF SpanDays
<1>5. Span(first, n) \subseteq 1..N /\ lo \in Nat
  BY <1>2 DEF Span, FirstOf
<1>6. SpanRows(at, first, n) = UNION {D[d] : d \in Span(first, n)}
  BY DEF SpanRows
<1> HIDE DEF D, N, lo
<1>7. Apart(J, m)
  <2> SUFFICES ASSUME NEW k \in 1..m, NEW l \in 1..m, k # l PROVE J[k] \cap J[l] = {}
    BY DEF Apart
  <2>1. k \in Int /\ l \in Int /\ lo \in Int
    BY <1>5
  <2>2. lo + k - 1 # lo + l - 1
    BY <2>1
  <2>3. lo + k - 1 \in 1..N /\ lo + l - 1 \in 1..N
    <3>1. lo + k - 1 \in Span(first, n) /\ lo + l - 1 \in Span(first, n)
      BY <1>3
    <3> QED
      BY <1>5, <3>1
  <2>4. J[k] = D[lo + k - 1] /\ J[l] = D[lo + l - 1]
    BY <1>4
  <2> QED
    BY <1>1, <2>2, <2>3, <2>4 DEF Apart
<1>8. UpTo(J, m) = SpanRows(at, first, n)
  <2>1. \A k \in 1..m : \E d \in Span(first, n) : J[k] = D[d]
    BY <1>3, <1>4
  <2>2. \A d \in Span(first, n) : \E k \in 1..m : J[k] = D[d]
    BY <1>3, <1>4
  <2>3. ASSUME NEW j \in UpTo(J, m) PROVE j \in SpanRows(at, first, n)
    BY <1>6, <2>1 DEF UpTo
  <2>4. ASSUME NEW j \in SpanRows(at, first, n) PROVE j \in UpTo(J, m)
    BY <1>6, <2>2 DEF UpTo
  <2> QED
    BY <2>3, <2>4
<1>9. SpanRows(at, first, n) \subseteq KeptIn(R)
  BY <1>1, <1>5, <1>6 DEF UpTo
<1>10. \A d \in 1..m : CacheOf(w[d], R, J[d]) /\ J[d] \in SUBSET DOMAIN R
  BY <1>1, <1>3, <1>4, <1>5
<1> QED
  BY <1>1, <1>3, <1>4, <1>7, <1>8, <1>9, <1>10

\* A sum over more, where what is added is zero.
LEMMA SumExtended ==
  ASSUME NEW S, IsFiniteSet(S), NEW T, T \subseteq S, NEW f, Amounts(f, T), NEW g,
         \A x \in S : g[x] = IF x \in T THEN f[x] ELSE 0
  PROVE  Amounts(g, S) /\ SumOver(g, S) = SumOver(f, T)
<1>1. Amounts(g, S)
  BY DEF Amounts
<1>2. SumOver(g, T) = SumOver(g, S)
  BY <1>1, SumOfPart
<1>3. \A x \in T : g[x] = f[x]
  OBVIOUS
<1>4. SumOver(g, T) = SumOver(f, T)
  BY <1>3, SumOfEqual
<1> QED
  BY <1>1, <1>2, <1>4

\* The rows of one day that are of a set of transactions, their number and their fees.
DayPart(d, X) == {i \in DOMAIN days[d] : days[d][i].type # TransferType /\ days[d][i] \in X}
FeesIn(d, X) == IF d \notin DOMAIN days THEN 0
                ELSE Total(LAMBDA i : days[d][i].cost["Fee"], DayPart(d, X))
CountIn(d, X) == IF d \notin DOMAIN days THEN 0 ELSE Cardinality(DayPart(d, X))
PartOf(R, K, X) == {j \in K : R[j] \in X}

\* The things in A, each once, are what the indexes in S stand for.
StandFor(S, of, A) == A = {of[x] : x \in S} /\ \A x, y \in S : of[x] = of[y] => x = y
Shows(S, of, f, sums) == \A x \in S : f[of[x]] \in Nat /\ sums[x] = f[of[x]]

LEMMA SumOfThings ==
  ASSUME NEW S, IsFiniteSet(S), NEW of, NEW A, StandFor(S, of, A), NEW f, NEW sums,
         Shows(S, of, f, sums)
  PROVE  Amounts(f, A) /\ SumOver(sums, S) = SumOver(f, A)
<1>1. A = {of[x] : x \in S} /\ \A x, y \in S : of[x] = of[y] => x = y
  BY DEF StandFor
<1>2. \A x \in S : f[of[x]] \in Nat /\ sums[x] = f[of[x]]
  BY DEF Shows
<1>3. Amounts(f, {of[x] : x \in S}) /\ SumOver(sums, S) = SumOver(f, {of[x] : x \in S})
  BY <1>1, <1>2, SumReindexed
<1> QED
  BY <1>1, <1>3

LEMMA OneDaySpan ==
  ASSUME NEW at, NEW d \in Nat, days \in Seq(Seq(Transactions))
  PROVE  SpanRows(at, d, 1) = IF d \in DOMAIN days THEN KeptRows(days, at, d, Len(days[d])) ELSE {}
<1>1. Span(d, 1) = {d} \cap DOMAIN days
  <2>1. \A e \in DOMAIN days : e \in Nat
    OBVIOUS
  <2> QED
    BY <2>1 DEF Span
<1>2. DOMAIN days = 1..Len(days)
  OBVIOUS
<1>3. \A e \in DOMAIN days : DayRows(days, at)[e] = KeptRows(days, at, e, Len(days[e]))
  BY <1>2 DEF DayRows
<1> QED
  BY <1>1, <1>3 DEF SpanRows

LEMMA DayFigures ==
  ASSUME NEW R, NEW at, WindowState(R, at), NEW d \in Nat, NEW X
  PROVE  /\ FeesIn(d, X) = SumOver(CostAt(R, "Fee"), PartOf(R, SpanRows(at, d, 1), X))
         /\ CountIn(d, X) = SumOver(OneEach(R), PartOf(R, SpanRows(at, d, 1), X))
<1>1. days \in Seq(Seq(Transactions)) /\ Numbering(days, R, at) /\ Indexed(R)
  BY DEF WindowState, Numbering
<1>2. CASE d \notin DOMAIN days
  <2>1. PartOf(R, SpanRows(at, d, 1), X) = {}
    BY <1>1, <1>2, OneDaySpan DEF PartOf
  <2> QED
    BY <1>2, <2>1, SumOfNone DEF FeesIn, CountIn
<1>3. CASE d \in DOMAIN days
  <2> DEFINE S == DayPart(d, X)
             place == at[d]
             fees == [i \in S |-> days[d][i].cost["Fee"]]
             ones == [i \in S |-> 1]
             fee == CostAt(R, "Fee")
             one == OneEach(R)
             A == PartOf(R, SpanRows(at, d, 1), X)
  <2>1. days[d] \in Seq(Transactions)
    BY <1>1, <1>3
  <2>2. IsFiniteSet(S)
    <3>1. IsFiniteSet(DOMAIN days[d])
      <4>1. DOMAIN days[d] = 1..Len(days[d]) /\ Len(days[d]) \in Int /\ 1 \in Int
        BY <2>1
      <4> QED
        BY <4>1, FS_Interval
    <3> QED
      BY <3>1, FS_Subset DEF DayPart
  <2>3. \A i \in DOMAIN days[d] : place[i] \in DOMAIN R /\ R[place[i]] = days[d][i]
    BY <1>1, <1>3 DEF Numbering
  <2>4. \A i, k \in S : place[i] = place[k] => i = k
    BY <1>1, <1>3 DEF Numbering, DayPart
  <2>5. {place[i] : i \in S} = A
    <3>1. SpanRows(at, d, 1) = {place[i] : i \in KeptOf(days, d, Len(days[d]))}
      BY <1>1, <1>3, OneDaySpan DEF KeptRows
    <3>2. KeptOf(days, d, Len(days[d])) = {i \in DOMAIN days[d] : days[d][i].type # TransferType}
      BY <2>1 DEF KeptOf
    <3> HIDE DEF place
    <3> QED
      BY <2>3, <3>1, <3>2 DEF DayPart, PartOf
  <2>6. fee \in FiguresOf(R) /\ one \in FiguresOf(R)
    BY <1>1, FiguresType DEF Costs
  <2>7. \A i \in S : i \in DOMAIN days[d]
    BY DEF DayPart
  <2>8. \A i \in S : fee[place[i]] \in Nat /\ fees[i] = fee[place[i]]
    BY <2>3, <2>6, <2>7 DEF FiguresOf, CostAt
  <2>9. \A i \in S : one[place[i]] \in Nat /\ ones[i] = one[place[i]]
    BY <2>3, <2>7 DEF OneEach
  <2>10. FeesIn(d, X) = SumOver(fees, S) /\ CountIn(d, X) = Cardinality(S)
    BY <1>3 DEF FeesIn, CountIn, Total
  <2>11. SumOver(ones, S) = Cardinality(S)
    <3>1. \A i \in S : ones[i] = 1
      OBVIOUS
    <3> HIDE DEF S, ones
    <3> QED
      BY <2>2, <3>1, SumOfOnes
  <2> HIDE DEF S, fees, ones, fee, one, place, A
  <2>14. StandFor(S, place, A)
    BY <2>4, <2>5 DEF StandFor
  <2>12. SumOver(fees, S) = SumOver(fee, A)
    BY <2>2, <2>8, <2>14, SumOfThings DEF Shows
  <2>13. SumOver(ones, S) = SumOver(one, A)
    BY <2>2, <2>9, <2>14, SumOfThings DEF Shows
  <2> QED
    BY <2>10, <2>11, <2>12, <2>13 DEF fee, one, A
<1> QED
  BY <1>2, <1>3

\* The users and the tokens of a window.
UsersOfSpan(w) == OverDays(w, LAMBDA t : Without(t.from, "total"), UserMerge)
TokensOfSpan(w) == OverDays(w, LAMBDA t : Without(t.token, "total"), TokenMerge)

LEMMA SpanMaps ==
  ASSUME NEW R, NEW at, WindowState(R, at), tables \in Seq(Range(tables)),
         NEW first \in Nat, NEW n \in Nat \ {0}, NEW w, w = Window(first, n),
         NEW K, K = SpanRows(at, first, n)
  PROVE  /\ UsersOfSpan(w) = MapOf("users", R, PairsOf("owner", R, K), {})
         /\ TokensOfSpan(w) = MapOf("tokens", R, PairsOf("name", R, K), {})
<1> DEFINE m == Len(w)
           J == SpanDays(at, first, n)
           Users == [d \in DOMAIN w |-> Without(w[d].from, "total")]
           Tokens2 == [d \in DOMAIN w |-> Without(w[d].token, "total")]
<1>1. UsersOfSpan(w) = MergedFor("users", Users) /\ TokensOfSpan(w) = MergedFor("tokens", Tokens2)
  BY DEF UsersOfSpan, TokensOfSpan, OverDays, MergedFor
<1>2. /\ Indexed(R) /\ m \in Nat /\ DOMAIN J = 1..m /\ DOMAIN w = 1..m
      /\ Apart(J, m) /\ UpTo(J, m) = K /\ K \in SUBSET DOMAIN R
      /\ \A d \in 1..m : CacheOf(w[d], R, J[d]) /\ J[d] \in SUBSET DOMAIN R
  BY SpanWindow
<1> HIDE DEF J, m
<1>3. \A d \in 1..m :
         /\ Users[d] = MapOf("users", R, PairsOf("owner", R, J[d]), PairsOf("none", R, J[d]))
         /\ Tokens2[d] = MapOf("tokens", R, PairsOf("name", R, J[d]), PairsOf("none", R, J[d]))
  <2> SUFFICES ASSUME NEW d \in 1..m
               PROVE  /\ Users[d] = MapOf("users", R, PairsOf("owner", R, J[d]),
                                          PairsOf("none", R, J[d]))
                      /\ Tokens2[d] = MapOf("tokens", R, PairsOf("name", R, J[d]),
                                            PairsOf("none", R, J[d]))
    BY Zenon
  <2>1. PairsOf("none", R, J[d]) = {}
    BY DEF PairsOf
  <2>2. /\ Users[d] = Without(w[d].from, "total") /\ Tokens2[d] = Without(w[d].token, "total")
    BY <1>2
  <2> HIDE DEF Users, Tokens2
  <2> DEFINE L == J[d]
  <2>3. CacheOf(w[d], R, L) /\ L \in SUBSET DOMAIN R
    BY <1>2
  <2> HIDE DEF L
  <2>4. /\ Without(w[d].from, "total") = MapOf("users", R, PairsOf("owner", R, L), {})
        /\ Without(w[d].token, "total") = MapOf("tokens", R, PairsOf("name", R, L), {})
    BY <1>2, <2>3, CacheRows
  <2> QED
    BY <2>1, <2>2, <2>4 DEF L
<1>4. DOMAIN Users = 1..m /\ DOMAIN Tokens2 = 1..m
  BY <1>2
<1>5. /\ "users" \in MapKinds /\ "tokens" \in MapKinds
      /\ "owner" \in PairKinds /\ "name" \in PairKinds /\ "none" \in PairKinds
      /\ PairsOf("none", R, K) = {}
  BY DEF MapKinds, PairKinds, PairsOf
<1> HIDE DEF Users, Tokens2
<1>6. /\ DailyMaps("users", R, Users, m, J, "owner", "none")
      /\ DailyMaps("tokens", R, Tokens2, m, J, "name", "none")
  BY <1>3, <1>4 DEF DailyMaps
<1>7. MergedFor("users", Users)
        = MapOf("users", R, PairsOf("owner", R, UpTo(J, m)), PairsOf("none", R, UpTo(J, m)))
  BY <1>2, <1>5, <1>6, MergedWindow
<1>8. MergedFor("tokens", Tokens2)
        = MapOf("tokens", R, PairsOf("name", R, UpTo(J, m)), PairsOf("none", R, UpTo(J, m)))
  BY <1>2, <1>5, <1>6, MergedWindow
<1> QED
  BY <1>1, <1>2, <1>5, <1>7, <1>8

\* What the entries of a map have in all, if a row is counted under one key.
Once(P) == \A p, q \in P : p[2] = q[2] => p = q
RowsAt(P, S) == {p[2] : p \in Within(P, S)}

LEMMA EntriesAddUp ==
  ASSUME NEW R, Indexed(R), NEW P, Tagged(R, P), Once(P), NEW S, S \subseteq KeysIn(P),
         NEW f \in FiguresOf(R), NEW sums, \A a \in S : sums[a] = SumOver(f, RowsIn(R, P, a))
  PROVE  /\ IsFiniteSet(S) /\ Amounts(sums, S) /\ Amounts(f, RowsAt(P, S))
         /\ SumOver(sums, S) = SumOver(f, RowsAt(P, S))
<1> DEFINE group == [a \in S |-> RowsIn(R, P, a)]
<1>0. \A x, y, u, v : <<x, y>> = <<u, v>> <=> x = u /\ y = v
  OBVIOUS
<1>1. \A p \in P : p = <<p[1], p[2]>> /\ p[2] \in DOMAIN R
  BY DEF Tagged
<1>2. \A a \in S : RowsIn(R, P, a) \in SUBSET DOMAIN R /\ Amounts(f, RowsIn(R, P, a))
  <2>1. \A a \in S : RowsIn(R, P, a) \in SUBSET DOMAIN R
    BY DEF RowsIn
  <2> QED
    BY <2>1, FigureSums
<1>3. IsFiniteSet(S)
  <2> DEFINE chosen == [j \in {p[2] : p \in P} |-> CHOOSE p \in P : p[2] = j]
             keyAt == [j \in {p[2] : p \in P} |-> chosen[j][1]]
  <2>1. IsFiniteSet({p[2] : p \in P})
    <3>1. {p[2] : p \in P} \subseteq DOMAIN R
      BY <1>1
    <3> QED
      BY <3>1, FS_Subset DEF Indexed
  <2>2. \A p \in P : chosen[p[2]] = p
    BY DEF Once
  <2>3. \A a \in S : \E j \in {p[2] : p \in P} : a = keyAt[j]
    <3> SUFFICES ASSUME NEW a \in S PROVE \E j \in {p[2] : p \in P} : a = keyAt[j]
      OBVIOUS
    <3>1. PICK p \in P : a = p[1]
      BY DEF KeysIn
    <3>2. keyAt[p[2]] = p[1]
      BY <2>2
    <3> QED
      BY <3>1, <3>2
  <2> HIDE DEF keyAt
  <2> DEFINE D == {p[2] : p \in P}
             I == {keyAt[j] : j \in D}
  <2>4. IsFiniteSet(I)
    <3>1. keyAt \in Surjection(D, I)
      BY DEF Surjection, keyAt
    <3> HIDE DEF D, I
    <3> QED
      BY <2>1, <3>1, FS_Surjection DEF D
  <2>5. S \subseteq I
    BY <2>3
  <2> HIDE DEF I
  <2> QED
    BY <2>4, <2>5, FS_Subset
<1>4. \A a, b \in S : a # b => group[a] \cap group[b] = {}
  BY <1>0, <1>1 DEF RowsIn, Once
<1>5. Grouped(f, S, group, sums)
  BY <1>2, <1>3, <1>4 DEF Grouped
<1>6. Members(group, S) = RowsAt(P, S)
  <2>1. ASSUME NEW j \in Members(group, S) PROVE j \in RowsAt(P, S)
    <3>1. PICK a \in S : j \in RowsIn(R, P, a)
      BY DEF Members
    <3>2. <<a, j>> \in P /\ <<a, j>>[1] = a /\ <<a, j>>[2] = j
      BY <3>1 DEF RowsIn
    <3>3. <<a, j>> \in Within(P, S)
      BY <3>2 DEF Within
    <3> QED
      BY <3>2, <3>3 DEF RowsAt
  <2>2. ASSUME NEW j \in RowsAt(P, S) PROVE j \in Members(group, S)
    <3>1. PICK p \in P : p[1] \in S /\ j = p[2]
      BY DEF RowsAt, Within
    <3>2. j \in RowsIn(R, P, p[1])
      BY <1>1, <3>1 DEF RowsIn
    <3> QED
      BY <3>1, <3>2 DEF Members
  <2> QED
    BY <2>1, <2>2
<1> QED
  BY <1>3, <1>5, <1>6, SumOfSums

\* The changes of figures from the rows Q to the rows P, of keys in S and before in U.
Change(S, U, cur, pre, diff) ==
    \A a \in S \cup U : diff[a] = (IF a \in S THEN cur[a] ELSE 0) - (IF a \in U THEN pre[a] ELSE 0)
EntriesOf(R, P, S, f, sums) ==
    /\ Tagged(R, P) /\ Once(P) /\ S \subseteq KeysIn(P)
    /\ \A a \in S : sums[a] = SumOver(f, RowsIn(R, P, a))

LEMMA ChangeOfWindows ==
  ASSUME NEW R, Indexed(R), NEW f \in FiguresOf(R), NEW P, NEW S, NEW cur, EntriesOf(R, P, S, f, cur),
         NEW Q, NEW U, NEW pre, EntriesOf(R, Q, U, f, pre), NEW diff, Change(S, U, cur, pre, diff),
         NEW T \in SUBSET (S \cup U), NEW V \in SUBSET (S \cup U), T \cap V = {},
         \A a \in (S \cup U) \ (T \cup V) : diff[a] = 0
  PROVE  SumOver(diff, T) + SumOver(diff, V) = SumOver(f, RowsAt(P, S)) - SumOver(f, RowsAt(Q, U))
<1> DEFINE D == S \cup U
           p == [a \in D |-> IF a \in S THEN cur[a] ELSE 0]
           q == [a \in D |-> IF a \in U THEN pre[a] ELSE 0]
<1>1. IsFiniteSet(S) /\ Amounts(cur, S) /\ SumOver(cur, S) = SumOver(f, RowsAt(P, S))
  BY EntriesAddUp DEF EntriesOf
<1>2. IsFiniteSet(U) /\ Amounts(pre, U) /\ SumOver(pre, U) = SumOver(f, RowsAt(Q, U))
  BY EntriesAddUp DEF EntriesOf
<1>3. IsFiniteSet(D) /\ S \subseteq D /\ U \subseteq D
  BY <1>1, <1>2, FS_Union
<1>4. \A a \in D : /\ p[a] = (IF a \in S THEN cur[a] ELSE 0) /\ q[a] = (IF a \in U THEN pre[a] ELSE 0)
                   /\ diff[a] = p[a] - q[a]
  BY DEF Change
<1>5. T \in SUBSET D /\ V \in SUBSET D /\ \A a \in D \ (T \cup V) : diff[a] = 0
  OBVIOUS
<1> HIDE DEF D, p, q
<1>6. Amounts(p, D) /\ SumOver(p, D) = SumOver(cur, S)
  BY <1>1, <1>3, <1>4, SumExtended
<1>7. Amounts(q, D) /\ SumOver(q, D) = SumOver(pre, U)
  BY <1>2, <1>3, <1>4, SumExtended
<1>8. \A a \in D \ (T \cup V) : p[a] = q[a]
  <2> SUFFICES ASSUME NEW a \in D \ (T \cup V) PROVE p[a] = q[a]
    OBVIOUS
  <2>1. p[a] \in Nat /\ q[a] \in Nat
    BY <1>6, <1>7 DEF Amounts
  <2>2. p[a] - q[a] = 0
    BY <1>4, <1>5
  <2> QED
    BY <2>1, <2>2
<1>9. SumOver(diff, T) + SumOver(diff, V) = SumOver(p, D) - SumOver(q, D)
  BY <1>4, <1>5, <1>6, <1>7, <1>8, SumOfChanges
<1> QED
  BY <1>1, <1>2, <1>6, <1>7, <1>9

\* The same for all keys.
LEMMA ChangeOfAll ==
  ASSUME NEW R, Indexed(R), NEW f \in FiguresOf(R), NEW P, NEW S, NEW cur, EntriesOf(R, P, S, f, cur),
         NEW Q, NEW U, NEW pre, EntriesOf(R, Q, U, f, pre), NEW diff, Change(S, U, cur, pre, diff),
         SumOver(f, RowsAt(P, S)) \in Nat, SumOver(f, RowsAt(Q, U)) \in Nat
  PROVE  SumOver(diff, S \cup U) = SumOver(f, RowsAt(P, S)) - SumOver(f, RowsAt(Q, U))
<1> DEFINE T == S \cup U
<1>1. {} \in SUBSET T /\ T \in SUBSET T /\ T \cap {} = {} /\ T \ (T \cup {}) = {}
  OBVIOUS
<1>2. SumOver(diff, {}) = 0
  BY SumOfNone
<1>3. SumOver(diff, T) + SumOver(diff, {}) = SumOver(f, RowsAt(P, S)) - SumOver(f, RowsAt(Q, U))
  <2> DEFINE V == {}
  <2>1. V \in SUBSET (S \cup U) /\ T \in SUBSET (S \cup U) /\ T \cap V = {}
        /\ \A a \in (S \cup U) \ (T \cup V) : diff[a] = 0
    OBVIOUS
  <2> HIDE DEF T, V
  <2>2. SumOver(diff, T) + SumOver(diff, V) = SumOver(f, RowsAt(P, S)) - SumOver(f, RowsAt(Q, U))
    BY <2>1, ChangeOfWindows
  <2> QED
    BY <2>2 DEF V
<1>4. SumOver(diff, T) \in Int
  <2>1. IsFiniteSet(T) /\ Amounts(cur, S) /\ Amounts(pre, U)
    <3>1. IsFiniteSet(S) /\ Amounts(cur, S)
      BY EntriesAddUp DEF EntriesOf
    <3>2. IsFiniteSet(U) /\ Amounts(pre, U)
      BY EntriesAddUp DEF EntriesOf
    <3> QED
      BY <3>1, <3>2, FS_Union
  <2> DEFINE p == [a \in T |-> IF a \in S THEN cur[a] ELSE 0]
             q == [a \in T |-> IF a \in U THEN pre[a] ELSE 0]
  <2>2. Amounts(p, T) /\ Amounts(q, T)
    BY <2>1 DEF Amounts
  <2>3. \A a \in T : diff[a] = p[a] - q[a]
    BY DEF Change
  <2> HIDE DEF T, p, q
  <2>4. SumOver(diff, T) = SumOver(p, T) - SumOver(q, T)
    BY <2>2, <2>3, SumOfDifferences
  <2>5. SumOver(p, T) \in Nat /\ SumOver(q, T) \in Nat
    BY <2>2, SumType
  <2> QED
    BY <2>4, <2>5
<1> HIDE DEF T
<1>5. SumOver(diff, T) + 0 = SumOver(diff, T)
  BY <1>4
<1> QED
  BY <1>2, <1>3, <1>5 DEF T

\* The pairs of owners and of names, and the rows they stand for.
LEMMA PairsOnce ==
  ASSUME NEW R, NEW K \in SUBSET DOMAIN R
  PROVE  /\ Tagged(R, PairsOf("owner", R, K)) /\ Once(PairsOf("owner", R, K))
         /\ Tagged(R, PairsOf("name", R, K)) /\ Once(PairsOf("name", R, K))
         /\ Tagged(R, SentPairs(R, K)) /\ Once(SentPairs(R, K)) /\ Tagged(R, ReceivedPairs(R, K))
<1>0. \A x, y : <<x, y>>[1] = x /\ <<x, y>>[2] = y
  OBVIOUS
<1>1. /\ Tagged(R, PairsOf("owner", R, K)) /\ Tagged(R, PairsOf("name", R, K))
      /\ Tagged(R, SentPairs(R, K)) /\ Tagged(R, ReceivedPairs(R, K))
  BY PairsTagged DEF PairsOf
<1>2. Once(PairsOf("owner", R, K))
  BY <1>0 DEF Once, PairsOf, OwnerPairs
<1>3. Once(PairsOf("name", R, K))
  BY <1>0 DEF Once, PairsOf, NamePairs
<1>4. Once(SentPairs(R, K))
  BY <1>0 DEF Once, SentPairs
<1> QED
  BY <1>1, <1>2, <1>3, <1>4

\* Rows of a set, each under its key.
Paired(P, D, key) == \A p : p \in P <=> \E j \in D : p = <<key[j], j>>

LEMMA KeysOfPaired ==
  ASSUME NEW P, NEW D, NEW key, Paired(P, D, key)
  PROVE  /\ \A a : a \in KeysIn(P) <=> \E j \in D : a = key[j]
         /\ \A S : RowsAt(P, S) = {j \in D : key[j] \in S}
<1>0. \A x, y : <<x, y>>[1] = x /\ <<x, y>>[2] = y
  OBVIOUS
<1>1. \A p \in P : p[2] \in D /\ p[1] = key[p[2]]
  BY <1>0 DEF Paired
<1>2. \A j \in D : /\ <<key[j], j>> \in P
                   /\ <<key[j], j>>[1] = key[j] /\ <<key[j], j>>[2] = j
  BY <1>0 DEF Paired
<1>3. ASSUME NEW a PROVE a \in KeysIn(P) <=> \E j \in D : a = key[j]
  <2>1. ASSUME a \in KeysIn(P) PROVE \E j \in D : a = key[j]
    BY <1>1, <2>1 DEF KeysIn
  <2>2. ASSUME NEW j \in D, a = key[j] PROVE a \in KeysIn(P)
    BY <1>2, <2>2 DEF KeysIn
  <2> QED
    BY <2>1, <2>2
<1>4. ASSUME NEW S PROVE RowsAt(P, S) = {j \in D : key[j] \in S}
  <2>1. ASSUME NEW j \in RowsAt(P, S) PROVE j \in D /\ key[j] \in S
    <3>1. PICK p \in P : p[1] \in S /\ j = p[2]
      BY DEF RowsAt, Within
    <3> QED
      BY <1>1, <3>1
  <2>2. ASSUME NEW j \in D, key[j] \in S PROVE j \in RowsAt(P, S)
    <3>1. <<key[j], j>> \in Within(P, S)
      BY <1>2, <2>2 DEF Within
    <3> QED
      BY <1>2, <3>1 DEF RowsAt
  <2> QED
    BY <2>1, <2>2
<1> QED
  BY <1>3, <1>4

OwnersIn(R) == [j \in DOMAIN R |-> R[j].owner]
NamesIn(R) == [j \in DOMAIN R |-> R[j].name]
SendersIn(R) == [j \in DOMAIN R |-> <<R[j].from, R[j].name>>]

LEMMA RowsArePaired ==
  ASSUME NEW R, NEW K \in SUBSET DOMAIN R
  PROVE  /\ Paired(PairsOf("owner", R, K), K, OwnersIn(R))
         /\ Paired(PairsOf("name", R, K), Named(R, K), NamesIn(R))
         /\ Paired(SentPairs(R, K), Passed(R, K), SendersIn(R))
<1>1. Paired(PairsOf("owner", R, K), K, OwnersIn(R))
  BY DEF Paired, PairsOf, OwnerPairs, OwnersIn
<1>2. Paired(PairsOf("name", R, K), Named(R, K), NamesIn(R))
  BY DEF Paired, PairsOf, NamePairs, NamesIn, Named
<1>3. Paired(SentPairs(R, K), Passed(R, K), SendersIn(R))
  BY DEF Paired, SentPairs, SendersIn, Passed
<1> QED
  BY <1>1, <1>2, <1>3

\* The days' figures that the changes are compared with, of transactions in a set.
OfTRX == {tx \in Transactions : tx.type \in {1, 101}}
OfNames(S) == {tx \in Transactions : tx.name \in S}
OfTransfers(token) ==
    {tx \in Transactions : (tx.name = token) /\ (tx.from # NoAddr) /\ (tx.to # NoAddr)}

TRXOnDay(d) == DayCount(d, LAMBDA tx : tx.type \in {1, 101})
NamesOnDay(d, S) == DayCount(d, LAMBDA tx : tx.name \in S)
NameOnDay(d, name) == DayCount(d, LAMBDA tx : tx.name = name)
NameFees(d, S) == DayFees(d, LAMBDA tx : tx.name \in S)
TransferFees(d, token) ==
    DayFees(d, LAMBDA tx : (tx.name = token) /\ (tx.from # NoAddr) /\ (tx.to # NoAddr))

LEMMA DaysFigures ==
  ASSUME days \in Seq(Seq(Transactions)), NEW d
  PROVE  /\ TRXOnDay(d) = CountIn(d, OfTRX)
         /\ \A S : NamesOnDay(d, S) = CountIn(d, OfNames(S)) /\ NameFees(d, S) = FeesIn(d, OfNames(S))
         /\ \A name : NameOnDay(d, name) = CountIn(d, OfNames({name}))
         /\ \A token : TransferFees(d, token) = FeesIn(d, OfTransfers(token))
<1>1. \A e \in DOMAIN days : \A i \in DOMAIN days[e] : days[e][i] \in Transactions
  OBVIOUS
<1>2. CASE d \notin DOMAIN days
  BY <1>2 DEF TRXOnDay, NamesOnDay, NameOnDay, NameFees, TransferFees, DayCount, DayFees, CountIn, FeesIn
<1>3. CASE d \in DOMAIN days
  <2>1. DayPart(d, OfTRX)
          = {i \in DOMAIN days[d] : days[d][i].type # TransferType /\ days[d][i].type \in {1, 101}}
    BY <1>1, <1>3 DEF DayPart, OfTRX
  <2>2. TRXOnDay(d) = CountIn(d, OfTRX)
    BY <1>3, <2>1, Zenon DEF TRXOnDay, DayCount, CountIn
  <2>3. ASSUME NEW S
        PROVE  DayPart(d, OfNames(S))
                 = {i \in DOMAIN days[d] : days[d][i].type # TransferType /\ days[d][i].name \in S}
    BY <1>1, <1>3 DEF DayPart, OfNames
  <2>4. \A S : NamesOnDay(d, S) = CountIn(d, OfNames(S)) /\ NameFees(d, S) = FeesIn(d, OfNames(S))
    BY <1>3, <2>3, Zenon DEF NamesOnDay, DayCount, CountIn, NameFees, DayFees, FeesIn
  <2>5. ASSUME NEW name
        PROVE  DayPart(d, OfNames({name}))
                 = {i \in DOMAIN days[d] : days[d][i].type # TransferType /\ days[d][i].name = name}
    BY <1>1, <1>3 DEF DayPart, OfNames
  <2>6. \A name : NameOnDay(d, name) = CountIn(d, OfNames({name}))
    BY <1>3, <2>5, Zenon DEF NameOnDay, DayCount, CountIn
  <2>7. ASSUME NEW token
        PROVE  DayPart(d, OfTransfers(token))
                 = {i \in DOMAIN days[d] :
                       /\ days[d][i].type # TransferType
                       /\ (days[d][i].name = token) /\ (days[d][i].from # NoAddr)
                       /\ (days[d][i].to # NoAddr)}
    BY <1>1, <1>3 DEF DayPart, OfTransfers
  <2>8. \A token : TransferFees(d, token) = FeesIn(d, OfTransfers(token))
    BY <1>3, <2>7, Zenon DEF TransferFees, DayFees, FeesIn
  <2> QED
    BY <2>2, <2>4, <2>6, <2>8
<1> QED
  BY <1>2, <1>3

\* The property's changes of transfers of TRX.
TRXRight(first) ==
    LET diff == TRXChanges(first, 1, "TRXTotal")
        Counts2(tx) == tx.type \in {1, 101}
    IN  Total(LAMBDA a : diff[a], DOMAIN diff)
          = DayCount(first, Counts2) - DayCount(first - 1, Counts2)

LEMMA UserCounts ==
  ASSUME NEW R, Indexed(R), NEW P, Tagged(R, P), NEW a \in KeysIn(P)
  PROVE  MapOf("users", R, P, {})[a].count["TRXTotal"] = SumOver(CountAt(R, "TRXTotal"), RowsIn(R, P, a))
<1> DEFINE J == RowsIn(R, P, a)
           s == UserFor(R, J)
<1>1. J \in SUBSET DOMAIN R
  BY DEF RowsIn
<1>2. P \cup {} = P
  OBVIOUS
<1>3. MapOf("users", R, P, {})[a] = s
  BY <1>2 DEF MapOf, StatOf
<1> HIDE DEF J, s
<1>4. UserOf(s, R, J)
  BY <1>1, UserForIsOf DEF s
<1>5. s.count = CountsOf(R, J)
  BY <1>4 DEF UserOf
<1>6. CountsOf(R, J)["TRXTotal"] = SumOver(CountAt(R, "TRXTotal"), J)
  BY DEF CountsOf, UserCounters
<1> QED
  BY <1>3, <1>5, <1>6 DEF J

\* Users' counts of these rows are those of the rows that are of a set.
LEMMA CountsOfPart ==
  ASSUME NEW R, Indexed(R), NEW K \in SUBSET DOMAIN R
  PROVE  SumOver(CountAt(R, "TRXTotal"), K) = SumOver(OneEach(R), PartOf(R, K, OfTRX))
<1> DEFINE f == OneEach(R)
           g == CountAt(R, "TRXTotal")
           T == PartOf(R, K, OfTRX)
<1>1. T \subseteq K /\ K \subseteq DOMAIN R
  BY DEF PartOf
<1>2. f \in FiguresOf(R) /\ T \in SUBSET DOMAIN R /\ IsFiniteSet(K)
  BY <1>1, FiguresType, FS_Subset DEF Indexed
<1>3. Amounts(f, T)
  BY <1>2, FigureSums
<1>4. \A j \in K : R[j] \in OfTRX <=> UserCounted("TRXTotal", R[j])
  <2> SUFFICES ASSUME NEW j \in K PROVE R[j] \in OfTRX <=> UserCounted("TRXTotal", R[j])
    OBVIOUS
  <2>1. R[j] \in Transactions /\ R[j].type \in Nat
    BY <1>1 DEF Indexed, Transactions
  <2>2. UserCounted("TRXTotal", R[j]) <=> BaseType(R[j]) = 1
    BY DEF UserCounted
  <2>3. BaseType(R[j]) = 1 <=> R[j].type \in {1, 101}
    BY <2>1 DEF BaseType
  <2> QED
    BY <2>1, <2>2, <2>3 DEF OfTRX
<1>5. \A j \in K : g[j] = IF j \in T THEN f[j] ELSE 0
  BY <1>1, <1>4 DEF CountAt, OneEach, PartOf
<1> HIDE DEF f, g, T
<1>6. SumOver(g, K) = SumOver(f, T)
  BY <1>1, <1>2, <1>3, <1>5, SumExtended
<1> QED
  BY <1>6 DEF f, g, T

\* What is kept of a window, and that the days' figures are sums over its rows.
LEMMA SpanOfDay ==
  ASSUME NEW R, NEW at, WindowState(R, at), tables \in Seq(Range(tables)), NEW d \in Nat
  PROVE  /\ Indexed(R) /\ SpanRows(at, d, 1) \in SUBSET DOMAIN R
         /\ days \in Seq(Seq(Transactions))
         /\ \A X : /\ FeesIn(d, X) = SumOver(CostAt(R, "Fee"), PartOf(R, SpanRows(at, d, 1), X))
                   /\ CountIn(d, X) = SumOver(OneEach(R), PartOf(R, SpanRows(at, d, 1), X))
                   /\ FeesIn(d, X) \in Nat /\ CountIn(d, X) \in Nat
<1> DEFINE K == SpanRows(at, d, 1)
<1>1. Indexed(R) /\ K \in SUBSET DOMAIN R
  <2>1. 1 \in Nat \ {0}
    OBVIOUS
  <2>2. \A w, J, m : (w = Window(d, 1) /\ J = SpanDays(at, d, 1) /\ m = Len(w))
                     => Indexed(R) /\ SpanRows(at, d, 1) \in SUBSET DOMAIN R
    BY <2>1, SpanWindow
  <2> QED
    BY <2>2
<1>2. days \in Seq(Seq(Transactions))
  BY DEF WindowState
<1>3. \A X : PartOf(R, K, X) \in SUBSET DOMAIN R
  BY <1>1 DEF PartOf
<1>4. CostAt(R, "Fee") \in FiguresOf(R) /\ OneEach(R) \in FiguresOf(R)
  BY <1>1, FiguresType DEF Costs
<1>5. \A X : /\ SumOver(CostAt(R, "Fee"), PartOf(R, K, X)) \in Nat
             /\ SumOver(OneEach(R), PartOf(R, K, X)) \in Nat
  BY <1>1, <1>3, <1>4, FigureSums
<1>6. \A X : /\ FeesIn(d, X) = SumOver(CostAt(R, "Fee"), PartOf(R, K, X))
             /\ CountIn(d, X) = SumOver(OneEach(R), PartOf(R, K, X))
  BY DayFigures
<1> QED
  BY <1>1, <1>2, <1>5, <1>6

LEMMA TRXAddUp ==
  ASSUME NEW R, NEW at, WindowState(R, at), tables \in Seq(Range(tables)), NEW first \in Nat \ {0}
  PROVE  TRXRight(first)
<1> DEFINE K == SpanRows(at, first, 1)
           L == SpanRows(at, first - 1, 1)
           P == PairsOf("owner", R, K)
           Q == PairsOf("owner", R, L)
           S == KeysIn(P)
           U == KeysIn(Q)
           f == CountAt(R, "TRXTotal")
           cur == UsersOfSpan(Window(first, 1))
           pre == UsersOfSpan(Window(first - 1, 1))
           c == [a \in S |-> cur[a].count["TRXTotal"]]
           q == [a \in U |-> pre[a].count["TRXTotal"]]
           diff == TRXChanges(first, 1, "TRXTotal")
<1>1. first \in Nat /\ first - 1 \in Nat /\ 1 \in Nat \ {0}
  OBVIOUS
<1>2. Indexed(R) /\ K \in SUBSET DOMAIN R /\ L \in SUBSET DOMAIN R /\ days \in Seq(Seq(Transactions))
  BY <1>1, SpanOfDay
<1>3. cur = MapOf("users", R, P, {})
  BY <1>1, SpanMaps
<1>4. pre = MapOf("users", R, Q, {})
  BY <1>1, SpanMaps
<1>5. Tagged(R, P) /\ Once(P) /\ Tagged(R, Q) /\ Once(Q)
  BY <1>2, PairsOnce
<1>6. RowsAt(P, S) = K
  <2>1. Paired(P, K, OwnersIn(R))
    BY <1>2, RowsArePaired
  <2> HIDE DEF P, K, S
  <2>2. \A a : a \in KeysIn(P) <=> \E j \in K : a = OwnersIn(R)[j]
    BY <2>1, KeysOfPaired
  <2>3. RowsAt(P, S) = {j \in K : OwnersIn(R)[j] \in S}
    BY <2>1, KeysOfPaired
  <2> QED
    BY <2>2, <2>3 DEF S
<1>7. RowsAt(Q, U) = L
  <2>1. Paired(Q, L, OwnersIn(R))
    BY <1>2, RowsArePaired
  <2> HIDE DEF Q, L, U
  <2>2. \A a : a \in KeysIn(Q) <=> \E j \in L : a = OwnersIn(R)[j]
    BY <2>1, KeysOfPaired
  <2>3. RowsAt(Q, U) = {j \in L : OwnersIn(R)[j] \in U}
    BY <2>1, KeysOfPaired
  <2> QED
    BY <2>2, <2>3 DEF U
<1>8. f \in FiguresOf(R)
  BY <1>2, FiguresType DEF UserCounters
<1>9. DOMAIN cur = S /\ DOMAIN pre = U
  <2>1. P \cup {} = P /\ Q \cup {} = Q
    OBVIOUS
  <2> HIDE DEF P, Q, cur, pre
  <2> QED
    BY <1>3, <1>4, <2>1 DEF MapOf
<1>10. diff = [a \in DOMAIN cur \cup DOMAIN pre |->
                  (IF a \in DOMAIN cur THEN cur[a].count["TRXTotal"] ELSE 0)
                  - (IF a \in DOMAIN pre THEN pre[a].count["TRXTotal"] ELSE 0)]
  BY Zenon DEF TRXChanges, UsersOfSpan
<1>13. TRXOnDay(first) = SumOver(f, K) /\ TRXOnDay(first - 1) = SumOver(f, L)
  <2>1. TRXOnDay(first) = CountIn(first, OfTRX) /\ TRXOnDay(first - 1) = CountIn(first - 1, OfTRX)
    BY <1>2, DaysFigures
  <2>2. CountIn(first, OfTRX) = SumOver(OneEach(R), PartOf(R, K, OfTRX))
    BY <1>1, SpanOfDay
  <2>3. CountIn(first - 1, OfTRX) = SumOver(OneEach(R), PartOf(R, L, OfTRX))
    BY <1>1, SpanOfDay
  <2> QED
    BY <1>2, <2>1, <2>2, <2>3, CountsOfPart
<1> HIDE DEF K, L, P, Q, S, U, cur, pre, diff, f
<1>11. EntriesOf(R, P, S, f, c) /\ EntriesOf(R, Q, U, f, q)
  <2>1. \A a \in S : c[a] = SumOver(f, RowsIn(R, P, a))
    BY <1>2, <1>3, <1>5, UserCounts DEF S, f
  <2>2. \A a \in U : q[a] = SumOver(f, RowsIn(R, Q, a))
    BY <1>2, <1>4, <1>5, UserCounts DEF U, f
  <2> QED
    BY <1>5, <2>1, <2>2 DEF EntriesOf, S, U
<1>12. Change(S, U, c, q, diff) /\ diff = [a \in S \cup U |-> diff[a]] /\ DOMAIN diff = S \cup U
  BY <1>9, <1>10 DEF Change
<1> HIDE DEF c, q
<1>14. SumOver(f, K) \in Nat /\ SumOver(f, L) \in Nat
  BY <1>2, <1>8, FigureSums
<1>15. SumOver(diff, S \cup U) = SumOver(f, K) - SumOver(f, L)
  BY <1>2, <1>6, <1>7, <1>8, <1>11, <1>12, <1>14, ChangeOfAll
<1>16. Total(LAMBDA a : diff[a], DOMAIN diff) = SumOver(diff, S \cup U)
  BY <1>12, Zenon DEF Total
<1> QED
  BY <1>13, <1>15, <1>16, Zenon DEF TRXRight, TRXOnDay, diff

\* The figure of a token that a metric is about.
TokenFigure(R, metric) == IF metric = "tx" THEN OneEach(R) ELSE CostAt(R, metric)
FigureOfToken(s, metric) == IF metric = "tx" THEN s.txs ELSE s.cost[metric]

LEMMA TokenCounts ==
  ASSUME NEW R, Indexed(R), NEW P, Tagged(R, P), NEW a \in KeysIn(P), NEW metric \in {"tx", "Fee"}
  PROVE  FigureOfToken(MapOf("tokens", R, P, {})[a], metric)
           = SumOver(TokenFigure(R, metric), RowsIn(R, P, a))
<1>1. P \cup {} = P
  OBVIOUS
<1>2. MapOf("tokens", R, P, {})[a] = TokenOf(R, RowsIn(R, P, a))
  BY <1>1 DEF MapOf, StatOf
<1>3. CASE metric = "tx"
  BY <1>2, <1>3 DEF FigureOfToken, TokenFigure, TokenOf
<1>4. CASE metric = "Fee"
  BY <1>2, <1>4 DEF FigureOfToken, TokenFigure, TokenOf, CostsOf, Costs
<1> QED
  BY <1>3, <1>4

\* The rows of the names of a window, in it and in another one.
LEMMA RowsOfNames ==
  ASSUME NEW R, Indexed(R), NEW K \in SUBSET DOMAIN R, NEW L \in SUBSET DOMAIN R,
         NEW S, S = KeysIn(PairsOf("name", R, K)), NEW U, U = KeysIn(PairsOf("name", R, L)) \cap S
  PROVE  /\ RowsAt(PairsOf("name", R, K), S) = PartOf(R, K, OfNames(S))
         /\ RowsAt(PairsOf("name", R, L), U) = PartOf(R, L, OfNames(S))
<1> DEFINE P == PairsOf("name", R, K)
           Q == PairsOf("name", R, L)
           name == NamesIn(R)
<1>1. Paired(P, Named(R, K), name) /\ Paired(Q, Named(R, L), name)
  BY RowsArePaired
<1>2. /\ \A j \in K \cup L : name[j] = R[j].name /\ R[j] \in Transactions
      /\ Named(R, K) = {j \in K : name[j] # NoName} /\ Named(R, L) = {j \in L : name[j] # NoName}
  BY DEF NamesIn, Indexed, Named
<1>3. /\ PartOf(R, K, OfNames(S)) = {j \in K : name[j] \in S}
      /\ PartOf(R, L, OfNames(S)) = {j \in L : name[j] \in S}
  BY <1>2 DEF PartOf, OfNames
<1>4. S = KeysIn(P) /\ U = KeysIn(Q) \cap S
  OBVIOUS
<1> HIDE DEF P, Q, name
<1>5. /\ \A a : a \in KeysIn(P) <=> \E j \in Named(R, K) : a = name[j]
      /\ \A T : RowsAt(P, T) = {j \in Named(R, K) : name[j] \in T}
  BY <1>1, KeysOfPaired
<1>6. /\ \A a : a \in KeysIn(Q) <=> \E j \in Named(R, L) : a = name[j]
      /\ \A T : RowsAt(Q, T) = {j \in Named(R, L) : name[j] \in T}
  BY <1>1, KeysOfPaired
<1>7. NoName \notin S
  BY <1>2, <1>4, <1>5
<1>8. {j \in Named(R, K) : name[j] \in S} = {j \in K : name[j] \in S}
  BY <1>2, <1>7
<1>9. {j \in Named(R, L) : name[j] \in U} = {j \in L : name[j] \in S}
  BY <1>2, <1>4, <1>6, <1>7
<1>10. RowsAt(P, S) = PartOf(R, K, OfNames(S)) /\ RowsAt(Q, U) = PartOf(R, L, OfNames(S))
  BY <1>3, <1>5, <1>6, <1>8, <1>9
<1> QED
  BY <1>10 DEF P, Q

TotalOf(diff) == Total(LAMBDA k : diff[k], DOMAIN diff)

LEMMA TokensAddUp ==
  ASSUME NEW R, NEW at, WindowState(R, at), tables \in Seq(Range(tables)), NEW first \in Nat \ {0},
         NEW metric \in {"tx", "Fee"}, NEW f, f = TokenFigure(R, metric),
         NEW diff, diff = TokenChanges(first, 1, metric)
  PROVE  TotalOf(diff)
           = SumOver(f, PartOf(R, SpanRows(at, first, 1), OfNames(DOMAIN diff)))
             - SumOver(f, PartOf(R, SpanRows(at, first - 1, 1), OfNames(DOMAIN diff)))
<1> DEFINE K == SpanRows(at, first, 1)
           L == SpanRows(at, first - 1, 1)
           P == PairsOf("name", R, K)
           Q == PairsOf("name", R, L)
           S == KeysIn(P)
           U == KeysIn(Q) \cap S
           cur == TokensOfSpan(Window(first, 1))
           pre == TokensOfSpan(Window(first - 1, 1))
           c == [a \in S |-> FigureOfToken(cur[a], metric)]
           q == [a \in U |-> FigureOfToken(pre[a], metric)]
<1>1. first \in Nat /\ first - 1 \in Nat /\ 1 \in Nat \ {0}
  OBVIOUS
<1>2. Indexed(R) /\ K \in SUBSET DOMAIN R /\ L \in SUBSET DOMAIN R
  BY <1>1, SpanOfDay
<1>3. cur = MapOf("tokens", R, P, {})
  BY <1>1, SpanMaps
<1>4. pre = MapOf("tokens", R, Q, {})
  BY <1>1, SpanMaps
<1>5. Tagged(R, P) /\ Once(P) /\ Tagged(R, Q) /\ Once(Q)
  BY <1>2, PairsOnce
<1>6. RowsAt(P, S) = PartOf(R, K, OfNames(S)) /\ RowsAt(Q, U) = PartOf(R, L, OfNames(S))
  BY <1>2, RowsOfNames
<1>8. f \in FiguresOf(R)
  BY <1>2, FiguresType DEF TokenFigure, Costs
<1>9. DOMAIN cur = S /\ DOMAIN pre = KeysIn(Q)
  <2>1. P \cup {} = P /\ Q \cup {} = Q
    OBVIOUS
  <2> HIDE DEF P, Q, cur, pre
  <2> QED
    BY <1>3, <1>4, <2>1 DEF MapOf
<1>10. diff = [a \in DOMAIN cur |->
                  FigureOfToken(cur[a], metric)
                  - (IF a \in DOMAIN pre THEN FigureOfToken(pre[a], metric) ELSE 0)]
  BY Zenon DEF TokenChanges, TokensOfSpan, FigureOfToken
<1> HIDE DEF K, L, P, Q, S, cur, pre
<1>11. EntriesOf(R, P, S, f, c) /\ EntriesOf(R, Q, U, f, q)
  <2>1. \A a \in S : c[a] = SumOver(f, RowsIn(R, P, a))
    BY <1>2, <1>3, <1>5, TokenCounts DEF S
  <2>2. \A a \in U : q[a] = SumOver(f, RowsIn(R, Q, a))
    BY <1>2, <1>4, <1>5, TokenCounts
  <2>3. S \subseteq KeysIn(P) /\ U \subseteq KeysIn(Q)
    BY DEF S
  <2> HIDE DEF U, c, q
  <2> QED
    BY <1>5, <2>1, <2>2, <2>3 DEF EntriesOf
<1>12. /\ Change(S, U, c, q, diff) /\ diff = [a \in S \cup U |-> diff[a]]
       /\ DOMAIN diff = S \cup U /\ S \cup U = S
  <2>1. S \cup U = S /\ DOMAIN diff = S
    BY <1>9, <1>10
  <2>2. diff = [a \in S |-> diff[a]]
    BY <1>9, <1>10
  <2>3. \A a \in S : a \in KeysIn(Q) <=> a \in U
    OBVIOUS
  <2>4. \A a \in S : diff[a] = c[a] - (IF a \in U THEN q[a] ELSE 0)
    BY <1>9, <1>10, <2>3
  <2> HIDE DEF U, c, q
  <2> QED
    BY <2>1, <2>2, <2>4 DEF Change
<1> HIDE DEF c, q, U
<1>14. /\ SumOver(f, RowsAt(P, S)) \in Nat /\ SumOver(f, RowsAt(Q, U)) \in Nat
  <2>1. PartOf(R, K, OfNames(S)) \in SUBSET DOMAIN R /\ PartOf(R, L, OfNames(S)) \in SUBSET DOMAIN R
    BY <1>2 DEF PartOf
  <2> QED
    BY <1>2, <1>6, <1>8, <2>1, FigureSums
<1>15. SumOver(diff, S \cup U) = SumOver(f, RowsAt(P, S)) - SumOver(f, RowsAt(Q, U))
  BY <1>2, <1>8, <1>11, <1>12, <1>14, ChangeOfAll
<1>16. TotalOf(diff) = SumOver(diff, S \cup U)
  BY <1>12, Zenon DEF TotalOf, Total
<1> QED
  BY <1>6, <1>12, <1>15, <1>16, Zenon DEF K, L

\* The property's changes of tokens.
TokenRight(first) ==
    /\ LET diff == TokenChanges(first, 1, "Fee")
           Present(tx) == tx.name \in DOMAIN diff
       IN  Total(LAMBDA k : diff[k], DOMAIN diff)
             = DayFees(first, Present) - DayFees(first - 1, Present)
    /\ LET diff == TokenChanges(first, 1, "tx")
           Present(tx) == tx.name \in DOMAIN diff
       IN  Total(LAMBDA k : diff[k], DOMAIN diff)
             = DayCount(first, Present) - DayCount(first - 1, Present)

LEMMA TokenChangesAddUp ==
  ASSUME NEW R, NEW at, WindowState(R, at), tables \in Seq(Range(tables)), NEW first \in Nat \ {0}
  PROVE  TokenRight(first)
<1> DEFINE A == DOMAIN TokenChanges(first, 1, "Fee")
           B == DOMAIN TokenChanges(first, 1, "tx")
           fee == CostAt(R, "Fee")
           one == OneEach(R)
           K == SpanRows(at, first, 1)
           L == SpanRows(at, first - 1, 1)
<1>1. first \in Nat /\ first - 1 \in Nat /\ "tx" # "Fee" /\ days \in Seq(Seq(Transactions))
  BY SpanOfDay
<1>2. TokenFigure(R, "Fee") = fee /\ TokenFigure(R, "tx") = one
  BY DEF TokenFigure
<1>3. TotalOf(TokenChanges(first, 1, "Fee"))
        = SumOver(fee, PartOf(R, K, OfNames(A))) - SumOver(fee, PartOf(R, L, OfNames(A)))
  BY <1>2, TokensAddUp
<1>4. TotalOf(TokenChanges(first, 1, "tx"))
        = SumOver(one, PartOf(R, K, OfNames(B))) - SumOver(one, PartOf(R, L, OfNames(B)))
  BY <1>2, TokensAddUp
<1>5. /\ NameFees(first, A) = SumOver(fee, PartOf(R, K, OfNames(A)))
      /\ NameFees(first - 1, A) = SumOver(fee, PartOf(R, L, OfNames(A)))
  <2>1. NameFees(first, A) = FeesIn(first, OfNames(A)) /\ NameFees(first - 1, A) = FeesIn(first - 1, OfNames(A))
    BY <1>1, DaysFigures
  <2> QED
    BY <1>1, <2>1, SpanOfDay
<1>6. /\ NamesOnDay(first, B) = SumOver(one, PartOf(R, K, OfNames(B)))
      /\ NamesOnDay(first - 1, B) = SumOver(one, PartOf(R, L, OfNames(B)))
  <2>1. /\ NamesOnDay(first, B) = CountIn(first, OfNames(B))
        /\ NamesOnDay(first - 1, B) = CountIn(first - 1, OfNames(B))
    BY <1>1, DaysFigures
  <2> QED
    BY <1>1, <2>1, SpanOfDay
<1> HIDE DEF fee, one, K, L
<1>7. TotalOf(TokenChanges(first, 1, "Fee")) = NameFees(first, A) - NameFees(first - 1, A)
  BY <1>3, <1>5, Zenon
<1>8. TotalOf(TokenChanges(first, 1, "tx")) = NamesOnDay(first, B) - NamesOnDay(first - 1, B)
  BY <1>4, <1>6, Zenon
<1> QED
  BY <1>7, <1>8, Zenon DEF TotalOf, TokenRight, NameFees, NamesOnDay

\* Who has paid fees for transfers of a token, in the rows of a window.
FeesPaid(R, K, k) == SumOver(CostAt(R, "Fee"), RowsIn(R, SentPairs(R, K), k))
PayersIn(R, K, token) ==
    {k \in KeysIn(SentPairs(R, K)) : (k[2] = token) /\ (FeesPaid(R, K, k) > 0)}
PaidBy(cur, R, K, S) ==
    /\ DOMAIN cur = S
    /\ \A k \in S : /\ cur[k].from.cost["Fee"] = FeesPaid(R, K, k)
                    /\ cur[k].from.txs = SumOver(OneEach(R), RowsIn(R, SentPairs(R, K), k))
                    /\ cur[k].to.txs = SumOver(OneEach(R), RowsIn(R, ReceivedPairs(R, K), k))

\* The part of a day's table with those who have paid.
PayersOf(t, token) ==
    Restrict(t.userToken, {k \in DOMAIN t.userToken :
                              (k[2] = token) /\ (t.userToken[k].from.cost["Fee"] > 0)})

LEMMA PayersOfDay ==
  ASSUME NEW R, Indexed(R), NEW K \in SUBSET DOMAIN R, NEW t, CacheOf(t, R, K), NEW token
  PROVE  PaidBy(PayersOf(t, token), R, K, PayersIn(R, K, token))
<1> DEFINE P == SentPairs(R, K)
           Q == ReceivedPairs(R, K)
           M == t.userToken
           fee == CostAt(R, "Fee")
           one == OneEach(R)
           S == {k \in DOMAIN M : (k[2] = token) /\ (M[k].from.cost["Fee"] > 0)}
<1>1. M = MapOf("userTokens", R, P, Q)
  BY DEF CacheOf
<1>2. Tagged(R, P)
  BY PairsOnce
<1>3. DOMAIN M = KeysIn(P \cup Q)
        /\ \A k \in KeysIn(P \cup Q) : M[k] = UserTokenFor(R, RowsIn(R, P, k), RowsIn(R, Q, k))
  BY <1>1 DEF MapOf, StatOf
<1>4. \A k \in DOMAIN M : M[k].from.cost["Fee"] = SumOver(fee, RowsIn(R, P, k))
  <2>1. ASSUME NEW X, NEW Y PROVE UserTokenFor(R, X, Y).from.cost["Fee"] = SumOver(fee, X)
    <3>1. UserTokenFor(R, X, Y).from = FlowOf(R, X)
      BY DEF UserTokenFor
    <3>2. FlowOf(R, X).cost = CostsOf(R, X)
      BY DEF FlowOf
    <3>3. CostsOf(R, X)["Fee"] = SumOver(fee, X)
      BY DEF CostsOf, Costs
    <3> QED
      BY <3>1, <3>2, <3>3
  <2> QED
    BY <1>3, <2>1
<1>12. \A k \in DOMAIN M : /\ M[k].from.txs = SumOver(one, RowsIn(R, P, k))
                           /\ M[k].to.txs = SumOver(one, RowsIn(R, Q, k))
  <2>1. ASSUME NEW X, NEW Y
        PROVE  /\ UserTokenFor(R, X, Y).from.txs = SumOver(one, X)
               /\ UserTokenFor(R, X, Y).to.txs = SumOver(one, Y)
    <3>1. UserTokenFor(R, X, Y).from = FlowOf(R, X) /\ UserTokenFor(R, X, Y).to = FlowOf(R, Y)
      BY DEF UserTokenFor
    <3>2. FlowOf(R, X).txs = SumOver(one, X) /\ FlowOf(R, Y).txs = SumOver(one, Y)
      BY DEF FlowOf
    <3> QED
      BY <3>1, <3>2
  <2> QED
    BY <1>3, <2>1
<1>5. \A k : k \in KeysIn(P) <=> RowsIn(R, P, k) # {}
  BY <1>2, KeyHasRows
<1>6. KeysIn(P) \subseteq KeysIn(P \cup Q)
  BY DEF KeysIn
<1>7. SumOver(fee, {}) = 0
  BY SumOfNone
<1> HIDE DEF P, Q, M, fee, one
<1>8. S = {k \in KeysIn(P) : (k[2] = token) /\ (SumOver(fee, RowsIn(R, P, k)) > 0)}
  <2>1. ASSUME NEW k \in S PROVE k \in KeysIn(P) /\ (k[2] = token) /\ (SumOver(fee, RowsIn(R, P, k)) > 0)
    <3>1. SumOver(fee, RowsIn(R, P, k)) > 0
      BY <1>4
    <3>2. RowsIn(R, P, k) # {}
      BY <1>7, <3>1
    <3> QED
      BY <1>5, <3>1, <3>2
  <2>2. ASSUME NEW k \in KeysIn(P), k[2] = token, SumOver(fee, RowsIn(R, P, k)) > 0
        PROVE  k \in S
    BY <1>3, <1>4, <1>6, <2>2
  <2> QED
    BY <2>1, <2>2
<1>9. S = PayersIn(R, K, token)
  BY <1>8 DEF PayersIn, FeesPaid, P, fee
<1>10. PayersOf(t, token) = [k \in S |-> M[k]]
  BY DEF PayersOf, Restrict, M
<1>11. \A k \in S : /\ M[k].from.cost["Fee"] = FeesPaid(R, K, k)
                    /\ M[k].from.txs = SumOver(OneEach(R), RowsIn(R, SentPairs(R, K), k))
                    /\ M[k].to.txs = SumOver(OneEach(R), RowsIn(R, ReceivedPairs(R, K), k))
  BY <1>4, <1>12 DEF FeesPaid, P, Q, fee, one
<1> HIDE DEF S
<1> QED
  BY <1>9, <1>10, <1>11 DEF PaidBy

LEMMA PayersAre ==
  ASSUME NEW R, NEW at, WindowState(R, at), tables \in Seq(Range(tables)), NEW d \in Nat,
         NEW token, NEW K, K = SpanRows(at, d, 1)
  PROVE  PaidBy(Payers(Window(d, 1), token), R, K, PayersIn(R, K, token))
<1> DEFINE w == Window(d, 1)
           m == Len(w)
           J == SpanDays(at, d, 1)
           maps == [x \in DOMAIN w |-> PayersOf(w[x], token)]
<1>1. Payers(w, token) = MergedOver(maps, UserTokenMerge)
  BY DEF Payers, OverDays, PayersOf
<1>2. /\ Indexed(R) /\ m \in Nat /\ DOMAIN J = 1..m /\ DOMAIN w = 1..m
      /\ UpTo(J, m) = K /\ K \in SUBSET DOMAIN R
      /\ \A x \in 1..m : CacheOf(w[x], R, J[x])
  <2>1. 1 \in Nat \ {0}
    OBVIOUS
  <2> QED
    BY <2>1, SpanWindow
<1>3. m = 0 \/ m = 1
  <2>1. DOMAIN tables = DOMAIN days /\ days \in Seq(Seq(Transactions)) /\ 1 \in Nat \ {0}
    BY DEF WindowState, WindowRight
  <2>2. \A k \in DOMAIN w : FirstOf(d) + k - 1 \in Span(d, 1)
    BY <2>1, WindowIs
  <2>3. \A k \in 1..m : d <= FirstOf(d) + k - 1 /\ FirstOf(d) + k - 1 < d + 1
    BY <1>2, <2>2 DEF Span
  <2> HIDE DEF m
  <2>4. \A k \in 1..m : k = 1
    BY <1>2, <2>3 DEF FirstOf
  <2>5. ASSUME m > 1 PROVE FALSE
    <3>1. 2 \in 1..m
      BY <1>2, <2>5
    <3> QED
      BY <2>4, <3>1
  <2> QED
    BY <1>2, <2>5
<1>4. \E h : Chain("userTokens", {}, Empty, maps, h) /\ h[m] = MergedOver(maps, UserTokenMerge)
  BY <1>2, UserTokensOver
<1>5. \A x \in 1..m : maps[x] = PayersOf(w[x], token)
  BY <1>2
<1>6. DOMAIN maps = 1..m
  BY <1>2
<1> HIDE DEF maps, m, w, J
<1>7. PICK h : Chain("userTokens", {}, Empty, maps, h) /\ h[m] = MergedOver(maps, UserTokenMerge)
  BY <1>4
<1>8. CASE m = 0
  <2>1. K = {}
    BY <1>2, <1>8 DEF UpTo
  <2>2. PayersIn(R, K, token) = {}
    BY <2>1 DEF PayersIn, SentPairs, Passed, KeysIn
  <2>3. Payers(w, token) = Empty
    BY <1>1, <1>7, <1>8 DEF Chain
  <2> QED
    BY <2>2, <2>3 DEF PaidBy, Empty, w
<1>9. CASE m = 1
  <2>1. K = J[1] /\ 1 \in 1..m
    <3>1. 1..1 = {1}
      OBVIOUS
    <3>2. UpTo(J, 1) = J[1]
      BY <3>1 DEF UpTo
    <3> QED
      BY <1>2, <1>9, <3>1, <3>2
  <2>2. PaidBy(maps[1], R, K, PayersIn(R, K, token))
    BY <1>2, <1>5, <2>1, PayersOfDay
  <2>3. h[1] = UserTokensMerged(Empty, maps[1])
    <3>1. h[1] = StepOf("userTokens", {}, h[1 - 1], maps[1])
      BY <1>6, <1>7, <2>1 DEF Chain
    <3>2. h[0] = Empty /\ 1 - 1 = 0
      BY <1>7 DEF Chain
    <3> QED
      BY <3>1, <3>2 DEF StepOf
  <2>4. /\ DOMAIN UserTokensMerged(Empty, maps[1]) = DOMAIN maps[1]
        /\ \A k \in DOMAIN maps[1] : UserTokensMerged(Empty, maps[1])[k] = maps[1][k]
    BY DEF UserTokensMerged, MergedInto, Empty
  <2>5. Payers(w, token) = h[1]
    BY <1>1, <1>7, <1>9
  <2> QED
    BY <2>2, <2>3, <2>4, <2>5 DEF PaidBy, w
<1> QED
  BY <1>3, <1>8, <1>9

\* Differences of the same figures have the same sum.
LEMMA SameDifferences ==
  ASSUME NEW T, NEW p, NEW q, Amounts(p, T), Amounts(q, T),
         NEW f, \A x \in T : f[x] = p[x] - q[x], NEW g, \A x \in T : g[x] = p[x] - q[x]
  PROVE  SumOver(f, T) = SumOver(g, T)
<1>1. SumOver(f, T) = SumOver(p, T) - SumOver(q, T)
  BY SumOfDifferences
<1>2. SumOver(g, T) = SumOver(p, T) - SumOver(q, T)
  BY SumOfDifferences
<1> QED
  BY <1>1, <1>2

\* The entries are natural numbers.
LEMMA EntriesAreNumbers ==
  ASSUME NEW R, Indexed(R), NEW f \in FiguresOf(R), NEW P, NEW S, NEW sums,
         EntriesOf(R, P, S, f, sums)
  PROVE  \A a \in S : sums[a] \in Nat
<1>1. IsFiniteSet(S) /\ Amounts(sums, S)
  BY EntriesAddUp DEF EntriesOf
<1> QED
  BY <1>1 DEF Amounts

\* The fees of those who have paid are all fees that were paid for transfers of the token.
LEMMA PayersRows ==
  ASSUME NEW R, Indexed(R), NEW K \in SUBSET DOMAIN R, NEW token, token # NoName
  PROVE  SumOver(CostAt(R, "Fee"), RowsAt(SentPairs(R, K), PayersIn(R, K, token)))
           = SumOver(CostAt(R, "Fee"), PartOf(R, K, OfTransfers(token)))
<1> DEFINE P == SentPairs(R, K)
           S == PayersIn(R, K, token)
           X == PartOf(R, K, OfTransfers(token))
           fee == CostAt(R, "Fee")
           key == SendersIn(R)
<1>1. fee \in FiguresOf(R)
  BY FiguresType DEF Costs
<1>2. X = {j \in Passed(R, K) : R[j].name = token} /\ X \in SUBSET DOMAIN R
  <2>1. \A j \in K : R[j] \in Transactions
    BY DEF Indexed
  <2> QED
    BY <2>1 DEF PartOf, OfTransfers, Passed
<1>3. \A j \in DOMAIN R : key[j] = <<R[j].from, R[j].name>> /\ key[j][2] = R[j].name
  BY DEF SendersIn
<1>4. Paired(P, Passed(R, K), key) /\ Tagged(R, P)
  BY RowsArePaired, PairsOnce
<1>5. /\ \A a : a \in KeysIn(P) <=> \E j \in Passed(R, K) : a = key[j]
      /\ \A Y : RowsAt(P, Y) = {j \in Passed(R, K) : key[j] \in Y}
  BY <1>4, KeysOfPaired
<1>6. Passed(R, K) \subseteq DOMAIN R
  BY DEF Passed
<1>7. \A k \in S : k[2] = token
  BY DEF PayersIn
<1>8. RowsAt(P, S) = {j \in X : key[j] \in S}
  BY <1>2, <1>3, <1>5, <1>6, <1>7
<1>9. ASSUME NEW j \in X, key[j] \notin S
      PROVE  fee[j] = 0
  <2> DEFINE J == RowsIn(R, P, key[j])
  <2>1. j \in Passed(R, K) /\ j \in DOMAIN R /\ key[j][2] = token
    BY <1>2, <1>3
  <2>2. key[j] \in KeysIn(P)
    BY <1>5, <2>1
  <2>3. J \in SUBSET DOMAIN R /\ j \in J
    <3>1. <<key[j], j>> \in P
      BY <1>4, <2>1 DEF Paired
    <3> QED
      BY <2>1, <3>1 DEF RowsIn
  <2>4. ~(SumOver(fee, J) > 0)
    BY <1>9, <2>1, <2>2 DEF PayersIn, FeesPaid
  <2> HIDE DEF J, fee, key
  <2>5. SumOver(fee, J) \in Nat /\ Amounts(fee, J)
    BY <1>1, <2>3, FigureSums
  <2>6. SumOver(fee, {j}) = fee[j] /\ fee[j] \in Nat
    <3>1. {} \in SUBSET DOMAIN R /\ j \in DOMAIN R \ {} /\ {} \cup {j} = {j}
      BY <2>1
    <3>2. SumOver(fee, {} \cup {j}) = SumOver(fee, {}) + fee[j] /\ SumOver(fee, {}) = 0
      BY <1>1, <3>1, FigureSums
    <3>3. fee[j] \in Nat
      BY <1>1, <2>1 DEF FiguresOf
    <3> QED
      BY <3>1, <3>2, <3>3
  <2>7. SumOver(fee, {j}) <= SumOver(fee, J)
    <3>1. {j} \subseteq J
      BY <2>3
    <3> QED
      BY <2>5, <3>1, SumOfPart
  <2> QED
    BY <2>4, <2>5, <2>6, <2>7
<1> HIDE DEF P, S, X, fee, key
<1>10. Amounts(fee, X)
  BY <1>1, <1>2, FigureSums
<1>11. RowsAt(P, S) \subseteq X /\ \A j \in X \ RowsAt(P, S) : fee[j] = 0
  BY <1>8, <1>9
<1>12. SumOver(fee, RowsAt(P, S)) = SumOver(fee, X)
  BY <1>10, <1>11, SumOfPart
<1> QED
  BY <1>12 DEF P, S, X, fee

\* The property's changes of those who pay.
PayersRight(first, token) ==
    LET diff == UserTokenChanges(first, 1, token)
        Transfer(tx) == (tx.name = token) /\ (tx.from # NoAddr) /\ (tx.to # NoAddr)
    IN  IncreaseSum(diff) + DecreaseSum(diff)
          = DayFees(first, Transfer) - DayFees(first - 1, Transfer)

\* The changes of all and of some entries, whatever they show besides the fee.
FeeChange(diff, S, U, c, q) ==
    DOMAIN diff = S \cup U
    /\ \A a \in S \cup U : diff[a].fee = (IF a \in S THEN c[a] ELSE 0) - (IF a \in U THEN q[a] ELSE 0)

LEMMA ChangesOfFees ==
  ASSUME NEW R, Indexed(R), NEW f \in FiguresOf(R), NEW P, NEW S, NEW c, EntriesOf(R, P, S, f, c),
         NEW Q, NEW U, NEW q, EntriesOf(R, Q, U, f, q), NEW diff, FeeChange(diff, S, U, c, q)
  PROVE  IncreaseSum(diff) + DecreaseSum(diff)
           = SumOver(f, RowsAt(P, S)) - SumOver(f, RowsAt(Q, U))
<1> DEFINE D == S \cup U
           T == {k \in DOMAIN diff : diff[k].fee > 0}
           V == {k \in DOMAIN diff : diff[k].fee < 0}
           fees == [a \in D |-> diff[a].fee]
           inT == [a \in T |-> diff[a].fee]
           inV == [a \in V |-> diff[a].fee]
           x == [a \in D |-> IF a \in S THEN c[a] ELSE 0]
           y == [a \in D |-> IF a \in U THEN q[a] ELSE 0]
<1>1. IsFiniteSet(S) /\ Amounts(c, S)
  BY EntriesAddUp DEF EntriesOf
<1>2. IsFiniteSet(U) /\ Amounts(q, U)
  BY EntriesAddUp DEF EntriesOf
<1>3. IsFiniteSet(D)
  BY <1>1, <1>2, FS_Union
<1>4. Amounts(x, D) /\ Amounts(y, D)
  BY <1>1, <1>2, <1>3 DEF Amounts
<1>5. DOMAIN diff = D /\ \A a \in D : fees[a] = x[a] - y[a] /\ fees[a] = diff[a].fee
  BY DEF FeeChange
<1>6. Change(S, U, c, q, fees)
  BY <1>5 DEF Change
<1>7. T \in SUBSET D /\ V \in SUBSET D
  BY <1>5
<1>8. \A a \in D : (a \in T <=> fees[a] > 0) /\ (a \in V <=> fees[a] < 0)
  BY <1>5
<1>10. /\ \A a \in T : inT[a] = diff[a].fee
       /\ \A a \in V : inV[a] = diff[a].fee
  OBVIOUS
<1>14. IncreaseSum(diff) = SumOver(inT, T) /\ DecreaseSum(diff) = SumOver(inV, V)
  BY Zenon DEF IncreaseSum, DecreaseSum, Total
<1> HIDE DEF D, T, V, fees, inT, inV, x, y
<1>9. T \cap V = {} /\ \A a \in D \ (T \cup V) : fees[a] = 0
  <2>1. \A a \in D : x[a] \in Nat /\ y[a] \in Nat
    BY <1>4 DEF Amounts
  <2>2. \A a \in D : fees[a] \in Int
    BY <1>5, <2>1
  <2> QED
    BY <1>7, <1>8, <2>2
<1>11. SumOver(inT, T) = SumOver(fees, T)
  <2>1. Amounts(x, T) /\ Amounts(y, T)
    BY <1>4, <1>7, SumOfPart
  <2>2. \A a \in T : inT[a] = x[a] - y[a] /\ fees[a] = x[a] - y[a]
    BY <1>5, <1>7, <1>10
  <2> QED
    BY <2>1, <2>2, SameDifferences
<1>12. SumOver(inV, V) = SumOver(fees, V)
  <2>1. Amounts(x, V) /\ Amounts(y, V)
    BY <1>4, <1>7, SumOfPart
  <2>2. \A a \in V : inV[a] = x[a] - y[a] /\ fees[a] = x[a] - y[a]
    BY <1>5, <1>7, <1>10
  <2> QED
    BY <2>1, <2>2, SameDifferences
<1>13. SumOver(fees, T) + SumOver(fees, V) = SumOver(f, RowsAt(P, S)) - SumOver(f, RowsAt(Q, U))
  BY <1>6, <1>7, <1>9, ChangeOfWindows DEF D
<1> QED
  BY <1>11, <1>12, <1>13, <1>14

LEMMA PayersAddUp ==
  ASSUME NEW R, NEW at, WindowState(R, at), tables \in Seq(Range(tables)), NEW first \in Nat \ {0},
         NEW token, token # NoName
  PROVE  PayersRight(first, token)
<1> DEFINE K == SpanRows(at, first, 1)
           L == SpanRows(at, first - 1, 1)
           P == SentPairs(R, K)
           Q == SentPairs(R, L)
           S == PayersIn(R, K, token)
           U == PayersIn(R, L, token)
           fee == CostAt(R, "Fee")
           cur == Payers(Window(first, 1), token)
           pre == Payers(Window(first - 1, 1), token)
           c == [a \in S |-> cur[a].from.cost["Fee"]]
           q == [a \in U |-> pre[a].from.cost["Fee"]]
           diff == UserTokenChanges(first, 1, token)
<1>1. first \in Nat /\ first - 1 \in Nat
  OBVIOUS
<1>2. Indexed(R) /\ K \in SUBSET DOMAIN R /\ L \in SUBSET DOMAIN R /\ days \in Seq(Seq(Transactions))
  BY <1>1, SpanOfDay
<1>3. PaidBy(cur, R, K, S)
  BY <1>1, PayersAre
<1>4. PaidBy(pre, R, L, U)
  BY <1>1, PayersAre
<1>5. Tagged(R, P) /\ Once(P) /\ Tagged(R, Q) /\ Once(Q)
  BY <1>2, PairsOnce
<1>6. S \subseteq KeysIn(P) /\ U \subseteq KeysIn(Q)
  BY DEF PayersIn
<1>7. fee \in FiguresOf(R)
  BY <1>2, FiguresType DEF Costs
<1>8. EntriesOf(R, P, S, fee, c) /\ EntriesOf(R, Q, U, fee, q)
  <2>1. \A a \in S : c[a] = SumOver(fee, RowsIn(R, P, a))
    BY <1>3 DEF PaidBy, FeesPaid
  <2>2. \A a \in U : q[a] = SumOver(fee, RowsIn(R, Q, a))
    BY <1>4 DEF PaidBy, FeesPaid
  <2> HIDE DEF P, Q, S, U, c, q, fee
  <2> QED
    BY <1>5, <1>6, <2>1, <2>2 DEF EntriesOf
<1>9. DOMAIN cur = S /\ DOMAIN pre = U
  BY <1>3, <1>4 DEF PaidBy
<1>10. diff = [k \in DOMAIN cur \cup DOMAIN pre |->
            IF k \notin DOMAIN pre
            THEN [fee |-> cur[k].from.cost["Fee"], txs |-> cur[k].to.txs]
            ELSE IF k \notin DOMAIN cur
            THEN [fee |-> -pre[k].from.cost["Fee"], txs |-> -pre[k].from.txs]
            ELSE [fee |-> cur[k].from.cost["Fee"] - pre[k].from.cost["Fee"],
                  txs |-> cur[k].from.txs - pre[k].from.txs]]
  BY Zenon DEF UserTokenChanges
<1>11. /\ TransferFees(first, token) = SumOver(fee, PartOf(R, K, OfTransfers(token)))
       /\ TransferFees(first - 1, token) = SumOver(fee, PartOf(R, L, OfTransfers(token)))
  <2>1. /\ TransferFees(first, token) = FeesIn(first, OfTransfers(token))
        /\ TransferFees(first - 1, token) = FeesIn(first - 1, OfTransfers(token))
    BY <1>2, DaysFigures
  <2> QED
    BY <1>1, <2>1, SpanOfDay
<1>12. /\ SumOver(fee, RowsAt(P, S)) = SumOver(fee, PartOf(R, K, OfTransfers(token)))
       /\ SumOver(fee, RowsAt(Q, U)) = SumOver(fee, PartOf(R, L, OfTransfers(token)))
  BY <1>2, PayersRows
<1> HIDE DEF K, L, P, Q, S, U, fee, cur, pre, diff
<1>17. /\ \A a \in S : c[a] = cur[a].from.cost["Fee"]
       /\ \A a \in U : q[a] = pre[a].from.cost["Fee"]
  OBVIOUS
<1> HIDE DEF c, q
<1>13. (\A a \in S : c[a] = cur[a].from.cost["Fee"] /\ c[a] \in Nat)
       /\ \A a \in U : q[a] = pre[a].from.cost["Fee"] /\ q[a] \in Nat
  <2>1. \A a \in S : c[a] \in Nat
    BY <1>2, <1>7, <1>8, EntriesAreNumbers
  <2>2. \A a \in U : q[a] \in Nat
    BY <1>2, <1>7, <1>8, EntriesAreNumbers
  <2> QED
    BY <1>17, <2>1, <2>2
<1>14. FeeChange(diff, S, U, c, q)
  <2>1. DOMAIN diff = S \cup U
    BY <1>9, <1>10
  <2>2. ASSUME NEW a \in S \cup U
        PROVE  diff[a].fee = (IF a \in S THEN c[a] ELSE 0) - (IF a \in U THEN q[a] ELSE 0)
    <3>1. CASE a \notin U
      <4>1. diff[a] = [fee |-> cur[a].from.cost["Fee"], txs |-> cur[a].to.txs]
        BY <1>9, <1>10, <3>1
      <4>2. diff[a].fee = c[a] /\ c[a] \in Nat
        BY <1>13, <3>1, <4>1
      <4> QED
        BY <3>1, <4>2
    <3>2. CASE a \in U /\ a \notin S
      <4>1. diff[a] = [fee |-> -pre[a].from.cost["Fee"], txs |-> -pre[a].from.txs]
        BY <1>9, <1>10, <3>2
      <4>2. diff[a].fee = -q[a] /\ q[a] \in Nat
        BY <1>13, <3>2, <4>1
      <4> QED
        BY <3>2, <4>2
    <3>3. CASE a \in U /\ a \in S
      <4>1. diff[a] = [fee |-> cur[a].from.cost["Fee"] - pre[a].from.cost["Fee"],
                       txs |-> cur[a].from.txs - pre[a].from.txs]
        BY <1>9, <1>10, <3>3
      <4>2. diff[a].fee = c[a] - q[a]
        BY <1>13, <3>3, <4>1
      <4> QED
        BY <3>3, <4>2
    <3> QED
      BY <3>1, <3>2, <3>3
  <2> QED
    BY <2>1, <2>2 DEF FeeChange
<1>15. IncreaseSum(diff) + DecreaseSum(diff)
         = SumOver(fee, RowsAt(P, S)) - SumOver(fee, RowsAt(Q, U))
  BY <1>2, <1>7, <1>8, <1>14, ChangesOfFees
<1>16. IncreaseSum(diff) + DecreaseSum(diff) = TransferFees(first, token) - TransferFees(first - 1, token)
  BY <1>11, <1>12, <1>15
<1> QED
  BY <1>16, Zenon DEF PayersRight, TransferFees, diff

-----------------------------------------------------------------------------
(* The changes of number of those who pay: of somebody new it is what was  *)
(* received that is shown.                                                 *)

\* Entries of finitely many keys, of which some may have no row.
LEMMA AnyEntriesAddUp ==
  ASSUME NEW R, Indexed(R), NEW P, Tagged(R, P), Once(P), NEW A, IsFiniteSet(A),
         NEW f \in FiguresOf(R), NEW sums, \A a \in A : sums[a] = SumOver(f, RowsIn(R, P, a))
  PROVE  Amounts(sums, A) /\ SumOver(sums, A) = SumOver(f, RowsAt(P, A))
<1> DEFINE B == A \cap KeysIn(P)
<1>1. B \subseteq A /\ B \subseteq KeysIn(P)
  OBVIOUS
<1>2. RowsAt(P, B) = RowsAt(P, A)
  BY DEF RowsAt, Within, KeysIn
<1> HIDE DEF B
<1>3. Amounts(sums, B) /\ SumOver(sums, B) = SumOver(f, RowsAt(P, B))
  BY <1>1, EntriesAddUp
<1>4. ASSUME NEW a \in A \ B PROVE sums[a] = 0
  <2>1. RowsIn(R, P, a) = {}
    BY KeyHasRows DEF B
  <2> QED
    BY <2>1, SumOfNone
<1>5. Amounts(sums, A)
  BY <1>3, <1>4 DEF Amounts
<1>6. SumOver(sums, B) = SumOver(sums, A)
  BY <1>1, <1>4, <1>5, SumOfPart
<1> QED
  BY <1>2, <1>3, <1>5, <1>6

\* The number shown of a key.
NumberShown(R, P, V, Q, S, U, k) ==
    (IF k \notin S THEN 0 ELSE IF k \in U THEN SumOver(OneEach(R), RowsIn(R, P, k))
                                          ELSE SumOver(OneEach(R), RowsIn(R, V, k)))
    - (IF k \in U THEN SumOver(OneEach(R), RowsIn(R, Q, k)) ELSE 0)
OnceTagged(R, P) == Tagged(R, P) /\ Once(P)

LEMMA NumbersOfKeys ==
  ASSUME NEW R, Indexed(R), NEW P, OnceTagged(R, P), NEW V, OnceTagged(R, V), NEW Q, OnceTagged(R, Q),
         NEW S, IsFiniteSet(S), NEW U, IsFiniteSet(U), NEW g,
         \A k \in S \cup U : g[k] = NumberShown(R, P, V, Q, S, U, k)
  PROVE  SumOver(g, S \cup U) = SumOver(OneEach(R), RowsAt(P, S \cap U))
                                + SumOver(OneEach(R), RowsAt(V, S \ U))
                                - SumOver(OneEach(R), RowsAt(Q, U))
<1> DEFINE f == OneEach(R)
           D == S \cup U
           Both2 == S \cap U
           Only == S \ U
           x == [k \in D |-> IF k \notin S THEN 0 ELSE IF k \in U THEN SumOver(f, RowsIn(R, P, k))
                                                       ELSE SumOver(f, RowsIn(R, V, k))]
           y == [k \in D |-> IF k \in U THEN SumOver(f, RowsIn(R, Q, k)) ELSE 0]
<1>1. f \in FiguresOf(R)
  BY FiguresType
<1>2. IsFiniteSet(D) /\ IsFiniteSet(Both2) /\ IsFiniteSet(Only)
  <2>1. Both2 \subseteq S /\ Only \subseteq S
    OBVIOUS
  <2>2. IsFiniteSet(D)
    BY FS_Union
  <2> HIDE DEF Both2, Only, D
  <2> QED
    BY <2>1, <2>2, FS_Subset
<1>3. /\ \A k \in Both2 : x[k] = SumOver(f, RowsIn(R, P, k))
      /\ \A k \in Only : x[k] = SumOver(f, RowsIn(R, V, k))
      /\ \A k \in D \ S : x[k] = 0
      /\ \A k \in U : y[k] = SumOver(f, RowsIn(R, Q, k))
      /\ \A k \in D \ U : y[k] = 0
  BY Zenon
<1>4. \A k \in D : g[k] = x[k] - y[k]
  BY DEF NumberShown
<1>5. /\ Both2 \cap Only = {} /\ Both2 \cup Only = S /\ S \subseteq D /\ U \subseteq D
      /\ D = S \cup U
  OBVIOUS
<1> HIDE DEF D, Both2, Only, x, y, f
<1>6. Amounts(x, Both2) /\ SumOver(x, Both2) = SumOver(f, RowsAt(P, Both2))
  BY <1>1, <1>2, <1>3, AnyEntriesAddUp DEF OnceTagged
<1>7. Amounts(x, Only) /\ SumOver(x, Only) = SumOver(f, RowsAt(V, Only))
  BY <1>1, <1>2, <1>3, AnyEntriesAddUp DEF OnceTagged
<1>8. Amounts(y, U) /\ SumOver(y, U) = SumOver(f, RowsAt(Q, U))
  BY <1>1, <1>3, AnyEntriesAddUp DEF OnceTagged
<1>9. Amounts(x, S) /\ SumOver(x, S) = SumOver(x, Both2) + SumOver(x, Only)
  <2>1. Amounts(x, Both2 \cup Only) /\ SumOver(x, Both2 \cup Only) = SumOver(x, Both2) + SumOver(x, Only)
    BY <1>5, <1>6, <1>7, SumOfUnion
  <2> QED
    BY <1>5, <2>1
<1>10. Amounts(x, D) /\ SumOver(x, D) = SumOver(x, S)
  <2>1. Amounts(x, D)
    BY <1>2, <1>3, <1>5, <1>9 DEF Amounts
  <2> QED
    BY <1>3, <1>5, <2>1, SumOfPart
<1>11. Amounts(y, D) /\ SumOver(y, D) = SumOver(y, U)
  <2>1. Amounts(y, D)
    BY <1>2, <1>3, <1>5, <1>8 DEF Amounts
  <2> QED
    BY <1>3, <1>5, <2>1, SumOfPart
<1>12. SumOver(g, D) = SumOver(x, D) - SumOver(y, D)
  BY <1>4, <1>10, <1>11, SumOfDifferences
<1>13. SumOver(g, D) = SumOver(f, RowsAt(P, Both2)) + SumOver(f, RowsAt(V, Only))
                       - SumOver(f, RowsAt(Q, U))
  <2>1. SumOver(x, Both2) \in Nat /\ SumOver(x, Only) \in Nat /\ SumOver(y, U) \in Nat
    BY <1>6, <1>7, <1>8, SumType
  <2> QED
    BY <1>6, <1>7, <1>8, <1>9, <1>10, <1>11, <1>12, <2>1
<1> QED
  BY <1>13, Zenon DEF f, D, Both2, Only

\* The transfers of a token that some have sent, and received.
SentBy(token, B) == {tx \in OfTransfers(token) : tx.from \in B}
ReceivedBy(token, B) == {tx \in OfTransfers(token) : tx.to \in B}
InToken(B, token) == {<<a, token>> : a \in B}
TokenReceivers(R) == [j \in DOMAIN R |-> <<R[j].to, R[j].name>>]

LEMMA BothOnce ==
  ASSUME NEW R, NEW K \in SUBSET DOMAIN R
  PROVE  OnceTagged(R, SentPairs(R, K)) /\ OnceTagged(R, ReceivedPairs(R, K))
<1>0. \A x, y : <<x, y>>[1] = x /\ <<x, y>>[2] = y
  OBVIOUS
<1>1. Once(ReceivedPairs(R, K))
  BY <1>0 DEF Once, ReceivedPairs
<1> QED
  BY <1>1, PairsOnce DEF OnceTagged

LEMMA RowsOfSome ==
  ASSUME NEW R, Indexed(R), NEW K \in SUBSET DOMAIN R, NEW token, token # NoName, NEW B
  PROVE  /\ RowsAt(SentPairs(R, K), InToken(B, token)) = PartOf(R, K, SentBy(token, B))
         /\ RowsAt(ReceivedPairs(R, K), InToken(B, token)) = PartOf(R, K, ReceivedBy(token, B))
<1>0. /\ \A x, y : <<x, y>>[1] = x /\ <<x, y>>[2] = y
      /\ \A x, y, u, v : <<x, y>> = <<u, v>> <=> x = u /\ y = v
  OBVIOUS
<1>1. \A j \in K : R[j] \in Transactions
  BY DEF Indexed
<1>2. Paired(ReceivedPairs(R, K), Passed(R, K), TokenReceivers(R))
  BY DEF Paired, ReceivedPairs, TokenReceivers, Passed
<1>3. /\ RowsAt(SentPairs(R, K), InToken(B, token))
           = {j \in Passed(R, K) : SendersIn(R)[j] \in InToken(B, token)}
      /\ RowsAt(ReceivedPairs(R, K), InToken(B, token))
           = {j \in Passed(R, K) : TokenReceivers(R)[j] \in InToken(B, token)}
  BY <1>2, RowsArePaired, KeysOfPaired
<1>4. ASSUME NEW j \in Passed(R, K)
      PROVE  /\ SendersIn(R)[j] \in InToken(B, token) <=> R[j].from \in B /\ R[j].name = token
             /\ TokenReceivers(R)[j] \in InToken(B, token) <=> R[j].to \in B /\ R[j].name = token
  <2>1. j \in DOMAIN R
    BY DEF Passed
  <2>2. SendersIn(R)[j] = <<R[j].from, R[j].name>> /\ TokenReceivers(R)[j] = <<R[j].to, R[j].name>>
    BY <2>1 DEF SendersIn, TokenReceivers
  <2>3. \A x, y : <<x, y>> \in InToken(B, token) <=> x \in B /\ y = token
    BY <1>0 DEF InToken
  <2> QED
    BY <2>2, <2>3
<1>5. \A j : j \in Passed(R, K) /\ R[j].name = token <=> j \in K /\ R[j] \in OfTransfers(token)
  BY <1>1 DEF Passed, OfTransfers
<1>6. RowsAt(SentPairs(R, K), InToken(B, token)) = PartOf(R, K, SentBy(token, B))
  BY <1>3, <1>4, <1>5 DEF PartOf, SentBy
<1>7. RowsAt(ReceivedPairs(R, K), InToken(B, token)) = PartOf(R, K, ReceivedBy(token, B))
  BY <1>3, <1>4, <1>5 DEF PartOf, ReceivedBy
<1> QED
  BY <1>6, <1>7

\* The property's figures of a day are of these rows.
SentFees(d, token, a) == DayFees(d, LAMBDA tx : IsTransferOf(tx, token) /\ (tx.from = a))

LEMMA FiguresOfSome ==
  ASSUME days \in Seq(Seq(Transactions)), NEW d, NEW token
  PROVE  /\ \A a : SentFees(d, token, a) = FeesIn(d, SentBy(token, {a}))
         /\ \A B : /\ FromOn(d, token, B) = CountIn(d, SentBy(token, B))
                   /\ ToOn(d, token, B) = CountIn(d, ReceivedBy(token, B))
<1>1. \A e \in DOMAIN days : \A i \in DOMAIN days[e] : days[e][i] \in Transactions
  OBVIOUS
<1>2. CASE d \notin DOMAIN days
  BY <1>2 DEF SentFees, FromOn, ToOn, DayCount, DayFees, CountIn, FeesIn
<1>3. CASE d \in DOMAIN days
  <2>1. ASSUME NEW a
        PROVE  DayPart(d, SentBy(token, {a}))
                 = {i \in DOMAIN days[d] : /\ days[d][i].type # TransferType
                                           /\ IsTransferOf(days[d][i], token) /\ (days[d][i].from = a)}
    BY <1>1, <1>3 DEF DayPart, SentBy, OfTransfers, IsTransferOf
  <2>2. \A a : SentFees(d, token, a) = FeesIn(d, SentBy(token, {a}))
    BY <1>3, <2>1, Zenon DEF SentFees, DayFees, FeesIn
  <2>3. ASSUME NEW B
        PROVE  /\ DayPart(d, SentBy(token, B))
                    = {i \in DOMAIN days[d] : /\ days[d][i].type # TransferType
                                              /\ IsTransferOf(days[d][i], token)
                                              /\ (days[d][i].from \in B)}
               /\ DayPart(d, ReceivedBy(token, B))
                    = {i \in DOMAIN days[d] : /\ days[d][i].type # TransferType
                                              /\ IsTransferOf(days[d][i], token)
                                              /\ (days[d][i].to \in B)}
    BY <1>1, <1>3 DEF DayPart, SentBy, ReceivedBy, OfTransfers, IsTransferOf
  <2>4. \A B : FromOn(d, token, B) = CountIn(d, SentBy(token, B))
    BY <1>3, <2>3, Zenon DEF FromOn, DayCount, CountIn
  <2>5. \A B : ToOn(d, token, B) = CountIn(d, ReceivedBy(token, B))
    BY <1>3, <2>3, Zenon DEF ToOn, DayCount, CountIn
  <2> QED
    BY <2>2, <2>4, <2>5
<1> QED
  BY <1>2, <1>3

\* Who has paid on a day are those whose entries the report has.
LEMMA PayersAreThose ==
  ASSUME NEW R, NEW at, WindowState(R, at), tables \in Seq(Range(tables)), NEW d \in Nat,
         NEW token, token # NoName, NEW K, K = SpanRows(at, d, 1)
  PROVE  PayersIn(R, K, token) = InToken(PaysOn(d, token), token)
<1> DEFINE P == SentPairs(R, K)
           fee == CostAt(R, "Fee")
<1>0. /\ \A x, y : <<x, y>>[1] = x /\ <<x, y>>[2] = y
      /\ \A x, y, u, v : <<x, y>> = <<u, v>> <=> x = u /\ y = v
  OBVIOUS
<1>1. Indexed(R) /\ K \in SUBSET DOMAIN R /\ days \in Seq(Seq(Transactions))
  BY SpanOfDay
<1>2. Tagged(R, P)
  BY <1>1, PairsOnce
<1>3. PaysOn(d, token) = {a \in Addrs : SentFees(d, token, a) > 0}
  BY Zenon DEF PaysOn, SentFees
<1>4. ASSUME NEW a PROVE FeesPaid(R, K, <<a, token>>) = SentFees(d, token, a)
  <2>1. SentFees(d, token, a) = SumOver(fee, PartOf(R, K, SentBy(token, {a})))
    BY <1>1, FiguresOfSome, SpanOfDay
  <2>2. PartOf(R, K, SentBy(token, {a})) = RowsAt(P, InToken({a}, token))
    BY <1>1, RowsOfSome
  <2>3. RowsAt(P, InToken({a}, token)) = RowsIn(R, P, <<a, token>>)
    <3>1. InToken({a}, token) = {<<a, token>>}
      BY DEF InToken
    <3>2. \A p \in P : p = <<p[1], p[2]>> /\ p[2] \in DOMAIN R
      BY <1>2 DEF Tagged
    <3> DEFINE k == <<a, token>>
    <3>3. RowsAt(P, {k}) = {p[2] : p \in {q \in P : q[1] = k}}
      BY DEF RowsAt, Within
    <3>4. ASSUME NEW j \in RowsIn(R, P, k) PROVE j \in RowsAt(P, {k})
      <4>1. <<k, j>> \in P /\ <<k, j>>[1] = k /\ <<k, j>>[2] = j
        BY DEF RowsIn
      <4> HIDE DEF P, k
      <4> QED
        BY <3>3, <4>1
    <3>5. ASSUME NEW j \in RowsAt(P, {k}) PROVE j \in RowsIn(R, P, k)
      <4>1. PICK p \in P : p[1] = k /\ p[2] = j
        BY <3>3
      <4> HIDE DEF P, k
      <4> QED
        BY <3>2, <4>1 DEF RowsIn
    <3>6. RowsAt(P, {k}) = RowsIn(R, P, k)
      BY <3>4, <3>5
    <3> QED
      BY <3>1, <3>6
  <2> QED
    BY <2>1, <2>2, <2>3 DEF FeesPaid
<1>5. ASSUME NEW k \in PayersIn(R, K, token) PROVE k \in InToken(PaysOn(d, token), token)
  <2>1. k \in KeysIn(P) /\ k[2] = token /\ FeesPaid(R, K, k) > 0
    BY DEF PayersIn
  <2>2. PICK j \in Passed(R, K) : k = <<R[j].from, R[j].name>>
    <3>1. PICK j \in Passed(R, K) : k = SendersIn(R)[j]
      BY <1>1, <2>1, RowsArePaired, KeysOfPaired
    <3>2. j \in DOMAIN R
      BY <1>1 DEF Passed
    <3> QED
      BY <3>1, <3>2 DEF SendersIn
  <2>3. R[j].from \in Addrs
    <3>1. R[j] \in Transactions /\ R[j].from # NoAddr
      BY <1>1 DEF Passed, Indexed
    <3> QED
      BY <3>1 DEF Transactions
  <2>4. k = <<R[j].from, token>>
    BY <1>0, <2>1, <2>2
  <2> QED
    BY <1>3, <1>4, <2>1, <2>3, <2>4 DEF InToken
<1>6. ASSUME NEW k \in InToken(PaysOn(d, token), token) PROVE k \in PayersIn(R, K, token)
  <2>1. PICK a \in Addrs : k = <<a, token>> /\ SentFees(d, token, a) > 0
    BY <1>3 DEF InToken
  <2>2. FeesPaid(R, K, k) > 0
    BY <1>4, <2>1
  <2>3. k \in KeysIn(P)
    <3>1. CASE RowsIn(R, P, k) = {}
      <4>1. FeesPaid(R, K, k) = 0
        BY <3>1, SumOfNone DEF FeesPaid
      <4> QED
        BY <2>2, <4>1
    <3> QED
      BY <1>2, <3>1, KeyHasRows
  <2> QED
    BY <1>0, <2>1, <2>2, <2>3 DEF PayersIn
<1> QED
  BY <1>5, <1>6

\* The property's changes of number.
NumbersRight(first, token) ==
    LET diff   == UserTokenChanges(first, 1, token)
        now    == PaysOn(first, token)
        before == PaysOn(first - 1, token)
    IN  Total(LAMBDA k : diff[k].txs, DOMAIN diff)
          = FromOn(first, token, now \cap before) + ToOn(first, token, now \ before)
            - FromOn(first - 1, token, before)

\* What is shown, of those who have paid in one window and in the one before.
ShownOfPayers(cur, pre) ==
    [k \in DOMAIN cur \cup DOMAIN pre |->
        IF k \notin DOMAIN pre
        THEN [fee |-> cur[k].from.cost["Fee"], txs |-> cur[k].to.txs]
        ELSE IF k \notin DOMAIN cur
        THEN [fee |-> -pre[k].from.cost["Fee"], txs |-> -pre[k].from.txs]
        ELSE [fee |-> cur[k].from.cost["Fee"] - pre[k].from.cost["Fee"],
              txs |-> cur[k].from.txs - pre[k].from.txs]]
NumbersShown(R, K, L, cur, pre, S, U) ==
    /\ DOMAIN ShownOfPayers(cur, pre) = S \cup U
    /\ \A k \in S \cup U :
          ShownOfPayers(cur, pre)[k].txs
            = NumberShown(R, SentPairs(R, K), ReceivedPairs(R, K), SentPairs(R, L), S, U, k)

LEMMA ShownNumbers ==
  ASSUME NEW R, NEW K, NEW L, NEW cur, NEW pre, NEW S, NEW U,
         PaidBy(cur, R, K, S), PaidBy(pre, R, L, U),
         Indexed(R), K \in SUBSET DOMAIN R, L \in SUBSET DOMAIN R
  PROVE  NumbersShown(R, K, L, cur, pre, S, U)
<1> DEFINE diff == ShownOfPayers(cur, pre)
           one == OneEach(R)
           P == SentPairs(R, K)
           V == ReceivedPairs(R, K)
           Q == SentPairs(R, L)
<1>1. DOMAIN cur = S /\ DOMAIN pre = U
  BY DEF PaidBy
<1>6. diff = [k \in DOMAIN cur \cup DOMAIN pre |->
            IF k \notin DOMAIN pre
            THEN [fee |-> cur[k].from.cost["Fee"], txs |-> cur[k].to.txs]
            ELSE IF k \notin DOMAIN cur
            THEN [fee |-> -pre[k].from.cost["Fee"], txs |-> -pre[k].from.txs]
            ELSE [fee |-> cur[k].from.cost["Fee"] - pre[k].from.cost["Fee"],
                  txs |-> cur[k].from.txs - pre[k].from.txs]]
  BY DEF ShownOfPayers
<1>2. /\ \A k \in S : /\ cur[k].from.txs = SumOver(one, RowsIn(R, P, k))
                      /\ cur[k].to.txs = SumOver(one, RowsIn(R, V, k))
      /\ \A k \in U : pre[k].from.txs = SumOver(one, RowsIn(R, Q, k))
  BY DEF PaidBy
<1>3. one \in FiguresOf(R)
  BY FiguresType
<1> HIDE DEF one, diff
<1>4. \A k : /\ SumOver(one, RowsIn(R, P, k)) \in Nat /\ SumOver(one, RowsIn(R, V, k)) \in Nat
             /\ SumOver(one, RowsIn(R, Q, k)) \in Nat
  <2>1. \A X, k : RowsIn(R, X, k) \in SUBSET DOMAIN R
    BY DEF RowsIn
  <2> QED
    BY <1>3, <2>1, FigureSums
<1> HIDE DEF P, V, Q
<1>5. ASSUME NEW k \in S \cup U PROVE diff[k].txs = NumberShown(R, P, V, Q, S, U, k)
  <2>1. CASE k \notin U
    <3>1. diff[k] = [fee |-> cur[k].from.cost["Fee"], txs |-> cur[k].to.txs]
      BY <1>1, <1>6, <2>1
    <3>2. NumberShown(R, P, V, Q, S, U, k) = SumOver(one, RowsIn(R, V, k)) - 0
      BY <2>1 DEF NumberShown, one
    <3> QED
      BY <1>2, <1>4, <2>1, <3>1, <3>2
  <2>2. CASE k \in U /\ k \notin S
    <3>1. diff[k] = [fee |-> -pre[k].from.cost["Fee"], txs |-> -pre[k].from.txs]
      BY <1>1, <1>6, <2>2
    <3>2. NumberShown(R, P, V, Q, S, U, k) = 0 - SumOver(one, RowsIn(R, Q, k))
      BY <2>2 DEF NumberShown, one
    <3> QED
      BY <1>2, <1>4, <2>2, <3>1, <3>2
  <2>3. CASE k \in U /\ k \in S
    <3>1. diff[k] = [fee |-> cur[k].from.cost["Fee"] - pre[k].from.cost["Fee"],
                     txs |-> cur[k].from.txs - pre[k].from.txs]
      BY <1>1, <1>6, <2>3
    <3>2. NumberShown(R, P, V, Q, S, U, k)
            = SumOver(one, RowsIn(R, P, k)) - SumOver(one, RowsIn(R, Q, k))
      BY <2>3 DEF NumberShown, one
    <3> QED
      BY <1>2, <1>4, <2>3, <3>1, <3>2
  <2> QED
    BY <2>1, <2>2, <2>3
<1> QED
  BY <1>1, <1>5, <1>6 DEF NumbersShown, P, V, Q, diff

LEMMA NumbersAddUp ==
  ASSUME NEW R, NEW at, WindowState(R, at), tables \in Seq(Range(tables)), NEW first \in Nat \ {0},
         NEW token, token # NoName
  PROVE  NumbersRight(first, token)
<1> DEFINE K == SpanRows(at, first, 1)
           L == SpanRows(at, first - 1, 1)
           P == SentPairs(R, K)
           V == ReceivedPairs(R, K)
           Q == SentPairs(R, L)
           S == PayersIn(R, K, token)
           U == PayersIn(R, L, token)
           now == PaysOn(first, token)
           before == PaysOn(first - 1, token)
           one == OneEach(R)
           cur == Payers(Window(first, 1), token)
           pre == Payers(Window(first - 1, 1), token)
           diff == UserTokenChanges(first, 1, token)
           g == [k \in DOMAIN diff |-> diff[k].txs]
<1>1. first \in Nat /\ first - 1 \in Nat
  OBVIOUS
<1>2. Indexed(R) /\ K \in SUBSET DOMAIN R /\ L \in SUBSET DOMAIN R /\ days \in Seq(Seq(Transactions))
  BY <1>1, SpanOfDay
<1>3. PaidBy(cur, R, K, S)
  BY <1>1, PayersAre
<1>4. PaidBy(pre, R, L, U)
  BY <1>1, PayersAre
<1>5. diff = ShownOfPayers(cur, pre)
  BY Zenon DEF UserTokenChanges, ShownOfPayers
<1>6. S = InToken(now, token)
  BY <1>1, PayersAreThose
<1>7. U = InToken(before, token)
  BY <1>1, PayersAreThose
<1>8. Tagged(R, P) /\ Once(P) /\ Tagged(R, Q) /\ Once(Q)
  BY <1>2, PairsOnce
<1>9. S \subseteq KeysIn(P) /\ U \subseteq KeysIn(Q)
  BY DEF PayersIn
<1>10. OnceTagged(R, P) /\ OnceTagged(R, V) /\ OnceTagged(R, Q)
  BY <1>2, BothOnce
<1>11. \A B : /\ FromOn(first, token, B) = SumOver(one, RowsAt(P, InToken(B, token)))
              /\ ToOn(first, token, B) = SumOver(one, RowsAt(V, InToken(B, token)))
              /\ FromOn(first - 1, token, B) = SumOver(one, RowsAt(Q, InToken(B, token)))
  <2> SUFFICES ASSUME NEW B
               PROVE  /\ FromOn(first, token, B) = SumOver(one, RowsAt(P, InToken(B, token)))
                      /\ ToOn(first, token, B) = SumOver(one, RowsAt(V, InToken(B, token)))
                      /\ FromOn(first - 1, token, B) = SumOver(one, RowsAt(Q, InToken(B, token)))
    OBVIOUS
  <2>1. /\ FromOn(first, token, B) = CountIn(first, SentBy(token, B))
        /\ ToOn(first, token, B) = CountIn(first, ReceivedBy(token, B))
        /\ FromOn(first - 1, token, B) = CountIn(first - 1, SentBy(token, B))
    BY <1>2, FiguresOfSome
  <2>2. /\ CountIn(first, SentBy(token, B)) = SumOver(one, PartOf(R, K, SentBy(token, B)))
        /\ CountIn(first, ReceivedBy(token, B)) = SumOver(one, PartOf(R, K, ReceivedBy(token, B)))
        /\ CountIn(first - 1, SentBy(token, B)) = SumOver(one, PartOf(R, L, SentBy(token, B)))
    BY <1>1, SpanOfDay
  <2>3. /\ RowsAt(P, InToken(B, token)) = PartOf(R, K, SentBy(token, B))
        /\ RowsAt(V, InToken(B, token)) = PartOf(R, K, ReceivedBy(token, B))
        /\ RowsAt(Q, InToken(B, token)) = PartOf(R, L, SentBy(token, B))
    <3> HIDE DEF K, L
    <3>1. /\ RowsAt(P, InToken(B, token)) = PartOf(R, K, SentBy(token, B))
          /\ RowsAt(V, InToken(B, token)) = PartOf(R, K, ReceivedBy(token, B))
      BY <1>2, RowsOfSome
    <3>2. RowsAt(Q, InToken(B, token)) = PartOf(R, L, SentBy(token, B))
      BY <1>2, RowsOfSome
    <3> QED
      BY <3>1, <3>2
  <2> HIDE DEF K, L, P, V, Q, one
  <2> QED
    BY <2>1, <2>2, <2>3
<1>12. \A k \in DOMAIN diff : g[k] = diff[k].txs
  OBVIOUS
<1>13. Total(LAMBDA k : diff[k].txs, DOMAIN diff) = SumOver(g, DOMAIN diff)
  BY Zenon DEF Total
<1> HIDE DEF g
<1>14. /\ DOMAIN diff = S \cup U
       /\ \A k \in S \cup U : diff[k].txs = NumberShown(R, P, V, Q, S, U, k)
  <2> HIDE DEF K, L, S, U, cur, pre, diff
  <2> QED
    <3>1. NumbersShown(R, K, L, cur, pre, S, U)
      BY <1>2, <1>3, <1>4, ShownNumbers
    <3> QED
      BY <1>5, <3>1 DEF NumbersShown
<1> HIDE DEF K, L, P, V, Q, S, U, now, before, one, cur, pre, diff
<1>15. IsFiniteSet(S) /\ IsFiniteSet(U)
  <2> DEFINE f == OneEach(R)
             c == [a \in S |-> SumOver(f, RowsIn(R, P, a))]
             q == [a \in U |-> SumOver(f, RowsIn(R, Q, a))]
  <2>1. f \in FiguresOf(R)
    BY <1>2, FiguresType
  <2>2. \A a \in S : c[a] = SumOver(f, RowsIn(R, P, a))
    OBVIOUS
  <2>3. \A a \in U : q[a] = SumOver(f, RowsIn(R, Q, a))
    OBVIOUS
  <2> HIDE DEF f, c, q
  <2>4. IsFiniteSet(S)
    BY <1>2, <1>8, <1>9, <2>1, <2>2, EntriesAddUp
  <2>5. IsFiniteSet(U)
    BY <1>2, <1>8, <1>9, <2>1, <2>3, EntriesAddUp
  <2> QED
    BY <2>4, <2>5
<1>16. SumOver(g, S \cup U) = SumOver(one, RowsAt(P, S \cap U)) + SumOver(one, RowsAt(V, S \ U))
                              - SumOver(one, RowsAt(Q, U))
  <2>1. \A k \in S \cup U : g[k] = NumberShown(R, P, V, Q, S, U, k)
    BY <1>12, <1>14
  <2> QED
    BY <1>2, <1>10, <1>15, <2>1, NumbersOfKeys DEF one
<1>17. S \cap U = InToken(now \cap before, token) /\ S \ U = InToken(now \ before, token)
  <2>1. \A x, y, u, v : <<x, y>> = <<u, v>> <=> x = u /\ y = v
    OBVIOUS
  <2> QED
    BY <1>6, <1>7, <2>1 DEF InToken
<1>18. SumOver(g, DOMAIN diff)
         = FromOn(first, token, now \cap before) + ToOn(first, token, now \ before)
           - FromOn(first - 1, token, before)
  BY <1>7, <1>11, <1>14, <1>16, <1>17
<1> QED
  BY <1>13, <1>18, Zenon DEF NumbersRight, now, before, diff

-----------------------------------------------------------------------------
(* Rankings.  Of every day some users' statistics are merged only.         *)

\* The figure that users are ranked by.
RankFigure(R, metric) ==
    CASE metric = "fee"             -> CostAt(R, "Fee")
      [] metric = "energy_total"    -> CostAt(R, "EnergyTotal")
      [] metric = "tx_total"        -> CountAt(R, "TxTotal")
      [] metric = "trx_total"       -> CountAt(R, "TRXTotal")
      [] metric = "small_trx_total" -> CountAt(R, "SmallTRXTotal")
      [] metric = "trc10_total"     -> CountAt(R, "TRC10Total")
      [] metric = "usdt_total"      -> CountAt(R, "USDTTotal")

LEMMA MetricIs ==
  ASSUME NEW R, Indexed(R), NEW metric \in Metrics
  PROVE  /\ RankFigure(R, metric) \in FiguresOf(R)
         /\ \A J \in SUBSET DOMAIN R :
               Metric(UserFor(R, J), metric) = SumOver(RankFigure(R, metric), J)
<1>1. RankFigure(R, metric) \in FiguresOf(R)
  <2>1. /\ \A c \in Costs : CostAt(R, c) \in FiguresOf(R)
        /\ \A c \in UserCounters : CountAt(R, c) \in FiguresOf(R)
    BY FiguresType
  <2>2. {"Fee", "EnergyTotal"} \subseteq Costs
    BY DEF Costs
  <2>3. {"TxTotal", "TRXTotal", "SmallTRXTotal", "TRC10Total", "USDTTotal"} \subseteq UserCounters
    BY DEF UserCounters
  <2> QED
    BY <2>1, <2>2, <2>3 DEF RankFigure, Metrics
<1>2. ASSUME NEW J \in SUBSET DOMAIN R
      PROVE  Metric(UserFor(R, J), metric) = SumOver(RankFigure(R, metric), J)
  <2> DEFINE s == UserFor(R, J)
  <2>1. UserOf(s, R, J)
    BY UserForIsOf
  <2>2. s.cost = CostsOf(R, J) /\ s.count = CountsOf(R, J)
    BY <2>1 DEF UserOf
  <2> HIDE DEF s
  <2>3. \A c \in Costs : s.cost[c] = SumOver(CostAt(R, c), J)
    BY <2>2 DEF CostsOf
  <2>4. \A c \in UserCounters : s.count[c] = SumOver(CountAt(R, c), J)
    BY <2>2 DEF CountsOf
  <2>5. s.cost["Fee"] = SumOver(CostAt(R, "Fee"), J)
        /\ s.cost["EnergyTotal"] = SumOver(CostAt(R, "EnergyTotal"), J)
    BY <2>3 DEF Costs
  <2>6. /\ s.count["TxTotal"] = SumOver(CountAt(R, "TxTotal"), J)
        /\ s.count["TRXTotal"] = SumOver(CountAt(R, "TRXTotal"), J)
        /\ s.count["SmallTRXTotal"] = SumOver(CountAt(R, "SmallTRXTotal"), J)
        /\ s.count["TRC10Total"] = SumOver(CountAt(R, "TRC10Total"), J)
        /\ s.count["USDTTotal"] = SumOver(CountAt(R, "USDTTotal"), J)
    BY <2>4 DEF UserCounters
  <2> QED
    BY <2>5, <2>6 DEF Metric, RankFigure, Metrics, s
<1> QED
  BY <1>1, <1>2

\* A part of a map of users.
LEMMA UsersWithin ==
  ASSUME NEW R, NEW P, Tagged(R, P), NEW S, S \subseteq KeysIn(P)
  PROVE  /\ Restrict(MapOf("users", R, P, {}), S) = MapOf("users", R, Within(P, S), {})
         /\ Tagged(R, Within(P, S))
<1> DEFINE Q == {}
<1>1. Tagged(R, Q) /\ P \cup Q = P /\ Within(Q, S) = Q
  BY DEF Tagged, Within
<1> HIDE DEF Q
<1>2. S \subseteq KeysIn(P \cup Q)
  BY <1>1
<1>3. /\ Restrict(MapOf("users", R, P, Q), S) = MapOf("users", R, Within(P, S), Within(Q, S))
      /\ Tagged(R, Within(P, S))
  BY <1>1, <1>2, MapWithin
<1> QED
  BY <1>1, <1>3 DEF Q

\* Of every day's map those of p[d].
CutMaps(R, J, m, what, p, maps) ==
    /\ DOMAIN maps = 1..m
    /\ \A d \in 1..m : /\ p[d] \subseteq KeysIn(PairsOf(what, R, J[d]))
                       /\ maps[d] = Restrict(MapOf("users", R, PairsOf(what, R, J[d]), {}), p[d])

LEMMA CutWindow ==
  ASSUME NEW R, Indexed(R), NEW m \in Nat, NEW J, DOMAIN J = 1..m, Apart(J, m),
         UpTo(J, m) \in SUBSET DOMAIN R, NEW what \in PairKinds,
         NEW p, NEW maps, CutMaps(R, J, m, what, p, maps)
  PROVE  \E P : /\ P \in SUBSET PairsOf(what, R, UpTo(J, m)) /\ Tagged(R, P)
                /\ MergedFor("users", maps) = MapOf("users", R, P, {})
<1> DEFINE D == PairsByDay(what, R, J)
           E == [d \in 1..m |-> Within(D[d], p[d])]
           N == [d \in 1..m |-> {}]
<1>1. /\ UpTo(D, m) = PairsOf(what, R, UpTo(J, m)) /\ Apart(D, m)
      /\ \A d \in 1..m : Tagged(R, D[d])
      /\ Tagged(R, PairsOf(what, R, UpTo(J, m)))
  BY PairsOfDays
<1>2. \A d \in 1..m : D[d] = PairsOf(what, R, J[d])
  BY DEF PairsByDay
<1>3. \A d \in 1..m : E[d] \subseteq D[d]
  BY DEF Within
<1>4. \A d \in 1..m : E[d] = Within(D[d], p[d]) /\ N[d] = {}
  OBVIOUS
<1> HIDE DEF D, E, N
<1>5. Apart(E, m) /\ Apart(N, m)
  BY <1>1, <1>3, <1>4 DEF Apart
<1>6. \A d \in 1..m : maps[d] = MapOf("users", R, E[d], N[d]) /\ Tagged(R, E[d]) /\ Tagged(R, N[d])
  <2> SUFFICES ASSUME NEW d \in 1..m
               PROVE  maps[d] = MapOf("users", R, E[d], N[d]) /\ Tagged(R, E[d]) /\ Tagged(R, N[d])
    BY Zenon
  <2>1. p[d] \subseteq KeysIn(D[d]) /\ maps[d] = Restrict(MapOf("users", R, D[d], {}), p[d])
    BY <1>2 DEF CutMaps
  <2>2. Tagged(R, D[d]) /\ Tagged(R, {})
    BY <1>1 DEF Tagged
  <2>3. /\ Restrict(MapOf("users", R, D[d], {}), p[d]) = MapOf("users", R, Within(D[d], p[d]), {})
        /\ Tagged(R, Within(D[d], p[d]))
    BY <2>1, <2>2, UsersWithin
  <2> QED
    BY <1>4, <2>1, <2>2, <2>3
<1>7. WindowOf("users", R, maps, m, E, N)
  BY <1>5, <1>6 DEF WindowOf, CutMaps
<1>8. MergedFor("users", maps) = MapOf("users", R, UpTo(E, m), UpTo(N, m))
  BY <1>7, WindowMerged DEF MapKinds
<1>9. UpTo(N, m) = {}
  BY <1>4 DEF UpTo
<1>10. UpTo(E, m) \subseteq UpTo(D, m)
  BY <1>3 DEF UpTo
<1>11. Tagged(R, UpTo(E, m))
  BY <1>1, <1>10 DEF Tagged
<1> QED
  BY <1>1, <1>8, <1>9, <1>10, <1>11

\* Merged from parts, nobody has more than he has.
LEMMA PartsAreLess ==
  ASSUME NEW R, Indexed(R), NEW Q, Tagged(R, Q), NEW P \in SUBSET Q, NEW metric \in Metrics,
         NEW part, part = MapOf("users", R, P, {}), NEW all, all = MapOf("users", R, Q, {})
  PROVE  /\ DOMAIN part = KeysIn(P) /\ DOMAIN all = KeysIn(Q) /\ KeysIn(P) \subseteq KeysIn(Q)
         /\ \A a \in DOMAIN part :
               /\ Metric(part[a], metric) = SumOver(RankFigure(R, metric), RowsIn(R, P, a))
               /\ Metric(all[a], metric) = SumOver(RankFigure(R, metric), RowsIn(R, Q, a))
               /\ Metric(part[a], metric) <= Metric(all[a], metric)
<1> DEFINE f == RankFigure(R, metric)
<1>1. P \cup {} = P /\ Q \cup {} = Q
  OBVIOUS
<1>2. /\ DOMAIN part = KeysIn(P) /\ \A a \in KeysIn(P) : part[a] = UserFor(R, RowsIn(R, P, a))
      /\ DOMAIN all = KeysIn(Q) /\ \A a \in KeysIn(Q) : all[a] = UserFor(R, RowsIn(R, Q, a))
  BY <1>1 DEF MapOf, StatOf
<1>3. KeysIn(P) \subseteq KeysIn(Q)
  BY DEF KeysIn
<1>4. \A a : RowsIn(R, P, a) \in SUBSET RowsIn(R, Q, a) /\ RowsIn(R, Q, a) \in SUBSET DOMAIN R
  BY DEF RowsIn
<1>5. f \in FiguresOf(R) /\ \A J \in SUBSET DOMAIN R : Metric(UserFor(R, J), metric) = SumOver(f, J)
  BY MetricIs
<1> HIDE DEF f
<1>6. ASSUME NEW a \in KeysIn(P)
      PROVE  /\ Metric(part[a], metric) = SumOver(f, RowsIn(R, P, a))
             /\ Metric(all[a], metric) = SumOver(f, RowsIn(R, Q, a))
             /\ SumOver(f, RowsIn(R, P, a)) <= SumOver(f, RowsIn(R, Q, a))
  <2>1. Metric(part[a], metric) = SumOver(f, RowsIn(R, P, a))
    BY <1>2, <1>4, <1>5
  <2>2. Metric(all[a], metric) = SumOver(f, RowsIn(R, Q, a))
    BY <1>2, <1>3, <1>4, <1>5
  <2>3. Amounts(f, RowsIn(R, Q, a))
    BY <1>4, <1>5, FigureSums
  <2>4. SumOver(f, RowsIn(R, P, a)) <= SumOver(f, RowsIn(R, Q, a))
    BY <1>4, <2>3, SumOfPart
  <2> QED
    BY <2>1, <2>2, <2>4
<1> QED
  BY <1>2, <1>3, <1>6 DEF f

\* The property's bound on what topUsers shows.
TopRight(first, n) ==
    \A top \in TopUsers(Window(first, n), "fee", 1) : \A a \in DOMAIN top :
        Metric(top[a], "fee") <= Metric(FromStatistic[a], "fee")

LEMMA TopUsersAre ==
  ASSUME NEW w, NEW n, NEW top \in TopUsers(w, "fee", n)
  PROVE  \E p : /\ top = MergedOver([d \in DOMAIN w |-> Restrict(Without(w[d].from, "total"), p[d])],
                                    UserMerge)
                /\ \A d \in 1..Len(w) : p[d] \subseteq DOMAIN Without(w[d].from, "total")
<1> DEFINE Tops == {p \in [1..Len(w) -> SUBSET Addrs] :
                       \A d \in DOMAIN p :
                           IsTop(p[d], LAMBDA a : Metric(Without(w[d].from, "total")[a], "fee"),
                                 DOMAIN Without(w[d].from, "total"), n)}
           M(p) == MergedOver([d \in DOMAIN w |-> Restrict(Without(w[d].from, "total"), p[d])], UserMerge)
<1>1. TopUsers(w, "fee", n) = {M(p) : p \in Tops}
  BY Zenon DEF TopUsers
<1>2. PICK p \in Tops : top = M(p)
  <2> HIDE DEF M, Tops
  <2> QED
    BY <1>1
<1>3. \A d \in 1..Len(w) : p[d] \subseteq DOMAIN Without(w[d].from, "total")
  <2>1. DOMAIN p = 1..Len(w)
    BY <1>2
  <2>2. \A d \in DOMAIN p : p[d] \subseteq DOMAIN Without(w[d].from, "total")
    BY <1>2 DEF IsTop
  <2> QED
    BY <2>1, <2>2
<1> QED
  BY <1>2, <1>3, Zenon

LEMMA TopsAreLess ==
  ASSUME NEW R, NEW at, WindowState(R, at), tables \in Seq(Range(tables)),
         NEW first \in Nat, NEW n \in Nat \ {0}
  PROVE  TopRight(first, n)
<1> SUFFICES ASSUME NEW top \in TopUsers(Window(first, n), "fee", 1), NEW a \in DOMAIN top
             PROVE  Metric(top[a], "fee") <= Metric(FromStatistic[a], "fee")
  BY DEF TopRight
<1>0. \A v, X, k : (v = Window(first, n) /\ X = SpanDays(at, first, n) /\ k = Len(v)) =>
         /\ Indexed(R) /\ k \in Nat /\ DOMAIN X = 1..k /\ DOMAIN v = 1..k
         /\ Apart(X, k) /\ UpTo(X, k) = SpanRows(at, first, n)
         /\ SpanRows(at, first, n) \in SUBSET KeptIn(R) /\ SpanRows(at, first, n) \in SUBSET DOMAIN R
         /\ \A d \in 1..k : CacheOf(v[d], R, X[d]) /\ X[d] \in SUBSET DOMAIN R
  BY SpanWindow
<1> DEFINE w == Window(first, n)
           m == Len(w)
           J == SpanDays(at, first, n)
           K == SpanRows(at, first, n)
           Q == PairsOf("owner", R, KeptIn(R))
           Maps(p) == [d \in DOMAIN w |-> Restrict(Without(w[d].from, "total"), p[d])]
<1>1. /\ Indexed(R) /\ m \in Nat /\ DOMAIN J = 1..m /\ DOMAIN w = 1..m
      /\ Apart(J, m) /\ UpTo(J, m) = K /\ K \in SUBSET KeptIn(R) /\ K \in SUBSET DOMAIN R
      /\ \A d \in 1..m : CacheOf(w[d], R, J[d]) /\ J[d] \in SUBSET DOMAIN R
  BY <1>0
<1>2. PICK p : /\ top = MergedOver(Maps(p), UserMerge)
               /\ \A d \in 1..m : p[d] \subseteq DOMAIN Without(w[d].from, "total")
  BY TopUsersAre
<1> DEFINE maps == Maps(p)
<1>3. DOMAIN maps = 1..m /\ \A d \in 1..m : maps[d] = Restrict(Without(w[d].from, "total"), p[d])
  BY <1>1
<1>4. top = MergedFor("users", maps)
  BY <1>2 DEF MergedFor
<1> HIDE DEF w, m, J, K, Q, maps
<1>5. CutMaps(R, J, m, "owner", p, maps)
  <2>1. ASSUME NEW d \in 1..m
        PROVE  /\ p[d] \subseteq KeysIn(PairsOf("owner", R, J[d]))
               /\ maps[d] = Restrict(MapOf("users", R, PairsOf("owner", R, J[d]), {}), p[d])
    <3> DEFINE P == PairsOf("owner", R, J[d])
    <3>1. Without(w[d].from, "total") = MapOf("users", R, P, {})
      BY <1>1, CacheRows
    <3>2. P \cup {} = P
      OBVIOUS
    <3> HIDE DEF P
    <3>3. DOMAIN MapOf("users", R, P, {}) = KeysIn(P)
      BY <3>2 DEF MapOf
    <3> QED
      BY <1>2, <1>3, <3>1, <3>3 DEF P
  <2> QED
    BY <1>3, <2>1 DEF CutMaps
<1>6. PICK P : /\ P \in SUBSET PairsOf("owner", R, K) /\ Tagged(R, P)
               /\ top = MapOf("users", R, P, {})
  BY <1>1, <1>4, <1>5, CutWindow DEF PairKinds
<1>7. P \in SUBSET Q /\ Tagged(R, Q)
  <2>1. PairsOf("owner", R, K) \subseteq Q
    BY <1>1 DEF PairsOf, OwnerPairs, Q
  <2>2. Tagged(R, Q)
    BY <1>1, PairsOnce DEF Q, KeptIn
  <2> QED
    BY <1>6, <2>1, <2>2
<1>8. FromStatistic = MapOf("users", R, Q, {})
  BY WindowMaps DEF Q
<1>9. "fee" \in Metrics
  BY DEF Metrics
<1> QED
  BY <1>1, <1>6, <1>7, <1>8, <1>9, PartsAreLess

-----------------------------------------------------------------------------
(* Statistics merged in any order: folds over sets.                        *)

MergedWith(kind, s, o) ==
    CASE kind = "tokens"    -> TokenMerge(s, o)
      [] kind = "exchanges" -> ExchangeMerge(s, o)
      [] kind = "names"     -> MergeByName(s, o)

AnyOf(s) == CHOOSE x \in s : TRUE
Iterated(kind, base, f, S, h) ==
    h = [s \in SUBSET S |-> IF s = {} THEN base
                            ELSE MergedWith(kind, f[AnyOf(s)], h[s \ {AnyOf(s)}])]
FoldedBy(kind, base, f, S, g) ==
    /\ g = [s \in SUBSET S |-> g[s]] /\ g[{}] = base
    /\ \A s \in SUBSET S : \A x \in s : g[s] = MergedWith(kind, f[x], g[s \ {x}])

LEMMA FoldedIsIterated ==
  ASSUME NEW kind, NEW base, NEW f, NEW S, NEW g, FoldedBy(kind, base, f, S, g)
  PROVE  Iterated(kind, base, f, S, g)
<1> DEFINE Rhs(s) == IF s = {} THEN base ELSE MergedWith(kind, f[AnyOf(s)], g[s \ {AnyOf(s)}])
<1>1. \A s \in SUBSET S : s # {} => AnyOf(s) \in s
  BY DEF AnyOf
<1>2. ASSUME NEW s \in SUBSET S PROVE g[s] = Rhs(s)
  <2>1. CASE s = {}
    BY <2>1 DEF FoldedBy
  <2>2. CASE s # {}
    <3>1. AnyOf(s) \in s
      BY <1>1, <2>2
    <3>2. g[s] = MergedWith(kind, f[AnyOf(s)], g[s \ {AnyOf(s)}])
      BY <3>1 DEF FoldedBy
    <3> QED
      BY <2>2, <3>2
  <2> QED
    BY <2>1, <2>2
<1>3. g = [s \in SUBSET S |-> g[s]]
  BY DEF FoldedBy
<1>4. Iterated(kind, base, f, S, g) <=> g = [s \in SUBSET S |-> Rhs(s)]
  BY DEF Iterated
<1> HIDE DEF Rhs
<1>5. [s \in SUBSET S |-> g[s]] = [s \in SUBSET S |-> Rhs(s)]
  BY <1>2
<1> QED
  BY <1>3, <1>4, <1>5

LEMMA OneIterated ==
  ASSUME NEW kind, NEW base, NEW f, NEW S, IsFiniteSet(S),
         NEW g, Iterated(kind, base, f, S, g), NEW h, Iterated(kind, base, f, S, h)
  PROVE  h[S] = g[S]
<1> DEFINE Bad == {s \in SUBSET S : h[s] # g[s]}
           Sizes == {Cardinality(s) : s \in Bad}
<1>1. \A s \in SUBSET S : s # {} => AnyOf(s) \in s
  BY DEF AnyOf
<1>2. ASSUME NEW s \in SUBSET S
      PROVE  /\ h[s] = IF s = {} THEN base ELSE MergedWith(kind, f[AnyOf(s)], h[s \ {AnyOf(s)}])
             /\ g[s] = IF s = {} THEN base ELSE MergedWith(kind, f[AnyOf(s)], g[s \ {AnyOf(s)}])
  BY DEF Iterated
<1>3. \A s \in SUBSET S : IsFiniteSet(s) /\ Cardinality(s) \in Nat
  BY FS_Subset, FS_CardinalityType
<1>4. Bad = {}
  <2> SUFFICES ASSUME Bad # {} PROVE FALSE
    OBVIOUS
  <2>1. Sizes \subseteq Nat /\ Sizes # {}
    BY <1>3
  <2>2. PICK m \in Sizes : \A k \in Sizes : m <= k
    <3> HIDE DEF Sizes
    <3> QED
      BY <2>1, LeastElement
  <2>3. PICK s \in Bad : m = Cardinality(s)
    BY <2>2
  <2>4. s # {}
    BY <1>2
  <2> DEFINE t == s \ {AnyOf(s)}
  <2>5. AnyOf(s) \in s /\ t \in SUBSET S
    BY <1>1, <2>4
  <2>6. Cardinality(t) = Cardinality(s) - 1
    BY <1>3, <2>5, FS_RemoveElement
  <2>7. t \notin Bad
    BY <1>3, <2>1, <2>2, <2>3, <2>6
  <2> QED
    BY <1>2, <2>4, <2>5, <2>7
<1> QED
  BY <1>4

\* A function that is as merging is, element by element, is the fold.
LEMMA TokensFolded ==
  ASSUME NEW f, NEW S, IsFiniteSet(S), NEW g, FoldedBy("tokens", NewTokenStatistic, f, S, g)
  PROVE  MapThenFoldSet(TokenMerge, NewTokenStatistic, LAMBDA k : f[k],
                        LAMBDA T : CHOOSE x \in T : TRUE, S) = g[S]
<1> DEFINE F(h) == [s \in SUBSET S |-> IF s = {} THEN NewTokenStatistic
                                       ELSE TokenMerge(f[CHOOSE x \in s : TRUE],
                                                       h[s \ {CHOOSE x \in s : TRUE}])]
           iter == CHOOSE h : h = F(h)
<1>1. MapThenFoldSet(TokenMerge, NewTokenStatistic, LAMBDA k : f[k],
                     LAMBDA T : CHOOSE x \in T : TRUE, S) = iter[S]
  BY DEF MapThenFoldSet
<1>2. \A h : Iterated("tokens", NewTokenStatistic, f, S, h) <=> h = F(h)
  BY DEF Iterated, MergedWith, AnyOf
<1>3. Iterated("tokens", NewTokenStatistic, f, S, g)
  BY FoldedIsIterated
<1> HIDE DEF F
<1>4. iter = F(iter)
  BY <1>2, <1>3
<1> HIDE DEF iter
<1>5. Iterated("tokens", NewTokenStatistic, f, S, iter)
  BY <1>2, <1>4
<1>6. iter[S] = g[S]
  BY <1>3, <1>5, OneIterated
<1> QED
  BY <1>1, <1>6

\* Some entries of a map of tokens, merged.
GroupOf(merged, S) ==
    MapThenFoldSet(TokenMerge, NewTokenStatistic, LAMBDA k : merged[k],
                   LAMBDA T : CHOOSE x \in T : TRUE, S)

LEMMA GroupIs ==
  ASSUME NEW R, Indexed(R), NEW P, Tagged(R, P), Once(P), NEW S, S \subseteq KeysIn(P)
  PROVE  GroupOf(MapOf("tokens", R, P, {}), S) = TokenOf(R, RowsAt(P, S))
<1> DEFINE M == MapOf("tokens", R, P, {})
           g == [s \in SUBSET S |-> TokenOf(R, RowsAt(P, s))]
<1>1. P \cup {} = P
  OBVIOUS
<1>2. \A a \in S : M[a] = TokenOf(R, RowsIn(R, P, a))
  BY <1>1 DEF MapOf, StatOf
<1>3. IsFiniteSet(S)
  <2>1. OneEach(R) \in FiguresOf(R)
    BY FiguresType
  <2> DEFINE sums == [a \in S |-> SumOver(OneEach(R), RowsIn(R, P, a))]
  <2>2. \A a \in S : sums[a] = SumOver(OneEach(R), RowsIn(R, P, a))
    OBVIOUS
  <2> HIDE DEF sums
  <2> QED
    BY <2>1, <2>2, EntriesAddUp
<1>4. \A p \in P : p = <<p[1], p[2]>> /\ p[2] \in DOMAIN R
  BY DEF Tagged
<1>5. \A x, y, u, v : <<x, y>> = <<u, v>> <=> x = u /\ y = v
  OBVIOUS
<1>6. ASSUME NEW s \in SUBSET S, NEW x \in s
      PROVE  /\ RowsAt(P, s) = RowsIn(R, P, x) \cup RowsAt(P, s \ {x})
             /\ RowsIn(R, P, x) \cap RowsAt(P, s \ {x}) = {}
             /\ RowsIn(R, P, x) \in SUBSET DOMAIN R /\ RowsAt(P, s \ {x}) \in SUBSET DOMAIN R
  <2>1. \A T : \A j : j \in RowsAt(P, T) <=> \E p \in P : p[1] \in T /\ p[2] = j
    BY DEF RowsAt, Within
  <2>2. \A j : j \in RowsIn(R, P, x) <=> \E p \in P : p[1] = x /\ p[2] = j
    <3>1. ASSUME NEW j \in RowsIn(R, P, x) PROVE \E p \in P : p[1] = x /\ p[2] = j
      <4>1. <<x, j>> \in P /\ <<x, j>>[1] = x /\ <<x, j>>[2] = j
        BY DEF RowsIn
      <4> QED
        BY <4>1
    <3>2. ASSUME NEW p \in P, p[1] = x PROVE p[2] \in RowsIn(R, P, x)
      BY <1>4, <3>2 DEF RowsIn
    <3> QED
      BY <3>1, <3>2
  <2>3. RowsAt(P, s) = RowsIn(R, P, x) \cup RowsAt(P, s \ {x})
    <3>1. ASSUME NEW j \in RowsAt(P, s) PROVE j \in RowsIn(R, P, x) \cup RowsAt(P, s \ {x})
      BY <2>1, <2>2
    <3>2. ASSUME NEW j \in RowsIn(R, P, x) \cup RowsAt(P, s \ {x}) PROVE j \in RowsAt(P, s)
      BY <2>1, <2>2
    <3> QED
      BY <3>1, <3>2
  <2>4. RowsIn(R, P, x) \cap RowsAt(P, s \ {x}) = {}
    <3> SUFFICES ASSUME NEW j \in RowsIn(R, P, x), j \in RowsAt(P, s \ {x}) PROVE FALSE
      OBVIOUS
    <3>1. PICK p \in P : p[1] = x /\ p[2] = j
      BY <2>2
    <3>2. PICK q \in P : q[1] \in s \ {x} /\ q[2] = j
      BY <2>1
    <3> QED
      BY <3>1, <3>2 DEF Once
  <2>5. RowsAt(P, s \ {x}) \in SUBSET DOMAIN R
    BY <1>4, <2>1
  <2> QED
    BY <2>3, <2>4, <2>5 DEF RowsIn
<1>7. g[{}] = NewTokenStatistic
  <2>1. RowsAt(P, {}) = {}
    BY DEF RowsAt, Within
  <2>2. TokenOf(R, {}) = NewTokenStatistic
    BY StatOfNone
  <2> QED
    BY <2>1, <2>2
<1>8. ASSUME NEW s \in SUBSET S, NEW x \in s
      PROVE  g[s] = TokenMerge(M[x], g[s \ {x}])
  <2> DEFINE J == RowsIn(R, P, x)
             L == RowsAt(P, s \ {x})
  <2>1. g[s] = TokenOf(R, J \cup L) /\ g[s \ {x}] = TokenOf(R, L) /\ M[x] = TokenOf(R, J)
    BY <1>2, <1>6
  <2>2. J \cap L = {} /\ J \in SUBSET DOMAIN R /\ L \in SUBSET DOMAIN R
    BY <1>6
  <2> HIDE DEF J, L, g, M
  <2>3. MergeOf("tokens", StatOf("tokens", R, J, {}), StatOf("tokens", R, L, {}))
          = StatOf("tokens", R, J \cup L, {} \cup {})
    BY <2>2, StatsBoth DEF MapKinds
  <2>4. TokenMerge(TokenOf(R, J), TokenOf(R, L)) = TokenOf(R, J \cup L)
    BY <2>3 DEF MergeOf, StatOf
  <2> QED
    BY <2>1, <2>4
<1>9. g = [s \in SUBSET S |-> g[s]] /\ g[S] = TokenOf(R, RowsAt(P, S))
  OBVIOUS
<1> HIDE DEF M, g
<1>10. FoldedBy("tokens", NewTokenStatistic, M, S, g)
  BY <1>7, <1>8, <1>9 DEF FoldedBy, MergedWith
<1>11. GroupOf(M, S) = g[S]
  BY <1>3, <1>10, TokensFolded, Zenon DEF GroupOf
<1> QED
  BY <1>9, <1>11 DEF M

\* The rows of a window are those of its days.
DaysOfSpan(at, first, n, I) ==
    /\ \A d, e \in I : d # e => SpanRows(at, d, 1) \cap SpanRows(at, e, 1) = {}
    /\ SpanRows(at, first, n) = UNION {SpanRows(at, d, 1) : d \in I}

LEMMA SpanOfDays ==
  ASSUME NEW R, NEW at, WindowState(R, at), NEW first \in Nat, NEW n \in Nat \ {0},
         NEW I, I = first..(first + n - 1)
  PROVE  IsFiniteSet(I) /\ DaysOfSpan(at, first, n, I)
<1> DEFINE D == DayRows(days, at)
           N == Len(days)
<1>1. N \in Nat /\ DOMAIN days = 1..N /\ Apart(D, N)
  BY WindowRows DEF WindowState
<1>2. IsFiniteSet(I)
  <2>1. first \in Int /\ first + n - 1 \in Int
    OBVIOUS
  <2> QED
    BY <2>1, FS_Interval
<1>3. \A d \in I : Span(d, 1) = {d} \cap (1..N)
  BY <1>1 DEF Span
<1>4. Span(first, n) = I \cap (1..N)
  BY <1>1 DEF Span
<1>5. \A d : SpanRows(at, d, 1) = UNION {D[e] : e \in Span(d, 1)}
  BY DEF SpanRows
<1>6. SpanRows(at, first, n) = UNION {D[e] : e \in Span(first, n)}
  BY DEF SpanRows
<1> HIDE DEF D, N
<1>7. \A d \in I : \A j : j \in SpanRows(at, d, 1) <=> d \in 1..N /\ j \in D[d]
  BY <1>3, <1>5
<1>8. \A j : j \in SpanRows(at, first, n) <=> \E d \in I : d \in 1..N /\ j \in D[d]
  BY <1>4, <1>6
<1>9. \A d, e \in I : d # e => SpanRows(at, d, 1) \cap SpanRows(at, e, 1) = {}
  BY <1>1, <1>7 DEF Apart
<1>10. SpanRows(at, first, n) = UNION {SpanRows(at, d, 1) : d \in I}
  <2>1. \A j : j \in UNION {SpanRows(at, d, 1) : d \in I} <=> \E d \in I : j \in SpanRows(at, d, 1)
    OBVIOUS
  <2> QED
    BY <1>7, <1>8, <2>1
<1> QED
  BY <1>2, <1>9, <1>10, Zenon DEF DaysOfSpan

\* The property's number of rows with a name, day by day.
NameTotal(first, n, name) ==
    Total(LAMBDA d : DayCount(d, LAMBDA tx : tx.name = name), first..(first + n - 1))

LEMMA NameTotalIs ==
  ASSUME NEW R, NEW at, WindowState(R, at), tables \in Seq(Range(tables)),
         NEW first \in Nat, NEW n \in Nat \ {0}, NEW name
  PROVE  NameTotal(first, n, name)
           = SumOver(OneEach(R), PartOf(R, SpanRows(at, first, n), OfNames({name})))
<1> DEFINE I == first..(first + n - 1)
           X == OfNames({name})
           one == OneEach(R)
           sums == [d \in I |-> NameOnDay(d, name)]
           group == [d \in I |-> PartOf(R, SpanRows(at, d, 1), X)]
<1>1. NameTotal(first, n, name) = SumOver(sums, I)
  BY Zenon DEF NameTotal, Total, NameOnDay
<1>2. /\ IsFiniteSet(I)
      /\ \A d, e \in I : d # e => SpanRows(at, d, 1) \cap SpanRows(at, e, 1) = {}
      /\ SpanRows(at, first, n) = UNION {SpanRows(at, d, 1) : d \in I}
  <2>1. IsFiniteSet(I) /\ DaysOfSpan(at, first, n, I)
    BY SpanOfDays
  <2> QED
    BY <2>1, Zenon DEF DaysOfSpan
<1>3. \A d \in I : d \in Nat
  OBVIOUS
<1>4. ASSUME NEW d \in Nat
      PROVE  /\ Indexed(R) /\ SpanRows(at, d, 1) \in SUBSET DOMAIN R /\ days \in Seq(Seq(Transactions))
             /\ NameOnDay(d, name) = SumOver(one, PartOf(R, SpanRows(at, d, 1), X))
  <2>1. /\ Indexed(R) /\ SpanRows(at, d, 1) \in SUBSET DOMAIN R /\ days \in Seq(Seq(Transactions))
        /\ CountIn(d, X) = SumOver(one, PartOf(R, SpanRows(at, d, 1), X))
    BY SpanOfDay
  <2>2. NameOnDay(d, name) = CountIn(d, X)
    BY <2>1, DaysFigures
  <2> QED
    BY <2>1, <2>2
<1>5. one \in FiguresOf(R) /\ Indexed(R)
  <2>1. Indexed(R)
    BY <1>4
  <2> QED
    BY <2>1, FiguresType
<1>6. \A d \in I : sums[d] = NameOnDay(d, name) /\ group[d] = PartOf(R, SpanRows(at, d, 1), X)
  OBVIOUS
<1> HIDE DEF I, X, one, sums, group
<1>7. \A d \in I : group[d] \in SUBSET DOMAIN R /\ sums[d] = SumOver(one, group[d])
  BY <1>3, <1>4, <1>6 DEF PartOf
<1>8. \A d \in I : Amounts(one, group[d])
  BY <1>5, <1>7, FigureSums
<1>9. \A d, e \in I : d # e => group[d] \cap group[e] = {}
  <2>1. \A d \in I : group[d] \subseteq SpanRows(at, d, 1)
    BY <1>6 DEF PartOf
  <2> QED
    BY <1>2, <2>1
<1>10. Grouped(one, I, group, sums)
  BY <1>2, <1>7, <1>8, <1>9 DEF Grouped
<1>11. Members(group, I) = PartOf(R, SpanRows(at, first, n), X)
  <2>1. \A j : j \in Members(group, I) <=> \E d \in I : j \in group[d]
    BY DEF Members
  <2>2. \A d \in I : \A j : j \in group[d] <=> j \in SpanRows(at, d, 1) /\ R[j] \in X
    BY <1>6 DEF PartOf
  <2>3. \A j : j \in SpanRows(at, first, n) <=> \E d \in I : j \in SpanRows(at, d, 1)
    BY <1>2
  <2>4. \A j : j \in PartOf(R, SpanRows(at, first, n), X) <=> j \in SpanRows(at, first, n) /\ R[j] \in X
    BY DEF PartOf
  <2> QED
    BY <2>1, <2>2, <2>3, <2>4
<1>12. SumOver(sums, I) = SumOver(one, Members(group, I))
  BY <1>10, SumOfSums
<1> QED
  BY <1>1, <1>11, <1>12 DEF one, X

\* The rows of some names, and their number.
NamedRows(R, K, S) == {j \in Named(R, K) : R[j].name \in S}
NamesCount(R, K, S) == SumOver(OneEach(R), NamedRows(R, K, S))

LEMMA CountsApart ==
  ASSUME NEW R, Indexed(R), NEW K \in SUBSET DOMAIN R, NEW S, NEW T, S \cap T = {}
  PROVE  NamesCount(R, K, S \cup T) = NamesCount(R, K, S) + NamesCount(R, K, T)
<1> DEFINE A == NamedRows(R, K, S)
           B == NamedRows(R, K, T)
<1>1. A \in SUBSET DOMAIN R /\ B \in SUBSET DOMAIN R /\ A \cap B = {}
  BY DEF NamedRows, Named
<1>2. NamedRows(R, K, S \cup T) = A \cup B
  BY DEF NamedRows
<1>3. OneEach(R) \in FiguresOf(R)
  BY FiguresType
<1> HIDE DEF A, B
<1>4. SumOver(OneEach(R), A \cup B) = SumOver(OneEach(R), A) + SumOver(OneEach(R), B)
  BY <1>1, <1>3, FigureSums
<1> QED
  BY <1>2, <1>4 DEF NamesCount, A, B

\* The property's groups of tokens.
GroupsRight(first, n) ==
    LET w == Window(first, n)
        groups == TokenGroups(w)
        usdt == Total(LAMBDA d : DayCount(d, LAMBDA tx : tx.name = USDT), first..(first + n - 1))
        trx == Total(LAMBDA d : DayCount(d, LAMBDA tx : tx.name = "TRX"), first..(first + n - 1))
    IN  groups.trc10.txs + groups.contract.txs + usdt + trx = groups.all.txs

ContractsOf(D) == {k \in D : IsContract(k) /\ (k # USDT)}

LEMMA GroupCount ==
  ASSUME NEW R, Indexed(R), NEW K \in SUBSET DOMAIN R, NEW merged,
         merged = MapOf("tokens", R, PairsOf("name", R, K), {}),
         NEW S, S \subseteq DOMAIN merged
  PROVE  /\ GroupOf(merged, S).txs = NamesCount(R, K, S)
         /\ DOMAIN merged = {R[j].name : j \in Named(R, K)}
         /\ NamesCount(R, K, S) \in Nat
<1> DEFINE P == PairsOf("name", R, K)
<1>1. Tagged(R, P) /\ Once(P) /\ Paired(P, Named(R, K), NamesIn(R))
  BY PairsOnce, RowsArePaired
<1>2. merged = MapOf("tokens", R, P, {}) /\ P \cup {} = P
  OBVIOUS
<1>3. \A j \in Named(R, K) : NamesIn(R)[j] = R[j].name
  BY DEF NamesIn, Named
<1> HIDE DEF P
<1>4. DOMAIN merged = KeysIn(P)
  BY <1>2 DEF MapOf
<1>5. /\ \A a : a \in KeysIn(P) <=> \E j \in Named(R, K) : a = NamesIn(R)[j]
      /\ RowsAt(P, S) = {j \in Named(R, K) : NamesIn(R)[j] \in S}
  BY <1>1, KeysOfPaired
<1>6. RowsAt(P, S) = NamedRows(R, K, S)
  BY <1>3, <1>5 DEF NamedRows
<1>7. DOMAIN merged = {R[j].name : j \in Named(R, K)}
  <2> DEFINE D == DOMAIN merged
             E == {R[j].name : j \in Named(R, K)}
  <2>1. \A a : a \in D <=> \E j \in Named(R, K) : a = R[j].name
    BY <1>3, <1>4, <1>5
  <2>2. \A a : a \in E <=> \E j \in Named(R, K) : a = R[j].name
    OBVIOUS
  <2> HIDE DEF D, E
  <2>3. D = E
    BY <2>1, <2>2
  <2> QED
    BY <2>3 DEF D, E
<1>8. GroupOf(merged, S) = TokenOf(R, RowsAt(P, S))
  BY <1>1, <1>2, <1>4, GroupIs
<1>9. GroupOf(merged, S).txs = NamesCount(R, K, S)
  BY <1>6, <1>8 DEF TokenOf, NamesCount
<1>10. NamesCount(R, K, S) \in Nat
  <2>1. NamedRows(R, K, S) \in SUBSET DOMAIN R
    BY DEF NamedRows, Named
  <2> QED
    BY <2>1, FiguresType, FigureSums DEF NamesCount
<1> QED
  BY <1>7, <1>9, <1>10

\* A name's rows, of those that are named.
NamesOf(R, K) == {R[j].name : j \in Named(R, K)}
LEMMA OneName ==
  ASSUME NEW R, Indexed(R), NEW K \in SUBSET DOMAIN R, NEW name, name # NoName,
         NEW D, D = NamesOf(R, K)
  PROVE  SumOver(OneEach(R), PartOf(R, K, OfNames({name}))) = NamesCount(R, K, D \cap {name})
<1>1. \A j \in K : R[j] \in Transactions
  BY DEF Indexed
<1>2. PartOf(R, K, OfNames({name})) = NamedRows(R, K, D \cap {name})
  <2>1. PartOf(R, K, OfNames({name})) = {j \in K : R[j].name = name}
    BY <1>1 DEF PartOf, OfNames
  <2>2. \A j \in Named(R, K) : R[j].name \in D
    BY DEF NamesOf
  <2>3. Named(R, K) = {j \in K : R[j].name # NoName}
    BY DEF Named
  <2>4. NamedRows(R, K, D \cap {name}) = {j \in Named(R, K) : R[j].name \in D \cap {name}}
    BY DEF NamedRows
  <2> HIDE DEF NamedRows
  <2> QED
    BY <2>1, <2>2, <2>3, <2>4
<1> QED
  BY <1>2 DEF NamesCount

LEMMA GroupsAddUp ==
  ASSUME NEW R, NEW at, WindowState(R, at), tables \in Seq(Range(tables)),
         NEW first \in Nat, NEW n \in Nat \ {0}
  PROVE  GroupsRight(first, n)
<1> DEFINE w == Window(first, n)
           K == SpanRows(at, first, n)
           merged == TokensOfSpan(w)
           D == DOMAIN merged
           A == D \cap Assets
           B == ContractsOf(D)
           C == D \cap {USDT}
           E == D \cap {"TRX"}
           groups == TokenGroups(w)
<1>1. Indexed(R) /\ K \in SUBSET DOMAIN R
  <2>1. \A v, X, k : (v = Window(first, n) /\ X = SpanDays(at, first, n) /\ k = Len(v)) =>
           Indexed(R) /\ SpanRows(at, first, n) \in SUBSET DOMAIN R
    BY SpanWindow
  <2> QED
    BY <2>1
<1>2. merged = MapOf("tokens", R, PairsOf("name", R, K), {})
  BY SpanMaps
<1>3. groups = [trc10 |-> GroupOf(merged, A), contract |-> GroupOf(merged, B), all |-> GroupOf(merged, D)]
  BY Zenon DEF TokenGroups, TokensOfSpan, GroupOf, ContractsOf
<1>4. /\ NameTotal(first, n, USDT) = SumOver(OneEach(R), PartOf(R, K, OfNames({USDT})))
      /\ NameTotal(first, n, "TRX") = SumOver(OneEach(R), PartOf(R, K, OfNames({"TRX"})))
  BY NameTotalIs
<1>5. /\ A \cap B = {} /\ (A \cup B) \cap C = {} /\ ((A \cup B) \cup C) \cap E = {}
      /\ ((A \cup B) \cup C) \cup E = D
      /\ A \subseteq D /\ B \subseteq D /\ C \subseteq D /\ E \subseteq D /\ D \subseteq D
  BY ReportAssumption DEF ContractsOf, IsContract
<1>6. D = DOMAIN merged
  OBVIOUS
<1>13. C = D \cap {USDT} /\ E = D \cap {"TRX"}
  OBVIOUS
<1> HIDE DEF w, K, merged, D, A, B, C, E, groups
<1>7. groups.trc10 = GroupOf(merged, A) /\ groups.contract = GroupOf(merged, B)
      /\ groups.all = GroupOf(merged, D)
  BY <1>3
<1>8. /\ groups.trc10.txs = NamesCount(R, K, A) /\ NamesCount(R, K, A) \in Nat
      /\ groups.contract.txs = NamesCount(R, K, B) /\ NamesCount(R, K, B) \in Nat
      /\ groups.all.txs = NamesCount(R, K, D)
      /\ NamesCount(R, K, C) \in Nat /\ NamesCount(R, K, E) \in Nat
      /\ D = {R[j].name : j \in Named(R, K)}
  <2>1. /\ GroupOf(merged, A).txs = NamesCount(R, K, A) /\ NamesCount(R, K, A) \in Nat
        /\ D = {R[j].name : j \in Named(R, K)}
    BY <1>1, <1>2, <1>5, <1>6, GroupCount
  <2>2. GroupOf(merged, B).txs = NamesCount(R, K, B) /\ NamesCount(R, K, B) \in Nat
    BY <1>1, <1>2, <1>5, <1>6, GroupCount
  <2>3. NamesCount(R, K, C) \in Nat
    BY <1>1, <1>2, <1>5, <1>6, GroupCount
  <2>4. NamesCount(R, K, E) \in Nat
    BY <1>1, <1>2, <1>5, <1>6, GroupCount
  <2>5. GroupOf(merged, D).txs = NamesCount(R, K, D)
    BY <1>1, <1>2, <1>5, <1>6, GroupCount
  <2> QED
    BY <1>7, <2>1, <2>2, <2>3, <2>4, <2>5
<1>9. /\ NameTotal(first, n, USDT) = NamesCount(R, K, C)
      /\ NameTotal(first, n, "TRX") = NamesCount(R, K, E)
  <2>1. USDT # NoName /\ "TRX" # NoName
    BY ReportAssumption
  <2> QED
    <3>1. D = NamesOf(R, K)
      BY <1>8 DEF NamesOf
    <3>2. SumOver(OneEach(R), PartOf(R, K, OfNames({USDT}))) = NamesCount(R, K, D \cap {USDT})
      BY <1>1, <2>1, <3>1, OneName
    <3>3. SumOver(OneEach(R), PartOf(R, K, OfNames({"TRX"}))) = NamesCount(R, K, D \cap {"TRX"})
      BY <1>1, <2>1, <3>1, OneName
    <3> QED
      BY <1>4, <1>13, <3>2, <3>3
<1>10. NamesCount(R, K, D) = ((NamesCount(R, K, A) + NamesCount(R, K, B)) + NamesCount(R, K, C))
                               + NamesCount(R, K, E)
  <2>1. NamesCount(R, K, A \cup B) = NamesCount(R, K, A) + NamesCount(R, K, B)
    BY <1>1, <1>5, CountsApart
  <2>2. NamesCount(R, K, (A \cup B) \cup C) = NamesCount(R, K, A \cup B) + NamesCount(R, K, C)
    BY <1>1, <1>5, CountsApart
  <2>3. NamesCount(R, K, ((A \cup B) \cup C) \cup E)
          = NamesCount(R, K, (A \cup B) \cup C) + NamesCount(R, K, E)
    BY <1>1, <1>5, CountsApart
  <2> QED
    BY <1>5, <2>1, <2>2, <2>3
<1>11. groups.trc10.txs + groups.contract.txs + NameTotal(first, n, USDT) + NameTotal(first, n, "TRX")
         = groups.all.txs
  BY <1>8, <1>9, <1>10
<1> QED
  BY <1>11, Zenon DEF GroupsRight, NameTotal, groups, w

\* The changes of fees, of transfers of TRX and of tokens that the reports show, of those who
\* are new, who have stayed and who have gone, add up to the difference of the transactions,
\* whatever the days hold; the changes of number of those who pay for a token add up to what
\* is sent, but for the new ones, of whom what they have received is shown; the groups of
\* tokens are disjoint and all there is; and topUsers never shows more than an address has.
THEOREM ChangesAreExact == ScanSpec => []ChangesAddUp
<1>1. WindowInv => ChangesAddUp
  <2> SUFFICES ASSUME WindowInv, WindowDone PROVE ChangesAddUp
    BY DEF ChangesAddUp
  <2>1. PICK at : WindowState(FlattenSeq(days), at)
    BY WindowNumbered
  <2>2. tables \in Seq(Range(tables))
    BY DEF WindowInv, FlushInv, WindowDone
  <2>3. ASSUME NEW first \in 1..2
        PROVE  /\ \A token \in ValidTokens : PayersRight(first, token) /\ NumbersRight(first, token)
               /\ TRXRight(first) /\ TokenRight(first)
               /\ \A n \in 1..2 : GroupsRight(first, n) /\ TopRight(first, n)
    <3>1. first \in Nat /\ first \in Nat \ {0}
      OBVIOUS
    <3>2. \A token \in ValidTokens : token # NoName
      BY ScanAssumption
    <3>3. \A n \in 1..2 : n \in Nat \ {0}
      OBVIOUS
    <3>4. \A token \in ValidTokens : PayersRight(first, token)
      BY <2>1, <2>2, <3>1, <3>2, PayersAddUp
    <3>9. \A token \in ValidTokens : NumbersRight(first, token)
      BY <2>1, <2>2, <3>1, <3>2, NumbersAddUp
    <3>5. TRXRight(first)
      BY <2>1, <2>2, <3>1, TRXAddUp
    <3>6. TokenRight(first)
      BY <2>1, <2>2, <3>1, TokenChangesAddUp
    <3>7. \A n \in 1..2 : GroupsRight(first, n)
      BY <2>1, <2>2, <3>1, <3>3, GroupsAddUp
    <3>8. \A n \in 1..2 : TopRight(first, n)
      BY <2>1, <2>2, <3>1, <3>3, TopsAreLess
    <3> QED
      BY <3>4, <3>5, <3>6, <3>7, <3>8, <3>9
  <2> QED
    BY <2>3, Zenon DEF ChangesAddUp, PayersRight, NumbersRight, TRXRight, TokenRight, GroupsRight,
                       TopRight, IsTransferOf
<1>2. WindowInv /\ [ScanNext]_scanVars => WindowInv'
  BY StepWindow
<1> QED
  BY <1>1, <1>2, InitWindow, PTL DEF ScanSpec

-----------------------------------------------------------------------------
(* Shares of the total.                                                    *)

\* Of finitely many entries one is the largest.
LEMMA LargestEntry ==
  ASSUME NEW S, IsFiniteSet(S), S # {}, NEW v, \A x \in S : v[x] \in Nat
  PROVE  \E m \in S : \A x \in S : v[x] <= v[m]
<1> DEFINE P == {s \in SUBSET S : s = {} \/ \E m \in s : \A x \in s : v[x] <= v[m]}
<1>1. {} \in P
  OBVIOUS
<1>2. ASSUME NEW s \in P, NEW x \in S, s \subseteq S, x \notin s
      PROVE  s \cup {x} \in P
  <2>1. CASE s = {}
    BY <2>1
  <2>2. CASE s # {}
    <3>1. PICK m \in s : \A y \in s : v[y] <= v[m]
      BY <2>2
    <3>2. v[m] \in Nat /\ v[x] \in Nat /\ \A y \in s : v[y] \in Nat
      BY <1>2
    <3>3. CASE v[x] <= v[m]
      <4>1. \A y \in s \cup {x} : v[y] <= v[m]
        BY <3>1, <3>3
      <4> QED
        BY <1>2, <4>1
    <3>4. CASE v[m] < v[x]
      <4>1. \A y \in s \cup {x} : v[y] <= v[x]
        BY <3>1, <3>2, <3>4
      <4> QED
        BY <1>2, <4>1
    <3> QED
      BY <3>2, <3>3, <3>4
  <2> QED
    BY <2>1, <2>2
<1> HIDE DEF P
<1>3. S \in P
  BY <1>1, <1>2, FiniteInduction
<1> QED
  BY <1>3 DEF P

\* There are n largest entries.
LEMMA TopExists ==
  ASSUME NEW S, IsFiniteSet(S), NEW v, \A x \in S : v[x] \in Nat, NEW k \in Nat
  PROVE  \E T \in SUBSET S : TopOf(T, v, S, k)
<1> DEFINE n == Cardinality(S)
           Best(j) == \E T \in SUBSET S : Cardinality(T) = j /\ \A a \in T, b \in S \ T : v[a] >= v[b]
           P == {j \in Nat : j <= n => Best(j)}
<1>0. n \in Nat
  BY FS_CardinalityType
<1>1. 0 \in P
  <2>1. Cardinality({}) = 0
    BY FS_EmptySet
  <2>2. Best(0)
    BY <2>1
  <2> HIDE DEF Best
  <2> QED
    BY <2>2
<1>2. ASSUME NEW j \in Nat, j \in P
      PROVE  j + 1 \in P
  <2> SUFFICES ASSUME j + 1 <= n PROVE Best(j + 1)
    OBVIOUS
  <2>1. Best(j)
    <3> HIDE DEF Best, n
    <3> QED
      BY <1>0, <1>2
  <2>2. PICK T \in SUBSET S : Cardinality(T) = j /\ \A a \in T, b \in S \ T : v[a] >= v[b]
    BY <2>1
  <2>3. IsFiniteSet(T) /\ IsFiniteSet(S \ T)
    BY FS_Subset
  <2>4. S \ T # {}
    <3> SUFFICES ASSUME S \ T = {} PROVE FALSE
      OBVIOUS
    <3>1. S = T
      OBVIOUS
    <3>2. n = j
      BY <2>2, <3>1
    <3> QED
      BY <3>2
  <2>5. PICK m \in S \ T : \A x \in S \ T : v[x] <= v[m]
    BY <2>3, <2>4, LargestEntry
  <2>6. Cardinality(T \cup {m}) = j + 1
    BY <2>2, <2>3, <2>5, FS_AddElement
  <2>7. \A a \in T \cup {m}, b \in S \ (T \cup {m}) : v[a] >= v[b]
    <3> SUFFICES ASSUME NEW a \in T \cup {m}, NEW b \in S \ (T \cup {m})
                 PROVE  v[a] >= v[b]
      OBVIOUS
    <3>1. CASE a \in T
      BY <2>2, <3>1
    <3>2. CASE a = m
      <4>1. b \in S \ T /\ v[b] \in Nat /\ v[m] \in Nat
        BY <2>5
      <4>2. v[b] <= v[m]
        BY <2>5, <4>1
      <4> QED
        BY <3>2, <4>1, <4>2
    <3> QED
      BY <3>1, <3>2
  <2> QED
    BY <2>5, <2>6, <2>7
<1> DEFINE l == IF n < k THEN n ELSE k
<1>3. l \in Nat /\ l <= n
  BY <1>0
<1> HIDE DEF P
<1>4. l \in P
  BY <1>1, <1>2, <1>3, AllNumbers
<1>5. Best(l)
  <2> HIDE DEF Best, n, l
  <2> QED
    BY <1>3, <1>4 DEF P
<1>6. PICK T \in SUBSET S : Cardinality(T) = l /\ \A a \in T, b \in S \ T : v[a] >= v[b]
  BY <1>5
<1> QED
  BY <1>6 DEF TopOf

\* The metric of every entry of a map.
MetricsOf(c, metric) == [a \in DOMAIN c |-> Metric(c[a], metric)]

\* What is chosen are entries of the map, and the sum is theirs.
LEMMA ConcentrationIs ==
  ASSUME NEW c, NEW metric, NEW v, v = MetricsOf(c, metric), IsFiniteSet(DOMAIN c),
         \A a \in DOMAIN c : v[a] \in Nat, NEW n \in Nat, NEW top, top = Concentration(c, metric, n)
  PROVE  top.list \in SUBSET DOMAIN c /\ top.topNSum = SumOver(v, top.list)
<1> DEFINE value(a) == Metric(c[a], metric)
           Top(keys) == IsTop(keys, value, DOMAIN c, n)
           chosen == CHOOSE keys \in SUBSET DOMAIN c : Top(keys)
<1>1. top.list = chosen /\ top.topNSum = Total(value, chosen)
  BY Zenon DEF Concentration
<1>2. \E keys \in SUBSET DOMAIN c : Top(keys)
  <2>1. PICK T \in SUBSET DOMAIN c : TopOf(T, v, DOMAIN c, n)
    BY TopExists
  <2>2. \A a \in DOMAIN c : v[a] = value(a)
    BY DEF MetricsOf
  <2>3. Top(T)
    BY <2>1, <2>2 DEF TopOf, IsTop
  <2> QED
    BY <2>3
<1>3. chosen \in SUBSET DOMAIN c
  <2> HIDE DEF Top
  <2> QED
    BY <1>2
<1> HIDE DEF chosen
<1>4. Total(value, chosen) = SumOver([a \in chosen |-> value(a)], chosen)
  BY DEF Total
<1>5. Amounts(v, chosen)
  BY <1>3, FS_Subset DEF Amounts
<1>6. \A a \in chosen : [b \in chosen |-> value(b)][a] = v[a]
  BY <1>3 DEF MetricsOf
<1>7. SumOver([a \in chosen |-> value(a)], chosen) = SumOver(v, chosen)
  BY <1>5, <1>6, SumOfEqual
<1> QED
  BY <1>1, <1>3, <1>4, <1>7

\* The rows that a ranking is about: all, or those with a receiver.
SideOf(direction) == IF direction = "to" THEN "to" ELSE "owner"
RowsOnSide(direction, R, J) == IF direction = "to" THEN Arrived(R, J) ELSE J
ReceiversIn(R) == [j \in DOMAIN R |-> R[j].to]

\* Every one of them is counted once.
LEMMA SidesPaired ==
  ASSUME NEW R, NEW J \in SUBSET DOMAIN R, NEW direction \in {"from", "to"},
         NEW P, P = PairsOf(SideOf(direction), R, J)
  PROVE  Tagged(R, P) /\ Once(P) /\ RowsAt(P, KeysIn(P)) = RowsOnSide(direction, R, J)
<1>0. \A x, y, u, v : <<x, y>> = <<u, v>> <=> x = u /\ y = v
  OBVIOUS
<1>1. CASE direction = "from"
  <2>1. P = PairsOf("owner", R, J) /\ RowsOnSide(direction, R, J) = J
    BY <1>1 DEF SideOf, RowsOnSide
  <2>2. Tagged(R, P) /\ Once(P) /\ Paired(P, J, OwnersIn(R))
    BY <2>1, PairsOnce, RowsArePaired
  <2>3. RowsAt(P, KeysIn(P)) = {j \in J : OwnersIn(R)[j] \in KeysIn(P)}
    BY <2>2, KeysOfPaired
  <2>4. \A j \in J : OwnersIn(R)[j] \in KeysIn(P)
    BY <2>2, KeysOfPaired
  <2>5. RowsAt(P, KeysIn(P)) = J
    BY <2>3, <2>4
  <2> QED
    BY <2>1, <2>2, <2>5
<1>2. CASE direction = "to"
  <2>1. P = {<<R[j].to, j>> : j \in Arrived(R, J)} /\ RowsOnSide(direction, R, J) = Arrived(R, J)
    BY <1>2 DEF SideOf, RowsOnSide, PairsOf, ToPairs
  <2>2. Arrived(R, J) \subseteq DOMAIN R
    BY DEF Arrived
  <2>3. Tagged(R, P)
    BY <2>1, <2>2 DEF Tagged
  <2>4. Once(P)
    BY <1>0, <2>1 DEF Once
  <2>5. Paired(P, Arrived(R, J), ReceiversIn(R))
    BY <2>1, <2>2 DEF Paired, ReceiversIn
  <2>6. RowsAt(P, KeysIn(P)) = {j \in Arrived(R, J) : ReceiversIn(R)[j] \in KeysIn(P)}
    BY <2>5, KeysOfPaired
  <2>7. \A j \in Arrived(R, J) : ReceiversIn(R)[j] \in KeysIn(P)
    BY <2>5, KeysOfPaired
  <2>8. RowsAt(P, KeysIn(P)) = Arrived(R, J)
    BY <2>6, <2>7
  <2> QED
    BY <2>1, <2>3, <2>4, <2>8
<1> QED
  BY <1>1, <1>2

\* The map of a side, and its rows by key.
LEMMA SideMap ==
  ASSUME NEW R, Indexed(R), NEW J \in SUBSET DOMAIN R, NEW c, CacheOf(c, R, J),
         NEW direction \in {"from", "to"}, NEW P, P = PairsOf(SideOf(direction), R, J)
  PROVE  /\ Rows(c, direction) = MapOf("users", R, P, {})
         /\ DOMAIN Rows(c, direction) = KeysIn(P)
<1>1. Rows(c, direction) = MapOf("users", R, P, {})
  BY CacheRows DEF Rows, SideOf
<1>2. P \cup {} = P
  OBVIOUS
<1>3. DOMAIN MapOf("users", R, P, {}) = KeysIn(P)
  BY <1>2 DEF MapOf
<1> QED
  BY <1>1, <1>3

\* A day's total, read from its row or summed up, is that of the day's rows.
LEMMA DayTotalIs ==
  ASSUME NEW R, Indexed(R), NEW J \in SUBSET DOMAIN R, NEW c, CacheOf(c, R, J),
         NEW direction \in {"from", "to"}, NEW metric \in Metrics
  PROVE  DayTotal(c, direction, metric)
           = SumOver(RankFigure(R, metric), RowsOnSide(direction, R, J))
<1> DEFINE f == RankFigure(R, metric)
<1>1. f \in FiguresOf(R) /\ \A K \in SUBSET DOMAIN R : Metric(UserFor(R, K), metric) = SumOver(f, K)
  BY MetricIs
<1> HIDE DEF f
<1>2. CASE direction = "from"
  <2>1. EntryOf(c.from, "total", NewUserStatistic) = UserFor(R, RowsFrom(R, J, "total"))
    BY EntryOfCache
  <2>2. RowsFrom(R, J, "total") = J
    BY DEF RowsFrom
  <2>3. Metric(EntryOf(c.from, "total", NewUserStatistic), metric) = SumOver(f, J)
    BY <1>1, <2>1, <2>2
  <2>4. Metric(NewUserStatistic, metric) = 0
    <3>1. NewUserStatistic = UserFor(R, {})
      BY StatOfNone
    <3> QED
      BY <1>1, <3>1, SumOfNone
  <2>5. DayTotal(c, direction, metric)
          = IF "total" \in DOMAIN c.from THEN Metric(c.from["total"], metric) ELSE 0
    BY <1>2 DEF DayTotal
  <2> QED
    BY <1>2, <2>3, <2>4, <2>5 DEF EntryOf, RowsOnSide, f
<1>3. CASE direction = "to"
  <2> DEFINE P == PairsOf("to", R, J)
             S == KeysIn(P)
             v == [a \in S |-> Metric(c.to[a], metric)]
  <2>0. P = PairsOf(SideOf(direction), R, J)
    BY <1>3 DEF SideOf
  <2> HIDE DEF P
  <2>1. Tagged(R, P) /\ Once(P) /\ RowsAt(P, S) = RowsOnSide(direction, R, J)
    BY <2>0, SidesPaired
  <2>2. P \cup {} = P
    OBVIOUS
  <2>3. c.to = MapOf("users", R, P, {})
    BY CacheRows DEF P
  <2>4. DOMAIN c.to = S /\ \A a \in S : c.to[a] = UserFor(R, RowsIn(R, P, a))
    BY <2>2, <2>3 DEF MapOf, StatOf
  <2>5. \A a \in S : v[a] = SumOver(f, RowsIn(R, P, a))
    BY <1>1, <2>4 DEF RowsIn
  <2>6. DOMAIN c.to \ {"total"} = S
    <3>1. \A a \in S : a # "total"
      BY NoneIsTotal DEF KeysIn, P
    <3> QED
      BY <2>4, <3>1
  <2>7. DayTotal(c, direction, metric) = SumOver(v, S)
    BY <1>3, <2>6 DEF DayTotal, Total
  <2>8. SumOver(v, S) = SumOver(f, RowsAt(P, S))
    <3> HIDE DEF S, v
    <3>1. S \subseteq KeysIn(P)
      BY DEF S
    <3> QED
      BY <1>1, <2>1, <2>5, <3>1, EntriesAddUp
  <2> QED
    BY <2>1, <2>7, <2>8 DEF f
<1> QED
  BY <1>2, <1>3

\* The total of the window is that of all its rows.
LEMMA TransferTotalIs ==
  ASSUME NEW R, NEW at, WindowState(R, at), NEW direction \in {"from", "to"}, NEW metric \in Metrics
  PROVE  TransferTotal(direction, metric)
           = SumOver(RankFigure(R, metric), RowsOnSide(direction, R, KeptIn(R)))
<1> DEFINE f == RankFigure(R, metric)
           n == Len(days)
           J == DayRows(days, at)
           D == [d \in 1..n |-> RowsOnSide(direction, R, J[d])]
           sums == [d \in 1..n |-> DayTotal(tables[d], direction, metric)]
<1>1. /\ Indexed(R) /\ n \in Nat /\ DOMAIN J = 1..n /\ DOMAIN tables = 1..n
      /\ Apart(J, n) /\ UpTo(J, n) = KeptIn(R) /\ KeptIn(R) \in SUBSET DOMAIN R
      /\ \A d \in 1..n : CacheOf(tables[d], R, J[d]) /\ J[d] \in SUBSET DOMAIN R
  BY WindowRows
<1>2. TransferTotal(direction, metric) = SumOver(sums, 1..n)
  BY <1>1 DEF TransferTotal, Total
<1> HIDE DEF n, J
<1>3. f \in FiguresOf(R)
  BY <1>1, MetricIs
<1> HIDE DEF f
<1>4. \A d \in 1..n : sums[d] = SumOver(f, D[d])
  BY <1>1, DayTotalIs DEF f
<1>5. \A d \in 1..n : D[d] \subseteq J[d] /\ D[d] \in SUBSET DOMAIN R
  BY <1>1 DEF RowsOnSide, Arrived
<1>6. IsFiniteSet(1..n)
  <2>1. n \in Int /\ 1 \in Int
    BY <1>1
  <2> QED
    BY <2>1, FS_Interval
<1>7. \A d \in 1..n : Amounts(f, D[d])
  BY <1>1, <1>3, <1>5, FigureSums
<1>8. \A d, e \in 1..n : d # e => D[d] \cap D[e] = {}
  BY <1>1, <1>5 DEF Apart
<1>9. Members(D, 1..n) = RowsOnSide(direction, R, UpTo(J, n))
  <2>1. CASE direction = "to"
    <3>1. \A d \in 1..n : D[d] = Arrived(R, J[d])
      BY <2>1 DEF RowsOnSide
    <3> HIDE DEF D
    <3> QED
      BY <2>1, <3>1 DEF RowsOnSide, Members, UpTo, Arrived
  <2>2. CASE direction # "to"
    <3>1. \A d \in 1..n : D[d] = J[d]
      BY <2>2 DEF RowsOnSide
    <3> HIDE DEF D
    <3> QED
      BY <2>2, <3>1 DEF RowsOnSide, Members, UpTo
  <2> QED
    BY <2>1, <2>2
<1> HIDE DEF D, sums
<1>10. Grouped(f, 1..n, D, sums)
  BY <1>4, <1>6, <1>7, <1>8 DEF Grouped
<1>11. SumOver(sums, 1..n) = SumOver(f, Members(D, 1..n))
  BY <1>10, SumOfSums
<1> QED
  BY <1>1, <1>2, <1>9, <1>11 DEF f

\* What the ranking of a direction is made of, and when no day's pool is cut.
Exact(direction) == IF direction = "to" THEN ToStatistic ELSE FromStatistic
NotCut(direction, n) ==
    \A d \in DOMAIN tables : Cardinality(DOMAIN Rows(tables[d], direction)) <= CandidateK(n)

\* A pool has rows of every day, and as many as there are or as are asked for.
PoolSizes(direction, n, pool) ==
    /\ DOMAIN pool = 1..Len(tables)
    /\ \A d \in DOMAIN pool :
          LET S == DOMAIN Rows(tables[d], direction)
          IN  /\ pool[d] \subseteq S
              /\ Cardinality(pool[d]) = IF Cardinality(S) < CandidateK(n) THEN Cardinality(S)
                                        ELSE CandidateK(n)

LEMMA PoolIs ==
  ASSUME NEW direction, NEW metric, NEW n, NEW pool \in Pools(direction, metric, n)
  PROVE  PoolSizes(direction, n, pool)
<1>1. /\ pool \in [1..Len(tables) -> SUBSET Addrs]
      /\ \A d \in DOMAIN pool :
            LET rows == Rows(tables[d], direction)
            IN  IsTop(pool[d], LAMBDA a : Metric(rows[a], metric), DOMAIN rows, CandidateK(n))
  BY Zenon DEF Pools
<1>2. DOMAIN pool = 1..Len(tables)
  BY <1>1
<1>3. \A d \in DOMAIN pool :
         /\ pool[d] \subseteq DOMAIN Rows(tables[d], direction)
         /\ Cardinality(pool[d]) = IF Cardinality(DOMAIN Rows(tables[d], direction)) < CandidateK(n)
                                   THEN Cardinality(DOMAIN Rows(tables[d], direction))
                                   ELSE CandidateK(n)
  BY <1>1 DEF IsTop
<1> QED
  BY <1>2, <1>3, Zenon DEF PoolSizes

\* There are finitely many keys.
LEMMA KeysFinite ==
  ASSUME NEW R, Indexed(R), NEW P, Tagged(R, P), Once(P)
  PROVE  IsFiniteSet(KeysIn(P))
<1> DEFINE f == OneEach(R)
           S == KeysIn(P)
           sums == [a \in S |-> SumOver(f, RowsIn(R, P, a))]
<1>1. f \in FiguresOf(R)
  BY FiguresType
<1>2. \A a \in S : sums[a] = SumOver(f, RowsIn(R, P, a))
  OBVIOUS
<1>3. S \subseteq KeysIn(P)
  OBVIOUS
<1> HIDE DEF f, S, sums
<1>4. IsFiniteSet(S)
  BY <1>1, <1>2, <1>3, EntriesAddUp
<1> QED
  BY <1>4 DEF S

\* The days of a window, the rows of a direction.
LEMMA DirectionMaps ==
  ASSUME NEW R, NEW at, WindowState(R, at), NEW n, n = Len(days), NEW J, J = DayRows(days, at),
         NEW direction \in {"from", "to"}
  PROVE  /\ Exact(direction) = MapOf("users", R, PairsOf(SideOf(direction), R, KeptIn(R)), {})
         /\ \A d \in 1..n :
               /\ Rows(tables[d], direction) = MapOf("users", R, PairsOf(SideOf(direction), R, J[d]), {})
               /\ DOMAIN Rows(tables[d], direction) = KeysIn(PairsOf(SideOf(direction), R, J[d]))
               /\ IsFiniteSet(DOMAIN Rows(tables[d], direction))
<1>1. /\ Indexed(R)
      /\ \A d \in 1..n : CacheOf(tables[d], R, J[d]) /\ J[d] \in SUBSET DOMAIN R
  BY WindowRows
<1>2. Exact(direction) = MapOf("users", R, PairsOf(SideOf(direction), R, KeptIn(R)), {})
  <2>1. CASE direction = "to"
    BY <2>1, WindowMaps DEF Exact, SideOf
  <2>2. CASE direction = "from"
    BY <2>2, WindowMaps DEF Exact, SideOf
  <2> QED
    BY <2>1, <2>2
<1>3. ASSUME NEW d \in 1..n
      PROVE  /\ Rows(tables[d], direction) = MapOf("users", R, PairsOf(SideOf(direction), R, J[d]), {})
             /\ DOMAIN Rows(tables[d], direction) = KeysIn(PairsOf(SideOf(direction), R, J[d]))
             /\ IsFiniteSet(DOMAIN Rows(tables[d], direction))
  <2> DEFINE P == PairsOf(SideOf(direction), R, J[d])
             c == tables[d]
             K == J[d]
  <2>1. CacheOf(c, R, K) /\ K \in SUBSET DOMAIN R /\ P = PairsOf(SideOf(direction), R, K)
    BY <1>1
  <2> HIDE DEF P, c, K
  <2>2. Rows(c, direction) = MapOf("users", R, P, {}) /\ DOMAIN Rows(c, direction) = KeysIn(P)
    BY <1>1, <2>1, SideMap
  <2>3. Tagged(R, P) /\ Once(P)
    BY <2>1, SidesPaired
  <2>4. IsFiniteSet(KeysIn(P))
    BY <1>1, <2>3, KeysFinite
  <2> QED
    BY <2>2, <2>4 DEF P, c, K
<1> QED
  BY <1>2, <1>3

\* The candidates are users with some of their rows.
LEMMA CandidatesAre ==
  ASSUME NEW R, NEW at, WindowState(R, at), NEW direction \in {"from", "to"}, NEW k,
         NEW pool, PoolSizes(direction, k, pool)
  PROVE  \E P : /\ P \in SUBSET PairsOf(SideOf(direction), R, KeptIn(R)) /\ Tagged(R, P)
                /\ TopTransferStats(direction, pool) = MapOf("users", R, P, {})
<1> DEFINE n == Len(days)
           J == DayRows(days, at)
           what == SideOf(direction)
           maps == [d \in DOMAIN tables |-> Restrict(Rows(tables[d], direction), pool[d])]
<1>1. /\ Indexed(R) /\ n \in Nat /\ DOMAIN J = 1..n /\ DOMAIN tables = 1..n
      /\ Apart(J, n) /\ UpTo(J, n) = KeptIn(R) /\ KeptIn(R) \in SUBSET DOMAIN R
  BY WindowRows
<1>2. \A d \in 1..n :
         /\ Rows(tables[d], direction) = MapOf("users", R, PairsOf(what, R, J[d]), {})
         /\ DOMAIN Rows(tables[d], direction) = KeysIn(PairsOf(what, R, J[d]))
  BY DirectionMaps
<1>3. TopTransferStats(direction, pool) = MergedFor("users", maps)
  BY DEF TopTransferStats, MergedFor
<1>4. DOMAIN maps = 1..n /\ \A d \in 1..n : maps[d] = Restrict(Rows(tables[d], direction), pool[d])
  BY <1>1
<1>5. what \in PairKinds
  BY DEF SideOf, PairKinds
<1> HIDE DEF n, J, what, maps
<1>6. DOMAIN pool = 1..n
  <2>1. Len(tables) = n
    BY <1>1 DEF PoolSizes
  <2> QED
    BY <2>1 DEF PoolSizes
<1>7. CutMaps(R, J, n, what, pool, maps)
  <2>1. \A d \in 1..n : pool[d] \subseteq KeysIn(PairsOf(what, R, J[d]))
    BY <1>2, <1>6 DEF PoolSizes
  <2> QED
    BY <1>2, <1>4, <2>1 DEF CutMaps
<1>8. \E P : /\ P \in SUBSET PairsOf(what, R, UpTo(J, n)) /\ Tagged(R, P)
             /\ MergedFor("users", maps) = MapOf("users", R, P, {})
  BY <1>1, <1>5, <1>7, CutWindow
<1> QED
  BY <1>1, <1>3, <1>8 DEF what

\* When no pool is cut, the candidates are all users with all their rows.
LEMMA UncutIsExact ==
  ASSUME NEW R, NEW at, WindowState(R, at), NEW direction \in {"from", "to"}, NEW k \in Nat,
         NEW pool, PoolSizes(direction, k, pool), NotCut(direction, k)
  PROVE  TopTransferStats(direction, pool) = Exact(direction)
<1> DEFINE n == Len(days)
           J == DayRows(days, at)
           what == SideOf(direction)
           maps == [d \in DOMAIN tables |-> Restrict(Rows(tables[d], direction), pool[d])]
<1>1. /\ Indexed(R) /\ n \in Nat /\ DOMAIN J = 1..n /\ DOMAIN tables = 1..n
      /\ Apart(J, n) /\ UpTo(J, n) = KeptIn(R) /\ KeptIn(R) \in SUBSET DOMAIN R
  BY WindowRows
<1>2. /\ Exact(direction) = MapOf("users", R, PairsOf(what, R, KeptIn(R)), {})
      /\ \A d \in 1..n :
            /\ Rows(tables[d], direction) = MapOf("users", R, PairsOf(what, R, J[d]), {})
            /\ IsFiniteSet(DOMAIN Rows(tables[d], direction))
  BY DirectionMaps
<1>3. TopTransferStats(direction, pool) = MergedFor("users", maps)
  BY DEF TopTransferStats, MergedFor
<1>4. DOMAIN maps = 1..n /\ \A d \in 1..n : maps[d] = Restrict(Rows(tables[d], direction), pool[d])
  BY <1>1
<1>5. what \in PairKinds /\ "none" \in PairKinds /\ "users" \in MapKinds
  BY DEF SideOf, PairKinds, MapKinds
<1>6. \A K : PairsOf("none", R, K) = {}
  BY DEF PairsOf
<1> HIDE DEF n, J, what, maps
<1>7. DOMAIN pool = 1..n
  <2>1. Len(tables) = n
    BY <1>1 DEF PoolSizes
  <2> QED
    BY <2>1 DEF PoolSizes
<1>8. ASSUME NEW d \in 1..n
      PROVE  maps[d] = Rows(tables[d], direction)
  <2> DEFINE rows == Rows(tables[d], direction)
             S == DOMAIN rows
  <2>1. IsFiniteSet(S) /\ Cardinality(S) \in Nat
    BY <1>2, FS_CardinalityType
  <2>2. /\ pool[d] \subseteq S
        /\ Cardinality(pool[d]) = IF Cardinality(S) < CandidateK(k) THEN Cardinality(S)
                                  ELSE CandidateK(k)
    BY <1>7 DEF PoolSizes
  <2>3. Cardinality(S) <= CandidateK(k) /\ CandidateK(k) \in Nat
    BY <1>1, PoolAssumption DEF NotCut, CandidateK
  <2>4. pool[d] = S
    <3> HIDE DEF S
    <3>1. Cardinality(pool[d]) = Cardinality(S)
      BY <2>1, <2>2, <2>3
    <3> QED
      BY <2>1, <2>2, <3>1, FS_Subset
  <2>5. rows = [a \in S |-> rows[a]]
    BY Zenon DEF Rows, Without, Restrict
  <2>6. maps[d] = [a \in S |-> rows[a]]
    BY <1>4, <2>4 DEF Restrict
  <2> QED
    BY <2>5, <2>6
<1>9. DailyMaps("users", R, maps, n, J, what, "none")
  BY <1>2, <1>4, <1>6, <1>8 DEF DailyMaps
<1>10. MergedFor("users", maps)
         = MapOf("users", R, PairsOf(what, R, UpTo(J, n)), PairsOf("none", R, UpTo(J, n)))
  BY <1>1, <1>5, <1>9, MergedWindow
<1> QED
  BY <1>1, <1>2, <1>3, <1>6, <1>10

\* Entries of a part of a map have together no more than all rows have.
LEMMA PartIsNoMore ==
  ASSUME NEW R, Indexed(R), NEW K \in SUBSET DOMAIN R, NEW direction \in {"from", "to"},
         NEW P \in SUBSET PairsOf(SideOf(direction), R, K), NEW S \in SUBSET KeysIn(P),
         NEW f \in FiguresOf(R), NEW v, \A a \in S : v[a] = SumOver(f, RowsIn(R, P, a))
  PROVE  SumOver(v, S) <= SumOver(f, RowsOnSide(direction, R, K))
<1> DEFINE Q == PairsOf(SideOf(direction), R, K)
           A == RowsOnSide(direction, R, K)
<1>1. Tagged(R, Q) /\ Once(Q) /\ RowsAt(Q, KeysIn(Q)) = A
  BY SidesPaired
<1>2. P \subseteq Q /\ S \subseteq KeysIn(P)
  OBVIOUS
<1>3. A \in SUBSET DOMAIN R
  BY DEF RowsOnSide, Arrived
<1> HIDE DEF Q, A
<1>4. Tagged(R, P) /\ Once(P)
  BY <1>1, <1>2 DEF Tagged, Once
<1>5. SumOver(v, S) = SumOver(f, RowsAt(P, S))
  BY <1>2, <1>4, EntriesAddUp
<1>6. RowsAt(P, S) \subseteq A
  <2>1. ASSUME NEW p \in P, p[1] \in S PROVE p[2] \in RowsAt(Q, KeysIn(Q))
    BY <1>2 DEF RowsAt, Within, KeysIn
  <2>2. RowsAt(P, S) \subseteq RowsAt(Q, KeysIn(Q))
    BY <2>1 DEF RowsAt, Within
  <2> QED
    BY <1>1, <2>2
<1>7. Amounts(f, A)
  BY <1>3, FigureSums
<1>8. SumOver(f, RowsAt(P, S)) <= SumOver(f, A)
  BY <1>6, <1>7, SumOfPart
<1> QED
  BY <1>5, <1>8 DEF A

\* The property's bounds on one ranking.
ShareRight(direction, metric, n, pool) ==
    LET exact == Exact(direction)
        candidates == TopTransferStats(direction, pool)
        top == Concentration(candidates, metric, n)
    IN  /\ \A a \in top.list : Metric(candidates[a], metric) <= Metric(exact[a], metric)
        /\ top.topNSum <= TransferTotal(direction, metric)
        /\ NotCut(direction, n) => (top.topNSum = Concentration(exact, metric, n).topNSum)

LEMMA SharesAre ==
  ASSUME NEW R, NEW at, WindowState(R, at), NEW direction \in {"from", "to"},
         NEW metric \in Metrics, NEW n \in Nat, NEW pool \in Pools(direction, metric, n)
  PROVE  ShareRight(direction, metric, n, pool)
<1> DEFINE c == TopTransferStats(direction, pool)
           all == Exact(direction)
           top == Concentration(c, metric, n)
           v == MetricsOf(c, metric)
           f == RankFigure(R, metric)
           K == KeptIn(R)
           Q == PairsOf(SideOf(direction), R, K)
<1>1. PoolSizes(direction, n, pool)
  BY PoolIs
<1>2. PICK P : P \in SUBSET Q /\ Tagged(R, P) /\ c = MapOf("users", R, P, {})
  BY <1>1, CandidatesAre
<1>3. Indexed(R) /\ K \in SUBSET DOMAIN R
  BY WindowRows
<1>4. all = MapOf("users", R, Q, {})
  BY DirectionMaps
<1>5. Tagged(R, Q) /\ Once(Q)
  BY <1>3, SidesPaired
<1>6. NotCut(direction, n) => c = all
  BY <1>1, UncutIsExact
<1>7. f \in FiguresOf(R)
  BY <1>3, MetricIs
<1>8. \A a \in DOMAIN c : v[a] = Metric(c[a], metric)
  BY DEF MetricsOf
<1> HIDE DEF c, all, v, f, K, Q
<1>9. /\ DOMAIN c = KeysIn(P)
      /\ \A a \in DOMAIN c : Metric(c[a], metric) = SumOver(f, RowsIn(R, P, a))
      /\ \A a \in DOMAIN c : Metric(c[a], metric) <= Metric(all[a], metric)
  BY <1>2, <1>3, <1>4, <1>5, PartsAreLess DEF f
<1>10. Once(P)
  BY <1>2, <1>5 DEF Once
<1>11. IsFiniteSet(DOMAIN c)
  BY <1>2, <1>3, <1>9, <1>10, KeysFinite
<1>12. \A a \in DOMAIN c : v[a] \in Nat /\ v[a] = SumOver(f, RowsIn(R, P, a))
  <2>1. \A a : RowsIn(R, P, a) \in SUBSET DOMAIN R
    BY DEF RowsIn
  <2>2. \A a : SumOver(f, RowsIn(R, P, a)) \in Nat
    BY <1>3, <1>7, <2>1, FigureSums
  <2> QED
    BY <1>8, <1>9, <2>2
<1>13. top.list \in SUBSET DOMAIN c /\ top.topNSum = SumOver(v, top.list)
  BY <1>11, <1>12, ConcentrationIs DEF v
<1> HIDE DEF top
<1>14. SumOver(v, top.list) <= SumOver(f, RowsOnSide(direction, R, K))
  <2>1. top.list \in SUBSET KeysIn(P) /\ \A a \in top.list : v[a] = SumOver(f, RowsIn(R, P, a))
    BY <1>9, <1>12, <1>13
  <2>2. P \in SUBSET PairsOf(SideOf(direction), R, K)
    BY <1>2 DEF Q
  <2> QED
    BY <1>3, <1>7, <2>1, <2>2, PartIsNoMore
<1>15. TransferTotal(direction, metric) = SumOver(f, RowsOnSide(direction, R, K))
  BY TransferTotalIs DEF f, K
<1>16. top.topNSum <= TransferTotal(direction, metric)
  BY <1>13, <1>14, <1>15
<1>17. \A a \in top.list : Metric(c[a], metric) <= Metric(all[a], metric)
  BY <1>9, <1>13
<1>18. NotCut(direction, n) => (top.topNSum = Concentration(all, metric, n).topNSum)
  BY <1>6 DEF top
<1> QED
  BY <1>16, <1>17, <1>18, Zenon DEF ShareRight, top, c, all

\* Whatever the rows are and whichever of equal entries the pools take, nobody is shown with
\* more than he has, the largest together have no more than the network's total, and the
\* ranking is the true one if no day's pool was cut.
THEOREM SharesAreShares == ScanSpec => []SharesOfTotal
<1>1. WindowInv => SharesOfTotal
  <2> SUFFICES ASSUME WindowInv, WindowDone PROVE SharesOfTotal
    BY DEF SharesOfTotal
  <2>1. PICK at : WindowState(FlattenSeq(days), at)
    BY WindowNumbered
  <2>2. ASSUME NEW direction \in {"from", "to"}, NEW metric \in Metrics, NEW n \in 1..2,
               NEW pool \in Pools(direction, metric, n)
        PROVE  ShareRight(direction, metric, n, pool)
    <3>1. n \in Nat
      OBVIOUS
    <3> QED
      BY <2>1, <3>1, SharesAre
  <2> QED
    BY <2>2, Zenon DEF SharesOfTotal, ShareRight, Exact, NotCut
<1>2. WindowInv /\ [ScanNext]_scanVars => WindowInv'
  BY StepWindow
<1> QED
  BY <1>1, <1>2, InitWindow, PTL DEF ScanSpec

-----------------------------------------------------------------------------
(* The reports of exchanges.  Every figure that a report shows is a sum of *)
(* figures of the rows of tables.  A map of statistics has a sum for each  *)
(* flow and figure, and merging maps adds their sums; so the rows of all   *)
(* tokens and the rows by token can be followed day by day.                *)

FigAt(flow, what, m, k) == IF k \in DOMAIN m THEN Fig(flow, what, m[k]) ELSE 0
FigsIn(flow, what, m) == [k \in DOMAIN m |-> Fig(flow, what, m[k])]
FigSum(flow, what, m) == SumOver(FigsIn(flow, what, m), DOMAIN m)

\* Figures are natural numbers, and the figures that are shown are these two.
LEMMA FigType ==
  ASSUME NEW s, s \in ExchangeStat, NEW flow \in FlowNames, NEW what \in FiguresShown
  PROVE  /\ Fig(flow, what, s) \in Nat
         /\ Fig(flow, "txs", s) = s[flow].txs /\ Fig(flow, "Fee", s) = s[flow].cost["Fee"]
<1>1. s[flow] \in Flow
  BY DEF ExchangeStat, FlowNames
<1>2. what \in Figures
  BY DEF FiguresShown, Figures, Costs
<1>3. Fig(flow, what, s) \in Nat
  BY <1>1, <1>2, FigureType DEF Fig
<1> QED
  BY <1>3 DEF Fig, Figure, Costs

\* Two statistics merged.
LEMMA StatsMerge ==
  ASSUME NEW s, StatFit(s), NEW o, StatFit(o)
  PROVE  LET t == ExchangeMerge(s, o)
         IN  /\ StatFit(t)
             /\ \A flow \in FlowNames, what \in FiguresShown :
                   Fig(flow, what, t) = Fig(flow, what, s) + Fig(flow, what, o)
             /\ t.totalFee = s.totalFee + o.totalFee
             /\ t.activationFee = s.activationFee + o.activationFee
<1> DEFINE t == ExchangeMerge(s, o)
<1>1. \A f \in Flow, g \in Flow : /\ FlowMerge(f, g) \in Flow /\ FlowMerge(f, g).txs = f.txs + g.txs
                                 /\ FlowMerge(f, g).cost["Fee"] = f.cost["Fee"] + g.cost["Fee"]
  BY DEF Flow, FlowMerge, Plus, Costs
<1>2. /\ s \in ExchangeStat /\ o \in ExchangeStat
      /\ \A flow \in FlowNames : s[flow] \in Flow /\ o[flow] \in Flow
  BY DEF StatFit, ExchangeStat, FlowNames
<1>3. \A flow \in FlowNames : t[flow] = FlowMerge(s[flow], o[flow])
  BY DEF ExchangeMerge, FlowNames
<1>4. t \in ExchangeStat
  BY <1>1, <1>2, <1>3 DEF ExchangeMerge, ExchangeStat, FlowNames
<1>5. /\ t.totalFee = s.totalFee + o.totalFee
      /\ t.activationFee = s.activationFee + o.activationFee
  BY DEF ExchangeMerge
<1> HIDE DEF t
<1>6. \A flow \in FlowNames : /\ t[flow].txs = s[flow].txs + o[flow].txs
                             /\ t[flow].cost["Fee"] = s[flow].cost["Fee"] + o[flow].cost["Fee"]
                             /\ s[flow].txs \in Nat /\ o[flow].txs \in Nat
                             /\ s[flow].cost["Fee"] \in Nat /\ o[flow].cost["Fee"] \in Nat
  <2>1. \A f \in Flow : f.txs \in Nat /\ f.cost["Fee"] \in Nat
    BY DEF Flow, Costs
  <2> QED
    BY <1>1, <1>2, <1>3, <2>1
<1>7. StatFit(t)
  BY <1>4, <1>6 DEF StatFit
<1>8. \A flow \in FlowNames, what \in FiguresShown :
         Fig(flow, what, t) = Fig(flow, what, s) + Fig(flow, what, o)
  BY <1>2, <1>4, <1>6, FigType DEF FiguresShown
<1> QED
  BY <1>5, <1>7, <1>8 DEF t

\* A sum over a map is one over any set that holds the map's domain.
LEMMA FigSums ==
  ASSUME NEW m, MapFit(m), NEW flow \in FlowNames, NEW what \in FiguresShown
  PROVE  /\ Amounts(FigsIn(flow, what, m), DOMAIN m) /\ FigSum(flow, what, m) \in Nat
         /\ \A k : FigAt(flow, what, m, k) \in Nat
         /\ \A S, f : IsFiniteSet(S) /\ DOMAIN m \subseteq S
                        /\ (\A k \in S : f[k] = FigAt(flow, what, m, k))
                      => Amounts(f, S) /\ SumOver(f, S) = FigSum(flow, what, m)
<1> DEFINE D == DOMAIN m
           g == FigsIn(flow, what, m)
<1>1. /\ IsFiniteSet(D) /\ \A k \in D : g[k] = Fig(flow, what, m[k])
      /\ \A k \in D : Fig(flow, what, m[k]) \in Nat
  BY FigType DEF MapFit, StatFit, FigsIn
<1>2. \A k : FigAt(flow, what, m, k) = IF k \in D THEN g[k] ELSE 0
  BY <1>1 DEF FigAt
<1>3. FigSum(flow, what, m) = SumOver(g, D)
  BY DEF FigSum
<1> HIDE DEF D, g
<1>4. Amounts(g, D)
  BY <1>1 DEF Amounts
<1>5. ASSUME NEW S, NEW f, IsFiniteSet(S), D \subseteq S,
             \A k \in S : f[k] = FigAt(flow, what, m, k)
      PROVE  Amounts(f, S) /\ SumOver(f, S) = SumOver(g, D)
  <2>1. /\ \A k \in D : f[k] = g[k]
        /\ \A k \in S \ D : f[k] = 0
    BY <1>2, <1>5
  <2>2. Amounts(f, S)
    BY <1>4, <1>5, <2>1 DEF Amounts
  <2>3. SumOver(f, D) = SumOver(f, S)
    BY <1>5, <2>1, <2>2, SumOfPart
  <2>4. SumOver(f, D) = SumOver(g, D)
    BY <1>4, <2>1, SumOfEqual
  <2> QED
    BY <2>2, <2>3, <2>4
<1>6. SumOver(g, D) \in Nat /\ \A k : FigAt(flow, what, m, k) \in Nat
  BY <1>1, <1>2, <1>4, SumType
<1> QED
  BY <1>3, <1>4, <1>5, <1>6 DEF D, g

\* Merging maps adds their figures.
BothAdd(f, g, m) ==
    /\ DOMAIN m = DOMAIN f \cup DOMAIN g /\ MapFit(m)
    /\ \A flow \in FlowNames, what \in FiguresShown :
          /\ \A k : FigAt(flow, what, m, k) = FigAt(flow, what, f, k) + FigAt(flow, what, g, k)
          /\ FigSum(flow, what, m) = FigSum(flow, what, f) + FigSum(flow, what, g)

LEMMA MapsMerge == \A f, g : MapFit(f) /\ MapFit(g) => BothAdd(f, g, ExchangesMerged(f, g))
<1> SUFFICES ASSUME NEW f, MapFit(f), NEW g, MapFit(g) PROVE BothAdd(f, g, ExchangesMerged(f, g))
  OBVIOUS
<1>0. PICK m : m = ExchangesMerged(f, g)
  OBVIOUS
<1> DEFINE S == DOMAIN f \cup DOMAIN g
<1>1. DOMAIN m = S
  BY <1>0 DEF MergedInto, ExchangesMerged
<1>2. ASSUME NEW k \in S
      PROVE  m[k] = (IF k \notin DOMAIN g THEN f[k]
                     ELSE IF k \notin DOMAIN f THEN g[k] ELSE ExchangeMerge(f[k], g[k]))
  BY <1>0 DEF MergedInto, ExchangesMerged
<1>3. /\ IsFiniteSet(S) /\ \A k \in DOMAIN f : StatFit(f[k])
      /\ \A k \in DOMAIN g : StatFit(g[k])
  BY FS_Union DEF MapFit
<1>4. MapFit(m)
  <2> SUFFICES ASSUME NEW k \in S PROVE StatFit(m[k])
    BY <1>1, <1>3 DEF MapFit
  <2>1. CASE k \in DOMAIN f /\ k \in DOMAIN g
    BY <1>2, <1>3, <2>1, StatsMerge
  <2>2. CASE ~(k \in DOMAIN f /\ k \in DOMAIN g)
    BY <1>2, <1>3, <2>2
  <2> QED
    BY <2>1, <2>2
<1>5. ASSUME NEW flow \in FlowNames, NEW what \in FiguresShown
      PROVE  /\ \A k : FigAt(flow, what, m, k) = FigAt(flow, what, f, k) + FigAt(flow, what, g, k)
             /\ FigSum(flow, what, m) = FigSum(flow, what, f) + FigSum(flow, what, g)
  <2>1. ASSUME NEW k
        PROVE  FigAt(flow, what, m, k) = FigAt(flow, what, f, k) + FigAt(flow, what, g, k)
    <3>0. FigAt(flow, what, f, k) \in Nat /\ FigAt(flow, what, g, k) \in Nat
      BY FigSums
    <3>1. CASE k \in DOMAIN f /\ k \in DOMAIN g
      <4>1. m[k] = ExchangeMerge(f[k], g[k])
        BY <1>2, <3>1
      <4>2. Fig(flow, what, m[k]) = Fig(flow, what, f[k]) + Fig(flow, what, g[k])
        BY <1>3, <3>1, <4>1, StatsMerge
      <4> QED
        BY <1>1, <3>1, <4>2, Zenon DEF FigAt
    <3>2. CASE k \in DOMAIN f /\ k \notin DOMAIN g
      <4>1. m[k] = f[k] /\ k \in DOMAIN m
        BY <1>1, <1>2, <3>2
      <4>2. FigAt(flow, what, m, k) = FigAt(flow, what, f, k) /\ FigAt(flow, what, g, k) = 0
        BY <3>2, <4>1, Zenon DEF FigAt
      <4> QED
        BY <3>0, <4>2
    <3>3. CASE k \notin DOMAIN f /\ k \in DOMAIN g
      <4>1. m[k] = g[k] /\ k \in DOMAIN m
        BY <1>1, <1>2, <3>3
      <4>2. FigAt(flow, what, m, k) = FigAt(flow, what, g, k) /\ FigAt(flow, what, f, k) = 0
        BY <3>3, <4>1, Zenon DEF FigAt
      <4> QED
        BY <3>0, <4>2
    <3>4. CASE k \notin DOMAIN f /\ k \notin DOMAIN g
      BY <1>1, <3>4 DEF FigAt
    <3> QED
      BY <3>1, <3>2, <3>3, <3>4
  <2> DEFINE p == [k \in S |-> FigAt(flow, what, f, k)]
             q == [k \in S |-> FigAt(flow, what, g, k)]
             h == [k \in S |-> FigAt(flow, what, m, k)]
  <2>2. Amounts(p, S) /\ SumOver(p, S) = FigSum(flow, what, f)
    BY <1>3, FigSums
  <2>3. Amounts(q, S) /\ SumOver(q, S) = FigSum(flow, what, g)
    BY <1>3, FigSums
  <2>4. Amounts(h, S) /\ SumOver(h, S) = FigSum(flow, what, m)
    BY <1>1, <1>3, <1>4, FigSums
  <2>5. AddUp(p, q, h, S)
    BY <2>1 DEF AddUp
  <2> HIDE DEF p, q, h, S
  <2>6. SumOver(h, S) = SumOver(p, S) + SumOver(q, S)
    BY <2>2, <2>3, <2>5, SumOfPlus
  <2> QED
    BY <2>1, <2>2, <2>3, <2>4, <2>6
<1> QED
  BY <1>0, <1>1, <1>4, <1>5 DEF BothAdd

\* Induction over sets, taken apart as the folds do it.
LEMMA ChosenInduction ==
  ASSUME NEW S, IsFiniteSet(S), NEW P, {} \in P,
         \A s \in SUBSET S : s # {} /\ s \ {AnyOf(s)} \in P => s \in P
  PROVE  S \in P
<1> DEFINE Bad == {s \in SUBSET S : s \notin P}
           Sizes == {Cardinality(s) : s \in Bad}
<1>1. \A s \in SUBSET S : s # {} => AnyOf(s) \in s
  BY DEF AnyOf
<1>3. \A s \in SUBSET S : IsFiniteSet(s) /\ Cardinality(s) \in Nat
  BY FS_Subset, FS_CardinalityType
<1>4. Bad = {}
  <2> SUFFICES ASSUME Bad # {} PROVE FALSE
    OBVIOUS
  <2>1. Sizes \subseteq Nat /\ Sizes # {}
    BY <1>3
  <2>2. PICK m \in Sizes : \A k \in Sizes : m <= k
    <3> HIDE DEF Sizes
    <3> QED
      BY <2>1, LeastElement
  <2>3. PICK s \in Bad : m = Cardinality(s)
    BY <2>2
  <2>4. s # {}
    OBVIOUS
  <2> DEFINE t == s \ {AnyOf(s)}
  <2>5. AnyOf(s) \in s /\ t \in SUBSET S
    BY <1>1, <2>4
  <2>6. Cardinality(t) = Cardinality(s) - 1
    BY <1>3, <2>5, FS_RemoveElement
  <2>7. t \notin Bad
    BY <1>3, <2>1, <2>2, <2>3, <2>6
  <2> QED
    BY <2>4, <2>5, <2>7
<1> QED
  BY <1>4

\* There is a function that is as the fold over a finite set.
LEMMA IteratedExists ==
  ASSUME NEW kind, NEW base, NEW f, NEW S, IsFiniteSet(S)
  PROVE  \E h : Iterated(kind, base, f, S, h)
<1> DEFINE Small(k) == {s \in SUBSET S : Cardinality(s) <= k}
           Step(h, s) == MergedWith(kind, f[AnyOf(s)], h[s \ {AnyOf(s)}])
           Eq(h, k) == h = [s \in Small(k) |-> IF s = {} THEN base ELSE Step(h, s)]
           P == {k \in Nat : \E h : Eq(h, k)}
<1>1. \A s \in SUBSET S : IsFiniteSet(s) /\ Cardinality(s) \in Nat
  BY FS_Subset, FS_CardinalityType
<1>2. \A s \in SUBSET S : s # {} => /\ AnyOf(s) \in s /\ s \ {AnyOf(s)} \in SUBSET S
                                    /\ Cardinality(s \ {AnyOf(s)}) = Cardinality(s) - 1
  <2>1. \A s \in SUBSET S : s # {} => AnyOf(s) \in s
    BY DEF AnyOf
  <2> QED
    BY <1>1, <2>1, FS_RemoveElement
<1>3. Cardinality({}) = 0
  BY FS_EmptySet
<1>4. 0 \in P
  <2> DEFINE h == [s \in Small(0) |-> base]
  <2>1. \A s \in Small(0) : s = {}
    BY <1>1, FS_EmptySet
  <2>2. Eq(h, 0)
    BY <2>1
  <2> QED
    BY <2>2
<1>5. ASSUME NEW k \in Nat, k \in P
      PROVE  k + 1 \in P
  <2>1. PICK g : Eq(g, k)
    BY <1>5
  <2> DEFINE h == [s \in Small(k + 1) |-> IF s = {} THEN base ELSE Step(g, s)]
  <2>2. \A s \in Small(k + 1) : s # {} => /\ s \ {AnyOf(s)} \in Small(k)
                                          /\ s \ {AnyOf(s)} \in Small(k + 1)
    BY <1>1, <1>2
  <2>3. \A s \in Small(k) : h[s] = g[s]
    <3>1. \A s \in Small(k) : s \in Small(k + 1)
      BY <1>1
    <3>2. \A s \in Small(k) : g[s] = IF s = {} THEN base ELSE Step(g, s)
      BY <2>1
    <3> HIDE DEF Small, Step
    <3> QED
      BY <3>1, <3>2
  <2>4. \A s \in Small(k + 1) : s # {} => Step(g, s) = Step(h, s)
    BY <2>2, <2>3
  <2>5. Eq(h, k + 1)
    <3> DEFINE Of(x, s) == IF s = {} THEN base ELSE Step(x, s)
    <3> HIDE DEF Small, Step
    <3>1. \A s \in Small(k + 1) : Of(g, s) = Of(h, s)
      BY <2>4
    <3>2. h = [s \in Small(k + 1) |-> Of(g, s)]
      OBVIOUS
    <3>3. Eq(h, k + 1) <=> h = [s \in Small(k + 1) |-> Of(h, s)]
      OBVIOUS
    <3> HIDE DEF Of, h, Eq
    <3>4. [s \in Small(k + 1) |-> Of(g, s)] = [s \in Small(k + 1) |-> Of(h, s)]
      BY <3>1
    <3> QED
      BY <3>2, <3>3, <3>4
  <2> HIDE DEF Eq
  <2> QED
    BY <2>5
<1>6. Cardinality(S) \in P
  <2> HIDE DEF P
  <2> QED
    BY <1>1, <1>4, <1>5, AllNumbers
<1>7. Small(Cardinality(S)) = SUBSET S
  <2>1. \A s \in SUBSET S : Cardinality(s) <= Cardinality(S)
    BY FS_Subset
  <2> QED
    BY <2>1
<1>8. PICK h : Eq(h, Cardinality(S))
  BY <1>6
<1> HIDE DEF Small
<1> QED
  BY <1>7, <1>8 DEF Iterated

\* Statistics merged.
AllOf(f, S) == MergeAll(S, LAMBDA k : f[k])

\* A fold of statistics is as such a function.
LEMMA MergeAllIs ==
  ASSUME NEW f, NEW S, IsFiniteSet(S)
  PROVE  \E h : /\ Iterated("exchanges", NewExchangeStatistic, f, S, h)
                /\ AllOf(f, S) = h[S]
<1> DEFINE F(h) == [s \in SUBSET S |-> IF s = {} THEN NewExchangeStatistic
                                       ELSE ExchangeMerge(f[CHOOSE x \in s : TRUE],
                                                          h[s \ {CHOOSE x \in s : TRUE}])]
           iter == CHOOSE h : h = F(h)
<1>1. AllOf(f, S) = iter[S]
  BY DEF AllOf, MergeAll, MapThenFoldSet
<1>2. \A h : Iterated("exchanges", NewExchangeStatistic, f, S, h) <=> h = F(h)
  BY DEF Iterated, MergedWith, AnyOf
<1> HIDE DEF F
<1>3. iter = F(iter)
  BY <1>2, IteratedExists
<1> HIDE DEF iter
<1> QED
  BY <1>1, <1>2, <1>3

\* A fold of maps from names to statistics.
AllNames(f, S) == MapThenFoldSet(MergeByName, Empty, LAMBDA e : f[e],
                                 LAMBDA T : CHOOSE x \in T : TRUE, S)

LEMMA AllNamesIs ==
  ASSUME NEW f, NEW S, IsFiniteSet(S)
  PROVE  \E h : Iterated("names", Empty, f, S, h) /\ AllNames(f, S) = h[S]
<1> DEFINE F(h) == [s \in SUBSET S |-> IF s = {} THEN Empty
                                       ELSE MergeByName(f[CHOOSE x \in s : TRUE],
                                                        h[s \ {CHOOSE x \in s : TRUE}])]
           iter == CHOOSE h : h = F(h)
<1>1. AllNames(f, S) = iter[S]
  BY DEF AllNames, MapThenFoldSet
<1>2. \A h : Iterated("names", Empty, f, S, h) <=> h = F(h)
  BY DEF Iterated, MergedWith, AnyOf
<1> HIDE DEF F
<1>3. iter = F(iter)
  BY <1>2, IteratedExists
<1> HIDE DEF iter
<1> QED
  BY <1>1, <1>2, <1>3

\* Statistics merged: their figures add up.
FigOfEach(flow, what, f, S) == [k \in S |-> Fig(flow, what, f[k])]

\* What such a function holds for a part of the set.
Adds(f, S, s, t) ==
    /\ StatFit(t)
    /\ \A flow \in FlowNames, what \in FiguresShown :
          Fig(flow, what, t) = SumOver(FigOfEach(flow, what, f, S), s)

LEMMA MergedAdds ==
  ASSUME NEW f, NEW S, IsFiniteSet(S), \A k \in S : StatFit(f[k]),
         NEW h, Iterated("exchanges", NewExchangeStatistic, f, S, h)
  PROVE  /\ Adds(f, S, S, h[S])
         /\ \A flow \in FlowNames, what \in FiguresShown : Amounts(FigOfEach(flow, what, f, S), S)
<1> DEFINE P == {s \in SUBSET S : Adds(f, S, s, h[s])}
<1>1. \A flow \in FlowNames, what \in FiguresShown : Amounts(FigOfEach(flow, what, f, S), S)
  BY FigType DEF StatFit, FigOfEach, Amounts
<1>2. {} \in P
  <2>1. h[{}] = NewExchangeStatistic
    BY DEF Iterated
  <2> QED
    BY <2>1, NewIsFit, SumOfNone DEF Adds
<1>3. ASSUME NEW s \in SUBSET S, s # {}, s \ {AnyOf(s)} \in P
      PROVE  s \in P
  <2> DEFINE x == AnyOf(s)
             t == s \ {x}
  <2>1. x \in s
    BY <1>3 DEF AnyOf
  <2>2. h[s] = ExchangeMerge(f[x], h[t])
    BY <1>3 DEF Iterated, MergedWith
  <2>3. Adds(f, S, t, h[t]) /\ StatFit(f[x])
    BY <1>3, <2>1
  <2> HIDE DEF x
  <2>4. StatFit(h[s])
    BY <2>2, <2>3, StatsMerge DEF Adds
  <2>5. ASSUME NEW flow \in FlowNames, NEW what \in FiguresShown
        PROVE  Fig(flow, what, h[s]) = SumOver(FigOfEach(flow, what, f, S), s)
    <3> DEFINE g == FigOfEach(flow, what, f, S)
    <3>1. g[x] = Fig(flow, what, f[x]) /\ g[x] \in Nat
      BY <2>1, <2>3, FigType DEF FigOfEach, StatFit
    <3>2. Fig(flow, what, h[s]) = Fig(flow, what, f[x]) + Fig(flow, what, h[t])
      BY <2>2, <2>3, StatsMerge DEF Adds
    <3>3. Fig(flow, what, h[t]) = SumOver(g, t)
      BY <2>3 DEF Adds
    <3>4. Amounts(g, S)
      BY <1>1
    <3> HIDE DEF g
    <3>5. Amounts(g, t) /\ x \notin t /\ t \cup {x} = s
      BY <2>1, <3>4, SumOfPart
    <3> HIDE DEF t
    <3>6. SumOver(g, s) = SumOver(g, t) + g[x] /\ SumOver(g, t) \in Nat
      BY <3>1, <3>5, SumWith, SumType
    <3>7. Fig(flow, what, h[s]) = SumOver(g, s)
      BY <3>1, <3>2, <3>3, <3>6
    <3> QED
      BY <3>7 DEF g
  <2> QED
    BY <2>4, <2>5 DEF Adds
<1>4. S \in P
  <2> HIDE DEF P
  <2> QED
    BY <1>2, <1>3, ChosenInduction
<1> QED
  BY <1>1, <1>4

LEMMA MergedAll ==
  ASSUME NEW f, NEW S, IsFiniteSet(S), \A k \in S : StatFit(f[k])
  PROVE  /\ Adds(f, S, S, AllOf(f, S))
         /\ \A flow \in FlowNames, what \in FiguresShown : Amounts(FigOfEach(flow, what, f, S), S)
<1>1. PICK h : /\ Iterated("exchanges", NewExchangeStatistic, f, S, h)
               /\ AllOf(f, S) = h[S]
  BY MergeAllIs
<1> QED
  BY <1>1, MergedAdds

\* Maps by name, as one exchange has them: none is an empty one.
NamesFit(b) == IsFiniteSet(DOMAIN b) /\ \A e \in DOMAIN b : MapFit(b[e])
NamesAt(b, e) == IF e \in DOMAIN b THEN b[e] ELSE Empty

LEMMA NoMapFit ==
  MapFit(Empty) /\ \A flow, what : FigSum(flow, what, Empty) = 0 /\ \A k : FigAt(flow, what, Empty, k) = 0
<1>1. DOMAIN Empty = {}
  BY DEF Empty
<1> QED
  BY <1>1, SumOfNone, FS_EmptySet DEF MapFit, FigSum, FigAt

NamesBothAdd(f, g, b) ==
    /\ NamesFit(b) /\ DOMAIN b = DOMAIN f \cup DOMAIN g
    /\ \A e : \A flow \in FlowNames, what \in FiguresShown :
          FigSum(flow, what, NamesAt(b, e))
            = FigSum(flow, what, NamesAt(f, e)) + FigSum(flow, what, NamesAt(g, e))

LEMMA NamesMerge == \A f, g : NamesFit(f) /\ NamesFit(g) => NamesBothAdd(f, g, NamesMerged(f, g))
<1> SUFFICES ASSUME NEW f, NamesFit(f), NEW g, NamesFit(g) PROVE NamesBothAdd(f, g, NamesMerged(f, g))
  OBVIOUS
<1>0. PICK b : b = NamesMerged(f, g)
  OBVIOUS
<1> DEFINE S == DOMAIN f \cup DOMAIN g
<1>1. DOMAIN b = S
  BY <1>0 DEF NamesMerged, MergedInto
<1>2. ASSUME NEW e \in S
      PROVE  b[e] = (IF e \notin DOMAIN g THEN f[e]
                     ELSE IF e \notin DOMAIN f THEN g[e] ELSE ExchangesMerged(f[e], g[e]))
  BY <1>0 DEF NamesMerged, MergedInto, MergeByName, ExchangesMerged
<1>3. /\ IsFiniteSet(S) /\ \A e \in DOMAIN f : MapFit(f[e])
      /\ \A e \in DOMAIN g : MapFit(g[e])
  BY FS_Union DEF NamesFit
<1>4. \A e : MapFit(NamesAt(f, e)) /\ MapFit(NamesAt(g, e))
  BY <1>3, NoMapFit DEF NamesAt
<1>5. ASSUME NEW e
      PROVE  /\ MapFit(NamesAt(b, e))
             /\ \A flow \in FlowNames, what \in FiguresShown :
                   FigSum(flow, what, NamesAt(b, e))
                     = FigSum(flow, what, NamesAt(f, e)) + FigSum(flow, what, NamesAt(g, e))
  <2>0. \A flow \in FlowNames, what \in FiguresShown :
           FigSum(flow, what, NamesAt(f, e)) \in Nat /\ FigSum(flow, what, NamesAt(g, e)) \in Nat
    BY <1>4, FigSums
  <2>1. CASE e \in DOMAIN f /\ e \in DOMAIN g
    <3>1. /\ NamesAt(b, e) = ExchangesMerged(f[e], g[e])
          /\ NamesAt(f, e) = f[e] /\ NamesAt(g, e) = g[e]
      BY <1>1, <1>2, <2>1 DEF NamesAt
    <3>2. BothAdd(f[e], g[e], ExchangesMerged(f[e], g[e]))
      BY <1>3, <2>1, MapsMerge
    <3>3. BothAdd(NamesAt(f, e), NamesAt(g, e), NamesAt(b, e))
      BY <3>1, <3>2
    <3> QED
      BY <3>3 DEF BothAdd
  <2>2. CASE e \in DOMAIN f /\ e \notin DOMAIN g
    <3>1. NamesAt(b, e) = NamesAt(f, e) /\ NamesAt(g, e) = Empty
      BY <1>1, <1>2, <2>2 DEF NamesAt
    <3> QED
      BY <1>4, <2>0, <3>1, NoMapFit
  <2>3. CASE e \notin DOMAIN f /\ e \in DOMAIN g
    <3>1. NamesAt(b, e) = NamesAt(g, e) /\ NamesAt(f, e) = Empty
      BY <1>1, <1>2, <2>3 DEF NamesAt
    <3> QED
      BY <1>4, <2>0, <3>1, NoMapFit
  <2>4. CASE e \notin DOMAIN f /\ e \notin DOMAIN g
    <3>1. NamesAt(b, e) = Empty /\ NamesAt(g, e) = Empty /\ NamesAt(f, e) = Empty
      BY <1>1, <2>4 DEF NamesAt
    <3> QED
      BY <3>1, NoMapFit
  <2> QED
    BY <2>1, <2>2, <2>3, <2>4
<1>6. NamesFit(b)
  BY <1>1, <1>3, <1>5 DEF NamesFit, NamesAt
<1> QED
  BY <1>0, <1>1, <1>5, <1>6 DEF NamesBothAdd

\* The names of all exchanges together.
AtEach(flow, what, f, S, k) == [e \in S |-> FigAt(flow, what, f[e], k)]
SumOfEach(flow, what, f, S) == [e \in S |-> FigSum(flow, what, f[e])]
NamesAdd(f, S, s, m) ==
    /\ MapFit(m)
    /\ \A flow \in FlowNames, what \in FiguresShown :
          /\ FigSum(flow, what, m) = SumOver(SumOfEach(flow, what, f, S), s)
          /\ \A k : FigAt(flow, what, m, k) = SumOver(AtEach(flow, what, f, S, k), s)

LEMMA AllNamesAdd ==
  ASSUME NEW f, NEW S, IsFiniteSet(S), \A e \in S : MapFit(f[e])
  PROVE  /\ NamesAdd(f, S, S, AllNames(f, S))
         /\ \A flow \in FlowNames, what \in FiguresShown :
               /\ Amounts(SumOfEach(flow, what, f, S), S)
               /\ \A k : Amounts(AtEach(flow, what, f, S, k), S)
<1>1. PICK h : Iterated("names", Empty, f, S, h) /\ AllNames(f, S) = h[S]
  BY AllNamesIs
<1> DEFINE P == {s \in SUBSET S : NamesAdd(f, S, s, h[s])}
<1>2. \A flow \in FlowNames, what \in FiguresShown :
         /\ Amounts(SumOfEach(flow, what, f, S), S)
         /\ \A k : Amounts(AtEach(flow, what, f, S, k), S)
  BY FigSums DEF SumOfEach, AtEach, Amounts
<1>3. {} \in P
  <2>1. h[{}] = Empty
    BY <1>1 DEF Iterated
  <2> QED
    BY <2>1, NoMapFit, SumOfNone DEF NamesAdd
<1>4. ASSUME NEW s \in SUBSET S, s # {}, s \ {AnyOf(s)} \in P
      PROVE  s \in P
  <2> DEFINE x == AnyOf(s)
             t == s \ {x}
  <2>1. x \in s
    BY <1>4 DEF AnyOf
  <2>2. h[s] = ExchangesMerged(f[x], h[t])
    BY <1>1, <1>4 DEF Iterated, MergedWith, MergeByName, ExchangesMerged
  <2>3. NamesAdd(f, S, t, h[t]) /\ MapFit(f[x])
    BY <1>4, <2>1
  <2>4. x \notin t /\ t \cup {x} = s /\ t \subseteq S
    BY <2>1
  <2> HIDE DEF x, t
  <2>5. /\ MapFit(h[s])
        /\ \A flow \in FlowNames, what \in FiguresShown :
              /\ \A k : FigAt(flow, what, h[s], k) = FigAt(flow, what, f[x], k) + FigAt(flow, what, h[t], k)
              /\ FigSum(flow, what, h[s]) = FigSum(flow, what, f[x]) + FigSum(flow, what, h[t])
    <3>1. MapFit(h[t])
      BY <2>3 DEF NamesAdd
    <3>2. BothAdd(f[x], h[t], h[s])
      BY <2>2, <2>3, <3>1, MapsMerge
    <3> QED
      BY <3>2 DEF BothAdd
  <2>6. ASSUME NEW g, Amounts(g, S)
        PROVE  SumOver(g, s) = SumOver(g, t) + g[x] /\ SumOver(g, t) \in Nat /\ g[x] \in Nat
    <3>1. Amounts(g, t) /\ g[x] \in Nat
      BY <2>1, <2>4, <2>6, SumOfPart DEF Amounts
    <3> QED
      BY <2>4, <3>1, SumWith, SumType
  <2>7. ASSUME NEW flow \in FlowNames, NEW what \in FiguresShown
        PROVE  /\ FigSum(flow, what, h[s]) = SumOver(SumOfEach(flow, what, f, S), s)
               /\ \A k : FigAt(flow, what, h[s], k) = SumOver(AtEach(flow, what, f, S, k), s)
    <3>1. FigSum(flow, what, h[s]) = SumOver(SumOfEach(flow, what, f, S), s)
      <4> DEFINE g == SumOfEach(flow, what, f, S)
      <4>1. Amounts(g, S) /\ g[x] = FigSum(flow, what, f[x])
        BY <1>2, <2>1 DEF SumOfEach
      <4>2. FigSum(flow, what, h[t]) = SumOver(g, t)
        BY <2>3 DEF NamesAdd
      <4>3. FigSum(flow, what, h[s]) = FigSum(flow, what, f[x]) + FigSum(flow, what, h[t])
        BY <2>5
      <4> HIDE DEF g
      <4>4. SumOver(g, s) = SumOver(g, t) + g[x] /\ SumOver(g, t) \in Nat /\ g[x] \in Nat
        BY <2>6, <4>1
      <4>5. FigSum(flow, what, h[s]) = SumOver(g, s)
        BY <4>1, <4>2, <4>3, <4>4
      <4> QED
        BY <4>5 DEF g
    <3>2. ASSUME NEW k
          PROVE  FigAt(flow, what, h[s], k) = SumOver(AtEach(flow, what, f, S, k), s)
      <4> DEFINE g == AtEach(flow, what, f, S, k)
      <4>1. Amounts(g, S) /\ g[x] = FigAt(flow, what, f[x], k)
        BY <1>2, <2>1 DEF AtEach
      <4>2. FigAt(flow, what, h[t], k) = SumOver(g, t)
        BY <2>3 DEF NamesAdd
      <4>3. FigAt(flow, what, h[s], k) = FigAt(flow, what, f[x], k) + FigAt(flow, what, h[t], k)
        BY <2>5
      <4> HIDE DEF g
      <4>4. SumOver(g, s) = SumOver(g, t) + g[x] /\ SumOver(g, t) \in Nat /\ g[x] \in Nat
        BY <2>6, <4>1
      <4>5. FigAt(flow, what, h[s], k) = SumOver(g, s)
        BY <4>1, <4>2, <4>3, <4>4
      <4> QED
        BY <4>5 DEF g
    <3> QED
      BY <3>1, <3>2
  <2> QED
    BY <2>5, <2>7 DEF NamesAdd
<1>5. S \in P
  <2> HIDE DEF P
  <2> QED
    BY <1>3, <1>4, ChosenInduction
<1> QED
  BY <1>1, <1>2, <1>5

\* By name the tokens add up to the row of all tokens.
LEMMA ByNameAdds ==
  ASSUME NEW m, RowFit(m)
  PROVE  /\ MapFit(ByName(m))
         /\ \A flow \in FlowNames, what \in FiguresShown :
               /\ FigSum(flow, what, ByName(m)) = Fig(flow, what, m[InAll])
               /\ TokensOf(m) = {} => Fig(flow, what, m[InAll]) = 0
<1> DEFINE T == TokensIn(m)
           N == {GetTokenName(k) : k \in T}
           group == [name \in N |-> {k \in T : GetTokenName(k) = name}]
           b == ByName(m)
<1>1. TokensOf(m) = T
  BY DEF TokensOf, TokensIn, RowFit
<1>2. b = [name \in N |-> AllOf(m, group[name])]
  <2>1. \A name \in N : group[name] = {k \in T : GetTokenName(k) = name}
    OBVIOUS
  <2>2. b = [name \in N |-> AllOf(m, {k \in T : GetTokenName(k) = name})]
    BY <1>1, Zenon DEF ByName, AllOf
  <2> HIDE DEF group, b, N
  <2> QED
    BY <2>1, <2>2
<1>3. /\ IsFiniteSet(T) /\ T \subseteq DOMAIN m /\ \A k \in T : StatFit(m[k])
      /\ InAll \in DOMAIN m
  BY FS_Subset DEF RowFit, MapFit, TokensIn
<1>4. IsFiniteSet(N)
  <2> DEFINE f == [k \in T |-> GetTokenName(k)]
  <2>1. f \in Surjection(T, N)
    BY DEF Surjection
  <2> HIDE DEF T, N, f
  <2> QED
    BY <1>3, <2>1, FS_Surjection
<1>5. ASSUME NEW name \in N
      PROVE  /\ group[name] \subseteq T /\ IsFiniteSet(group[name])
             /\ \A k \in group[name] : StatFit(m[k])
  <2>1. group[name] \subseteq T
    OBVIOUS
  <2> HIDE DEF group, T, N
  <2> QED
    BY <1>3, <2>1, FS_Subset
<1>6. \A name \in N : Adds(m, group[name], group[name], b[name])
  <2> SUFFICES ASSUME NEW name \in N PROVE Adds(m, group[name], group[name], b[name])
    OBVIOUS
  <2>1. b[name] = AllOf(m, group[name])
    BY <1>2
  <2> HIDE DEF b, group, N
  <2> QED
    BY <1>5, <2>1, MergedAll
<1>7. MapFit(b)
  <2>1. DOMAIN b = N
    BY <1>2
  <2> HIDE DEF b, N, group
  <2> QED
    BY <1>4, <1>6, <2>1 DEF MapFit, Adds
<1>8. ASSUME NEW flow \in FlowNames, NEW what \in FiguresShown
      PROVE  /\ FigSum(flow, what, b) = Fig(flow, what, m[InAll])
             /\ T = {} => Fig(flow, what, m[InAll]) = 0
  <2> DEFINE g == [k \in T |-> Fig(flow, what, m[k])]
             sums == FigsIn(flow, what, b)
  <2>1. Amounts(g, T) /\ \A k \in T : g[k] = Fig(flow, what, m[k])
    BY <1>3, FigType DEF Amounts, StatFit
  <2>2. Fig(flow, what, m[InAll]) = SumOver(g, T)
    <3>1. what \in Figures
      BY DEF FiguresShown, Figures, Costs
    <3>2. Figure(Whole(m)[flow], what) = FlowSum(m, flow, what) /\ Whole(m) = m[InAll]
      BY <3>1 DEF RowFit, RowsAddUp, Whole
    <3>3. FlowSum(m, flow, what) = SumOver(g, T)
      BY DEF FlowSum, Fig
    <3> QED
      BY <3>2, <3>3 DEF Fig
  <2>3. DOMAIN b = N /\ sums = [name \in N |-> Fig(flow, what, b[name])]
    BY <1>2 DEF FigsIn
  <2>4. Members(group, N) = T
    <3>1. \A k \in T : GetTokenName(k) \in N /\ k \in group[GetTokenName(k)]
      OBVIOUS
    <3> HIDE DEF group, N, T
    <3> QED
      BY <1>5, <3>1 DEF Members
  <2>5. \A x, y \in N : x # y => group[x] \cap group[y] = {}
    OBVIOUS
  <2>6. \A name \in N : Amounts(g, group[name]) /\ sums[name] = SumOver(g, group[name])
    <3> SUFFICES ASSUME NEW name \in N
                 PROVE  Amounts(g, group[name]) /\ sums[name] = SumOver(g, group[name])
      OBVIOUS
    <3>1. sums[name] = SumOver(FigOfEach(flow, what, m, group[name]), group[name])
      BY <1>6, <2>3 DEF Adds
    <3>2. group[name] \subseteq T
      BY <1>5
    <3> HIDE DEF sums, T, N, group, b
    <3>3. \A k \in group[name] : g[k] = FigOfEach(flow, what, m, group[name])[k]
      BY <2>1, <3>2 DEF FigOfEach
    <3> HIDE DEF g
    <3>4. Amounts(g, group[name])
      BY <2>1, <3>2, SumOfPart
    <3>5. \A k \in group[name] : FigOfEach(flow, what, m, group[name])[k] = g[k]
      BY <3>3
    <3>6. SumOver(FigOfEach(flow, what, m, group[name]), group[name]) = SumOver(g, group[name])
      BY <3>4, <3>5, SumOfEqual
    <3> QED
      BY <3>1, <3>4, <3>6
  <2> HIDE DEF g, sums, group, b, N, T
  <2>7. Grouped(g, N, group, sums)
    BY <1>4, <2>5, <2>6 DEF Grouped
  <2>8. SumOver(sums, N) = SumOver(g, T)
    BY <2>4, <2>7, SumOfSums
  <2>9. FigSum(flow, what, b) = SumOver(sums, N)
    BY <2>3 DEF FigSum, sums
  <2>10. T = {} => SumOver(g, T) = 0
    BY SumOfNone
  <2> QED
    BY <2>2, <2>8, <2>9, <2>10
<1> QED
  BY <1>1, <1>7, <1>8

\* The statistics of all tokens, and those by name, of the same transfers.
Totalled(s) == s.totalFee = s.charge.cost["Fee"] + s.collect.cost["Fee"] + s.withdraw.cost["Fee"]
                            + s.activationFee
Both(m, b) ==
    /\ MapFit(m) /\ NamesFit(b) /\ DOMAIN b \subseteq DOMAIN m /\ DOMAIN m \subseteq ExchangeNames
    /\ \A e \in DOMAIN m : Totalled(m[e])
    /\ \A e : \A flow \in FlowNames, what \in FiguresShown :
          FigSum(flow, what, NamesAt(b, e)) = FigAt(flow, what, m, e)

\* A table of the job, and what the reports take of it.
InAllOf(t) == [e \in DOMAIN t |-> t[e][InAll]]
ByNameOf(t) == [e \in {x \in DOMAIN t : TokensOf(t[x]) # {}} |-> ByName(t[e])]

LEMMA DayIsBoth ==
  ASSUME NEW t, TableFit(t)
  PROVE  Both(InAllOf(t), ByNameOf(t))
<1> DEFINE m == InAllOf(t)
           b == ByNameOf(t)
           S == {x \in DOMAIN t : TokensOf(t[x]) # {}}
<1>1. /\ DOMAIN m = DOMAIN t /\ \A e \in DOMAIN t : m[e] = t[e][InAll]
      /\ DOMAIN b = S /\ \A e \in S : b[e] = ByName(t[e])
  BY DEF InAllOf, ByNameOf
<1>2. /\ IsFiniteSet(DOMAIN t) /\ DOMAIN t \subseteq ExchangeNames /\ S \subseteq DOMAIN t
      /\ \A e \in DOMAIN t : RowFit(t[e])
      /\ \A e \in DOMAIN t : e \notin S => TokensOf(t[e]) = {}
  BY DEF TableFit
<1> HIDE DEF m, b, S
<1>3. MapFit(m)
  BY <1>1, <1>2 DEF MapFit, RowFit
<1>4. NamesFit(b)
  BY <1>1, <1>2, FS_Subset, ByNameAdds DEF NamesFit
<1>5. \A e \in DOMAIN m : Totalled(m[e])
  BY <1>1, <1>2 DEF RowFit, RowsAddUp, Whole, Totalled
<1>6. ASSUME NEW e, NEW flow \in FlowNames, NEW what \in FiguresShown
      PROVE  FigSum(flow, what, NamesAt(b, e)) = FigAt(flow, what, m, e)
  <2>1. CASE e \in S
    <3>1. NamesAt(b, e) = ByName(t[e]) /\ RowFit(t[e])
      BY <1>1, <1>2, <2>1 DEF NamesAt
    <3>2. FigAt(flow, what, m, e) = Fig(flow, what, t[e][InAll])
      <4>1. e \in DOMAIN m /\ m[e] = t[e][InAll]
        BY <1>1, <1>2, <2>1
      <4> QED
        BY <4>1, Zenon DEF FigAt
    <3> QED
      BY <3>1, <3>2, ByNameAdds
  <2>2. CASE e \in DOMAIN t /\ e \notin S
    <3>1. NamesAt(b, e) = Empty /\ RowFit(t[e]) /\ TokensOf(t[e]) = {}
      BY <1>1, <1>2, <2>2 DEF NamesAt
    <3>2. FigAt(flow, what, m, e) = Fig(flow, what, t[e][InAll])
      <4>1. e \in DOMAIN m /\ m[e] = t[e][InAll]
        BY <1>1, <1>2, <2>2
      <4> QED
        BY <4>1, Zenon DEF FigAt
    <3> QED
      BY <3>1, <3>2, ByNameAdds, NoMapFit
  <2>3. CASE e \notin DOMAIN t
    <3>1. NamesAt(b, e) = Empty /\ FigAt(flow, what, m, e) = 0
      BY <1>1, <1>2, <2>3 DEF NamesAt, FigAt
    <3> QED
      BY <3>1, NoMapFit
  <2> QED
    BY <2>1, <2>2, <2>3
<1> QED
  BY <1>1, <1>2, <1>3, <1>4, <1>5, <1>6 DEF Both, m, b

LEMMA NothingIsBoth == Both(Empty, Empty)
<1>1. DOMAIN Empty = {}
  BY DEF Empty
<1> QED
  BY <1>1, NoMapFit, FS_EmptySet DEF Both, NamesFit, NamesAt

\* Two days together.
LEMMA BothMerge ==
  ASSUME NEW m, NEW b, Both(m, b), NEW n, NEW c, Both(n, c)
  PROVE  Both(ExchangesMerged(m, n), NamesMerged(b, c))
<1> DEFINE p == ExchangesMerged(m, n)
           q == NamesMerged(b, c)
<1>1. BothAdd(m, n, p)
  BY MapsMerge DEF Both
<1>2. /\ NamesFit(q) /\ DOMAIN q = DOMAIN b \cup DOMAIN c
      /\ \A e : \A flow \in FlowNames, what \in FiguresShown :
            FigSum(flow, what, NamesAt(q, e)) = FigSum(flow, what, NamesAt(b, e)) + FigSum(flow, what, NamesAt(c, e))
  <2>1. NamesBothAdd(b, c, q)
    BY NamesMerge DEF Both
  <2> HIDE DEF q
  <2> QED
    BY <2>1 DEF NamesBothAdd
<1>3. \A e \in DOMAIN m \cup DOMAIN n :
         p[e] = (IF e \notin DOMAIN n THEN m[e]
                 ELSE IF e \notin DOMAIN m THEN n[e] ELSE ExchangeMerge(m[e], n[e]))
  BY DEF ExchangesMerged, MergedInto
<1> HIDE DEF p, q
<1>4. /\ DOMAIN p = DOMAIN m \cup DOMAIN n /\ MapFit(p)
      /\ \A e : \A flow \in FlowNames, what \in FiguresShown :
            FigAt(flow, what, p, e) = FigAt(flow, what, m, e) + FigAt(flow, what, n, e)
  BY <1>1 DEF BothAdd
<1>5. ASSUME NEW e \in DOMAIN p
      PROVE  Totalled(p[e])
  <2>0. /\ (e \in DOMAIN m) => StatFit(m[e]) /\ Totalled(m[e])
        /\ (e \in DOMAIN n) => StatFit(n[e]) /\ Totalled(n[e])
    BY DEF Both, MapFit
  <2>1. CASE e \in DOMAIN m /\ e \in DOMAIN n
    <3> DEFINE s == m[e]
               o == n[e]
               t == ExchangeMerge(s, o)
    <3>1. p[e] = t
      BY <1>3, <1>4, <2>1
    <3> HIDE DEF s, o, t
    <3>2. StatFit(s) /\ StatFit(o) /\ Totalled(s) /\ Totalled(o)
      BY <2>0, <2>1 DEF s, o
    <3>3. /\ t.totalFee = s.totalFee + o.totalFee
          /\ t.activationFee = s.activationFee + o.activationFee
          /\ t.charge.cost["Fee"] = s.charge.cost["Fee"] + o.charge.cost["Fee"]
          /\ t.collect.cost["Fee"] = s.collect.cost["Fee"] + o.collect.cost["Fee"]
          /\ t.withdraw.cost["Fee"] = s.withdraw.cost["Fee"] + o.withdraw.cost["Fee"]
      <4>1. /\ StatFit(t) /\ t.totalFee = s.totalFee + o.totalFee
            /\ t.activationFee = s.activationFee + o.activationFee
            /\ \A flow \in FlowNames : Fig(flow, "Fee", t) = Fig(flow, "Fee", s) + Fig(flow, "Fee", o)
        BY <3>2, StatsMerge DEF t, FiguresShown
      <4>2. \A x : \A flow \in FlowNames : Fig(flow, "Fee", x) = x[flow].cost["Fee"]
        BY DEF Fig, Figure, Costs
      <4> QED
        BY <4>1, <4>2 DEF FlowNames
    <3>4. \A x : StatFit(x) => /\ x.totalFee \in Nat /\ x.activationFee \in Nat
                              /\ x.charge.cost["Fee"] \in Nat /\ x.collect.cost["Fee"] \in Nat
                              /\ x.withdraw.cost["Fee"] \in Nat
      BY DEF StatFit, ExchangeStat, Flow, Costs
    <3> QED
      BY <3>1, <3>2, <3>3, <3>4 DEF Totalled
  <2>2. CASE ~(e \in DOMAIN m /\ e \in DOMAIN n)
    BY <1>3, <1>4, <2>0, <2>2
  <2> QED
    BY <2>1, <2>2
<1>6. \A e : \A flow \in FlowNames, what \in FiguresShown :
         FigSum(flow, what, NamesAt(q, e)) = FigAt(flow, what, p, e)
  BY <1>2, <1>4 DEF Both
<1>7. DOMAIN q \subseteq DOMAIN p /\ DOMAIN p \subseteq ExchangeNames
  BY <1>2, <1>4 DEF Both
<1> QED
  BY <1>2, <1>4, <1>5, <1>6, <1>7 DEF Both, p, q

\* A window is of tables that were written.
LEMMA WindowTables ==
  ASSUME NEW first \in Nat, NEW n \in Nat \ {0}, tables \in Seq(Range(tables))
  PROVE  \E m \in Nat : /\ DOMAIN Window(first, n) = 1..m
                        /\ \A k \in 1..m : Window(first, n)[k] \in Range(tables)
<1> DEFINE lo == FirstOf(first)
           hi == IF first + n - 1 < Len(tables) THEN first + n - 1 ELSE Len(tables)
<1>1. Max({1, first}) = lo
  <2>1. lo \in {1, first} /\ \A y \in {1, first} : lo >= y
    BY DEF FirstOf
  <2>2. \A x \in {1, first} : (\A y \in {1, first} : x >= y) => x = lo
    BY DEF FirstOf
  <2> HIDE DEF lo
  <2> QED
    BY <2>1, <2>2 DEF Max
<1>2. Len(tables) \in Nat /\ DOMAIN tables = 1..Len(tables)
  OBVIOUS
<1>3. Min({Len(tables), first + n - 1}) = hi
  <2> DEFINE l == Len(tables)
             e == first + n - 1
  <2>0. l \in Int /\ e \in Int
    BY <1>2
  <2>1. hi \in {l, e} /\ \A y \in {l, e} : hi <= y
    BY <2>0
  <2>2. \A x \in {l, e} : (\A y \in {l, e} : x <= y) => x = hi
    BY <2>0
  <2> HIDE DEF l, e, hi
  <2>3. Min({l, e}) = hi
    BY <2>1, <2>2 DEF Min
  <2> QED
    BY <2>3 DEF l, e
<1>4. lo \in Nat \ {0} /\ hi \in Nat /\ hi <= Len(tables)
  BY <1>2 DEF FirstOf
<1>5. Window(first, n) = SubSeq(tables, lo, hi)
  BY <1>1, <1>3 DEF Window
<1> HIDE DEF lo, hi
<1>6. CASE lo <= hi
  <2>1. lo \in 1..(Len(tables) + 1) /\ hi \in (lo - 1)..Len(tables)
    BY <1>2, <1>4, <1>6
  <2>2. SubSeq(tables, lo, hi) \in Seq(Range(tables))
    BY <2>1, SubSeqProperties
  <2> DEFINE w == SubSeq(tables, lo, hi)
             T == Range(tables)
  <2> HIDE DEF w, T
  <2>3. w \in Seq(T)
    BY <2>2 DEF w, T
  <2>4. Len(w) \in Nat /\ DOMAIN w = 1..Len(w) /\ \A k \in 1..Len(w) : w[k] \in T
    BY <2>3
  <2> QED
    BY <1>5, <2>4 DEF w, T
<1>7. CASE ~(lo <= hi)
  <2>1. SubSeq(tables, lo, hi) = << >>
    BY <1>4, <1>7, SubSeqEmpty
  <2>2. DOMAIN Window(first, n) = 1..0
    BY <1>5, <2>1
  <2> QED
    BY <2>2
<1> QED
  BY <1>6, <1>7

\* What the reports merge of a window.
InAllMaps(w) == [d \in DOMAIN w |-> InAllOf(w[d])]
ByNameMaps(w) == [d \in DOMAIN w |-> ByNameOf(w[d])]
MergedByName(w) == MergedOver(ByNameMaps(w), MergeByName)

LEMMA WhatIsMerged ==
  ASSUME NEW w
  PROVE  /\ ExchangeStatistics(w) = MergedOver(InAllMaps(w), ExchangeMerge)
         /\ ExchangeTokenStatistics(w)
              = Put(MergedByName(w), "All", AllNames(MergedByName(w), DOMAIN MergedByName(w)))
<1>1. ExchangeStatistics(w) = MergedOver(InAllMaps(w), ExchangeMerge)
  BY DEF ExchangeStatistics, OverDays, InAllMaps, InAllOf
<1>2. ExchangeTokenStatistics(w)
        = Put(MergedByName(w), "All", AllNames(MergedByName(w), DOMAIN MergedByName(w)))
  BY DEF ExchangeTokenStatistics, OverDays, ByNameMaps, ByNameOf, MergedByName, AllNames
<1> QED
  BY <1>1, <1>2

\* Day by day the statistics by name are those of all tokens.
LEMMA WindowIsBoth ==
  ASSUME ExchangeInv, FitInv, job = "exchange", NEW first \in Nat, NEW n \in Nat \ {0}
  PROVE  Both(ExchangeStatistics(Window(first, n)), MergedByName(Window(first, n)))
<1> DEFINE w == Window(first, n)
           f == InAllMaps(w)
           g == ByNameMaps(w)
<1>1. PICK m \in Nat : DOMAIN w = 1..m /\ \A k \in 1..m : w[k] \in Range(tables)
  BY WindowTables DEF ExchangeInv
<1>2. \A k \in 1..m : TableFit(w[k])
  BY <1>1 DEF FitInv
<1> HIDE DEF w
<1>3. /\ DOMAIN f = 1..m /\ DOMAIN g = 1..m
      /\ \A k \in 1..m : f[k] = InAllOf(w[k]) /\ g[k] = ByNameOf(w[k])
  BY <1>1 DEF InAllMaps, ByNameMaps
<1> HIDE DEF f, g
<1>4. \A k \in 1..m : Both(f[k], g[k])
  BY <1>2, <1>3, DayIsBoth
<1>5. PICK p : Chain("exchanges", {}, Empty, f, p) /\ p[m] = MergedOver(f, ExchangeMerge)
  BY <1>3, ExchangesOver
<1>6. PICK q : Chain("names", {}, Empty, g, q) /\ q[m] = MergedOver(g, MergeByName)
  BY <1>3, NamesOver
<1> DEFINE P == {k \in Nat : k <= m => Both(p[k], q[k])}
<1>7. 0 \in P
  BY <1>5, <1>6, NothingIsBoth DEF Chain
<1>8. ASSUME NEW k \in Nat, k \in P
      PROVE  k + 1 \in P
  <2> SUFFICES ASSUME k + 1 <= m PROVE Both(p[k + 1], q[k + 1])
    OBVIOUS
  <2>1. k + 1 \in 1..m /\ (k + 1) - 1 = k /\ Both(p[k], q[k])
    BY <1>8
  <2>2. p[k + 1] = ExchangesMerged(p[k], f[k + 1])
    BY <1>3, <1>5, <2>1 DEF Chain, StepOf
  <2>3. q[k + 1] = NamesMerged(q[k], g[k + 1])
    BY <1>3, <1>6, <2>1 DEF Chain, StepOf
  <2>4. Both(f[k + 1], g[k + 1])
    BY <1>4, <2>1
  <2> QED
    BY <2>1, <2>2, <2>3, <2>4, BothMerge
<1>9. m \in P
  <2> HIDE DEF P
  <2> QED
    BY <1>7, <1>8, AllNumbers
<1>10. Both(p[m], q[m])
  BY <1>9
<1>11. ExchangeStatistics(w) = p[m] /\ MergedByName(w) = q[m]
  BY <1>5, <1>6, WhatIsMerged DEF MergedByName, f, g
<1> QED
  BY <1>10, <1>11 DEF w

\* Totals over a set, as sums.
LEMMA FlowsAre ==
  ASSUME NEW f, \A flow \in FlowNames : f[flow] \in Nat
  PROVE  SumOver(f, FlowNames) = f["charge"] + f["collect"] + f["withdraw"]
<1> DEFINE A == {"charge"}
           B == {"charge", "collect"}
<1>1. Amounts(f, {}) /\ SumOver(f, {}) = 0
  BY SumOfNone, FS_EmptySet DEF Amounts
<1>2. "charge" \in FlowNames /\ "collect" \in FlowNames /\ "withdraw" \in FlowNames
  BY DEF FlowNames
<1>3. Amounts(f, {} \cup {"charge"}) /\ SumOver(f, {} \cup {"charge"}) = 0 + f["charge"]
  <2>1. "charge" \notin {} /\ f["charge"] \in Nat
    BY <1>2
  <2> QED
    BY <1>1, <2>1, SumWith
<1>4. {} \cup {"charge"} = A /\ A \cup {"collect"} = B /\ B \cup {"withdraw"} = FlowNames
  <2>1. FlowNames = {"charge", "collect", "withdraw"}
    BY DEF FlowNames
  <2> QED
    BY <2>1
<1>5. "collect" \notin A /\ "withdraw" \notin B
  OBVIOUS
<1>6. Amounts(f, A) /\ SumOver(f, A) = 0 + f["charge"]
  BY <1>3, <1>4
<1> HIDE DEF A, B
<1>7. Amounts(f, A \cup {"collect"}) /\ SumOver(f, A \cup {"collect"}) = SumOver(f, A) + f["collect"]
  BY <1>2, <1>5, <1>6, SumWith
<1>8. Amounts(f, B \cup {"withdraw"}) /\ SumOver(f, B \cup {"withdraw"}) = SumOver(f, B) + f["withdraw"]
  BY <1>2, <1>4, <1>5, <1>7, SumWith
<1>9. PICK x, y, z, a, b, c : /\ x = f["charge"] /\ y = f["collect"] /\ z = f["withdraw"]
                            /\ a = SumOver(f, A) /\ b = SumOver(f, B) /\ c = SumOver(f, FlowNames)
  OBVIOUS
<1>10. x \in Nat /\ y \in Nat /\ z \in Nat
  BY <1>2, <1>9
<1>11. a = 0 + x
  BY <1>6, <1>9
<1>12. b = a + y
  BY <1>4, <1>7, <1>9
<1>13. c = b + z
  BY <1>4, <1>8, <1>9
<1>14. c = x + y + z
  BY <1>10, <1>11, <1>12, <1>13
<1> QED
  BY <1>9, <1>14

\* The fee that exchangesStatistic reports is what the flows of all exchanges have.
LEMMA FeeOfTotals ==
  ASSUME NEW w, NEW m, m = ExchangeStatistics(w), MapFit(m)
  PROVE  /\ FigSum("charge", "Fee", m) \in Nat /\ FigSum("collect", "Fee", m) \in Nat
         /\ FigSum("withdraw", "Fee", m) \in Nat
         /\ ExchangeTotals(w).fee
              = FigSum("charge", "Fee", m) + FigSum("collect", "Fee", m) + FigSum("withdraw", "Fee", m)
<1> DEFINE Of(flow) == SumOver([e \in DOMAIN m |-> m[e][flow].cost["Fee"]], DOMAIN m)
           f == [flow \in Flows |-> Of(flow)]
<1>1. ExchangeTotals(w).fee = SumOver(f, Flows)
  BY Zenon DEF ExchangeTotals, Total
<1>2. ASSUME NEW flow \in FlowNames
      PROVE  f[flow] = FigSum(flow, "Fee", m) /\ FigSum(flow, "Fee", m) \in Nat
  <2>1. f[flow] = Of(flow)
    BY DEF Flows, FlowNames
  <2>2. \A e \in DOMAIN m : Fig(flow, "Fee", m[e]) = m[e][flow].cost["Fee"]
    BY DEF Fig, Figure, Costs
  <2>3. FigsIn(flow, "Fee", m) = [e \in DOMAIN m |-> m[e][flow].cost["Fee"]]
    BY <2>2 DEF FigsIn
  <2>4. "Fee" \in FiguresShown
    BY DEF FiguresShown
  <2> QED
    BY <2>1, <2>3, <2>4, FigSums DEF FigSum
<1>3. Flows = FlowNames
  BY DEF Flows, FlowNames
<1> HIDE DEF f
<1>4. SumOver(f, FlowNames) = f["charge"] + f["collect"] + f["withdraw"]
  BY <1>2, FlowsAre
<1>5. "charge" \in FlowNames /\ "collect" \in FlowNames /\ "withdraw" \in FlowNames
  BY DEF FlowNames
<1> QED
  BY <1>1, <1>2, <1>3, <1>4, <1>5

ActivationsOf(m) == Total(LAMBDA e : m[e].activationFee, DOMAIN m)

\* Over the exchanges, total fees are those of the flows and the activations.
LEMMA TotalsAddUp ==
  ASSUME NEW m, MapFit(m), \A e \in DOMAIN m : Totalled(m[e])
  PROVE  SumOver(AllFees(m), DOMAIN m)
           = FigSum("charge", "Fee", m) + FigSum("collect", "Fee", m) + FigSum("withdraw", "Fee", m)
             + ActivationsOf(m)
<1> DEFINE S == DOMAIN m
           a == FigsIn("charge", "Fee", m)
           b == FigsIn("collect", "Fee", m)
           c == FigsIn("withdraw", "Fee", m)
           d == [e \in S |-> m[e].activationFee]
           t == AllFees(m)
           ab == [e \in S |-> a[e] + b[e]]
           abc == [e \in S |-> ab[e] + c[e]]
<1>1. ASSUME NEW e \in S
      PROVE  /\ a[e] \in Nat /\ b[e] \in Nat /\ c[e] \in Nat /\ d[e] \in Nat
             /\ t[e] = ((a[e] + b[e]) + c[e]) + d[e]
  <2> DEFINE s == m[e]
  <2>1. a[e] = s.charge.cost["Fee"] /\ b[e] = s.collect.cost["Fee"] /\ c[e] = s.withdraw.cost["Fee"]
    BY DEF FigsIn, Fig, Figure, Costs
  <2>2. d[e] = s.activationFee /\ t[e] = s.totalFee
    BY DEF AllFees
  <2>3. StatFit(s) /\ Totalled(s)
    BY DEF MapFit
  <2> HIDE DEF s, a, b, c, d, t
  <2>4. /\ s.totalFee \in Nat /\ s.activationFee \in Nat
        /\ s.charge.cost["Fee"] \in Nat /\ s.collect.cost["Fee"] \in Nat
        /\ s.withdraw.cost["Fee"] \in Nat
    BY <2>3 DEF StatFit, ExchangeStat, Flow, Costs
  <2> QED
    BY <2>1, <2>2, <2>3, <2>4 DEF Totalled
<1>2. IsFiniteSet(S)
  BY DEF MapFit
<1>3. /\ \A e \in S : ab[e] = a[e] + b[e]
      /\ \A e \in S : abc[e] = ab[e] + c[e]
  OBVIOUS
<1>0. ActivationsOf(m) = SumOver(d, S)
  BY Zenon DEF ActivationsOf, Total
<1> HIDE DEF a, b, c, d, t, ab, abc, S
<1>4. Amounts(a, S) /\ Amounts(b, S) /\ Amounts(c, S) /\ Amounts(d, S)
  BY <1>1, <1>2 DEF Amounts
<1>5. Amounts(ab, S) /\ SumOver(ab, S) = SumOver(a, S) + SumOver(b, S)
  BY <1>3, <1>4, SumOfPlus DEF AddUp
<1>6. Amounts(abc, S) /\ SumOver(abc, S) = SumOver(ab, S) + SumOver(c, S)
  BY <1>3, <1>4, <1>5, SumOfPlus DEF AddUp
<1>7. \A e \in S : t[e] = abc[e] + d[e]
  BY <1>1, <1>3
<1>8. SumOver(t, S) = SumOver(abc, S) + SumOver(d, S)
  BY <1>4, <1>6, <1>7, SumOfPlus DEF AddUp
<1>9. SumOver(t, S) = ((SumOver(a, S) + SumOver(b, S)) + SumOver(c, S)) + SumOver(d, S)
  BY <1>5, <1>6, <1>8
<1> QED
  BY <1>0, <1>9 DEF a, b, c, t, S, FigSum

\* What an entry adds to a map.
LEMMA EntryAdded ==
  ASSUME NEW f, NEW k, NEW v, k \notin DOMAIN f
  PROVE  /\ DOMAIN Put(f, k, v) = DOMAIN f \cup {k} /\ Put(f, k, v)[k] = v
         /\ \A x \in DOMAIN f : Put(f, k, v)[x] = f[x]
BY DEF Put

\* The fees by week are those of the totals, and the activations.
LEMMA FeesAgree ==
  ASSUME NEW w, NEW m, m = ExchangeStatistics(w), NEW b, Both(m, b), m # Empty
  PROVE  FeesOfExchanges(w)["total_fee"]
           = ExchangeTotals(w).fee + ActivationsOf(m)
<1> DEFINE fees == [e \in DOMAIN m |-> m[e].totalFee]
           all == SumOver(fees, DOMAIN m)
<1>1. FeesOfExchanges(w) = Put(fees, "total_fee", all)
  <2> DEFINE Of(x) == [e \in DOMAIN x |-> x[e].totalFee]
             Sum(g) == Total(LAMBDA e : g[e], DOMAIN g)
  <2>1. FeesOfExchanges(w) = IF ExchangeStatistics(w) = Empty THEN Empty
                             ELSE Put(Of(ExchangeStatistics(w)), "total_fee", Sum(Of(ExchangeStatistics(w))))
    BY Zenon DEF FeesOfExchanges
  <2>2. \A g : Sum(g) = SumOver([e \in DOMAIN g |-> g[e]], DOMAIN g)
    BY Zenon DEF Total
  <2>3. fees = Of(m)
    OBVIOUS
  <2>4. DOMAIN fees = DOMAIN m /\ [e \in DOMAIN fees |-> fees[e]] = fees
    OBVIOUS
  <2> HIDE DEF fees, Of, Sum
  <2>5. FeesOfExchanges(w) = Put(fees, "total_fee", Sum(fees))
    BY <2>1, <2>3
  <2>6. Sum(fees) = SumOver(fees, DOMAIN m)
    BY <2>2, <2>4
  <2> QED
    BY <2>5, <2>6
<1>2. "total_fee" \notin DOMAIN m
  BY ReportNamesAssumption DEF Both
<1>3. FeesOfExchanges(w)["total_fee"] = all
  <2>1. DOMAIN fees = DOMAIN m
    OBVIOUS
  <2> HIDE DEF all, fees
  <2>2. Put(fees, "total_fee", all)["total_fee"] = all
    BY <1>2, <2>1 DEF Put
  <2> QED
    BY <1>1, <2>2
<1>4. all = SumOver(AllFees(m), DOMAIN m)
  BY DEF AllFees
<1>5. MapFit(m) /\ \A e \in DOMAIN m : Totalled(m[e])
  BY DEF Both
<1> HIDE DEF all
<1>6. /\ FigSum("charge", "Fee", m) \in Nat /\ FigSum("collect", "Fee", m) \in Nat
      /\ FigSum("withdraw", "Fee", m) \in Nat
      /\ ExchangeTotals(w).fee
           = FigSum("charge", "Fee", m) + FigSum("collect", "Fee", m) + FigSum("withdraw", "Fee", m)
  BY <1>5, FeeOfTotals
<1>7. all = FigSum("charge", "Fee", m) + FigSum("collect", "Fee", m) + FigSum("withdraw", "Fee", m)
            + ActivationsOf(m)
  BY <1>4, <1>5, TotalsAddUp
<1> QED
  BY <1>3, <1>6, <1>7

\* The tokens that have transactions have all that an exchange has.
LEMMA AnalysisAgrees ==
  ASSUME NEW m, NEW b, Both(m, b), NEW T, NEW e \in DOMAIN b, T[e] = b[e], NEW flow \in FlowNames
  PROVE  LET sums == Analysis(T, e)[flow]
         IN  [txs |-> sums.txs, fee |-> sums.fee] = Shown(m[e])[flow]
<1> DEFINE g == b[e]
           used == {k \in DOMAIN g : g[k][flow].txs > 0}
           a == [k \in used |-> g[k][flow].txs]
           c == [k \in used |-> g[k][flow].cost["Fee"]]
           row == Analysis(T, e)[flow]
           F(what) == FigsIn(flow, what, g)
<1>0. Flows = FlowNames
  BY DEF Flows, FlowNames
<1>1. row.txs = SumOver(a, used) /\ row.fee = SumOver(c, used)
  BY <1>0 DEF Analysis, Total
<1>2. Shown(m[e])[flow] = [txs |-> m[e][flow].txs, fee |-> m[e][flow].cost["Fee"]]
  BY <1>0 DEF Shown
<1>3. MapFit(g) /\ e \in DOMAIN m /\ StatFit(m[e])
  BY DEF Both, NamesFit, MapFit
<1>4. "txs" \in FiguresShown /\ "Fee" \in FiguresShown
  BY DEF FiguresShown
<1>5. \A what \in FiguresShown : FigSum(flow, what, g) = Fig(flow, what, m[e])
  BY <1>3 DEF Both, NamesAt, FigAt
<1>6. m[e][flow].txs = FigSum(flow, "txs", g) /\ m[e][flow].cost["Fee"] = FigSum(flow, "Fee", g)
  BY <1>3, <1>4, <1>5, FigType DEF StatFit
<1>7. \A what \in FiguresShown : Amounts(F(what), DOMAIN g)
  BY <1>3, FigSums
<1>8. \A k \in DOMAIN g : /\ F("txs")[k] = g[k][flow].txs /\ F("txs")[k] \in Nat
                          /\ F("Fee")[k] = g[k][flow].cost["Fee"]
                          /\ (g[k][flow].txs = 0 => F("Fee")[k] = 0)
  BY <1>3, <1>4, FigType DEF MapFit, StatFit, FigsIn
<1>9. /\ used \subseteq DOMAIN g
      /\ \A k \in DOMAIN g \ used : F("txs")[k] = 0 /\ F("Fee")[k] = 0
      /\ \A k \in used : a[k] = F("txs")[k] /\ c[k] = F("Fee")[k]
  BY <1>8
<1>10. /\ FigSum(flow, "txs", g) = SumOver(F("txs"), DOMAIN g)
       /\ FigSum(flow, "Fee", g) = SumOver(F("Fee"), DOMAIN g)
  BY DEF FigSum
<1> HIDE DEF g, used, a, c, F, row
<1>11. /\ Amounts(F("txs"), used) /\ SumOver(F("txs"), used) = SumOver(F("txs"), DOMAIN g)
       /\ Amounts(F("Fee"), used) /\ SumOver(F("Fee"), used) = SumOver(F("Fee"), DOMAIN g)
  BY <1>4, <1>7, <1>9, SumOfPart
<1>12. SumOver(a, used) = SumOver(F("txs"), used) /\ SumOver(c, used) = SumOver(F("Fee"), used)
  BY <1>9, <1>11, SumOfEqual
<1>13. row.txs = m[e][flow].txs /\ row.fee = m[e][flow].cost["Fee"]
  BY <1>1, <1>6, <1>10, <1>11, <1>12
<1> QED
  BY <1>2, <1>13 DEF row

\* An exchange without tokens that have a name has activations only.
LEMMA UnnamedHaveNoFees ==
  ASSUME NEW m, NEW b, Both(m, b), NEW e \in DOMAIN m, e \notin DOMAIN b
  PROVE  m[e].totalFee = m[e].activationFee
<1>1. "Fee" \in FiguresShown /\ {"charge", "collect", "withdraw"} = FlowNames
  BY DEF FiguresShown, FlowNames
<1>2. StatFit(m[e]) /\ Totalled(m[e])
  BY DEF Both, MapFit
<1>3. ASSUME NEW flow \in FlowNames
      PROVE  m[e][flow].cost["Fee"] = 0
  <2>1. FigSum(flow, "Fee", NamesAt(b, e)) = 0
    BY NoMapFit DEF NamesAt
  <2>2. FigSum(flow, "Fee", NamesAt(b, e)) = Fig(flow, "Fee", m[e])
    BY <1>1 DEF Both, FigAt
  <2> QED
    BY <1>1, <1>2, <2>1, <2>2, FigType DEF StatFit
<1>4. /\ m[e].charge.cost["Fee"] = 0 /\ m[e].collect.cost["Fee"] = 0
      /\ m[e].withdraw.cost["Fee"] = 0
  BY <1>1, <1>3
<1>5. m[e].activationFee \in Nat
  BY <1>2 DEF StatFit, ExchangeStat
<1> QED
  BY <1>2, <1>4, <1>5 DEF Totalled

\* The figure of one token, or of all, in the map of an exchange.
FigOfToken(flow, what, token, g) ==
    IF token = "All" THEN FigSum(flow, what, g) ELSE FigAt(flow, what, g, token)

\* A lookup gives it.
LEMMA LookupIs ==
  ASSUME NEW T, NamesFit(T), NEW e, NEW token
  PROVE  /\ StatFit(Lookup(T, e, token))
         /\ \A flow \in FlowNames, what \in FiguresShown :
               Fig(flow, what, Lookup(T, e, token)) = FigOfToken(flow, what, token, NamesAt(T, e))
<1> DEFINE s == Lookup(T, e, token)
<1>1. s = IF e \notin DOMAIN T THEN NewExchangeStatistic
          ELSE IF token = "All" THEN AllOf(T[e], DOMAIN T[e])
          ELSE IF token \in DOMAIN T[e] THEN T[e][token] ELSE NewExchangeStatistic
  BY Zenon DEF Lookup, AllOf
<1> HIDE DEF s
<1>2. CASE e \notin DOMAIN T
  <2>1. s = NewExchangeStatistic /\ NamesAt(T, e) = Empty
    BY <1>1, <1>2 DEF NamesAt
  <2> QED
    BY <2>1, NewIsFit, NoMapFit DEF FigOfToken, s
<1>3. CASE e \in DOMAIN T /\ token = "All"
  <2>1. s = AllOf(T[e], DOMAIN T[e]) /\ NamesAt(T, e) = T[e]
    BY <1>1, <1>3 DEF NamesAt
  <2> DEFINE g == T[e]
  <2>2. MapFit(g)
    BY <1>3 DEF NamesFit
  <2> HIDE DEF g
  <2>3. Adds(g, DOMAIN g, DOMAIN g, AllOf(g, DOMAIN g))
    BY <2>2, MergedAll DEF MapFit
  <2>4. \A flow, what : FigOfEach(flow, what, g, DOMAIN g) = FigsIn(flow, what, g)
    BY DEF FigOfEach, FigsIn
  <2>5. /\ StatFit(AllOf(g, DOMAIN g))
        /\ \A flow \in FlowNames, what \in FiguresShown :
              Fig(flow, what, AllOf(g, DOMAIN g)) = FigSum(flow, what, g)
    BY <2>3, <2>4 DEF Adds, FigSum
  <2> QED
    BY <1>3, <2>1, <2>5 DEF FigOfToken, g, s
<1>4. CASE e \in DOMAIN T /\ token # "All" /\ token \in DOMAIN T[e]
  <2>1. s = T[e][token] /\ NamesAt(T, e) = T[e]
    BY <1>1, <1>4 DEF NamesAt
  <2>2. StatFit(s)
    BY <1>4, <2>1 DEF NamesFit, MapFit
  <2> QED
    BY <1>4, <2>1, <2>2 DEF FigOfToken, FigAt, s
<1>5. CASE e \in DOMAIN T /\ token # "All" /\ token \notin DOMAIN T[e]
  <2>1. s = NewExchangeStatistic /\ NamesAt(T, e) = T[e]
    BY <1>1, <1>5 DEF NamesAt
  <2> QED
    BY <1>5, <2>1, NewIsFit DEF FigOfToken, FigAt, s
<1> QED
  BY <1>2, <1>3, <1>4, <1>5

\* What is listed is one statistic, merged of the lookups.
Lookups(T, asked, token) == [i \in DOMAIN asked |-> Lookup(T, asked[i], token)]

LEMMA ListedIs ==
  ASSUME NEW T, NamesFit(T), NEW asked, IsFiniteSet(DOMAIN asked), NEW token
  PROVE  \E t : /\ Listed(T, asked, token) = Shown(t)
                /\ Adds(Lookups(T, asked, token), DOMAIN asked, DOMAIN asked, t)
<1> DEFINE f == Lookups(T, asked, token)
           I == DOMAIN asked
           F(h) == [s \in SUBSET I |->
                       IF s = {} THEN NewExchangeStatistic
                       ELSE ExchangeMerge(Lookup(T, asked[CHOOSE x \in s : TRUE], token),
                                          h[s \ {CHOOSE x \in s : TRUE}])]
           G(h) == [s \in SUBSET I |->
                       IF s = {} THEN NewExchangeStatistic
                       ELSE ExchangeMerge(f[CHOOSE x \in s : TRUE],
                                          h[s \ {CHOOSE x \in s : TRUE}])]
           iter == CHOOSE h : h = F(h)
<1>1. Listed(T, asked, token) = Shown(iter[I])
  BY DEF Listed, MergeAll, MapThenFoldSet
<1>2. \A h : Iterated("exchanges", NewExchangeStatistic, f, I, h) <=> h = G(h)
  BY DEF Iterated, MergedWith, AnyOf
<1>3. \A s \in SUBSET I :
         s # {} => f[CHOOSE x \in s : TRUE] = Lookup(T, asked[CHOOSE x \in s : TRUE], token)
  BY DEF Lookups
<1>4. \A h : F(h) = G(h)
  <2> HIDE DEF f, I
  <2> QED
    BY <1>3
<1>5. \A i \in I : StatFit(f[i])
  BY LookupIs DEF Lookups
<1> HIDE DEF f, F, G
<1>6. iter = G(iter)
  BY <1>2, <1>4, IteratedExists
<1> HIDE DEF iter
<1>7. Iterated("exchanges", NewExchangeStatistic, f, I, iter)
  BY <1>2, <1>6
<1>8. Adds(f, I, I, iter[I])
  BY <1>5, <1>7, MergedAdds
<1> QED
  BY <1>1, <1>8 DEF f

\* Of the exchanges together, all tokens or one have what the exchanges have.
TokenFigs(flow, what, token, b) == [e \in DOMAIN b |-> FigOfToken(flow, what, token, b[e])]

LEMMA AllOfToken ==
  ASSUME NEW b, NamesFit(b), NEW token, NEW flow \in FlowNames, NEW what \in FiguresShown
  PROVE  /\ Amounts(TokenFigs(flow, what, token, b), DOMAIN b)
         /\ FigOfToken(flow, what, token, AllNames(b, DOMAIN b))
              = SumOver(TokenFigs(flow, what, token, b), DOMAIN b)
         /\ MapFit(AllNames(b, DOMAIN b))
<1> DEFINE D == DOMAIN b
           A == AllNames(b, DOMAIN b)
<1>1. /\ NamesAdd(b, D, D, A)
      /\ Amounts(SumOfEach(flow, what, b, D), D)
      /\ \A k : Amounts(AtEach(flow, what, b, D, k), D)
  BY AllNamesAdd DEF NamesFit
<1> HIDE DEF A
<1>2. CASE token = "All"
  <2>1. TokenFigs(flow, what, token, b) = SumOfEach(flow, what, b, D)
    BY <1>2 DEF TokenFigs, SumOfEach, FigOfToken
  <2> QED
    BY <1>1, <1>2, <2>1 DEF NamesAdd, FigOfToken, A
<1>3. CASE token # "All"
  <2>1. TokenFigs(flow, what, token, b) = AtEach(flow, what, b, D, token)
    BY <1>3 DEF TokenFigs, AtEach, FigOfToken
  <2> QED
    BY <1>1, <1>3, <2>1 DEF NamesAdd, FigOfToken, A
<1> QED
  BY <1>2, <1>3

\* What is listed of some names has what each of them has, as often as it is there.
AskedFigs(flow, what, token, T, asked) ==
    [i \in DOMAIN asked |-> FigOfToken(flow, what, token, NamesAt(T, asked[i]))]
ListsOf(T, asked, token, t) ==
    /\ Listed(T, asked, token) = Shown(t) /\ StatFit(t)
    /\ \A flow \in FlowNames, what \in FiguresShown :
          /\ Amounts(AskedFigs(flow, what, token, T, asked), DOMAIN asked)
          /\ Fig(flow, what, t) = SumOver(AskedFigs(flow, what, token, T, asked), DOMAIN asked)

LEMMA ListedSum ==
  ASSUME NEW T, NamesFit(T), NEW asked, IsFiniteSet(DOMAIN asked), NEW token
  PROVE  \E t : ListsOf(T, asked, token, t)
<1> DEFINE I == DOMAIN asked
<1>2. PICK t : /\ Listed(T, asked, token) = Shown(t)
               /\ Adds(Lookups(T, asked, token), I, I, t)
  BY ListedIs
<1>3. ASSUME NEW flow \in FlowNames, NEW what \in FiguresShown
      PROVE  /\ Amounts(AskedFigs(flow, what, token, T, asked), I)
             /\ Fig(flow, what, t) = SumOver(AskedFigs(flow, what, token, T, asked), I)
  <2> DEFINE f == FigOfEach(flow, what, Lookups(T, asked, token), I)
             g == AskedFigs(flow, what, token, T, asked)
  <2>1. \A i \in I : f[i] = g[i] /\ f[i] \in Nat
    <3> SUFFICES ASSUME NEW i \in I PROVE f[i] = g[i] /\ f[i] \in Nat
      OBVIOUS
    <3>1. f[i] = Fig(flow, what, Lookup(T, asked[i], token))
      BY DEF FigOfEach, Lookups
    <3>2. g[i] = FigOfToken(flow, what, token, NamesAt(T, asked[i]))
      BY DEF AskedFigs
    <3>3. Fig(flow, what, Lookup(T, asked[i], token)) \in Nat
      BY LookupIs, FigType DEF StatFit
    <3> QED
      BY <3>1, <3>2, <3>3, LookupIs
  <2>2. Fig(flow, what, t) = SumOver(f, I)
    BY <1>2 DEF Adds
  <2> HIDE DEF f, g
  <2>3. Amounts(f, I)
    BY <2>1 DEF Amounts
  <2>4. Amounts(g, I) /\ SumOver(g, I) = SumOver(f, I)
    BY <2>1, <2>3, SumOfEqual
  <2> QED
    BY <2>2, <2>4 DEF g
<1>4. StatFit(t)
  BY <1>2 DEF Adds
<1> QED
  BY <1>2, <1>3, <1>4 DEF ListsOf

\* The figures shown of a statistic.
LEMMA ShownOf ==
  ASSUME NEW s, StatFit(s), NEW flow \in FlowNames
  PROVE  /\ Shown(s)[flow] = [txs |-> Fig(flow, "txs", s), fee |-> Fig(flow, "Fee", s)]
         /\ s[flow].txs = Fig(flow, "txs", s) /\ s[flow].cost["Fee"] = Fig(flow, "Fee", s)
         /\ Fig(flow, "txs", s) \in Nat /\ Fig(flow, "Fee", s) \in Nat
<1>1. Flows = FlowNames /\ "txs" \in FiguresShown /\ "Fee" \in FiguresShown
  BY DEF Flows, FlowNames, FiguresShown
<1>2. /\ s[flow].txs = Fig(flow, "txs", s) /\ s[flow].cost["Fee"] = Fig(flow, "Fee", s)
      /\ Fig(flow, "txs", s) \in Nat /\ Fig(flow, "Fee", s) \in Nat
  BY <1>1, FigType DEF StatFit
<1>3. Shown(s)[flow] = [txs |-> s[flow].txs, fee |-> s[flow].cost["Fee"]]
  BY <1>1 DEF Shown
<1> QED
  BY <1>2, <1>3

\* The first places of names in a list stand for the names.
FirstOnes(asked) == DOMAIN asked \ Again(asked)

LEMMA NamesOnce ==
  ASSUME NEW X, NEW asked \in Seq(X), NEW D, "All" \notin D
  PROVE  StandFor({i \in FirstOnes(asked) : asked[i] \in D}, asked,
                  D \cap {asked[i] : i \in DOMAIN asked})
<1> DEFINE N == {i \in FirstOnes(asked) : asked[i] \in D}
<1>1. DOMAIN asked = 1..Len(asked) /\ Len(asked) \in Nat
  OBVIOUS
<1>2. \A i : i \in FirstOnes(asked)
               <=> i \in DOMAIN asked /\ asked[i] # "All" /\ \A j \in 1..(i - 1) : asked[j] # asked[i]
  BY DEF FirstOnes, Again
<1>3. \A i, k \in N : asked[i] = asked[k] => i = k
  <2> SUFFICES ASSUME NEW i \in N, NEW k \in N, asked[i] = asked[k] PROVE i = k
    OBVIOUS
  <2>1. i \in 1..Len(asked) /\ k \in 1..Len(asked)
    BY <1>1, <1>2
  <2>2. ~(i < k) /\ ~(k < i)
    BY <1>2, <2>1
  <2> QED
    BY <2>1, <2>2
<1>4. ASSUME NEW i \in DOMAIN asked, asked[i] \in D
      PROVE  \E k \in N : asked[k] = asked[i]
  <2> DEFINE S == {k \in DOMAIN asked : asked[k] = asked[i]}
  <2>1. PICK k \in S : \A j \in S : k <= j
    <3>1. S \subseteq Nat /\ S # {}
      BY <1>1
    <3> HIDE DEF S
    <3> QED
      BY <3>1, LeastElement
  <2>2. k \in 1..Len(asked) /\ asked[k] = asked[i] /\ asked[k] # "All"
    BY <1>1, <1>4
  <2>3. ASSUME NEW j \in 1..(k - 1) PROVE asked[j] # asked[k]
    <3>1. j \in DOMAIN asked /\ ~(k <= j)
      BY <1>1, <2>2
    <3> QED
      BY <2>1, <2>2, <3>1
  <2> QED
    BY <1>1, <1>2, <1>4, <2>2, <2>3
<1>5. D \cap {asked[i] : i \in DOMAIN asked} = {asked[i] : i \in N}
  <2>1. \A i \in N : i \in DOMAIN asked /\ asked[i] \in D
    BY <1>2
  <2> HIDE DEF N
  <2> QED
    BY <1>4, <2>1
<1> QED
  BY <1>3, <1>5 DEF StandFor

\* What the exchanges have in all is what those in a list have and what the rest have.
NamesAllIn(T, b) ==
    /\ NamesFit(b) /\ NamesFit(T) /\ "All" \notin DOMAIN b
    /\ DOMAIN T = DOMAIN b \cup {"All"} /\ \A e \in DOMAIN b : T[e] = b[e]
NotAsked(b, asked) == DOMAIN b \ {asked[i] : i \in DOMAIN asked}

LEMMA AskedAndRest ==
  ASSUME NEW b, NEW T, NamesAllIn(T, b), NEW X, NEW asked \in Seq(X), NEW token,
         NEW flow \in FlowNames, NEW what \in FiguresShown, NEW h,
         h = AskedFigs(flow, what, token, T, asked), Amounts(h, DOMAIN asked),
         NEW g, g = TokenFigs(flow, what, token, b)
  PROVE  SumOver(g, DOMAIN b) + SumOver(h, Again(asked))
           = SumOver(h, DOMAIN asked) + SumOver(g, NotAsked(b, asked))
<1> DEFINE D == DOMAIN b
           I == DOMAIN asked
           A == Again(asked)
           F == FirstOnes(asked)
           N == {i \in F : asked[i] \in D}
           seen == D \cap {asked[i] : i \in I}
           rest == NotAsked(b, asked)
<1>0. NamesFit(b) /\ "All" \notin D
  BY DEF NamesAllIn
<1>1. Amounts(g, D)
  BY <1>0, AllOfToken
<1>2. /\ F \cup A = I /\ F \cap A = {} /\ N \subseteq F /\ F \subseteq I /\ A \subseteq I
      /\ seen \cup rest = D /\ seen \cap rest = {} /\ seen \subseteq D /\ rest \subseteq D
  BY DEF FirstOnes, Again, NotAsked
<1>3. \A i \in F \ N : h[i] = 0
  <2> SUFFICES ASSUME NEW i \in F \ N PROVE h[i] = 0
    OBVIOUS
  <2>1. i \in I /\ asked[i] \notin D /\ asked[i] # "All"
    BY DEF FirstOnes, Again
  <2>2. NamesAt(T, asked[i]) = Empty
    BY <2>1 DEF NamesAllIn, NamesAt
  <2>3. h[i] = FigOfToken(flow, what, token, Empty)
    BY <2>1, <2>2 DEF AskedFigs
  <2> QED
    BY <2>3, NoMapFit DEF FigOfToken
<1>4. \A i \in N : h[i] = g[asked[i]] /\ g[asked[i]] \in Nat
  <2> SUFFICES ASSUME NEW i \in N PROVE h[i] = g[asked[i]] /\ g[asked[i]] \in Nat
    OBVIOUS
  <2>1. i \in I /\ asked[i] \in D
    BY DEF FirstOnes
  <2>2. NamesAt(T, asked[i]) = b[asked[i]]
    BY <2>1 DEF NamesAllIn, NamesAt
  <2>3. h[i] = FigOfToken(flow, what, token, b[asked[i]])
    BY <2>1, <2>2 DEF AskedFigs
  <2>4. g[asked[i]] = FigOfToken(flow, what, token, b[asked[i]])
    BY <2>1 DEF TokenFigs
  <2>5. g[asked[i]] \in Nat
    BY <1>1, <2>1 DEF Amounts
  <2> QED
    BY <2>3, <2>4, <2>5
<1>5. StandFor(N, asked, seen)
  BY <1>0, NamesOnce
<1> HIDE DEF A, F, N, seen, rest, I, D
<1>6. Amounts(h, F) /\ Amounts(h, A) /\ Amounts(h, N)
  <2>1. Amounts(h, F) /\ Amounts(h, A)
    BY <1>2, SumOfPart DEF I
  <2> QED
    BY <1>2, <2>1, SumOfPart
<1>7. Amounts(g, seen) /\ Amounts(g, rest)
  BY <1>1, <1>2, SumOfPart
<1>8. SumOver(h, I) = SumOver(h, F) + SumOver(h, A)
  BY <1>2, <1>6, SumOfUnion
<1>9. SumOver(h, N) = SumOver(h, F)
  BY <1>2, <1>3, <1>6, SumOfPart
<1>10. SumOver(h, N) = SumOver(g, seen)
  <2>1. IsFiniteSet(N)
    BY <1>6 DEF Amounts
  <2>2. Shows(N, asked, g, h)
    BY <1>4 DEF Shows
  <2> QED
    BY <1>5, <2>1, <2>2, SumOfThings
<1>11. SumOver(g, D) = SumOver(g, seen) + SumOver(g, rest)
  BY <1>2, <1>7, SumOfUnion
<1>12. SumOver(g, seen) \in Nat /\ SumOver(g, rest) \in Nat /\ SumOver(h, A) \in Nat
  BY <1>6, <1>7, SumType
<1>13. SumOver(g, D) + SumOver(h, A) = SumOver(h, I) + SumOver(g, rest)
  BY <1>8, <1>9, <1>10, <1>11, <1>12
<1> QED
  BY <1>13 DEF A, I, D, rest

\* What is listed has the figures that are shown.
ListedAs(T, asked, token, t) ==
    \A flow \in FlowNames :
        /\ Listed(T, asked, token)[flow] = [txs |-> Fig(flow, "txs", t), fee |-> Fig(flow, "Fee", t)]
        /\ Fig(flow, "txs", t) \in Nat /\ Fig(flow, "Fee", t) \in Nat

LEMMA ListsShown ==
  ASSUME NEW T, NEW asked, NEW token, NEW t, ListsOf(T, asked, token, t)
  PROVE  ListedAs(T, asked, token, t)
<1>1. Listed(T, asked, token) = Shown(t) /\ StatFit(t)
  BY DEF ListsOf
<1> QED
  BY <1>1, ShownOf DEF ListedAs

\* "Other" is what the exchanges have that are not in the list, less what the list has again.
OtherRight(T, asked, token, flow) ==
    LET other == Other(T, asked, token)[flow]
        rest  == (DOMAIN T \ {"All"}) \ {asked[i] : i \in DOMAIN asked}
        due   == Listed(T, [e \in rest |-> e], token)[flow]
        twice == Listed(T, Restrict(asked, Again(asked)), token)[flow]
    IN  /\ other = [txs |-> due.txs - twice.txs, fee |-> due.fee - twice.fee]
        /\ (Again(asked) = {}) => (other.txs >= 0) /\ (other.fee >= 0)

LEMMA OthersAgree ==
  ASSUME NEW b, NamesFit(b), "All" \notin DOMAIN b,
         NEW T, T = Put(b, "All", AllNames(b, DOMAIN b)), NEW X, NEW asked \in Seq(X),
         NEW token \in {"All"} \cup DOMAIN T["All"], NEW flow \in Flows
  PROVE  OtherRight(T, asked, token, flow)
<1> DEFINE D == DOMAIN b
           all == AllNames(b, D)
           rest == NotAsked(b, asked)
           again == Restrict(asked, Again(asked))
           remaining == [e \in rest |-> e]
           s == Lookup(T, "All", token)
<1>1. DOMAIN T = D \cup {"All"} /\ T["All"] = all /\ \A e \in D : T[e] = b[e]
  BY DEF Put
<1>2. MapFit(all)
  BY AllNamesAdd DEF NamesFit, NamesAdd
<1> HIDE DEF all
<1>3. NamesFit(T) /\ NamesAllIn(T, b)
  <2>1. NamesFit(T)
    BY <1>1, <1>2, FS_AddElement DEF NamesFit
  <2> QED
    BY <1>1, <2>1 DEF NamesAllIn
<1>4. /\ DOMAIN again = Again(asked) /\ Again(asked) \subseteq DOMAIN asked
      /\ \A i \in Again(asked) : again[i] = asked[i]
      /\ DOMAIN remaining = rest /\ rest \subseteq D /\ \A e \in rest : remaining[e] = e
  BY DEF Restrict, Again, NotAsked
<1>5. IsFiniteSet(DOMAIN asked) /\ IsFiniteSet(DOMAIN again) /\ IsFiniteSet(DOMAIN remaining)
  <2>1. IsFiniteSet(DOMAIN asked)
    <3>1. DOMAIN asked = 1..Len(asked) /\ Len(asked) \in Int /\ 1 \in Int
      OBVIOUS
    <3> QED
      BY <3>1, FS_Interval
  <2>2. IsFiniteSet(D)
    BY DEF NamesFit
  <2> HIDE DEF D, rest, again, remaining
  <2> QED
    BY <1>4, <2>1, <2>2, FS_Subset
<1> HIDE DEF rest, again, remaining
<1>6. PICK t : ListsOf(T, asked, token, t)
  BY <1>3, <1>5, ListedSum
<1>7. PICK u : ListsOf(T, remaining, token, u)
  BY <1>3, <1>5, ListedSum
<1>8. PICK v : ListsOf(T, again, token, v)
  BY <1>3, <1>5, ListedSum
<1>9. /\ StatFit(s)
      /\ \A f \in FlowNames, what \in FiguresShown :
            Fig(f, what, s) = SumOver(TokenFigs(f, what, token, b), D)
  <2>1. NamesAt(T, "All") = all
    BY <1>1 DEF NamesAt
  <2> QED
    BY <1>3, <2>1, LookupIs, AllOfToken DEF all
<1> HIDE DEF s
<1>10. ASSUME NEW f \in FlowNames, NEW what \in FiguresShown
       PROVE  /\ Fig(f, what, s) + Fig(f, what, v) = Fig(f, what, t) + Fig(f, what, u)
              /\ (Again(asked) = {}) => Fig(f, what, v) = 0
  <2> DEFINE g == TokenFigs(f, what, token, b)
             h == AskedFigs(f, what, token, T, asked)
             k == AskedFigs(f, what, token, T, again)
             l == AskedFigs(f, what, token, T, remaining)
  <2>1. Amounts(h, DOMAIN asked) /\ Fig(f, what, t) = SumOver(h, DOMAIN asked)
    BY <1>6 DEF ListsOf
  <2>2. Amounts(k, Again(asked)) /\ Fig(f, what, v) = SumOver(k, Again(asked))
    BY <1>4, <1>8 DEF ListsOf
  <2>3. Amounts(l, rest) /\ Fig(f, what, u) = SumOver(l, rest)
    BY <1>4, <1>7 DEF ListsOf
  <2>4. \A i \in Again(asked) : h[i] = k[i]
    BY <1>4 DEF AskedFigs
  <2>5. \A e \in rest : g[e] = l[e]
    <3> SUFFICES ASSUME NEW e \in rest PROVE g[e] = l[e]
      OBVIOUS
    <3>1. l[e] = FigOfToken(f, what, token, NamesAt(T, e))
      BY <1>4 DEF AskedFigs
    <3>2. NamesAt(T, e) = b[e] /\ e \in D
      BY <1>1, <1>4 DEF NamesAt
    <3> QED
      BY <3>1, <3>2 DEF TokenFigs
  <2>6. SumOver(g, D) + SumOver(h, Again(asked))
          = SumOver(h, DOMAIN asked) + SumOver(g, rest)
    BY <1>3, <2>1, AskedAndRest DEF rest
  <2>7. Fig(f, what, s) = SumOver(g, D)
    BY <1>9
  <2> HIDE DEF g, h, k, l, D
  <2>8. SumOver(h, Again(asked)) = SumOver(k, Again(asked)) /\ SumOver(g, rest) = SumOver(l, rest)
    BY <2>2, <2>3, <2>4, <2>5, SumOfEqual
  <2>9. (Again(asked) = {}) => SumOver(k, Again(asked)) = 0
    BY SumOfNone
  <2> QED
    BY <2>1, <2>2, <2>3, <2>6, <2>7, <2>8, <2>9
<1>11. Flows = FlowNames /\ "txs" \in FiguresShown /\ "Fee" \in FiguresShown
  BY DEF Flows, FlowNames, FiguresShown
<1>12. /\ ListedAs(T, asked, token, t) /\ ListedAs(T, remaining, token, u)
       /\ ListedAs(T, again, token, v)
  BY <1>6, <1>7, <1>8, ListsShown
<1>13. Other(T, asked, token)[flow]
         = [txs |-> s[flow].txs - Listed(T, asked, token)[flow].txs,
            fee |-> s[flow].cost["Fee"] - Listed(T, asked, token)[flow].fee]
  BY DEF Other, s
<1>14. /\ s[flow].txs = Fig(flow, "txs", s) /\ s[flow].cost["Fee"] = Fig(flow, "Fee", s)
       /\ Fig(flow, "txs", s) \in Nat /\ Fig(flow, "Fee", s) \in Nat
  BY <1>9, <1>11, ShownOf
<1>15. Other(T, asked, token)[flow] = [txs |-> Fig(flow, "txs", s) - Fig(flow, "txs", t),
                                       fee |-> Fig(flow, "Fee", s) - Fig(flow, "Fee", t)]
  <2>1. /\ Listed(T, asked, token)[flow].txs = Fig(flow, "txs", t)
        /\ Listed(T, asked, token)[flow].fee = Fig(flow, "Fee", t)
    <3>1. Listed(T, asked, token)[flow] = [txs |-> Fig(flow, "txs", t), fee |-> Fig(flow, "Fee", t)]
      BY <1>11, <1>12 DEF ListedAs
    <3> QED
      BY <3>1
  <2> QED
    BY <1>13, <1>14, <2>1
<1>16. /\ Fig(flow, "txs", s) - Fig(flow, "txs", t) = Fig(flow, "txs", u) - Fig(flow, "txs", v)
       /\ Fig(flow, "Fee", s) - Fig(flow, "Fee", t) = Fig(flow, "Fee", u) - Fig(flow, "Fee", v)
  <2>1. \A what \in FiguresShown :
           Fig(flow, what, s) + Fig(flow, what, v) = Fig(flow, what, t) + Fig(flow, what, u)
    BY <1>10, <1>11
  <2>2. /\ Fig(flow, "txs", t) \in Nat /\ Fig(flow, "Fee", t) \in Nat
        /\ Fig(flow, "txs", u) \in Nat /\ Fig(flow, "Fee", u) \in Nat
        /\ Fig(flow, "txs", v) \in Nat /\ Fig(flow, "Fee", v) \in Nat
    BY <1>11, <1>12 DEF ListedAs
  <2>3. Fig(flow, "txs", s) - Fig(flow, "txs", t) = Fig(flow, "txs", u) - Fig(flow, "txs", v)
    <3>1. Fig(flow, "txs", s) + Fig(flow, "txs", v) = Fig(flow, "txs", t) + Fig(flow, "txs", u)
      BY <1>11, <2>1
    <3> QED
      BY <1>14, <2>2, <3>1
  <2>4. Fig(flow, "Fee", s) - Fig(flow, "Fee", t) = Fig(flow, "Fee", u) - Fig(flow, "Fee", v)
    <3>1. Fig(flow, "Fee", s) + Fig(flow, "Fee", v) = Fig(flow, "Fee", t) + Fig(flow, "Fee", u)
      BY <1>11, <2>1
    <3> QED
      BY <1>14, <2>2, <3>1
  <2> QED
    BY <2>3, <2>4
<1>17. (Again(asked) = {}) => Fig(flow, "txs", v) = 0 /\ Fig(flow, "Fee", v) = 0
  BY <1>10, <1>11
<1>18. /\ Listed(T, remaining, token)[flow] = [txs |-> Fig(flow, "txs", u), fee |-> Fig(flow, "Fee", u)]
       /\ Listed(T, again, token)[flow] = [txs |-> Fig(flow, "txs", v), fee |-> Fig(flow, "Fee", v)]
       /\ Fig(flow, "txs", u) \in Nat /\ Fig(flow, "Fee", u) \in Nat
  BY <1>11, <1>12 DEF ListedAs
<1>19. (DOMAIN T \ {"All"}) \ {asked[i] : i \in DOMAIN asked} = rest
  BY <1>1 DEF NotAsked, rest
<1> DEFINE other == Other(T, asked, token)[flow]
           due == Listed(T, remaining, token)[flow]
           twice == Listed(T, again, token)[flow]
<1>20. /\ other = [txs |-> due.txs - twice.txs, fee |-> due.fee - twice.fee]
       /\ (Again(asked) = {}) => (other.txs >= 0) /\ (other.fee >= 0)
  BY <1>15, <1>16, <1>17, <1>18
<1> QED
  BY <1>19, <1>20, Zenon DEF OtherRight, remaining, again

\* The parts of the property, of one window.
AnalysesAgree(m, T) ==
    \A e \in DOMAIN T \ {"All"}, flow \in Flows :
        LET sums == Analysis(T, e)[flow]
        IN  [txs |-> sums.txs, fee |-> sums.fee] = Shown(m[e])[flow]
UnnamedAgree(m, T) ==
    \A e \in DOMAIN m \ (DOMAIN T \ {"All"}) : m[e].totalFee = m[e].activationFee
WeeksAgree(w, m) ==
    (m # Empty) => FeesOfExchanges(w)["total_fee"]
                     = ExchangeTotals(w).fee + Total(LAMBDA e : m[e].activationFee, DOMAIN m)
OthersAreRest(T) ==
    \A asked \in Requests, token \in {"All"} \cup DOMAIN T["All"], flow \in Flows :
        OtherRight(T, asked, token, flow)

LEMMA WindowAgrees ==
  ASSUME NEW w, Both(ExchangeStatistics(w), MergedByName(w))
  PROVE  /\ AnalysesAgree(ExchangeStatistics(w), ExchangeTokenStatistics(w))
         /\ UnnamedAgree(ExchangeStatistics(w), ExchangeTokenStatistics(w))
         /\ WeeksAgree(w, ExchangeStatistics(w))
         /\ OthersAreRest(ExchangeTokenStatistics(w))
<1>0. PICK m, b, T : /\ m = ExchangeStatistics(w) /\ b = MergedByName(w)
                     /\ T = ExchangeTokenStatistics(w)
  OBVIOUS
<1>1. Both(m, b) /\ T = Put(b, "All", AllNames(b, DOMAIN b))
  BY <1>0, WhatIsMerged
<1>2. "All" \notin DOMAIN b /\ DOMAIN b \subseteq DOMAIN m /\ NamesFit(b)
  BY <1>1, ReportNamesAssumption DEF Both
<1>3. DOMAIN T \ {"All"} = DOMAIN b /\ \A e \in DOMAIN b : T[e] = b[e]
  BY <1>1, <1>2 DEF Put
<1>4. Flows = FlowNames
  BY DEF Flows, FlowNames
<1>5. AnalysesAgree(m, T)
  BY <1>1, <1>3, <1>4, AnalysisAgrees DEF AnalysesAgree
<1>6. UnnamedAgree(m, T)
  BY <1>1, <1>3, UnnamedHaveNoFees DEF UnnamedAgree
<1>7. WeeksAgree(w, m)
  <2>1. (m # Empty) => FeesOfExchanges(w)["total_fee"] = ExchangeTotals(w).fee + ActivationsOf(m)
    BY <1>0, <1>1, FeesAgree
  <2> QED
    BY <2>1, Zenon DEF WeeksAgree, ActivationsOf
<1>8. OthersAreRest(T)
  <2> SUFFICES ASSUME NEW asked \in Requests, NEW token \in {"All"} \cup DOMAIN T["All"],
                      NEW flow \in Flows
               PROVE  OtherRight(T, asked, token, flow)
    BY DEF OthersAreRest
  <2> DEFINE X == ExchangeNames \cup {"All", "Nobody"}
  <2>1. asked \in Seq(X)
    BY ReportNamesAssumption
  <2> HIDE DEF X
  <2> QED
    BY <1>1, <1>2, <2>1, OthersAgree
<1> QED
  BY <1>0, <1>5, <1>6, <1>7, <1>8

\* The same figure of an exchange is the same in all reports; and "Other" is what is not in
\* the list of exchanges that was asked for, less what this list has again, whatever names
\* are in it (ExchangeReportsAgree in Reports.tla).
THEOREM ReportsOfExchangesAgree == ScanSpec => []ExchangeReportsAgree
<1>1. ExchangeInv /\ FitInv => ExchangeReportsAgree
  <2> SUFFICES ASSUME ExchangeInv, FitInv, ScanDone("exchange"), NEW first \in 0..2, NEW n \in 1..2
               PROVE  /\ AnalysesAgree(ExchangeStatistics(Window(first, n)),
                                       ExchangeTokenStatistics(Window(first, n)))
                      /\ UnnamedAgree(ExchangeStatistics(Window(first, n)),
                                      ExchangeTokenStatistics(Window(first, n)))
                      /\ WeeksAgree(Window(first, n), ExchangeStatistics(Window(first, n)))
                      /\ OthersAreRest(ExchangeTokenStatistics(Window(first, n)))
    BY Zenon DEF ExchangeReportsAgree, AnalysesAgree, UnnamedAgree, WeeksAgree, OthersAreRest,
                 OtherRight
  <2>1. first \in Nat /\ n \in Nat \ {0} /\ job = "exchange"
    BY DEF ScanDone
  <2> QED
    BY <2>1, WindowIsBoth, WindowAgrees
<1>2. ScanInit => ScanTypeOK /\ ExchangeInv /\ FitInv
  BY InitScanType, InitExchange, InitFit
<1>3. /\ ScanTypeOK /\ ExchangeInv /\ FitInv
      /\ [ScanNext]_scanVars
      => ScanTypeOK' /\ ExchangeInv' /\ FitInv'
  BY StepScanType, StepExchange, StepFit
<1> QED
  BY <1>1, <1>2, <1>3, PTL DEF ScanSpec

=============================================================================
