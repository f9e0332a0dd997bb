----------------------------- MODULE SetLemmas -------------------------------
(***************************************************************************)
(* Facts about finite sets that several proofs need: sets of integers have *)
(* a least and a greatest element (the rows of an address, the blocks of a *)
(* day, the days of a week), and how sums over finite sets behave.         *)
(*                                                                         *)
(* A sum is the number of elements of a set: of as many tokens of every x  *)
(* as its amount says.  What is known of cardinalities is so known of sums *)
(* of natural numbers, and no induction over their definition is needed    *)
(* but one.                                                                *)
(***************************************************************************)
EXTENDS Integers, SequencesExt, Sums, FiniteSetTheorems, WellFoundedInduction, TLAPS

\* A non-empty set of natural numbers has a least element.
LEMMA LeastElement ==
  ASSUME NEW S, S \subseteq Nat, S # {}
  PROVE  \E m \in S : \A k \in S : m <= k
<1> DEFINE R == OpToRel(<, Nat)
<1>1. PICK x \in S : \A y \in S : ~(<<y, x>> \in R)
  <2> HIDE DEF R
  <2>1. IsWellFoundedOn(R, Nat)
    BY NatLessThanWellFounded DEF R
  <2> QED
    BY <2>1, WFMin
<1>2. ASSUME NEW y \in S
      PROVE  x <= y
  <2> SUFFICES ASSUME y < x PROVE FALSE
    OBVIOUS
  <2> <<y, x>> \in R
    BY DEF OpToRel
  <2> QED
    BY <1>1
<1> QED
  BY <1>2

\* A non-empty set of positive integers below a bound has a greatest element.
LEMMA GreatestElement ==
  ASSUME NEW S, NEW n \in Nat, S \subseteq 1..n, S # {}
  PROVE  \E m \in S : \A k \in S : k <= m
<1> DEFINE T == {n - k : k \in S}
<1>1. T \subseteq Nat /\ T # {}
  <2>1. \A k \in S : n - k \in Nat
    OBVIOUS
  <2> QED
    BY <2>1
<1>2. PICK x \in T : \A y \in T : x <= y
  <2> HIDE DEF T
  <2> QED
    BY <1>1, LeastElement
<1>3. PICK m \in S : x = n - m
  OBVIOUS
<1>4. ASSUME NEW k \in S PROVE k <= m
  <2>1. n - k \in T
    OBVIOUS
  <2>2. n - m <= n - k
    BY <1>2, <1>3, <2>1
  <2>3. k \in Int /\ m \in Int
    OBVIOUS
  <2> HIDE DEF T
  <2> QED
    BY <2>2, <2>3
<1> QED
  BY <1>4

-----------------------------------------------------------------------------
(* Sums                                                                    *)

\* As many different tokens of x as amount[x] says.
Unit(amount, x) == {x} \X (1..amount[x])
Tokens(amount, S) == UNION {Unit(amount, x) : x \in S}

\* There are as many tokens of x as its amount says.
LEMMA UnitCount ==
  ASSUME NEW amount, NEW x, amount[x] \in Nat
  PROVE  IsFiniteSet(Unit(amount, x)) /\ Cardinality(Unit(amount, x)) = amount[x]
<1> DEFINE n == amount[x]
<1>1. IsFiniteSet(1..n) /\ Cardinality(1..n) = n
  BY FS_Interval, SMTT(30)
<1>2. IsFiniteSet({x}) /\ Cardinality({x}) = 1
  BY FS_Singleton
<1>3. IsFiniteSet({x} \X (1..n)) /\ Cardinality({x} \X (1..n)) = 1 * n
  BY <1>1, <1>2, FS_Product
<1> QED
  BY <1>3 DEF Unit

\* Finitely many amounts have finitely many tokens.
LEMMA TokensFinite ==
  ASSUME NEW S, IsFiniteSet(S), NEW amount, \A x \in S : amount[x] \in Nat
  PROVE  IsFiniteSet(Tokens(amount, S))
<1> DEFINE T == {Unit(amount, x) : x \in S}
           f == [x \in S |-> Unit(amount, x)]
<1>1. f \in Surjection(S, T)
  BY DEF Surjection
<1>2. IsFiniteSet(T)
  <2> HIDE DEF f, T
  <2> QED
    BY <1>1, FS_Surjection
<1>3. \A t \in T : IsFiniteSet(t)
  BY UnitCount
<1>4. IsFiniteSet(UNION T)
  <2> HIDE DEF T
  <2> QED
    BY <1>2, <1>3, FS_UNION
<1> QED
  BY <1>4 DEF Tokens

\* Tokens of disjoint sets are different.
LEMMA TokensSplit ==
  ASSUME NEW S, NEW T, NEW amount, S \cap T = {}
  PROVE  /\ Tokens(amount, S \cup T) = Tokens(amount, S) \cup Tokens(amount, T)
         /\ Tokens(amount, S) \cap Tokens(amount, T) = {}
<1>1. \A t, U : t \in Tokens(amount, U) <=> \E x \in U : t \in Unit(amount, x)
  BY DEF Tokens
<1>2. \A t, x : t \in Unit(amount, x) => t[1] = x
  BY DEF Unit
<1>3. ASSUME NEW t \in Tokens(amount, S), t \in Tokens(amount, T)
      PROVE  FALSE
  <2>1. t[1] \in S /\ t[1] \in T
    BY <1>1, <1>2, <1>3
  <2> QED
    BY <2>1
<1>4. ASSUME NEW t
      PROVE  t \in Tokens(amount, S \cup T) <=> t \in Tokens(amount, S) \cup Tokens(amount, T)
  BY <1>1
<1> QED
  BY <1>3, <1>4

\* Sizes of disjoint sets add up.
LEMMA DisjointCount ==
  ASSUME NEW S, IsFiniteSet(S), NEW T, IsFiniteSet(T), S \cap T = {}
  PROVE  IsFiniteSet(S \cup T) /\ Cardinality(S \cup T) = Cardinality(S) + Cardinality(T)
<1>1. Cardinality(S) \in Nat /\ Cardinality(T) \in Nat /\ Cardinality({}) = 0
  BY FS_CardinalityType, FS_EmptySet
<1>2. /\ IsFiniteSet(S \cup T)
      /\ Cardinality(S \cup T) = Cardinality(S) + Cardinality(T) - Cardinality({})
  BY FS_Union
<1> QED
  BY <1>1, <1>2

\* The tokens of one element apart.
LEMMA TokensStep ==
  ASSUME NEW S, IsFiniteSet(S), NEW amount, \A x \in S : amount[x] \in Nat, NEW x \in S
  PROVE  Cardinality(Tokens(amount, S)) = amount[x] + Cardinality(Tokens(amount, S \ {x}))
<1> DEFINE R == S \ {x}
<1>1. Tokens(amount, {x}) = Unit(amount, x)
  BY DEF Tokens
<1>2. S = {x} \cup R /\ {x} \cap R = {}
  OBVIOUS
<1>3. IsFiniteSet(R) /\ \A y \in R : amount[y] \in Nat
  BY FS_RemoveElement
<1> HIDE DEF R
<1>4. /\ Tokens(amount, {x} \cup R) = Tokens(amount, {x}) \cup Tokens(amount, R)
      /\ Tokens(amount, {x}) \cap Tokens(amount, R) = {}
  BY <1>2, TokensSplit
<1>5. Tokens(amount, S) = Unit(amount, x) \cup Tokens(amount, R)
  BY <1>1, <1>2, <1>4
<1>6. IsFiniteSet(Tokens(amount, R))
  BY <1>3, TokensFinite
<1>7. IsFiniteSet(Unit(amount, x)) /\ Cardinality(Unit(amount, x)) = amount[x]
  BY UnitCount
<1>8. Unit(amount, x) \cap Tokens(amount, R) = {}
  BY <1>1, <1>4
<1> DEFINE U == Unit(amount, x)
           V == Tokens(amount, R)
<1>9. Cardinality(U \cup V) = Cardinality(U) + Cardinality(V)
  <2> HIDE DEF U, V
  <2> QED
    BY <1>6, <1>7, <1>8, DisjointCount DEF U, V
<1> QED
  BY <1>5, <1>7, <1>9 DEF R

\* The sum that the fold computes is the number of tokens.
LEMMA SumIsCount ==
  ASSUME NEW S, IsFiniteSet(S), NEW amount, \A x \in S : amount[x] \in Nat
  PROVE  SumOver(amount, S) = Cardinality(Tokens(amount, S))
<1> DEFINE Pick(s) == CHOOSE x \in s : TRUE
           F(h) == [s \in SUBSET S |-> IF s = {} THEN 0 ELSE amount[Pick(s)] + h[s \ {Pick(s)}]]
           g == [s \in SUBSET S |-> Cardinality(Tokens(amount, s))]
           iter == CHOOSE h : h = F(h)
<1>1. SumOver(amount, S) = iter[S]
  BY DEF SumOver, MapThenSumSet, MapThenFoldSet
<1>2. \A s \in SUBSET S : s # {} => Pick(s) \in s
  OBVIOUS
<1> HIDE DEF Pick
<1>3. g = F(g)
  <2>1. ASSUME NEW s \in SUBSET S
        PROVE  g[s] = IF s = {} THEN 0 ELSE amount[Pick(s)] + g[s \ {Pick(s)}]
    <3>1. CASE s = {}
      <4>1. Tokens(amount, {}) = {}
        BY DEF Tokens
      <4> QED
        BY <3>1, <4>1, FS_EmptySet
    <3>2. CASE s # {}
      <4>1. Pick(s) \in s /\ IsFiniteSet(s) /\ s \ {Pick(s)} \in SUBSET S
        BY <1>2, <3>2, FS_Subset
      <4>2. Cardinality(Tokens(amount, s)) = amount[Pick(s)] + Cardinality(Tokens(amount, s \ {Pick(s)}))
        BY <4>1, TokensStep
      <4> QED
        BY <3>2, <4>1, <4>2
    <3> QED
      BY <3>1, <3>2
  <2> QED
    BY <2>1
<1>4. iter = F(iter)
  <2> HIDE DEF F, g
  <2> QED
    BY <1>3
<1>5. ASSUME NEW s \in SUBSET S
      PROVE  iter[s] = IF s = {} THEN 0 ELSE amount[Pick(s)] + iter[s \ {Pick(s)}]
  <2> HIDE DEF iter
  <2> QED
    BY <1>4
<1>6. ASSUME NEW s \in SUBSET S
      PROVE  g[s] = IF s = {} THEN 0 ELSE amount[Pick(s)] + g[s \ {Pick(s)}]
  <2> HIDE DEF g
  <2> QED
    BY <1>3
<1> HIDE DEF iter, g, F
<1> DEFINE Bad == {s \in SUBSET S : iter[s] # g[s]}
           Sizes == {Cardinality(s) : s \in Bad}
<1>7. \A s \in SUBSET S : IsFiniteSet(s) /\ Cardinality(s) \in Nat
  BY FS_Subset, FS_CardinalityType
<1>8. Bad = {}
  <2> SUFFICES ASSUME Bad # {} PROVE FALSE
    OBVIOUS
  <2>1. Sizes \subseteq Nat /\ Sizes # {}
    BY <1>7
  <2>2. PICK m \in Sizes : \A k \in Sizes : m <= k
    <3> HIDE DEF Sizes
    <3> QED
      BY <2>1, LeastElement
  <2>3. PICK s \in Bad : m = Cardinality(s)
    OBVIOUS
  <2>4. s # {}
    BY <1>5, <1>6
  <2> DEFINE t == s \ {Pick(s)}
  <2>5. Pick(s) \in s /\ t \in SUBSET S
    BY <1>2, <2>4
  <2>6. Cardinality(t) = Cardinality(s) - 1
    BY <1>7, <2>5, FS_RemoveElement
  <2>7. t \notin Bad
    BY <1>7, <2>1, <2>2, <2>3, <2>6
  <2> QED
    BY <1>5, <1>6, <2>4, <2>5, <2>7
<1> QED
  BY <1>1, <1>8 DEF g

\* Induction over the subsets of a finite set.
LEMMA FiniteInduction ==
  ASSUME NEW S, IsFiniteSet(S), NEW P, {} \in P,
         \A s \in P, x \in S : s \subseteq S /\ x \notin s => s \cup {x} \in P
  PROVE  S \in P
<1> DEFINE Left(s) == Cardinality(S \ s)
           Good == {s \in SUBSET S : s \in P}
           Sizes == {Left(s) : s \in Good}
<1>1. \A s \in SUBSET S : IsFiniteSet(S \ s) /\ Left(s) \in Nat
  BY FS_Difference, FS_CardinalityType
<1>2. Sizes \subseteq Nat /\ Sizes # {}
  BY <1>1
<1>3. PICK m \in Sizes : \A k \in Sizes : m <= k
  <2> HIDE DEF Sizes
  <2> QED
    BY <1>2, LeastElement
<1>4. PICK s \in Good : m = Left(s)
  OBVIOUS
<1>5. ASSUME S \ s # {}
      PROVE  FALSE
  <2>1. PICK x \in S : x \notin s
    BY <1>5
  <2> DEFINE t == s \cup {x}
  <2>2. t \in Good
    BY <1>4, <2>1
  <2>3. S \ t = (S \ s) \ {x} /\ x \in S \ s
    BY <2>1
  <2>4. Left(t) = Left(s) - 1
    <3> DEFINE R == S \ s
    <3>1. IsFiniteSet(R) /\ x \in R
      BY <1>1, <2>3
    <3> HIDE DEF R
    <3>2. Cardinality(R \ {x}) = Cardinality(R) - 1
      BY <3>1, FS_RemoveElement
    <3> QED
      BY <2>3, <3>2 DEF R
  <2>5. Left(t) \in Sizes
    BY <2>2
  <2>6. m <= Left(t) /\ m \in Nat
    BY <1>2, <1>3, <2>5
  <2> HIDE DEF Left
  <2> QED
    BY <1>4, <2>4, <2>6
<1>6. s = S
  BY <1>4, <1>5
<1> QED
  BY <1>4, <1>6

\* What holds of the sums that ExchangeStake takes.
Amounts(amount, S) == IsFiniteSet(S) /\ \A x \in S : amount[x] \in Nat

\* A sum of natural numbers is one.
LEMMA SumType ==
  ASSUME NEW amount, NEW S, Amounts(amount, S)
  PROVE  SumOver(amount, S) \in Nat
BY SumIsCount, TokensFinite, FS_CardinalityType DEF Amounts

\* The empty sum.
LEMMA SumOfNone ==
  ASSUME NEW amount
  PROVE  SumOver(amount, {}) = 0
<1>1. Tokens(amount, {}) = {}
  BY DEF Tokens
<1>2. SumOver(amount, {}) = Cardinality(Tokens(amount, {}))
  BY SumIsCount, FS_EmptySet
<1> QED
  BY <1>1, <1>2, FS_EmptySet

\* Sums over disjoint sets add up.
LEMMA SumOfUnion ==
  ASSUME NEW amount, NEW S, NEW T, Amounts(amount, S), Amounts(amount, T), S \cap T = {}
  PROVE  /\ Amounts(amount, S \cup T)
         /\ SumOver(amount, S \cup T) = SumOver(amount, S) + SumOver(amount, T)
<1> DEFINE U == S \cup T
<1>1. IsFiniteSet(U) /\ \A x \in U : amount[x] \in Nat
  BY FS_Union DEF Amounts
<1>2. /\ Tokens(amount, U) = Tokens(amount, S) \cup Tokens(amount, T)
      /\ Tokens(amount, S) \cap Tokens(amount, T) = {}
  BY TokensSplit
<1>3. IsFiniteSet(Tokens(amount, S)) /\ IsFiniteSet(Tokens(amount, T))
  BY TokensFinite DEF Amounts
<1>4. /\ SumOver(amount, S) = Cardinality(Tokens(amount, S))
      /\ SumOver(amount, T) = Cardinality(Tokens(amount, T))
  BY SumIsCount DEF Amounts
<1> HIDE DEF U
<1>5. SumOver(amount, U) = Cardinality(Tokens(amount, U))
  BY <1>1, SumIsCount
<1>6. Cardinality(Tokens(amount, U)) = Cardinality(Tokens(amount, S)) + Cardinality(Tokens(amount, T))
  BY <1>2, <1>3, DisjointCount
<1> QED
  BY <1>1, <1>4, <1>5, <1>6 DEF Amounts, U

\* The sum with one element more.
LEMMA SumWith ==
  ASSUME NEW amount, NEW S, Amounts(amount, S), NEW x, x \notin S, amount[x] \in Nat
  PROVE  /\ Amounts(amount, S \cup {x})
         /\ SumOver(amount, S \cup {x}) = SumOver(amount, S) + amount[x]
<1>1. Amounts(amount, S \cup {x})
  BY FS_AddElement DEF Amounts
<1> DEFINE U == S \cup {x}
<1>2. x \in U /\ U \ {x} = S
  OBVIOUS
<1>3. Amounts(amount, U)
  BY <1>1
<1> HIDE DEF U
<1>4. Cardinality(Tokens(amount, U)) = amount[x] + Cardinality(Tokens(amount, S))
  BY <1>2, <1>3, TokensStep DEF Amounts
<1>5. SumOver(amount, U) = amount[x] + SumOver(amount, S)
  BY <1>3, <1>4, SumIsCount DEF Amounts
<1>6. SumOver(amount, S) \in Nat
  BY SumType
<1> QED
  BY <1>1, <1>5, <1>6 DEF U

\* A part has no greater sum, and the same if what is left out is zero.
LEMMA SumOfPart ==
  ASSUME NEW amount, NEW S, Amounts(amount, S), NEW T, T \subseteq S
  PROVE  /\ Amounts(amount, T)
         /\ SumOver(amount, T) <= SumOver(amount, S)
         /\ (\A x \in S \ T : amount[x] = 0) => SumOver(amount, T) = SumOver(amount, S)
<1>1. Amounts(amount, T)
  BY FS_Subset DEF Amounts
<1>2. /\ Tokens(amount, T) \subseteq Tokens(amount, S)
      /\ (\A x \in S \ T : amount[x] = 0) => Tokens(amount, T) = Tokens(amount, S)
  <2>1. Tokens(amount, T) \subseteq Tokens(amount, S)
    BY DEF Tokens
  <2>2. ASSUME \A x \in S \ T : amount[x] = 0, NEW t \in Tokens(amount, S)
        PROVE  t \in Tokens(amount, T)
    <3>1. PICK x \in S : t \in Unit(amount, x)
      BY DEF Tokens
    <3>2. amount[x] # 0
      BY <3>1 DEF Unit
    <3>3. x \in T
      BY <2>2, <3>2
    <3> QED
      BY <3>1, <3>3 DEF Tokens
  <2> QED
    BY <2>1, <2>2
<1>3. Cardinality(Tokens(amount, T)) <= Cardinality(Tokens(amount, S))
  BY <1>2, TokensFinite, FS_Subset DEF Amounts
<1> QED
  BY <1>1, <1>2, <1>3, SumIsCount DEF Amounts

\* A sum depends on the amounts in its set only.
LEMMA SumOfEqual ==
  ASSUME NEW f, NEW g, NEW S, Amounts(f, S), \A x \in S : g[x] = f[x]
  PROVE  Amounts(g, S) /\ SumOver(g, S) = SumOver(f, S)
<1>1. Amounts(g, S)
  BY DEF Amounts
<1>2. \A x \in S : Unit(g, x) = Unit(f, x)
  BY DEF Unit
<1>3. Tokens(g, S) = Tokens(f, S)
  BY <1>2 DEF Tokens
<1> QED
  BY <1>1, <1>3, SumIsCount DEF Amounts

AddUp(f, g, h, S) == \A x \in S : h[x] = f[x] + g[x]

\* The sum of sums, element by element.
LEMMA SumOfPlus ==
  ASSUME NEW f, NEW g, NEW h, NEW S, Amounts(f, S), Amounts(g, S), AddUp(f, g, h, S)
  PROVE  Amounts(h, S) /\ SumOver(h, S) = SumOver(f, S) + SumOver(g, S)
<1>1. Amounts(h, S) /\ IsFiniteSet(S) /\ \A x \in S : h[x] = f[x] + g[x]
  BY DEF Amounts, AddUp
<1> DEFINE P == {s \in SUBSET S : SumOver(h, s) = SumOver(f, s) + SumOver(g, s)}
<1>2. {} \in P
  BY SumOfNone
<1>3. ASSUME NEW s \in P, NEW x \in S, s \subseteq S, x \notin s
      PROVE  s \cup {x} \in P
  <2>1. Amounts(f, s) /\ Amounts(g, s) /\ Amounts(h, s)
    BY <1>1, <1>3, SumOfPart
  <2>2. f[x] \in Nat /\ g[x] \in Nat /\ h[x] \in Nat /\ h[x] = f[x] + g[x]
    BY <1>1 DEF Amounts
  <2>3. /\ SumOver(f, s \cup {x}) = SumOver(f, s) + f[x]
        /\ SumOver(g, s \cup {x}) = SumOver(g, s) + g[x]
        /\ SumOver(h, s \cup {x}) = SumOver(h, s) + h[x]
    BY <1>3, <2>1, <2>2, SumWith
  <2>4. SumOver(f, s) \in Nat /\ SumOver(g, s) \in Nat
    BY <2>1, SumType
  <2> QED
    BY <2>2, <2>3, <2>4
<1>4. S \in P
  <2> HIDE DEF P
  <2> QED
    BY <1>1, <1>2, <1>3, FiniteInduction
<1> QED
  BY <1>1, <1>4

\* In sums is what the disjoint sets group[x] hold.
Members(group, S) == UNION {group[x] : x \in S}
Grouped(amount, S, group, sums) ==
    /\ IsFiniteSet(S)
    /\ \A x \in S : Amounts(amount, group[x]) /\ sums[x] = SumOver(amount, group[x])
    /\ \A x, y \in S : x # y => group[x] \cap group[y] = {}

\* The sum of the sums over disjoint sets is that over all of them.
LEMMA SumOfSums ==
  ASSUME NEW amount, NEW S, NEW group, NEW sums, Grouped(amount, S, group, sums)
  PROVE  /\ Amounts(sums, S)
         /\ Amounts(amount, Members(group, S))
         /\ SumOver(sums, S) = SumOver(amount, Members(group, S))
<1> USE DEF Grouped
<1> DEFINE All(s) == Members(group, s)
           P == {s \in SUBSET S : Amounts(amount, All(s)) /\ SumOver(sums, s) = SumOver(amount, All(s))}
<1>1. Amounts(sums, S)
  BY SumType DEF Amounts
<1>2. {} \in P
  <2>1. All({}) = {}
    BY DEF Members
  <2> HIDE DEF All
  <2> QED
    BY <2>1, SumOfNone, FS_EmptySet DEF Amounts
<1>3. ASSUME NEW s \in P, NEW x \in S, s \subseteq S, x \notin s
      PROVE  s \cup {x} \in P
  <2>1. All(s \cup {x}) = All(s) \cup group[x] /\ All(s) \cap group[x] = {}
    BY <1>3 DEF Members
  <2>2. Amounts(sums, s) /\ sums[x] \in Nat /\ sums[x] = SumOver(amount, group[x])
    BY <1>1, <1>3, SumOfPart DEF Amounts
  <2>3. SumOver(sums, s \cup {x}) = SumOver(sums, s) + sums[x]
    BY <1>3, <2>2, SumWith
  <2>4. Amounts(amount, All(s)) /\ SumOver(sums, s) = SumOver(amount, All(s))
    OBVIOUS
  <2> HIDE DEF All
  <2>5. /\ Amounts(amount, All(s) \cup group[x])
        /\ SumOver(amount, All(s) \cup group[x]) = SumOver(amount, All(s)) + SumOver(amount, group[x])
    BY <2>1, <2>4, SumOfUnion
  <2> QED
    BY <1>3, <2>1, <2>2, <2>3, <2>4, <2>5
<1>4. S \in P
  <2> HIDE DEF P
  <2> QED
    BY <1>2, <1>3, FiniteInduction
<1> QED
  BY <1>1, <1>4

\* A sum over indexes is the sum over what they stand for, if they stand for different things.
LEMMA SumReindexed ==
  ASSUME NEW S, IsFiniteSet(S), NEW amount, NEW of, NEW sums,
         \A x \in S : amount[of[x]] \in Nat /\ sums[x] = amount[of[x]],
         \A x, y \in S : of[x] = of[y] => x = y
  PROVE  /\ Amounts(sums, S)
         /\ Amounts(amount, {of[x] : x \in S})
         /\ SumOver(sums, S) = SumOver(amount, {of[x] : x \in S})
<1> DEFINE Image(s) == {of[x] : x \in s}
           P == {s \in SUBSET S : Amounts(amount, Image(s)) /\ SumOver(sums, s) = SumOver(amount, Image(s))}
<1>1. Amounts(sums, S)
  BY DEF Amounts
<1>2. {} \in P
  <2>1. Image({}) = {}
    OBVIOUS
  <2> HIDE DEF Image
  <2> QED
    BY <2>1, SumOfNone, FS_EmptySet DEF Amounts
<1>3. ASSUME NEW s \in P, NEW x \in S, s \subseteq S, x \notin s
      PROVE  s \cup {x} \in P
  <2>1. Image(s \cup {x}) = Image(s) \cup {of[x]} /\ of[x] \notin Image(s)
    BY <1>3
  <2>2. Amounts(sums, s) /\ sums[x] \in Nat /\ sums[x] = amount[of[x]]
    BY <1>1, <1>3, SumOfPart DEF Amounts
  <2>3. SumOver(sums, s \cup {x}) = SumOver(sums, s) + sums[x]
    BY <1>3, <2>2, SumWith
  <2>4. Amounts(amount, Image(s)) /\ SumOver(sums, s) = SumOver(amount, Image(s))
    OBVIOUS
  <2> HIDE DEF Image
  <2>5. /\ Amounts(amount, Image(s) \cup {of[x]})
        /\ SumOver(amount, Image(s) \cup {of[x]}) = SumOver(amount, Image(s)) + amount[of[x]]
    BY <2>1, <2>2, <2>4, SumWith
  <2> QED
    BY <1>3, <2>1, <2>2, <2>3, <2>4, <2>5
<1>4. S \in P
  <2> HIDE DEF P
  <2> QED
    BY <1>2, <1>3, FiniteInduction
<1> QED
  BY <1>1, <1>4

\* Smaller amounts have no greater sum.
LEMMA SumOfLess ==
  ASSUME NEW f, NEW g, NEW S, Amounts(f, S), Amounts(g, S), \A x \in S : f[x] <= g[x]
  PROVE  SumOver(f, S) <= SumOver(g, S)
<1>1. \A x \in S : Unit(f, x) \subseteq Unit(g, x)
  BY DEF Unit, Amounts
<1>2. Tokens(f, S) \subseteq Tokens(g, S)
  BY <1>1 DEF Tokens
<1>3. Cardinality(Tokens(f, S)) <= Cardinality(Tokens(g, S))
  BY <1>2, TokensFinite, FS_Subset DEF Amounts
<1> QED
  BY <1>3, SumIsCount DEF Amounts

\* One element of a map grows by d, or enters it with d.
LEMMA SumOfChanged ==
  ASSUME NEW f, NEW g, NEW S, Amounts(f, S), NEW x, NEW d \in Nat,
         \A y \in S : y # x => g[y] = f[y],
         g[x] = (IF x \in S THEN f[x] ELSE 0) + d
  PROVE  Amounts(g, S \cup {x}) /\ SumOver(g, S \cup {x}) = SumOver(f, S) + d
<1> DEFINE R == S \ {x}
<1>1. Amounts(f, R) /\ x \notin R /\ R \cup {x} = S \cup {x}
  BY SumOfPart
<1>2. Amounts(g, R) /\ SumOver(g, R) = SumOver(f, R)
  <2>1. \A y \in R : g[y] = f[y]
    OBVIOUS
  <2> HIDE DEF R
  <2> QED
    BY <1>1, <2>1, SumOfEqual
<1>3. SumOver(f, R) \in Nat
  BY <1>1, SumType
<1>4. CASE x \in S
  <2>1. R \cup {x} = S /\ f[x] \in Nat /\ g[x] = f[x] + d
    BY <1>4 DEF Amounts
  <2> HIDE DEF R
  <2>2. SumOver(f, R \cup {x}) = SumOver(f, R) + f[x]
    BY <1>1, <2>1, SumWith
  <2>3. Amounts(g, R \cup {x}) /\ SumOver(g, R \cup {x}) = SumOver(g, R) + g[x]
    BY <1>1, <1>2, <2>1, SumWith
  <2> QED
    BY <1>1, <1>2, <1>3, <2>1, <2>2, <2>3
<1>5. CASE x \notin S
  <2>1. R = S /\ g[x] = d
    BY <1>5
  <2> HIDE DEF R
  <2>2. Amounts(g, R \cup {x}) /\ SumOver(g, R \cup {x}) = SumOver(g, R) + g[x]
    BY <1>1, <1>2, <2>1, SumWith
  <2> QED
    BY <1>1, <1>2, <2>1, <2>2
<1> QED
  BY <1>4, <1>5

-----------------------------------------------------------------------------
(* Sequences that grow                                                     *)

\* A sequence with one element more.
LEMMA LongerByOne ==
    ASSUME NEW s, s \in Seq(Range(s)), NEW x
    PROVE  /\ Append(s, x) \in Seq(Range(Append(s, x)))
           /\ Range(Append(s, x)) = Range(s) \cup {x}
<1> DEFINE S == Range(s) \cup {x}
           t == Append(s, x)
<1>1. s \in Seq(S) /\ x \in S
  BY DEF Range
<1>2. /\ t \in Seq(S) /\ Len(t) = Len(s) + 1 /\ t[Len(s) + 1] = x
      /\ \A i \in 1..Len(s) : t[i] = s[i]
  <2> HIDE DEF S
  <2> QED
    BY <1>1
<1> HIDE DEF t
<1>3. Range(t) = S
  BY <1>1, <1>2, SMTT(30) DEF Range
<1> QED
  BY <1>2, <1>3 DEF t, S

\* A sequence with others after it.
LEMMA LongerBySome ==
    ASSUME NEW s, s \in Seq(Range(s)), NEW f, f \in Seq(Range(f))
    PROVE  /\ s \o f \in Seq(Range(s \o f))
           /\ DOMAIN (s \o f) = 1..(Len(s) + Len(f))
           /\ \A i \in DOMAIN s : (s \o f)[i] = s[i]
           /\ \A i \in DOMAIN f : (s \o f)[Len(s) + i] = f[i]
<1> DEFINE S == Range(s) \cup Range(f)
           t == s \o f
<1>1. s \in Seq(S) /\ f \in Seq(S)
  BY DEF Range
<1>2. /\ t \in Seq(S) /\ Len(t) = Len(s) + Len(f)
      /\ \A i \in DOMAIN s : t[i] = s[i]
      /\ \A i \in DOMAIN f : t[Len(s) + i] = f[i]
  <2> HIDE DEF S
  <2> QED
    BY <1>1
<1> HIDE DEF t
<1>3. t \in Seq(Range(t))
  <2>1. DOMAIN t = 1..Len(t) /\ Len(t) \in Nat /\ \A i \in 1..Len(t) : t[i] \in Range(t)
    <3>1. DOMAIN t = 1..Len(t) /\ Len(t) \in Nat
      BY <1>2
    <3> QED
      BY <3>1 DEF Range
  <2>2. t \in [1..Len(t) -> Range(t)]
    BY <1>2, <2>1
  <2> HIDE DEF S
  <2> QED
    BY <2>1, <2>2
<1> QED
  BY <1>2, <1>3 DEF t

-----------------------------------------------------------------------------
(* Sequences of sequences, one after the other                             *)

\* Induction over the natural numbers, for a set of them.
LEMMA AllNumbers ==
    ASSUME NEW P, 0 \in P, \A k \in Nat : k \in P => k + 1 \in P
    PROVE  \A n \in Nat : n \in P
<1> DEFINE Rest == {n \in Nat : n \notin P}
<1> SUFFICES ASSUME Rest # {} PROVE FALSE
  OBVIOUS
<1>1. PICK m \in Rest : \A n \in Rest : m <= n
  <2>1. Rest \subseteq Nat
    OBVIOUS
  <2> HIDE DEF Rest
  <2> QED
    BY <2>1, LeastElement
<1>2. m # 0 /\ m - 1 \in Nat /\ m - 1 < m
  OBVIOUS
<1>3. m - 1 \in P
  BY <1>1, <1>2
<1>4. (m - 1) + 1 = m
  OBVIOUS
<1> QED
  BY <1>2, <1>3, <1>4

\* All days one after the other, up to each of them.
Joined(f, s, T) ==
    /\ f \in [0..Len(s) -> Seq(T)]
    /\ f[0] = <<>>
    /\ \A i \in 1..Len(s) : f[i] = f[i - 1] \o s[i]

LEMMA JoinedExists ==
    ASSUME NEW T, NEW s \in Seq(Seq(T))
    PROVE  \E f : Joined(f, s, T)
<1> DEFINE UpTo(k, f) == /\ f \in [0..k -> Seq(T)] /\ f[0] = <<>>
                         /\ \A i \in 1..k : f[i] = f[i - 1] \o s[i]
           P == {k \in Nat : k <= Len(s) => \E f : UpTo(k, f)}
<1>1. 0 \in P
  <2> DEFINE f == [i \in 0..0 |-> <<>>]
  <2>1. UpTo(0, f)
    OBVIOUS
  <2> QED
    BY <2>1
<1>2. ASSUME NEW k \in Nat, k \in P
      PROVE  k + 1 \in P
  <2> SUFFICES ASSUME k + 1 <= Len(s) PROVE \E f : UpTo(k + 1, f)
    <3> HIDE DEF UpTo
    <3> QED
      OBVIOUS
  <2>1. PICK f : UpTo(k, f)
    <3>1. k <= Len(s)
      OBVIOUS
    <3> HIDE DEF UpTo
    <3> QED
      BY <1>2, <3>1
  <2> DEFINE new == f[k] \o s[k + 1]
             g == [i \in 0..(k + 1) |-> IF i = k + 1 THEN new ELSE f[i]]
  <2>2. f[k] \in Seq(T) /\ s[k + 1] \in Seq(T)
    BY <2>1
  <2>3. f[k] \o s[k + 1] \in Seq(T)
    BY <2>2
  <2>4. g \in [0..(k + 1) -> Seq(T)] /\ g[0] = <<>>
    BY <2>1, <2>3
  <2>5. ASSUME NEW i \in 1..(k + 1)
        PROVE  g[i] = g[i - 1] \o s[i]
    <3>1. i - 1 \in 0..k /\ i - 1 # k + 1 /\ i \in 0..(k + 1) /\ i - 1 \in 0..(k + 1)
      OBVIOUS
    <3>2. g[i - 1] = f[i - 1]
      BY <3>1
    <3>3. i # k + 1 => i \in 1..k /\ g[i] = f[i]
      BY <3>1
    <3>4. g[k + 1] = f[k] \o s[k + 1]
      <4>1. k + 1 \in 0..(k + 1)
        OBVIOUS
      <4> HIDE DEF new
      <4>2. g[k + 1] = new
        BY <4>1
      <4> QED
        BY <4>2 DEF new
    <3>5. i = k + 1 => i - 1 = k
      OBVIOUS
    <3> HIDE DEF g
    <3> QED
      BY <2>1, <3>2, <3>3, <3>4, <3>5
  <2>6. UpTo(k + 1, g)
    BY <2>4, <2>5
  <2> QED
    BY <2>6
<1>3. Len(s) \in Nat
  OBVIOUS
<1>4. Len(s) \in P
  <2> HIDE DEF P
  <2> QED
    BY <1>1, <1>2, <1>3, AllNumbers
<1>5. PICK f : UpTo(Len(s), f)
  <2>1. Len(s) <= Len(s)
    BY <1>3
  <2> HIDE DEF UpTo
  <2> QED
    BY <1>4, <2>1
<1> QED
  BY <1>5 DEF Joined

LEMMA FlattenIsJoined ==
    ASSUME NEW T, NEW s \in Seq(Seq(T)), NEW f, Joined(f, s, T)
    PROVE  FlattenSeq(s) = f[Len(s)]
<1> USE DEF Joined
<1>1. CASE Len(s) = 0
  <2>1. s = <<>>
    BY <1>1
  <2> QED
    BY <1>1, <2>1 DEF FlattenSeq
<1>2. CASE Len(s) # 0
  <2> DEFINE n == Len(s)
             F(h) == [i \in 1..n |-> IF i = 1 THEN s[i] ELSE h[i - 1] \o s[i]]
             flatten == CHOOSE h : h = F(h)
             g == [i \in 1..n |-> f[i]]
  <2>1. n \in Nat /\ n >= 1
    BY <1>2
  <2>2. FlattenSeq(s) = flatten[n]
    BY <1>2 DEF FlattenSeq
  <2>3. g = F(g)
    <3>1. ASSUME NEW i \in 1..n
          PROVE  f[i] = IF i = 1 THEN s[i] ELSE g[i - 1] \o s[i]
      <4>1. CASE i = 1
        <5>1. s[1] \in Seq(T) /\ 1 \in 1..Len(s)
          BY <2>1
        <5>2. f[1] = f[1 - 1] \o s[1]
          BY <5>1
        <5>3. f[1 - 1] = <<>>
          OBVIOUS
        <5>4. <<>> \o s[1] = s[1]
          BY <5>1
        <5> QED
          BY <4>1, <5>2, <5>3, <5>4
      <4>2. CASE i # 1
        <5>1. i - 1 \in 1..n
          BY <2>1, <4>2
        <5>2. f[i] = f[i - 1] \o s[i] /\ g[i - 1] = f[i - 1]
          BY <5>1
        <5> HIDE DEF g
        <5> QED
          BY <4>2, <5>2
      <4> QED
        BY <4>1, <4>2
    <3> QED
      BY <3>1
  <2>4. flatten = F(flatten)
    <3>1. \E h : h = F(h)
      <4> HIDE DEF g, F
      <4> QED
        BY <2>3
    <3> HIDE DEF F
    <3> QED
      BY <3>1
  <2> HIDE DEF flatten
  <2> DEFINE P == {k \in Nat : k \in 1..n => flatten[k] = f[k]}
  <2>5. 0 \in P
    OBVIOUS
  <2>6. ASSUME NEW k \in Nat, k \in P
        PROVE  k + 1 \in P
    <3> SUFFICES ASSUME k + 1 \in 1..n PROVE flatten[k + 1] = f[k + 1]
      OBVIOUS
    <3>1. flatten[k + 1] = IF k + 1 = 1 THEN s[k + 1] ELSE flatten[(k + 1) - 1] \o s[k + 1]
      BY <2>4
    <3>2. f[k + 1] = IF k + 1 = 1 THEN s[k + 1] ELSE g[(k + 1) - 1] \o s[k + 1]
      <4>1. g[k + 1] = F(g)[k + 1] /\ g[k + 1] = f[k + 1]
        BY <2>3
      <4> QED
        BY <4>1
    <3>3. k + 1 # 1 => k \in 1..n /\ (k + 1) - 1 = k
      OBVIOUS
    <3> QED
      BY <2>6, <3>1, <3>2, <3>3
  <2>7. n \in P
    <3> HIDE DEF P, n
    <3> QED
      BY <2>1, <2>5, <2>6, AllNumbers
  <2> QED
    BY <2>1, <2>2, <2>7
<1> QED
  BY <1>1, <1>2

LEMMA FlattenType ==
    ASSUME NEW T, NEW s \in Seq(Seq(T))
    PROVE  FlattenSeq(s) \in Seq(T)
<1>1. PICK f : Joined(f, s, T)
  BY JoinedExists
<1>2. f[Len(s)] \in Seq(T)
  <2>1. Len(s) \in 0..Len(s)
    OBVIOUS
  <2> QED
    BY <1>1, <2>1 DEF Joined
<1> QED
  BY <1>1, <1>2, FlattenIsJoined

\* Sums of integers: a sum of differences is the difference of the sums.
LEMMA SumOfDifferences ==
  ASSUME NEW S, NEW p, NEW q, Amounts(p, S), Amounts(q, S),
         NEW f, \A x \in S : f[x] = p[x] - q[x]
  PROVE  SumOver(f, S) = SumOver(p, S) - SumOver(q, S)
<1> DEFINE Pick(s) == CHOOSE x \in s : TRUE
           F(h) == [s \in SUBSET S |-> IF s = {} THEN 0 ELSE f[Pick(s)] + h[s \ {Pick(s)}]]
           g == [s \in SUBSET S |-> SumOver(p, s) - SumOver(q, s)]
           iter == CHOOSE h : h = F(h)
<1>1. SumOver(f, S) = iter[S]
  BY DEF SumOver, MapThenSumSet, MapThenFoldSet
<1>2. \A s \in SUBSET S : s # {} => Pick(s) \in s
  OBVIOUS
<1>9. \A s \in SUBSET S : /\ Amounts(p, s) /\ Amounts(q, s) /\ IsFiniteSet(s)
                          /\ SumOver(p, s) \in Nat /\ SumOver(q, s) \in Nat
  BY SumOfPart, SumType DEF Amounts
<1> HIDE DEF Pick
<1>3. g = F(g)
  <2>1. ASSUME NEW s \in SUBSET S
        PROVE  g[s] = IF s = {} THEN 0 ELSE f[Pick(s)] + g[s \ {Pick(s)}]
    <3>1. CASE s = {}
      <4>1. SumOver(p, {}) = 0 /\ SumOver(q, {}) = 0
        BY SumOfNone
      <4> QED
        BY <3>1, <4>1
    <3>2. CASE s # {}
      <4> DEFINE x == Pick(s)
                 t == s \ {x}
      <4>1. x \in s /\ x \in S /\ t \in SUBSET S /\ x \notin t /\ t \cup {x} = s
        BY <1>2, <3>2
      <4>2. p[x] \in Nat /\ q[x] \in Nat /\ f[x] = p[x] - q[x]
        BY <4>1 DEF Amounts
      <4>3. g[s] = SumOver(p, s) - SumOver(q, s) /\ g[t] = SumOver(p, t) - SumOver(q, t)
        BY <4>1
      <4> HIDE DEF x, t, g
      <4>4. SumOver(p, t \cup {x}) = SumOver(p, t) + p[x]
        BY <1>9, <4>1, <4>2, SumWith
      <4>5. SumOver(q, t \cup {x}) = SumOver(q, t) + q[x]
        BY <1>9, <4>1, <4>2, SumWith
      <4>6. SumOver(p, t) \in Nat /\ SumOver(q, t) \in Nat
        BY <1>9, <4>1
      <4>7. SumOver(p, s) = SumOver(p, t) + p[x] /\ SumOver(q, s) = SumOver(q, t) + q[x]
        BY <4>1, <4>4, <4>5
      <4>8. g[s] = (SumOver(p, t) + p[x]) - (SumOver(q, t) + q[x])
        BY <4>3, <4>7
      <4>10. \A i, j, k, l \in Int : (i + j) - (k + l) = (j - l) + (i - k)
        OBVIOUS
      <4>9. g[s] = f[x] + g[t]
        BY <4>2, <4>3, <4>6, <4>8, <4>10
      <4> QED
        BY <3>2, <4>9 DEF x, t
    <3> QED
      BY <3>1, <3>2
  <2> QED
    BY <2>1
<1>4. iter = F(iter)
  <2> HIDE DEF F, g
  <2> QED
    BY <1>3
<1>5. ASSUME NEW s \in SUBSET S
      PROVE  iter[s] = IF s = {} THEN 0 ELSE f[Pick(s)] + iter[s \ {Pick(s)}]
  <2> HIDE DEF iter
  <2> QED
    BY <1>4
<1>6. ASSUME NEW s \in SUBSET S
      PROVE  g[s] = IF s = {} THEN 0 ELSE f[Pick(s)] + g[s \ {Pick(s)}]
  <2> HIDE DEF g
  <2> QED
    BY <1>3
<1> HIDE DEF iter, g, F
<1> DEFINE P == {s \in SUBSET S : iter[s] = g[s]}
           Bad == {s \in SUBSET S : iter[s] # g[s]}
           Sizes == {Cardinality(s) : s \in Bad}
<1>7. \A s \in SUBSET S : IsFiniteSet(s) /\ Cardinality(s) \in Nat
  BY <1>9, FS_CardinalityType
<1>8. Bad = {}
  <2> SUFFICES ASSUME Bad # {} PROVE FALSE
    OBVIOUS
  <2>1. Sizes \subseteq Nat /\ Sizes # {}
    BY <1>7
  <2>2. PICK m \in Sizes : \A k \in Sizes : m <= k
    <3> HIDE DEF Sizes
    <3> QED
      BY <2>1, LeastElement
  <2>3. PICK s \in Bad : m = Cardinality(s)
    OBVIOUS
  <2>4. s # {}
    BY <1>5, <1>6
  <2> DEFINE t == s \ {Pick(s)}
  <2>5. Pick(s) \in s /\ t \in SUBSET S
    BY <1>2, <2>4
  <2>6. Cardinality(t) = Cardinality(s) - 1
    BY <1>7, <2>5, FS_RemoveElement
  <2>7. t \notin Bad
    <3>1. t \in Bad => Cardinality(t) \in Sizes
      OBVIOUS
    <3>2. s \in SUBSET S
      OBVIOUS
    <3>3. Cardinality(s) \in Nat
      BY <1>7, <3>2
    <3> HIDE DEF t, Bad, Sizes
    <3>4. t \in Bad => m <= Cardinality(t)
      BY <2>2, <3>1
    <3> QED
      BY <2>3, <2>6, <3>3, <3>4
  <2> QED
    BY <1>5, <1>6, <2>4, <2>5, <2>7
<1> QED
  BY <1>1, <1>8 DEF g

=============================================================================
