---------------------------- MODULE FiniteOrders ----------------------------
(***************************************************************************)
(* Facts about finite sets in a strict total order, and about sets of       *)
(* natural numbers, that the proofs of several components rest on.          *)
(***************************************************************************)
EXTENDS Naturals, FiniteSets, FiniteSetTheorems, TLAPS

\* R is a strict total order on S.
Orders(R, S) ==
    /\ \A x \in S : <<x, x>> \notin R
    /\ \A x, y, z \in S : <<x, y>> \in R /\ <<y, z>> \in R => <<x, z>> \in R
    /\ \A x, y \in S : x # y => <<x, y>> \in R \/ <<y, x>> \in R

\* The members of S that R puts before x: as many as the rank of x.
Before(x, R, S) == {y \in S : <<y, x>> \in R}

\* What comes later in the order has more before it.
LEMMA RanksGrow ==
  ASSUME NEW S, IsFiniteSet(S), NEW R, Orders(R, S), NEW x \in S, NEW y \in S, <<x, y>> \in R
  PROVE  Cardinality(Before(x, R, S)) < Cardinality(Before(y, R, S))
<1>1. Before(x, R, S) \in SUBSET Before(y, R, S) /\ Before(x, R, S) # Before(y, R, S)
  BY DEF Before, Orders
<1>2. /\ IsFiniteSet(Before(y, R, S)) /\ Cardinality(Before(y, R, S)) \in Nat
      /\ IsFiniteSet(Before(x, R, S)) /\ Cardinality(Before(x, R, S)) \in Nat
  BY FS_Subset, FS_CardinalityType DEF Before
<1> QED
  BY <1>1, <1>2, FS_Subset

\* The ranks of n members are the numbers from 0 to n - 1, each of them taken:
\* a listing of a finite set in the order of its rows has no gap.
LEMMA RanksAreTaken ==
  ASSUME NEW S, IsFiniteSet(S), NEW R, Orders(R, S)
  PROVE  /\ Cardinality(S) \in Nat
         /\ \A x \in S : Cardinality(Before(x, R, S)) \in 0..(Cardinality(S) - 1)
         /\ \A k \in 0..(Cardinality(S) - 1) : \E x \in S : Cardinality(Before(x, R, S)) = k
<1> DEFINE n == Cardinality(S)
           rank == [x \in S |-> Cardinality(Before(x, R, S))]
<1>1. n \in Nat
  BY FS_CardinalityType
<1>2. ASSUME NEW x \in S
      PROVE  Cardinality(Before(x, R, S)) \in 0..(n - 1)
  <2>1. Before(x, R, S) \in SUBSET S /\ Before(x, R, S) # S
    BY DEF Before, Orders
  <2>2. Cardinality(Before(x, R, S)) \in Nat
    BY <2>1, FS_Subset, FS_CardinalityType
  <2> QED
    BY <1>1, <2>1, <2>2, FS_Subset
<1>3. rank \in Injection(S, 0..(n - 1))
  <2>1. rank \in [S -> 0..(n - 1)]
    BY <1>2
  <2>2. ASSUME NEW x \in S, NEW y \in S, rank[x] = rank[y]
        PROVE  x = y
    <3>1. /\ <<x, y>> \notin R /\ <<y, x>> \notin R
      BY <1>1, <1>2, <2>2, RanksGrow
    <3> QED
      BY <3>1 DEF Orders
  <2> QED
    BY <2>1, <2>2 DEF Injection, IsInjective
<1>4. IsFiniteSet(0..(n - 1)) /\ Cardinality(0..(n - 1)) = n
  <2>1. Cardinality(0..(n - 1)) = IF 0 > n - 1 THEN 0 ELSE n - 1 - 0 + 1
    BY <1>1, FS_Interval
  <2> QED
    BY <1>1, <2>1, FS_Interval
<1>5. rank \in Surjection(S, 0..(n - 1))
  BY <1>3, <1>4, FS_Injection
<1>6. \A k \in 0..(n - 1) : \E x \in S : Cardinality(Before(x, R, S)) = k
  BY <1>5 DEF Surjection
<1> QED
  BY <1>1, <1>2, <1>6

\* Among natural numbers there is a least one: the minimal counterexample that
\* stands in for an induction.
LEMMA SmallestNat ==
  ASSUME NEW T \in SUBSET Nat, T # {}
  PROVE  \E n \in T : \A m \in T : n <= m
<1>1. PICK k \in T : TRUE
  OBVIOUS
<1> DEFINE S == {m \in T : m <= k}
           R == {p \in S \X S : p[1] < p[2]}
<1>2. IsFiniteSet(S) /\ S # {} /\ S \subseteq Nat
  <2>1. k \in Nat /\ k <= k
    BY <1>1
  <2>2. S \in SUBSET Nat /\ k \in S
    BY <1>1, <2>1
  <2>3. \A m \in S : m <= k
    OBVIOUS
  <2> QED
    BY <2>1, <2>2, <2>3, FS_BoundedSetOfNaturals
<1>3. Orders(R, S)
  BY <1>2 DEF Orders
<1>4. Cardinality(S) \in Nat /\ Cardinality(S) # 0
  BY <1>2, FS_CardinalityType, FS_EmptySet
<1>5. PICK n \in S : Cardinality(Before(n, R, S)) = 0
  <2>1. 0 \in 0..(Cardinality(S) - 1)
    BY <1>4
  <2> HIDE DEF S, R
  <2> QED
    BY <1>2, <1>3, <2>1, RanksAreTaken
<1>6. Before(n, R, S) = {}
  <2>1. IsFiniteSet(Before(n, R, S))
    BY <1>2, FS_Subset DEF Before
  <2> QED
    BY <1>5, <2>1, FS_EmptySet
<1>7. \A m \in S : n <= m
  <2> SUFFICES ASSUME NEW m \in S, ~(n <= m)
               PROVE  FALSE
    OBVIOUS
  <2>1. n \in Nat /\ m \in Nat
    BY <1>2
  <2>2. <<m, n>> \in R
    BY <2>1
  <2> QED
    BY <1>6, <2>2 DEF Before
<1> QED
  BY <1>1, <1>2, <1>7

\* A finite set of n row ids has a first, a second, ... an n-th member.
LEMMA RowsAreNumbered ==
  ASSUME NEW S, S \subseteq Nat, IsFiniteSet(S), NEW n \in 1..Cardinality(S)
  PROVE  \E d \in S : Cardinality({e \in S : e <= d}) = n
<1> DEFINE R == {p \in S \X S : p[1] < p[2]}
<1>1. Orders(R, S)
  BY DEF Orders
<1>2. Cardinality(S) \in Nat
  BY FS_CardinalityType
<1>3. PICK d \in S : Cardinality(Before(d, R, S)) = n - 1
  <2>1. n - 1 \in 0..(Cardinality(S) - 1)
    BY <1>2
  <2> HIDE DEF R
  <2> QED
    BY <1>1, <2>1, RanksAreTaken
<1>4. {e \in S : e <= d} = Before(d, R, S) \cup {d}
  <2>1. \A e \in S : e <= d <=> <<e, d>> \in R \/ e = d
    OBVIOUS
  <2> HIDE DEF R
  <2> QED
    BY <2>1 DEF Before
<1>5. d \notin Before(d, R, S)
  BY DEF Before
<1>6. IsFiniteSet(Before(d, R, S))
  BY FS_Subset DEF Before
<1>7. Cardinality(Before(d, R, S) \cup {d}) = Cardinality(Before(d, R, S)) + 1
  BY <1>5, <1>6, FS_AddElement
<1>8. n - 1 + 1 = n
  BY <1>2
<1> QED
  BY <1>3, <1>4, <1>7, <1>8
=============================================================================
