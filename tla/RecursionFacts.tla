--------------------------- MODULE RecursionFacts ---------------------------
(***************************************************************************)
(* Induction and recursion over an interval of numbers, stated with sets   *)
(* and functions where the library has operators: for the functions that   *)
(* the specifications define by recursion on a length.  And what it means  *)
(* to count the members of a set that come before one.                     *)
(***************************************************************************)
EXTENDS Integers, FiniteSets, TLAPS, WellFoundedInduction, NaturalsInduction, FiniteSetTheorems

LEMMA LeastNumber ==
    ASSUME NEW S \in SUBSET Nat, S # {}
    PROVE  \E k \in S : \A j \in S : k <= j
<1> DEFINE R == {ss \in Nat \X Nat : ss[1] < ss[2]}
<1>1. R = OpToRel(<, Nat)
  BY DEF OpToRel
<1>2. IsWellFoundedOn(R, Nat)
  BY <1>1, NatLessThanWellFounded
<1>3. PICK k \in S : \A j \in S : <<j, k>> \notin R
  BY <1>2, WFMin
<1>4. ASSUME NEW j \in S PROVE k <= j
  <2>1. <<j, k>> \notin R
    BY <1>3
  <2> QED BY <2>1
<1> QED BY <1>4

(* S holds the numbers up to n when it holds 0 and the successor of each.  *)
LEMMA IntervalInduction ==
    ASSUME NEW n \in Nat, NEW S, 0 \in S, \A k \in 0 .. n - 1 : k \in S => k + 1 \in S
    PROVE  0 .. n \subseteq S
<1> SUFFICES ASSUME ~(0 .. n \subseteq S) PROVE FALSE
  OBVIOUS
<1> DEFINE T == {k \in 0 .. n : k \notin S}
<1>1. T \in SUBSET Nat /\ T # {}
  OBVIOUS
<1>2. PICK k \in T : \A j \in T : k <= j
  BY <1>1, LeastNumber, Zenon
<1>3. k \in 1 .. n /\ k \notin S
  OBVIOUS
<1>4. k - 1 \in 0 .. n - 1 /\ k - 1 \notin T
  BY <1>2, <1>3
<1>5. k - 1 \in S
  BY <1>4
<1> QED BY <1>3, <1>4, <1>5

(* The function that starts at a and goes on by g exists.                  *)
Iterates(f, n, a, g) == f[0] = a /\ \A k \in 1 .. n : f[k] = g[k][f[k - 1]]

LEMMA IntervalRecursion ==
    ASSUME NEW n \in Nat, NEW A, NEW a \in A, NEW g \in [1 .. n -> [A -> A]]
    PROVE  \E f \in [0 .. n -> A] : Iterates(f, n, a, g)
<1> DEFINE Solves(f, m) == /\ f \in [0 .. m -> A]
                           /\ f[0] = a /\ \A k \in 1 .. m : f[k] = g[k][f[k - 1]]
           S == {m \in 0 .. n : \E f \in [0 .. m -> A] : Solves(f, m)}
<1>1. 0 \in S
  <2> DEFINE f == [k \in 0 .. 0 |-> a]
  <2>1. Solves(f, 0)
    OBVIOUS
  <2> HIDE DEF f
  <2> QED BY <2>1
<1>2. ASSUME NEW m \in 0 .. n - 1, m \in S PROVE m + 1 \in S
  <2>1. PICK f \in [0 .. m -> A] : Solves(f, m)
    BY <1>2
  <2> DEFINE h == [k \in 0 .. m + 1 |-> IF k <= m THEN f[k] ELSE g[m + 1][f[m]]]
  <2>2. m \in 0 .. m /\ m + 1 \in 1 .. n /\ 0 \in 0 .. m + 1 /\ 0 <= m
    OBVIOUS
  <2>3. f[m] \in A /\ g[m + 1] \in [A -> A]
    BY <2>1, <2>2
  <2>4. h \in [0 .. m + 1 -> A]
    <3>1. ASSUME NEW k \in 0 .. m + 1, k <= m PROVE f[k] \in A
      BY <2>1, <3>1
    <3> QED BY <2>3, <3>1
  <2>5. h[0] = a
    BY <2>1, <2>2
  <2>6. ASSUME NEW k \in 1 .. m + 1 PROVE h[k] = g[k][h[k - 1]]
    <3>1. CASE k <= m
      <4>1. k \in 0 .. m + 1 /\ k - 1 \in 0 .. m + 1 /\ k - 1 <= m /\ k \in 1 .. m
        BY <3>1
      <4>2. h[k] = f[k] /\ h[k - 1] = f[k - 1]
        BY <3>1, <4>1
      <4> QED BY <4>1, <4>2, <2>1
    <3>2. CASE k = m + 1
      <4>1. k - 1 = m /\ m \in 0 .. m + 1 /\ m + 1 \in 0 .. m + 1 /\ ~(m + 1 <= m)
        BY <3>2
      <4>2. h[m] = f[m] /\ h[m + 1] = g[m + 1][f[m]]
        BY <4>1
      <4> QED BY <3>2, <4>1, <4>2
    <3> QED BY <3>1, <3>2
  <2> HIDE DEF h
  <2>7. Solves(h, m + 1)
    BY <2>4, <2>5, <2>6
  <2> QED BY <2>4, <2>7, <2>2
<1> HIDE DEF S
<1>3. 0 .. n \subseteq S
  BY <1>1, <1>2, IntervalInduction
<1>4. n \in S
  BY <1>3
<1> USE DEF S
<1>5. \E f \in [0 .. n -> A] : f[0] = a /\ \A k \in 1 .. n : f[k] = g[k][f[k - 1]]
  BY <1>4
<1> QED BY <1>5, Zenon DEF Iterates

-----------------------------------------------------------------------------
(* Counting.                                                               *)

LEMMA SameCount ==
    ASSUME NEW U, IsFiniteSet(U), NEW f, f = [q \in U |-> f[q]],
           \A q, r \in U : f[q] = f[r] => q = r
    PROVE  Cardinality({f[q] : q \in U}) = Cardinality(U)
<1> DEFINE R == {f[q] : q \in U}
<1>1. f \in [U -> R] /\ DOMAIN f = U /\ \A k \in R : \E q \in U : f[q] = k
  OBVIOUS
<1> HIDE DEF R
<1>2. f \in Injection(U, R)
  BY <1>1, Zenon DEF Injection, IsInjective
<1>3. f \in Surjection(U, R)
  BY <1>1, Zenon DEF Surjection
<1>4. ExistsBijection(U, R)
  BY <1>2, <1>3, Zenon DEF ExistsBijection, Bijection
<1>5. Cardinality(R) = Cardinality(U)
  BY <1>4, FS_Bijection
<1> QED BY <1>5 DEF R

(* Members ranked by how many others come before them in a strict order R, *)
(* a set of pairs: the ranks are 0, 1, ... and each is taken once.         *)
Before(R, U, q) == {r \in U : <<r, q>> \in R}
Orders(R, U) ==
    /\ \A q \in U : <<q, q>> \notin R
    /\ \A q, r \in U : q = r \/ <<q, r>> \in R \/ <<r, q>> \in R
    /\ \A q, r, s \in U : <<q, r>> \in R /\ <<r, s>> \in R => <<q, s>> \in R

LEMMA RanksFilled ==
    ASSUME NEW U, IsFiniteSet(U), NEW R, Orders(R, U)
    PROVE  /\ Cardinality(U) \in Nat
           /\ \A q \in U : Cardinality(Before(R, U, q)) \in 0 .. Cardinality(U) - 1
           /\ \A q, r \in U : Cardinality(Before(R, U, q)) = Cardinality(Before(R, U, r)) => q = r
           /\ \A k \in 0 .. Cardinality(U) - 1 : \E q \in U : Cardinality(Before(R, U, q)) = k
<1> DEFINE n == Cardinality(U)
           rank == [q \in U |-> Cardinality(Before(R, U, q))]
           ranks == {rank[q] : q \in U}
<1>1. n \in Nat
  BY FS_CardinalityType
<1>2. ASSUME NEW q \in U
      PROVE  /\ Before(R, U, q) \in SUBSET U /\ q \notin Before(R, U, q)
             /\ IsFiniteSet(Before(R, U, q)) /\ Cardinality(Before(R, U, q)) \in 0 .. n - 1
  <2>1. Before(R, U, q) \in SUBSET U
    BY DEF Before
  <2>2. q \notin Before(R, U, q)
    BY DEF Before, Orders
  <2>3. /\ IsFiniteSet(Before(R, U, q)) /\ Cardinality(Before(R, U, q)) <= n
        /\ (n = Cardinality(Before(R, U, q)) => U = Before(R, U, q))
    BY <2>1, FS_Subset
  <2>4. Cardinality(Before(R, U, q)) \in Nat
    BY <2>3, FS_CardinalityType
  <2> QED BY <1>1, <2>1, <2>2, <2>3, <2>4
<1>3. ASSUME NEW q \in U, NEW r \in U, <<q, r>> \in R
      PROVE  Cardinality(Before(R, U, q)) # Cardinality(Before(R, U, r))
  <2>1. Before(R, U, q) \in SUBSET Before(R, U, r)
    <3>1. ASSUME NEW s \in U, <<s, q>> \in R PROVE <<s, r>> \in R
      BY <1>3, <3>1 DEF Orders
    <3> QED BY <3>1 DEF Before
  <2>2. q \in Before(R, U, r)
    BY <1>3 DEF Before
  <2> QED BY <1>2, <2>1, <2>2, FS_Subset
<1>4. ASSUME NEW q \in U, NEW r \in U, Cardinality(Before(R, U, q)) = Cardinality(Before(R, U, r))
      PROVE  q = r
  BY <1>3, <1>4 DEF Orders
<1>5. ranks = 0 .. n - 1
  <2>1. \A q \in U : rank[q] = Cardinality(Before(R, U, q))
    OBVIOUS
  <2> HIDE DEF rank, n
  <2>2. ranks \in SUBSET (0 .. n - 1)
    BY <1>2, <2>1
  <2>3. IsFiniteSet(0 .. n - 1) /\ Cardinality(0 .. n - 1) = n
    <3>1. 0 \in Int /\ n - 1 \in Int
      BY <1>1
    <3>2. IsFiniteSet(0 .. n - 1)
          /\ Cardinality(0 .. n - 1) = IF 0 > n - 1 THEN 0 ELSE n - 1 - 0 + 1
      BY <3>1, FS_Interval
    <3> QED BY <1>1, <3>2
  <2>4. rank = [q \in U |-> rank[q]] /\ \A q, r \in U : rank[q] = rank[r] => q = r
    BY <1>4, <2>1 DEF rank
  <2>5. Cardinality(ranks) = n
    BY <2>4, SameCount DEF n
  <2> QED BY <2>2, <2>3, <2>5, FS_Subset
<1>6. ASSUME NEW k \in 0 .. n - 1 PROVE \E q \in U : Cardinality(Before(R, U, q)) = k
  <2>1. k \in ranks
    BY <1>5
  <2>2. PICK q \in U : k = rank[q]
    BY <2>1
  <2> QED BY <2>2
<1> QED BY <1>1, <1>2, <1>4, <1>6
=============================================================================
