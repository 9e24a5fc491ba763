----------------------------- MODULE NatLemmas ------------------------------
(***************************************************************************)
(* Least elements, induction and recursion over the natural numbers, with  *)
(* sets and functions where the library's theorems have operators, so that *)
(* the provers can instantiate them.                                       *)
(***************************************************************************)
EXTENDS Integers, TLAPS, WellFoundedInduction

\* A set of natural numbers has a least one.
LEMMA LeastNatural ==
  ASSUME NEW T \in SUBSET Nat, T # {}
  PROVE  \E x \in T : \A y \in T : x <= y
<1> DEFINE R == OpToRel(<, Nat)
<1>1. IsWellFoundedOn(R, Nat)
  BY NatLessThanWellFounded
<1>2. PICK x \in T : \A y \in T : <<y, x>> \notin R
  <2> HIDE DEF R
  <2> QED BY <1>1, WFMin
<1>3. \A y \in T : y < x => <<y, x>> \in R
  BY DEF OpToRel
<1>4. \A y \in T : ~ (y < x)
  <2> HIDE DEF R
  <2> QED BY <1>2, <1>3, Zenon
<1>5. QED
  BY <1>4

\* Induction up to n: a set with 0, and with the successor of each of its
\* numbers below n, has all the numbers up to n.
LEMMA InductionUpTo ==
  ASSUME NEW n \in Nat, NEW T, 0 \in T,
         \A k \in 1..n : k - 1 \in T => k \in T
  PROVE  0..n \subseteq T
<1> DEFINE Out == {k \in 0..n : k \notin T}
<1> SUFFICES ASSUME Out # {} PROVE FALSE
  OBVIOUS
<1>1. PICK k \in Out : \A l \in Out : k <= l
  <2>1. Out \in SUBSET Nat
    OBVIOUS
  <2> HIDE DEF Out
  <2> QED BY <2>1, LeastNatural
<1>2. k \in 1..n /\ k - 1 \in 0..n
  OBVIOUS
<1>3. k - 1 \notin Out
  BY <1>1, <1>2
<1>4. QED
  BY <1>2, <1>3

\* f starts at c, and D[k] leads from its value at k - 1 to that at k.
Recurses(f, n, c, D) == f[0] = c /\ \A k \in 1..n : f[k] = D[k][f[k - 1]]

\* Primitive recursion up to n has a solution.
LEMMA RecursionUpTo ==
  ASSUME NEW n \in Nat, NEW V, NEW c \in V, NEW D \in [1..n -> [V -> V]]
  PROVE  \E f \in [0..n -> V] : Recurses(f, n, c, D)
<1> DEFINE Has(m) == \E f \in [0..m -> V] : Recurses(f, m, c, D)
           T == {m \in 0..n : Has(m)}
<1>1. Has(0)
  <2>1. [k \in 0..0 |-> c] \in [0..0 -> V] /\ Recurses([k \in 0..0 |-> c], 0, c, D)
    BY DEF Recurses
  <2>2. QED
    BY <2>1
<1>2. ASSUME NEW m \in 1..n, Has(m - 1)
      PROVE  Has(m)
  <2>1. PICK f \in [0..m - 1 -> V] : Recurses(f, m - 1, c, D)
    BY <1>2
  <2> DEFINE g == [k \in 0..m |-> IF k = m THEN D[m][f[m - 1]] ELSE f[k]]
  <2>2. f[m - 1] \in V
    OBVIOUS
  <2>3. D[m][f[m - 1]] \in V
    BY <2>2
  <2>4. g \in [0..m -> V]
    BY <2>3
  <2>5. g[0] = c
    BY <2>1 DEF Recurses
  <2>6. ASSUME NEW k \in 1..m PROVE g[k] = D[k][g[k - 1]]
    <3>1. CASE k = m
      BY <3>1
    <3>2. CASE k # m
      <4>1. k \in 1..m - 1 /\ k - 1 \in 0..m - 1
        BY <3>2
      <4>2. QED
        BY <2>1, <4>1, <3>2 DEF Recurses
    <3>3. QED
      BY <3>1, <3>2
  <2>7. Recurses(g, m, c, D)
    BY <2>5, <2>6 DEF Recurses
  <2> HIDE DEF g
  <2>8. QED
    BY <2>4, <2>7
<1> HIDE DEF Has
<1>3. 0 \in T /\ \A k \in 1..n : k - 1 \in T => k \in T
  BY <1>1, <1>2
<1>4. n \in T
  <2> HIDE DEF T
  <2>1. 0..n \subseteq T
    BY <1>3, InductionUpTo, Zenon
  <2>2. QED
    BY <2>1
<1>5. QED
  BY <1>4 DEF Has
=============================================================================
