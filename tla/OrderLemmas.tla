---------------------------- MODULE OrderLemmas ----------------------------
(***************************************************************************)
(* Extreme elements of sets of integers, which the searches of the trees   *)
(* return.                                                                 *)
(***************************************************************************)
EXTENDS Integers, FiniteSetTheorems, TLAPS

\* Every nonempty set of naturals has a least element.
LEMMA LeastNatural ==
  ASSUME NEW S \in SUBSET Nat, S # {}
  PROVE  \E m \in S : \A k \in S : m <= k
<1> DEFINE T == {0..m : m \in S}
           R == StrictSubsetOrdering(Nat)
<1>1. T \subseteq FiniteSubsetsOf(Nat)
  <2>1. ASSUME NEW m \in S PROVE IsFiniteSet(0..m) /\ 0..m \in SUBSET Nat
    BY FS_Interval
  <2> QED BY <2>1 DEF FiniteSubsetsOf
<1>2. IsWellFoundedOn(R, FiniteSubsetsOf(Nat))
  BY FS_StrictSubsetOrderingWellFounded
<1>a. T # {}
  OBVIOUS
<1> HIDE DEF R, T
<1>3. PICK x \in T : \A y \in T : ~(<<y, x>> \in R)
  BY <1>1, <1>2, <1>a, WFMin
<1>4. PICK m \in S : x = 0..m
  BY DEF T
<1>5. ASSUME NEW k \in S, k < m PROVE FALSE
  <2>1. 0..k \subseteq 0..m /\ 0..k # 0..m
    BY <1>5
  <2>2. <<0..k, x>> \in R
    BY <2>1, <1>4 DEF R, StrictSubsetOrdering
  <2>3. 0..k \in T
    BY DEF T
  <2> QED BY <2>2, <2>3, <1>3
<1> QED BY <1>5

\* So has every nonempty set of integers with an upper bound a greatest one.
LEMMA GreatestInteger ==
  ASSUME NEW top \in Int, NEW S \in SUBSET Int, S # {},
         \A k \in S : k <= top
  PROVE  \E m \in S : \A k \in S : k <= m
<1> DEFINE D == {top - k : k \in S}
<1>1. D \in SUBSET Nat /\ D # {}
  <2>1. \A k \in S : top - k \in Nat
    OBVIOUS
  <2> QED BY <2>1
<1> HIDE DEF D
<1>2. PICK d \in D : \A e \in D : d <= e
  BY <1>1, LeastNatural
<1>3. PICK m \in S : d = top - m
  BY DEF D
<1>4. ASSUME NEW k \in S PROVE k <= m
  <2>1. top - k \in D
    BY DEF D
  <2> QED BY <2>1, <1>2, <1>3
<1> QED BY <1>4
=============================================================================
