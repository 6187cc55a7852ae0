---------------------------- MODULE NumberLemmas ----------------------------
(***************************************************************************)
(* Least and greatest members of sets of numbers.                          *)
(***************************************************************************)
EXTENDS Naturals, WellFoundedInduction, TLAPS

\* A set of numbers has a least one.
LEMMA LeastNumber ==
    ASSUME NEW T \in SUBSET Nat, NEW x \in T
    PROVE  \E m \in T : \A y \in T : m <= y
<1> DEFINE Less == {p \in Nat \X Nat : p[1] < p[2]}
<1>1. IsWellFoundedOn(Less, Nat)
  BY NatLessThanWellFounded DEF OpToRel
<1>2. PICK m \in T : \A y \in T : <<y, m>> \notin Less
  <2> HIDE DEF Less
  <2> QED
    BY <1>1, WFMin
<1>3. ASSUME NEW y \in T PROVE m <= y
  <2>1. m \in Nat /\ y \in Nat
    OBVIOUS
  <2>2. ~(y < m)
    BY <1>2, <2>1
  <2> QED
    BY <2>1, <2>2
<1> QED
  BY <1>3

\* A set of numbers up to n has a greatest one.
LEMMA GreatestNumber ==
    ASSUME NEW n \in Nat, NEW T \in SUBSET (0..n), NEW x \in T
    PROVE  \E m \in T : \A y \in T : m >= y
<1> DEFINE Gaps == {g \in 0..n : n - g \in T}
<1>1. Gaps \in SUBSET Nat /\ n - x \in Gaps
  OBVIOUS
<1>2. PICK g \in Gaps : \A h \in Gaps : g <= h
  <2> HIDE DEF Gaps
  <2> QED
    BY <1>1, LeastNumber
<1>3. ASSUME NEW y \in T PROVE n - g >= y
  <2>1. n - y \in Gaps
    OBVIOUS
  <2>2. g \in Nat /\ y \in Nat
    OBVIOUS
  <2>3. g <= n - y
    <3> HIDE DEF Gaps
    <3> QED
      BY <1>2, <2>1
  <2> QED
    BY <2>2, <2>3
<1> QED
  BY <1>2, <1>3
=============================================================================
