-------------------------- MODULE InductionLemmas ---------------------------
(***************************************************************************)
(* Induction over the natural numbers for sets of them.  The theorems of   *)
(* the library take the statement as an operator; here it is a set, of the *)
(* numbers it holds for.                                                   *)
(***************************************************************************)
EXTENDS Integers, FiniteSetTheorems, WellFoundedInduction, TLAPS

(* Of some natural numbers one is the least: their initial segments are    *)
(* finite sets, and those are well-founded by inclusion.                   *)
LEMMA LeastExists ==
  ASSUME NEW S \in SUBSET Nat, S # {}
  PROVE  \E m \in S : \A n \in S : m <= n
<1> DEFINE R == StrictSubsetOrdering(Nat)
<1>1. PICK T : T = {0..m : m \in S}
  OBVIOUS
<1>2. T # {}
  BY <1>1
<1>3. T \subseteq FiniteSubsetsOf(Nat)
  <2>1. \A m \in Nat : IsFiniteSet(0..m) /\ 0..m \in SUBSET Nat
    BY FS_Interval
  <2>2. \A m \in Nat : 0..m \in FiniteSubsetsOf(Nat)
    BY <2>1, Zenon DEF FiniteSubsetsOf
  <2> QED
    BY <1>1, <2>2
<1>4. IsWellFoundedOn(R, FiniteSubsetsOf(Nat))
  BY FS_StrictSubsetOrderingWellFounded, Zenon
<1>5. PICK x \in T : \A y \in T : ~(<<y, x>> \in R)
  <2> HIDE DEF R
  <2> QED
    BY <1>2, <1>3, <1>4, WFMin, Zenon
<1>6. PICK m \in S : x = 0..m
  BY <1>1, <1>5
<1>7. ASSUME NEW n \in S, ~(m <= n)
      PROVE  FALSE
  <2>1. 0..n \subseteq 0..m /\ 0..n # 0..m
    BY <1>7
  <2>2. <<0..n, 0..m>> \in R
    BY <2>1 DEF StrictSubsetOrdering
  <2>3. 0..n \in T
    BY <1>1
  <2> QED
    BY <2>2, <2>3, <1>5, <1>6
<1> QED
  BY <1>6, <1>7

(* A set that has 0 and with each number the next has them all.            *)
LEMMA SetInduction ==
  ASSUME NEW S \in SUBSET Nat, 0 \in S, \A n \in S : n + 1 \in S
  PROVE  \A n \in Nat : n \in S
<1> SUFFICES ASSUME NEW k \in Nat \ S
             PROVE  FALSE
  OBVIOUS
<1>1. PICK m \in Nat \ S : \A n \in Nat \ S : m <= n
  BY LeastExists
<1>2. m # 0 /\ m - 1 \in Nat
  BY <1>1
<1>3. m - 1 \in S
  BY <1>1, <1>2
<1>4. (m - 1) + 1 = m
  BY <1>1
<1> QED
  BY <1>1, <1>3, <1>4
=============================================================================
