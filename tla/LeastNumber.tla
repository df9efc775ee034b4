---------------------------- MODULE LeastNumber ----------------------------
(***************************************************************************)
(* The least-number principle, from which the proofs about choices and     *)
(* about sequences of steps take what they need of induction.              *)
(***************************************************************************)
EXTENDS Integers, WellFoundedInduction, TLAPS

\* The order of the natural numbers, as a relation.
Below == OpToRel(<, Nat)

\* It is what it says.
LEMMA BelowIsLess == Below = {p \in Nat \X Nat : p[1] < p[2]}
  BY Zenon DEF Below, OpToRel

\* No sequence of natural numbers goes down for ever.
LEMMA BelowWellFounded == IsWellFoundedOn(Below, Nat)
  BY NatLessThanWellFounded, Zenon DEF Below

\* A set of natural numbers that is not empty has a least element.
LEMMA Least ==
  ASSUME NEW T, T \subseteq Nat, T # {}
  PROVE  \E x \in T : \A y \in T : x <= y
<1>1. PICK x \in T : \A y \in T : ~ (<<y, x>> \in Below)
  BY BelowWellFounded, WFMin
<1>2. ASSUME NEW y \in T PROVE x <= y
  <2>1. y < x => <<y, x>> \in Below
    BY BelowIsLess
  <2>2. ~(y < x)
    BY <1>1, <2>1
  <2> QED
    BY <2>2
<1> QED
  BY <1>2

\* So a set of them that has a smaller one for each of its elements is empty:
\* the counterexamples of a statement proved by induction.
LEMMA Descent ==
  ASSUME NEW T, T \subseteq Nat, \A x \in T : \E y \in T : y < x
  PROVE  T = {}
<1> SUFFICES ASSUME T # {} PROVE FALSE
  OBVIOUS
<1>1. PICK x \in T : \A y \in T : x <= y
  BY Least
<1>2. PICK y \in T : y < x
  OBVIOUS
<1>3. x \in Nat /\ y \in Nat /\ x <= y
  BY <1>1
<1> QED
  BY <1>2, <1>3
=============================================================================
