------------------------------- MODULE Measures -------------------------------
(***************************************************************************)
(* What is common to the proofs that a component comes to an end: tuples   *)
(* of numbers, of which the first that differs decides, cannot go down for *)
(* ever.                                                                   *)
(***************************************************************************)
EXTENDS Naturals, FiniteSets, FiniteSetTheorems, WellFoundedInduction, TLAPS

Tuples(n) == [1..n -> Nat]
Falls(n)  == LexProductOrdering(OpToRel(<, Nat), Nat, n)

\* A measure of n numbers cannot fall at every step of an endless run: the
\* ground on which ts-dep, ts-make, the resolution and a build of the driver
\* are shown to end.
THEOREM NothingFallsForever ==
  ASSUME NEW n \in Nat
  PROVE  IsWellFoundedOn(Falls(n), Tuples(n))
PROOF
  BY NatLessThanWellFounded, WFLexProductOrdering DEF Falls, Tuples

\* A measure falls if one of its numbers does and none before it changes.
LEMMA FallsAt ==
  ASSUME NEW n \in Nat, NEW a \in Tuples(n), NEW b \in Tuples(n), NEW k \in 1..n,
         a[k] < b[k], \A i \in 1..(k - 1) : a[i] = b[i]
  PROVE  <<a, b>> \in Falls(n)
PROOF
  <1>1. <<a[k], b[k]>> \in OpToRel(<, Nat)
    BY DEF Tuples, OpToRel
  <1> QED
    BY <1>1 DEF Falls, LexProductOrdering, Tuples

\* A finite set without one of its members has fewer.
LEMMA FewerMembers ==
  ASSUME NEW S, IsFiniteSet(S), NEW T, T \subseteq S
  PROVE  /\ IsFiniteSet(T) /\ Cardinality(T) \in Nat /\ Cardinality(S) \in Nat
         /\ Cardinality(T) <= Cardinality(S)
         /\ T # S => Cardinality(T) < Cardinality(S)
PROOF
  BY FS_Subset, FS_CardinalityType
===============================================================================
