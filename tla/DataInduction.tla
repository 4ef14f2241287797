----------------------------- MODULE DataInduction -----------------------------
(***************************************************************************)
(* Induction over numbers and finite sets, stated with sets.               *)
(***************************************************************************)
EXTENDS Integers, Sequences, FiniteSetTheorems, TLAPS

\* The order of the natural numbers as a set of pairs.
LEMMA LessRelation == \A m, n \in Nat : <<m, n>> \in OpToRel(<, Nat) <=> m < n
BY DEF OpToRel

\* A set of natural numbers that is not empty has a least element.
LEMMA LeastElement ==
  ASSUME NEW T \in SUBSET Nat, T # {}
  PROVE  \E m \in T : \A k \in T : m =< k
<1>1. IsWellFoundedOn(OpToRel(<, Nat), Nat)
  BY NatLessThanWellFounded
<1>2. PICK m \in T : \A k \in T : ~ (<<k, m>> \in OpToRel(<, Nat))
  BY <1>1, WFMin
<1>3. \A k \in T : ~ (k < m)
  BY <1>2, LessRelation
<1> QED
  BY <1>3

\* A set of natural numbers that holds 0 and every successor holds them all.
LEMMA NatSetInduction ==
  ASSUME NEW S \in SUBSET Nat, 0 \in S, \A n \in S : n + 1 \in S
  PROVE  S = Nat
<1> SUFFICES ASSUME S # Nat PROVE FALSE
  OBVIOUS
<1> DEFINE T == Nat \ S
<1>1. PICK m \in T : \A k \in T : m =< k
  <2>1. T \in SUBSET Nat /\ T # {}
    OBVIOUS
  <2> HIDE DEF T
  <2> QED
    BY <2>1, LeastElement
<1>2. m # 0 /\ m \in Nat
  BY <1>1
<1>3. m - 1 \in S
  BY <1>1, <1>2
<1> QED
  BY <1>3, <1>1, <1>2

\* A family of subsets of a finite set that holds a subset whenever it holds
\* everything one element smaller holds them all.
LEMMA SubsetInduction ==
  ASSUME NEW S, IsFiniteSet(S), NEW C \in SUBSET (SUBSET S),
         \A V \in SUBSET S : (\A x \in V : V \ {x} \in C) => V \in C
  PROVE  C = SUBSET S
<1> DEFINE N == {n \in Nat : \A V \in SUBSET S : Cardinality(V) = n => V \in C}
<1>0. \A V \in SUBSET S : IsFiniteSet(V) /\ Cardinality(V) \in Nat
  BY FS_Subset, FS_CardinalityType
<1>1. 0 \in N
  <2>1. ASSUME NEW V \in SUBSET S, Cardinality(V) = 0 PROVE V \in C
    <3>1. V = {}
      BY <1>0, <2>1, FS_EmptySet
    <3> QED
      BY <3>1
  <2> QED
    BY <2>1
<1>2. ASSUME NEW n \in N PROVE n + 1 \in N
  <2>1. ASSUME NEW V \in SUBSET S, Cardinality(V) = n + 1 PROVE V \in C
    <3>1. ASSUME NEW x \in V PROVE V \ {x} \in C
      <4>1. n \in Nat /\ IsFiniteSet(V)
        BY <1>0
      <4>2. Cardinality(V \ {x}) = Cardinality(V) - 1
        BY <4>1, <3>1, FS_RemoveElement
      <4>3. Cardinality(V \ {x}) = n
        BY <2>1, <4>1, <4>2
      <4> QED
        BY <4>3
    <3> QED
      BY <3>1
  <2> QED
    BY <2>1
<1>3. N = Nat
  <2>1. N \in SUBSET Nat
    OBVIOUS
  <2> HIDE DEF N
  <2> QED
    BY <1>1, <1>2, <2>1, NatSetInduction
<1>4. \A V \in SUBSET S : V \in C
  BY <1>0, <1>3
<1> QED
  BY <1>4
=============================================================================
