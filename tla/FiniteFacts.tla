----------------------------- MODULE FiniteFacts ------------------------------
(* What the proofs use of finite sets and of the naturals.  All of it follows    *)
(* from the theorems of the library, which slow the provers down when a module    *)
(* extends them: lemmas take these facts as assumptions, and the module that       *)
(* concludes shows them from an instance of the library.                           *)
EXTENDS Naturals, FiniteSets

FinEmpty == \A S : IsFiniteSet(S) => (Cardinality(S) = 0 <=> S = {})
FinNone == IsFiniteSet({}) /\ Cardinality({}) = 0
FinCount == \A S : IsFiniteSet(S) => Cardinality(S) \in Nat
FinAdd == \A S, x : IsFiniteSet(S) =>
            /\ IsFiniteSet(S \cup {x})
            /\ x \notin S => Cardinality(S \cup {x}) = Cardinality(S) + 1
FinRemove == \A S, x : IsFiniteSet(S) =>
               /\ IsFiniteSet(S \ {x})
               /\ Cardinality(S \ {x}) = Cardinality(S) - (IF x \in S THEN 1 ELSE 0)
FinSub == \A S, T : IsFiniteSet(T) /\ S \subseteq T =>
            IsFiniteSet(S) /\ Cardinality(S) <= Cardinality(T)
FinInterval == \A n \in Nat : IsFiniteSet(1 .. n) /\ Cardinality(1 .. n) = n

\* The indices that are left when the first element of a sequence goes.
FinShift == \A n \in Nat : \A S \in SUBSET (1 .. n + 1) : \A T :
              T = {i \in 1 .. n : i + 1 \in S} =>
                /\ IsFiniteSet(T)
                /\ Cardinality(S) = Cardinality(T) + (IF 1 \in S THEN 1 ELSE 0)
LeastNat == \A T \in SUBSET Nat : T # {} => \E x \in T : \A y \in T : x <= y

SetFacts == FinNone /\ FinCount /\ FinAdd /\ FinRemove /\ FinSub
CountFacts ==
  FinEmpty /\ FinNone /\ FinCount /\ FinAdd /\ FinRemove /\ FinSub /\ FinInterval /\ FinShift /\ LeastNat
===============================================================================
