----------------------------- MODULE Recursion -----------------------------
(***************************************************************************)
(* Induction and recursion over the natural numbers, for the loops that    *)
(* the components write as recursive functions.  A property is a set of    *)
(* numbers here and a step of a loop is a function, so that the provers    *)
(* need no operator as a parameter.                                        *)
(***************************************************************************)
EXTENDS Integers, WellFoundedInduction, TLAPS

\* A set of natural numbers has a least one.
LEMMA LeastOfSet ==
  ASSUME NEW S \in SUBSET Nat, S # {}
  PROVE  \E n \in S : \A m \in S : n <= m
<1>1. IsWellFoundedOn(OpToRel(<, Nat), Nat)
  BY NatLessThanWellFounded
<1>2. \E n \in S : \A m \in S : ~ (<<m, n>> \in OpToRel(<, Nat))
  BY <1>1, WFMin
<1>3. \E n \in S : \A m \in S : ~ (m < n)
  BY <1>2 DEF OpToRel
<1> QED
  BY <1>3

\* Induction, with a set for the property.
LEMMA SetInduction ==
  ASSUME NEW S, 0 \in S, \A n \in Nat : n \in S => n + 1 \in S
  PROVE  Nat \subseteq S
<1> SUFFICES ASSUME NEW k \in Nat, k \notin S PROVE FALSE
  OBVIOUS
<1> DEFINE Failing == {n \in Nat : n \notin S}
<1>1. \E n \in Failing : \A m \in Failing : n <= m
  <2>1. Failing \in SUBSET Nat /\ k \in Failing
    OBVIOUS
  <2> HIDE DEF Failing
  <2> QED
    BY <2>1, LeastOfSet
<1>2. PICK n \in Nat : n \notin S /\ \A m \in Nat : m \notin S => n <= m
  BY <1>1
<1>3. n - 1 \in Nat /\ n - 1 \in S
  BY <1>2
<1> QED
  BY <1>2, <1>3

\* A start and a step for every number make a function up to any number.
Recursible(V) ==
  \A a \in V : \A F \in [Nat -> [V -> V]] : \A n \in Nat :
    \E f \in [0 .. n -> V] : f[0] = a /\ \A i \in 1 .. n : f[i] = F[i][f[i - 1]]

\* The function is built one number after another.
LEMMA RecursionDefines ==
  ASSUME NEW V
  PROVE  Recursible(V)
<1> USE DEF Recursible
<1> TAKE a \in V
<1> TAKE F \in [Nat -> [V -> V]]
<1> DEFINE Is(f, m) == f[0] = a /\ \A i \in 1 .. m : f[i] = F[i][f[i - 1]]
           S == {m \in Nat : \E f \in [0 .. m -> V] : Is(f, m)}
<1>1. 0 \in S
  <2>1. [i \in 0 .. 0 |-> a] \in [0 .. 0 -> V] /\ Is([i \in 0 .. 0 |-> a], 0)
    OBVIOUS
  <2> QED
    BY <2>1
<1>2. ASSUME NEW m \in Nat, m \in S PROVE m + 1 \in S
  <2>1. PICK f \in [0 .. m -> V] : Is(f, m)
    BY <1>2
  <2> DEFINE g == [i \in 0 .. m + 1 |-> IF i = m + 1 THEN F[m + 1][f[m]] ELSE f[i]]
  <2>2. g \in [0 .. m + 1 -> V]
    OBVIOUS
  <2>3. Is(g, m + 1)
    BY <2>1
  <2>4. \E h \in [0 .. m + 1 -> V] : Is(h, m + 1)
    <3> HIDE DEF Is, g
    <3> QED
      BY <2>2, <2>3
  <2> QED
    BY <2>4
<1>3. Nat \subseteq S
  <2> HIDE DEF S
  <2> QED
    BY <1>1, <1>2, SetInduction
<1>4. \A n \in Nat : \E f \in [0 .. n -> V] : Is(f, n)
  <2> HIDE DEF Is
  <2> QED
    BY <1>3
<1> QED
  BY <1>4
=============================================================================
