------------------------------ MODULE NatLemmas ------------------------------
(***************************************************************************)
(* Induction over the natural numbers, as statements about sets of them,   *)
(* in which form the provers can use it.                                   *)
(***************************************************************************)
EXTENDS Integers, WellFoundedInduction, TLAPS

\* A non-empty set of natural numbers has a least element.
LEMMA LeastNatural ==
  ASSUME NEW S \in SUBSET Nat, S # {}
  PROVE  \E n \in S : \A m \in S : n <= m
  <1> DEFINE R == OpToRel(<, Nat)
  <1>1. IsWellFoundedOn(R, Nat)
    BY NatLessThanWellFounded
  <1> HIDE DEF R
  <1>2. PICK n \in S : \A m \in S : <<m, n>> \notin R
    BY <1>1, WFMin
  <1>3. ASSUME NEW m \in S PROVE n <= m
    <2>1. m < n => <<m, n>> \in R
      BY DEF R, OpToRel
    <2> QED BY <1>2, <2>1
  <1> QED BY <1>3

\* A set of natural numbers that has 0, and with a number its successor, has
\* them all.
LEMMA NaturalsByInduction ==
  ASSUME NEW S \in SUBSET Nat, 0 \in S, \A n \in S : n + 1 \in S
  PROVE  S = Nat
  <1>1. SUFFICES ASSUME Nat \ S # {} PROVE FALSE
    OBVIOUS
  <1>2. PICK n \in Nat \ S : \A m \in Nat \ S : n <= m
    BY <1>1, LeastNatural
  <1>3. n - 1 \in S
    BY <1>2
  <1> QED BY <1>2, <1>3

\* A function can be defined by recursion on an interval.
LEMMA RecursiveFunctionExists ==
  ASSUME NEW S, NEW z \in S, NEW N \in Nat, NEW step \in [1..N -> [S -> S]]
  PROVE  \E f \in [0..N -> S] : f[0] = z /\ \A n \in 1..N : f[n] = step[n][f[n - 1]]
  <1> DEFINE Defined(f, n) == f \in [0..n -> S] /\ f[0] = z /\ \A i \in 1..n : f[i] = step[i][f[i - 1]]
             D == {n \in Nat : n <= N => \E f : Defined(f, n)}
  <1>1. 0 \in D
    <2>1. Defined([i \in 0..0 |-> z], 0)
      OBVIOUS
    <2> QED BY <2>1
  <1>2. ASSUME NEW n \in D PROVE n + 1 \in D
    <2>1. SUFFICES ASSUME n + 1 <= N PROVE \E f : Defined(f, n + 1)
      OBVIOUS
    <2>2. PICK f : Defined(f, n)
      BY <2>1
    <2> DEFINE g == [i \in 0..n + 1 |-> IF i = n + 1 THEN step[n + 1][f[n]] ELSE f[i]]
    <2>3. f[n] \in S /\ step[n + 1][f[n]] \in S
      BY <2>1, <2>2
    <2>4. g \in [0..n + 1 -> S] /\ g[0] = z
      BY <2>2, <2>3
    <2>5. \A i \in 1..n + 1 : g[i] = step[i][g[i - 1]]
      BY <2>2
    <2>6. Defined(g, n + 1)
      BY <2>4, <2>5
    <2> QED BY <2>6
  <1>3. D \in SUBSET Nat
    OBVIOUS
  <1>4. D = Nat
    <2> HIDE DEF D
    <2> QED BY <1>1, <1>2, <1>3, NaturalsByInduction
  <1>5. \E f : Defined(f, N)
    BY <1>4
  <1> QED BY <1>5

\* The same with names for the steps and what follows them: the provers find
\* the instances of this form where the set is a set of numbers.
Steps(N, S) == [1..N -> [S -> S]]
RunsThrough(f, z, N, step) == f[0] = z /\ \A n \in 1..N : f[n] = step[n][f[n - 1]]

LEMMA FollowingExists ==
  ASSUME NEW S, NEW N \in Nat, NEW z \in S, NEW step \in Steps(N, S)
  PROVE  \E f \in [0..N -> S] : RunsThrough(f, z, N, step)
  <1>1. step \in [1..N -> [S -> S]]
    BY DEF Steps
  <1>2. \E f \in [0..N -> S] : f[0] = z /\ \A n \in 1..N : f[n] = step[n][f[n - 1]]
    BY <1>1, RecursiveFunctionExists
  <1> QED BY <1>2 DEF RunsThrough
==============================================================================
