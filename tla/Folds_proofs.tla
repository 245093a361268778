----------------------------- MODULE Folds_proofs -----------------------------
(***************************************************************************)
(* What the recursive functions of the models need to be proved about: the *)
(* loops over a list become a function of the number of rounds, and that   *)
(* such a function exists takes an induction over that number.             *)
(***************************************************************************)
EXTENDS Integers, WellFoundedInduction, TLAPS

\* Induction over the numbers up to n, for a property given by the set of
\* numbers that have it.
LEMMA Below ==
  ASSUME NEW n \in Nat, NEW S \in SUBSET Nat, 0 \in S, \A k \in S : k < n => k + 1 \in S
  PROVE  n \in S
<1> SUFFICES ASSUME n \notin S PROVE FALSE
  OBVIOUS
<1> DEFINE R == OpToRel(<, Nat)
           T == {k \in Nat : k <= n /\ k \notin S}
<1>1. IsWellFoundedOn(R, Nat)
  BY NatLessThanWellFounded
<1>2. T \subseteq Nat /\ T # {}
  OBVIOUS
<1>3. \A y \in T, x \in T : y < x => <<y, x>> \in R
  BY DEF OpToRel
<1> HIDE DEF R
<1>4. \E x \in T : \A y \in T : ~ (<<y, x>> \in R)
  <2> HIDE DEF T
  <2> QED
    BY <1>1, <1>2, WFMin
<1>5. PICK x \in T : \A y \in T : ~ (y < x)
  BY <1>3, <1>4
<1>6. x # 0 /\ x \in Nat /\ x <= n
  BY <1>5
<1>7. x - 1 \in S
  BY <1>5, <1>6
<1> QED
  BY <1>5, <1>6, <1>7

LoopOf(g, first, n, round) == g[0] = first /\ \A i \in 1..n : g[i] = round[i][g[i - 1]]

\* A loop of n rounds, each of which is a function of what the one before it
\* left: what it leaves after every round is a function of the rounds.
LEMMA Loop ==
  ASSUME NEW D, NEW first \in D, NEW n \in Nat, NEW round \in [1..n -> [D -> D]]
  PROVE  \E g \in [0..n -> D] : LoopOf(g, first, n, round)
<1> DEFINE Runs(k, g) == g[0] = first /\ \A i \in 1..k : g[i] = round[i][g[i - 1]]
           S == {k \in 0..n : \E g \in [0..k -> D] : Runs(k, g)}
<1>1. 0 \in S
  <2> DEFINE g == [i \in 0..0 |-> first]
  <2>1. g \in [0..0 -> D] /\ Runs(0, g)
    OBVIOUS
  <2>2. 0 \in 0..n
    OBVIOUS
  <2> HIDE DEF g, Runs
  <2> QED
    BY <2>1, <2>2
<1>2. ASSUME NEW k \in S, k < n PROVE k + 1 \in S
  <2>1. PICK g \in [0..k -> D] : Runs(k, g)
    OBVIOUS
  <2>2. k \in 0..n - 1 /\ k + 1 \in 1..n /\ k \in 0..k
    BY <1>2
  <2> DEFINE h == [i \in 0..k + 1 |-> IF i = k + 1 THEN round[k + 1][g[k]] ELSE g[i]]
  <2>3. g[k] \in D /\ round[k + 1] \in [D -> D]
    BY <2>1, <2>2
  <2>4. round[k + 1][g[k]] \in D
    BY <2>3
  <2>5. h \in [0..k + 1 -> D]
    BY <2>1, <2>2, <2>4
  <2>6. \A i \in 0..k : h[i] = g[i]
    BY <2>2
  <2>7. h[k + 1] = round[k + 1][g[k]]
    BY <2>2
  <2> HIDE DEF h
  <2>8. \A i \in 1..k + 1 : h[i] = round[i][h[i - 1]]
    <3> TAKE i \in 1..k + 1
    <3>1. CASE i = k + 1
      BY <2>2, <2>6, <2>7, <3>1
    <3>2. CASE i # k + 1
      <4>1. i \in 1..k /\ i \in 0..k /\ i - 1 \in 0..k
        BY <2>2, <3>2
      <4> QED
        BY <2>1, <2>6, <4>1
    <3> QED
      BY <3>1, <3>2
  <2>9. h[0] = first
    BY <2>1, <2>2, <2>6
  <2>10. Runs(k + 1, h)
    BY <2>8, <2>9
  <2>11. k + 1 \in 0..n
    BY <2>2
  <2> HIDE DEF Runs
  <2> QED
    BY <2>5, <2>10, <2>11
<1>3. n \in S
  <2> HIDE DEF S
  <2>1. S \in SUBSET Nat
    BY DEF S
  <2> QED
    BY <1>1, <1>2, <2>1, Below
<1> QED
  BY <1>3 DEF LoopOf
=============================================================================
