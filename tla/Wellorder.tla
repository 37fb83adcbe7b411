----------------------------- MODULE Wellorder -----------------------------
(***************************************************************************)
(* Sets of natural numbers have a least element: what the proofs use where *)
(* the code takes the first one of a list that satisfies a condition.      *)
(***************************************************************************)
EXTENDS Naturals, FiniteSets, FiniteSetTheorems, WellFoundedInduction, TLAPS

\* A set of natural numbers has a least one.
LEMMA Least ==
    ASSUME NEW T, T \subseteq Nat, T # {} PROVE \E x \in T : \A y \in T : x <= y
  <1> DEFINE W == { 0 .. n : n \in T }
             R == StrictSubsetOrdering(Nat)
  <1>1. IsWellFoundedOn(R, FiniteSubsetsOf(Nat))
    BY FS_StrictSubsetOrderingWellFounded, Zenon
  <1>2. W \subseteq FiniteSubsetsOf(Nat)
    <2>1. ASSUME NEW n \in T PROVE 0 .. n \subseteq Nat /\ IsFiniteSet(0 .. n)
      BY FS_Interval
    <2> QED BY <2>1 DEF FiniteSubsetsOf
  <1>3. W # {}
    OBVIOUS
  <1> HIDE DEF W, R
  <1>4. PICK w \in W : \A v \in W : ~(<< v, w >> \in R)
    BY <1>1, <1>2, <1>3, WFMin
  <1>5. PICK x \in T : w = 0 .. x
    BY DEF W
  <1>6. ASSUME NEW y \in T, y < x PROVE FALSE
    <2>1. 0 .. y \in W
      BY DEF W
    <2>2. 0 .. y \subseteq 0 .. x /\ 0 .. y # 0 .. x /\ 0 .. y \in SUBSET Nat /\ 0 .. x \in SUBSET Nat
      BY <1>6
    <2>3. << 0 .. y, 0 .. x >> \in R
      BY <2>2 DEF R, StrictSubsetOrdering
    <2> QED BY <1>4, <1>5, <2>1, <2>3
  <1> QED BY <1>6

\* Induction up to n, for a set.
LEMMA Induction ==
    ASSUME NEW n \in Nat, NEW T, 0 \in T, \A i \in 1 .. n : i - 1 \in T => i \in T
    PROVE  \A i \in 0 .. n : i \in T
  <1> DEFINE Bad == {m \in 0 .. n : m \notin T}
  <1>1. ASSUME Bad # {} PROVE FALSE
    <2>1. PICK m \in Bad : \A k \in Bad : m <= k
      <3>1. Bad \subseteq Nat
        OBVIOUS
      <3> HIDE DEF Bad
      <3> QED BY <1>1, <3>1, Least
    <2>2. m \in 1 .. n /\ m - 1 \in 0 .. n /\ m - 1 \notin Bad
      BY <2>1
    <2> QED BY <2>1, <2>2
  <1> QED BY <1>1

\* The functions on 0..n whose first value is a and whose other values follow
\* from the one before.
Recursive(n, S, a, next) ==
    {f \in [0 .. n -> S] : f[0] = a /\ \A i \in 1 .. n : f[i] = next[i][f[i - 1]]}

\* There is one.
LEMMA Recursion ==
    ASSUME NEW n \in Nat, NEW S, NEW a \in S, NEW next \in [1 .. n -> [S -> S]]
    PROVE  Recursive(n, S, a, next) # {}
  <1> DEFINE Good(f, m) == f[0] = a /\ \A i \in 1 .. m : f[i] = next[i][f[i - 1]]
             Bad == {m \in 0 .. n : ~\E f \in [0 .. m -> S] : Good(f, m)}
  <1>1. ASSUME Bad # {} PROVE FALSE
    <2>1. PICK m \in Bad : \A k \in Bad : m <= k
      <3>1. Bad \subseteq Nat
        OBVIOUS
      <3> HIDE DEF Bad
      <3> QED BY <1>1, <3>1, Least
    <2>2. \E f \in [0 .. 0 -> S] : Good(f, 0)
      <3>1. PICK f : f = [i \in 0 .. 0 |-> a]
        OBVIOUS
      <3>2. f \in [0 .. 0 -> S] /\ f[0] = a
        BY <3>1
      <3>3. 1 .. 0 = {}
        OBVIOUS
      <3> QED BY <3>2, <3>3
    <2>3. m \in 1 .. n /\ ~\E f \in [0 .. m -> S] : Good(f, m)
      <3>1. m \in 0 .. n /\ ~\E f \in [0 .. m -> S] : Good(f, m)
        <4> HIDE DEF Good
        <4> QED BY Zenon
      <3>2. ASSUME m = 0 PROVE FALSE
        <4> HIDE DEF Good
        <4> QED BY <2>2, <3>1, <3>2, Zenon
      <3> QED BY <3>1, <3>2
    <2>4. m - 1 \in 0 .. n /\ m - 1 \notin Bad
      <3> HIDE DEF Bad
      <3> QED BY <2>1, <2>3
    <2>5. PICK f \in [0 .. m - 1 -> S] : Good(f, m - 1)
      BY <2>4
    <2> DEFINE g == [i \in 0 .. m |-> IF i < m THEN f[i] ELSE next[m][f[m - 1]]]
    <2>6. f[m - 1] \in S /\ next[m][f[m - 1]] \in S
      <3>1. f[m - 1] \in S
        BY <2>3, <2>5
      <3>2. next[m] \in [S -> S]
        BY <2>3
      <3> QED BY <3>1, <3>2
    <2>7. g \in [0 .. m -> S]
      <3>1. \A i \in 0 .. m : i < m => i \in 0 .. m - 1
        BY <2>3
      <3> QED BY <2>5, <2>6, <3>1
    <2>8. \A i \in 0 .. m - 1 : g[i] = f[i]
      BY <2>3
    <2>9. g[m] = next[m][f[m - 1]]
      BY <2>3
    <2> HIDE DEF g
    <2>10. g[0] = a
      BY <2>3, <2>5, <2>8
    <2>11. ASSUME NEW i \in 1 .. m PROVE g[i] = next[i][g[i - 1]]
      <3>1. CASE i = m
        <4>1. m - 1 \in 0 .. m - 1
          BY <2>3
        <4> QED BY <2>8, <2>9, <3>1, <4>1
      <3>2. CASE i # m
        <4>1. i \in 1 .. m - 1 /\ i \in 0 .. m - 1 /\ i - 1 \in 0 .. m - 1
          BY <2>3, <3>2
        <4> QED BY <2>5, <2>8, <4>1
      <3> QED BY <3>1, <3>2
    <2>12. Good(g, m)
      BY <2>10, <2>11
    <2> QED BY <2>3, <2>7, <2>12
  <1>2. n \notin Bad
    BY <1>1
  <1> QED BY <1>2 DEF Recursive
=============================================================================
