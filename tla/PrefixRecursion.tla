--------------------------- MODULE PrefixRecursion ---------------------------
(***************************************************************************)
(* Induction and recursion over the natural numbers, stated about sets and *)
(* functions rather than operators, so that the proofs about the recursive *)
(* definitions of the models can cite them: Outbox::pending folds a file   *)
(* line by line, and a reduction joins the contents of its parents one by  *)
(* one.                                                                    *)
(***************************************************************************)
EXTENDS Integers, Sequences, FiniteSetTheorems, TLAPS

(* Every non-empty set of natural numbers has a least element.             *)
LEMMA LeastNatural ==
    ASSUME NEW T \in SUBSET Nat, T # {}
    PROVE  \E m \in T : \A k \in T : m <= k
<1> DEFINE R == StrictSubsetOrdering(Nat)
<1> DEFINE U == {1..n : n \in T}
<1>1. IsWellFoundedOn(R, FiniteSubsetsOf(Nat))
  BY FS_StrictSubsetOrderingWellFounded
<1>2. U \subseteq FiniteSubsetsOf(Nat)
  <2>1. ASSUME NEW n \in T
        PROVE  1..n \in FiniteSubsetsOf(Nat)
    <3>1. IsFiniteSet(1..n)
      BY FS_Interval
    <3>2. 1..n \subseteq Nat
      OBVIOUS
    <3> QED BY <3>1, <3>2 DEF FiniteSubsetsOf
  <2> QED BY <2>1
<1>3. U # {}
  OBVIOUS
<1>4. \E s \in U : \A t \in U : ~ (<<t, s>> \in R)
  <2> HIDE DEF R, U
  <2> QED BY <1>1, <1>2, <1>3, WFMin
<1>5. PICK m \in T : \A k \in T : ~ (<<1..k, 1..m>> \in R)
  BY <1>4
<1>6. ASSUME NEW k \in T, k < m
      PROVE  FALSE
  <2>1. 1..k \subseteq 1..m /\ 1..k # 1..m
    <3>1. m \in 1..m /\ m \notin 1..k
      BY <1>6
    <3> QED BY <3>1, <1>6
  <2>2. 1..k \subseteq Nat /\ 1..m \subseteq Nat
    OBVIOUS
  <2>3. <<1..k, 1..m>> \in R
    BY <2>1, <2>2, Zenon DEF StrictSubsetOrdering
  <2> QED BY <2>3, <1>5
<1> QED
  BY <1>6

(* A set that holds zero and with every number up to a bound the next one  *)
(* holds every number up to the bound.                                     *)
LEMMA InductionUpTo ==
    ASSUME NEW N \in Nat, NEW S, 0 \in S,
           \A n \in 0 .. N - 1 : n \in S => n + 1 \in S
    PROVE  \A n \in 0 .. N : n \in S
<1> DEFINE T == {n \in 0 .. N : n \notin S}
<1> SUFFICES ASSUME T # {} PROVE FALSE
  OBVIOUS
<1>1. PICK m \in T : \A k \in T : m <= k
  <2>1. T \in SUBSET Nat
    OBVIOUS
  <2> HIDE DEF T
  <2> QED BY <2>1, LeastNatural
<1>2. m # 0 /\ m \in Nat /\ m <= N /\ m \notin S
  OBVIOUS
<1>3. m - 1 \in 0 .. N - 1 /\ ~ (m <= m - 1) /\ m - 1 \in 0 .. N /\ (m - 1) + 1 = m
  BY <1>2
<1>4. m - 1 \in S
  BY <1>1, <1>3
<1> QED
  BY <1>2, <1>3, <1>4

(* step[n] makes the value at n out of the value before it.                *)
IsStep(step, N, V) == step \in [1 .. N -> [V -> V]]
Follows(f, N, V, base, step) ==
    /\ f \in [0 .. N -> V]
    /\ f[0] = base
    /\ \A n \in 1 .. N : f[n] = step[n][f[n - 1]]

(* Values can be defined step by step, each from the one before.           *)
LEMMA PrefixRecursionExists ==
    ASSUME NEW N \in Nat, NEW V, NEW base \in V, NEW step, IsStep(step, N, V)
    PROVE  \E f : Follows(f, N, V, base, step)
<1> USE DEF IsStep
<1> DEFINE Good(f, n) == \A i \in 1 .. n : f[i] = step[i][f[i - 1]]
<1> DEFINE S == {n \in 0 .. N : \E f \in [0 .. n -> V] : f[0] = base /\ Good(f, n)}
<1>1. 0 \in S
  <2> DEFINE f == [i \in 0 .. 0 |-> base]
  <2>1. f \in [0 .. 0 -> V] /\ f[0] = base
    OBVIOUS
  <2>2. Good(f, 0)
    OBVIOUS
  <2>3. 0 \in 0 .. N
    OBVIOUS
  <2> HIDE DEF f
  <2> QED BY <2>1, <2>2, <2>3
<1>2. ASSUME NEW n \in 0 .. N - 1, n \in S
      PROVE  n + 1 \in S
  <2>1. PICK f \in [0 .. n -> V] : f[0] = base /\ Good(f, n)
    BY <1>2
  <2> DEFINE v == step[n + 1][f[n]]
  <2> DEFINE g == [i \in 0 .. n + 1 |-> IF i = n + 1 THEN v ELSE f[i]]
  <2>2. v \in V
    OBVIOUS
  <2> HIDE DEF v
  <2>3. g \in [0 .. n + 1 -> V]
    BY <2>2
  <2>4. g[0] = base /\ \A i \in 0 .. n : g[i] = f[i]
    BY <2>1
  <2>5. g[n + 1] = v
    OBVIOUS
  <2> HIDE DEF g
  <2>6. ASSUME NEW i \in 1 .. n + 1
        PROVE  g[i] = step[i][g[i - 1]]
    <3>1. CASE i = n + 1
      <4>1. i - 1 = n /\ n \in 0 .. n
        BY <3>1
      <4> QED BY <3>1, <4>1, <2>4, <2>5 DEF v
    <3>2. CASE i # n + 1
      <4>1. i \in 1 .. n /\ i \in 0 .. n /\ i - 1 \in 0 .. n
        BY <3>2
      <4> QED BY <4>1, <2>1, <2>4
    <3> QED BY <3>1, <3>2
  <2>7. Good(g, n + 1)
    BY <2>6
  <2>8. n + 1 \in 0 .. N
    OBVIOUS
  <2> QED
    BY <2>3, <2>4, <2>7, <2>8
<1>3. N \in S
  <2> HIDE DEF S
  <2>1. \A n \in 0 .. N : n \in S
    BY <1>1, <1>2, InductionUpTo
  <2> QED BY <2>1
<1> QED
  BY <1>3 DEF Follows
=============================================================================
