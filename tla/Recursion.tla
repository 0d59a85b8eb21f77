------------------------------ MODULE Recursion ------------------------------
(***************************************************************************)
(* Induction over the naturals and the existence of the functions that are *)
(* defined by recursion over them.  The induction theorems of the library  *)
(* take the formula to be proved as an operator; those here take the set   *)
(* of the numbers for which it holds, which every prover can instantiate.  *)
(***************************************************************************)
EXTENDS Integers, WellFoundedInduction, TLAPS

\* A set of naturals has a least element: < is well founded on them.
LEMMA LeastElement ==
  ASSUME NEW S \in SUBSET Nat, S # {}
  PROVE  \E n \in S : \A m \in S : n <= m
  <1>1. IsWellFoundedOn(OpToRel(<, Nat), Nat)
    BY NatLessThanWellFounded
  <1>2. PICK n \in S : \A m \in S : <<m, n>> \notin OpToRel(<, Nat)
    BY <1>1, WFMin
  <1>3. ASSUME NEW m \in S, m < n PROVE <<m, n>> \in OpToRel(<, Nat)
    <2>1. <<m, n>> \in Nat \X Nat /\ <<m, n>>[1] < <<m, n>>[2]
      BY <1>3
    <2> QED
      BY <2>1, Zenon DEF OpToRel
  <1>4. \A m \in S : ~(m < n)
    BY <1>2, <1>3
  <1> QED
    BY <1>4

LEMMA InductionOverNat ==
  ASSUME NEW P \in SUBSET Nat, 0 \in P, \A n \in P : n + 1 \in P
  PROVE  P = Nat
  <1> SUFFICES ASSUME Nat \ P # {} PROVE FALSE
    OBVIOUS
  <1>1. PICK n \in Nat \ P : \A m \in Nat \ P : n <= m
    BY LeastElement
  <1>2. n # 0 /\ n - 1 \in Nat /\ ~(n <= n - 1)
    BY <1>1
  <1>3. n - 1 \in P
    BY <1>1, <1>2
  <1> QED
    BY <1>1, <1>2, <1>3

\* From a first value and a step there is the function that goes on from the
\* one by the other.
LEMMA FunctionByRecursion ==
  ASSUME NEW S, NEW base \in S, NEW step \in [Nat -> [S -> S]]
  PROVE  \E f \in [Nat -> S] :
           f[0] = base /\ \A n \in Nat : f[n + 1] = step[n + 1][f[n]]
  <1> DEFINE Is(f, n) == /\ f \in [0..n -> S]
                         /\ f[0] = base
                         /\ \A m \in 0..n-1 : f[m + 1] = step[m + 1][f[m]]
  <1>1. ASSUME NEW n \in Nat, NEW f, Is(f, n), NEW g, Is(g, n), NEW m \in 0..n
        PROVE  f[m] = g[m]
    <2> DEFINE P == {k \in Nat : k <= n => f[k] = g[k]}
    <2>1. 0 \in P
      BY <1>1
    <2>2. ASSUME NEW k \in P PROVE k + 1 \in P
      <3>1. CASE k + 1 <= n
        <4>1. k \in 0..n-1 /\ k \in Nat /\ k <= n
          BY <2>2, <3>1
        <4>2. f[k] = g[k]
          BY <2>2, <4>1
        <4> QED
          BY <1>1, <4>1, <4>2
      <3> QED
        BY <2>2, <3>1
    <2>3. P = Nat
      <3> HIDE DEF P
      <3>1. P \in SUBSET Nat
        BY DEF P
      <3> QED
        BY <2>1, <2>2, <3>1, InductionOverNat
    <2>4. m \in Nat /\ m <= n
      <3> HIDE DEF P, Is
      <3> QED
        BY <1>1
    <2>5. m \in P
      <3> HIDE DEF P
      <3> QED
        BY <2>3, <2>4
    <2> HIDE DEF Is
    <2> QED
      BY <2>4, <2>5
  <1>2. \A n \in Nat : \E f : Is(f, n)
    <2> DEFINE P == {n \in Nat : \E f : Is(f, n)}
    <2>1. 0 \in P
      <3>1. Is([m \in 0..0 |-> base], 0)
        OBVIOUS
      <3> QED
        BY <3>1
    <2>2. ASSUME NEW n \in P PROVE n + 1 \in P
      <3>1. n \in Nat
        OBVIOUS
      <3>2. PICK f : Is(f, n)
        BY <2>2
      <3> DEFINE g == [m \in 0..n+1 |-> IF m = n + 1 THEN step[n + 1][f[n]] ELSE f[m]]
      <3>3. f[n] \in S /\ step[n + 1][f[n]] \in S
        BY <3>1, <3>2
      <3>4. g \in [0..n+1 -> S]
        <4>1. \A m \in 0..n+1 : m # n + 1 => m \in 0..n
          BY <3>1
        <4> QED
          BY <3>2, <3>3, <4>1
      <3>5. g[0] = base
        BY <3>1, <3>2
      <3>6. ASSUME NEW m \in 0..n PROVE g[m + 1] = step[m + 1][g[m]]
        <4>1. m \in 0..n+1 /\ m + 1 \in 0..n+1 /\ m # n + 1
          BY <3>1
        <4>2. g[m] = f[m]
          BY <4>1
        <4>3. CASE m = n
          BY <4>1, <4>2, <4>3
        <4>4. CASE m # n
          <5>1. m \in 0..n-1 /\ m + 1 # n + 1
            BY <3>1, <4>4
          <5> QED
            BY <3>2, <4>1, <4>2, <5>1
        <4> QED
          BY <4>3, <4>4
      <3>7. (n + 1) - 1 = n
        BY <3>1
      <3> HIDE DEF g
      <3>8. Is(g, n + 1)
        BY <3>4, <3>5, <3>6, <3>7
      <3> QED
        BY <3>1, <3>8
    <2>3. P = Nat
      <3> HIDE DEF P
      <3>1. P \in SUBSET Nat
        BY DEF P
      <3> QED
        BY <2>1, <2>2, <3>1, InductionOverNat
    <2> QED
      BY <2>3
  <1> DEFINE F(n) == CHOOSE f : Is(f, n)
             h == [n \in Nat |-> F(n)[n]]
  <1>3. \A n \in Nat : Is(F(n), n)
    BY <1>2, Zenon
  <1>4. \A n \in Nat : h[n] = F(n)[n]
    OBVIOUS
  <1> HIDE DEF F
  <1>5. h \in [Nat -> S]
    BY <1>3
  <1>6. h[0] = base
    BY <1>3
  <1>7. ASSUME NEW n \in Nat PROVE h[n + 1] = step[n + 1][h[n]]
    <2> DEFINE g == [m \in 0..n |-> F(n + 1)[m]]
    <2>1. Is(F(n + 1), n + 1) /\ n + 1 \in Nat
      BY <1>3
    <2>2. \A m \in 0..n-1 : m \in 0..(n + 1)-1 /\ m \in 0..n /\ m + 1 \in 0..n
      OBVIOUS
    <2>3. \A m \in 0..n : m \in 0..n+1
      OBVIOUS
    <2>4. Is(g, n)
      BY <2>1, <2>2, <2>3
    <2>5. Is(F(n), n) /\ n \in 0..n
      BY <1>3
    <2>6. F(n)[n] = F(n + 1)[n]
      <3>1. g[n] = F(n + 1)[n]
        BY <2>5
      <3>2. F(n)[n] = g[n]
        <4> HIDE DEF g, Is
        <4> QED
          BY <1>1, <2>4, <2>5
      <3> QED
        BY <3>1, <3>2
    <2>7. F(n + 1)[n + 1] = step[n + 1][F(n + 1)[n]]
      <3>1. n \in 0..(n + 1)-1
        OBVIOUS
      <3> QED
        BY <2>1, <3>1
    <2> QED
      BY <1>4, <2>1, <2>5, <2>6, <2>7
  <1> QED
    BY <1>5, <1>6, <1>7
=============================================================================
