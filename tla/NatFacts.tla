------------------------------ MODULE NatFacts ------------------------------
(***************************************************************************)
(* Facts about natural numbers that the proofs share: induction and        *)
(* recursion, with sets and functions in the place of formulas.            *)
(***************************************************************************)
EXTENDS Integers, FiniteSetTheorems, WellFoundedInduction, TLAPS

\* A set of natural numbers has a least element, unless it is empty.
LEMMA NatLeast ==
  ASSUME NEW S \in SUBSET Nat, S # {}
  PROVE  \E x \in S : \A y \in S : x <= y
<1> DEFINE R == OpToRel(<, Nat)
<1>1. IsWellFoundedOn(R, Nat)
  BY NatLessThanWellFounded, Zenon
<1>2. \A x, y \in Nat : y < x => <<y, x>> \in R
  BY DEF OpToRel
<1> HIDE DEF R
<1>3. PICK x \in S : \A y \in S : ~ (<<y, x>> \in R)
  BY <1>1, WFMin
<1>4. \A y \in S : ~ (y < x)
  BY <1>2, <1>3
<1> QED
  BY <1>4

\* Induction, with the numbers the claim holds for as a set.
LEMMA NatSetInduction ==
  ASSUME NEW T \in SUBSET Nat, 0 \in T, \A n \in T : n + 1 \in T
  PROVE  T = Nat
<1> SUFFICES ASSUME Nat \ T # {} PROVE FALSE
  OBVIOUS
<1>1. PICK x \in Nat \ T : \A y \in Nat \ T : x <= y
  BY NatLeast
<1>2. x # 0 /\ x - 1 \in Nat /\ (x - 1) + 1 = x
  BY <1>1
<1> QED
  BY <1>1, <1>2

\* A finite set of natural numbers has a greatest element, unless it is empty.
LEMMA NatGreatest ==
  ASSUME NEW S \in SUBSET Nat, IsFiniteSet(S), S # {}
  PROVE  \E x \in S : \A y \in S : y <= x
<1>1. PICK n \in Nat : ExistsSurjection(1 .. n, S)
  BY FS_NatSurjection
<1>2. PICK f \in [1 .. n -> S] : \A y \in S : \E i \in 1 .. n : f[i] = y
  BY <1>1 DEF ExistsSurjection, Surjection
<1>3. \A i \in 1 .. n : f[i] \in Nat
  BY <1>2
<1> DEFINE T == {k \in Nat : k <= n => \E m \in Nat : \A i \in 1 .. k : f[i] <= m}
<1>4. 0 \in T
  OBVIOUS
<1>5. ASSUME NEW k \in T PROVE k + 1 \in T
  <2> SUFFICES ASSUME k + 1 <= n PROVE \E m \in Nat : \A i \in 1 .. k + 1 : f[i] <= m
    OBVIOUS
  <2>1. PICK m \in Nat : \A i \in 1 .. k : f[i] <= m
    BY <1>5
  <2>2. k \in Nat /\ k + 1 \in 1 .. n /\ f[k + 1] \in Nat
    BY <1>3
  <2>3. PICK more \in Nat : more = IF m >= f[k + 1] THEN m ELSE f[k + 1]
    BY <2>1, <2>2
  <2>4. \A i \in 1 .. k + 1 : f[i] <= more
    <3> TAKE i \in 1 .. k + 1
    <3>1. CASE i = k + 1
      BY <3>1, <2>2, <2>3
    <3>2. CASE i \in 1 .. k
      <4>1. f[i] \in Nat /\ f[i] <= m
        <5>1. i \in 1 .. n
          BY <3>2, <2>2
        <5> QED
          BY <5>1, <3>2, <2>1, <1>3
      <4> QED
        BY <4>1, <2>2, <2>3
    <3> QED
      BY <3>1, <3>2
  <2> QED
    BY <2>4
<1>6. T = Nat
  <2> HIDE DEF T
  <2>1. T \in SUBSET Nat
    BY DEF T
  <2> QED
    BY <1>4, <1>5, <2>1, NatSetInduction
<1>7. PICK m \in Nat : \A i \in 1 .. n : f[i] <= m
  <2>1. n \in T
    <3> HIDE DEF T
    <3> QED
      BY <1>6
  <2> QED
    BY <2>1
<1> DEFINE Bounds == {u \in Nat : \A y \in S : y <= u}
<1>8. m \in Bounds
  BY <1>2, <1>7
<1>9. PICK u \in Bounds : \A v \in Bounds : u <= v
  <2>1. Bounds \in SUBSET Nat /\ Bounds # {}
    BY <1>8
  <2> HIDE DEF Bounds
  <2> QED
    BY <2>1, NatLeast
<1>10. u \in S
  <2> SUFFICES ASSUME u \notin S PROVE FALSE
    OBVIOUS
  <2>1. \A y \in S : y \in Nat /\ y <= u /\ y # u
    BY <1>9
  <2>2. u \in Nat /\ u # 0
    <3>1. PICK y \in S : y \in Nat /\ y <= u /\ y # u
      BY <2>1
    <3> QED
      BY <3>1
  <2>3. u - 1 \in Nat /\ \A y \in S : y <= u - 1
    BY <2>1, <2>2
  <2>4. u - 1 \in Bounds
    BY <2>3
  <2> QED
    BY <2>4, <1>9
<1> QED
  BY <1>9, <1>10

\* g goes on from a by D.
Recursion(g, N, a, D) == g = [k \in 0 .. N |-> IF k = 0 THEN a ELSE D[k][g[k - 1]]]

\* A function may be defined by its first value and how each value follows
\* from the one before.
LEMMA RecursiveFunction ==
  ASSUME NEW N \in Nat, NEW a, NEW D
  PROVE  \E g : Recursion(g, N, a, D)
<1> USE DEF Recursion
<1> DEFINE P(n, g) == Recursion(g, n, a, D)
           T == {n \in Nat : \E g : P(n, g)}
<1>1. 0 \in T
  <2>1. P(0, [k \in 0 .. 0 |-> a])
    OBVIOUS
  <2> QED
    BY <2>1
<1>2. ASSUME NEW n \in T PROVE n + 1 \in T
  <2>1. PICK g : P(n, g)
    BY <1>2
  <2> DEFINE h == [k \in 0 .. n + 1 |-> IF k = n + 1 THEN D[k][g[n]] ELSE g[k]]
  <2>2. P(n + 1, h)
    <3>1. \A k \in 0 .. n + 1 : h[k] = IF k = 0 THEN a ELSE D[k][h[k - 1]]
      <4> TAKE k \in 0 .. n + 1
      <4>1. CASE k = 0
        <5>1. h[0] = g[0] /\ g[0] = a
          BY <2>1
        <5> QED
          BY <5>1, <4>1
      <4>2. CASE k = n + 1
        <5>1. h[n + 1] = D[n + 1][g[n]] /\ h[n] = g[n]
          OBVIOUS
        <5> QED
          BY <5>1, <4>2
      <4>3. CASE k \in 1 .. n
        <5>1. g[k] = D[k][g[k - 1]]
          <6>1. k \in 0 .. n /\ k # 0
            BY <4>3
          <6> QED
            BY <2>1, <6>1
        <5>2. h[k] = g[k] /\ h[k - 1] = g[k - 1]
          <6>1. k # n + 1 /\ k - 1 # n + 1 /\ k - 1 \in 0 .. n + 1
            BY <4>3
          <6> QED
            BY <6>1
        <5> QED
          BY <5>1, <5>2, <4>3
      <4> QED
        BY <4>1, <4>2, <4>3
    <3>2. h = [k \in 0 .. n + 1 |-> h[k]]
      OBVIOUS
    <3> HIDE DEF h
    <3> QED
      BY <3>1, <3>2
  <2> HIDE DEF h, P
  <2> QED
    BY <1>2, <2>2
<1>3. T \in SUBSET Nat
  OBVIOUS
<1> HIDE DEF T
<1>4. T = Nat
  BY <1>1, <1>2, <1>3, NatSetInduction
<1> QED
  BY <1>4 DEF T

\* What holds of the first value, and of each value if it holds of the one
\* before, holds of all: the induction that goes with such a definition.
LEMMA StepByStep ==
  ASSUME NEW N \in Nat, NEW S, NEW g, g[0] \in S[0],
         \A k \in 1 .. N : g[k - 1] \in S[k - 1] => g[k] \in S[k]
  PROVE  \A k \in 0 .. N : g[k] \in S[k]
<1> DEFINE T == {n \in Nat : n <= N => g[n] \in S[n]}
<1>1. 0 \in T
  OBVIOUS
<1>2. ASSUME NEW n \in T PROVE n + 1 \in T
  <2>1. CASE n + 1 <= N
    <3>1. (n + 1) - 1 = n /\ n + 1 \in 1 .. N /\ n <= N
      BY <2>1
    <3>2. g[n] \in S[n]
      BY <1>2, <3>1
    <3> QED
      BY <3>1, <3>2
  <2> QED
    BY <2>1
<1>3. T \in SUBSET Nat
  OBVIOUS
<1> HIDE DEF T
<1>4. T = Nat
  BY <1>1, <1>2, <1>3, NatSetInduction
<1>5. \A n \in T : n <= N => g[n] \in S[n]
  BY DEF T
<1> QED
  BY <1>4, <1>5

\* g begins with a, goes on by D and stays in M.
RecursionIn(g, N, a, D, M) ==
  /\ g = [k \in 0 .. N |-> g[k]] /\ g[0] = a
  /\ \A k \in 1 .. N : g[k - 1] \in M[k - 1] /\ g[k] = D[k][g[k - 1]]

\* There is such a function.
LEMMA RecursionTyped ==
  ASSUME NEW N \in Nat, NEW M, NEW a \in M[0], NEW D,
         \A k \in 1 .. N : \A s \in M[k - 1] : D[k][s] \in M[k]
  PROVE  \E g : RecursionIn(g, N, a, D, M)
<1>1. PICK g : Recursion(g, N, a, D)
  BY RecursiveFunction
<1>2. g = [k \in 0 .. N |-> IF k = 0 THEN a ELSE D[k][g[k - 1]]]
  BY <1>1 DEF Recursion
<1>3. g = [k \in 0 .. N |-> g[k]]
  BY <1>2
<1>4. g[0] = a
  BY <1>2
<1>5. \A k \in 1 .. N : g[k] = D[k][g[k - 1]]
  BY <1>2
<1>6. \A k \in 0 .. N : g[k] \in M[k]
  BY <1>4, <1>5, StepByStep
<1>7. ASSUME NEW k \in 1 .. N PROVE g[k - 1] \in M[k - 1]
  <2>1. k - 1 \in 0 .. N
    OBVIOUS
  <2> QED
    BY <1>6, <2>1
<1>8. RecursionIn(g, N, a, D, M)
  BY <1>3, <1>4, <1>5, <1>7 DEF RecursionIn
<1> QED
  BY <1>8
=============================================================================
