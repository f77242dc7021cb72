--------------------------- MODULE MemHeapProofs ----------------------------
(***************************************************************************)
(* The sort of lists and the memory heap that uses it.                     *)
(*                                                                         *)
(* list_sort sorts, for every list and every callback that follows an      *)
(* order: a merge of two runs in order is in order (MergedMerges), so a    *)
(* round makes runs of twice the size (PassSorts), and when a round had    *)
(* one merge the list is one run (RoundStep).  The loops are recursive     *)
(* functions; RecursionTyped and StepByStep (NatFacts) give an invariant   *)
(* of each of them.                                                        *)
(*                                                                         *)
(* The heap, for every set of records, every configuration and any number  *)
(* of writes and cleans: its list and its chains hold the same rows, its   *)
(* scans are complete and in order, and it is an implementation of         *)
(* FlowTable.                                                              *)
(***************************************************************************)
EXTENDS MemHeap, NatFacts, SequenceTheorems, FiniteSetTheorems, TLAPS
-----------------------------------------------------------------------------
(***************************************************************************)
(* The sort                                                                *)
(***************************************************************************)
\* every element stands in the relation Ord to every later one
InOrderOf(s, Ord) == \A i, j \in 1 .. Len(s) : i < j => <<s[i], s[j]>> \in Ord

\* every element of s stands in the relation to every one of t
AllBefore(s, t, Ord) == \A i \in 1 .. Len(s) : \A j \in 1 .. Len(t) : <<s[i], t[j]>> \in Ord

\* what a relation has to be for a list to be sorted by it: an order that the
\* callback follows
Follows(before, Ord, S) ==
  /\ \A x, y, z \in S : <<x, y>> \in Ord /\ <<y, z>> \in Ord => <<x, z>> \in Ord
  /\ \A x, y \in S : IF <<x, y>> \in before THEN <<x, y>> \in Ord ELSE <<y, x>> \in Ord

\* a merge of n elements, the set A, k of which are in the merged list
Merging(S, Ord, A, n, k) ==
  {s \in [p : Seq(S), q : Seq(S), out : Seq(S)] :
     /\ Len(s.out) = k /\ Len(s.p) + Len(s.q) = n - k
     /\ Range(s.p) \cup Range(s.q) \cup Range(s.out) = A
     /\ InOrderOf(s.p, Ord) /\ InOrderOf(s.q, Ord) /\ InOrderOf(s.out, Ord)
     /\ AllBefore(s.out, s.p, Ord) /\ AllBefore(s.out, s.q, Ord)}

\* What it takes to be a state of a merge, conjunct by conjunct.
LEMMA MergingMember ==
  ASSUME NEW S, NEW Ord, NEW A, NEW n \in Nat, NEW k \in 0 .. n,
         NEW p \in Seq(S), NEW q \in Seq(S), NEW out \in Seq(S),
         Len(out) = k, Len(p) + Len(q) = n - k, Range(p) \cup Range(q) \cup Range(out) = A,
         InOrderOf(p, Ord), InOrderOf(q, Ord), InOrderOf(out, Ord),
         AllBefore(out, p, Ord), AllBefore(out, q, Ord)
  PROVE  [p |-> p, q |-> q, out |-> out] \in Merging(S, Ord, A, n, k)
BY DEF Merging

\* A list holds its head and what its tail holds.
LEMMA RangeOfTail ==
  ASSUME NEW S, NEW s \in Seq(S), s # <<>>
  PROVE  Range(s) = {Head(s)} \cup Range(Tail(s))
<1>1. Len(s) \in Nat \ {0} /\ Head(s) = s[1]
  OBVIOUS
<1>2. Tail(s) \in Seq(S) /\ Len(Tail(s)) = Len(s) - 1
      /\ \A i \in 1 .. Len(Tail(s)) : Tail(s)[i] = s[i + 1]
  BY HeadTailProperties
<1>3. Range(s) = {s[i] : i \in 1 .. Len(s)} /\ Range(Tail(s)) = {Tail(s)[i] : i \in 1 .. Len(Tail(s))}
  BY <1>2, RangeEquality
<1>4. ASSUME NEW x \in Range(s) PROVE x \in {Head(s)} \cup Range(Tail(s))
  <2>1. PICK i \in 1 .. Len(s) : x = s[i]
    BY <1>3
  <2>2. CASE i = 1
    BY <2>1, <2>2, <1>1
  <2>3. CASE i # 1
    <3>1. i - 1 \in 1 .. Len(Tail(s)) /\ Tail(s)[i - 1] = s[i]
      BY <1>1, <1>2, <2>3
    <3> QED
      BY <3>1, <2>1, <1>3
  <2> QED
    BY <2>2, <2>3
<1>5. ASSUME NEW x \in {Head(s)} \cup Range(Tail(s)) PROVE x \in Range(s)
  <2>1. CASE x = Head(s)
    BY <2>1, <1>1, <1>3
  <2>2. CASE x \in Range(Tail(s))
    <3>1. PICK i \in 1 .. Len(Tail(s)) : x = s[i + 1]
      BY <2>2, <1>2, <1>3
    <3>2. i + 1 \in 1 .. Len(s)
      BY <1>1, <1>2
    <3> QED
      BY <3>1, <3>2, <1>3
  <2> QED
    BY <2>1, <2>2
<1> QED
  BY <1>4, <1>5

\* An appended element is one more in the list.
LEMMA RangeOfAppend ==
  ASSUME NEW S, NEW s \in Seq(S), NEW x \in S
  PROVE  Range(Append(s, x)) = Range(s) \cup {x}
<1> DEFINE one == <<x>>
<1>1. one \in Seq(S) /\ Range(one) = {x}
  BY DEF Range
<1>2. Append(s, x) = s \o one
  BY AppendIsConcat
<1> HIDE DEF one
<1> QED
  BY <1>1, <1>2, RangeConcatenation

\* One element more goes to the merged list.
LEMMA TakenMerges ==
  ASSUME NEW S, NEW Ord, NEW before, Follows(before, Ord, S), NEW A,
         NEW n \in Nat, NEW k \in 1 .. n, NEW s \in Merging(S, Ord, A, n, k - 1)
  PROVE  Taken(s, before) \in Merging(S, Ord, A, n, k)
<1>0. s.p \in Seq(S) /\ s.q \in Seq(S) /\ s.out \in Seq(S)
  BY DEF Merging
<1>1. /\ Len(s.out) = k - 1 /\ Len(s.p) + Len(s.q) = n - (k - 1)
      /\ Range(s.p) \cup Range(s.q) \cup Range(s.out) = A
      /\ InOrderOf(s.p, Ord) /\ InOrderOf(s.q, Ord) /\ InOrderOf(s.out, Ord)
      /\ AllBefore(s.out, s.p, Ord) /\ AllBefore(s.out, s.q, Ord)
  BY DEF Merging
<1>6. Len(s.p) \in Nat /\ Len(s.q) \in Nat /\ Len(s.out) \in Nat
  BY <1>0, LenProperties
<1> DEFINE lp == Len(s.p)
           lq == Len(s.q)
<1>7. lp \in Nat /\ lq \in Nat /\ lp + lq = n - (k - 1)
  BY <1>1, <1>6
<1> HIDE DEF lp, lq
<1>2. s.p # <<>> \/ s.q # <<>>
  <2>1. lp # 0 \/ lq # 0
    BY <1>7
  <2> QED
    BY <2>1 DEF lp, lq
\* what both cases have in common: taken from u, the other run is v
<1>3. ASSUME NEW u \in Seq(S), NEW v \in Seq(S), u # <<>>,
             InOrderOf(u, Ord), InOrderOf(v, Ord), AllBefore(s.out, u, Ord), AllBefore(s.out, v, Ord),
             v = <<>> \/ <<Head(u), Head(v)>> \in Ord
      PROVE  LET out == Append(s.out, Head(u)) IN
             /\ Tail(u) \in Seq(S) /\ Len(Tail(u)) = Len(u) - 1
             /\ Range(u) = {Head(u)} \cup Range(Tail(u))
             /\ out \in Seq(S) /\ Len(out) = k /\ Range(out) = Range(s.out) \cup {Head(u)}
             /\ InOrderOf(Tail(u), Ord) /\ InOrderOf(out, Ord)
             /\ AllBefore(out, Tail(u), Ord) /\ AllBefore(out, v, Ord)
  <2> DEFINE x == Head(u)
             w == Tail(u)
             out == Append(s.out, x)
  <2>1. /\ x = u[1] /\ x \in S /\ w \in Seq(S) /\ Len(w) = Len(u) - 1 /\ Len(u) \in Nat \ {0}
        /\ \A i \in 1 .. Len(w) : w[i] = u[i + 1]
    BY <1>3, HeadTailProperties
  <2>2. /\ out \in Seq(S) /\ Len(out) = k
        /\ \A i \in 1 .. k - 1 : out[i] = s.out[i]
        /\ out[k] = x
    BY <1>0, <1>1, <2>1, AppendProperties
  <2>3. Range(u) = {x} \cup Range(w) /\ Range(out) = Range(s.out) \cup {x}
    BY <1>0, <1>3, <2>1, RangeOfTail, RangeOfAppend
  <2> HIDE DEF x, w, out
  <2>4. InOrderOf(w, Ord)
    <3> SUFFICES ASSUME NEW i \in 1 .. Len(w), NEW j \in 1 .. Len(w), i < j
                 PROVE  <<w[i], w[j]>> \in Ord
      BY DEF InOrderOf
    <3>1. w[i] = u[i + 1] /\ w[j] = u[j + 1]
          /\ i + 1 \in 1 .. Len(u) /\ j + 1 \in 1 .. Len(u) /\ i + 1 < j + 1
      BY <2>1
    <3> QED
      BY <1>3, <3>1 DEF InOrderOf
  <2>5. \A i \in 1 .. k - 1 : <<s.out[i], x>> \in Ord
    BY <1>1, <1>3, <2>1 DEF AllBefore
  <2>6. InOrderOf(out, Ord)
    <3> SUFFICES ASSUME NEW i \in 1 .. k, NEW j \in 1 .. k, i < j PROVE <<out[i], out[j]>> \in Ord
      BY <2>2 DEF InOrderOf
    <3>1. CASE j = k
      <4>1. i \in 1 .. k - 1
        BY <3>1
      <4> QED
        BY <2>2, <2>5, <3>1, <4>1
    <3>2. CASE j < k
      <4>1. i \in 1 .. k - 1 /\ j \in 1 .. k - 1 /\ Len(s.out) = k - 1
        BY <1>1, <3>2
      <4>2. out[i] = s.out[i] /\ out[j] = s.out[j]
        BY <2>2, <4>1
      <4> QED
        BY <1>1, <4>1, <4>2 DEF InOrderOf
    <3> QED
      BY <3>1, <3>2
  <2>7. \A j \in 1 .. Len(w) : <<x, w[j]>> \in Ord
    BY <1>3, <2>1 DEF InOrderOf
  <2>8. \A j \in 1 .. Len(v) : <<x, v[j]>> \in Ord
    <3> SUFFICES ASSUME NEW j \in 1 .. Len(v) PROVE <<x, v[j]>> \in Ord
      OBVIOUS
    <3>1. v # <<>> /\ Head(v) = v[1] /\ v[1] \in S /\ v[j] \in S
      OBVIOUS
    <3>2. <<x, v[1]>> \in Ord
      BY <1>3, <3>1 DEF x
    <3>3. CASE j = 1
      BY <3>2, <3>3
    <3>4. CASE j > 1
      <4>1. <<v[1], v[j]>> \in Ord
        BY <1>3, <3>4 DEF InOrderOf
      <4> QED
        BY <3>1, <3>2, <4>1, <2>1 DEF Follows
    <3> QED
      BY <3>3, <3>4
  <2>9. AllBefore(out, w, Ord)
    <3> SUFFICES ASSUME NEW i \in 1 .. k, NEW j \in 1 .. Len(w) PROVE <<out[i], w[j]>> \in Ord
      BY <2>2 DEF AllBefore
    <3>1. CASE i = k
      BY <2>2, <2>7, <3>1
    <3>2. CASE i < k
      <4>1. w[j] = u[j + 1] /\ j + 1 \in 1 .. Len(u)
        BY <2>1
      <4>2. i \in 1 .. Len(s.out) /\ out[i] = s.out[i]
        BY <1>1, <2>2, <3>2
      <4> QED
        BY <1>3, <4>1, <4>2 DEF AllBefore
    <3> QED
      BY <3>1, <3>2
  <2>10. AllBefore(out, v, Ord)
    <3> SUFFICES ASSUME NEW i \in 1 .. k, NEW j \in 1 .. Len(v) PROVE <<out[i], v[j]>> \in Ord
      BY <2>2 DEF AllBefore
    <3>1. CASE i = k
      BY <2>2, <2>8, <3>1
    <3>2. CASE i < k
      <4>1. i \in 1 .. Len(s.out) /\ out[i] = s.out[i]
        BY <1>1, <2>2, <3>2
      <4> QED
        BY <1>3, <4>1 DEF AllBefore
    <3> QED
      BY <3>1, <3>2
  <2> QED
    BY <2>1, <2>2, <2>3, <2>4, <2>6, <2>9, <2>10 DEF x, w, out
<1>4. CASE FromP(s, before)
  <2>1. s.p # <<>> /\ (s.q = <<>> \/ <<Head(s.p), Head(s.q)>> \in before)
    BY <1>4 DEF FromP
  <2>2. s.q = <<>> \/ <<Head(s.p), Head(s.q)>> \in Ord
    BY <1>0, <2>1, HeadTailProperties DEF Follows
  <2>3. Taken(s, before) = [p |-> Tail(s.p), q |-> s.q, out |-> Append(s.out, Head(s.p))]
    BY <1>4 DEF Taken
  <2> DEFINE out == Append(s.out, Head(s.p))
  <2>4. /\ Tail(s.p) \in Seq(S) /\ Len(Tail(s.p)) = Len(s.p) - 1
        /\ Range(s.p) = {Head(s.p)} \cup Range(Tail(s.p))
        /\ out \in Seq(S) /\ Len(out) = k /\ Range(out) = Range(s.out) \cup {Head(s.p)}
        /\ InOrderOf(Tail(s.p), Ord) /\ InOrderOf(out, Ord)
        /\ AllBefore(out, Tail(s.p), Ord) /\ AllBefore(out, s.q, Ord)
    BY <1>0, <1>1, <1>3, <2>1, <2>2
  <2> HIDE DEF out
  <2>5. Range(Tail(s.p)) \cup Range(s.q) \cup Range(out) = A
    BY <1>1, <2>4
  <2>6. Len(Tail(s.p)) + Len(s.q) = n - k
    <3>1. Len(Tail(s.p)) = lp - 1 /\ Len(s.q) = lq
      BY <2>4 DEF lp, lq
    <3>2. (lp - 1) + lq = n - k /\ lq + (lp - 1) = n - k
      BY <1>7
    <3> QED
      BY <3>1, <3>2
  <2>7. k \in 0 .. n
    OBVIOUS
  <2>8. [p |-> Tail(s.p), q |-> s.q, out |-> out] \in Merging(S, Ord, A, n, k)
    BY <1>0, <1>1, <2>4, <2>5, <2>6, <2>7, MergingMember
  <2> QED
    BY <2>3, <2>8 DEF out
<1>5. CASE ~ FromP(s, before)
  <2>1. s.q # <<>> /\ (s.p = <<>> \/ <<Head(s.p), Head(s.q)>> \notin before)
    BY <1>2, <1>5 DEF FromP
  <2>2. s.p = <<>> \/ <<Head(s.q), Head(s.p)>> \in Ord
    BY <1>0, <2>1, HeadTailProperties DEF Follows
  <2>3. Taken(s, before) = [p |-> s.p, q |-> Tail(s.q), out |-> Append(s.out, Head(s.q))]
    BY <1>5 DEF Taken
  <2> DEFINE out == Append(s.out, Head(s.q))
  <2>4. /\ Tail(s.q) \in Seq(S) /\ Len(Tail(s.q)) = Len(s.q) - 1
        /\ Range(s.q) = {Head(s.q)} \cup Range(Tail(s.q))
        /\ out \in Seq(S) /\ Len(out) = k /\ Range(out) = Range(s.out) \cup {Head(s.q)}
        /\ InOrderOf(Tail(s.q), Ord) /\ InOrderOf(out, Ord)
        /\ AllBefore(out, Tail(s.q), Ord) /\ AllBefore(out, s.p, Ord)
    BY <1>0, <1>1, <1>3, <2>1, <2>2
  <2> HIDE DEF out
  <2>5. Range(s.p) \cup Range(Tail(s.q)) \cup Range(out) = A
    BY <1>1, <2>4
  <2>6. Len(s.p) + Len(Tail(s.q)) = n - k
    <3>1. Len(Tail(s.q)) = lq - 1 /\ Len(s.p) = lp
      BY <2>4 DEF lp, lq
    <3>2. (lq - 1) + lp = n - k /\ lp + (lq - 1) = n - k
      BY <1>7
    <3> QED
      BY <3>1, <3>2
  <2>7. k \in 0 .. n
    OBVIOUS
  <2>8. [p |-> s.p, q |-> Tail(s.q), out |-> out] \in Merging(S, Ord, A, n, k)
    BY <1>0, <1>1, <2>4, <2>5, <2>6, <2>7, MergingMember
  <2> QED
    BY <2>3, <2>8 DEF out
<1> QED
  BY <1>4, <1>5

\* Two lists in order become one list in order, of the elements of both.
LEMMA MergedMerges ==
  ASSUME NEW S, NEW Ord, NEW before, Follows(before, Ord, S),
         NEW left \in Seq(S), NEW right \in Seq(S), InOrderOf(left, Ord), InOrderOf(right, Ord)
  PROVE  /\ Merged(left, right, before) \in Seq(S)
         /\ Len(Merged(left, right, before)) = Len(left) + Len(right)
         /\ Range(Merged(left, right, before)) = Range(left) \cup Range(right)
         /\ InOrderOf(Merged(left, right, before), Ord)
<1> DEFINE n == Len(left) + Len(right)
           A == Range(left) \cup Range(right)
           a == [p |-> left, q |-> right, out |-> <<>>]
           M == [k \in 0 .. n |-> Merging(S, Ord, A, n, k)]
           D == [k \in 0 .. n |-> [s \in M[k - 1] |-> Taken(s, before)]]
           G(g) == g = [k \in 0 .. n |-> IF k = 0 THEN a ELSE Taken(g[k - 1], before)]
           f == CHOOSE g : G(g)
<1>1. n \in Nat
  OBVIOUS
<1>2. a \in M[0]
  <2> DEFINE out == <<>>
  <2>1. out \in Seq(S) /\ Len(out) = 0 /\ Range(out) = {} /\ InOrderOf(out, Ord)
        /\ AllBefore(out, left, Ord) /\ AllBefore(out, right, Ord)
    BY DEF InOrderOf, AllBefore, Range
  <2> HIDE DEF out
  <2>2. n - 0 = n /\ 0 \in 0 .. n
    BY <1>1
  <2>3. [p |-> left, q |-> right, out |-> out] \in Merging(S, Ord, A, n, 0)
    BY <1>1, <2>1, <2>2, MergingMember
  <2> QED
    BY <2>2, <2>3 DEF out
<1>3. \A k \in 1 .. n : \A s \in M[k - 1] : Taken(s, before) \in M[k]
  <2> SUFFICES ASSUME NEW k \in 1 .. n, NEW s \in M[k - 1] PROVE Taken(s, before) \in M[k]
    OBVIOUS
  <2>1. s \in Merging(S, Ord, A, n, k - 1)
    BY <1>1
  <2> HIDE DEF n, A
  <2> QED
    BY <1>1, <2>1, TakenMerges
<1> HIDE DEF n, M, a, D
<1>4. \E g : G(g)
  <2>1. \A k \in 1 .. n : \A s \in M[k - 1] : D[k][s] = Taken(s, before) /\ D[k][s] \in M[k]
    BY <1>1, <1>3 DEF D
  <2>2. PICK g : RecursionIn(g, n, a, D, M)
    BY <1>1, <1>2, <2>1, RecursionTyped
  <2>3. /\ g = [k \in 0 .. n |-> g[k]] /\ g[0] = a
        /\ \A k \in 1 .. n : g[k - 1] \in M[k - 1] /\ g[k] = D[k][g[k - 1]]
    BY <2>2 DEF RecursionIn
  <2>4. \A k \in 0 .. n : g[k] = IF k = 0 THEN a ELSE Taken(g[k - 1], before)
    <3> TAKE k \in 0 .. n
    <3>1. CASE k = 0
      BY <2>3, <3>1
    <3>2. CASE k # 0
      <4>1. k \in 1 .. n
        BY <1>1, <3>2
      <4>2. g[k] = Taken(g[k - 1], before)
        BY <2>1, <2>3, <4>1
      <4> QED
        BY <3>2, <4>2
    <3> QED
      BY <3>1, <3>2
  <2>5. G(g)
    BY <2>3, <2>4
  <2> HIDE DEF G
  <2> QED
    BY <2>5
<1>5. G(f)
  BY <1>4
<1>6. Merged(left, right, before) = f[n].out
  BY DEF Merged, n, a
<1> HIDE DEF f
<1>7. f[0] \in M[0]
  BY <1>1, <1>2, <1>5
<1>8. \A k \in 1 .. n : f[k - 1] \in M[k - 1] => f[k] \in M[k]
  BY <1>1, <1>3, <1>5
<1>9. f[n] \in M[n]
  <2> HIDE DEF G
  <2>1. \A k \in 0 .. n : f[k] \in M[k]
    BY <1>1, <1>7, <1>8, StepByStep
  <2> QED
    BY <1>1, <2>1
<1>10. f[n] \in Merging(S, Ord, A, n, n)
  BY <1>1, <1>9 DEF M
<1>11. /\ f[n].out \in Seq(S) /\ Len(f[n].out) = n /\ InOrderOf(f[n].out, Ord)
       /\ f[n].p \in Seq(S) /\ f[n].q \in Seq(S) /\ Len(f[n].p) + Len(f[n].q) = n - n
       /\ Range(f[n].p) \cup Range(f[n].q) \cup Range(f[n].out) = A
  BY <1>10 DEF Merging
<1>12. Range(f[n].p) = {} /\ Range(f[n].q) = {}
  <2>1. Len(f[n].p) \in Nat /\ Len(f[n].q) \in Nat
    BY <1>11, LenProperties
  <2>2. Len(f[n].p) = 0 /\ Len(f[n].q) = 0
    <3> DEFINE lp == Len(f[n].p)
               lq == Len(f[n].q)
    <3>1. lp \in Nat /\ lq \in Nat /\ lp + lq = n - n
      BY <1>11, <2>1
    <3> HIDE DEF lp, lq
    <3>2. lp = 0 /\ lq = 0
      BY <1>1, <3>1
    <3> QED
      BY <3>2 DEF lp, lq
  <2> QED
    BY <2>2, <1>11, RangeEquality
<1> QED
  BY <1>6, <1>11, <1>12 DEF n

\* A multiple that is smaller is a multiple by less.
LEMMA TimesMonotone == ASSUME NEW a \in Nat, NEW b \in Nat, NEW w \in Nat, a * w < b * w PROVE a < b
<1> SUFFICES ASSUME b <= a PROVE FALSE
 OBVIOUS
<1>1. PICK d \in Nat : a = b + d
  <2>1. a - b \in Nat /\ a = b + (a - b)
    OBVIOUS
  <2> QED BY <2>1
<1>2. a * w = b * w + d * w /\ d * w \in Nat /\ b * w \in Nat
  BY <1>1
<1> QED BY <1>2

\* nmerges pairs of runs cover the list, and one pair less does not.
LEMMA MergesFact == ASSUME NEW len \in Nat, NEW insize \in Nat \ {0}
 PROVE /\ Merges(len, insize) \in Nat
       /\ len <= Merges(len, insize) * (2 * insize)
       /\ Merges(len, insize) > 0 => (Merges(len, insize) - 1) * (2 * insize) < len
<1> DEFINE w == 2 * insize
           x == len + w - 1
           m == x \div w
<1>1. w \in Nat \ {0} /\ x \in Nat
  OBVIOUS
<1>0. Merges(len, insize) = m
  BY DEF Merges
<1>2. x = len + w - 1
  OBVIOUS
<1> HIDE DEF w, x
<1>3. m \in Nat /\ m * w <= x /\ x < m * w + w
  BY <1>1
<1>4. m > 0 => (m - 1) * w = m * w - w
  BY <1>1, <1>3
<1> HIDE DEF m
<1>5. m * w \in Nat
  BY <1>1, <1>3
<1>6. len <= m * w /\ (m > 0 => (m - 1) * w < len)
  BY <1>1, <1>2, <1>3, <1>4, <1>5
<1> QED
  BY <1>0, <1>3, <1>6 DEF w


\* within (lo, hi] the list is in order
StretchInOrder(s, lo, hi, Ord) ==
  \A i, j \in 1 .. Len(s) : lo < i /\ i < j /\ j <= hi => <<s[i], s[j]>> \in Ord

\* every run of w elements is in order
RunsInOrder(s, w, Ord) == \A b \in Nat : StretchInOrder(s, b * w, (b + 1) * w, Ord)

\* what the len elements behind the first lo are
Elements(list, lo, len) == {list[lo + i] : i \in 1 .. len}

\* how much of the w elements behind the first lo of L a list has
Covered(L, lo, w) == IF L <= lo THEN 0 ELSE IF lo + w < L THEN w ELSE L - lo

\* r is that stretch, and in order
IsStretch(r, list, lo, len, S, Ord) ==
  /\ r \in Seq(S) /\ Len(r) = len /\ InOrderOf(r, Ord)
  /\ \A i \in 1 .. len : r[i] = list[lo + i]

\* m has the elements of that stretch, in order
IsMergeOf(m, list, lo, len, S, Ord) ==
  /\ m \in Seq(S) /\ Len(m) = len /\ InOrderOf(m, Ord)
  /\ Range(m) = Elements(list, lo, len)

\* The second of two runs has elements only if the first is full.
LEMMA CoveredFacts ==
  ASSUME NEW L \in Nat, NEW lo \in Nat, NEW w \in Nat
  PROVE  /\ Covered(L, lo, w) \in Nat /\ Covered(L, lo, w) <= w
         /\ Covered(L, lo, w) > 0 => lo + Covered(L, lo, w) <= L
         /\ Covered(L, lo, w) + Covered(L, lo + w, w) = Covered(L, lo, w + w)
         /\ Covered(L, lo + w, w) > 0 => Covered(L, lo, w) = w
         /\ lo < L => lo + Covered(L, lo, w) = IF lo + w < L THEN lo + w ELSE L
BY DEF Covered

\* A list holds what stands at one of its positions.
LEMMA InRange ==
  ASSUME NEW S, NEW s \in Seq(S), NEW x
  PROVE  x \in Range(s) <=> \E i \in 1 .. Len(s) : x = s[i]
BY RangeEquality

\* A run is the stretch of the list it is cut from, and in order.
LEMMA RunIs ==
  ASSUME NEW S, NEW Ord, NEW list \in Seq(S), NEW w \in Nat \ {0}, NEW n \in Nat \ {0},
         RunsInOrder(list, w, Ord), NEW lo \in Nat, lo = (n - 1) * w
  PROVE  IsStretch(Run(list, w, n), list, lo, Covered(Len(list), lo, w), S, Ord)
<1> DEFINE hi == IF lo + w < Len(list) THEN lo + w ELSE Len(list)
           r == SubSeq(list, lo + 1, hi)
<1>1. n * w = lo + w /\ n - 1 \in Nat /\ (n - 1) + 1 = n
  OBVIOUS
<1>2. PICK L \in Nat : L = Len(list)
  OBVIOUS
<1>3. Run(list, w, n) = r
  BY <1>1 DEF Run
<1>4. StretchInOrder(list, lo, lo + w, Ord)
  BY <1>1 DEF RunsInOrder
<1>5. PICK len \in Nat : len = Covered(L, lo, w)
  BY CoveredFacts
<1>6. hi \in Nat /\ (IF lo + 1 <= hi THEN hi - (lo + 1) + 1 ELSE 0) = len /\ hi <= L
      /\ (len > 0 => hi - (lo + 1) + 1 = len)
  <2>1. len = IF L <= lo THEN 0 ELSE IF lo + w < L THEN w ELSE L - lo
    BY <1>5 DEF Covered
  <2>2. hi = IF lo + w < L THEN lo + w ELSE L
    BY <1>2
  <2> HIDE DEF hi
  <2>3. hi \in Nat
    BY <2>2
  <2> QED
    BY <2>1, <2>2, <2>3
<1> HIDE DEF hi
<1>7. \A i \in lo + 1 .. hi : list[i] \in S
  <2>1. \A i \in lo + 1 .. hi : i \in 1 .. Len(list)
    BY <1>2, <1>6
  <2> QED
    BY <2>1, ElementOfSeq
<1>8. /\ r \in Seq(S) /\ Len(r) = IF lo + 1 <= hi THEN hi - (lo + 1) + 1 ELSE 0
      /\ \A i \in 1 .. hi - (lo + 1) + 1 : r[i] = list[lo + 1 + i - 1]
  BY <1>6, <1>7, SubSeqProperties
<1> HIDE DEF r
<1>9. Len(r) = len
  BY <1>6, <1>8
<1>10. \A i \in 1 .. len : r[i] = list[lo + i] /\ lo + i \in 1 .. Len(list) /\ lo < lo + i /\ lo + i <= lo + w
  <2> SUFFICES ASSUME NEW i \in 1 .. len
               PROVE  r[i] = list[lo + i] /\ lo + i \in 1 .. Len(list) /\ lo < lo + i /\ lo + i <= lo + w
    OBVIOUS
  <2>1. i \in 1 .. hi - (lo + 1) + 1 /\ lo + 1 + i - 1 = lo + i
    BY <1>6
  <2>2. r[i] = list[lo + i]
    BY <1>8, <2>1
  <2>0. w \in Nat /\ len > 0
    OBVIOUS
  <2>3. len <= w /\ lo + len <= L
    BY <1>5, <2>0, CoveredFacts
  <2>4. lo + i \in 1 .. L /\ lo < lo + i /\ lo + i <= lo + w
    BY <2>3
  <2> QED
    BY <1>2, <2>2, <2>4
<1>11. InOrderOf(r, Ord)
  <2> SUFFICES ASSUME NEW i \in 1 .. len, NEW j \in 1 .. len, i < j PROVE <<r[i], r[j]>> \in Ord
    BY <1>9 DEF InOrderOf
  <2>1. lo + i < lo + j
    OBVIOUS
  <2> QED
    BY <1>4, <1>10, <2>1 DEF StretchInOrder
<1> QED
  BY <1>2, <1>3, <1>5, <1>8, <1>9, <1>10, <1>11 DEF IsStretch

\* Two neighbouring stretches merge into one.
LEMMA StretchesMerge ==
  ASSUME NEW S, NEW Ord, NEW before, Follows(before, Ord, S), NEW list \in Seq(S),
         NEW lo \in Nat, NEW w \in Nat, NEW left, NEW right,
         NEW ll \in Nat, NEW lr \in Nat, lr > 0 => ll = w,
         IsStretch(left, list, lo, ll, S, Ord), IsStretch(right, list, lo + w, lr, S, Ord)
  PROVE  IsMergeOf(Merged(left, right, before), list, lo, ll + lr, S, Ord)
<1>1. /\ left \in Seq(S) /\ Len(left) = ll /\ InOrderOf(left, Ord)
      /\ \A i \in 1 .. ll : left[i] = list[lo + i]
  BY DEF IsStretch
<1>2. /\ right \in Seq(S) /\ Len(right) = lr /\ InOrderOf(right, Ord)
      /\ \A i \in 1 .. lr : right[i] = list[lo + w + i]
  BY DEF IsStretch
<1> DEFINE m == Merged(left, right, before)
<1>3. m \in Seq(S) /\ Len(m) = Len(left) + Len(right) /\ Range(m) = Range(left) \cup Range(right)
      /\ InOrderOf(m, Ord)
  <2>1. left \in Seq(S) /\ InOrderOf(left, Ord) /\ right \in Seq(S) /\ InOrderOf(right, Ord)
    BY <1>1, <1>2
  <2> QED
    BY <2>1, MergedMerges
<1> HIDE DEF m
<1>4. ASSUME NEW x \in Range(m) PROVE \E i \in 1 .. ll + lr : x = list[lo + i]
  <2>1. CASE x \in Range(left)
    <3>1. PICK i \in 1 .. Len(left) : x = left[i]
      BY <1>1, <2>1, InRange
    <3>2. i \in 1 .. ll /\ i \in 1 .. ll + lr
      BY <1>1
    <3> QED
      BY <1>1, <3>1, <3>2
  <2>2. CASE x \in Range(right)
    <3>1. PICK i \in 1 .. Len(right) : x = right[i]
      BY <1>2, <2>2, InRange
    <3>2. i \in 1 .. lr /\ w + i \in 1 .. ll + lr /\ lo + w + i = lo + (w + i)
      BY <1>2
    <3> QED
      BY <1>2, <3>1, <3>2
  <2> QED
    BY <1>3, <2>1, <2>2
<1>5. ASSUME NEW i \in 1 .. ll + lr PROVE list[lo + i] \in Range(m)
  <2>1. CASE i <= ll
    <3>1. i \in 1 .. ll /\ i \in 1 .. Len(left)
      BY <1>1, <2>1
    <3>2. left[i] \in Range(left)
      BY <1>1, <3>1, InRange
    <3> QED
      BY <1>1, <1>3, <3>1, <3>2
  <2>2. CASE i > ll
    <3>1. i - ll \in 1 .. lr /\ i - ll \in 1 .. Len(right) /\ ll = w /\ lo + w + (i - ll) = lo + i
      BY <1>2, <2>2
    <3>2. right[i - ll] \in Range(right)
      BY <1>2, <3>1, InRange
    <3>3. right[i - ll] = list[lo + i]
      BY <1>2, <3>1
    <3> QED
      BY <1>3, <3>2, <3>3
  <2> QED
    BY <2>1, <2>2
<1>6. Range(m) = Elements(list, lo, ll + lr)
  BY <1>4, <1>5 DEF Elements
<1>7. Len(m) = ll + lr
  BY <1>1, <1>2, <1>3
<1> QED
  BY <1>3, <1>6, <1>7 DEF m, IsMergeOf

\* The merged list grows by a stretch of w, or by what there is of it.
LEMMA StretchAppended ==
  ASSUME NEW S, NEW Ord, NEW list, NEW w \in Nat \ {0}, NEW n \in Nat, NEW lo \in Nat, lo = n * w,
         NEW len \in Nat, len <= w,
         NEW t \in Seq(S), Len(t) = lo, Range(t) = Elements(list, 0, lo), RunsInOrder(t, w, Ord),
         NEW m, IsMergeOf(m, list, lo, len, S, Ord)
  PROVE  /\ t \o m \in Seq(S) /\ Len(t \o m) = lo + len
         /\ Range(t \o m) = Elements(list, 0, lo + len)
         /\ RunsInOrder(t \o m, w, Ord)
<1> DEFINE u == t \o m
<1>0. m \in Seq(S) /\ Len(m) = len /\ InOrderOf(m, Ord) /\ Range(m) = Elements(list, lo, len)
  BY DEF IsMergeOf
<1>1. /\ u \in Seq(S) /\ Len(u) = Len(t) + Len(m)
      /\ \A i \in 1 .. Len(t) + Len(m) : u[i] = IF i <= Len(t) THEN t[i] ELSE m[i - Len(t)]
      /\ Range(u) = Range(t) \cup Range(m)
  <2>1. Range(u) = Range(t) \cup Range(m)
    BY <1>0, RangeConcatenation
  <2> QED
    BY <1>0, <2>1, ConcatProperties
<1> HIDE DEF u
<1>2. Len(u) = lo + len /\ \A i \in 1 .. lo + len : u[i] = IF i <= lo THEN t[i] ELSE m[i - lo]
  BY <1>0, <1>1
<1>3. Range(u) = Elements(list, 0, lo + len)
  <2>0. Range(t) = {list[0 + i] : i \in 1 .. lo} /\ Range(m) = {list[lo + i] : i \in 1 .. len}
    BY <1>0 DEF Elements
  <2>1. ASSUME NEW i \in 1 .. lo + len PROVE list[i] \in Range(u)
    <3>1. CASE i <= lo
      <4>1. i \in 1 .. lo /\ 0 + i = i
        BY <3>1
      <4> QED
        BY <1>1, <2>0, <4>1
    <3>2. CASE i > lo
      <4>1. i - lo \in 1 .. len /\ lo + (i - lo) = i
        BY <3>2
      <4> QED
        BY <1>1, <2>0, <4>1
    <3> QED
      BY <3>1, <3>2
  <2>2. ASSUME NEW x \in Range(u) PROVE \E i \in 1 .. lo + len : x = list[i]
    <3>1. CASE x \in Range(t)
      <4>1. PICK i \in 1 .. lo : x = list[0 + i]
        BY <2>0, <3>1
      <4> QED
        BY <4>1
    <3>2. CASE x \in Range(m)
      <4>1. PICK i \in 1 .. len : x = list[lo + i]
        BY <2>0, <3>2
      <4>2. lo + i \in 1 .. lo + len
        OBVIOUS
      <4> QED
        BY <4>1, <4>2
    <3> QED
      BY <1>1, <3>1, <3>2
  <2>3. \A i \in 1 .. lo + len : 0 + i = i
    OBVIOUS
  <2> QED
    BY <2>1, <2>2, <2>3 DEF Elements
<1>4. RunsInOrder(u, w, Ord)
  <2> SUFFICES ASSUME NEW b \in Nat, NEW i \in 1 .. lo + len, NEW j \in 1 .. lo + len,
                      b * w < i, i < j, j <= (b + 1) * w
               PROVE  <<u[i], u[j]>> \in Ord
    BY <1>2 DEF RunsInOrder, StretchInOrder
  <2>1. CASE j <= lo
    <3>1. i \in 1 .. Len(t) /\ j \in 1 .. Len(t)
      BY <2>1
    <3>2. u[i] = t[i] /\ u[j] = t[j]
      BY <1>2, <2>1
    <3> QED
      BY <3>1, <3>2 DEF RunsInOrder, StretchInOrder
  <2>2. CASE lo < i
    <3>1. i - lo \in 1 .. Len(m) /\ j - lo \in 1 .. Len(m) /\ i - lo < j - lo
      BY <1>0, <2>2
    <3>2. u[i] = m[i - lo] /\ u[j] = m[j - lo]
      BY <1>2, <2>2
    <3> QED
      BY <1>0, <3>1, <3>2 DEF InOrderOf
  <2>3. CASE i <= lo /\ lo < j
    <3>1. b * w \in Nat /\ (b + 1) * w \in Nat /\ b + 1 \in Nat
      OBVIOUS
    <3>2. b * w < n * w /\ n * w < (b + 1) * w
      BY <2>3, <3>1
    <3>3. b < n /\ n < b + 1
      BY <3>1, <3>2, TimesMonotone
    <3> QED
      BY <3>3
  <2> QED
    BY <2>1, <2>2, <2>3
<1> QED
  BY <1>1, <1>2, <1>3, <1>4 DEF u

\* the merged list after n merges
Passing(S, Ord, list, w, n) ==
  {t \in Seq(S) : /\ Len(t) = IF n * w < Len(list) THEN n * w ELSE Len(list)
                  /\ Range(t) = Elements(list, 0, Len(t))
                  /\ RunsInOrder(t, w, Ord)}

\* One more merge: the merged list holds the next two runs as well, each pair
\* in order.
LEMMA PassStep ==
  ASSUME NEW S, NEW Ord, NEW before, Follows(before, Ord, S), NEW list \in Seq(S),
         NEW insize \in Nat \ {0}, RunsInOrder(list, insize, Ord),
         NEW n \in Nat \ {0}, (n - 1) * (2 * insize) < Len(list),
         NEW t \in Passing(S, Ord, list, 2 * insize, n - 1)
  PROVE  MergedRuns(t, n, list, insize, before) \in Passing(S, Ord, list, 2 * insize, n)
<1>1. PICK L \in Nat : L = Len(list)
  OBVIOUS
<1>2. PICK w \in Nat \ {0} : w = 2 * insize
  OBVIOUS
<1>3. PICK lo \in Nat : lo = (n - 1) * (2 * insize)
  OBVIOUS
<1>4. lo < L /\ w = insize + insize /\ lo = (n - 1) * w /\ n * w = lo + w /\ n - 1 \in Nat
  BY <1>1, <1>2, <1>3
<1>5. t \in Seq(S) /\ Len(t) = lo /\ Range(t) = Elements(list, 0, lo) /\ RunsInOrder(t, w, Ord)
  BY <1>1, <1>2, <1>3, <1>4 DEF Passing
<1>0. insize \in Nat /\ w \in Nat /\ lo + insize \in Nat
  OBVIOUS
<1>6. PICK ll \in Nat, lr \in Nat : ll = Covered(L, lo, insize) /\ lr = Covered(L, lo + insize, insize)
  <2>1. Covered(L, lo, insize) \in Nat /\ Covered(L, lo + insize, insize) \in Nat
    BY <1>0, CoveredFacts
  <2> QED
    BY <2>1
<1>7. lr > 0 => ll = insize
  BY <1>0, <1>6, CoveredFacts
<1>8. ll + lr \in Nat /\ ll + lr <= w /\ lo + (ll + lr) = IF n * w < L THEN n * w ELSE L
  <2>0. w = insize + insize
    BY <1>4
  <2>1. ll + lr = Covered(L, lo, w)
    BY <1>0, <1>6, <2>0, CoveredFacts
  <2>2. PICK len \in Nat : len = ll + lr
    OBVIOUS
  <2>3. len <= w /\ lo + len = IF lo + w < L THEN lo + w ELSE L
    <3>1. lo < L /\ len = Covered(L, lo, w)
      BY <1>4, <2>1, <2>2
    <3> QED
      BY <1>0, <3>1, CoveredFacts
  <2> QED
    BY <1>4, <2>2, <2>3
<1> DEFINE left == Run(list, insize, 2 * n - 1)
           right == Run(list, insize, 2 * n)
<1>9. IsStretch(left, list, lo, ll, S, Ord)
  <2>1. 2 * n - 1 \in Nat \ {0} /\ lo = ((2 * n - 1) - 1) * insize
    BY <1>3
  <2> QED
    BY <1>1, <1>6, <2>1, RunIs
<1>10. IsStretch(right, list, lo + insize, lr, S, Ord)
  <2>1. 2 * n \in Nat \ {0} /\ lo + insize = (2 * n - 1) * insize /\ lo + insize \in Nat
    BY <1>3
  <2> QED
    BY <1>1, <1>6, <2>1, RunIs
<1> DEFINE m == Merged(left, right, before)
<1> HIDE DEF left, right
<1>11. IsMergeOf(m, list, lo, ll + lr, S, Ord)
  BY <1>0, <1>7, <1>9, <1>10, StretchesMerge
<1> HIDE DEF m
<1>12. /\ t \o m \in Seq(S) /\ Len(t \o m) = lo + (ll + lr)
       /\ Range(t \o m) = Elements(list, 0, lo + (ll + lr))
       /\ RunsInOrder(t \o m, w, Ord)
  <2>1. PICK len \in Nat : len = ll + lr
    BY <1>8
  <2>3. IsMergeOf(m, list, lo, len, S, Ord) /\ len <= w
    BY <1>8, <1>11, <2>1
  <2>4. /\ t \o m \in Seq(S) /\ Len(t \o m) = lo + len
        /\ Range(t \o m) = Elements(list, 0, lo + len)
        /\ RunsInOrder(t \o m, w, Ord)
    <3>1. lo = (n - 1) * w /\ n - 1 \in Nat
      BY <1>4
    <3> QED
      BY <1>5, <2>3, <3>1, StretchAppended
  <2> QED
    BY <2>1, <2>4
<1>13. t \o m \in Passing(S, Ord, list, w, n)
  <2>1. Len(t \o m) = IF n * w < Len(list) THEN n * w ELSE Len(list)
    BY <1>1, <1>8, <1>12
  <2>2. Range(t \o m) = Elements(list, 0, Len(t \o m))
    BY <1>12
  <2> QED
    BY <1>12, <2>1, <2>2 DEF Passing
<1> QED
  BY <1>2, <1>13 DEF m, left, right, MergedRuns

\* A round makes runs in order of twice the size, of the same elements.
LEMMA PassSorts ==
  ASSUME NEW S, NEW Ord, NEW before, Follows(before, Ord, S), NEW list \in Seq(S),
         NEW insize \in Nat \ {0}, RunsInOrder(list, insize, Ord)
  PROVE  /\ Pass(list, insize, before) \in Seq(S)
         /\ Len(Pass(list, insize, before)) = Len(list)
         /\ Range(Pass(list, insize, before)) = Range(list)
         /\ RunsInOrder(Pass(list, insize, before), 2 * insize, Ord)
<1> DEFINE n == Merges(Len(list), insize)
           a == <<>>
           M == [k \in 0 .. n |-> Passing(S, Ord, list, 2 * insize, k)]
           D == [k \in 0 .. n |-> [s \in M[k - 1] |-> MergedRuns(s, k, list, insize, before)]]
           G(g) == g = [k \in 0 .. n |-> IF k = 0 THEN a ELSE MergedRuns(g[k - 1], k, list, insize, before)]
           f == CHOOSE g : G(g)
<1>0. Len(list) \in Nat
  OBVIOUS
<1>1. n \in Nat
  BY <1>0, MergesFact
<1>2. a \in M[0]
  <2>1. 0 * (2 * insize) = 0 /\ 0 \in 0 .. n
    BY <1>1
  <2>2. a \in Seq(S) /\ Len(a) = 0 /\ Range(a) = {} /\ Elements(list, 0, 0) = {} /\ RunsInOrder(a, 2 * insize, Ord)
    BY DEF Range, Elements, RunsInOrder, StretchInOrder
  <2> HIDE DEF a, n
  <2>3. Len(a) = IF 0 * (2 * insize) < Len(list) THEN 0 * (2 * insize) ELSE Len(list)
    BY <1>0, <2>1, <2>2
  <2>4. Range(a) = Elements(list, 0, Len(a))
    BY <2>2
  <2>5. a \in Passing(S, Ord, list, 2 * insize, 0)
    BY <2>2, <2>3, <2>4 DEF Passing
  <2> QED
    BY <2>1, <2>5
<1>3. \A k \in 1 .. n : \A s \in M[k - 1] : MergedRuns(s, k, list, insize, before) \in M[k]
  <2> SUFFICES ASSUME NEW k \in 1 .. n, NEW s \in M[k - 1]
               PROVE  MergedRuns(s, k, list, insize, before) \in M[k]
    OBVIOUS
  <2>1. s \in Passing(S, Ord, list, 2 * insize, k - 1)
    BY <1>1
  <2>2. k \in Nat \ {0} /\ (k - 1) * (2 * insize) < Len(list)
    <3>1. n > 0 /\ (n - 1) * (2 * insize) < Len(list)
      <4>1. n > 0 => (n - 1) * (2 * insize) < Len(list)
        BY <1>0, MergesFact
      <4> HIDE DEF n
      <4>2. n > 0
        BY <1>1
      <4> QED
        BY <4>1, <4>2
    <3> HIDE DEF n
    <3>2. PICK d \in Nat : n - 1 = (k - 1) + d
      <4>1. n - k \in Nat /\ n - 1 = (k - 1) + (n - k)
        BY <1>1
      <4> QED
        BY <4>1
    <3>3. PICK w \in Nat : w = 2 * insize
      OBVIOUS
    <3>4. (n - 1) * w = (k - 1) * w + d * w /\ (k - 1) * w \in Nat /\ d * w \in Nat
      BY <1>1, <3>2
    <3>5. (k - 1) * w < Len(list)
      BY <1>0, <3>1, <3>3, <3>4
    <3> QED
      BY <1>1, <3>3, <3>5
  <2> HIDE DEF n
  <2>3. MergedRuns(s, k, list, insize, before) \in Passing(S, Ord, list, 2 * insize, k)
    BY <2>1, <2>2, PassStep
  <2> QED
    BY <1>1, <2>3
<1> HIDE DEF n, M, a, D
<1>4. \E g : G(g)
  <2>1. \A k \in 1 .. n : \A s \in M[k - 1] : D[k][s] = MergedRuns(s, k, list, insize, before) /\ D[k][s] \in M[k]
    BY <1>1, <1>3 DEF D
  <2>2. PICK g : RecursionIn(g, n, a, D, M)
    BY <1>1, <1>2, <2>1, RecursionTyped
  <2>3. /\ g = [k \in 0 .. n |-> g[k]] /\ g[0] = a
        /\ \A k \in 1 .. n : g[k - 1] \in M[k - 1] /\ g[k] = D[k][g[k - 1]]
    BY <2>2 DEF RecursionIn
  <2>4. \A k \in 0 .. n : g[k] = IF k = 0 THEN a ELSE MergedRuns(g[k - 1], k, list, insize, before)
    <3> TAKE k \in 0 .. n
    <3>1. CASE k = 0
      BY <2>3, <3>1
    <3>2. CASE k # 0
      <4>1. k \in 1 .. n
        BY <1>1, <3>2
      <4>2. g[k] = MergedRuns(g[k - 1], k, list, insize, before)
        BY <2>1, <2>3, <4>1
      <4> QED
        BY <3>2, <4>2
    <3> QED
      BY <3>1, <3>2
  <2>5. G(g)
    BY <2>3, <2>4
  <2> HIDE DEF G
  <2> QED
    BY <2>5
<1>5. G(f)
  BY <1>4
<1>6. Pass(list, insize, before) = f[n]
  BY DEF Pass, n, a
<1> HIDE DEF f
<1>7. f[0] \in M[0]
  BY <1>1, <1>2, <1>5
<1>8. \A k \in 1 .. n : f[k - 1] \in M[k - 1] => f[k] \in M[k]
  BY <1>1, <1>3, <1>5
<1>9. f[n] \in M[n]
  <2> HIDE DEF G
  <2>1. \A k \in 0 .. n : f[k] \in M[k]
    BY <1>1, <1>7, <1>8, StepByStep
  <2> QED
    BY <1>1, <2>1
<1>10. f[n] \in Passing(S, Ord, list, 2 * insize, n)
  BY <1>1, <1>9 DEF M
<1>11. Len(list) <= n * (2 * insize) /\ n * (2 * insize) \in Nat
  <2>1. Len(list) <= n * (2 * insize)
    BY <1>0, MergesFact DEF n
  <2> QED
    BY <1>1, <2>1
<1>12. f[n] \in Seq(S) /\ Len(f[n]) = Len(list) /\ Range(f[n]) = Elements(list, 0, Len(list))
       /\ RunsInOrder(f[n], 2 * insize, Ord)
  BY <1>0, <1>10, <1>11 DEF Passing
<1>13. Elements(list, 0, Len(list)) = Range(list)
  <2>1. \A i \in 1 .. Len(list) : 0 + i = i
    BY <1>0
  <2>2. Elements(list, 0, Len(list)) = {list[i] : i \in 1 .. Len(list)}
    BY <2>1 DEF Elements
  <2> QED
    BY <2>2, RangeEquality
<1> QED
  BY <1>6, <1>12, <1>13

\* the state after k rounds
Rounds(S, Ord, L, A, k) ==
  {s \in [list : Seq(S), insize : Nat \ {0}, finished : BOOLEAN] :
     /\ Len(s.list) = L /\ Range(s.list) = A
     /\ s.finished => InOrderOf(s.list, Ord)
     /\ ~ s.finished => /\ RunsInOrder(s.list, s.insize, Ord) /\ s.insize >= k + 1
                        /\ k > 0 => s.insize < L}

\* A round of the outer loop: the runs are longer, or one run is all there is.
LEMMA RoundStep ==
  ASSUME NEW S, NEW Ord, NEW before, Follows(before, Ord, S), NEW L \in Nat, NEW A,
         NEW k \in 1 .. L, NEW s \in Rounds(S, Ord, L, A, k - 1)
  PROVE  Round(s, before) \in Rounds(S, Ord, L, A, k)
<1>1. CASE s.finished
  <2>1. Round(s, before) = s
    BY <1>1 DEF Round
  <2> QED
    BY <1>1, <2>1 DEF Rounds
<1>2. CASE ~ s.finished
  <2>1. PICK list \in Seq(S), w \in Nat \ {0} : list = s.list /\ w = s.insize
    BY DEF Rounds
  <2>2. Len(list) = L /\ Range(list) = A /\ RunsInOrder(list, w, Ord) /\ w >= k
    BY <1>2, <2>1 DEF Rounds
  <2> DEFINE l == Pass(list, w, before)
  <2>3. l \in Seq(S) /\ Len(l) = L /\ Range(l) = A /\ RunsInOrder(l, 2 * w, Ord)
    BY <2>2, PassSorts
  <2> HIDE DEF l
  <2>4. PICK b \in BOOLEAN : b = LastPass(L, w)
    <3>1. LastPass(L, w) \in BOOLEAN
      BY DEF LastPass
    <3> QED
      BY <3>1
  <2>5. PICK v \in Nat \ {0} : v = 2 * w
    OBVIOUS
  <2>6. Round(s, before) = [list |-> l, insize |-> v, finished |-> b]
    BY <1>2, <2>1, <2>2, <2>4, <2>5 DEF Round, l
  <2>7. PICK m \in Nat : m = Merges(L, w) /\ L <= m * v /\ (m > 0 => (m - 1) * v < L)
    BY <2>5, MergesFact
  <2>8. b <=> m <= 1
    BY <2>4, <2>7 DEF LastPass
  <2>9. b => InOrderOf(l, Ord)
    <3> SUFFICES ASSUME b, NEW i \in 1 .. L, NEW j \in 1 .. L, i < j PROVE <<l[i], l[j]>> \in Ord
      BY <2>3 DEF InOrderOf
    <3>1. L <= v
      <4>1. m = 0 \/ m = 1
        BY <2>8
      <4>2. m * v <= v
        BY <4>1
      <4> QED
        BY <2>7, <4>2
    <3>2. 0 * v < i /\ j <= (0 + 1) * v
      BY <3>1
    <3> QED
      BY <2>3, <2>5, <3>2 DEF RunsInOrder, StretchInOrder
  <2>10. ~ b => v < L
    <3> SUFFICES ASSUME ~ b PROVE v < L
      OBVIOUS
    <3>1. PICK d \in Nat : m - 1 = 1 + d
      <4>1. m - 2 \in Nat /\ m - 1 = 1 + (m - 2)
        BY <2>8
      <4> QED
        BY <4>1
    <3>2. (m - 1) * v = v + d * v /\ d * v \in Nat
      BY <3>1
    <3> QED
      BY <2>7, <2>8, <3>2
  <2>11. v >= k + 1
    BY <2>2, <2>5
  <2>12. RunsInOrder(l, v, Ord)
    BY <2>3, <2>5
  <2>13. [list |-> l, insize |-> v, finished |-> b] \in Rounds(S, Ord, L, A, k)
    BY <2>3, <2>9, <2>10, <2>11, <2>12 DEF Rounds
  <2> QED
    BY <2>6, <2>13
<1>3. s.finished \in BOOLEAN
  BY DEF Rounds
<1> QED
  BY <1>1, <1>2

\* list_sort returns a list of the same length with the same elements, in the
\* order that the callback follows.
THEOREM ListSortSorts ==
  ASSUME NEW S, NEW Ord, NEW before, Follows(before, Ord, S), NEW list \in Seq(S)
  PROVE  /\ ListSorted(list, before) \in Seq(S)
         /\ Len(ListSorted(list, before)) = Len(list)
         /\ Range(ListSorted(list, before)) = Range(list)
         /\ InOrderOf(ListSorted(list, before), Ord)
<1> DEFINE n == Len(list)
           A == Range(list)
           a == [list |-> list, insize |-> 1, finished |-> FALSE]
           M == [k \in 0 .. n |-> Rounds(S, Ord, n, A, k)]
           D == [k \in 0 .. n |-> [s \in M[k - 1] |-> Round(s, before)]]
           G(g) == g = [k \in 0 .. n |-> IF k = 0 THEN a ELSE Round(g[k - 1], before)]
           f == CHOOSE g : G(g)
<1>1. n \in Nat
  OBVIOUS
<1>2. a \in M[0]
  <2>1. RunsInOrder(list, 1, Ord)
    <3> SUFFICES ASSUME NEW b \in Nat, NEW i \in 1 .. n, NEW j \in 1 .. n,
                        b * 1 < i, i < j, j <= (b + 1) * 1
                 PROVE  FALSE
      BY DEF RunsInOrder, StretchInOrder
    <3> QED
      BY <1>1
  <2> HIDE DEF n
  <2>2. a \in Rounds(S, Ord, n, A, 0)
    BY <2>1 DEF Rounds, n
  <2> QED
    BY <1>1, <2>2
<1>3. \A k \in 1 .. n : \A s \in M[k - 1] : Round(s, before) \in M[k]
  <2> SUFFICES ASSUME NEW k \in 1 .. n, NEW s \in M[k - 1] PROVE Round(s, before) \in M[k]
    OBVIOUS
  <2>1. s \in Rounds(S, Ord, n, A, k - 1)
    BY <1>1
  <2> HIDE DEF n, A
  <2>2. Round(s, before) \in Rounds(S, Ord, n, A, k)
    BY <1>1, <2>1, RoundStep
  <2> QED
    BY <1>1, <2>2
<1> HIDE DEF n, M, a, D
<1>4. \E g : G(g)
  <2>1. \A k \in 1 .. n : \A s \in M[k - 1] : D[k][s] = Round(s, before) /\ D[k][s] \in M[k]
    BY <1>1, <1>3 DEF D
  <2>2. PICK g : RecursionIn(g, n, a, D, M)
    BY <1>1, <1>2, <2>1, RecursionTyped
  <2>3. /\ g = [k \in 0 .. n |-> g[k]] /\ g[0] = a
        /\ \A k \in 1 .. n : g[k - 1] \in M[k - 1] /\ g[k] = D[k][g[k - 1]]
    BY <2>2 DEF RecursionIn
  <2>4. \A k \in 0 .. n : g[k] = IF k = 0 THEN a ELSE Round(g[k - 1], before)
    <3> TAKE k \in 0 .. n
    <3>1. CASE k = 0
      BY <2>3, <3>1
    <3>2. CASE k # 0
      <4>1. k \in 1 .. n
        BY <1>1, <3>2
      <4>2. g[k] = Round(g[k - 1], before)
        BY <2>1, <2>3, <4>1
      <4> QED
        BY <3>2, <4>2
    <3> QED
      BY <3>1, <3>2
  <2>5. G(g)
    BY <2>3, <2>4
  <2> HIDE DEF G
  <2> QED
    BY <2>5
<1>5. G(f)
  BY <1>4
<1>6. ListSorted(list, before) = f[n].list
  BY DEF ListSorted, n, a
<1> HIDE DEF f
<1>7. f[0] \in M[0]
  BY <1>1, <1>2, <1>5
<1>8. \A k \in 1 .. n : f[k - 1] \in M[k - 1] => f[k] \in M[k]
  BY <1>1, <1>3, <1>5
<1>9. f[n] \in M[n]
  <2> HIDE DEF G
  <2>1. \A k \in 0 .. n : f[k] \in M[k]
    BY <1>1, <1>7, <1>8, StepByStep
  <2> QED
    BY <1>1, <2>1
<1>10. f[n] \in Rounds(S, Ord, n, A, n)
  BY <1>1, <1>9 DEF M
<1>11. f[n].list \in Seq(S) /\ Len(f[n].list) = n /\ Range(f[n].list) = A
  BY <1>10 DEF Rounds
<1>12. InOrderOf(f[n].list, Ord)
  <2>1. CASE f[n].finished
    BY <1>10, <2>1 DEF Rounds
  <2>2. CASE ~ f[n].finished
    <3>1. PICK w \in Nat : w = f[n].insize /\ w >= n + 1 /\ (n > 0 => w < n)
      BY <1>10, <2>2 DEF Rounds
    <3>2. n = 0
      BY <1>1, <3>1
    <3> QED
      BY <1>11, <3>2 DEF InOrderOf
  <2> QED
    BY <2>1, <2>2
<1> QED
  BY <1>6, <1>11, <1>12 DEF n

\* A list without duplicates, as the rows of a table are, is permuted.
THEOREM ListSortPermutes ==
  ASSUME NEW S, NEW Ord, NEW before, Follows(before, Ord, S), NEW list \in Seq(S),
         IsInjective(list)
  PROVE  IsInjective(ListSorted(list, before))
<1>1. PICK s : s = ListSorted(list, before)
  OBVIOUS
<1>2. s \in Seq(S) /\ Len(s) = Len(list) /\ Range(s) = Range(list)
  BY <1>1, ListSortSorts
<1>3. PICK n \in Nat : n = Len(list)
  OBVIOUS
<1>4. PICK A : A = Range(list)
  OBVIOUS
<1>5. list \in [1 .. n -> S] /\ s \in [1 .. n -> S]
  BY <1>2, <1>3, LenProperties
<1>6. list \in Surjection(1 .. n, A) /\ s \in Surjection(1 .. n, A)
  BY <1>2, <1>4, <1>5 DEF Surjection, Range
<1>7. list \in Injection(1 .. n, A)
  BY <1>4, <1>5 DEF Injection, Range
<1>8. IsFiniteSet(1 .. n)
  BY FS_Interval
<1>9. Cardinality(A) = Cardinality(1 .. n)
  BY <1>6, <1>7, <1>8, FS_Surjection
<1>10. s \in Injection(1 .. n, A)
  BY <1>6, <1>8, <1>9, FS_SurjSameCardinalityImpliesInj
<1> QED
  BY <1>1, <1>10 DEF Injection
-----------------------------------------------------------------------------
(***************************************************************************)
(* The memory heap                                                         *)
(***************************************************************************)
\* the values of a row, and the rows: the values are those of some packets
Vals == [bytes : Nat, pkts : Nat, bpp : Nat]

Rows == {r \in [key : Nat, val : Vals] : r.val.pkts # 0}

\* the rows of a table, and their list
TableOK(t) ==
  /\ t = [row |-> t.row, bucket |-> t.bucket, order |-> t.order]
  /\ DOMAIN t.row \subseteq Nat \ {0}
  /\ t.row \in [DOMAIN t.row -> Rows]
  /\ t.order \in Seq(DOMAIN t.row) /\ Range(t.order) = DOMAIN t.row
  /\ IsInjective(t.order)

\* the chains of a table that aggregates
ChainsOK(t) ==
  /\ t.bucket \in [0 .. NumBuckets - 1 -> Seq(Nat)]
  /\ \A b \in 0 .. NumBuckets - 1 :
       Range(t.bucket[b]) = {a \in DOMAIN t.row : Bucket(t.row[a].key) = b}
  /\ \A a, b \in DOMAIN t.row : t.row[a].key = t.row[b].key => a = b

\* A key has a bucket.
LEMMA BucketType ==
  ASSUME NEW key \in Nat
  PROVE  Bucket(key) \in 0 .. NumBuckets - 1
BY NumBucketsAssumption DEF Bucket

\* hash_table_init and hash_table_clean leave a table that is in order.
LEMMA EmptyTableOK == TableOK(EmptyTable) /\ ChainsOK(EmptyTable)
<1> DEFINE none == <<>>
<1>1. none \in Seq(DOMAIN none) /\ DOMAIN none = {} /\ Range(none) = {} /\ IsInjective(none)
      /\ none \in [DOMAIN none -> Rows] /\ none \in Seq(Nat)
  BY DEF Range, IsInjective
<1>2. EmptyTable = [row |-> none, bucket |-> [b \in 0 .. NumBuckets - 1 |-> none], order |-> none]
  BY DEF EmptyTable
<1> HIDE DEF none
<1>3. EmptyTable.row = none /\ EmptyTable.order = none
      /\ EmptyTable.bucket = [b \in 0 .. NumBuckets - 1 |-> none]
  BY <1>2
<1> QED
  BY <1>1, <1>2, <1>3 DEF TableOK, ChainsOK

\* The list of a table has as many elements as there are rows.
LEMMA RowsFinite ==
  ASSUME NEW t, TableOK(t)
  PROVE  IsFiniteSet(DOMAIN t.row)
<1> DEFINE S == DOMAIN t.row
           n == Len(t.order)
<1>1. t.order \in Seq(S) /\ Range(t.order) = S
  BY DEF TableOK
<1>2. n \in Nat /\ t.order \in [1 .. n -> S]
  BY <1>1, LenProperties
<1>3. t.order \in Surjection(1 .. n, S)
  BY <1>1, <1>2 DEF Surjection, Range
<1>4. IsFiniteSet(1 .. n)
  BY <1>2, FS_Interval
<1> HIDE DEF S, n
<1>5. IsFiniteSet(S)
  BY <1>3, <1>4, FS_Surjection
<1> QED
  BY <1>5 DEF S

\* malloc returns the address of no other row.
LEMMA NewAddrFresh ==
  ASSUME NEW t, TableOK(t)
  PROVE  NewAddr(t) \in Nat \ {0} /\ NewAddr(t) \notin DOMAIN t.row
<1> DEFINE S == DOMAIN t.row
           n == Cardinality(S)
<1>1. IsFiniteSet(S) /\ n \in Nat
  BY RowsFinite, FS_CardinalityType
<1> HIDE DEF S, n
<1>2. \E a \in 1 .. n + 1 : a \notin S
  <2> SUFFICES ASSUME \A a \in 1 .. n + 1 : a \in S PROVE FALSE
    OBVIOUS
  <2>1. (1 .. n + 1) \in SUBSET S
    OBVIOUS
  <2>2. Cardinality(1 .. n + 1) <= n
    BY <1>1, <2>1, FS_Subset DEF n
  <2>3. Cardinality(1 .. n + 1) = n + 1
    <3>1. 1 \in Int /\ n + 1 \in Int /\ ~ (1 > n + 1) /\ (n + 1) - 1 + 1 = n + 1
      BY <1>1
    <3> QED
      BY <3>1, FS_Interval
  <2> QED
    BY <1>1, <2>2, <2>3
<1>3. NewAddr(t) = CHOOSE a \in 1 .. n + 1 : a \notin S
  BY DEF NewAddr, n, S
<1>4. NewAddr(t) \in 1 .. n + 1 /\ NewAddr(t) \notin S
  BY <1>2, <1>3
<1> QED
  BY <1>1, <1>4 DEF S

\* A lookup finds the row of the key, if there is one.
LEMMA LookupIs ==
  ASSUME NEW t, TableOK(t), ChainsOK(t), NEW key \in Nat
  PROVE  /\ Lookup(t, key) = NULL => \A a \in DOMAIN t.row : t.row[a].key # key
         /\ Lookup(t, key) # NULL => Lookup(t, key) \in DOMAIN t.row /\ t.row[Lookup(t, key)].key = key
<1> DEFINE chain == t.bucket[Bucket(key)]
           hits == {i \in DOMAIN chain : t.row[chain[i]].key = key}
           first == CHOOSE i \in hits : \A j \in hits : i <= j
<1>1. chain \in Seq(Nat) /\ Range(chain) = {a \in DOMAIN t.row : Bucket(t.row[a].key) = Bucket(key)}
  BY BucketType DEF ChainsOK
<1>2. Lookup(t, key) = IF hits = {} THEN NULL ELSE chain[first]
  BY DEF Lookup
<1>3. DOMAIN chain = 1 .. Len(chain) /\ Len(chain) \in Nat
  BY <1>1, LenProperties
<1>4. 0 \notin DOMAIN t.row
  BY DEF TableOK
<1> HIDE DEF chain
<1>5. CASE hits = {}
  <2> SUFFICES ASSUME NEW a \in DOMAIN t.row, t.row[a].key = key PROVE FALSE
    BY <1>2, <1>5
  <2>1. a \in Range(chain)
    BY <1>1
  <2>2. PICK i \in DOMAIN chain : chain[i] = a
    BY <2>1 DEF Range
  <2> QED
    BY <1>5, <2>2
<1>6. CASE hits # {}
  <2>1. hits \in SUBSET Nat
    BY <1>3
  <2>2. \E i \in hits : \A j \in hits : i <= j
    <3> HIDE DEF hits
    <3> QED
      BY <1>6, <2>1, NatLeast
  <2>3. first \in hits
    <3> HIDE DEF hits
    <3> QED
      BY <2>2
  <2> HIDE DEF first
  <2>4. first \in DOMAIN chain /\ t.row[chain[first]].key = key
    BY <2>3
  <2>5. chain[first] \in Range(chain)
    BY <2>4 DEF Range
  <2> QED
    BY <1>1, <1>2, <1>4, <1>6, <2>4, <2>5 DEF NULL
<1> QED
  BY <1>5, <1>6

\* The rows behind a row are those at the later positions of the list.
LEMMA RowsAfterAre ==
  ASSUME NEW t, TableOK(t), NEW i \in 1 .. Len(t.order)
  PROVE  /\ Len(t.order) \in Nat /\ t.order[i] \in DOMAIN t.row
         /\ RowsAfter(t, t.order[i]) = SubSeq(t.order, i + 1, Len(t.order))
         /\ Range(RowsAfter(t, t.order[i])) = {t.order[j] : j \in i + 1 .. Len(t.order)}
<1> DEFINE s == t.order
           S == DOMAIN t.row
<1>1. s \in Seq(S) /\ IsInjective(s)
  BY DEF TableOK
<1>2. PICK n \in Nat : n = Len(s)
  BY <1>1
<1>3. DOMAIN s = 1 .. n /\ s \in [1 .. n -> S]
  BY <1>1, <1>2, LenProperties
<1>4. Position(t, s[i]) = i
  BY <1>1, <1>2, <1>3 DEF Position, IsInjective
<1>5. RowsAfter(t, s[i]) = SubSeq(s, i + 1, n)
  BY <1>2, <1>4 DEF RowsAfter
<1> HIDE DEF s, S
<1>6. SubSeq(s, i + 1, n) \in [1 .. n - i -> S] /\ \A j \in 1 .. n - i : SubSeq(s, i + 1, n)[j] = s[i + j]
  <2>1. i \in 1 .. n
    BY <1>2 DEF s
  <2>2. i + 1 \in 1 .. n + 1 /\ n \in i .. n
    BY <1>2, <2>1
  <2>3. Len(SubSeq(s, i + 1, n)) = n - i
        /\ \A j \in 1 .. n - i : SubSeq(s, i + 1, n)[j] = s[i + j]
    BY <1>1, <1>2, <2>1, <2>2
  <2>4. SubSeq(s, i + 1, n) \in Seq(S)
    BY <1>1, <1>2, <1>3, <2>1, <2>2
  <2> DEFINE r == SubSeq(s, i + 1, n)
  <2>5. r \in [1 .. Len(r) -> S]
    BY <2>4, LenProperties
  <2> HIDE DEF r
  <2>6. r \in [1 .. n - i -> S]
    <3>1. Len(r) = n - i
      BY <2>3 DEF r
    <3> QED
      BY <3>1, <2>5
  <2> QED
    BY <2>3, <2>6 DEF r
<1>7. Range(SubSeq(s, i + 1, n)) = {s[j] : j \in i + 1 .. n}
  <2>1. ASSUME NEW x \in Range(SubSeq(s, i + 1, n)) PROVE x \in {s[j] : j \in i + 1 .. n}
    <3>1. PICK k \in 1 .. n - i : x = SubSeq(s, i + 1, n)[k]
      BY <1>6 DEF Range
    <3>2. x = s[i + k] /\ i + k \in i + 1 .. n
      BY <1>2, <1>6, <3>1 DEF s
    <3> QED
      BY <3>2
  <2>2. ASSUME NEW j \in i + 1 .. n PROVE s[j] \in Range(SubSeq(s, i + 1, n))
    <3>1. j - i \in 1 .. n - i /\ i + (j - i) = j
      BY <1>2 DEF s
    <3>2. SubSeq(s, i + 1, n)[j - i] = s[i + (j - i)]
      BY <1>6, <3>1
    <3> QED
      BY <1>6, <3>1, <3>2 DEF Range
  <2> QED
    BY <2>1, <2>2
<1> QED
  BY <1>2, <1>3, <1>5, <1>7 DEF s, S

\* A row in front of the list takes no row from behind another one.
LEMMA FrontKeeps ==
  ASSUME NEW t, TableOK(t), NEW u, TableOK(u), NEW a, u.order = <<a>> \o t.order,
         NEW b \in DOMAIN t.row
  PROVE  b \in DOMAIN u.row /\ Range(RowsAfter(u, b)) = Range(RowsAfter(t, b))
<1> DEFINE s == t.order
           r == u.order
           S == DOMAIN t.row
           A(i) == {s[j] : j \in i + 1 .. Len(s)}
           B(i) == {r[j] : j \in i + 1 .. Len(r)}
<1>1. s \in Seq(S) /\ Range(s) = S
  BY DEF TableOK
<1>2. PICK n \in Nat : n = Len(s)
  BY <1>1
<1>3. Len(r) = n + 1 /\ \A j \in 1 .. n : r[j + 1] = s[j]
  <2>1. r = <<a>> \o s /\ s \in Seq(S \cup {a}) /\ <<a>> \in Seq(S \cup {a})
    BY <1>1
  <2> HIDE DEF s, r
  <2> QED
    BY <1>2, <2>1
<1>4. PICK i \in 1 .. n : s[i] = b
  BY <1>1, <1>2, LenProperties DEF Range
<1>5. Range(RowsAfter(t, b)) = A(i)
  BY <1>2, <1>4, RowsAfterAre
<1>6. r[i + 1] = b /\ i + 1 \in 1 .. Len(r)
  BY <1>2, <1>3, <1>4
<1>7. b \in DOMAIN u.row /\ Range(RowsAfter(u, b)) = B(i + 1)
  BY <1>6, RowsAfterAre
<1>8. A(i) = B(i + 1)
  <2> HIDE DEF s, r
  <2>1. ASSUME NEW j \in i + 1 .. n PROVE s[j] \in B(i + 1)
    <3>1. j + 1 \in i + 2 .. n + 1 /\ r[j + 1] = s[j]
      BY <1>2, <1>3
    <3> QED
      BY <1>2, <1>3, <3>1
  <2>2. ASSUME NEW j \in i + 2 .. n + 1 PROVE r[j] \in A(i)
    <3>1. PICK k \in i + 1 .. n : j = k + 1
      <4>1. j - 1 \in i + 1 .. n /\ j = (j - 1) + 1
        BY <1>2
      <4> QED
        BY <4>1
    <3>2. r[k + 1] = s[k]
      BY <1>2, <1>3
    <3> QED
      BY <1>2, <3>1, <3>2
  <2>3. A(i) = {s[j] : j \in i + 1 .. n} /\ B(i + 1) = {r[j] : j \in i + 2 .. n + 1}
    <3>1. (i + 1) + 1 = i + 2
      BY <1>2
    <3> QED
      BY <1>2, <1>3, <3>1
  <2> HIDE DEF A, B
  <2> QED
    BY <2>1, <2>2, <2>3
<1> HIDE DEF A, B
<1> QED
  BY <1>5, <1>7, <1>8

\* row is the rows of t and, at a, a new one
RowAdded(t, key, val, a, row) ==
  /\ DOMAIN row = DOMAIN t.row \cup {a}
  /\ row \in [DOMAIN t.row \cup {a} -> Rows]
  /\ row[a] = [key |-> key, val |-> val]
  /\ \A b \in DOMAIN t.row : row[b] = t.row[b]

\* The new row and the list with it in front.
LEMMA NewRowIs ==
  ASSUME NEW t, TableOK(t), NEW key \in Nat, NEW val \in Vals, val.pkts # 0,
         NEW a, a = NewAddr(t), NEW row, row = NewRow(t, key, val)
  PROVE  RowAdded(t, key, val, a, row)
<1>1. a \notin DOMAIN t.row
  BY NewAddrFresh
<1>2. [key |-> key, val |-> val] \in Rows
  BY DEF Rows
<1>3. t.row \in [DOMAIN t.row -> Rows]
  BY DEF TableOK
<1> QED
  BY <1>1, <1>2, <1>3 DEF NewRow, RowAdded

\* One element more in front: the range grows by it.
LEMMA RangeOfFront ==
  ASSUME NEW S, NEW s \in Seq(S), NEW a
  PROVE  Range(<<a>> \o s) = Range(s) \cup {a}
<1> DEFINE one == <<a>>
<1>1. s \in Seq(S \cup {a}) /\ one \in Seq(S \cup {a}) /\ Range(one) = {a}
  BY DEF Range
<1> HIDE DEF one
<1>2. Range(one \o s) = Range(one) \cup Range(s)
  BY <1>1, RangeConcatenation
<1> QED
  BY <1>1, <1>2 DEF one

\* With the new row in front of the list the table is in order again.
LEMMA NewTableOK ==
  ASSUME NEW t, TableOK(t), NEW key \in Nat, NEW val \in Vals, val.pkts # 0, NEW bucket,
         NEW u, u = [row |-> NewRow(t, key, val), bucket |-> bucket,
                     order |-> ListFront(t, NewAddr(t))]
  PROVE  TableOK(u)
<1>0. PICK a : a = NewAddr(t)
  OBVIOUS
<1> DEFINE s == t.order
           S == DOMAIN t.row
           r == <<a>> \o s
<1>1. a \in Nat \ {0} /\ a \notin S
  BY <1>0, NewAddrFresh
<1>2. u.row = NewRow(t, key, val) /\ u.bucket = bucket /\ u.order = r
  BY <1>0 DEF ListFront
<1>3. DOMAIN u.row = S \cup {a} /\ u.row \in [S \cup {a} -> Rows]
  <2>1. PICK row : row = NewRow(t, key, val)
    OBVIOUS
  <2>2. RowAdded(t, key, val, a, row)
    BY <1>0, <2>1, NewRowIs
  <2>3. u.row = row
    BY <1>2, <2>1
  <2> QED
    BY <2>2, <2>3 DEF RowAdded
<1>4. S \subseteq Nat \ {0} /\ s \in Seq(S) /\ Range(s) = S /\ IsInjective(s)
  BY DEF TableOK
<1>5. PICK n \in Nat : n = Len(s)
  BY <1>4
<1> HIDE DEF s, S
<1>6. s \in Seq(S \cup {a}) /\ <<a>> \in Seq(S \cup {a})
  BY <1>4
<1>7. r \in Seq(S \cup {a}) /\ Len(r) = n + 1 /\ r[1] = a /\ \A j \in 2 .. n + 1 : r[j] = s[j - 1]
  BY <1>5, <1>6
<1> HIDE DEF r
<1>8. DOMAIN r = 1 .. n + 1 /\ DOMAIN s = 1 .. n
  BY <1>4, <1>5, <1>7, LenProperties
<1>9. \A j \in 2 .. n + 1 : r[j] = s[j - 1] /\ j - 1 \in 1 .. n /\ s[j - 1] \in S
  BY <1>4, <1>5, <1>7, <1>8
<1>10. Range(r) = S \cup {a}
  BY <1>4, RangeOfFront DEF r
<1>11. IsInjective(r)
  <2> SUFFICES ASSUME NEW i \in 1 .. n + 1, NEW j \in 1 .. n + 1, r[i] = r[j] PROVE i = j
    BY <1>8 DEF IsInjective
  <2>1. CASE i = 1 /\ j = 1
    BY <2>1
  <2>2. CASE i = 1 /\ j # 1
    BY <1>1, <1>5, <1>7, <1>9, <2>2
  <2>3. CASE i # 1 /\ j = 1
    BY <1>1, <1>5, <1>7, <1>9, <2>3
  <2>4. CASE i # 1 /\ j # 1
    <3>1. i \in 2 .. n + 1 /\ j \in 2 .. n + 1
      BY <1>5, <2>4
    <3>2. i - 1 \in 1 .. n /\ j - 1 \in 1 .. n /\ s[i - 1] = s[j - 1]
      BY <1>9, <3>1
    <3>3. i - 1 = j - 1
      BY <1>4, <1>8, <3>2 DEF IsInjective
    <3> QED
      BY <3>1, <3>3
  <2> QED
    BY <2>1, <2>2, <2>3, <2>4
<1>12. u = [row |-> u.row, bucket |-> u.bucket, order |-> u.order]
  OBVIOUS
<1> QED
  BY <1>1, <1>2, <1>3, <1>4, <1>7, <1>10, <1>11, <1>12 DEF TableOK

\* Every row is still there, and the same rows are behind it in the list.
Keeps(t, u) ==
  \A b \in DOMAIN t.row : b \in DOMAIN u.row /\ Range(RowsAfter(u, b)) = Range(RowsAfter(t, b))

\* A table of the same rows, whose values are others.
LEMMA SameListOK ==
  ASSUME NEW t, TableOK(t), NEW row, row \in [DOMAIN t.row -> Rows],
         \A a \in DOMAIN t.row : row[a].key = t.row[a].key,
         NEW u, u = [row |-> row, bucket |-> t.bucket, order |-> t.order]
  PROVE  TableOK(u) /\ (ChainsOK(t) => ChainsOK(u)) /\ Keeps(t, u)
<1>1. u.row = row /\ u.bucket = t.bucket /\ u.order = t.order
  OBVIOUS
<1>2. DOMAIN row = DOMAIN t.row
  OBVIOUS
<1>3. TableOK(u)
  BY <1>1, <1>2 DEF TableOK
<1>4. ASSUME ChainsOK(t) PROVE ChainsOK(u)
  <2>1. \A b \in 0 .. NumBuckets - 1 :
          Range(u.bucket[b]) = {a \in DOMAIN u.row : Bucket(u.row[a].key) = b}
    <3> SUFFICES ASSUME NEW b \in 0 .. NumBuckets - 1
                 PROVE  Range(t.bucket[b]) = {a \in DOMAIN row : Bucket(row[a].key) = b}
      BY <1>1
    <3>1. Range(t.bucket[b]) = {a \in DOMAIN t.row : Bucket(t.row[a].key) = b}
      BY <1>4 DEF ChainsOK
    <3> QED
      BY <1>2, <3>1
  <2>2. \A a, b \in DOMAIN u.row : u.row[a].key = u.row[b].key => a = b
    BY <1>1, <1>2, <1>4 DEF ChainsOK
  <2> QED
    BY <1>1, <1>4, <2>1, <2>2 DEF ChainsOK
<1>5. Keeps(t, u)
  BY <1>1, <1>2 DEF Keeps, RowsAfter, Position
<1> QED
  BY <1>3, <1>4, <1>5

\* hash_table_insert_list keeps the table and every scan.
LEMMA InsertListOK ==
  ASSUME NEW t, TableOK(t), NEW key \in Nat, NEW val \in Vals, val.pkts # 0,
         NEW u, u = InsertList(t, key, val)
  PROVE  TableOK(u) /\ Keeps(t, u)
<1>1. t = [row |-> t.row, bucket |-> t.bucket, order |-> t.order]
  BY DEF TableOK
<1>2. u = [row |-> NewRow(t, key, val), bucket |-> t.bucket, order |-> ListFront(t, NewAddr(t))]
  BY <1>1 DEF InsertList
<1>3. TableOK(u)
  BY <1>2, NewTableOK
<1>4. u.order = <<NewAddr(t)>> \o t.order
  BY <1>2 DEF ListFront
<1> QED
  BY <1>3, <1>4, FrontKeeps DEF Keeps

\* Aggregation adds field by field.
LEMMA AggregatedIs ==
  ASSUME NEW old \in Vals, NEW new \in Vals
  PROVE  Aggregated(old, new) = [bytes |-> old.bytes + new.bytes, pkts |-> old.pkts + new.pkts,
                                 bpp |-> old.bpp + new.bpp]
BY DEF Aggregated, Vals

\* A row is added under its bucket, or the values are added to the row there is.
LEMMA InsertHashOK ==
  ASSUME NEW t, TableOK(t), ChainsOK(t), NEW key \in Nat, NEW val \in Vals, val.pkts # 0,
         NEW u, u = InsertHash(t, key, val)
  PROVE  TableOK(u) /\ ChainsOK(u) /\ Keeps(t, u)
<1>0. t = [row |-> t.row, bucket |-> t.bucket, order |-> t.order]
  BY DEF TableOK
<1>1. PICK at : at = Lookup(t, key)
  OBVIOUS
<1>2. CASE at # NULL
  <2>1. at \in DOMAIN t.row /\ t.row[at].key = key
    BY <1>1, <1>2, LookupIs
  <2>2. PICK row : row = [t.row EXCEPT ![at].val = Aggregated(@, val)]
    OBVIOUS
  <2>3. u = [row |-> row, bucket |-> t.bucket, order |-> t.order]
    <3>1. u = [t EXCEPT !.row[at].val = Aggregated(@, val)]
      BY <1>1, <1>2 DEF InsertHash
    <3> QED
      BY <1>0, <2>2, <3>1
  <2>4. t.row \in [DOMAIN t.row -> Rows]
    BY DEF TableOK
  <2>5. t.row[at] \in Rows /\ Aggregated(t.row[at].val, val) \in Vals
        /\ Aggregated(t.row[at].val, val).pkts # 0
    <3>1. t.row[at] \in Rows
      BY <2>1, <2>4
    <3>2. t.row[at].val \in Vals
      BY <3>1 DEF Rows
    <3> QED
      BY <3>1, <3>2, AggregatedIs DEF Vals, Rows
  <2>6. row \in [DOMAIN t.row -> Rows] /\ \A a \in DOMAIN t.row : row[a].key = t.row[a].key
    BY <2>1, <2>2, <2>4, <2>5 DEF Rows
  <2> QED
    BY <2>3, <2>6, SameListOK
<1>3. CASE at = NULL
  <2>1. PICK a : a = NewAddr(t)
    OBVIOUS
  <2>2. PICK row : row = NewRow(t, key, val)
    OBVIOUS
  <2>3. PICK bucket : bucket = ChainFront(t, key, a)
    OBVIOUS
  <2>4. u = [row |-> row, bucket |-> bucket, order |-> ListFront(t, a)]
    BY <1>1, <1>3, <2>1, <2>2, <2>3 DEF InsertHash
  <2>5. TableOK(u)
    BY <2>1, <2>2, <2>4, NewTableOK
  <2>6. u.order = <<a>> \o t.order /\ u.row = row /\ u.bucket = bucket
    BY <2>4 DEF ListFront
  <2>7. Keeps(t, u)
    BY <2>5, <2>6, FrontKeeps DEF Keeps
  <2>8. RowAdded(t, key, val, a, row) /\ a \in Nat \ {0} /\ a \notin DOMAIN t.row
    BY <2>1, <2>2, NewRowIs, NewAddrFresh
  <2>9. \A b \in DOMAIN t.row : t.row[b].key # key
    BY <1>1, <1>3, LookupIs
  <2>10. \A b, c \in DOMAIN row : row[b].key = row[c].key => b = c
    BY <2>8, <2>9 DEF RowAdded, ChainsOK
  <2>11. /\ t.bucket \in [0 .. NumBuckets - 1 -> Seq(Nat)]
         /\ \A b \in 0 .. NumBuckets - 1 :
              Range(t.bucket[b]) = {c \in DOMAIN t.row : Bucket(t.row[c].key) = b}
    BY DEF ChainsOK
  <2>12. PICK h \in 0 .. NumBuckets - 1 : h = Bucket(key)
    BY BucketType
  <2>13. PICK chain \in Seq(Nat) : chain = <<a>> \o t.bucket[h]
    <3>1. t.bucket \in [0 .. NumBuckets - 1 -> Seq(Nat)]
      BY <2>11
    <3>2. PICK old \in Seq(Nat) : old = t.bucket[h]
      BY <3>1, <2>12
    <3>3. <<a>> \in Seq(Nat)
      <4>1. a \in Nat
        BY <2>8
      <4> QED
        BY <4>1
    <3>4. <<a>> \o old \in Seq(Nat)
      BY <3>2, <3>3, ConcatProperties
    <3> QED
      BY <3>2, <3>4
  <2>14. bucket = [t.bucket EXCEPT ![h] = chain]
    BY <2>3, <2>12, <2>13 DEF ChainFront
  <2>15. bucket \in [0 .. NumBuckets - 1 -> Seq(Nat)]
    BY <2>11, <2>12, <2>13, <2>14
  <2>16. Range(chain) = Range(t.bucket[h]) \cup {a}
    BY <2>8, <2>11, <2>13, RangeOfFront
  <2>17. \A b \in 0 .. NumBuckets - 1 : Range(bucket[b]) = {c \in DOMAIN row : Bucket(row[c].key) = b}
    <3> TAKE b \in 0 .. NumBuckets - 1
    <3>1. Range(t.bucket[b]) = {c \in DOMAIN t.row : Bucket(t.row[c].key) = b}
      BY <2>11
    <3>2. DOMAIN row = DOMAIN t.row \cup {a} /\ row[a].key = key
          /\ \A c \in DOMAIN t.row : row[c].key = t.row[c].key
      BY <2>8 DEF RowAdded
    <3>3. CASE b = h
      <4>1. Range(bucket[b]) = Range(t.bucket[b]) \cup {a}
        BY <2>11, <2>12, <2>14, <2>16, <3>3
      <4> QED
        BY <2>8, <2>12, <3>1, <3>2, <3>3, <4>1
    <3>4. CASE b # h
      <4>1. bucket[b] = t.bucket[b]
        BY <2>11, <2>14, <3>4
      <4> QED
        BY <2>8, <2>12, <3>1, <3>2, <3>4, <4>1
    <3> QED
      BY <3>3, <3>4
  <2>18. ChainsOK(u)
    BY <2>6, <2>10, <2>15, <2>17 DEF ChainsOK
  <2> QED
    BY <2>5, <2>7, <2>18
<1> QED
  BY <1>2, <1>3

-----------------------------------------------------------------------------
\* Every sort field is a number.
LEMMA SortValueType ==
  ASSUME NEW r \in Rows, conf \in Configs, conf.field # "none"
  PROVE  SortValue(r) \in Nat
<1>1. conf.field \in {"port", "addr", "bytes", "bpp"}
  BY ConfigsAssumption
<1>2. r.key \in Nat /\ r.val \in [bytes : Nat, pkts : Nat, bpp : Nat]
  BY DEF Rows, Vals
<1> QED
  BY <1>1, <1>2 DEF SortValue

\* the order that the callback makes: what LNF_SORT_ASC and LNF_SORT_DESC say
\* of numbers, and for addresses the other way round
CallbackOrder(p, q) ==
  IF conf.desc = (conf.field = "addr") THEN SortValue(p) <= SortValue(q)
                                       ELSE SortValue(p) >= SortValue(q)

\* that order on the rows of a table
OrderOf(t) ==
  {pair \in (DOMAIN t.row) \X (DOMAIN t.row) : CallbackOrder(t.row[pair[1]], t.row[pair[2]])}

\* The callback follows the order, in each direction and for each kind of field.
LEMMA CallbackFollows ==
  ASSUME NEW t, TableOK(t), conf \in Configs, conf.field # "none"
  PROVE  Follows(RowsBefore(t), OrderOf(t), DOMAIN t.row)
<1> DEFINE S == DOMAIN t.row
<1>1. \A a \in S : t.row[a] \in Rows
  BY DEF TableOK
<1>2. \A a \in S : SortValue(t.row[a]) \in Nat
  BY <1>1, SortValueType
<1>3. conf.desc \in BOOLEAN
  BY ConfigsAssumption
<1>4. \A a, b \in S : <<a, b>> \in OrderOf(t) <=> CallbackOrder(t.row[a], t.row[b])
  BY DEF OrderOf
<1>5. \A a, b \in S : <<a, b>> \in RowsBefore(t) <=> SortCallback(t.row[a], t.row[b])
  BY DEF RowsBefore
<1> HIDE DEF S
<1>6. ASSUME NEW a \in S, NEW b \in S, NEW c \in S,
             CallbackOrder(t.row[a], t.row[b]), CallbackOrder(t.row[b], t.row[c])
      PROVE  CallbackOrder(t.row[a], t.row[c])
  BY <1>2, <1>6 DEF CallbackOrder
<1>7. ASSUME NEW a \in S, NEW b \in S
      PROVE  IF SortCallback(t.row[a], t.row[b]) THEN CallbackOrder(t.row[a], t.row[b])
                                                  ELSE CallbackOrder(t.row[b], t.row[a])
  BY <1>2, <1>3 DEF CallbackOrder, SortCallback
<1>8. Follows(RowsBefore(t), OrderOf(t), S)
  BY <1>4, <1>5, <1>6, <1>7 DEF Follows
<1> QED
  BY <1>8 DEF S

\* the list of a table is in the order of the sort field
InOrderAll(t) ==
  \A i, j \in DOMAIN t.order : i < j => CallbackOrder(t.row[t.order[i]], t.row[t.order[j]])

\* Sorting leaves the rows and the chains, and puts the list in order.
LEMMA SortRowsOK ==
  ASSUME NEW t, TableOK(t), conf \in Configs, conf.field # "none",
         NEW u, u = SortRows(t)
  PROVE  TableOK(u) /\ (ChainsOK(t) => ChainsOK(u)) /\ u.row = t.row /\ InOrderAll(u)
<1>1. PICK s : s = ListSorted(t.order, RowsBefore(t))
  OBVIOUS
<1>2. PICK S : S = DOMAIN t.row
  OBVIOUS
<1>3. t = [row |-> t.row, bucket |-> t.bucket, order |-> t.order]
      /\ S \subseteq Nat \ {0} /\ t.row \in [S -> Rows]
      /\ t.order \in Seq(S) /\ Range(t.order) = S /\ IsInjective(t.order)
  BY <1>2 DEF TableOK
<1>4. u = [row |-> t.row, bucket |-> t.bucket, order |-> s]
  BY <1>1, <1>3 DEF SortRows, SortTable
<1>5. Follows(RowsBefore(t), OrderOf(t), S)
  BY <1>2, CallbackFollows
<1>6. s \in Seq(S) /\ Len(s) = Len(t.order) /\ Range(s) = Range(t.order) /\ InOrderOf(s, OrderOf(t))
  BY <1>1, <1>3, <1>5, ListSortSorts
<1>7. IsInjective(s)
  BY <1>1, <1>3, <1>5, ListSortPermutes
<1>8. u.row = t.row /\ u.bucket = t.bucket /\ u.order = s
  BY <1>4
<1>9. TableOK(u)
  BY <1>2, <1>3, <1>4, <1>6, <1>7, <1>8 DEF TableOK
<1>10. ChainsOK(t) => ChainsOK(u)
  BY <1>8 DEF ChainsOK
<1>11. InOrderAll(u)
  <2>1. DOMAIN s = 1 .. Len(s)
    BY <1>6, LenProperties
  <2>2. \A i, j \in DOMAIN s : i < j => <<s[i], s[j]>> \in OrderOf(t)
    BY <1>6, <2>1 DEF InOrderOf
  <2>3. \A i, j \in DOMAIN s : i < j => CallbackOrder(t.row[s[i]], t.row[s[j]])
    BY <2>2 DEF OrderOf
  <2> QED
    BY <1>8, <2>3 DEF InOrderAll
<1> QED
  BY <1>8, <1>9, <1>10, <1>11

\* every calculated value is that of the other values
CalculatedAll(t) ==
  \A a \in DOMAIN t.row : t.row[a].val.bpp = t.row[a].val.bytes \div t.row[a].val.pkts

\* Calculating the fields leaves keys, chains and list, and every calculated
\* value is right.
LEMMA UpdCalcFieldsOK ==
  ASSUME NEW t, TableOK(t), NEW u, u = UpdCalcFields(t)
  PROVE  /\ TableOK(u) /\ (ChainsOK(t) => ChainsOK(u)) /\ DOMAIN u.row = DOMAIN t.row
         /\ CalculatedAll(u)
<1>1. PICK S : S = DOMAIN t.row
  OBVIOUS
<1>2. t = [row |-> t.row, bucket |-> t.bucket, order |-> t.order] /\ t.row \in [S -> Rows]
  BY <1>1 DEF TableOK
<1>3. PICK row : row = [a \in S |-> [t.row[a] EXCEPT !.val.bpp = t.row[a].val.bytes \div t.row[a].val.pkts]]
  OBVIOUS
<1>4. u = [row |-> row, bucket |-> t.bucket, order |-> t.order]
  BY <1>1, <1>2, <1>3 DEF UpdCalcFields
<1>5. ASSUME NEW a \in S
      PROVE  /\ row[a] \in Rows /\ row[a].key = t.row[a].key
             /\ row[a].val.bpp = row[a].val.bytes \div row[a].val.pkts
  <2>1. PICK r \in Rows : r = t.row[a]
    BY <1>2
  <2>2. PICK q : q = r.val.bytes \div r.val.pkts
    OBVIOUS
  <2>3. r.key \in Nat /\ r.val \in Vals /\ r.val.pkts # 0
        /\ r = [key |-> r.key, val |-> r.val]
    BY DEF Rows
  <2>4. PICK v \in Vals : v = r.val
    BY <2>3
  <2>5. v.bytes \in Nat /\ v.pkts \in Nat /\ v.bpp \in Nat /\ v.pkts # 0
        /\ v = [bytes |-> v.bytes, pkts |-> v.pkts, bpp |-> v.bpp]
    BY <2>3, <2>4 DEF Vals
  <2>6. q \in Nat
    BY <2>2, <2>4, <2>5
  <2>7. row[a] = [key |-> r.key, val |-> [bytes |-> v.bytes, pkts |-> v.pkts, bpp |-> q]]
    <3>1. row[a] = [r EXCEPT !.val.bpp = q]
      BY <1>3, <2>1, <2>2
    <3>2. [v EXCEPT !.bpp = q] = [bytes |-> v.bytes, pkts |-> v.pkts, bpp |-> q]
      BY <2>5
    <3>3. [r EXCEPT !.val.bpp = q] = [key |-> r.key, val |-> [v EXCEPT !.bpp = q]]
      BY <2>3, <2>4
    <3> QED
      BY <3>1, <3>2, <3>3
  <2>8. PICK w : w = [bytes |-> v.bytes, pkts |-> v.pkts, bpp |-> q]
    OBVIOUS
  <2>9. w \in Vals /\ w.bytes = v.bytes /\ w.pkts = v.pkts /\ w.bpp = q
    BY <2>5, <2>6, <2>8 DEF Vals
  <2>10. row[a].key = r.key /\ row[a].val = w
    BY <2>7, <2>8
  <2>11. row[a] \in Rows
    BY <2>3, <2>5, <2>7, <2>8, <2>9 DEF Rows
  <2>12. row[a].val.bpp = r.val.bytes \div r.val.pkts
    BY <2>2, <2>9, <2>10
  <2>13. row[a].val.bytes = r.val.bytes /\ row[a].val.pkts = r.val.pkts
    BY <2>4, <2>9, <2>10
  <2> QED
    BY <2>1, <2>10, <2>11, <2>12, <2>13
<1>6. row \in [S -> Rows] /\ DOMAIN row = S
  <2>1. DOMAIN row = S /\ row = [a \in S |-> row[a]]
    BY <1>3
  <2> QED
    BY <1>5, <2>1
<1>7. TableOK(u) /\ (ChainsOK(t) => ChainsOK(u))
  BY <1>1, <1>4, <1>5, <1>6, SameListOK
<1>8. u.row = row
  BY <1>4
<1> QED
  BY <1>1, <1>5, <1>6, <1>7, <1>8 DEF CalculatedAll

-----------------------------------------------------------------------------
\* A cursor of which ScanComplete speaks: it is on a row, that row is in a list
\* that no later sort rearranges, and the skipped row is not behind it.
CursorOK(c) ==
  /\ cursor[c] # NULL =>
       /\ cursor[c] \in DOMAIN table.row /\ (sorted \/ conf.field = "none")
       /\ skipped[c] \cap Range(RowsAfter(table, cursor[c])) = {}
  /\ todo[c] = skipped[c] \cup (IF cursor[c] = NULL THEN {} ELSE Range(RowsAfter(table, cursor[c])))

\* the types of the other variables
Types ==
  /\ conf \in Configs
  /\ status \in {"EMPTY", "WRITE"} /\ has_id \in BOOLEAN /\ sorted \in BOOLEAN
  /\ cursor \in [Cursors -> Nat] /\ todo \in [Cursors -> SUBSET Nat]
  /\ skipped \in [Cursors -> SUBSET (Nat \ {NULL})]
  /\ ret \in {"LNF_OK", "LNF_ERR_NOMEM"}
  /\ phase \in {"load", "read", "mixed"} /\ cleans \in Nat

\* status and the thread's id tell an empty table
IdInv ==
  /\ ~ has_id => status = "EMPTY" /\ table = EmptyTable
  /\ cleans = 0 /\ status = "EMPTY" => ~ has_id

\* the table of a heap; the chains are used only where it aggregates
HeapOK(t) == TableOK(t) /\ (~ conf.list_mode => ChainsOK(t))

TableInv == HeapOK(table)

\* read_cursor survives a clean, a caller's cursor does not
CursorsInv == \A c \in Cursors : c = "scan" \/ cleans = 0 => CursorOK(c)

\* before a clean, sorted says that the heap was read
PhaseInv == cleans = 0 /\ phase = "load" => ~ sorted

\* the list is in the order of the callback
ListFollows ==
  conf.field # "none" =>
    \A i, j \in DOMAIN table.order :
      i < j => CallbackOrder(table.row[table.order[i]], table.row[table.order[j]])

\* what ScanOrdered is proved from, for addresses too
ScanFollows == phase = "read" /\ cleans = 0 => ListFollows /\ Recalculated

\* The inductive invariant: the table is in order in itself, the status says
\* when it is empty, and every cursor is on a row of it.
IInv == Types /\ TableInv /\ IdInv /\ CursorsInv /\ PhaseInv /\ ScanFollows
-----------------------------------------------------------------------------
\* A heap that was just set up satisfies the invariant.
THEOREM InitIInv == Init => IInv
<1> SUFFICES ASSUME Init PROVE IInv
  OBVIOUS
<1> USE DEF Init
<1>1. Types
  BY DEF Types, Cursors, NULL
<1>2. TableInv
  BY EmptyTableOK DEF TableInv, HeapOK
<1>3. IdInv /\ PhaseInv /\ ScanFollows
  BY DEF IdInv, PhaseInv, ScanFollows
<1>4. CursorsInv
  BY DEF CursorsInv, CursorOK
<1> QED
  BY <1>1, <1>2, <1>3, <1>4 DEF IInv

\* What two insertions keep, they keep one after the other.
LEMMA KeepsTransitive ==
  ASSUME NEW t, NEW u, NEW v, Keeps(t, u), Keeps(u, v)
  PROVE  Keeps(t, v)
BY DEF Keeps

\* An insertion, in either mode, keeps the table and every scan.
LEMMA InsertOK ==
  ASSUME NEW t, HeapOK(t), NEW key \in Nat, NEW val \in Vals, val.pkts # 0
  PROVE  HeapOK(Insert(t, key, val)) /\ Keeps(t, Insert(t, key, val))
<1>1. PICK u : u = Insert(t, key, val)
  OBVIOUS
<1>2. CASE conf.list_mode
  <2>1. u = InsertList(t, key, val)
    BY <1>1, <1>2 DEF Insert
  <2>2. TableOK(u) /\ Keeps(t, u)
    BY <2>1, InsertListOK DEF HeapOK
  <2> QED
    BY <1>1, <1>2, <2>2 DEF HeapOK
<1>3. CASE ~ conf.list_mode
  <2>1. u = InsertHash(t, key, val)
    BY <1>1, <1>3 DEF Insert
  <2>2. TableOK(u) /\ ChainsOK(u) /\ Keeps(t, u)
    BY <1>3, <2>1, InsertHashOK DEF HeapOK
  <2> QED
    BY <1>1, <2>2 DEF HeapOK
<1> QED
  BY <1>2, <1>3

\* One or two insertions do, and also if the memory ends between them.
LEMMA InsertKeysOK ==
  ASSUME TableInv, NEW keys, NEW key \in Nat, NEW other \in Nat, keys \in {<<key>>, <<key, other>>},
         NEW val \in Vals, val.pkts # 0, InsertKeys(keys, val)
  PROVE  HeapOK(table') /\ Keeps(table, table') /\ ret' \in {"LNF_OK", "LNF_ERR_NOMEM"}
<1>1. Len(keys) \in {1, 2} /\ keys[1] = key /\ (Len(keys) = 2 => keys[2] = other)
  OBVIOUS
<1>2. PICK n \in 0 .. Len(keys) : /\ table' = Inserted(keys, n, val)
                                   /\ ret' = IF n = Len(keys) THEN "LNF_OK" ELSE "LNF_ERR_NOMEM"
  BY DEF InsertKeys
<1>3. HeapOK(table) /\ Keeps(table, table)
  BY DEF TableInv, Keeps
<1>4. PICK t : t = Insert(table, key, val)
  OBVIOUS
<1>5. HeapOK(t) /\ Keeps(table, t)
  BY <1>3, <1>4, InsertOK
<1>6. CASE n = 0
  BY <1>2, <1>3, <1>6 DEF Inserted
<1>7. CASE n = 1
  BY <1>1, <1>2, <1>4, <1>5, <1>7 DEF Inserted
<1>8. CASE n = 2
  <2>1. PICK u : u = Insert(t, other, val)
    OBVIOUS
  <2>2. HeapOK(u) /\ Keeps(t, u)
    BY <1>5, <2>1, InsertOK
  <2>3. table' = u
    BY <1>1, <1>2, <1>4, <1>8, <2>1 DEF Inserted
  <2> QED
    BY <1>2, <1>5, <2>2, <2>3, KeepsTransitive
<1>9. n = 0 \/ n = 1 \/ n = 2
  <2>1. PICK m \in {1, 2} : m = Len(keys)
    BY <1>1
  <2> QED
    BY <1>2, <2>1
<1> QED
  BY <1>6, <1>7, <1>8, <1>9

\* The value list of a record is one that a row can hold.
LEMMA ValuesOK ==
  ASSUME NEW rec \in Recs \cup RawRecs
  PROVE  /\ Values(rec) \in Vals /\ Values(rec).pkts # 0
         /\ rec.k1 \in Nat /\ rec.k2 \in Nat
<1>1. rec.k1 \in Nat /\ rec.k2 \in Nat /\ rec.bytes \in Nat /\ rec.pkts \in Nat \ {0}
  BY RecsAssumption
<1>2. PICK q \in Nat : q = rec.bytes \div rec.pkts
  BY <1>1
<1> QED
  BY <1>1, <1>2 DEF Values, Vals

\* A write adds rows at the front, which disturbs no scan.
LEMMA WrittenIInv ==
  ASSUME IInv, Written, HeapOK(table'), Keeps(table, table'),
         ret' \in {"LNF_OK", "LNF_ERR_NOMEM"},
         status' \in {"EMPTY", "WRITE"}, cleans = 0 => status' = "WRITE"
  PROVE  IInv'
<1> USE DEF Written
<1>1. Types'
  BY DEF IInv, Types
<1>2. TableInv'
  BY DEF TableInv, HeapOK
<1>3. IdInv'
  BY DEF IdInv
<1>4. CursorsInv'
  <2> SUFFICES ASSUME NEW c \in Cursors, c = "scan" \/ cleans = 0 PROVE CursorOK(c)'
    BY DEF CursorsInv
  <2>1. CursorOK(c)
    BY DEF IInv, CursorsInv
  <2> QED
    BY <2>1 DEF CursorOK, Keeps
<1>5. PhaseInv'
  BY DEF IInv, Types, PhaseInv
<1>6. ScanFollows'
  BY DEF ScanFollows
<1> QED
  BY <1>1, <1>2, <1>3, <1>4, <1>5, <1>6 DEF IInv

\* lnf_mem_write
LEMMA WriteIInv ==
  ASSUME IInv, NEW rec \in Recs, Write(rec)
  PROVE  IInv'
<1>1. Written /\ status' = "WRITE" /\ InsertKeys(PairKeys(rec), Values(rec))
  BY DEF Write
<1>2. Values(rec) \in Vals /\ Values(rec).pkts # 0 /\ rec.k1 \in Nat /\ rec.k2 \in Nat
  BY ValuesOK
<1>3. PairKeys(rec) \in {<<rec.k1>>, <<rec.k1, rec.k2>>}
  BY DEF PairKeys
<1>4. TableInv
  BY DEF IInv
<1>5. HeapOK(table') /\ Keeps(table, table') /\ ret' \in {"LNF_OK", "LNF_ERR_NOMEM"}
  BY <1>1, <1>2, <1>3, <1>4, InsertKeysOK
<1> QED
  BY <1>1, <1>5, WrittenIInv

\* lnf_mem_write_raw; before the first clean it gives the thread its status.
LEMMA WriteRawIInv ==
  ASSUME IInv, NEW rec \in RawRecs, WriteRaw(rec)
  PROVE  IInv'
<1>1. Written /\ status' = (IF has_id THEN status ELSE "WRITE")
      /\ InsertKeys(<<rec.k1>>, Values(rec))
  BY DEF WriteRaw
<1>2. Values(rec) \in Vals /\ Values(rec).pkts # 0 /\ rec.k1 \in Nat /\ rec.k2 \in Nat
  BY ValuesOK
<1>3. TableInv
  BY DEF IInv
<1>4. <<rec.k1>> \in {<<rec.k1>>, <<rec.k1, rec.k2>>}
  OBVIOUS
<1>5. HeapOK(table') /\ Keeps(table, table') /\ ret' \in {"LNF_OK", "LNF_ERR_NOMEM"}
  BY <1>1, <1>2, <1>3, <1>4, InsertKeysOK
<1>6. status' \in {"EMPTY", "WRITE"} /\ (cleans = 0 => status' = "WRITE")
  BY <1>1 DEF IInv, Types, IdInv
<1> QED
  BY <1>1, <1>5, <1>6, WrittenIInv

\* A cursor is put on the first row of the list, or on none, and owes the rest.
LEMMA OnFirstRow ==
  ASSUME NEW t, TableOK(t)
  PROVE  /\ FirstRow(t) = NULL => Range(t.order) = {}
         /\ FirstRow(t) # NULL =>
              /\ FirstRow(t) \in DOMAIN t.row
              /\ Range(RowsAfter(t, FirstRow(t))) = Range(t.order) \ {FirstRow(t)}
<1>1. PICK S : S = DOMAIN t.row
  OBVIOUS
<1>2. S \subseteq Nat \ {0} /\ t.order \in Seq(S) /\ Range(t.order) = S /\ IsInjective(t.order)
  BY <1>1 DEF TableOK
<1>3. PICK n \in Nat : n = Len(t.order)
  BY <1>2
<1>4. CASE n = 0
  <2>1. t.order = <<>>
    BY <1>2, <1>3, <1>4, EmptySeq
  <2>2. FirstRow(t) = NULL /\ Range(t.order) = {}
    BY <2>1 DEF FirstRow, Range
  <2> QED
    BY <2>2
<1>5. CASE n # 0
  <2>1. t.order # <<>> /\ 1 \in 1 .. n
    BY <1>3, <1>5
  <2>2. DOMAIN t.order = 1 .. n
    BY <1>2, <1>3, LenProperties
  <2>3. FirstRow(t) = t.order[1] /\ t.order[1] \in S
    BY <1>2, <1>3, <2>1 DEF FirstRow
  <2>4. Range(RowsAfter(t, t.order[1])) = {t.order[j] : j \in 2 .. n}
    <3>1. Range(RowsAfter(t, t.order[1])) = {t.order[j] : j \in 1 + 1 .. n}
      BY <1>3, <2>1, RowsAfterAre
    <3> QED
      BY <3>1
  <2>5. {t.order[j] : j \in 2 .. n} = Range(t.order) \ {t.order[1]}
    <3>1. \A j \in 1 .. n : j = 1 \/ j \in 2 .. n
      OBVIOUS
    <3>2. \A j \in 2 .. n : t.order[j] # t.order[1] /\ j \in 1 .. n
      BY <1>2, <2>1, <2>2 DEF IsInjective
    <3> QED
      BY <2>2, <3>1, <3>2 DEF Range
  <2> QED
    BY <1>1, <1>2, <2>3, <2>4, <2>5 DEF NULL
<1> QED
  BY <1>4, <1>5

\* The next row is the first of those behind the cursor.
LEMMA OnNextRow ==
  ASSUME NEW t, TableOK(t), NEW a \in DOMAIN t.row, NEW b, b = NextRow(t, a)
  PROVE  /\ b = NULL => Range(RowsAfter(t, a)) = {}
         /\ b # NULL => /\ b \in DOMAIN t.row
                        /\ b \in Range(RowsAfter(t, a))
                        /\ Range(RowsAfter(t, b)) = Range(RowsAfter(t, a)) \ {b}
<1>1. PICK S : S = DOMAIN t.row
  OBVIOUS
<1>2. S \subseteq Nat \ {0} /\ t.order \in Seq(S) /\ Range(t.order) = S /\ IsInjective(t.order)
  BY <1>1 DEF TableOK
<1>3. PICK n \in Nat : n = Len(t.order)
  BY <1>2
<1>4. DOMAIN t.order = 1 .. n
  BY <1>2, <1>3, LenProperties
<1>5. PICK i \in 1 .. n : t.order[i] = a
  BY <1>1, <1>2, <1>4 DEF Range
<1>6. /\ RowsAfter(t, a) = SubSeq(t.order, i + 1, n)
      /\ Range(RowsAfter(t, a)) = {t.order[j] : j \in i + 1 .. n}
  BY <1>3, <1>5, RowsAfterAre
<1>7. CASE i = n
  <2>1. RowsAfter(t, a) = <<>>
    <3>1. SubSeq(t.order, i + 1, n) = <<>>
      BY <1>7, SubSeqEmpty
    <3> QED
      BY <1>6, <3>1
  <2>2. b = NULL /\ Range(RowsAfter(t, a)) = {}
    BY <2>1 DEF NextRow, Range
  <2> QED
    BY <2>2
<1>8. CASE i # n
  <2>1. PICK k \in 1 .. n : k = i + 1
    <3>1. i + 1 \in 1 .. n
      BY <1>8
    <3> QED
      BY <3>1
  <2>2. PICK r : r = SubSeq(t.order, k, n)
    OBVIOUS
  <2>3. \A j \in k .. n : t.order[j] \in S
    BY <1>2, <1>4, <2>1
  <2>4. r \in Seq(S) /\ Len(r) = n - k + 1 /\ r[1] = t.order[k]
    <3>1. r \in Seq(S) /\ Len(r) = (IF k <= n THEN n - k + 1 ELSE 0)
          /\ \A j \in 1 .. n - k + 1 : r[j] = t.order[k + j - 1]
      BY <2>2, <2>3, SubSeqProperties
    <3>2. k <= n /\ 1 \in 1 .. n - k + 1 /\ k + 1 - 1 = k
      OBVIOUS
    <3>3. r[1] = t.order[k + 1 - 1]
      BY <3>1, <3>2
    <3> QED
      BY <3>1, <3>2, <3>3
  <2>5. r # <<>> /\ Head(r) = r[1]
    BY <2>4
  <2>6. b = t.order[k]
    BY <1>6, <2>1, <2>2, <2>4, <2>5 DEF NextRow
  <2>7. t.order[k] \in S
    BY <2>3
  <2>8. Range(RowsAfter(t, b)) = {t.order[j] : j \in k + 1 .. n}
    BY <1>3, <2>6, RowsAfterAre
  <2>9. {t.order[j] : j \in k + 1 .. n} = {t.order[j] : j \in k .. n} \ {t.order[k]}
    <3>1. \A j \in k .. n : j = k \/ j \in k + 1 .. n
      OBVIOUS
    <3>2. \A j \in k + 1 .. n : t.order[j] # t.order[k] /\ j \in k .. n
      BY <1>2, <1>4 DEF IsInjective
    <3> QED
      BY <3>1, <3>2
  <2> QED
    <3>1. k \in i + 1 .. n /\ b # NULL /\ b \in DOMAIN t.row
      BY <1>1, <1>2, <2>1, <2>6, <2>7 DEF NULL
    <3>2. b \in Range(RowsAfter(t, a))
      BY <1>6, <2>6, <3>1
    <3>3. Range(RowsAfter(t, b)) = Range(RowsAfter(t, a)) \ {b}
      BY <1>6, <2>1, <2>6, <2>8, <2>9
    <3> QED
      BY <3>1, <3>2, <3>3
<1> QED
  BY <1>7, <1>8

\* What lnf_mem_first_c reads from, sorted if it has to be.
LEMMA SortStep ==
  ASSUME Types, TableInv, Sort
  PROVE  /\ HeapOK(table')
         /\ sorted' \in BOOLEAN /\ (sorted' \/ conf.field = "none")
         /\ sorted \/ conf.field = "none" => table' = table
         /\ ~ sorted /\ conf.field # "none" =>
              /\ InOrderAll(table')
              /\ conf.field = "bpp" => CalculatedAll(table')
<1>1. HeapOK(table) /\ TableOK(table) /\ conf \in Configs
  BY DEF TableInv, HeapOK, Types
<1>2. CASE sorted \/ conf.field = "none"
  BY <1>1, <1>2 DEF Sort, Types
<1>3. CASE ~ sorted /\ conf.field # "none"
  <2>1. PICK t : t = IF conf.field = "bpp" THEN UpdCalcFields(table) ELSE table
    OBVIOUS
  <2>2. HeapOK(t) /\ TableOK(t) /\ (conf.field = "bpp" => CalculatedAll(t))
    BY <1>1, <2>1, UpdCalcFieldsOK DEF HeapOK
  <2>3. table' = SortRows(t) /\ sorted' = TRUE
    BY <1>3, <2>1 DEF Sort
  <2>4. /\ TableOK(table') /\ (ChainsOK(t) => ChainsOK(table'))
        /\ table'.row = t.row /\ InOrderAll(table')
    BY <1>1, <1>3, <2>2, <2>3, SortRowsOK
  <2>5. HeapOK(table')
    BY <2>2, <2>4 DEF HeapOK
  <2>6. conf.field = "bpp" => CalculatedAll(table')
    BY <2>2, <2>4 DEF CalculatedAll
  <2> QED
    BY <1>3, <2>3, <2>4, <2>5, <2>6
<1> QED
  BY <1>2, <1>3

\* ScanFollows speaks of the configuration and the table.
LEMMA OrderStays ==
  ASSUME UNCHANGED <<conf, table>>
  PROVE  (ListFollows => ListFollows') /\ (Recalculated => Recalculated')
<1>1. conf' = conf /\ table' = table
  OBVIOUS
<1>2. \A p, q : CallbackOrder(p, q) = CallbackOrder(p, q)'
  BY <1>1 DEF CallbackOrder, SortValue
<1>3. ListFollows => ListFollows'
  BY <1>1, <1>2 DEF ListFollows
<1>4. Recalculated => Recalculated'
  BY <1>1 DEF Recalculated
<1> QED
  BY <1>3, <1>4

\* lnf_mem_first_c sorts the heap before it puts a cursor on the first row.
\* If it has to sort, no cursor that counts is on a row.
LEMMA BeginIInv ==
  ASSUME IInv, NEW c \in Cursors, NEW passed, NEW left, Begin(c, passed),
         skipped' = [skipped EXCEPT ![c] = left],
         \/ passed = {cursor'[c]} /\ left = {}
         \/ passed = {} /\ left = {cursor'[c]} \ {NULL}
  PROVE  IInv'
<1>1. UNCHANGED <<conf, status, has_id, ret, cleans, writes>>
  BY DEF Begin
<1>2. Types /\ TableInv /\ IdInv /\ CursorsInv /\ PhaseInv /\ ScanFollows
  BY DEF IInv
<1>3. CASE status = "EMPTY"
  <2>1. PutCursor(c, NULL, {}) /\ UNCHANGED <<table, sorted, phase>>
    BY <1>3 DEF Begin
  <2>2. /\ cursor' = [cursor EXCEPT ![c] = NULL] /\ todo' = [todo EXCEPT ![c] = {}]
        /\ skipped' = [skipped EXCEPT ![c] = {}]
    <3>1. cursor' = [cursor EXCEPT ![c] = NULL] /\ todo' = [todo EXCEPT ![c] = {}]
      BY <2>1 DEF PutCursor
    <3>2. cursor'[c] = NULL
      BY <1>2, <3>1 DEF Types
    <3> QED
      BY <3>1, <3>2
  <2>3. Types'
    BY <1>1, <1>2, <2>1, <2>2 DEF Types, NULL
  <2>4. TableInv' /\ IdInv' /\ PhaseInv'
    BY <1>1, <1>2, <2>1 DEF TableInv, HeapOK, IdInv, PhaseInv
  <2>5. ScanFollows'
    BY <1>1, <1>2, <2>1, OrderStays DEF ScanFollows
  <2>6. CursorsInv'
    <3> SUFFICES ASSUME NEW d \in Cursors, d = "scan" \/ cleans = 0 PROVE CursorOK(d)'
      BY <1>1 DEF CursorsInv
    <3>1. CursorOK(d)
      BY <1>2 DEF CursorsInv
    <3> QED
      BY <1>1, <1>2, <2>1, <2>2, <3>1 DEF CursorOK, Types
  <2> QED
    BY <2>3, <2>4, <2>5, <2>6 DEF IInv
<1>4. CASE status # "EMPTY"
  <2>1. Sort /\ PutCursor(c, FirstRow(table'), Range(table'.order) \ passed)
        /\ phase' = IF phase = "load" THEN "read" ELSE phase
    BY <1>4 DEF Begin
  <2>2. /\ HeapOK(table') /\ sorted' \in BOOLEAN /\ (sorted' \/ conf.field = "none")
        /\ sorted \/ conf.field = "none" => table' = table
        /\ ~ sorted /\ conf.field # "none" =>
             /\ InOrderAll(table')
             /\ conf.field = "bpp" => CalculatedAll(table')
    BY <1>2, <2>1, SortStep
  <2>3. PICK a : a = FirstRow(table')
    OBVIOUS
  <2>4. PICK owed : owed = Range(table'.order) \ passed
    OBVIOUS
  <2>5. cursor' = [cursor EXCEPT ![c] = a] /\ todo' = [todo EXCEPT ![c] = owed]
    BY <2>1, <2>3, <2>4 DEF PutCursor
  <2>6. /\ a = NULL => owed = left
        /\ a # NULL => /\ a \in DOMAIN table'.row
                       /\ owed = left \cup Range(RowsAfter(table', a))
                       /\ left \cap Range(RowsAfter(table', a)) = {}
        /\ DOMAIN table'.row \subseteq Nat \ {NULL}
        /\ owed \subseteq DOMAIN table'.row /\ left \subseteq DOMAIN table'.row
    <3>1. TableOK(table')
      BY <2>2 DEF HeapOK
    <3>2. DOMAIN table'.row \subseteq Nat \ {NULL} /\ Range(table'.order) = DOMAIN table'.row
      BY <3>1 DEF TableOK, NULL
    <3>3. cursor'[c] = a
      BY <1>2, <2>5 DEF Types
    <3>4. /\ a = NULL => Range(table'.order) = {}
          /\ a # NULL => a \in Range(table'.order)
                         /\ Range(RowsAfter(table', a)) = Range(table'.order) \ {a}
      BY <2>3, <3>1, <3>2, OnFirstRow
    <3>5. CASE passed = {a} /\ left = {}
      BY <2>4, <3>2, <3>4, <3>5
    <3>6. CASE passed = {} /\ left = {a} \ {NULL}
      BY <2>4, <3>2, <3>4, <3>6
    <3> QED
      BY <3>3, <3>5, <3>6
  <2>7. Types'
    BY <1>1, <1>2, <2>1, <2>2, <2>5, <2>6 DEF Types, NULL
  <2>8. TableInv'
    BY <1>1, <2>2 DEF TableInv, HeapOK
  <2>9. IdInv'
    BY <1>1, <1>2, <1>4 DEF IdInv
  <2>10. PhaseInv'
    BY <1>2, <2>1 DEF PhaseInv, Types
  <2>11. CursorsInv'
    <3> SUFFICES ASSUME NEW d \in Cursors, d = "scan" \/ cleans = 0 PROVE CursorOK(d)'
      BY <1>1 DEF CursorsInv
    <3>1. CASE d = c
      <4>1. cursor'[d] = a /\ todo'[d] = owed /\ skipped'[d] = left
        BY <1>2, <2>5, <3>1 DEF Types
      <4> QED
        BY <1>1, <2>2, <2>6, <4>1 DEF CursorOK
    <3>2. CASE d # c
      <4>1. CursorOK(d) /\ cursor'[d] = cursor[d] /\ todo'[d] = todo[d] /\ skipped'[d] = skipped[d]
        BY <1>2, <2>5, <3>2 DEF CursorsInv, Types
      <4>2. CASE cursor[d] = NULL
        BY <4>1, <4>2 DEF CursorOK
      <4>3. CASE cursor[d] # NULL
        <5>1. sorted \/ conf.field = "none"
          BY <4>1, <4>3 DEF CursorOK
        <5> QED
          BY <1>1, <2>2, <4>1, <5>1 DEF CursorOK
      <4> QED
        BY <4>2, <4>3
    <3> QED
      BY <3>1, <3>2
  <2>12. ScanFollows'
    <3> SUFFICES ASSUME phase' = "read", cleans = 0 PROVE ListFollows' /\ Recalculated'
      BY <1>1 DEF ScanFollows
    <3>1. CASE conf.field = "none"
      BY <1>1, <3>1 DEF ListFollows, Recalculated
    <3>2. CASE conf.field # "none" /\ ~ sorted
      BY <1>1, <2>2, <3>2 DEF ListFollows, Recalculated, InOrderAll, CalculatedAll, CallbackOrder, SortValue
    <3>3. CASE sorted
      <4>1. phase = "read"
        BY <1>2, <2>1, <3>3 DEF PhaseInv
      <4>2. ListFollows /\ Recalculated /\ table' = table
        BY <1>2, <2>2, <3>3, <4>1 DEF ScanFollows
      <4> QED
        BY <1>1, <4>2, OrderStays
    <3> QED
      BY <3>1, <3>2, <3>3
  <2> QED
    BY <2>7, <2>8, <2>9, <2>10, <2>11, <2>12 DEF IInv
<1> QED
  BY <1>3, <1>4

\* A scan that begins with lnf_mem_first_c.
LEMMA FirstIInv ==
  ASSUME IInv, NEW c \in Cursors, First(c)
  PROVE  IInv'
BY BeginIInv DEF First

\* lnf_mem_read_reset: its scan owes the row it is put on, and skips it.
LEMMA ReadResetIInv ==
  ASSUME IInv, ReadReset
  PROVE  IInv'
BY BeginIInv DEF ReadReset, Cursors

\* lnf_mem_next_c: the scan owes one row less.
LEMMA NextIInv ==
  ASSUME IInv, NEW c \in Cursors, Next_c(c)
  PROVE  IInv'
<1>1. UNCHANGED <<conf, table, status, has_id, sorted, ret, skipped, phase, cleans, writes>>
      /\ cursor[c] # NULL
  BY DEF Next_c
<1>2. Types /\ TableInv /\ IdInv /\ CursorsInv /\ PhaseInv /\ ScanFollows
  BY DEF IInv
<1>3. TableOK(table) /\ DOMAIN table.row \subseteq Nat
  BY <1>2 DEF TableInv, HeapOK, TableOK
<1>4. TableInv' /\ IdInv' /\ PhaseInv' /\ ScanFollows'
  <2>1. TableInv' /\ IdInv' /\ PhaseInv'
    BY <1>1, <1>2 DEF TableInv, HeapOK, IdInv, PhaseInv
  <2>2. ScanFollows'
    BY <1>1, <1>2, OrderStays DEF ScanFollows
  <2> QED
    BY <2>1, <2>2
<1>5. CASE status = "EMPTY"
  <2>1. UNCHANGED <<cursor, todo>>
    BY <1>5 DEF Next_c
  <2>2. Types'
    BY <1>1, <1>2, <2>1 DEF Types
  <2>3. CursorsInv'
    BY <1>1, <1>2, <2>1 DEF CursorsInv, CursorOK
  <2> QED
    BY <1>4, <2>2, <2>3 DEF IInv
<1>6. CASE status # "EMPTY"
  <2>1. PICK a : /\ a \in IF cursor[c] \in DOMAIN table.row
                          THEN {NextRow(table, cursor[c])} ELSE DOMAIN table.row \cup {NULL}
                 /\ PutCursor(c, a, todo[c] \ {a})
    BY <1>6 DEF Next_c
  <2>2. PICK owed : owed = todo[c] \ {a}
    OBVIOUS
  <2>3. cursor' = [cursor EXCEPT ![c] = a] /\ todo' = [todo EXCEPT ![c] = owed]
    BY <2>1, <2>2 DEF PutCursor
  <2>4. cursor[c] \in DOMAIN table.row =>
          /\ a = NULL => Range(RowsAfter(table, cursor[c])) = {}
          /\ a # NULL => /\ a \in DOMAIN table.row /\ a \in Range(RowsAfter(table, cursor[c]))
                         /\ Range(RowsAfter(table, a)) = Range(RowsAfter(table, cursor[c])) \ {a}
    BY <1>3, <2>1, OnNextRow
  <2>5. a \in Nat /\ owed \in SUBSET Nat
    <3>1. a \in DOMAIN table.row \cup {NULL}
      BY <2>1, <2>4
    <3> QED
      BY <1>2, <1>3, <2>2, <3>1 DEF Types, NULL
  <2>6. Types'
    BY <1>1, <1>2, <2>3, <2>5 DEF Types
  <2>7. CursorsInv'
    <3> SUFFICES ASSUME NEW d \in Cursors, d = "scan" \/ cleans = 0 PROVE CursorOK(d)'
      BY <1>1 DEF CursorsInv
    <3>1. CursorOK(d)
      BY <1>2 DEF CursorsInv
    <3>2. CASE d = c
      <4>1. cursor'[d] = a /\ todo'[d] = owed
        BY <1>2, <2>3, <3>2 DEF Types
      <4>2. cursor[d] \in DOMAIN table.row /\ (sorted \/ conf.field = "none")
            /\ todo[d] = skipped[d] \cup Range(RowsAfter(table, cursor[d]))
            /\ skipped[d] \cap Range(RowsAfter(table, cursor[d])) = {}
        BY <1>1, <3>1, <3>2 DEF CursorOK
      <4>3. CASE a = NULL
        <5>1. Range(RowsAfter(table, cursor[d])) = {} /\ NULL \notin skipped[d]
          BY <1>2, <2>4, <3>2, <4>2, <4>3 DEF Types
        <5> QED
          BY <1>1, <2>2, <3>2, <4>1, <4>2, <4>3, <5>1 DEF CursorOK
      <4>4. CASE a # NULL
        <5>1. a \in DOMAIN table.row /\ a \in Range(RowsAfter(table, cursor[d]))
              /\ Range(RowsAfter(table, a)) = Range(RowsAfter(table, cursor[d])) \ {a}
          BY <2>4, <3>2, <4>2, <4>4
        <5>2. owed = skipped[d] \cup Range(RowsAfter(table, a))
              /\ skipped[d] \cap Range(RowsAfter(table, a)) = {}
          BY <2>2, <3>2, <4>2, <5>1
        <5> QED
          BY <1>1, <4>1, <4>2, <4>4, <5>1, <5>2 DEF CursorOK
      <4> QED
        BY <4>3, <4>4
    <3>3. CASE d # c
      <4>1. cursor'[d] = cursor[d] /\ todo'[d] = todo[d]
        BY <1>2, <2>3, <3>3 DEF Types
      <4> QED
        BY <1>1, <3>1, <4>1 DEF CursorOK
    <3> QED
      BY <3>2, <3>3
  <2> QED
    BY <1>4, <2>6, <2>7 DEF IInv
<1> QED
  BY <1>5, <1>6

\* lnf_mem_clean: no row is left, and no cursor of a caller.
LEMMA CleanIInv ==
  ASSUME IInv, Clean
  PROVE  IInv'
<1>1. cleans' = cleans + 1 /\ UNCHANGED <<conf, has_id, sorted, ret, writes>>
      /\ cursor' = [cursor EXCEPT !["scan"] = NULL] /\ todo' = [todo EXCEPT !["scan"] = {}]
      /\ skipped' = [skipped EXCEPT !["scan"] = {}]
  BY DEF Clean
<1>2. Types /\ TableInv /\ IdInv
  BY DEF IInv
<1>3. \/ table' = EmptyTable /\ status' = "EMPTY" /\ phase' = "load"
      \/ UNCHANGED <<table, status, phase>>
  BY DEF Clean, CleanTable
<1>4. cleans \in Nat /\ cleans' # 0
  BY <1>1, <1>2 DEF Types
<1>5. Types'
  BY <1>1, <1>2, <1>3, <1>4 DEF Types, NULL, Cursors
<1>6. TableInv'
  BY <1>1, <1>2, <1>3, EmptyTableOK DEF TableInv, HeapOK
<1>7. IdInv'
  BY <1>1, <1>2, <1>3, <1>4 DEF IdInv
<1>8. PhaseInv' /\ ScanFollows'
  BY <1>4 DEF PhaseInv, ScanFollows
<1>9. CursorsInv'
  <2> SUFFICES ASSUME NEW c \in Cursors, c = "scan" PROVE CursorOK(c)'
    BY <1>4 DEF CursorsInv
  <2>1. cursor'[c] = NULL /\ todo'[c] = {} /\ skipped'[c] = {}
    BY <1>1, <1>2 DEF Types
  <2> QED
    BY <2>1 DEF CursorOK
<1> QED
  BY <1>5, <1>6, <1>7, <1>8, <1>9 DEF IInv

\* Every operation of the heap keeps the invariant.
THEOREM StepIInv == IInv /\ [Next]_vars => IInv'
<1> SUFFICES ASSUME IInv, [Next]_vars PROVE IInv'
  OBVIOUS
<1>1. ASSUME NEW rec \in Recs, Write(rec) PROVE IInv'
  BY <1>1, WriteIInv
<1>2. ASSUME NEW rec \in RawRecs, WriteRaw(rec) PROVE IInv'
  BY <1>2, WriteRawIInv
<1>3. ASSUME NEW c \in Cursors, First(c) PROVE IInv'
  BY <1>3, FirstIInv
<1>4. ASSUME NEW c \in Cursors, Next_c(c) PROVE IInv'
  BY <1>4, NextIInv
<1>5. "read" \in Cursors /\ "scan" \in Cursors
  BY DEF Cursors
<1>6. ASSUME Read PROVE IInv'
  BY <1>3, <1>4, <1>5, <1>6 DEF Read
<1>7. ASSUME Scan PROVE IInv'
  BY <1>3, <1>4, <1>5, <1>7 DEF Scan
<1>8. ASSUME ReadReset PROVE IInv'
  BY <1>8, ReadResetIInv
<1>9. ASSUME Clean PROVE IInv'
  BY <1>9, CleanIInv
<1>10. ASSUME UNCHANGED vars PROVE IInv'
  <2>1. Types' /\ TableInv' /\ IdInv' /\ CursorsInv' /\ PhaseInv'
    BY <1>10 DEF vars, IInv, Types, TableInv, HeapOK, IdInv, CursorsInv, CursorOK, PhaseInv
  <2>2. ScanFollows'
    BY <1>10, OrderStays DEF vars, IInv, ScanFollows
  <2> QED
    BY <2>1, <2>2 DEF IInv
<1> QED
  BY <1>1, <1>2, <1>6, <1>7, <1>8, <1>9, <1>10 DEF Next

\* The invariant holds in every reachable state.
THEOREM HeapInvariant == Spec => []IInv
BY InitIInv, StepIInv, PTL DEF Spec

\* A record of the three values is a function from their names.
LEMMA RowFunction ==
  ASSUME NEW v, v \in [bytes : Nat, pkts : Nat, bpp : Nat]
  PROVE  v \in [{"bytes", "pkts", "bpp"} -> Nat]
OBVIOUS

\* The list of rows runs through every allocated row once and through no freed
\* one, through writes, sorts and cleans.
THEOREM HeapTypeOK == Spec => []TypeOK
<1>1. IInv => TypeOK
  <2> SUFFICES ASSUME IInv PROVE TypeOK
    OBVIOUS
  <2>1. Types /\ TableOK(table)
    BY DEF IInv, TableInv, HeapOK
  <2>2. table.row \in [DOMAIN table.row -> Rows]
        /\ Range(table.order) = DOMAIN table.row /\ IsInjective(table.order)
    BY <2>1 DEF TableOK
  <2>3. ASSUME NEW a \in DOMAIN table.row
        PROVE  table.row[a].key \in Nat /\ table.row[a].val \in [{"bytes", "pkts", "bpp"} -> Nat]
    <3>1. table.row[a].key \in Nat /\ table.row[a].val \in [bytes : Nat, pkts : Nat, bpp : Nat]
      BY <2>2 DEF Rows, Vals
    <3> QED
      BY <3>1, RowFunction
  <2> QED
    BY <2>1, <2>2, <2>3 DEF TypeOK, Types
<1> QED
  BY <1>1, HeapInvariant, PTL

\* A lookup finds the row of a key if, and only if, there is one, however
\* many keys share its bucket.
THEOREM HeapLookupFinds == Spec => []LookupFinds
<1>1. IInv => LookupFinds
  <2> SUFFICES ASSUME IInv, ~ conf.list_mode, cleans = 0 \/ status # "EMPTY",
                      NEW rec \in Recs \cup RawRecs, NEW key \in {rec.k1, rec.k2}
               PROVE  {a \in Range(table.order) : table.row[a].key = key} =
                        IF Lookup_c(key) = NULL THEN {} ELSE {Lookup_c(key)}
    BY DEF LookupFinds
  <2>1. TableOK(table) /\ ChainsOK(table) /\ IdInv
    BY DEF IInv, TableInv, HeapOK
  <2>2. key \in Nat
    BY RecsAssumption
  <2>3. Range(table.order) = DOMAIN table.row
    BY <2>1 DEF TableOK
  <2>4. CASE status = "EMPTY"
    <3>1. table = EmptyTable
      BY <2>1, <2>4 DEF IdInv
    <3>2. Range(table.order) = {}
      BY <3>1 DEF EmptyTable, Range
    <3> QED
      BY <2>4, <3>2 DEF Lookup_c
  <2>5. CASE status # "EMPTY"
    <3>1. PICK at : at = Lookup_c(key) /\ at = Lookup(table, key)
      BY <2>5 DEF Lookup_c
    <3>2. /\ at = NULL => \A a \in DOMAIN table.row : table.row[a].key # key
          /\ at # NULL => at \in DOMAIN table.row /\ table.row[at].key = key
      BY <2>1, <2>2, <3>1, LookupIs
    <3>3. \A a, b \in DOMAIN table.row : table.row[a].key = table.row[b].key => a = b
      BY <2>1 DEF ChainsOK
    <3> QED
      BY <2>3, <3>1, <3>2, <3>3
  <2> QED
    BY <2>4, <2>5
<1> QED
  BY <1>1, HeapInvariant, PTL

\* What a scan still owes is what lies behind its cursor, and the row that
\* lnf_mem_read_reset skipped, although rows are written and the other cursor
\* is used in the middle of it.
THEOREM HeapScanComplete == Spec => []ScanComplete
<1>1. IInv => ScanComplete
  BY DEF IInv, CursorsInv, CursorOK, ScanComplete
<1> QED
  BY <1>1, HeapInvariant, PTL

\* A heap that is loaded and then read is read in the documented order of its
\* sort field, calculated from the totals, whatever the field but an address.
THEOREM HeapScanOrdered == Spec => []ScanOrdered
<1>1. IInv => ScanOrdered
  <2> SUFFICES ASSUME IInv, phase = "read", cleans = 0, conf.field # "addr"
               PROVE  InOrder /\ Recalculated
    BY DEF ScanOrdered
  <2>1. ListFollows /\ Recalculated
    BY DEF IInv, ScanFollows
  <2>2. ASSUME conf.field # "none", NEW i \in DOMAIN table.order, NEW j \in DOMAIN table.order, i < j
        PROVE  Ordered(table.row[table.order[i]], table.row[table.order[j]])
    <3>1. PICK p \in Rows, q \in Rows : p = table.row[table.order[i]] /\ q = table.row[table.order[j]]
      BY DEF IInv, TableInv, HeapOK, TableOK, Range
    <3>2. SortValue(p) \in Nat /\ SortValue(q) \in Nat /\ conf.desc \in BOOLEAN
      BY <2>2, ConfigsAssumption, SortValueType DEF IInv, Types
    <3>3. CallbackOrder(p, q)
      BY <2>1, <2>2, <3>1 DEF ListFollows
    <3> QED
      BY <3>1, <3>2, <3>3 DEF CallbackOrder, Ordered
  <2> QED
    BY <2>1, <2>2 DEF InOrder
<1> QED
  BY <1>1, HeapInvariant, PTL
-----------------------------------------------------------------------------
\* A row as FlowTable has it.
Flow(t, a) == [key |-> t.row[a].key, bytes |-> t.row[a].val.bytes, pkts |-> t.row[a].val.pkts]

\* the rows that FlowTable cannot tell apart from x
WithFlow(t, x) == {a \in DOMAIN t.row : Flow(t, a) = x}

\* The rows of a table as a bag, counted without the list.
FlowBag(t) == [x \in {Flow(t, a) : a \in DOMAIN t.row} |-> Cardinality(WithFlow(t, x))]

\* the list of rows as FlowTable has them
FlowList(t) == [i \in DOMAIN t.order |->
                  LET r == t.row[t.order[i]] IN
                  [key |-> r.key, bytes |-> r.val.bytes, pkts |-> r.val.pkts]]

\* The list counts every row once.
LEMMA ListCounts ==
  ASSUME NEW t, TableOK(t)
  PROVE  ToBag(FlowList(t)) = FlowBag(t)
<1>1. PICK S : S = DOMAIN t.row
  OBVIOUS
<1>2. PICK s : s = t.order
  OBVIOUS
<1>3. PICK n \in Nat : n = Len(s) /\ s \in [1 .. n -> S] /\ DOMAIN s = 1 .. n
  BY <1>1, <1>2, LenProperties DEF TableOK
<1>4. Range(s) = S /\ IsInjective(s)
  BY <1>1, <1>2 DEF TableOK
<1>5. PICK f : f = FlowList(t)
  OBVIOUS
<1>6. DOMAIN f = 1 .. n /\ \A i \in 1 .. n : f[i] = Flow(t, s[i])
  BY <1>2, <1>3, <1>5 DEF FlowList, Flow
<1>7. Range(f) = {Flow(t, a) : a \in S}
  <2>1. ASSUME NEW i \in 1 .. n PROVE f[i] \in {Flow(t, a) : a \in S}
    BY <1>3, <1>6
  <2>2. ASSUME NEW a \in S PROVE Flow(t, a) \in Range(f)
    <3>1. PICK i \in 1 .. n : s[i] = a
      BY <1>3, <1>4 DEF Range
    <3> QED
      BY <1>6, <3>1 DEF Range
  <2> QED
    BY <1>6, <2>1, <2>2 DEF Range
<1>8. ASSUME NEW x PROVE Cardinality({i \in DOMAIN f : f[i] = x}) = Cardinality(WithFlow(t, x))
  <2>1. PICK I : I = {i \in DOMAIN f : f[i] = x}
    OBVIOUS
  <2>2. PICK A : A = WithFlow(t, x)
    OBVIOUS
  <2>3. PICK g : g = [i \in I |-> s[i]]
    OBVIOUS
  <2>4. I \subseteq 1 .. n /\ IsFiniteSet(I)
    <3>1. I \in SUBSET (1 .. n) /\ IsFiniteSet(1 .. n)
      BY <1>6, <2>1, FS_Interval
    <3> QED
      BY <3>1, FS_Subset
  <2>5. g \in [I -> A]
    BY <1>1, <1>3, <1>6, <2>1, <2>2, <2>3, <2>4 DEF WithFlow
  <2>6. \A i, j \in I : g[i] = g[j] => i = j
    BY <1>3, <1>4, <2>3, <2>4 DEF IsInjective
  <2>7. \A a \in A : \E i \in I : g[i] = a
    <3> SUFFICES ASSUME NEW a \in A PROVE \E i \in I : g[i] = a
      OBVIOUS
    <3>1. a \in S /\ Flow(t, a) = x
      BY <1>1, <2>2 DEF WithFlow
    <3>2. PICK i \in 1 .. n : s[i] = a
      BY <1>3, <1>4, <3>1 DEF Range
    <3> QED
      BY <1>6, <2>1, <2>3, <3>1, <3>2
  <2>8. g \in Injection(I, A)
    BY <2>5, <2>6 DEF Injection, IsInjective
  <2>9. g \in Surjection(I, A)
    BY <2>5, <2>7 DEF Surjection
  <2>10. Cardinality(A) = Cardinality(I)
    BY <2>4, <2>8, <2>9, FS_Surjection
  <2> QED
    BY <2>1, <2>2, <2>10
<1> QED
  BY <1>1, <1>5, <1>7, <1>8 DEF ToBag, FlowBag

\* The calculated values are no part of FlowTable's rows.
LEMMA UpdCalcFieldsFlows ==
  ASSUME NEW t, TableOK(t), NEW u, u = UpdCalcFields(t)
  PROVE  DOMAIN u.row = DOMAIN t.row /\ \A a \in DOMAIN t.row : Flow(u, a) = Flow(t, a)
<1>1. PICK S : S = DOMAIN t.row
  OBVIOUS
<1>2. t = [row |-> t.row, bucket |-> t.bucket, order |-> t.order] /\ t.row \in [S -> Rows]
  BY <1>1 DEF TableOK
<1>3. u.row = [a \in S |-> [t.row[a] EXCEPT !.val.bpp = t.row[a].val.bytes \div t.row[a].val.pkts]]
  BY <1>1, <1>2 DEF UpdCalcFields
<1>4. ASSUME NEW a \in S PROVE Flow(u, a) = Flow(t, a)
  <2>1. PICK r \in Rows : r = t.row[a]
    BY <1>2
  <2>2. PICK q : q = r.val.bytes \div r.val.pkts
    OBVIOUS
  <2>3. u.row[a] = [r EXCEPT !.val.bpp = q]
    BY <1>3, <2>1, <2>2
  <2>4. r \in [key : Nat, val : [bytes : Nat, pkts : Nat, bpp : Nat]]
    BY DEF Rows, Vals
  <2>5. u.row[a].key = r.key /\ u.row[a].val.bytes = r.val.bytes /\ u.row[a].val.pkts = r.val.pkts
    BY <2>3, <2>4
  <2> QED
    BY <2>1, <2>5 DEF Flow
<1> QED
  BY <1>1, <1>3, <1>4

\* The bag has nothing to do with the order of the list, nor with the
\* calculated values.
LEMMA SameFlows ==
  ASSUME NEW t, NEW u, DOMAIN u.row = DOMAIN t.row, \A a \in DOMAIN t.row : Flow(u, a) = Flow(t, a)
  PROVE  FlowBag(u) = FlowBag(t)
<1>1. \A x : WithFlow(u, x) = WithFlow(t, x)
  BY DEF WithFlow
<1>2. {Flow(u, a) : a \in DOMAIN u.row} = {Flow(t, a) : a \in DOMAIN t.row}
  OBVIOUS
<1> QED
  BY <1>1, <1>2 DEF FlowBag

\* A new row is counted.
LEMMA FlowAdded ==
  ASSUME NEW t, TableOK(t), NEW u, NEW a, a \notin DOMAIN t.row,
         DOMAIN u.row = DOMAIN t.row \cup {a}, \A b \in DOMAIN t.row : Flow(u, b) = Flow(t, b)
  PROVE  FlowBag(u) = Reference!BagAdd(FlowBag(t), Flow(u, a))
<1>1. PICK S : S = DOMAIN t.row
  OBVIOUS
<1>2. PICK new : new = Flow(u, a)
  OBVIOUS
<1>3. PICK F : F = {Flow(t, b) : b \in S}
  OBVIOUS
<1>4. {Flow(u, b) : b \in DOMAIN u.row} = F \cup {new}
  BY <1>1, <1>2, <1>3
<1>5. DOMAIN FlowBag(t) = F /\ \A x \in F : FlowBag(t)[x] = Cardinality(WithFlow(t, x))
  BY <1>1, <1>3 DEF FlowBag
<1>6. \A x : x # new => WithFlow(u, x) = WithFlow(t, x)
  BY <1>1, <1>2 DEF WithFlow
<1>7. WithFlow(u, new) = WithFlow(t, new) \cup {a} /\ a \notin WithFlow(t, new)
  BY <1>1, <1>2 DEF WithFlow
<1>8. IsFiniteSet(WithFlow(t, new))
  <2>1. IsFiniteSet(DOMAIN t.row) /\ WithFlow(t, new) \in SUBSET DOMAIN t.row
    BY RowsFinite DEF WithFlow
  <2> QED
    BY <2>1, FS_Subset
<1>9. Cardinality(WithFlow(u, new)) = Cardinality(WithFlow(t, new)) + 1
  <2>1. PICK W : W = WithFlow(t, new)
    OBVIOUS
  <2>2. Cardinality(W \cup {a}) = Cardinality(W) + 1
    BY <1>7, <1>8, <2>1, FS_AddElement
  <2> QED
    BY <1>7, <2>1, <2>2
<1>10. FlowBag(u) = [x \in F \cup {new} |-> Cardinality(WithFlow(u, x))]
  BY <1>4 DEF FlowBag
<1>11. CASE new \in F
  <2>1. Reference!BagAdd(FlowBag(t), new) =
          [x \in F |-> IF x = new THEN FlowBag(t)[x] + 1 ELSE FlowBag(t)[x]]
    BY <1>5, <1>11 DEF Reference!BagAdd
  <2>2. \A x \in F : Cardinality(WithFlow(u, x)) =
                       IF x = new THEN FlowBag(t)[x] + 1 ELSE FlowBag(t)[x]
    BY <1>5, <1>6, <1>9
  <2>3. F \cup {new} = F
    BY <1>11
  <2> QED
    BY <1>2, <1>10, <2>1, <2>2, <2>3
<1>12. CASE new \notin F
  <2>1. Reference!BagAdd(FlowBag(t), new) =
          [x \in F \cup {new} |-> IF x = new THEN 1 ELSE FlowBag(t)[x]]
    BY <1>5, <1>12 DEF Reference!BagAdd
  <2>2. WithFlow(t, new) = {}
    BY <1>1, <1>3, <1>12 DEF WithFlow
  <2>3. Cardinality(WithFlow(u, new)) = 1
    BY <1>9, <2>2, FS_EmptySet
  <2>4. \A x \in F \cup {new} : Cardinality(WithFlow(u, x)) =
                                  IF x = new THEN 1 ELSE FlowBag(t)[x]
    BY <1>5, <1>6, <2>3
  <2> QED
    BY <1>2, <1>10, <2>1, <2>4
<1> QED
  BY <1>11, <1>12

\* every row once
OnceEach(t) == [x \in {Flow(t, a) : a \in DOMAIN t.row} |-> 1]

\* Where keys are unique, every row is counted once.
LEMMA FlowsUnique ==
  ASSUME NEW t, \A a, b \in DOMAIN t.row : t.row[a].key = t.row[b].key => a = b
  PROVE  FlowBag(t) = OnceEach(t)
<1>1. ASSUME NEW a \in DOMAIN t.row PROVE Cardinality(WithFlow(t, Flow(t, a))) = 1
  <2>1. \A b \in DOMAIN t.row : Flow(t, b) = Flow(t, a) => b = a
    BY DEF Flow
  <2>2. WithFlow(t, Flow(t, a)) = {a}
    BY <2>1 DEF WithFlow
  <2> QED
    BY <2>2, FS_Singleton
<1>2. \A x \in {Flow(t, a) : a \in DOMAIN t.row} : Cardinality(WithFlow(t, x)) = 1
  BY <1>1
<1> QED
  BY <1>2 DEF FlowBag, OnceEach

\* A row whose values change is taken out of the bag and put back as it is now.
LEMMA FlowReplaced ==
  ASSUME NEW t, \A a, b \in DOMAIN t.row : t.row[a].key = t.row[b].key => a = b,
         NEW u, DOMAIN u.row = DOMAIN t.row, NEW at \in DOMAIN t.row,
         \A a \in DOMAIN t.row : u.row[a].key = t.row[a].key,
         \A a \in DOMAIN t.row : a # at => Flow(u, a) = Flow(t, a)
  PROVE  FlowBag(u) =
           Reference!BagAdd(Reference!BagRemove(FlowBag(t), Flow(t, at)), Flow(u, at))
<1>1. PICK S : S = DOMAIN t.row
  OBVIOUS
<1>2. PICK F : F = {Flow(t, a) : a \in S}
  OBVIOUS
<1>3. PICK old : old = Flow(t, at)
  OBVIOUS
<1>4. PICK new : new = Flow(u, at)
  OBVIOUS
<1>5. FlowBag(t) = [x \in F |-> 1] /\ old \in F
  <2>1. FlowBag(t) = OnceEach(t)
    BY FlowsUnique
  <2> QED
    BY <1>1, <1>2, <1>3, <2>1 DEF OnceEach
<1>6. \A a, b \in DOMAIN u.row : u.row[a].key = u.row[b].key => a = b
  OBVIOUS
<1>7. FlowBag(u) = [x \in {Flow(u, a) : a \in S} |-> 1]
  <2>1. FlowBag(u) = OnceEach(u)
    BY <1>6, FlowsUnique
  <2> QED
    BY <1>1, <2>1 DEF OnceEach
<1>8. \A a \in S : a # at => Flow(t, a) # old /\ Flow(t, a) # new
  BY <1>1, <1>3, <1>4 DEF Flow
<1>9. {Flow(u, a) : a \in S} = (F \ {old}) \cup {new}
  BY <1>1, <1>2, <1>3, <1>4, <1>8
<1>10. new \notin F \ {old}
  BY <1>1, <1>2, <1>3, <1>8
<1>11. PICK B : B = Reference!BagRemove(FlowBag(t), old)
  OBVIOUS
<1>12. B = [x \in F \ {old} |-> 1]
  BY <1>5, <1>11 DEF Reference!BagRemove
<1>13. Reference!BagAdd(B, new) = [x \in (F \ {old}) \cup {new} |-> 1]
  BY <1>10, <1>12 DEF Reference!BagAdd
<1> QED
  BY <1>3, <1>4, <1>7, <1>9, <1>11, <1>13

\* An insertion puts the record into the bag.
LEMMA InsertPuts ==
  ASSUME NEW t, HeapOK(t), NEW key \in Nat, NEW rec \in Recs \cup RawRecs,
         NEW u, u = Insert(t, key, Values(rec))
  PROVE  FlowBag(u) = Reference!Put(FlowBag(t), Reference!Row(key, rec))
<1>0. t = [row |-> t.row, bucket |-> t.bucket, order |-> t.order] /\ TableOK(t)
      /\ t.row \in [DOMAIN t.row -> Rows]
  BY DEF HeapOK, TableOK
<1>1. PICK val \in Vals : val = Values(rec) /\ val.pkts # 0
  BY ValuesOK
<1>2. val.bytes = rec.bytes /\ val.pkts = rec.pkts
  BY <1>1 DEF Values
<1>3. PICK new : new = Reference!Row(key, rec)
  OBVIOUS
<1>4. new = [key |-> key, bytes |-> val.bytes, pkts |-> val.pkts]
  BY <1>2, <1>3 DEF Reference!Row
<1>5. PICK a : a = NewAddr(t)
  OBVIOUS
<1>6. PICK row : row = NewRow(t, key, val)
  OBVIOUS
<1>7. RowAdded(t, key, val, a, row) /\ a \notin DOMAIN t.row
  BY <1>0, <1>1, <1>5, <1>6, NewRowIs, NewAddrFresh
<1>8. PICK B : B = FlowBag(t)
  OBVIOUS
<1>9. DOMAIN B = {Flow(t, b) : b \in DOMAIN t.row}
  BY <1>8 DEF FlowBag
<1>10. PICK same : same = {r \in DOMAIN B : r.key = new.key}
  OBVIOUS
<1>11. ASSUME u.row = row PROVE FlowBag(u) = Reference!BagAdd(B, new)
  <2>1. /\ DOMAIN u.row = DOMAIN t.row \cup {a}
        /\ u.row[a] = [key |-> key, val |-> val]
        /\ \A b \in DOMAIN t.row : u.row[b] = t.row[b]
    BY <1>7, <1>11 DEF RowAdded
  <2>2. \A b \in DOMAIN t.row : Flow(u, b) = Flow(t, b)
    BY <2>1 DEF Flow
  <2>3. Flow(u, a) = new
    <3>1. u.row[a].key = key /\ u.row[a].val = val
      BY <2>1
    <3> QED
      BY <1>4, <3>1 DEF Flow
  <2> QED
    BY <1>0, <1>7, <1>8, <2>1, <2>2, <2>3, FlowAdded
<1>12. CASE conf.list_mode
  <2>1. u.row = row
    BY <1>0, <1>1, <1>6, <1>12 DEF Insert, InsertList
  <2>2. Reference!Put(B, new) = Reference!BagAdd(B, new)
    BY <1>12 DEF Reference!Put
  <2> QED
    BY <1>3, <1>8, <1>11, <2>1, <2>2
<1>13. CASE ~ conf.list_mode
  <2>1. ChainsOK(t) /\ u = InsertHash(t, key, val)
    BY <1>1, <1>13 DEF HeapOK, Insert
  <2>2. PICK at : at = Lookup(t, key)
    OBVIOUS
  <2>3. /\ at = NULL => \A b \in DOMAIN t.row : t.row[b].key # key
        /\ at # NULL => at \in DOMAIN t.row /\ t.row[at].key = key
    BY <1>0, <2>1, <2>2, LookupIs
  <2>4. \A b, c \in DOMAIN t.row : t.row[b].key = t.row[c].key => b = c
    BY <2>1 DEF ChainsOK
  <2>5. CASE at = NULL
    <3>1. u.row = row
      BY <1>6, <2>1, <2>2, <2>5 DEF InsertHash
    <3>2. same = {}
      BY <1>4, <1>9, <1>10, <2>3, <2>5 DEF Flow
    <3>3. Reference!Put(B, new) = Reference!BagAdd(B, new)
      BY <1>10, <3>2 DEF Reference!Put
    <3> QED
      BY <1>3, <1>8, <1>11, <3>1, <3>3
  <2>6. CASE at # NULL
    <3>1. PICK old : old = Flow(t, at)
      OBVIOUS
    <3>2. same = {old}
      BY <1>4, <1>9, <1>10, <2>3, <2>4, <2>6, <3>1 DEF Flow
    <3>3. PICK sum : sum = [new EXCEPT !.bytes = @ + old.bytes, !.pkts = @ + old.pkts]
      OBVIOUS
    <3>4. Reference!Put(B, new) = Reference!BagAdd(Reference!BagRemove(B, old), sum)
      <4>1. (CHOOSE r \in same : TRUE) = old
        BY <3>2
      <4> QED
        BY <1>10, <1>13, <3>2, <3>3, <4>1 DEF Reference!Put
    <3>5. t.row[at] \in Rows /\ t.row[at].val \in Vals
      BY <1>0, <2>3, <2>6 DEF Rows
    <3>6. PICK agg : agg = Aggregated(t.row[at].val, val)
      OBVIOUS
    <3>7. agg.bytes = t.row[at].val.bytes + val.bytes /\ agg.pkts = t.row[at].val.pkts + val.pkts
      BY <3>5, <3>6, AggregatedIs
    <3>8. u = [t EXCEPT !.row[at].val = agg]
      BY <2>1, <2>2, <2>6, <3>6 DEF InsertHash
    <3>9. u.row = [t.row EXCEPT ![at].val = agg]
      BY <1>0, <3>8
    <3>10. DOMAIN u.row = DOMAIN t.row /\ u.row[at].val = agg /\ u.row[at].key = key
           /\ \A b \in DOMAIN t.row : b # at => u.row[b] = t.row[b]
      BY <1>0, <2>3, <2>6, <3>5, <3>9 DEF Rows
    <3>11. Flow(u, at) = sum
      <4>1. old = [key |-> key, bytes |-> t.row[at].val.bytes, pkts |-> t.row[at].val.pkts]
        BY <2>3, <2>6, <3>1 DEF Flow
      <4>2. sum = [key |-> key, bytes |-> val.bytes + old.bytes, pkts |-> val.pkts + old.pkts]
        BY <1>4, <3>3
      <4>3. Flow(u, at) = [key |-> key, bytes |-> agg.bytes, pkts |-> agg.pkts]
        BY <3>10 DEF Flow
      <4> QED
        BY <3>5, <3>7, <4>1, <4>2, <4>3 DEF Vals
    <3>12. \A b \in DOMAIN t.row : b # at => Flow(u, b) = Flow(t, b)
      BY <3>10 DEF Flow
    <3>13. \A b \in DOMAIN t.row : u.row[b].key = t.row[b].key
      BY <2>3, <2>6, <3>10
    <3>14. FlowBag(u) = Reference!BagAdd(Reference!BagRemove(FlowBag(t), Flow(t, at)), Flow(u, at))
      BY <2>3, <2>4, <2>6, <3>10, <3>12, <3>13, FlowReplaced
    <3> QED
      BY <1>3, <1>8, <3>1, <3>4, <3>11, <3>14
  <2> QED
    BY <2>5, <2>6
<1> QED
  BY <1>12, <1>13

\* The refinement mapping counts the rows, whatever their order,
LEMMA FlowsAre == TableOK(table) => Flows = FlowBag(table)
<1>1. Flows = ToBag(FlowList(table))
  BY DEF Flows, FlowList
<1> QED
  BY <1>1, ListCounts

\* also after a step.
LEMMA FlowsAreNext == TableOK(table') => Flows' = FlowBag(table')
<1>1. Flows' = ToBag(FlowList(table'))
  BY DEF Flows, FlowList
<1> QED
  BY <1>1, ListCounts

\* n of a record's keys make n puts.
LEMMA InsertCounts ==
  ASSUME TableInv, NEW keys, NEW rec \in Recs \cup RawRecs,
         keys \in {<<rec.k1>>, <<rec.k1, rec.k2>>}, InsertKeys(keys, Values(rec))
  PROVE  Reference!Count(keys, rec)
<1>1. /\ rec.k1 \in Nat /\ rec.k2 \in Nat
      /\ Values(rec) \in Vals /\ Values(rec).pkts # 0
  BY ValuesOK
<1>2. Len(keys) \in {1, 2} /\ keys[1] = rec.k1 /\ (Len(keys) = 2 => keys[2] = rec.k2)
  OBVIOUS
<1>3. PICK n \in 0 .. Len(keys) : /\ table' = Inserted(keys, n, Values(rec))
                                   /\ ret' = IF n = Len(keys) THEN "LNF_OK" ELSE "LNF_ERR_NOMEM"
  BY DEF InsertKeys
<1>4. HeapOK(table) /\ TableOK(table)
  BY DEF TableInv, HeapOK
<1>5. PICK t : t = Insert(table, rec.k1, Values(rec))
  OBVIOUS
<1>6. HeapOK(t)
  BY <1>1, <1>4, <1>5, InsertOK
<1>7. PICK B : B = Flows
  OBVIOUS
<1>8. B = FlowBag(table)
  BY <1>4, <1>7, FlowsAre
<1>9. FlowBag(t) = Reference!Put(B, Reference!Row(rec.k1, rec))
  BY <1>1, <1>4, <1>5, <1>8, InsertPuts
<1>10. TableOK(table') => Flows' = FlowBag(table')
  BY FlowsAreNext
<1>11. Flows' = Reference!PutKeys(B, keys, n, rec)
  <2>1. CASE n = 0
    <3>1. table' = table
      BY <1>3, <2>1 DEF Inserted
    <3>2. Flows' = B
      BY <1>4, <1>8, <1>10, <3>1
    <3> QED
      BY <2>1, <3>2 DEF Reference!PutKeys
  <2>2. CASE n = 1
    <3>1. table' = t
      BY <1>2, <1>3, <1>5, <2>2 DEF Inserted
    <3>2. Flows' = Reference!Put(B, Reference!Row(rec.k1, rec))
      BY <1>6, <1>9, <1>10, <3>1 DEF HeapOK
    <3> QED
      BY <1>2, <2>2, <3>2 DEF Reference!PutKeys
  <2>3. CASE n = 2
    <3>1. PICK u : u = Insert(t, rec.k2, Values(rec))
      OBVIOUS
    <3>2. Len(keys) = 2 /\ keys[2] = rec.k2
      BY <1>2, <2>3
    <3>3. table' = u
      BY <1>2, <1>3, <1>5, <2>3, <3>1, <3>2 DEF Inserted
    <3>4. HeapOK(u)
      BY <1>1, <1>6, <3>1, InsertOK
    <3>5. FlowBag(u) = Reference!Put(FlowBag(t), Reference!Row(rec.k2, rec))
      BY <1>1, <1>6, <3>1, InsertPuts
    <3>6. Flows' = Reference!Put(Reference!Put(B, Reference!Row(rec.k1, rec)), Reference!Row(rec.k2, rec))
      BY <1>9, <1>10, <3>3, <3>4, <3>5 DEF HeapOK
    <3> QED
      BY <1>2, <2>3, <3>2, <3>6 DEF Reference!PutKeys
  <2>4. n = 0 \/ n = 1 \/ n = 2
    <3>1. PICK m \in {1, 2} : m = Len(keys)
      BY <1>2
    <3> QED
      BY <1>3, <3>1
  <2> QED
    BY <2>1, <2>2, <2>3, <2>4
<1> QED
  BY <1>3, <1>7, <1>11 DEF Reference!Count

\* A new heap is an empty table of flows.
LEMMA HeapInits == ASSUME Init PROVE Reference!Init
<1>1. TableOK(table) /\ table = EmptyTable
  BY EmptyTableOK DEF Init
<1>2. DOMAIN table.row = {}
  BY <1>1 DEF EmptyTable
<1>3. Flows = Reference!NoFlows
  BY <1>1, <1>2, FlowsAre DEF FlowBag, Reference!NoFlows
<1> QED
  BY <1>3 DEF Init, Reference!Init

\* A write counts its record in full, or says that it did not.
LEMMA WriteSteps ==
  ASSUME IInv, NEW rec \in Recs, Write(rec)
  PROVE  Reference!Next
<1>1. TableInv /\ UNCHANGED conf /\ InsertKeys(PairKeys(rec), Values(rec))
  BY DEF IInv, Write, Written
<1>2. PairKeys(rec) \in {<<rec.k1>>, <<rec.k1, rec.k2>>}
  BY DEF PairKeys
<1>3. Reference!Count(PairKeys(rec), rec)
  BY <1>1, <1>2, InsertCounts
<1>4. PairKeys(rec) = Reference!Keys(rec)
  BY DEF PairKeys, Reference!Keys
<1>5. Reference!Record
  BY <1>3, <1>4 DEF Reference!Record
<1> QED
  BY <1>1, <1>5 DEF Reference!Next

\* So does a write of a raw row.
LEMMA WriteRawSteps ==
  ASSUME IInv, NEW rec \in RawRecs, WriteRaw(rec)
  PROVE  Reference!Next
<1>1. TableInv /\ UNCHANGED conf /\ InsertKeys(<<rec.k1>>, Values(rec))
  BY DEF IInv, WriteRaw, Written
<1>2. Reference!Count(<<rec.k1>>, rec)
  BY <1>1, InsertCounts
<1>3. Reference!RecordRaw
  BY <1>2 DEF Reference!RecordRaw
<1> QED
  BY <1>1, <1>3 DEF Reference!Next

\* Neither sorting nor the calculated fields change what the heap holds.
LEMMA SortStutters ==
  ASSUME Types, TableInv, Sort
  PROVE  Flows' = Flows
<1>1. HeapOK(table) /\ TableOK(table) /\ conf \in Configs
  BY DEF TableInv, HeapOK, Types
<1>2. CASE sorted \/ conf.field = "none"
  BY <1>2 DEF Sort, Flows
<1>3. CASE ~ sorted /\ conf.field # "none"
  <2>1. PICK t : t = IF conf.field = "bpp" THEN UpdCalcFields(table) ELSE table
    OBVIOUS
  <2>2. TableOK(t)
    BY <1>1, <2>1, UpdCalcFieldsOK
  <2>3. table' = SortRows(t)
    BY <1>3, <2>1 DEF Sort
  <2>4. TableOK(table') /\ table'.row = t.row
    BY <1>1, <1>3, <2>2, <2>3, SortRowsOK
  <2>5. DOMAIN t.row = DOMAIN table.row /\ \A a \in DOMAIN table.row : Flow(t, a) = Flow(table, a)
    <3>1. CASE conf.field # "bpp"
      BY <2>1, <3>1
    <3>2. CASE conf.field = "bpp"
      <4>1. t = UpdCalcFields(table)
        BY <2>1, <3>2
      <4> QED
        BY <1>1, <4>1, UpdCalcFieldsFlows
    <3> QED
      BY <3>1, <3>2
  <2>6. DOMAIN table'.row = DOMAIN table.row
        /\ \A a \in DOMAIN table.row : Flow(table', a) = Flow(table, a)
    BY <2>4, <2>5 DEF Flow
  <2>7. FlowBag(table') = FlowBag(table)
    BY <2>6, SameFlows
  <2> QED
    BY <1>1, <2>4, <2>7, FlowsAre, FlowsAreNext
<1> QED
  BY <1>2, <1>3

\* Every step of the heap is a step of FlowTable, or changes nothing it sees.
THEOREM HeapSteps == IInv /\ [Next]_vars => [Reference!Next]_Reference!vars
<1> SUFFICES ASSUME IInv, [Next]_vars PROVE [Reference!Next]_Reference!vars
  OBVIOUS
<1> DEFINE Stutter == Flows' = Flows /\ UNCHANGED <<conf, ret>>
<1>1. Stutter => UNCHANGED Reference!vars
  BY DEF Reference!vars
<1>2. ASSUME NEW c \in Cursors, NEW passed, Begin(c, passed) PROVE Stutter
  <2>1. Types /\ TableInv /\ UNCHANGED <<conf, ret>>
    BY <1>2 DEF IInv, Begin
  <2>2. CASE status = "EMPTY"
    BY <1>2, <2>1, <2>2 DEF Begin, Flows
  <2>3. CASE status # "EMPTY"
    BY <1>2, <2>1, <2>3, SortStutters DEF Begin
  <2> QED
    BY <2>2, <2>3
<1>3. ASSUME NEW c \in Cursors, Next_c(c) PROVE Stutter
  BY <1>3 DEF Next_c, Flows
<1>4. "read" \in Cursors /\ "scan" \in Cursors
  BY DEF Cursors
<1>5. ASSUME Clean PROVE Stutter \/ Reference!Next
  <2>1. UNCHANGED <<conf, ret>>
    BY <1>5 DEF Clean
  <2>2. CASE status = "EMPTY"
    BY <1>5, <2>1, <2>2 DEF Clean, Flows
  <2>3. CASE status # "EMPTY"
    <3>1. table' = EmptyTable
      BY <1>5, <2>3 DEF Clean, CleanTable
    <3>2. TableOK(table') /\ DOMAIN table'.row = {}
      BY <3>1, EmptyTableOK DEF EmptyTable
    <3>3. Flows' = Reference!NoFlows
      BY <3>2, FlowsAreNext DEF FlowBag, Reference!NoFlows
    <3>4. Reference!Clear
      BY <2>1, <3>3 DEF Reference!Clear
    <3> QED
      BY <2>1, <3>4 DEF Reference!Next
  <2> QED
    BY <2>2, <2>3
<1>6. UNCHANGED vars => Stutter
  BY DEF vars, Flows
<1> HIDE DEF Stutter
<1>7. ASSUME NEW rec \in Recs, Write(rec) PROVE Reference!Next
  BY <1>7, WriteSteps
<1>8. ASSUME NEW rec \in RawRecs, WriteRaw(rec) PROVE Reference!Next
  BY <1>8, WriteRawSteps
<1>9. Read \/ Scan \/ ReadReset => Stutter
  BY <1>2, <1>3, <1>4 DEF Read, Scan, First, ReadReset
<1> QED
  BY <1>1, <1>5, <1>6, <1>7, <1>8, <1>9 DEF Next

\* The heap, whatever its chains and its list go through, is a plain table of
\* totals: the implementation of FlowTable.
THEOREM HeapRefines == Spec => RefinesFlowTable
<1>1. Init => Reference!Init
  BY HeapInits
<1>2. IInv /\ [Next]_vars => [Reference!Next]_Reference!vars
  BY HeapSteps
<1>3. Spec => Reference!Spec
  BY <1>1, <1>2, HeapInvariant, PTL DEF Spec, Reference!Spec
<1> QED
  BY <1>3 DEF RefinesFlowTable
=============================================================================
