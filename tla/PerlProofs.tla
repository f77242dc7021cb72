----------------------------- MODULE PerlProofs ------------------------------
(***************************************************************************)
(* Theorems about PerlNf, for any number of objects, instances, files and  *)
(* rows.                                                                   *)
(*   PerlType  - what objects, instances and files are;                    *)
(*   Owners    - who has which instance, and what an object that may fetch *)
(*               or store rows has there;                                  *)
(*   Upon      - the record an instance has in hand is the one the next    *)
(*               row is stored upon;                                       *)
(*   Answering - the records a query asks for are those that were fetched  *)
(*               and those that are left in the list of files, or they are *)
(*               all in the heap.                                          *)
(* The two loops that read files come first: for every list of files they  *)
(* end, with the list in hand unless they have come to its end, and what   *)
(* they read is no longer left.                                            *)
(***************************************************************************)
EXTENDS PerlNf, NatFacts, SequenceTheorems

\* What may become of a heap, and of an instance that reads: heaps of M, records of R.
Heaps(m, W) ==
  [there : {m.there}, list : {m.list}, bits : {m.bits}, sum : {m.sum}, written : Seq(W), returned : {m.returned}]
Reads(i, R, M) ==
  [files : Seq(STRING) \cup {Null}, nffile_r : DOMAIN disk \cup {Null}, pos : Nat, nffile_w : {i.nffile_w},
   written : {i.written}, filter : {i.filter}, field_list : {i.field_list}, mem : M, rec : R]

IsMem(m) == m \in Heaps(m, Range(m.written)) /\ m.there \in BOOLEAN
IsInstance(i) ==
  /\ i \in [files : Seq(STRING) \cup {Null}, nffile_r : {i.nffile_r}, pos : Nat, nffile_w : {i.nffile_w},
             written : {i.written}, filter : {i.filter}, field_list : {i.field_list}, mem : {i.mem}, rec : {i.rec}]
  /\ IsMem(i.mem) /\ i.written \in Seq(Range(i.written))
Reading(i) == i.nffile_r \in DOMAIN disk \cup {Null}

DiskType ==
  /\ IsFiniteSet(DOMAIN disk)
  /\ \A p \in DOMAIN disk : disk[p] \in Seq(Range(disk[p]))

\* An instance with a list of files.
Listed(Y) == {y \in Y : y.files # Null}
Outcomes == {"on", "row", "end", "croak"}
\* Only at the end of the list it is gone.
Answers(Y) == {r \in [inst : Y, outcome : Outcomes] : r.outcome = "end" \/ r.inst.files # Null}

\* The name of no file is Null, and no list of names is.
LEMMA NullIs == Null \notin STRING /\ Null \notin Seq(STRING) /\ \A s \in Seq(STRING) : s # Null
  BY PerlAssumption
-----------------------------------------------------------------------------
(***************************************************************************)
(* Loops                                                                   *)
(***************************************************************************)

\* A loop of N turns T that begins with x.
Loop(g, N, x, T) ==
  g = [n \in 0 .. N |-> IF n = 0 THEN [inst |-> x, outcome |-> "on"]
                        ELSE IF g[n - 1].outcome = "on" THEN T[g[n - 1].inst] ELSE g[n - 1]]

\* The turns of a loop over X: each has an answer in Z, and one that does not end
\* the loop leads back into X, with less to do.
Turning(T, m, X, Z) ==
  /\ m \in [X -> Nat] /\ T \in [X -> Z]
  /\ \A x \in X : T[x].outcome = "on" => T[x].inst \in X /\ m[T[x].inst] < m[x]

\* The answers after n turns
After(n, x, m, X, Z) == {r \in Z : r.outcome = "on" => r.inst \in X /\ m[r.inst] + n <= m[x]}

\* A turn leads on from the answers after n - 1 turns to those after n.
LEMMA TurnLeads ==
  ASSUME NEW X, NEW Z, NEW m, NEW T, Turning(T, m, X, Z), NEW x \in X, NEW n \in Nat \ {0},
         NEW r \in After(n - 1, x, m, X, Z)
  PROVE  (IF r.outcome = "on" THEN T[r.inst] ELSE r) \in After(n, x, m, X, Z)
<1>1. r \in Z /\ (r.outcome = "on" => r.inst \in X /\ m[r.inst] + (n - 1) <= m[x])
  BY DEF After
<1>2. CASE r.outcome # "on"
  <2>1. r \in After(n, x, m, X, Z)
    BY <1>1, <1>2 DEF After
  <2> QED
    BY <2>1, <1>2
<1>3. CASE r.outcome = "on"
  <2>1. r.inst \in X /\ m[r.inst] \in Nat /\ m[x] \in Nat /\ m[r.inst] + (n - 1) <= m[x]
    BY <1>1, <1>3 DEF Turning
  <2>2. PICK s \in Z : s = T[r.inst]
    BY <2>1 DEF Turning
  <2>3. s.outcome = "on" => s.inst \in X /\ m[s.inst] \in Nat /\ m[s.inst] < m[r.inst]
    BY <2>1, <2>2 DEF Turning
  <2>4. s \in After(n, x, m, X, Z)
    BY <2>1, <2>3 DEF After
  <2> QED
    BY <2>2, <2>4, <1>3
<1> QED
  BY <1>2, <1>3

\* At the beginning the loop is on.
LEMMA LoopBegins ==
  ASSUME NEW X, NEW Z, NEW m, NEW T, Turning(T, m, X, Z), NEW x \in X, [inst |-> x, outcome |-> "on"] \in Z
  PROVE  [inst |-> x, outcome |-> "on"] \in After(0, x, m, X, Z)
<1>1. m[x] \in Nat
  BY DEF Turning
<1> QED
  BY <1>1 DEF After

\* There is such a loop.
LEMMA LoopExists ==
  ASSUME NEW X, NEW Z, NEW m, NEW T, Turning(T, m, X, Z), NEW x \in X, [inst |-> x, outcome |-> "on"] \in Z,
         NEW N \in Nat
  PROVE  \E g : Loop(g, N, x, T) /\ \A k \in 0 .. N : g[k] \in After(k, x, m, X, Z)
<1> DEFINE turn(r) == IF r.outcome = "on" THEN T[r.inst] ELSE r
           D == [k \in 1 .. N |-> [r \in Z |-> turn(r)]]
<1>1. PICK g : Recursion(g, N, [inst |-> x, outcome |-> "on"], D)
  <2> HIDE DEF D
  <2> QED
    BY RecursiveFunction
<1> DEFINE S == [k \in 0 .. N |-> After(k, x, m, X, Z)]
<1>2. g[0] = [inst |-> x, outcome |-> "on"] /\ \A k \in 1 .. N : g[k] = D[k][g[k - 1]]
  <2> HIDE DEF D
  <2>1. g = [k \in 0 .. N |-> IF k = 0 THEN [inst |-> x, outcome |-> "on"] ELSE D[k][g[k - 1]]]
    BY <1>1 DEF Recursion
  <2> QED
    BY <2>1
<1>3. ASSUME NEW k \in 1 .. N, g[k - 1] \in S[k - 1] PROVE g[k] = turn(g[k - 1]) /\ g[k] \in S[k]
  <2>1. k \in Nat \ {0} /\ k - 1 \in 0 .. N /\ k \in 0 .. N
    OBVIOUS
  <2>2. g[k - 1] \in After(k - 1, x, m, X, Z) /\ g[k - 1] \in Z
    BY <1>3, <2>1 DEF After
  <2>3. g[k] = turn(g[k - 1])
    <3>1. D[k] = [r \in Z |-> turn(r)]
      OBVIOUS
    <3> HIDE DEF D, turn
    <3> QED
      BY <1>2, <2>2, <3>1
  <2>4. turn(g[k - 1]) \in After(k, x, m, X, Z)
    BY <2>1, <2>2, TurnLeads
  <2> QED
    BY <2>1, <2>3, <2>4
<1>4. \A k \in 0 .. N : g[k] \in S[k]
  <2>1. g[0] \in S[0]
    BY <1>2, LoopBegins
  <2> HIDE DEF S, D, turn
  <2> QED
    BY <2>1, <1>3, StepByStep
<1>5. \A k \in 1 .. N : g[k] = turn(g[k - 1])
  <2>1. \A k \in 1 .. N : k - 1 \in 0 .. N
    OBVIOUS
  <2> HIDE DEF S, D, turn
  <2> QED
    BY <2>1, <1>3, <1>4
<1>6. g = [k \in 0 .. N |-> g[k]]
  BY <1>1 DEF Recursion
<1>7. \A k \in 0 .. N : g[k] = IF k = 0 THEN [inst |-> x, outcome |-> "on"] ELSE turn(g[k - 1])
  <2>1. \A k \in 0 .. N : k = 0 \/ k \in 1 .. N
    OBVIOUS
  <2> HIDE DEF turn
  <2> QED
    BY <2>1, <1>2, <1>5
<1>8. \A k \in 0 .. N : g[k] \in After(k, x, m, X, Z)
  BY <1>4
<1> QED
  BY <1>6, <1>7, <1>8 DEF Loop

\* A loop with turns enough has an answer.
LEMMA LoopEnds ==
  ASSUME NEW X, NEW Z, NEW m, NEW T, Turning(T, m, X, Z), NEW x \in X, [inst |-> x, outcome |-> "on"] \in Z,
         NEW N \in Nat, m[x] < N,
         NEW g, g[0] = [inst |-> x, outcome |-> "on"],
         \A k \in 1 .. N : g[k - 1] \in After(k - 1, x, m, X, Z) =>
           g[k] = IF g[k - 1].outcome = "on" THEN T[g[k - 1].inst] ELSE g[k - 1]
  PROVE  g[N] \in Z /\ g[N].outcome # "on"
<1> DEFINE S == [k \in 0 .. N |-> After(k, x, m, X, Z)]
<1>1. g[0] \in S[0]
  BY LoopBegins
<1>2. ASSUME NEW k \in 1 .. N, g[k - 1] \in S[k - 1] PROVE g[k] \in S[k]
  <2>1. k \in Nat \ {0} /\ k - 1 \in 0 .. N /\ k \in 0 .. N
    OBVIOUS
  <2>2. g[k - 1] \in After(k - 1, x, m, X, Z)
    BY <1>2, <2>1
  <2>3. g[k] = IF g[k - 1].outcome = "on" THEN T[g[k - 1].inst] ELSE g[k - 1]
    BY <2>2
  <2>4. g[k] \in After(k, x, m, X, Z)
    BY <2>1, <2>2, <2>3, TurnLeads
  <2> QED
    BY <2>1, <2>4
<1>3. g[N] \in After(N, x, m, X, Z)
  <2>1. \A k \in 0 .. N : g[k] \in S[k]
    <3> HIDE DEF S
    <3> QED
      BY <1>1, <1>2, StepByStep
  <2> QED
    BY <2>1
<1>4. g[N].outcome # "on"
  <2> SUFFICES ASSUME g[N].outcome = "on" PROVE FALSE
    OBVIOUS
  <2>1. g[N].inst \in X /\ m[g[N].inst] + N <= m[x]
    BY <1>3 DEF After
  <2>2. m[g[N].inst] \in Nat /\ m[x] \in Nat
    BY <2>1 DEF Turning
  <2> QED
    BY <2>1, <2>2
<1> QED
  BY <1>3, <1>4 DEF After
-----------------------------------------------------------------------------
(***************************************************************************)
(* Sequences put together                                                  *)
(***************************************************************************)
\* The sequences up to the i-th one, put together
Flatten(f, s) == f = [i \in 1 .. Len(s) |-> IF i = 1 THEN s[i] ELSE f[i - 1] \o s[i]]

LEMMA FlattenFunction ==
  ASSUME NEW R, NEW s \in Seq(Seq(R)), s # <<>>
  PROVE  \E f : Flatten(f, s)
<1>1. PICK N \in Nat : Len(s) = N /\ N # 0
  BY EmptySeq
<1> DEFINE D == [k \in 1 .. N |-> [x \in Seq(R) |-> x \o s[k]]]
<1>2. PICK g : Recursion(g, N, <<>>, D)
  <2> HIDE DEF D
  <2> QED
    BY RecursiveFunction
<1>3. g[0] = <<>> /\ \A k \in 1 .. N : g[k] = D[k][g[k - 1]]
  <2> HIDE DEF D
  <2>1. g = [k \in 0 .. N |-> IF k = 0 THEN <<>> ELSE D[k][g[k - 1]]]
    BY <1>2 DEF Recursion
  <2> QED
    BY <2>1
<1>4. \A k \in 0 .. N : g[k] \in [n \in 0 .. N |-> Seq(R)][k]
  <2> DEFINE S == [n \in 0 .. N |-> Seq(R)]
  <2>1. g[0] \in S[0]
    BY <1>3
  <2>2. ASSUME NEW k \in 1 .. N, g[k - 1] \in S[k - 1] PROVE g[k] \in S[k]
    <3>1. k - 1 \in 0 .. N /\ k \in 0 .. N /\ s[k] \in Seq(R)
      BY <1>1
    <3>2. g[k - 1] \in Seq(R)
      BY <2>2, <3>1
    <3>3. g[k] = g[k - 1] \o s[k]
      BY <1>3, <3>2
    <3>4. g[k - 1] \o s[k] \in Seq(R)
      BY <3>1, <3>2, ConcatProperties
    <3> QED
      BY <3>1, <3>3, <3>4
  <2> HIDE DEF S
  <2> QED
    BY <2>1, <2>2, StepByStep DEF S
<1>5. \A k \in 1 .. N : g[k] = g[k - 1] \o s[k] /\ (k = 1 => g[k] = s[k])
  <2> SUFFICES ASSUME NEW k \in 1 .. N PROVE g[k] = g[k - 1] \o s[k] /\ (k = 1 => g[k] = s[k])
    OBVIOUS
  <2>1. k - 1 \in 0 .. N /\ g[k - 1] \in Seq(R) /\ s[k] \in Seq(R)
    BY <1>1, <1>4
  <2>2. g[k] = g[k - 1] \o s[k]
    BY <1>3, <2>1
  <2>3. <<>> \o s[k] = s[k]
    BY <2>1, ConcatEmptySeq
  <2>4. k = 1 => g[k - 1] = <<>>
    BY <1>3
  <2> QED
    BY <2>2, <2>3, <2>4
<1> DEFINE f == [k \in 1 .. N |-> g[k]]
<1>6. \A k \in 1 .. N : f[k] = IF k = 1 THEN s[k] ELSE f[k - 1] \o s[k]
  <2>1. \A k \in 1 .. N : k # 1 => k - 1 \in 1 .. N
    OBVIOUS
  <2> QED
    BY <1>5, <2>1
<1> DEFINE e(k) == IF k = 1 THEN s[k] ELSE f[k - 1] \o s[k]
<1>7. f = [k \in 1 .. N |-> e(k)]
  <2>1. f = [k \in 1 .. N |-> f[k]] /\ \A k \in 1 .. N : f[k] = e(k)
    BY <1>6
  <2> HIDE DEF f, e
  <2> QED
    BY <2>1
<1>8. Flatten(f, s)
  <2> HIDE DEF f
  <2> QED
    BY <1>1, <1>7 DEF Flatten, e
<1> HIDE DEF f
<1> QED
  BY <1>8

\* FlattenSeq is the last of them.
LEMMA FlattenIs ==
  ASSUME NEW R, NEW s \in Seq(Seq(R)), s # <<>>
  PROVE  \E f : /\ FlattenSeq(s) = f[Len(s)] /\ f[1] = s[1]
                /\ \A k \in 2 .. Len(s) : f[k] = f[k - 1] \o s[k]
                /\ \A k \in 1 .. Len(s) : f[k] \in Seq(R)
<1>1. PICK N \in Nat \ {0} : Len(s) = N
  BY EmptySeq
<1> DEFINE f == CHOOSE h : Flatten(h, s)
<1>2. FlattenSeq(s) = f[N]
  BY <1>1 DEF FlattenSeq, Flatten
<1>3. Flatten(f, s)
  BY FlattenFunction
<1> HIDE DEF f
<1>4. f[1] = s[1] /\ \A k \in 2 .. N : f[k] = f[k - 1] \o s[k]
  <2>1. 1 \in 1 .. N /\ \A k \in 2 .. N : k \in 1 .. N /\ k # 1
    OBVIOUS
  <2>2. \A k \in 1 .. N : f[k] = IF k = 1 THEN s[k] ELSE f[k - 1] \o s[k]
    BY <1>1, <1>3 DEF Flatten
  <2> QED
    BY <2>1, <2>2
<1>5. \A k \in 1 .. N : f[k] \in Seq(R)
  <2> DEFINE g == [n \in 0 .. N - 1 |-> f[n + 1]]
             S == [n \in 0 .. N - 1 |-> Seq(R)]
  <2>1. g[0] \in S[0]
    BY <1>1, <1>4
  <2>2. ASSUME NEW k \in 1 .. N - 1, g[k - 1] \in S[k - 1] PROVE g[k] \in S[k]
    <3>1. k \in 0 .. N - 1 /\ k - 1 \in 0 .. N - 1 /\ k + 1 \in 2 .. N /\ (k - 1) + 1 = k /\ (k + 1) - 1 = k
      OBVIOUS
    <3>2. f[k] \in Seq(R) /\ s[k + 1] \in Seq(R)
      BY <1>1, <2>2, <3>1
    <3>3. f[k + 1] = f[k] \o s[k + 1]
      BY <1>4, <3>1
    <3>4. f[k] \o s[k + 1] \in Seq(R)
      BY <3>2, ConcatProperties
    <3> QED
      BY <3>1, <3>3, <3>4
  <2>3. \A k \in 0 .. N - 1 : g[k] \in S[k]
    <3>1. N - 1 \in Nat
      OBVIOUS
    <3> HIDE DEF g, S
    <3> QED
      BY <2>1, <2>2, <3>1, StepByStep
  <2>4. ASSUME NEW k \in 1 .. N PROVE f[k] \in Seq(R)
    <3>1. k - 1 \in 0 .. N - 1 /\ (k - 1) + 1 = k
      OBVIOUS
    <3> QED
      BY <2>3, <3>1
  <2> QED
    BY <2>4
<1> QED
  BY <1>1, <1>2, <1>4, <1>5

\* f, one step ahead and from a sequence more, and g grow by the sequences of t.
Abreast(f, g, t, N, first, T) ==
  /\ f[2] = first \o g[1]
  /\ \A k \in 1 .. N - 2 : f[k + 2] = f[k + 1] \o t[k + 1] /\ g[k + 1] = g[k] \o t[k + 1]
  /\ \A k \in 1 .. N - 1 : g[k] \in T /\ t[k] \in T

LEMMA FlattenOn ==
  ASSUME NEW R, NEW N \in Nat \ {0}, N # 1, NEW first \in Seq(R), NEW f, NEW g, NEW t,
         Abreast(f, g, t, N, first, Seq(R))
  PROVE  f[N] = first \o g[N - 1]
<1> USE DEF Abreast
<1> DEFINE h == [n \in 0 .. N - 2 |-> n]
           S == [n \in 0 .. N - 2 |-> {x \in {n} : f[n + 2] = first \o g[n + 1]}]
<1>1. h[0] \in S[0]
  <2>1. 0 \in 0 .. N - 2 /\ 0 + 2 = 2 /\ 0 + 1 = 1
    OBVIOUS
  <2> QED
    BY <2>1
<1>2. ASSUME NEW k \in 1 .. N - 2, h[k - 1] \in S[k - 1] PROVE h[k] \in S[k]
  <2>1. /\ k \in 0 .. N - 2 /\ k - 1 \in 0 .. N - 2 /\ (k - 1) + 2 = k + 1 /\ (k - 1) + 1 = k
        /\ k \in 1 .. N - 1 /\ k + 1 \in 1 .. N - 1
    OBVIOUS
  <2>2. f[k + 1] = first \o g[k]
    BY <1>2, <2>1
  <2>3. PICK y, z \in Seq(R) : y = g[k] /\ z = t[k + 1]
    BY <2>1
  <2>4. (first \o y) \o z = first \o (y \o z)
    BY ConcatAssociative
  <2>5. f[k + 2] = first \o g[k + 1]
    BY <2>2, <2>3, <2>4
  <2> QED
    BY <2>1, <2>5
<1>3. \A k \in 0 .. N - 2 : h[k] \in S[k]
  <2>1. N - 2 \in Nat
    OBVIOUS
  <2> HIDE DEF h, S
  <2> QED
    BY <1>1, <1>2, <2>1, StepByStep
<1>4. N - 2 \in 0 .. N - 2 /\ (N - 2) + 2 = N /\ (N - 2) + 1 = N - 1
  OBVIOUS
<1> QED
  BY <1>3, <1>4

\* The first sequence, and then the others
LEMMA FlattenHead ==
  ASSUME NEW R, NEW s \in Seq(Seq(R)), s # <<>>
  PROVE  /\ FlattenSeq(s) = Head(s) \o FlattenSeq(Tail(s))
         /\ FlattenSeq(s) \in Seq(R) /\ FlattenSeq(Tail(s)) \in Seq(R)
<1>1. PICK N \in Nat \ {0} : Len(s) = N
  BY EmptySeq
<1>2. PICK f : /\ FlattenSeq(s) = f[N] /\ f[1] = s[1]
               /\ \A k \in 2 .. N : f[k] = f[k - 1] \o s[k]
               /\ \A k \in 1 .. N : f[k] \in Seq(R)
  BY <1>1, FlattenIs
<1>3. PICK t \in Seq(Seq(R)) : t = Tail(s) /\ Len(t) = N - 1 /\ \A k \in 1 .. N - 1 : t[k] = s[k + 1]
  <2>1. PICK W : W = Seq(R)
    OBVIOUS
  <2>2. s \in Seq(W)
    BY <2>1
  <2>3. Tail(s) \in Seq(W) /\ Len(Tail(s)) = Len(s) - 1 /\ \A k \in 1 .. Len(Tail(s)) : Tail(s)[k] = s[k + 1]
    BY <2>2, HeadTailProperties
  <2> QED
    BY <1>1, <2>1, <2>3
<1>4. FlattenSeq(s) \in Seq(R) /\ s[1] \in Seq(R) /\ s[1] = Head(s)
  BY <1>1, <1>2
<1>5. CASE N = 1
  <2>1. t = <<>> /\ FlattenSeq(t) = <<>> /\ <<>> \in Seq(R)
    <3>1. t = <<>>
      <4>1. Len(t) = 0
        BY <1>3, <1>5
      <4>2. PICK W : W = Seq(R)
        OBVIOUS
      <4>3. t \in Seq(W)
        BY <4>2
      <4>4. \A u \in Seq(W) : u # <<>> => Len(u) \in Nat \ {0}
        BY EmptySeq
      <4> QED
        BY <4>1, <4>3, <4>4
    <3> QED
      BY <3>1 DEF FlattenSeq
  <2>2. s[1] \o <<>> = s[1]
    BY <1>4, ConcatEmptySeq
  <2> QED
    BY <1>2, <1>3, <1>4, <1>5, <2>1, <2>2
<1>6. CASE N # 1
  <2>1. t # <<>> /\ N - 1 \in Nat \ {0}
    <3>1. N - 1 \in Nat \ {0} /\ Len(t) = N - 1
      BY <1>3, <1>6
    <3>2. Len(<<>>) = 0
      OBVIOUS
    <3> QED
      BY <3>1, <3>2
  <2>2. PICK g : /\ FlattenSeq(t) = g[N - 1] /\ g[1] = t[1]
                 /\ \A k \in 2 .. N - 1 : g[k] = g[k - 1] \o t[k]
                 /\ \A k \in 1 .. N - 1 : g[k] \in Seq(R)
    <3>1. Len(t) = N - 1
      BY <1>3
    <3>2. \E g : /\ FlattenSeq(t) = g[Len(t)] /\ g[1] = t[1]
                 /\ \A k \in 2 .. Len(t) : g[k] = g[k - 1] \o t[k]
                 /\ \A k \in 1 .. Len(t) : g[k] \in Seq(R)
      BY <2>1, FlattenIs
    <3> QED
      BY <3>1, <3>2
  <2>3. f[2] = s[1] \o g[1]
    <3>1. 2 \in 2 .. N /\ 1 \in 1 .. N - 1 /\ 2 - 1 = 1 /\ 1 + 1 = 2
      BY <1>6
    <3>2. f[2] = f[2 - 1] \o s[2] /\ t[1] = s[1 + 1]
      BY <1>2, <1>3, <3>1
    <3> QED
      BY <1>2, <2>2, <3>1, <3>2
  <2>4. ASSUME NEW k \in 1 .. N - 2 PROVE f[k + 2] = f[k + 1] \o t[k + 1] /\ g[k + 1] = g[k] \o t[k + 1]
    <3>1. /\ k + 2 \in 2 .. N /\ (k + 2) - 1 = k + 1 /\ k + 1 \in 2 .. N - 1 /\ (k + 1) - 1 = k
          /\ k + 1 \in 1 .. N - 1 /\ (k + 1) + 1 = k + 2
      OBVIOUS
    <3>2. f[k + 2] = f[(k + 2) - 1] \o s[k + 2]
      BY <1>2, <3>1
    <3>3. g[k + 1] = g[(k + 1) - 1] \o t[k + 1]
      BY <2>2, <3>1
    <3>4. t[k + 1] = s[(k + 1) + 1]
      BY <1>3, <3>1
    <3> QED
      BY <3>1, <3>2, <3>3, <3>4
  <2>5. \A k \in 1 .. N - 1 : g[k] \in Seq(R) /\ t[k] \in Seq(R)
    <3>1. PICK W : W = Seq(R)
      OBVIOUS
    <3>2. t \in Seq(W)
      BY <3>1
    <3>3. \A k \in 1 .. N - 1 : t[k] \in W
      BY <1>3, <3>2
    <3> QED
      BY <2>2, <3>1, <3>3
  <2>6. f[N] = s[1] \o g[N - 1]
    <3>1. PICK first \in Seq(R) : first = s[1]
      BY <1>4
    <3>2. Abreast(f, g, t, N, first, Seq(R))
      BY <2>3, <2>4, <2>5, <3>1 DEF Abreast
    <3>3. f[N] = first \o g[N - 1]
      BY <1>6, <3>2, FlattenOn
    <3> QED
      BY <3>1, <3>3
  <2>7. g[N - 1] \in Seq(R)
    <3>1. N - 1 \in 1 .. N - 1
      BY <1>6
    <3> QED
      BY <2>2, <3>1
  <2>8. FlattenSeq(t) = g[N - 1] /\ FlattenSeq(s) = f[N]
    BY <1>2, <2>2
  <2>9. FlattenSeq(s) = Head(s) \o FlattenSeq(t) /\ FlattenSeq(t) \in Seq(R)
    BY <1>4, <2>6, <2>7, <2>8
  <2> QED
    BY <1>3, <1>4, <2>9
<1> QED
  BY <1>5, <1>6

\* A sequence for each element, put together
Joined(e, F) == FlattenSeq([k \in DOMAIN e |-> F[e[k]]])

LEMMA JoinedHead ==
  ASSUME NEW E, NEW R, NEW F \in [E -> Seq(R)], NEW e \in Seq(E)
  PROVE  /\ Joined(e, F) \in Seq(R)
         /\ e = <<>> => Joined(e, F) = <<>>
         /\ e # <<>> => /\ Tail(e) \in Seq(E) /\ e[1] \in E
                        /\ Joined(e, F) = F[e[1]] \o Joined(Tail(e), F)
                        /\ Joined(Tail(e), F) \in Seq(R)
<1>1. PICK N \in Nat : Len(e) = N /\ DOMAIN e = 1 .. N
  OBVIOUS
<1>2. PICK s : s = [k \in 1 .. N |-> F[e[k]]]
  OBVIOUS
<1>3. s \in Seq(Seq(R)) /\ Len(s) = N /\ Joined(e, F) = FlattenSeq(s)
  <2>1. \A k \in 1 .. N : F[e[k]] \in Seq(R)
    BY <1>1
  <2>2. PICK W : W = Seq(R)
    OBVIOUS
  <2>3. s \in Seq(W) /\ Len(s) = N
    BY <1>2, <2>1, <2>2
  <2> QED
    BY <1>1, <1>2, <2>2, <2>3 DEF Joined
<1>4. CASE N = 0
  <2>1. s = <<>> /\ e = <<>>
    BY <1>1, <1>2, <1>4
  <2> QED
    BY <1>3, <2>1 DEF FlattenSeq
<1>5. CASE N # 0
  <2>1. e # <<>> /\ s # <<>>
    <3>1. Len(<<>>) = 0
      OBVIOUS
    <3> QED
      BY <1>1, <1>3, <1>5, <3>1
  <2>2. PICK t \in Seq(E) : t = Tail(e) /\ Len(t) = N - 1 /\ DOMAIN t = 1 .. N - 1 /\ \A k \in 1 .. N - 1 : t[k] = e[k + 1]
    <3>1. Tail(e) \in Seq(E) /\ Len(Tail(e)) = Len(e) - 1 /\ \A k \in 1 .. Len(Tail(e)) : Tail(e)[k] = e[k + 1]
      BY <2>1, HeadTailProperties
    <3>2. DOMAIN Tail(e) = 1 .. Len(Tail(e))
      BY <3>1
    <3> QED
      BY <1>1, <3>1, <3>2
  <2>3. Tail(s) = [k \in 1 .. N - 1 |-> F[t[k]]]
    <3>1. PICK W : W = Seq(R)
      OBVIOUS
    <3>2. Tail(s) \in Seq(W) /\ Len(Tail(s)) = N - 1 /\ \A k \in 1 .. N - 1 : Tail(s)[k] = s[k + 1]
      <4>1. s \in Seq(W)
        BY <1>3, <3>1
      <4>2. Tail(s) \in Seq(W) /\ Len(Tail(s)) = Len(s) - 1 /\ \A k \in 1 .. Len(Tail(s)) : Tail(s)[k] = s[k + 1]
        BY <2>1, <4>1, HeadTailProperties
      <4> QED
        BY <1>3, <4>2
    <3>3. \A k \in 1 .. N - 1 : s[k + 1] = F[t[k]]
      BY <1>2, <2>2
    <3>4. Tail(s) \in [1 .. N - 1 -> W]
      BY <3>2, LenProperties
    <3> QED
      BY <3>2, <3>3, <3>4
  <2>4. FlattenSeq(s) = Head(s) \o FlattenSeq(Tail(s)) /\ FlattenSeq(s) \in Seq(R) /\ FlattenSeq(Tail(s)) \in Seq(R)
    BY <1>3, <2>1, FlattenHead
  <2>5. Joined(t, F) = FlattenSeq(Tail(s))
    BY <2>2, <2>3 DEF Joined
  <2>6. Head(s) = F[e[1]] /\ e[1] \in E
    BY <1>1, <1>2, <1>3, <1>5, <2>1
  <2>7. Joined(e, F) = F[e[1]] \o Joined(t, F) /\ Joined(e, F) \in Seq(R) /\ Joined(t, F) \in Seq(R)
    BY <1>3, <2>4, <2>5, <2>6
  <2> QED
    BY <2>1, <2>2, <2>6, <2>7
<1> QED
  BY <1>4, <1>5

\* The record if it passes
Passing(filter, rec) == IF Passes(filter, rec) THEN <<rec>> ELSE <<>>

\* The records that pass are records of the file.
LEMMA MatchingTyped ==
  ASSUME NEW E, NEW R, NEW filter, NEW e \in Seq(E), \A x \in E : x.rec \in R
  PROVE  Matching(e, filter) \in Seq(R)
<1> DEFINE F == [x \in E |-> Passing(filter, x.rec)]
<1>1. F \in [E -> Seq(R)]
  BY DEF Passing
<1>2. Matching(e, filter) = Joined(e, F)
  <2>1. \A k \in DOMAIN e : e[k] \in E
    OBVIOUS
  <2>2. [k \in DOMAIN e |-> IF Passes(filter, e[k].rec) THEN <<e[k].rec>> ELSE <<>>] = [k \in DOMAIN e |-> F[e[k]]]
    BY <2>1 DEF Passing
  <2> HIDE DEF F
  <2> QED
    BY <2>2 DEF Matching, Joined
<1> HIDE DEF F
<1> QED
  BY <1>1, <1>2, JoinedHead

\* The first entry of a file, and then the others
LEMMA MatchingHead ==
  ASSUME NEW E, NEW filter, NEW e \in Seq(E), e # <<>>
  PROVE  Matching(e, filter) = Passing(filter, e[1].rec) \o Matching(Tail(e), filter)
<1> DEFINE R == {x.rec : x \in E}
           F == [x \in E |-> Passing(filter, x.rec)]
<1>1. F \in [E -> Seq(R)]
  <2>1. \A x \in E : x.rec \in R
    OBVIOUS
  <2> HIDE DEF R
  <2> QED
    BY <2>1 DEF Passing
<1>2. ASSUME NEW s \in Seq(E) PROVE Matching(s, filter) = Joined(s, F)
  <2>1. \A k \in DOMAIN s : s[k] \in E
    OBVIOUS
  <2>2. [k \in DOMAIN s |-> IF Passes(filter, s[k].rec) THEN <<s[k].rec>> ELSE <<>>] = [k \in DOMAIN s |-> F[s[k]]]
    BY <2>1 DEF Passing
  <2> HIDE DEF F
  <2> QED
    BY <2>2 DEF Matching, Joined
<1>3. \A x \in E : F[x] = Passing(filter, x.rec)
  OBVIOUS
<1> HIDE DEF F, R
<1>4. Tail(e) \in Seq(E) /\ e[1] \in E /\ Joined(e, F) = F[e[1]] \o Joined(Tail(e), F)
  BY <1>1, JoinedHead
<1> QED
  BY <1>2, <1>3, <1>4

\* The first file of a list, and then the others
LEMMA AllMatchingHead ==
  ASSUME NEW R, NEW filter, NEW files \in Seq(STRING), \A p \in STRING : Matching(Entries(p), filter) \in Seq(R)
  PROVE  /\ AllMatching(files, filter) \in Seq(R)
         /\ files = <<>> => AllMatching(files, filter) = <<>>
         /\ files # <<>> => /\ AllMatching(Tail(files), filter) \in Seq(R)
                            /\ AllMatching(files, filter)
                                 = Matching(Entries(Head(files)), filter) \o AllMatching(Tail(files), filter)
<1> DEFINE F == [p \in STRING |-> Matching(Entries(p), filter)]
<1>1. F \in [STRING -> Seq(R)] /\ \A p \in STRING : F[p] = Matching(Entries(p), filter)
  OBVIOUS
<1>2. ASSUME NEW s \in Seq(STRING) PROVE AllMatching(s, filter) = Joined(s, F)
  <2>1. \A k \in DOMAIN s : s[k] \in STRING
    OBVIOUS
  <2>2. [k \in DOMAIN s |-> Matching(Entries(s[k]), filter)] = [k \in DOMAIN s |-> F[s[k]]]
    BY <2>1
  <2> HIDE DEF F
  <2> QED
    BY <2>2 DEF AllMatching, Joined
<1> HIDE DEF F
<1>3. /\ Joined(files, F) \in Seq(R)
      /\ files = <<>> => Joined(files, F) = <<>>
      /\ files # <<>> => /\ Tail(files) \in Seq(STRING) /\ files[1] \in STRING
                         /\ Joined(files, F) = F[files[1]] \o Joined(Tail(files), F)
                         /\ Joined(Tail(files), F) \in Seq(R)
  BY <1>1, JoinedHead
<1>4. CASE files = <<>>
  BY <1>2, <1>3, <1>4
<1>5. CASE files # <<>>
  <2>1. AllMatching(files, filter) = Joined(files, F) /\ AllMatching(Tail(files), filter) = Joined(Tail(files), F)
    BY <1>2, <1>3, <1>5
  <2>2. Head(files) = files[1]
    BY <1>5
  <2>3. F[files[1]] = Matching(Entries(Head(files)), filter)
    BY <1>1, <1>3, <1>5, <2>2
  <2> QED
    BY <1>3, <1>5, <2>1, <2>3
<1> QED
  BY <1>4, <1>5
-----------------------------------------------------------------------------
(***************************************************************************)
(* Reading files                                                           *)
(***************************************************************************)

\* The records of all files.
DiskRecs == UNION {{disk[p][k].rec : k \in DOMAIN disk[p]} : p \in DOMAIN disk}

\* Entries and files that are left.
Left(i) == IF i.nffile_r # Null /\ i.pos < Len(disk[i.nffile_r]) THEN Len(disk[i.nffile_r]) - i.pos ELSE 0
Todo(i) == Len(i.files) * (Longest + 1) + Left(i)

\* No file is longer than the longest.
LEMMA LongestIs ==
  ASSUME DiskType
  PROVE  Longest \in Nat /\ \A p \in DOMAIN disk : Len(disk[p]) \in Nat /\ Len(disk[p]) <= Longest
<1> DEFINE T == {Len(disk[p]) : p \in DOMAIN disk}
           S == {0} \cup T
<1>1. \A p \in DOMAIN disk : Len(disk[p]) \in Nat
  BY DEF DiskType
<1>2. IsFiniteSet(T)
  <2>1. [p \in DOMAIN disk |-> Len(disk[p])] \in Surjection(DOMAIN disk, T)
    BY DEF Surjection
  <2>2. IsFiniteSet(DOMAIN disk)
    BY DEF DiskType
  <2> HIDE DEF T
  <2> QED
    BY <2>1, <2>2, FS_Surjection
<1>3. S \in SUBSET Nat /\ S # {} /\ IsFiniteSet(S)
  <2>1. IsFiniteSet({0})
    BY FS_Singleton
  <2>2. IsFiniteSet({0} \cup T)
    BY <1>2, <2>1, FS_Union
  <2> QED
    BY <1>1, <2>2
<1>4. PICK x \in S : \A y \in S : y <= x
  <2> HIDE DEF S
  <2> QED
    BY <1>3, NatGreatest
<1>5. Longest \in S /\ \A y \in S : Longest >= y
  <2>1. \E z \in S : \A y \in S : z >= y
    <3>1. \A y \in S : y \in Nat
      BY <1>3
    <3> HIDE DEF S
    <3> QED
      BY <1>4, <3>1
  <2>2. Longest = CHOOSE z \in S : \A y \in S : z >= y
    BY DEF Longest, Max
  <2> HIDE DEF S
  <2> QED
    BY <2>1, <2>2
<1>6. \A p \in DOMAIN disk : Len(disk[p]) \in S
  OBVIOUS
<1> HIDE DEF S
<1> QED
  BY <1>1, <1>3, <1>5, <1>6

\* One file less
LEMMA FileLess ==
  ASSUME NEW k \in Nat, NEW l \in Nat
  PROVE  k * (l + 1) \in Nat /\ (k + 1) * (l + 1) = k * (l + 1) + l + 1
OBVIOUS

\* What is left takes a number of turns.
LEMMA TodoIs ==
  ASSUME DiskType, NEW i, i.files \in Seq(STRING), i.nffile_r \in DOMAIN disk \cup {Null}, i.pos \in Nat
  PROVE  /\ Left(i) \in Nat /\ Left(i) <= Longest
         /\ Todo(i) \in Nat /\ Turns(i) \in Nat /\ Todo(i) < Turns(i)
<1>1. Left(i) \in Nat /\ Left(i) <= Longest /\ Longest \in Nat
  BY LongestIs DEF Left
<1>2. PICK k \in Nat, l \in Nat : k = Len(i.files) /\ l = Longest
  BY <1>1
<1>3. Todo(i) = k * (l + 1) + Left(i) /\ Turns(i) = 1 + (k + 1) * (l + 1)
  BY <1>2, NullIs DEF Todo, Turns
<1>4. PICK t \in Nat : t = k * (l + 1) /\ (k + 1) * (l + 1) = t + l + 1
  BY FileLess
<1>5. Todo(i) = t + Left(i) /\ Turns(i) = 1 + t + l + 1
  BY <1>3, <1>4
<1> QED
  BY <1>1, <1>2, <1>5

\* One turn of the loop leaves less to do, unless it ends the loop.
LEMMA ReadTurnIs ==
  ASSUME DiskType, NEW i, NEW R, NEW M, DiskRecs \subseteq R, NEW y \in Listed(Reads(i, R, M))
  PROVE  /\ ReadTurn(y) \in Answers(Reads(i, R, M))
         /\ ReadTurn(y).outcome \in {"on", "row"} => Todo(ReadTurn(y).inst) < Todo(y)
<1> DEFINE Y == Reads(i, R, M)
<1>1. /\ y \in Y /\ y.files \in Seq(STRING) /\ y.files # Null
      /\ y.nffile_r \in DOMAIN disk \cup {Null} /\ y.pos \in Nat /\ y.rec \in R
  BY DEF Listed, Reads
<1>2. Left(y) \in Nat /\ Longest \in Nat
  BY <1>1, TodoIs, LongestIs
<1>3. CASE y.nffile_r # Null /\ y.pos < Len(disk[y.nffile_r])
  <2> DEFINE entry == disk[y.nffile_r][y.pos + 1]
  <2>1. PICK rec \in R : rec = IF entry.bad THEN y.rec ELSE entry.rec
    <3>1. Len(disk[y.nffile_r]) \in Nat /\ y.pos + 1 \in DOMAIN disk[y.nffile_r]
      BY <1>1, <1>3 DEF DiskType
    <3>2. entry.rec \in R
      BY <1>1, <1>3, <3>1 DEF DiskRecs
    <3> QED
      BY <1>1, <3>2
  <2> DEFINE z == [y EXCEPT !.pos = @ + 1, !.rec = rec]
  <2>2. PICK outcome \in {"row", "on", "croak"} : ReadTurn(y) = [inst |-> z, outcome |-> outcome]
    <3>1. ReadTurn(y) = [inst |-> z, outcome |-> IF entry.croaks THEN "croak"
                                                 ELSE IF Passes(y.filter, rec) THEN "row" ELSE "on"]
      BY <1>3, <2>1 DEF ReadTurn
    <3> HIDE DEF z
    <3> QED
      BY <3>1
  <2>3. z \in Y /\ z.files = y.files /\ z.nffile_r = y.nffile_r /\ z.pos = y.pos + 1
    <3>1. y.pos + 1 \in Nat
      BY <1>1
    <3>2. PICK pos \in Nat : pos = y.pos + 1
      BY <3>1
    <3>3. z = [y EXCEPT !.pos = pos, !.rec = rec]
      BY <3>2
    <3>4. [y EXCEPT !.pos = pos, !.rec = rec] \in Y
      BY <1>1 DEF Reads
    <3> QED
      BY <1>1, <3>2, <3>3, <3>4 DEF Reads
  <2>4. Todo(z) < Todo(y)
    <3>1. Len(disk[y.nffile_r]) \in Nat
      BY <1>1, <1>3 DEF DiskType
    <3>2. Left(z) < Left(y) /\ Left(z) \in Nat
      <4> HIDE DEF z
      <4> QED
        BY <1>1, <1>3, <2>3, <3>1 DEF Left
    <3>3. Todo(z) = Len(y.files) * (Longest + 1) + Left(z)
      BY <2>3 DEF Todo
    <3>4. PICK t \in Nat : t = Len(y.files) * (Longest + 1)
      <4>1. Len(y.files) \in Nat
        BY <1>1
      <4> QED
        BY <4>1, <1>2, FileLess
    <3> HIDE DEF z
    <3> QED
      <4>1. Todo(z) = t + Left(z) /\ Todo(y) = t + Left(y)
        BY <3>3, <3>4 DEF Todo
      <4> QED
        BY <1>2, <3>2, <4>1
  <2> HIDE DEF z
  <2> QED
    BY <1>1, <2>2, <2>3, <2>4 DEF Answers, Outcomes
<1>4. CASE ~ (y.nffile_r # Null /\ y.pos < Len(disk[y.nffile_r]))
  <2> DEFINE j == [y EXCEPT !.nffile_r = Null, !.pos = 0]
  <2>1. j \in Y /\ j.files = y.files
    BY <1>1 DEF Reads
  <2>2. CASE y.files = <<>>
    <3> DEFINE z == [j EXCEPT !.files = Null]
    <3>1. ReadTurn(y) = [inst |-> z, outcome |-> "end"]
      BY <1>1, <1>4, <2>2 DEF ReadTurn
    <3>2. z \in Y
      BY <1>1 DEF Reads
    <3> HIDE DEF z
    <3> QED
      BY <3>1, <3>2 DEF Answers, Outcomes
  <2>3. CASE y.files # <<>> /\ Head(y.files) \notin DOMAIN disk
    <3>1. ReadTurn(y) = [inst |-> j, outcome |-> "croak"]
      BY <1>1, <1>4, <2>3 DEF ReadTurn
    <3> HIDE DEF j
    <3> QED
      BY <1>1, <2>1, <3>1 DEF Answers, Outcomes
  <2>4. CASE y.files # <<>> /\ Head(y.files) \in DOMAIN disk
    <3> DEFINE z == [j EXCEPT !.nffile_r = Head(y.files), !.files = Tail(y.files)]
    <3>1. ReadTurn(y) = [inst |-> z, outcome |-> "on"]
      BY <1>1, <1>4, <2>4 DEF ReadTurn, RestOfFiles
    <3>2. Tail(y.files) \in Seq(STRING) /\ Len(y.files) = Len(Tail(y.files)) + 1 /\ Len(Tail(y.files)) \in Nat
      <4>1. Tail(y.files) \in Seq(STRING) /\ Len(Tail(y.files)) = Len(y.files) - 1
        BY <1>1, <2>4, HeadTailProperties
      <4> QED
        BY <1>1, <4>1
    <3>3. z \in Y /\ z.files = Tail(y.files) /\ z.nffile_r = Head(y.files) /\ z.pos = 0
      BY <1>1, <2>4, <3>2 DEF Reads
    <3>4. Todo(z) < Todo(y)
      <4>1. Left(z) \in Nat /\ Left(z) <= Longest
        <5> HIDE DEF z
        <5> QED
          BY <2>4, <3>2, <3>3, TodoIs
      <4>2. Todo(z) = Len(Tail(y.files)) * (Longest + 1) + Left(z)
        BY <3>3 DEF Todo
      <4>3. PICK k \in Nat, l \in Nat : k = Len(Tail(y.files)) /\ l = Longest
        BY <3>2, <1>2
      <4>4. PICK t \in Nat : t = k * (l + 1) /\ (k + 1) * (l + 1) = t + l + 1
        BY FileLess
      <4>5. Todo(z) = t + Left(z) /\ Todo(y) = t + l + 1 + Left(y)
        BY <3>2, <4>2, <4>3, <4>4 DEF Todo
      <4> HIDE DEF z
      <4> QED
        BY <1>2, <4>1, <4>3, <4>5
    <3>5. z.files # Null
      BY <3>2, <3>3, NullIs
    <3> HIDE DEF z
    <3> QED
      <4>1. ReadTurn(y) \in Answers(Y)
        <5>1. z \in Y
          BY <3>3
        <5> HIDE DEF Y, j
        <5> QED
          BY <3>1, <3>5, <5>1 DEF Answers, Outcomes
      <4> QED
        BY <3>1, <3>4, <4>1
  <2> QED
    BY <2>2, <2>3, <2>4
<1> QED
  BY <1>3, <1>4
-----------------------------------------------------------------------------
(***************************************************************************)
(* What a query has still to give                                          *)
(***************************************************************************)
\* The files that an instance is reading or going to read
ReadFrom(i) == (IF i.nffile_r = Null THEN {} ELSE {i.nffile_r}) \cup (IF i.files = Null THEN {} ELSE Range(i.files))

\* No record of them is bad.
Clean(i) == \A p \in ReadFrom(i) \cap DOMAIN disk : \A k \in DOMAIN disk[p] : ~ disk[p][k].bad

\* The entries that are left of the open file, and the records that are left of all files
OpenRest(i) == IF i.nffile_r = Null THEN <<>> ELSE SubSeq(disk[i.nffile_r], i.pos + 1, Len(disk[i.nffile_r]))
Rest(i) == Matching(OpenRest(i), i.filter) \o AllMatching(i.files, i.filter)

IsSeq(s) == s \in Seq(Range(s))

\* By way of the list: the rows fetched are those of the first records that are
\* wanted, and the others are left.
ByList(i, fields, records, rows) ==
  /\ Clean(i) /\ i.files # Null
  /\ Len(rows) <= Len(records)
  /\ rows = [k \in 1 .. Len(rows) |-> Projected(records[k], fields)]
  /\ Rest(i) = SubSeq(records, Len(rows) + 1, Len(records))

\* A heap that has what is asked for
HeapFor(m, fields) ==
  /\ ~ m.list
  /\ BitsOf(fields) = IF m.bits = Null THEN {} ELSE {m.bits}
  /\ (\E k \in DOMAIN fields : fields[k].name = "n") => m.sum

\* By way of the heap: all the records are there, and the rows fetched are those
\* of the classes that were returned.
ByHeap(m, fields, records, rows) ==
  /\ m.written = records /\ HeapFor(m, fields)
  /\ m.returned \subseteq Classes(m)
  /\ Range(rows) = {Projected(RowOf(m, class), fields) : class \in m.returned}
  /\ IsInjective(rows)

\* The records that are left are those of files.
LEMMA RestTyped ==
  ASSUME DiskType, NEW R, DiskRecs \subseteq R, NEW filter
  PROVE  /\ \A p \in STRING : Matching(Entries(p), filter) \in Seq(R)
         /\ \A p \in DOMAIN disk : \A k \in Nat \ {0} :
              Matching(SubSeq(disk[p], k, Len(disk[p])), filter) \in Seq(R)
<1>1. ASSUME NEW p \in DOMAIN disk PROVE disk[p] \in Seq(Range(disk[p])) /\ \A e \in Range(disk[p]) : e.rec \in R
  BY DEF DiskType, DiskRecs, Range
<1>2. ASSUME NEW p \in STRING PROVE Matching(Entries(p), filter) \in Seq(R)
  <2>1. CASE p \in DOMAIN disk
    <3>1. Matching(disk[p], filter) \in Seq(R)
      BY <1>1, <2>1, MatchingTyped
    <3> QED
      BY <2>1, <3>1 DEF Entries
  <2>2. CASE p \notin DOMAIN disk
    <3>1. Entries(p) = <<>> /\ <<>> \in Seq(R)
      BY <2>2 DEF Entries
    <3>2. Matching(<<>>, filter) = <<>>
      BY DEF Matching, FlattenSeq
    <3> QED
      BY <3>1, <3>2
  <2> QED
    BY <2>1, <2>2
<1>3. ASSUME NEW p \in DOMAIN disk, NEW k \in Nat \ {0}
      PROVE  Matching(SubSeq(disk[p], k, Len(disk[p])), filter) \in Seq(R)
  <2>1. PICK s \in Seq(Range(disk[p])) : s = SubSeq(disk[p], k, Len(disk[p]))
    <3>1. Len(disk[p]) \in Nat /\ \A i \in k .. Len(disk[p]) : disk[p][i] \in Range(disk[p])
      BY <1>1
    <3>2. SubSeq(disk[p], k, Len(disk[p])) \in Seq(Range(disk[p]))
      BY <3>1, SubSeqProperties
    <3> QED
      BY <3>2
  <2>2. Matching(s, filter) \in Seq(R)
    BY <1>1, MatchingTyped
  <2> QED
    BY <2>1, <2>2
<1> QED
  BY <1>2, <1>3

\* What is left of a file with an entry to read
LEMMA OpenRestIs ==
  ASSUME DiskType, NEW R, DiskRecs \subseteq R, NEW filter, NEW p \in DOMAIN disk, NEW k \in Nat, k < Len(disk[p])
  PROVE  /\ disk[p][k + 1].rec \in R
         /\ Matching(SubSeq(disk[p], k + 1, Len(disk[p])), filter)
              = Passing(filter, disk[p][k + 1].rec)
                  \o Matching(SubSeq(disk[p], (k + 1) + 1, Len(disk[p])), filter)
<1>1. PICK E : disk[p] \in Seq(E) /\ (\A e \in E : e.rec \in R)
  <2>1. disk[p] \in Seq(Range(disk[p])) /\ \A e \in Range(disk[p]) : e.rec \in R
    BY DEF DiskType, DiskRecs, Range
  <2> QED
    BY <2>1
<1>2. PICK d \in Seq(E) : d = disk[p]
  BY <1>1
<1>3. PICK m, n \in Nat : m = k + 1 /\ n = Len(d) /\ m \in 1 .. Len(d) /\ n \in m .. Len(d)
  BY <1>2
<1>4. PICK s \in Seq(E) : s = SubSeq(d, m, n) /\ Head(s) = d[m] /\ Tail(s) = SubSeq(d, m + 1, n) /\ s # <<>>
  <2>1. Head(SubSeq(d, m, n)) = d[m] /\ Tail(SubSeq(d, m, n)) = SubSeq(d, m + 1, n)
    BY <1>3, HeadTailOfSubSeq
  <2>2. \A i \in m .. n : d[i] \in E
    BY <1>2, <1>3
  <2>3. SubSeq(d, m, n) \in Seq(E) /\ Len(SubSeq(d, m, n)) = n - m + 1
    BY <1>3, <2>2, SubSeqProperties
  <2>4. SubSeq(d, m, n) # <<>>
    <3>1. Len(<<>>) = 0 /\ n - m + 1 # 0
      BY <1>3
    <3> QED
      BY <1>3, <2>3, <3>1
  <2> QED
    BY <2>1, <2>3, <2>4
<1>5. s[1] = Head(s)
  BY <1>4
<1>6. /\ s[1].rec \in R /\ Matching(s, filter) \in Seq(R)
      /\ Matching(s, filter) = Passing(filter, s[1].rec) \o Matching(Tail(s), filter)
  <2>1. Matching(s, filter) \in Seq(R)
    BY <1>1, MatchingTyped
  <2>2. \A x \in E : x.rec \in R
    BY <1>1
  <2>3. s[1].rec \in R
    BY <1>3, <1>4, <1>5, <2>2
  <2>4. Matching(s, filter) = Passing(filter, s[1].rec) \o Matching(Tail(s), filter)
    <3>1. s # <<>>
      BY <1>4
    <3> QED
      BY <3>1, MatchingHead
  <2> QED
    BY <2>1, <2>3, <2>4
<1> QED
  BY <1>2, <1>3, <1>4, <1>5, <1>6

\* One turn of the loop: either a record that passes is in hand and is no longer
\* left, or as many records are left as before, or none is.
LEMMA TurnRest ==
  ASSUME DiskType, NEW i, NEW R, NEW M, DiskRecs \subseteq R, NEW y \in Listed(Reads(i, R, M))
  PROVE  LET r == ReadTurn(y) IN
         /\ Rest(y) \in Seq(R)
         /\ ReadFrom(r.inst) \subseteq ReadFrom(y)
         /\ Clean(y) => /\ r.outcome = "row" => Rest(y) = <<r.inst.rec>> \o Rest(r.inst)
                        /\ r.outcome = "on" => Rest(y) = Rest(r.inst)
                        /\ r.outcome = "end" => Rest(y) = <<>>
<1> DEFINE r == ReadTurn(y)
<1>1. /\ y \in Reads(i, R, M) /\ y.files \in Seq(STRING) /\ y.files # Null
      /\ y.nffile_r \in DOMAIN disk \cup {Null} /\ y.pos \in Nat /\ y.rec \in R
  BY DEF Listed, Reads
<1>2. PICK all \in Seq(R) : all = AllMatching(y.files, y.filter)
  <2>1. \A p \in STRING : Matching(Entries(p), y.filter) \in Seq(R)
    BY RestTyped
  <2>2. AllMatching(y.files, y.filter) \in Seq(R)
    BY <1>1, <2>1, AllMatchingHead
  <2> QED
    BY <2>2
<1>3. PICK open \in Seq(R) : open = Matching(OpenRest(y), y.filter) /\ (y.nffile_r = Null => open = <<>>)
  <2>1. CASE y.nffile_r = Null
    <3>1. Matching(<<>>, y.filter) = <<>> /\ <<>> \in Seq(R)
      BY DEF Matching, FlattenSeq
    <3> QED
      BY <2>1, <3>1 DEF OpenRest
  <2>2. CASE y.nffile_r # Null
    <3>1. PICK k \in Nat \ {0} : k = y.pos + 1
      BY <1>1
    <3>2. OpenRest(y) = SubSeq(disk[y.nffile_r], k, Len(disk[y.nffile_r]))
      BY <2>2, <3>1 DEF OpenRest
    <3>3. Matching(SubSeq(disk[y.nffile_r], k, Len(disk[y.nffile_r])), y.filter) \in Seq(R)
      BY <1>1, <2>2, RestTyped
    <3> QED
      BY <2>2, <3>2, <3>3
  <2> QED
    BY <2>1, <2>2
<1>4. Rest(y) = open \o all /\ Rest(y) \in Seq(R)
  <2>1. open \o all \in Seq(R)
    BY ConcatProperties
  <2> QED
    BY <1>2, <1>3, <2>1 DEF Rest
<1>5. CASE y.nffile_r # Null /\ y.pos < Len(disk[y.nffile_r])
  <2> DEFINE entry == disk[y.nffile_r][y.pos + 1]
  <2>1. PICK rec : rec = IF entry.bad THEN y.rec ELSE entry.rec
    OBVIOUS
  <2>2. PICK z : z = [y EXCEPT !.pos = @ + 1, !.rec = rec]
    OBVIOUS
  <2>3. r = [inst |-> z, outcome |-> IF entry.croaks THEN "croak"
                                     ELSE IF Passes(y.filter, rec) THEN "row" ELSE "on"]
    BY <1>5, <2>1, <2>2 DEF ReadTurn
  <2> HIDE DEF entry
  <2>4. z.files = y.files /\ z.nffile_r = y.nffile_r /\ z.pos = y.pos + 1 /\ z.rec = rec /\ z.filter = y.filter
    BY <1>1, <2>2 DEF Reads
  <2>5. ReadFrom(r.inst) = ReadFrom(y)
    BY <2>3, <2>4 DEF ReadFrom
  <2>6. ASSUME Clean(y) PROVE Rest(y) = Passing(y.filter, rec) \o Rest(z) /\ rec \in R /\ Rest(z) \in Seq(R)
    <3>1. /\ entry.rec \in R
          /\ open = Passing(y.filter, entry.rec) \o Matching(OpenRest(z), y.filter)
      <4>1. PICK p, k, n : p = y.nffile_r /\ k = y.pos /\ n = Len(disk[y.nffile_r])
        OBVIOUS
      <4>2. OpenRest(y) = SubSeq(disk[p], k + 1, n) /\ OpenRest(z) = SubSeq(disk[p], (k + 1) + 1, n)
        BY <1>5, <2>4, <4>1 DEF OpenRest
      <4>3. /\ disk[p][k + 1].rec \in R
            /\ Matching(SubSeq(disk[p], k + 1, n), y.filter)
                 = Passing(y.filter, disk[p][k + 1].rec) \o Matching(SubSeq(disk[p], (k + 1) + 1, n), y.filter)
        BY <1>1, <1>5, <4>1, OpenRestIs
      <4>4. entry = disk[p][k + 1]
        BY <4>1 DEF entry
      <4> QED
        BY <1>3, <4>2, <4>3, <4>4
    <3>2. rec = entry.rec
      <4>1. y.nffile_r \in DOMAIN disk /\ y.nffile_r \in ReadFrom(y)
        BY <1>1, <1>5 DEF ReadFrom
      <4>2. y.pos + 1 \in DOMAIN disk[y.nffile_r]
        <5>1. Len(disk[y.nffile_r]) \in Nat /\ DOMAIN disk[y.nffile_r] = 1 .. Len(disk[y.nffile_r])
          BY <4>1 DEF DiskType
        <5> QED
          BY <1>1, <1>5, <5>1
      <4>3. ~ entry.bad
        BY <2>6, <4>1, <4>2 DEF Clean, entry
      <4> QED
        BY <2>1, <4>3
    <3>3. PICK p, m \in Seq(R) : p = Passing(y.filter, rec) /\ m = Matching(OpenRest(z), y.filter)
      <4>1. Passing(y.filter, rec) \in Seq(R)
        BY <3>1, <3>2 DEF Passing
      <4>2. PICK k \in Nat \ {0} : k = z.pos + 1
        BY <1>1, <2>4
      <4>3. OpenRest(z) = SubSeq(disk[y.nffile_r], k, Len(disk[y.nffile_r]))
        BY <1>5, <2>4, <4>2 DEF OpenRest
      <4>4. Matching(SubSeq(disk[y.nffile_r], k, Len(disk[y.nffile_r])), y.filter) \in Seq(R)
        BY <1>1, <1>5, RestTyped
      <4> QED
        BY <4>1, <4>3, <4>4
    <3>4. (p \o m) \o all = p \o (m \o all) /\ m \o all \in Seq(R)
      <4>1. (p \o m) \o all = p \o (m \o all)
        BY ConcatAssociative
      <4>2. m \o all \in Seq(R)
        BY ConcatProperties
      <4> QED
        BY <4>1, <4>2
    <3>5. Rest(z) = m \o all
      BY <1>2, <2>4, <3>3 DEF Rest
    <3>6. open = p \o m
      BY <1>3, <3>1, <3>2, <3>3
    <3>7. Rest(y) = p \o Rest(z)
      BY <1>4, <3>4, <3>5, <3>6
    <3> QED
      BY <3>1, <3>2, <3>3, <3>4, <3>5, <3>7
  <2>7. ASSUME Clean(y) PROVE /\ r.outcome = "row" => Rest(y) = <<r.inst.rec>> \o Rest(r.inst)
                              /\ r.outcome = "on" => Rest(y) = Rest(r.inst)
                              /\ r.outcome # "end"
    <3>1. CASE Passes(y.filter, rec)
      BY <2>3, <2>4, <2>6, <2>7, <3>1 DEF Passing
    <3>2. CASE ~ Passes(y.filter, rec)
      <4>1. r.outcome \in {"on", "croak"} /\ r.inst = z
        BY <2>3, <3>2
      <4>2. Rest(y) = <<>> \o Rest(z) /\ Rest(z) \in Seq(R)
        BY <2>6, <2>7, <3>2 DEF Passing
      <4>3. <<>> \o Rest(z) = Rest(z)
        BY <4>2, ConcatEmptySeq
      <4> QED
        BY <4>1, <4>2, <4>3
    <3> QED
      BY <3>1, <3>2
  <2> QED
    BY <1>4, <2>5, <2>7
<1>6. CASE ~ (y.nffile_r # Null /\ y.pos < Len(disk[y.nffile_r]))
  <2>1. PICK j : j = [y EXCEPT !.nffile_r = Null, !.pos = 0]
    OBVIOUS
  <2>2. j \in [files : {y.files}, nffile_r : {Null}, pos : {0}, nffile_w : {i.nffile_w},
               written : {i.written}, filter : {y.filter}, field_list : {i.field_list}, mem : M, rec : R]
    BY <1>1, <2>1 DEF Reads
  <2>3. Rest(y) = all
    <3>1. open = <<>>
      <4>1. CASE y.nffile_r = Null
        BY <1>3, <4>1
      <4>2. CASE y.nffile_r # Null
        <5>1. Len(disk[y.nffile_r]) \in Nat
          BY <1>1, <4>2 DEF DiskType
        <5>2. PICK m, n \in Int : m = y.pos + 1 /\ n = Len(disk[y.nffile_r]) /\ n < m
          <6>1. PICK l \in Nat : l = Len(disk[y.nffile_r]) /\ ~ (y.pos < l)
            BY <1>6, <4>2, <5>1
          <6>2. y.pos + 1 \in Int /\ l < y.pos + 1
            BY <1>1, <6>1
          <6> QED
            BY <6>1, <6>2
        <5>3. SubSeq(disk[y.nffile_r], m, n) = <<>>
          BY <5>2, SubSeqEmpty
        <5>4. OpenRest(y) = <<>>
          BY <4>2, <5>2, <5>3 DEF OpenRest
        <5>5. Matching(<<>>, y.filter) = <<>>
          BY DEF Matching, FlattenSeq
        <5> QED
          BY <1>3, <5>4, <5>5
      <4> QED
        BY <4>1, <4>2
    <3>2. <<>> \o all = all
      BY ConcatEmptySeq
    <3> QED
      BY <1>4, <3>1, <3>2
  <2>4. CASE y.files = <<>>
    <3>1. r = [inst |-> [j EXCEPT !.files = Null], outcome |-> "end"]
      BY <1>1, <1>6, <2>1, <2>4 DEF ReadTurn
    <3>2. ReadFrom(r.inst) = {}
      BY <2>2, <3>1 DEF ReadFrom
    <3>3. all = <<>>
      BY <1>2, <2>4 DEF AllMatching, FlattenSeq
    <3> QED
      BY <1>4, <2>3, <3>1, <3>2, <3>3
  <2>5. CASE y.files # <<>> /\ Head(y.files) \notin DOMAIN disk
    <3>1. r = [inst |-> j, outcome |-> "croak"]
      BY <1>1, <1>6, <2>1, <2>5 DEF ReadTurn
    <3>2. ReadFrom(r.inst) \subseteq ReadFrom(y)
      BY <1>1, <2>2, <3>1 DEF ReadFrom
    <3> QED
      BY <1>4, <3>1, <3>2
  <2>6. CASE y.files # <<>> /\ Head(y.files) \in DOMAIN disk
    <3>1. PICK p \in STRING : p = Head(y.files) /\ p \in DOMAIN disk /\ p # Null /\ p \in Range(y.files)
      <4>1. Head(y.files) \in STRING /\ Head(y.files) = y.files[1] /\ 1 \in DOMAIN y.files
        BY <1>1, <2>6
      <4> QED
        BY <2>6, <4>1, NullIs DEF Range
    <3>2. PICK t \in Seq(STRING) : t = Tail(y.files) /\ Range(t) \subseteq Range(y.files) /\ t # Null
      <4>1. Tail(y.files) \in Seq(STRING)
        BY <1>1, <2>6, HeadTailProperties
      <4>2. Range(Tail(y.files)) \subseteq Range(y.files)
        <5>1. /\ Tail(y.files) \in Seq(STRING) /\ Len(Tail(y.files)) = Len(y.files) - 1
              /\ \A k \in 1 .. Len(Tail(y.files)) : Tail(y.files)[k] = y.files[k + 1]
          BY <1>1, <2>6, HeadTailProperties
        <5>2. DOMAIN Tail(y.files) = 1 .. Len(Tail(y.files)) /\ DOMAIN y.files = 1 .. Len(y.files) /\ Len(y.files) \in Nat
          BY <1>1, <5>1
        <5>3. \A k \in 1 .. Len(Tail(y.files)) : k + 1 \in DOMAIN y.files
          BY <5>1, <5>2
        <5>4. \A k \in DOMAIN Tail(y.files) : Tail(y.files)[k] \in Range(y.files)
          BY <5>1, <5>2, <5>3 DEF Range
        <5> QED
          BY <5>4 DEF Range
      <4> QED
        BY <4>1, <4>2, NullIs
    <3>3. PICK z : z = [j EXCEPT !.nffile_r = p, !.files = t]
      OBVIOUS
    <3>4. r = [inst |-> z, outcome |-> "on"]
      BY <1>1, <1>6, <2>1, <2>6, <3>1, <3>2, <3>3 DEF ReadTurn, RestOfFiles
    <3>5. z.files = t /\ z.nffile_r = p /\ z.pos = 0 /\ z.filter = y.filter
      BY <2>2, <3>3
    <3>6. ReadFrom(z) \subseteq ReadFrom(y)
      BY <1>1, <3>1, <3>2, <3>5 DEF ReadFrom
    <3>7. OpenRest(z) = Entries(p)
      <4>1. OpenRest(z) = SubSeq(disk[p], 1, Len(disk[p]))
        BY <3>1, <3>5 DEF OpenRest
      <4>2. disk[p] \in Seq(Range(disk[p]))
        BY <3>1 DEF DiskType
      <4>3. SubSeq(disk[p], 1, Len(disk[p])) = disk[p]
        BY <4>2, SubSeqFull
      <4> QED
        BY <3>1, <4>1, <4>3 DEF Entries
    <3>8. AllMatching(y.files, y.filter) = Matching(Entries(p), y.filter) \o AllMatching(t, y.filter)
      <4>1. \A q \in STRING : Matching(Entries(q), y.filter) \in Seq(R)
        BY RestTyped
      <4>2. AllMatching(y.files, y.filter) = Matching(Entries(Head(y.files)), y.filter) \o AllMatching(Tail(y.files), y.filter)
        BY <1>1, <2>6, <4>1, AllMatchingHead
      <4> QED
        BY <3>1, <3>2, <4>2
    <3>9. Rest(z) = Rest(y)
      BY <1>2, <2>3, <3>5, <3>7, <3>8 DEF Rest
    <3> QED
      BY <1>4, <3>4, <3>6, <3>9
  <2> QED
    BY <2>4, <2>5, <2>6
<1> QED
  BY <1>5, <1>6
-----------------------------------------------------------------------------
\* How what is answered, after some turns or at the end of the loop, goes on from x.
RowAnswer(x, r) ==
  /\ ReadFrom(r.inst) \subseteq ReadFrom(x)
  /\ r.outcome = "on" => Todo(r.inst) <= Todo(x) /\ (Clean(x) => Rest(x) = Rest(r.inst))
  /\ r.outcome = "row" => Todo(r.inst) < Todo(x) /\ (Clean(x) => Rest(x) = <<r.inst.rec>> \o Rest(r.inst))
  /\ r.outcome = "end" => (Clean(x) => Rest(x) = <<>>)

\* The loop of ReadRow as a function
LEMMA RowTurning ==
  ASSUME DiskType, NEW i, NEW R, NEW M, DiskRecs \subseteq R, NEW x \in Listed(Reads(i, R, M))
  PROVE  LET Y == Reads(i, R, M)
             X == {y \in Listed(Y) : RowAnswer(x, [inst |-> y, outcome |-> "on"])}
             Z == {r \in Answers(Y) : RowAnswer(x, r)}
         IN /\ Turning([y \in X |-> ReadTurn(y)], [y \in X |-> Todo(y)], X, Z)
            /\ x \in X /\ [inst |-> x, outcome |-> "on"] \in Z
            /\ Todo(x) \in Nat /\ Turns(x) \in Nat /\ Todo(x) < Turns(x)
<1> DEFINE Y == Reads(i, R, M)
           X == {y \in Listed(Y) : RowAnswer(x, [inst |-> y, outcome |-> "on"])}
           Z == {r \in Answers(Y) : RowAnswer(x, r)}
<1>1. ASSUME NEW y \in Listed(Y) PROVE Todo(y) \in Nat /\ Turns(y) \in Nat /\ Todo(y) < Turns(y)
  <2>1. y.files \in Seq(STRING) /\ y.nffile_r \in DOMAIN disk \cup {Null} /\ y.pos \in Nat
    BY DEF Listed, Reads
  <2> QED
    BY <2>1, TodoIs
<1>2. x \in X /\ [inst |-> x, outcome |-> "on"] \in Z
  <2>1. RowAnswer(x, [inst |-> x, outcome |-> "on"])
    BY <1>1 DEF RowAnswer
  <2>2. [inst |-> x, outcome |-> "on"] \in Answers(Y)
    <3> HIDE DEF Y
    <3>1. x \in Listed(Y)
      BY DEF Y
    <3> QED
      BY <3>1 DEF Answers, Outcomes, Listed
  <2> QED
    BY <2>1, <2>2
<1>3. ASSUME NEW y \in X
      PROVE  /\ Todo(y) \in Nat /\ ReadTurn(y) \in Z
             /\ ReadTurn(y).outcome = "on" => ReadTurn(y).inst \in X /\ Todo(ReadTurn(y).inst) < Todo(y)
  <2>1. y \in Listed(Y) /\ RowAnswer(x, [inst |-> y, outcome |-> "on"])
    OBVIOUS
  <2>2. PICK r : r = ReadTurn(y)
    OBVIOUS
  <2>3. r \in Answers(Y) /\ (r.outcome \in {"on", "row"} => Todo(r.inst) < Todo(y))
    BY <2>1, <2>2, ReadTurnIs
  <2>4. /\ ReadFrom(r.inst) \subseteq ReadFrom(y)
        /\ Clean(y) => /\ r.outcome = "row" => Rest(y) = <<r.inst.rec>> \o Rest(r.inst)
                       /\ r.outcome = "on" => Rest(y) = Rest(r.inst)
                       /\ r.outcome = "end" => Rest(y) = <<>>
    BY <2>1, <2>2, TurnRest
  <2>5. /\ ReadFrom(y) \subseteq ReadFrom(x) /\ Todo(y) <= Todo(x)
        /\ Clean(x) => Clean(y) /\ Rest(x) = Rest(y)
    BY <2>1 DEF RowAnswer, Clean
  <2>6. r.outcome \in {"on", "row"} => r.inst \in Listed(Y) /\ Todo(r.inst) \in Nat /\ Todo(r.inst) < Todo(x)
    <3>1. r.outcome \in {"on", "row"} => r.inst \in Listed(Y)
      <4> HIDE DEF Y
      <4> QED
        BY <2>3 DEF Answers, Listed
    <3>2. \A z \in Listed(Y) : Todo(z) \in Nat
      BY <1>1
    <3>3. \A a, b, c \in Nat : a < b /\ b <= c => a < c
      OBVIOUS
    <3> HIDE DEF Y, X
    <3> QED
      BY <2>1, <2>3, <2>5, <3>1, <3>2, <3>3 DEF Y
  <2>7. RowAnswer(x, r)
    <3>1. \A a, b \in Nat : a < b => a <= b
      OBVIOUS
    <3>2. Todo(x) \in Nat
      BY <1>1
    <3> HIDE DEF Y, X
    <3> QED
      BY <2>4, <2>5, <2>6, <3>1, <3>2 DEF RowAnswer
  <2>8. r.outcome = "on" => r.inst \in X
    <3>1. r.outcome = "on" => RowAnswer(x, [inst |-> r.inst, outcome |-> "on"])
      BY <2>7 DEF RowAnswer
    <3> QED
      BY <2>6, <3>1
  <2> QED
    BY <1>1, <2>1, <2>2, <2>3, <2>7, <2>8
<1>4. Turning([y \in X |-> ReadTurn(y)], [y \in X |-> Todo(y)], X, Z)
  <2> HIDE DEF X, Z
  <2> QED
    BY <1>3 DEF Turning
<1> QED
  BY <1>1, <1>2, <1>4

\* The loop of ReadRow as it is written
LEMMA ReadRowLoop ==
  ASSUME NEW X, NEW Z, NEW m, NEW x \in X, Turning([y \in X |-> ReadTurn(y)], m, X, Z),
         [inst |-> x, outcome |-> "on"] \in Z, Turns(x) \in Nat, m[x] < Turns(x)
  PROVE  ReadRow(x) \in Z /\ ReadRow(x).outcome # "on"
<1> DEFINE T == [y \in X |-> ReadTurn(y)]
           N == Turns(x)
           IsTurn(g) ==
             g = [n \in 0 .. N |-> IF n = 0 THEN [inst |-> x, outcome |-> "on"]
                                   ELSE IF g[n - 1].outcome = "on" THEN ReadTurn(g[n - 1].inst) ELSE g[n - 1]]
<1>1. ASSUME NEW k, NEW r \in After(k, x, m, X, Z), r.outcome = "on" PROVE T[r.inst] = ReadTurn(r.inst)
  BY <1>1 DEF After
<1>2. \E g : IsTurn(g)
  <2>1. PICK g : Loop(g, N, x, T) /\ \A k \in 0 .. N : g[k] \in After(k, x, m, X, Z)
    <3> HIDE DEF N
    <3> QED
      BY LoopExists DEF N
  <2>2. \A n \in 0 .. N : n # 0 =>
          (IF g[n - 1].outcome = "on" THEN T[g[n - 1].inst] ELSE g[n - 1])
            = IF g[n - 1].outcome = "on" THEN ReadTurn(g[n - 1].inst) ELSE g[n - 1]
    <3>1. \A n \in 0 .. N : n # 0 => n - 1 \in 0 .. N
      OBVIOUS
    <3> HIDE DEF T, N
    <3> QED
      BY <1>1, <2>1, <3>1
  <2> HIDE DEF T, N
  <2> QED
    BY <2>1, <2>2 DEF Loop
<1> DEFINE g == CHOOSE h : IsTurn(h)
<1>3. IsTurn(g) /\ ReadRow(x) = g[N]
  <2>1. ReadRow(x) = g[N]
    BY DEF ReadRow
  <2> HIDE DEF IsTurn
  <2> QED
    BY <1>2, <2>1
<1>4. /\ g[0] = [inst |-> x, outcome |-> "on"]
      /\ \A k \in 1 .. N : g[k] = IF g[k - 1].outcome = "on" THEN ReadTurn(g[k - 1].inst) ELSE g[k - 1]
  <2>1. 0 \in 0 .. N /\ \A k \in 1 .. N : k \in 0 .. N /\ k # 0
    OBVIOUS
  <2> HIDE DEF g, N
  <2> QED
    BY <1>3, <2>1
<1>5. \A k \in 1 .. N : g[k - 1] \in After(k - 1, x, m, X, Z) =>
        g[k] = IF g[k - 1].outcome = "on" THEN T[g[k - 1].inst] ELSE g[k - 1]
  <2> HIDE DEF g, N, T
  <2> QED
    BY <1>1, <1>4
<1>6. g[N] \in Z /\ g[N].outcome # "on"
  <2> HIDE DEF g, N
  <2> QED
    BY <1>4, <1>5, LoopEnds DEF N
<1> QED
  <2> HIDE DEF g, N
  <2> QED
    BY <1>3, <1>6

\* libnf_read_row_files ends: with a record after having made some way, or with
\* the list at its end, or at a file it cannot open, the list in hand.
LEMMA ReadRowIs ==
  ASSUME DiskType, NEW i, NEW R, NEW M, DiskRecs \subseteq R, NEW x \in Listed(Reads(i, R, M))
  PROVE  ReadRow(x) \in Answers(Reads(i, R, M)) /\ ReadRow(x).outcome # "on" /\ RowAnswer(x, ReadRow(x))
<1> DEFINE Y == Reads(i, R, M)
           X == {y \in Listed(Y) : RowAnswer(x, [inst |-> y, outcome |-> "on"])}
           Z == {r \in Answers(Y) : RowAnswer(x, r)}
           m == [y \in X |-> Todo(y)]
<1>1. /\ Turning([y \in X |-> ReadTurn(y)], m, X, Z)
      /\ x \in X /\ [inst |-> x, outcome |-> "on"] \in Z
      /\ Todo(x) \in Nat /\ Turns(x) \in Nat /\ Todo(x) < Turns(x)
  BY RowTurning
<1>2. m[x] = Todo(x)
  BY <1>1
<1>3. ReadRow(x) \in Z /\ ReadRow(x).outcome # "on"
  <2> HIDE DEF X, Z, m
  <2> QED
    BY <1>1, <1>2, ReadRowLoop
<1> QED
  BY <1>3

\* What is left is a sequence of records.
LEMMA RestIsSeq ==
  ASSUME DiskType, NEW i, NEW R, NEW M, DiskRecs \subseteq R, NEW x \in Listed(Reads(i, R, M))
  PROVE  Rest(x) \in Seq(R)
BY TurnRest

\* How what is answered, after some turns or at the end of the loop, has gone on
\* from x: what is written in the heap is no longer left.
FillAnswer(x, r) ==
  /\ ReadFrom(r.inst) \subseteq ReadFrom(x)
  /\ r.outcome # "row"
  /\ r.outcome = "on" =>
       /\ Todo(r.inst) <= Todo(x)
       /\ Clean(x) => x.mem.written \o Rest(x) = r.inst.mem.written \o Rest(r.inst)
  /\ r.outcome = "end" => (Clean(x) => r.inst.mem.written = x.mem.written \o Rest(x))

\* A record for the heap
LEMMA FillTurnIs ==
  ASSUME DiskType, NEW i, NEW R, NEW mem, DiskRecs \subseteq R, NEW y \in Listed(Reads(i, R, Heaps(mem, R)))
  PROVE  /\ FillTurn(y) \in Answers(Reads(i, R, Heaps(mem, R))) /\ FillAnswer(y, FillTurn(y))
         /\ FillTurn(y).outcome = "on" => Todo(FillTurn(y).inst) < Todo(y)
<1> DEFINE Y == Reads(i, R, Heaps(mem, R))
<1>1. /\ y \in Y /\ y.files # Null /\ y.mem \in Heaps(mem, R)
      /\ y \in Listed(Reads(i, R, {y.mem})) /\ Reads(i, R, {y.mem}) \subseteq Y
  BY DEF Listed, Reads
<1>2. PICK r : r = ReadRow(y)
  OBVIOUS
<1>3. r \in Answers(Reads(i, R, {y.mem})) /\ r.outcome # "on" /\ RowAnswer(y, r)
  BY <1>1, <1>2, ReadRowIs
<1>4. CASE r.outcome = "row"
  <2>1. PICK x \in Listed(Reads(i, R, {y.mem})) : x = r.inst
    BY <1>3, <1>4 DEF Answers, Listed
  <2>2. /\ x \in Y /\ x.files # Null /\ x.rec \in R /\ x.mem = y.mem
        /\ ReadFrom(x) \subseteq ReadFrom(y) /\ Todo(x) < Todo(y)
        /\ Clean(y) => Rest(y) = <<x.rec>> \o Rest(x)
    <3>1. x \in Y /\ x.files # Null /\ x.rec \in R /\ x.mem = y.mem
      BY <1>1 DEF Listed, Reads
    <3> QED
      BY <1>3, <1>4, <2>1, <3>1 DEF RowAnswer
  <2>3. PICK b \in Seq(R) : b = y.mem.written
    BY <1>1 DEF Heaps
  <2>4. PICK w \in Seq(R) : w = Append(b, x.rec) /\ w = b \o <<x.rec>>
    <3>1. PICK c \in R : c = x.rec
      BY <2>2
    <3>2. Append(b, c) \in Seq(R) /\ Append(b, c) = b \o <<c>>
      BY AppendProperties, AppendIsConcat
    <3> QED
      BY <3>1, <3>2
  <2>5. PICK h \in Heaps(mem, R) : h = [x.mem EXCEPT !.written = w] /\ h.written = w
    <3>1. PICK old \in Heaps(mem, R) : old = x.mem
      BY <1>1, <2>2
    <3>2. [old EXCEPT !.written = w] \in Heaps(mem, R) /\ [old EXCEPT !.written = w].written = w
      BY DEF Heaps
    <3> QED
      BY <3>1, <3>2
  <2>6. PICK z : z = [x EXCEPT !.mem = h]
    OBVIOUS
  <2>7. /\ z \in Y /\ z.files = x.files /\ z.nffile_r = x.nffile_r /\ z.pos = x.pos
        /\ z.filter = x.filter /\ z.mem = h
    BY <2>2, <2>5, <2>6 DEF Reads
  <2>8. FillTurn(y) = [inst |-> z, outcome |-> "on"]
    <3>1. FillTurn(y) = [inst |-> [r.inst EXCEPT !.mem.written = Append(@, r.inst.rec)], outcome |-> "on"]
      BY <1>2, <1>4 DEF FillTurn
    <3>2. z = [x EXCEPT !.mem.written = Append(@, x.rec)]
      BY <2>2, <2>3, <2>4, <2>5, <2>6 DEF Reads
    <3> QED
      BY <2>1, <3>1, <3>2
  <2>9. Todo(z) = Todo(x) /\ ReadFrom(z) = ReadFrom(x) /\ Rest(z) = Rest(x)
    BY <2>7 DEF Todo, Left, ReadFrom, Rest, OpenRest
  <2>10. ASSUME Clean(y) PROVE y.mem.written \o Rest(y) = z.mem.written \o Rest(z)
    <3>1. PICK s \in Seq(R) : s = Rest(x)
      BY <2>1, RestIsSeq
    <3>2. PICK e \in Seq(R) : e = <<x.rec>>
      <4>1. <<x.rec>> \in Seq(R)
        BY <2>2
      <4> QED
        BY <4>1
    <3>3. (b \o e) \o s = b \o (e \o s)
      BY ConcatAssociative
    <3> QED
      BY <2>2, <2>3, <2>4, <2>5, <2>7, <2>9, <2>10, <3>1, <3>2, <3>3
  <2>11. Todo(z) <= Todo(y) /\ Todo(z) < Todo(y)
    <3>1. \A t \in {x, y} : Todo(t) \in Nat
      <4>1. \A t \in {x, y} : t.files \in Seq(STRING) /\ t.nffile_r \in DOMAIN disk \cup {Null} /\ t.pos \in Nat
        BY <1>1, <2>2 DEF Reads
      <4> QED
        BY <4>1, TodoIs
    <3>2. \A a, b2 \in Nat : a < b2 => a <= b2
      OBVIOUS
    <3> QED
      BY <2>2, <2>9, <3>1, <3>2
  <2>12. [inst |-> z, outcome |-> "on"] \in Answers(Y)
    <3> HIDE DEF Y
    <3> QED
      BY <2>2, <2>7 DEF Answers, Outcomes
  <2>13. FillAnswer(y, [inst |-> z, outcome |-> "on"])
    BY <2>2, <2>9, <2>10, <2>11 DEF FillAnswer
  <2> QED
    BY <2>8, <2>11, <2>12, <2>13
<1>5. CASE r.outcome # "row"
  <2>1. FillTurn(y) = r
    BY <1>2, <1>5 DEF FillTurn
  <2>2. r \in Answers(Y)
    <3> HIDE DEF Y
    <3> QED
      BY <1>1, <1>3 DEF Answers
  <2>3. r.outcome = "end" => (Clean(y) => r.inst.mem.written = y.mem.written \o Rest(y))
    <3>1. r.inst.mem = y.mem
      BY <1>3 DEF Answers, Reads
    <3>2. PICK b \in Seq(R) : b = y.mem.written
      BY <1>1 DEF Heaps
    <3>3. b \o <<>> = b
      BY ConcatEmptySeq
    <3> QED
      BY <1>3, <3>1, <3>2, <3>3 DEF RowAnswer
  <2>4. FillAnswer(y, r)
    BY <1>3, <1>5, <2>3 DEF FillAnswer, RowAnswer
  <2> QED
    BY <1>3, <2>1, <2>2, <2>4
<1> QED
  BY <1>4, <1>5

\* The loop of FillMem as a function
LEMMA FillTurning ==
  ASSUME DiskType, NEW i, NEW R, NEW mem, DiskRecs \subseteq R, NEW x \in Listed(Reads(i, R, Heaps(mem, R)))
  PROVE  LET Y == Reads(i, R, Heaps(mem, R))
             X == {y \in Listed(Y) : FillAnswer(x, [inst |-> y, outcome |-> "on"])}
             Z == {r \in Answers(Y) : FillAnswer(x, r)}
         IN /\ Turning([y \in X |-> FillTurn(y)], [y \in X |-> Todo(y)], X, Z)
            /\ x \in X /\ [inst |-> x, outcome |-> "on"] \in Z
            /\ Todo(x) \in Nat /\ Turns(x) \in Nat /\ Todo(x) < Turns(x)
<1> DEFINE Y == Reads(i, R, Heaps(mem, R))
           X == {y \in Listed(Y) : FillAnswer(x, [inst |-> y, outcome |-> "on"])}
           Z == {r \in Answers(Y) : FillAnswer(x, r)}
<1>1. ASSUME NEW y \in Listed(Y) PROVE Todo(y) \in Nat /\ Turns(y) \in Nat /\ Todo(y) < Turns(y)
  <2>1. y.files \in Seq(STRING) /\ y.nffile_r \in DOMAIN disk \cup {Null} /\ y.pos \in Nat
    BY DEF Listed, Reads
  <2> QED
    BY <2>1, TodoIs
<1>2. x \in X /\ [inst |-> x, outcome |-> "on"] \in Z
  <2>1. FillAnswer(x, [inst |-> x, outcome |-> "on"])
    BY <1>1 DEF FillAnswer
  <2>2. [inst |-> x, outcome |-> "on"] \in Answers(Y)
    <3> HIDE DEF Y
    <3>1. x \in Listed(Y)
      BY DEF Y
    <3> QED
      BY <3>1 DEF Answers, Outcomes, Listed
  <2> QED
    BY <2>1, <2>2
<1>3. ASSUME NEW y \in X
      PROVE  /\ Todo(y) \in Nat /\ FillTurn(y) \in Z
             /\ FillTurn(y).outcome = "on" => FillTurn(y).inst \in X /\ Todo(FillTurn(y).inst) < Todo(y)
  <2>1. y \in Listed(Y) /\ FillAnswer(x, [inst |-> y, outcome |-> "on"])
    OBVIOUS
  <2>2. PICK r : r = FillTurn(y)
    OBVIOUS
  <2>3. r \in Answers(Y) /\ FillAnswer(y, r) /\ (r.outcome = "on" => Todo(r.inst) < Todo(y))
    BY <2>1, <2>2, FillTurnIs
  <2>4. /\ ReadFrom(y) \subseteq ReadFrom(x) /\ Todo(y) <= Todo(x)
        /\ Clean(x) => Clean(y) /\ x.mem.written \o Rest(x) = y.mem.written \o Rest(y)
    BY <2>1 DEF FillAnswer, Clean
  <2>5. r.outcome = "on" => r.inst \in Listed(Y) /\ Todo(r.inst) <= Todo(x)
    <3>1. r.outcome = "on" => r.inst \in Listed(Y)
      <4> HIDE DEF Y
      <4> QED
        BY <2>3 DEF Answers, Listed
    <3>2. \A z \in Listed(Y) : Todo(z) \in Nat
      BY <1>1
    <3>3. \A a, b, c \in Nat : a < b /\ b <= c => a <= c
      OBVIOUS
    <3> HIDE DEF Y, X
    <3> QED
      BY <2>1, <2>3, <2>4, <3>1, <3>2, <3>3 DEF Y
  <2>6. FillAnswer(x, r)
    BY <2>3, <2>4, <2>5 DEF FillAnswer
  <2>7. r.outcome = "on" => r.inst \in X
    <3>1. r.outcome = "on" => FillAnswer(x, [inst |-> r.inst, outcome |-> "on"])
      BY <2>6 DEF FillAnswer
    <3> QED
      BY <2>5, <3>1
  <2> QED
    BY <1>1, <2>1, <2>2, <2>3, <2>6, <2>7
<1>4. Turning([y \in X |-> FillTurn(y)], [y \in X |-> Todo(y)], X, Z)
  <2> HIDE DEF X, Z
  <2> QED
    BY <1>3 DEF Turning
<1> QED
  BY <1>1, <1>2, <1>4

\* The loop of FillMem as it is written
LEMMA FillMemLoop ==
  ASSUME NEW X, NEW Z, NEW m, NEW x \in X, Turning([y \in X |-> FillTurn(y)], m, X, Z),
         [inst |-> x, outcome |-> "on"] \in Z, Turns(x) \in Nat, m[x] < Turns(x)
  PROVE  FillMem(x) \in Z /\ FillMem(x).outcome # "on"
<1> DEFINE T == [y \in X |-> FillTurn(y)]
           N == Turns(x)
           IsTurn(g) ==
             g = [n \in 0 .. N |-> IF n = 0 THEN [inst |-> x, outcome |-> "on"]
                                   ELSE IF g[n - 1].outcome = "on" THEN FillTurn(g[n - 1].inst) ELSE g[n - 1]]
<1>1. ASSUME NEW k, NEW r \in After(k, x, m, X, Z), r.outcome = "on" PROVE T[r.inst] = FillTurn(r.inst)
  BY <1>1 DEF After
<1>2. \E g : IsTurn(g)
  <2>1. PICK g : Loop(g, N, x, T) /\ \A k \in 0 .. N : g[k] \in After(k, x, m, X, Z)
    <3> HIDE DEF N
    <3> QED
      BY LoopExists DEF N
  <2>2. \A n \in 0 .. N : n # 0 =>
          (IF g[n - 1].outcome = "on" THEN T[g[n - 1].inst] ELSE g[n - 1])
            = IF g[n - 1].outcome = "on" THEN FillTurn(g[n - 1].inst) ELSE g[n - 1]
    <3>1. \A n \in 0 .. N : n # 0 => n - 1 \in 0 .. N
      OBVIOUS
    <3> HIDE DEF T, N
    <3> QED
      BY <1>1, <2>1, <3>1
  <2> HIDE DEF T, N
  <2> QED
    BY <2>1, <2>2 DEF Loop
<1> DEFINE g == CHOOSE h : IsTurn(h)
<1>3. IsTurn(g) /\ FillMem(x) = g[N]
  <2>1. FillMem(x) = g[N]
    BY DEF FillMem
  <2> HIDE DEF IsTurn
  <2> QED
    BY <1>2, <2>1
<1>4. /\ g[0] = [inst |-> x, outcome |-> "on"]
      /\ \A k \in 1 .. N : g[k] = IF g[k - 1].outcome = "on" THEN FillTurn(g[k - 1].inst) ELSE g[k - 1]
  <2>1. 0 \in 0 .. N /\ \A k \in 1 .. N : k \in 0 .. N /\ k # 0
    OBVIOUS
  <2> HIDE DEF g, N
  <2> QED
    BY <1>3, <2>1
<1>5. \A k \in 1 .. N : g[k - 1] \in After(k - 1, x, m, X, Z) =>
        g[k] = IF g[k - 1].outcome = "on" THEN T[g[k - 1].inst] ELSE g[k - 1]
  <2> HIDE DEF g, N, T
  <2> QED
    BY <1>1, <1>4
<1>6. g[N] \in Z /\ g[N].outcome # "on"
  <2> HIDE DEF g, N
  <2> QED
    BY <1>4, <1>5, LoopEnds DEF N
<1> QED
  <2> HIDE DEF g, N
  <2> QED
    BY <1>3, <1>6

\* The heap is filled: with the list at its end, or up to a file that cannot be opened.
LEMMA FillMemIs ==
  ASSUME DiskType, NEW i, NEW R, NEW mem, DiskRecs \subseteq R, NEW x \in Listed(Reads(i, R, Heaps(mem, R)))
  PROVE  /\ FillMem(x) \in Answers(Reads(i, R, Heaps(mem, R)))
         /\ FillMem(x).outcome # "on" /\ FillAnswer(x, FillMem(x))
<1> DEFINE Y == Reads(i, R, Heaps(mem, R))
           X == {y \in Listed(Y) : FillAnswer(x, [inst |-> y, outcome |-> "on"])}
           Z == {r \in Answers(Y) : FillAnswer(x, r)}
           m == [y \in X |-> Todo(y)]
<1>1. /\ Turning([y \in X |-> FillTurn(y)], m, X, Z)
      /\ x \in X /\ [inst |-> x, outcome |-> "on"] \in Z
      /\ Todo(x) \in Nat /\ Turns(x) \in Nat /\ Todo(x) < Turns(x)
  BY FillTurning
<1>2. m[x] = Todo(x)
  BY <1>1
<1>3. FillMem(x) \in Z /\ FillMem(x).outcome # "on"
  <2> HIDE DEF X, Z, m
  <2> QED
    BY <1>1, <1>2, FillMemLoop
<1> QED
  BY <1>3
-----------------------------------------------------------------------------
(***************************************************************************)
(* What there is                                                           *)
(***************************************************************************)
IsObject(x) ==
  /\ x \in [state : {"none", "open", "closed"}, handle : Handles, opts : {x.opts}, fields : {x.fields},
             read_prepared : BOOLEAN, write_prepared : BOOLEAN]
  /\ x.state # "none" => x.opts \in Options

Histories == DOMAIN given = Objects /\ DOMAIN base = Objects /\ DOMAIN tainted = Objects

PerlType ==
  /\ obj = [o \in Objects |-> obj[o]] /\ \A o \in Objects : IsObject(obj[o])
  /\ instances = [h \in InUse |-> instances[h]] /\ \A h \in InUse : IsInstance(instances[h]) /\ Reading(instances[h])
  /\ DiskType /\ Histories
  /\ alive \in BOOLEAN /\ unopened \in BOOLEAN /\ abused \in BOOLEAN

\* An object that may fetch rows has them, or a list of files, even when the list
\* is empty; one that may store rows has a file for them.
Owners ==
  ~ abused =>
    /\ \A o \in Objects : \/ ~ Open(o) /\ ~ obj[o].read_prepared /\ ~ obj[o].write_prepared
                          \/ /\ Open(o) /\ Has(o)
                             /\ obj[o].read_prepared => Instance(o).mem.there \/ Instance(o).files # Null
                             /\ obj[o].write_prepared => Instance(o).nffile_w # Null \/ unopened
    /\ \A o, p \in Objects : Open(o) /\ Open(p) /\ obj[o].handle = obj[p].handle => o = p
    /\ \A h \in InUse : \E o \in Objects : Open(o) /\ obj[o].handle = h
    /\ alive \/ unopened

\* The record in hand is a cleared one or the one that was cloned, unless the
\* object has read rows itself or a row was bad.
Upon ==
  ~ abused => \A o \in Objects : Open(o) => /\ Instance(o).written = given[o]
                                            /\ ~ tainted[o] => Instance(o).rec = base[o]
-----------------------------------------------------------------------------
(***************************************************************************)
(* What reading makes of an instance                                       *)
(***************************************************************************)

\* Of an instance that reads, what it has written and where to stay.
Kept(i, j) == IsInstance(j) /\ Reading(j) /\ j.nffile_w = i.nffile_w /\ j.written = i.written

\* An instance is one of those it may become by reading.
LEMMA IsRead ==
  ASSUME NEW i, IsInstance(i), Reading(i), NEW R, NEW M, i.rec \in R, i.mem \in M
  PROVE  i \in Reads(i, R, M)
BY DEF IsInstance, Reading, Reads

\* What it may become by reading is an instance.
LEMMA ReadIs ==
  ASSUME NEW i, IsInstance(i), NEW R, NEW M, NEW j \in Reads(i, R, M), IsMem(j.mem)
  PROVE  Kept(i, j)
BY DEF IsInstance, Reading, Reads, Kept

\* A record is read from the list.
RowsGoOn(i, r) ==
  /\ Kept(i, r.inst)
  /\ r.outcome \in {"row", "end", "croak"}
  /\ r.outcome # "end" => r.inst.files # Null /\ Rest(r.inst) \in Seq(DiskRecs \cup {i.rec})
  /\ r.inst.mem = i.mem /\ r.inst.field_list = i.field_list /\ r.inst.filter = i.filter
  /\ RowAnswer(i, r)

LEMMA RowRead ==
  ASSUME DiskType, NEW i, IsInstance(i), Reading(i), i.files # Null, NEW r, r = ReadRow(i)
  PROVE  RowsGoOn(i, r)
<1> USE DEF RowsGoOn
<1> DEFINE R == DiskRecs \cup {i.rec}
           Y == Reads(i, R, {i.mem})
<1>1. i \in Listed(Y)
  BY IsRead DEF Listed
<1>2. r \in Answers(Y) /\ r.outcome # "on" /\ RowAnswer(i, r)
  <2> HIDE DEF R
  <2> QED
    BY <1>1, ReadRowIs DEF R
<1>3. r.inst \in Y
  <2> HIDE DEF Y
  <2> QED
    BY <1>2 DEF Answers
<1>4. r.inst.mem = i.mem /\ r.inst.field_list = i.field_list /\ r.inst.filter = i.filter
  <2> QED
    BY <1>3 DEF Reads
<1>5. Kept(i, r.inst)
  <2>1. IsMem(i.mem)
    BY DEF IsInstance
  <2> HIDE DEF R
  <2> QED
    BY <1>3, <1>4, <2>1, ReadIs
<1>6. r.outcome # "end" => r.inst.files # Null /\ Rest(r.inst) \in Seq(R)
  <2>1. r.outcome # "end" => r.inst \in Listed(Y)
    <3> HIDE DEF Y
    <3> QED
      BY <1>2 DEF Answers, Listed
  <2>2. DiskRecs \subseteq R
    OBVIOUS
  <2>3. r.outcome # "end" => r.inst.files # Null
    <3> HIDE DEF Y
    <3> QED
      BY <2>1 DEF Listed
  <2> HIDE DEF R
  <2> QED
    BY <2>1, <2>2, <2>3, RestIsSeq
<1>7. r.outcome \in {"row", "end", "croak"}
  <2> HIDE DEF Y
  <2> QED
    BY <1>2 DEF Answers, Outcomes
<1> HIDE DEF Y
<1> QED
  BY <1>2, <1>4, <1>5, <1>6, <1>7

\* The heap is filled from the list.
LEMMA MemFilled ==
  ASSUME DiskType, NEW i, IsInstance(i), Reading(i), i.files # Null
  PROVE  LET r == FillMem(i) IN
         /\ Kept(i, r.inst)
         /\ r.outcome \in {"end", "croak"}
         /\ r.inst.mem \in Heaps(i.mem, Range(r.inst.mem.written)) /\ r.inst.mem.there = i.mem.there
         /\ r.inst.field_list = i.field_list
         /\ FillAnswer(i, r)
<1> DEFINE R == DiskRecs \cup {i.rec} \cup Range(i.mem.written)
           Y == Reads(i, R, Heaps(i.mem, R))
           r == FillMem(i)
<1>1. i \in Listed(Y)
  <2>1. i.mem \in Heaps(i.mem, Range(i.mem.written))
    BY DEF IsInstance, IsMem
  <2>2. i.mem \in Heaps(i.mem, R)
    <3>1. i.mem.written \in Seq(R)
      <4>1. i.mem.written \in Seq(Range(i.mem.written)) /\ Range(i.mem.written) \subseteq R
        BY <2>1 DEF Heaps
      <4> HIDE DEF R
      <4> QED
        BY <4>1
    <3> HIDE DEF R
    <3> QED
      BY <2>1, <3>1 DEF Heaps
  <2> QED
    BY <2>2, IsRead DEF Listed
<1>2. r \in Answers(Y) /\ r.outcome # "on" /\ FillAnswer(i, r)
  <2>1. DiskRecs \subseteq R
    OBVIOUS
  <2> HIDE DEF r, R
  <2> QED
    BY <1>1, <2>1, FillMemIs DEF r
<1>3. r.inst \in Y
  <2> HIDE DEF Y, r
  <2> QED
    BY <1>2 DEF Answers
<1>4. /\ Kept(i, r.inst)
      /\ r.inst.mem \in Heaps(i.mem, Range(r.inst.mem.written)) /\ r.inst.mem.there = i.mem.there
      /\ r.inst.field_list = i.field_list
  <2>1. PICK m \in Heaps(i.mem, R) : m = r.inst.mem
    <3> HIDE DEF R, r
    <3> QED
      BY <1>3 DEF Reads
  <2>2. m.written \in Seq(Range(m.written)) /\ m.there = i.mem.there /\ i.mem.there \in BOOLEAN
    <3>1. m.written \in Seq(R)
      BY <2>1 DEF Heaps
    <3> HIDE DEF R
    <3> QED
      BY <2>1, <3>1, SeqOfRange DEF Heaps, IsInstance, IsMem
  <2>3. IsMem(m) /\ m \in Heaps(i.mem, Range(m.written))
    <3> HIDE DEF R
    <3> QED
      BY <2>1, <2>2 DEF IsMem, Heaps
  <2>4. r.inst.field_list = i.field_list
    <3> HIDE DEF R, r
    <3> QED
      BY <1>3 DEF Reads
  <2> HIDE DEF r, R
  <2> QED
    BY <1>3, <2>1, <2>2, <2>3, <2>4, ReadIs
<1> HIDE DEF Y, r
<1> QED
  BY <1>2, <1>4 DEF Answers, Outcomes, FillAnswer, r

\* The records a query asks for
LEMMA AskedFor ==
  ASSUME DiskType, NEW files \in Seq(STRING), NEW filter
  PROVE  AllMatching(files, filter) \in Seq(DiskRecs) /\ IsSeq(AllMatching(files, filter))
<1>1. PICK R : R = DiskRecs
  OBVIOUS
<1>2. \A p \in STRING : Matching(Entries(p), filter) \in Seq(R)
  BY <1>1, RestTyped
<1>3. PICK s \in Seq(R) : s = AllMatching(files, filter)
  <2>1. AllMatching(files, filter) \in Seq(R)
    BY <1>2, AllMatchingHead
  <2> QED
    BY <2>1
<1> QED
  BY <1>1, <1>3, SeqOfRange DEF IsSeq

\* No record of the files is bad.
AllGood(files) == \A p \in Range(files) \cap DOMAIN disk : \A k \in DOMAIN disk[p] : ~ disk[p][k].bad

\* What a query makes of an instance i with, by then, the heap m: it has a list,
\* of which every record is left, or all of them in the heap.
Asked(i, opts, fields, m, q) ==
  /\ Kept(i, q.inst)
  /\ q.outcome # "killed"
  /\ q.inst.mem.there \/ q.inst.files # Null
  /\ ReadFrom(q.inst) \subseteq Range(opts.files)
  /\ q.inst.field_list = Names(fields)
  /\ q.inst.mem \in Heaps(m, Range(q.inst.mem.written)) /\ q.inst.mem.there = m.there
  /\ ~ m.there => q.inst.mem = m /\ q.inst.files # Null
  /\ q.outcome = "end" /\ AllGood(opts.files) =>
       /\ m.there => q.inst.mem.written = m.written \o AllMatching(opts.files, opts.filter)
       /\ ~ m.there => Clean(q.inst) /\ Rest(q.inst) = AllMatching(opts.files, opts.filter)

LEMMA FilesRead ==
  ASSUME DiskType, NEW i, IsInstance(i), NEW opts \in Options, NEW fields,
         NEW q, q = ReadFiles(i, opts, fields), NEW m, m = WithFields(i.mem, opts, fields)
  PROVE  Asked(i, opts, fields, m, q)
<1> USE DEF Asked
<1> DEFINE j == [i EXCEPT !.mem = WithFields(@, opts, fields), !.field_list = Names(fields),
                          !.files = opts.files, !.nffile_r = Null, !.pos = 0, !.filter = "any"]
           k == [j EXCEPT !.filter = opts.filter]
           all == AllMatching(opts.files, opts.filter)
<1>1. opts.files \in Seq(STRING) /\ opts.files # Null
  BY PerlAssumption, NullIs
<1>2. IsMem(m)
  <2>1. IsMem(i.mem)
    BY DEF IsInstance
  <2>2. CASE HeapFields(opts, fields) = {}
    BY <2>1, <2>2 DEF WithFields
  <2>3. CASE HeapFields(opts, fields) # {}
    <3> DEFINE addrs == {l \in HeapFields(opts, fields) : fields[l].name = "a"}
               bits == IF addrs = {} THEN i.mem.bits ELSE fields[Max(addrs)].bits
               sum == i.mem.sum \/ \E l \in HeapFields(opts, fields) : fields[l].name = "n"
               list == i.mem.list \/ ~ opts.aggreg
               h == [i.mem EXCEPT !.there = TRUE, !.bits = bits, !.sum = sum, !.list = list]
    <3>1. WithFields(i.mem, opts, fields) = h
      BY <2>3, <2>1 DEF WithFields, IsMem, Heaps
    <3> HIDE DEF bits, sum, list
    <3>2. IsMem(h)
      BY <2>1 DEF IsMem, Heaps
    <3> QED
      BY <3>1, <3>2
  <2> QED
    BY <2>2, <2>3
<1>3. PICK names : names = Names(fields)
  OBVIOUS
<1>4. /\ Kept(i, j) /\ j.files = opts.files /\ j.mem = m /\ j.nffile_r = Null /\ j.field_list = names
      /\ Kept(i, k) /\ k.files = opts.files /\ k.mem = m /\ k.nffile_r = Null /\ k.field_list = names
      /\ k.filter = opts.filter
  <2>1. j = [i EXCEPT !.mem = m, !.field_list = names, !.files = opts.files, !.nffile_r = Null,
                      !.pos = 0, !.filter = "any"]
    BY <1>2, <1>3
  <2>2. Kept(i, j) /\ j.files = opts.files /\ j.mem = m /\ j.nffile_r = Null /\ j.field_list = names
    <3> HIDE DEF j
    <3> QED
      BY <1>1, <1>2, <2>1 DEF Kept, IsInstance, Reading
  <2> HIDE DEF j
  <2>3. /\ Kept(i, k) /\ k.files = opts.files /\ k.mem = m /\ k.nffile_r = Null /\ k.field_list = names
        /\ k.filter = opts.filter
    BY <2>2 DEF Kept, IsInstance, Reading
  <2> QED
    BY <2>2, <2>3
<1>5. \/ q = [inst |-> j, outcome |-> "croak"]
      \/ m.there /\ q = FillMem(k)
      \/ q = [inst |-> k, outcome |-> "end"] /\ ~ m.there
  <2>1. q = CASE opts.filter = "broken" -> [inst |-> j, outcome |-> "croak"]
              [] j.mem.there -> FillMem(k)
              [] OTHER -> [inst |-> k, outcome |-> "end"]
    BY DEF ReadFiles
  <2> HIDE DEF j, k
  <2> QED
    BY <1>4, <2>1
<1>6. ReadFrom(j) = Range(opts.files) /\ ReadFrom(k) = Range(opts.files)
  <2> HIDE DEF j, k
  <2> QED
    BY <1>1, <1>4 DEF ReadFrom
<1>7. Rest(k) = all /\ (AllGood(opts.files) => Clean(k))
  <2>1. PICK s \in Seq(DiskRecs) : s = all
    <3>1. AllMatching(opts.files, opts.filter) \in Seq(DiskRecs)
      BY <1>1, AskedFor
    <3> QED
      BY <3>1
  <2>2. <<>> \o s = s
    BY ConcatEmptySeq
  <2>3. OpenRest(k) = <<>> /\ \A f : Matching(<<>>, f) = <<>>
    <3> HIDE DEF k
    <3> QED
      BY <1>4 DEF OpenRest, Matching, FlattenSeq
  <2>4. Clean(k) <=> AllGood(opts.files)
    <3> HIDE DEF k
    <3> QED
      BY <1>6 DEF Clean, AllGood
  <2> HIDE DEF k
  <2> QED
    BY <1>4, <2>1, <2>2, <2>3, <2>4 DEF Rest
<1>8. CASE m.there /\ q = FillMem(k)
  <2>1. IsInstance(k) /\ Reading(k) /\ k.files # Null
    BY <1>1, <1>4 DEF Kept
  <2>2. /\ Kept(k, q.inst)
        /\ q.outcome \in {"end", "croak"}
        /\ q.inst.mem \in Heaps(k.mem, Range(q.inst.mem.written)) /\ q.inst.mem.there = k.mem.there
        /\ q.inst.field_list = k.field_list
        /\ FillAnswer(k, q)
    <3> HIDE DEF k
    <3> QED
      BY <1>8, <2>1, MemFilled
  <2> HIDE DEF k, all
  <2> QED
    BY <1>2, <1>3, <1>4, <1>6, <1>7, <1>8, <2>2 DEF Kept, FillAnswer, all
<1>9. CASE q = [inst |-> j, outcome |-> "croak"] \/ (q = [inst |-> k, outcome |-> "end"] /\ ~ m.there)
  <2>1. m \in Heaps(m, Range(m.written))
    BY <1>2 DEF IsMem
  <2>2. CASE q = [inst |-> j, outcome |-> "croak"]
    <3>1. q.inst = j /\ q.outcome = "croak"
      <4> HIDE DEF j
      <4> QED
        BY <2>2
    <3> HIDE DEF j, k, all
    <3> QED
      BY <1>1, <1>2, <1>3, <1>4, <1>6, <2>1, <3>1 DEF all
  <2>3. CASE q = [inst |-> k, outcome |-> "end"] /\ ~ m.there
    <3>1. q.inst = k /\ q.outcome = "end"
      <4> HIDE DEF k
      <4> QED
        BY <2>3
    <3> HIDE DEF j, k, all
    <3> QED
      BY <1>1, <1>2, <1>3, <1>4, <1>6, <1>7, <2>1, <2>3, <3>1 DEF all
  <2> QED
    BY <1>9, <2>2, <2>3
<1> QED
  BY <1>5, <1>8, <1>9
-----------------------------------------------------------------------------
(***************************************************************************)
(* Rows                                                                    *)
(***************************************************************************)
IsFields(fields) == fields \in Seq([name : STRING, bits : Nat])

\* The fields a heap is looked at with
Plain(fields) == \A k \in DOMAIN fields : fields[k].name \in {"a", "n"}

LEMMA FieldsAre ==
  ASSUME NEW fields, IsFields(fields)
  PROVE  /\ Len(fields) \in Nat /\ DOMAIN fields = 1 .. Len(fields)
         /\ \A k \in DOMAIN fields : fields[k] \in [name : STRING, bits : Nat]
<1>1. PICK F : F = [name : STRING, bits : Nat]
  OBVIOUS
<1>2. fields \in Seq(F)
  BY <1>1 DEF IsFields
<1>3. Len(fields) \in Nat /\ DOMAIN fields = 1 .. Len(fields) /\ \A k \in DOMAIN fields : fields[k] \in F
  BY <1>2
<1> QED
  BY <1>1, <1>3

\* Fields keep their names when they lose their numbers of bits.
LEMMA StrippedIs ==
  ASSUME NEW fields, IsFields(fields)
  PROVE  /\ Names(Stripped(fields)) = Names(fields)
         /\ Stripped(Stripped(fields)) = Stripped(fields)
<1>1. \A k \in DOMAIN fields : fields[k] \in [name : STRING, bits : Nat]
  BY FieldsAre
<1>2. /\ DOMAIN Stripped(fields) = DOMAIN fields
      /\ \A k \in DOMAIN fields : Stripped(fields)[k] = [fields[k] EXCEPT !.bits = AddrBits]
  BY DEF Stripped
<1>3. \A k \in DOMAIN fields :
        /\ Stripped(fields)[k].name = fields[k].name
        /\ [Stripped(fields)[k] EXCEPT !.bits = AddrBits] = Stripped(fields)[k]
  BY <1>1, <1>2
<1>4. Names(Stripped(fields)) = Names(fields)
  BY <1>2, <1>3 DEF Names
<1>5. Stripped(Stripped(fields)) = Stripped(fields)
  <2>1. Stripped(Stripped(fields)) = [k \in DOMAIN fields |-> [Stripped(fields)[k] EXCEPT !.bits = AddrBits]]
    BY <1>2 DEF Stripped
  <2>2. Stripped(Stripped(fields)) = [k \in DOMAIN fields |-> Stripped(fields)[k]]
    BY <1>3, <2>1
  <2>3. Stripped(fields) = [k \in DOMAIN fields |-> Stripped(fields)[k]]
    BY DEF Stripped
  <2> QED
    BY <2>2, <2>3
<1> QED
  BY <1>4, <1>5

\* The row of the record in hand
LEMMA RowIs ==
  ASSUME NEW i, NEW fields, i.field_list = Names(fields)
  PROVE  Row(i) = Projected(i.rec, fields)
BY DEF Row, Projected, Names

\* The heap of a sound query has the number of bits that was asked for, and the
\* sum when it was asked for.
LEMMA HeapOfFields ==
  ASSUME NEW opts, opts.aggreg, IsFields(opts.fields), \A b, c \in BitsOf(opts.fields) : b = c,
         NEW m, m = WithFields(NoMem, opts, opts.fields), m.there
  PROVE  m.written = <<>> /\ m.returned = {} /\ HeapFor(m, opts.fields)
<1> USE DEF HeapFor
<1> DEFINE fields == opts.fields
           addrs == {k \in DOMAIN fields : fields[k].name = "a"}
           bits == IF addrs = {} THEN Null ELSE fields[Max(addrs)].bits
           sum == \E k \in DOMAIN fields : fields[k].name = "n"
<1>1. HeapFields(opts, fields) = DOMAIN fields
  BY DEF HeapFields
<1>2. DOMAIN fields # {}
  BY <1>1 DEF WithFields, NoMem
<1>3. m = [NoMem EXCEPT !.there = TRUE, !.bits = bits, !.sum = sum, !.list = FALSE]
  BY <1>1, <1>2 DEF WithFields, NoMem
<1>4. /\ m.written = <<>> /\ m.returned = {} /\ ~ m.list /\ m.bits = bits /\ (sum => m.sum)
  <2> HIDE DEF bits, sum
  <2> QED
    BY <1>3 DEF NoMem
<1>5. BitsOf(fields) = {fields[k].bits : k \in addrs}
  BY DEF BitsOf
<1>6. CASE addrs = {}
  <2>1. bits = Null /\ BitsOf(fields) = {}
    BY <1>5, <1>6
  <2> QED
    BY <1>4, <2>1
<1>7. CASE addrs # {}
  <2>1. addrs \subseteq 1 .. Len(fields) /\ Len(fields) \in Nat
    BY FieldsAre
  <2>2. Max(addrs) \in addrs
    <3>1. IsFiniteSet(addrs) /\ addrs \subseteq Nat
      <4>1. IsFiniteSet(1 .. Len(fields))
        BY <2>1, FS_Interval
      <4>2. \A S : S \subseteq 1 .. Len(fields) => IsFiniteSet(S)
        BY <4>1, FS_Subset
      <4>3. 1 .. Len(fields) \subseteq Nat
        BY <2>1
      <4> HIDE DEF addrs
      <4> QED
        BY <2>1, <4>2, <4>3
    <3>2. PICK g \in addrs : \A y \in addrs : y <= g
      <4> HIDE DEF addrs
      <4> QED
        BY <1>7, <3>1, NatGreatest
    <3>3. \E x \in addrs : \A y \in addrs : x >= y
      <4>1. \A x, y \in Nat : y <= x => x >= y
        OBVIOUS
      <4> HIDE DEF addrs
      <4> QED
        BY <3>1, <3>2, <4>1
    <3> HIDE DEF addrs
    <3> QED
      BY <3>3 DEF Max
  <2>3. PICK k \in addrs : k = Max(addrs)
    <3> HIDE DEF addrs
    <3> QED
      BY <2>2
  <2>4. fields[k].bits \in Nat /\ fields[k].bits # Null
    <3>1. fields[k] \in [name : STRING, bits : Nat]
      BY FieldsAre
    <3> QED
      BY <3>1, PerlAssumption
  <2>5. m.bits = fields[k].bits
    <3> HIDE DEF addrs, fields
    <3> QED
      BY <1>4, <1>7, <2>3
  <2>6. BitsOf(fields) = {fields[k].bits}
    <3>1. fields[k].bits \in BitsOf(fields)
      BY <1>5
    <3> HIDE DEF addrs
    <3> QED
      BY <3>1
  <2> QED
    BY <1>4, <2>4, <2>5, <2>6
<1> QED
  BY <1>6, <1>7

\* A class of records, and the row that is made of it.
LEMMA ClassIs ==
  ASSUME NEW m, ~ m.list, NEW class \in Classes(m)
  PROVE  \E k \in class : /\ k \in DOMAIN m.written /\ class = Class(m, k)
                          /\ (CHOOSE l \in class : TRUE) = k
<1>1. PICK k \in DOMAIN m.written : class = Class(m, k)
  BY DEF Classes
<1>2. k \in class
  BY <1>1 DEF Class
<1>3. PICK l \in class : l = CHOOSE x \in class : TRUE
  BY <1>2
<1>4. l \in DOMAIN m.written /\ Class(m, l) = Class(m, k)
  BY <1>1 DEF Class
<1> QED
  BY <1>1, <1>3, <1>4

\* The row of a class
LEMMA RowOfIs ==
  ASSUME NEW m, NEW class, NEW k, (CHOOSE l \in class : TRUE) = k
  PROVE  /\ RowOf(m, class).a = IF m.bits = Null THEN 0 ELSE Masked(m.bits, m.written[k].a)
         /\ RowOf(m, class).n = IF m.sum THEN SumOf(m.written, class) ELSE 0
<1> DEFINE row(l) == [Rec0 EXCEPT !.a = IF m.bits = Null THEN 0 ELSE Masked(m.bits, m.written[l].a),
                                  !.n = IF m.sum THEN SumOf(m.written, class) ELSE 0]
<1>1. RowOf(m, class) = row(CHOOSE l \in class : TRUE)
  BY DEF RowOf
<1>2. RowOf(m, class) = row(k)
  <2> HIDE DEF row
  <2> QED
    BY <1>1
<1> QED
  BY <1>2 DEF Rec0

\* Two classes have two rows.
LEMMA RowsDiffer ==
  ASSUME NEW m, NEW fields, HeapFor(m, fields),
         NEW c \in Classes(m), NEW d \in Classes(m),
         Projected(RowOf(m, c), fields) = Projected(RowOf(m, d), fields)
  PROVE  c = d
<1> USE DEF HeapFor
<1>1. PICK k \in c : k \in DOMAIN m.written /\ c = Class(m, k) /\ (CHOOSE x \in c : TRUE) = k
  BY ClassIs
<1>2. PICK l \in d : l \in DOMAIN m.written /\ d = Class(m, l) /\ (CHOOSE x \in d : TRUE) = l
  BY ClassIs
<1>3. CASE m.bits = Null
  BY <1>1, <1>2, <1>3 DEF Class
<1>4. CASE m.bits # Null
  <2>1. PICK f \in DOMAIN fields : fields[f].name = "a"
    <3>1. m.bits \in BitsOf(fields)
      BY <1>4
    <3> QED
      BY <3>1 DEF BitsOf
  <2>2. Projected(RowOf(m, c), fields)[f] = RowOf(m, c).a /\ Projected(RowOf(m, d), fields)[f] = RowOf(m, d).a
    BY <2>1 DEF Projected
  <2>3. RowOf(m, c).a = Masked(m.bits, m.written[k].a)
    BY <1>1, <1>4, RowOfIs
  <2>4. RowOf(m, d).a = Masked(m.bits, m.written[l].a)
    BY <1>2, <1>4, RowOfIs
  <2>5. Masked(m.bits, m.written[k].a) = Masked(m.bits, m.written[l].a)
    BY <2>2, <2>3, <2>4
  <2> QED
    BY <1>1, <1>2, <1>4, <2>5 DEF Class
<1> QED
  BY <1>3, <1>4

\* The row of a class is the total of its records.
LEMMA RowIsTotal ==
  ASSUME NEW o, NEW m, m.written = wanted[o], HeapFor(m, obj[o].opts.fields), Plain(obj[o].opts.fields),
         NEW class \in Classes(m), NEW r \in class
  PROVE  Projected(RowOf(m, class), obj[o].opts.fields) = Total(o, wanted[o][r])
<1> USE DEF HeapFor, Plain
<1>1. PICK fields, records : fields = obj[o].opts.fields /\ records = wanted[o]
  OBVIOUS
<1>2. PICK k \in class : k \in DOMAIN records /\ class = Class(m, k) /\ (CHOOSE x \in class : TRUE) = k
  BY <1>1, ClassIs
<1>3. r \in DOMAIN records /\ Class(m, r) = class
  BY <1>1, <1>2 DEF Class
<1>4. Group(o, records[r]) = class
  <2>1. Group(o, records[r]) =
          {l \in DOMAIN records : \A b \in BitsOf(fields) : Masked(b, records[l].a) = Masked(b, records[r].a)}
    BY <1>1 DEF Group
  <2>2. class = {l \in DOMAIN records : m.bits = Null \/ Masked(m.bits, records[l].a) = Masked(m.bits, records[r].a)}
    BY <1>1, <1>3 DEF Class
  <2>3. CASE m.bits = Null
    BY <1>1, <2>1, <2>2, <2>3
  <2>4. CASE m.bits # Null
    <3>1. BitsOf(fields) = {m.bits}
      BY <1>1, <2>4
    <3> QED
      BY <2>1, <2>2, <2>4, <3>1
  <2> QED
    BY <2>3, <2>4
<1> DEFINE bits == BitsOf(fields)
           t == [a |-> IF bits = {} THEN records[r].a ELSE Masked(CHOOSE b \in bits : TRUE, records[r].a),
                 n |-> SumOf(records, Group(o, records[r]))]
<1>5. Total(o, records[r]) = Projected(t, fields)
  BY <1>1 DEF Total
<1>6. ASSUME NEW f \in DOMAIN fields PROVE RowOf(m, class)[fields[f].name] = t[fields[f].name]
  <2>1. CASE fields[f].name = "a"
    <3>1. m.bits # Null /\ bits = {m.bits}
      <4>1. fields[f].bits \in BitsOf(fields)
        BY <2>1 DEF BitsOf
      <4> QED
        BY <1>1, <4>1
    <3>2. t.a = Masked(m.bits, records[r].a)
      BY <3>1
    <3>3. RowOf(m, class).a = Masked(m.bits, records[k].a)
      BY <1>1, <1>2, <3>1, RowOfIs
    <3>4. Masked(m.bits, records[k].a) = Masked(m.bits, records[r].a)
      BY <1>1, <1>2, <3>1 DEF Class
    <3> QED
      BY <2>1, <3>2, <3>3, <3>4
  <2>2. CASE fields[f].name = "n"
    <3>1. RowOf(m, class).n = SumOf(records, class)
      BY <1>1, <1>2, <2>2, RowOfIs
    <3>2. t.n = SumOf(records, class)
      BY <1>4
    <3> HIDE DEF t
    <3> QED
      BY <2>2, <3>1, <3>2
  <2> QED
    BY <1>1, <2>1, <2>2
<1>7. Projected(RowOf(m, class), fields) = Projected(t, fields)
  <2> HIDE DEF t
  <2> QED
    BY <1>6 DEF Projected
<1> QED
  BY <1>1, <1>5, <1>7

\* One row more
OneMore(rows, row, all) ==
  /\ IsSeq(all) /\ Range(all) = Range(rows) \cup {row}
  /\ IsInjective(rows) /\ row \notin Range(rows) => IsInjective(all)
  /\ Len(rows) \in Nat /\ Len(all) = Len(rows) + 1
  /\ \A k \in 1 .. Len(rows) : all[k] = rows[k]
  /\ all[Len(rows) + 1] = row
  /\ DOMAIN rows = 1 .. Len(rows) /\ all = [k \in 1 .. Len(rows) + 1 |-> all[k]]

LEMMA RowAppended ==
  ASSUME NEW rows, IsSeq(rows), NEW row, NEW all, all = Append(rows, row)
  PROVE  OneMore(rows, row, all)
<1> USE DEF OneMore
<1>1. PICK W : W = Range(rows) \cup {row}
  OBVIOUS
<1>2. PICK s \in Seq(W) : s = rows
  <2>1. PICK V : V = Range(rows)
    OBVIOUS
  <2>2. rows \in Seq(V) /\ V \subseteq W
    BY <1>1, <2>1 DEF IsSeq
  <2>3. rows \in Seq(W)
    BY <2>2
  <2> QED
    BY <2>3
<1>3. PICK n \in Nat : n = Len(s) /\ DOMAIN s = 1 .. n
  BY <1>2
<1>4. PICK t \in Seq(W) : t = Append(s, row)
  <2>1. row \in W
    BY <1>1
  <2>2. Append(s, row) \in Seq(W)
    BY <2>1, AppendProperties
  <2> QED
    BY <2>2
<1>5. /\ Len(t) = n + 1 /\ DOMAIN t = 1 .. n + 1 /\ t[n + 1] = row /\ \A k \in 1 .. n : t[k] = s[k]
      /\ t = [k \in 1 .. n + 1 |-> t[k]]
  <2>1. row \in W
    BY <1>1
  <2>2. Len(t) = n + 1 /\ t[n + 1] = row /\ \A k \in 1 .. n : t[k] = s[k]
    BY <1>3, <1>4, <2>1, AppendProperties
  <2> QED
    BY <1>3, <2>2
<1>6. \A k \in 1 .. n + 1 : k \in 1 .. n \/ k = n + 1
  BY <1>3
<1>7. 1 .. n \subseteq 1 .. n + 1 /\ n + 1 \in 1 .. n + 1
  BY <1>3
<1>8. Range(t) = Range(s) \cup {row}
  BY <1>3, <1>5, <1>6, <1>7 DEF Range
<1>9. t \in Seq(Range(t))
  BY <1>4, SeqOfRange
<1>10. IsInjective(s) /\ row \notin Range(s) => IsInjective(t)
  <2> SUFFICES ASSUME IsInjective(s), row \notin Range(s), NEW a \in DOMAIN t, NEW b \in DOMAIN t, t[a] = t[b]
               PROVE  a = b
    BY DEF IsInjective
  <2>1. \A k \in 1 .. n : t[k] # row
    BY <1>3, <1>5 DEF Range
  <2>2. CASE a \in 1 .. n /\ b \in 1 .. n
    BY <1>3, <1>5, <2>2 DEF IsInjective
  <2>3. CASE ~ (a \in 1 .. n /\ b \in 1 .. n)
    <3>1. a = n + 1 \/ b = n + 1
      BY <1>5, <1>6, <2>3
    <3> QED
      BY <1>5, <1>6, <2>1, <3>1
  <2> QED
    BY <2>2, <2>3
<1> QED
  BY <1>2, <1>3, <1>4, <1>5, <1>8, <1>9, <1>10 DEF IsSeq

\* The first of the records that are left, and the others
LEMMA LeftIs ==
  ASSUME NEW R, NEW s \in Seq(R), NEW n \in 0 .. Len(s), NEW e \in R, NEW t \in Seq(R),
         SubSeq(s, n + 1, Len(s)) = <<e>> \o t
  PROVE  n < Len(s) /\ n + 1 \in 1 .. Len(s) /\ s[n + 1] = e /\ t = SubSeq(s, (n + 1) + 1, Len(s))
<1>1. PICK l \in Nat : l = Len(s) /\ n \in Nat /\ n <= l
  OBVIOUS
<1>2. PICK u \in Seq(R) : /\ u = <<e>> \o t /\ Len(u) = Len(t) + 1 /\ Len(t) \in Nat /\ u # <<>>
                         /\ u[1] = e /\ \A k \in 1 .. Len(t) : u[k + 1] = t[k]
  <2>1. PICK v \in Seq(R) : v = <<e>> /\ Len(v) = 1 /\ v[1] = e
    <3>1. <<e>> \in Seq(R) /\ Len(<<e>>) = 1 /\ <<e>>[1] = e
      OBVIOUS
    <3> QED
      BY <3>1
  <2>2. v \o t \in Seq(R) /\ Len(v \o t) = Len(v) + Len(t)
    BY ConcatProperties
  <2>3. PICK u \in Seq(R) : u = v \o t
    BY <2>2
  <2>4. Len(t) \in Nat
    OBVIOUS
  <2>5. Len(u) = Len(t) + 1 /\ Len(u) # 0
    BY <2>1, <2>2, <2>3, <2>4
  <2>6. u # <<>>
    BY <2>5
  <2>7. \A k \in 1 .. Len(v) + Len(t) : u[k] = IF k <= Len(v) THEN v[k] ELSE t[k - Len(v)]
    BY <2>3, ConcatProperties
  <2>8. 1 \in 1 .. Len(v) + Len(t) /\ 1 <= Len(v)
    BY <2>1, <2>4
  <2>9. \A k \in 1 .. Len(t) : k + 1 \in 1 .. Len(v) + Len(t) /\ ~ (k + 1 <= Len(v)) /\ (k + 1) - Len(v) = k
    BY <2>1, <2>4
  <2>10. u[1] = e
    BY <2>1, <2>7, <2>8
  <2>11. \A k \in 1 .. Len(t) : u[k + 1] = t[k]
    BY <2>7, <2>9
  <2> QED
    BY <2>1, <2>3, <2>4, <2>5, <2>6, <2>10, <2>11
<1>3. Head(u) = e /\ Tail(u) = t
  <2>1. /\ Tail(u) \in Seq(R) /\ Len(Tail(u)) = Len(u) - 1
        /\ \A k \in 1 .. Len(Tail(u)) : Tail(u)[k] = u[k + 1]
    BY <1>2, HeadTailProperties
  <2>2. Head(u) = u[1]
    BY <1>2
  <2>3. Len(Tail(u)) = Len(t)
    BY <1>2, <2>1
  <2>4. Tail(u) = t
    BY <1>2, <2>1, <2>3, SeqEqual
  <2> QED
    BY <1>2, <2>2, <2>4
<1>4. n < l
  <2> SUFFICES ASSUME ~ (n < l) PROVE FALSE
    OBVIOUS
  <2>1. PICK m \in Int : m = n + 1 /\ l < m
    BY <1>1
  <2>2. SubSeq(s, m, l) = <<>>
    BY <1>1, <2>1, SubSeqEmpty
  <2> QED
    BY <1>1, <1>2, <2>1, <2>2
<1>5. PICK m \in 1 .. Len(s) : m = n + 1 /\ l \in m .. Len(s)
  BY <1>1, <1>4
<1>6. Head(SubSeq(s, m, l)) = s[m] /\ Tail(SubSeq(s, m, l)) = SubSeq(s, m + 1, l)
  BY <1>5, HeadTailOfSubSeq
<1> QED
  BY <1>1, <1>2, <1>3, <1>4, <1>5, <1>6

\* When nothing is left, all have been given.
LEMMA NoneLeft ==
  ASSUME NEW R, NEW s \in Seq(R), NEW n \in Nat, n <= Len(s), SubSeq(s, n + 1, Len(s)) = <<>>
  PROVE  n = Len(s)
<1>1. PICK l \in Nat : l = Len(s)
  OBVIOUS
<1> SUFFICES ASSUME n < l PROVE FALSE
  BY <1>1
<1>2. PICK m \in Int : m = n + 1 /\ m <= l /\ m \in 1 .. l
  BY <1>1
<1>3. \A k \in m .. l : s[k] \in R
  BY <1>1, <1>2
<1>4. Len(SubSeq(s, m, l)) = l - m + 1 /\ l - m + 1 # 0
  BY <1>1, <1>2, <1>3, SubSeqProperties
<1>5. SubSeq(s, m, l) = <<>> /\ Len(<<>>) = 0
  BY <1>1, <1>2
<1> QED
  BY <1>4, <1>5

-----------------------------------------------------------------------------
(***************************************************************************)
(* How a query goes on                                                     *)
(***************************************************************************)

\* No file is Null.
LEMMA NullUnread == ASSUME NEW i, IsInstance(i) PROVE Null \notin ReadFrom(i)
<1>1. i.files # Null => i.files \in Seq(STRING)
  BY DEF IsInstance
<1>2. i.files # Null => Range(i.files) \subseteq STRING
  BY <1>1 DEF Range
<1> QED
  BY <1>2, NullIs DEF ReadFrom

\* What is left depends on the files alone,
LEMMA SameRest ==
  ASSUME NEW i, NEW j, j.files = i.files, j.nffile_r = i.nffile_r, j.pos = i.pos, j.filter = i.filter
  PROVE  ReadFrom(j) = ReadFrom(i) /\ (Clean(j) <=> Clean(i)) /\ Rest(j) = Rest(i)
<1>1. ReadFrom(j) = ReadFrom(i)
  BY DEF ReadFrom
<1>2. OpenRest(j) = OpenRest(i)
  BY DEF OpenRest
<1> QED
  BY <1>1, <1>2 DEF Clean, Rest

\* and not on a file that is not read.
SameFile(p) == (p \in DOMAIN disk' <=> p \in DOMAIN disk) /\ (p \in DOMAIN disk => disk'[p] = disk[p])

LEMMA SameDisk ==
  ASSUME NEW i, IsInstance(i), Reading(i), i.files # Null, \A p \in ReadFrom(i) : SameFile(p)
  PROVE  (Clean(i)' <=> Clean(i)) /\ Rest(i)' = Rest(i)
<1>1. i.nffile_r # Null => i.nffile_r \in DOMAIN disk /\ disk'[i.nffile_r] = disk[i.nffile_r]
  BY DEF Reading, ReadFrom, SameFile
<1>2. OpenRest(i)' = OpenRest(i)
  BY <1>1 DEF OpenRest
<1>3. \A p \in Range(i.files) : Entries(p)' = Entries(p)
  <2>1. Range(i.files) \subseteq ReadFrom(i)
    BY DEF ReadFrom
  <2> QED
    BY <2>1 DEF Entries, SameFile
<1>4. \A k \in DOMAIN i.files : Matching(Entries(i.files[k])', i.filter) = Matching(Entries(i.files[k]), i.filter)
  BY <1>3 DEF Range
<1>5. [k \in DOMAIN i.files |-> Matching(Entries(i.files[k])', i.filter)]
        = [k \in DOMAIN i.files |-> Matching(Entries(i.files[k]), i.filter)]
  BY <1>4
<1>6. AllMatching(i.files, i.filter)' = AllMatching(i.files, i.filter)
  <2>1. AllMatching(i.files, i.filter)'
          = FlattenSeq([k \in DOMAIN i.files |-> Matching(Entries(i.files[k])', i.filter)])
    BY DEF AllMatching
  <2> QED
    BY <1>5, <2>1 DEF AllMatching
<1>7. Rest(i)' = Rest(i)
  <2>1. Rest(i)' = Matching(OpenRest(i)', i.filter) \o AllMatching(i.files, i.filter)'
    BY DEF Rest
  <2> QED
    BY <1>2, <1>6, <2>1 DEF Rest
<1>8. Clean(i)' <=> Clean(i)
  <2>1. \A p \in ReadFrom(i) : /\ p \in DOMAIN disk' <=> p \in DOMAIN disk
                               /\ p \in DOMAIN disk => disk'[p] = disk[p]
    BY DEF SameFile
  <2>2. ReadFrom(i)' = ReadFrom(i)
    BY DEF ReadFrom
  <2> QED
    BY <2>1, <2>2 DEF Clean
<1> QED
  BY <1>7, <1>8

\* From the list, one row after the other, until all have been fetched
LEMMA ListGoesOn ==
  ASSUME DiskType, NEW i, IsInstance(i), Reading(i), NEW fields, i.field_list = Names(fields),
         NEW records, IsSeq(records), NEW rows, IsSeq(rows), ByList(i, fields, records, rows),
         NEW r, r = ReadRow(i)
  PROVE  /\ r.outcome = "row" => ByList(r.inst, fields, records, Append(rows, Row(r.inst)))
         /\ r.outcome = "end" => rows = [k \in DOMAIN records |-> Projected(records[k], fields)]
<1>0. RowsGoOn(i, r)
  <2>1. i.files # Null
    BY DEF ByList
  <2> QED
    BY <2>1, RowRead
<1>1. PICK n \in Nat : n = Len(rows)
  <2>1. OneMore(rows, Row(r.inst), Append(rows, Row(r.inst)))
    BY RowAppended
  <2> QED
    BY <2>1 DEF OneMore
<1>2. PICK R : /\ Range(records) \subseteq R /\ r.inst.rec \in R
               /\ r.outcome = "row" => Rest(r.inst) \in Seq(R)
  <2>1. PICK D : D = DiskRecs \cup {i.rec}
    OBVIOUS
  <2>2. r.outcome = "row" => Rest(r.inst) \in Seq(D)
    BY <1>0, <2>1 DEF RowsGoOn
  <2>3. PICK R : R = Range(records) \cup {r.inst.rec} \cup D
    OBVIOUS
  <2>4. Range(records) \subseteq R /\ r.inst.rec \in R /\ D \subseteq R
    BY <2>3
  <2>5. r.outcome = "row" => Rest(r.inst) \in Seq(R)
    BY <2>2, <2>4
  <2> QED
    BY <2>4, <2>5
<1>3. PICK s \in Seq(R) : s = records
  <2>1. PICK V : V = Range(records)
    OBVIOUS
  <2>2. records \in Seq(V) /\ V \subseteq R
    BY <1>2, <2>1 DEF IsSeq
  <2>3. records \in Seq(R)
    BY <2>2
  <2> QED
    BY <2>3
<1>4. /\ Clean(i) /\ n \in 0 .. Len(s) /\ n <= Len(s) /\ Rest(i) = SubSeq(s, n + 1, Len(s))
      /\ rows = [k \in 1 .. n |-> Projected(s[k], fields)] /\ DOMAIN s = 1 .. Len(s) /\ Len(s) \in Nat
  BY <1>1, <1>3 DEF ByList
<1>5. /\ r.inst.field_list = i.field_list /\ ReadFrom(r.inst) \subseteq ReadFrom(i)
      /\ r.outcome = "row" => r.inst.files # Null /\ Rest(i) = <<r.inst.rec>> \o Rest(r.inst)
      /\ r.outcome = "end" => Rest(i) = <<>>
  BY <1>0, <1>4 DEF RowAnswer, RowsGoOn
<1>6. CASE r.outcome = "row"
  <2>1. PICK t \in Seq(R), e \in R : t = Rest(r.inst) /\ e = r.inst.rec
    BY <1>2, <1>6
  <2>2. n < Len(s) /\ n + 1 \in 1 .. Len(s) /\ s[n + 1] = e /\ t = SubSeq(s, (n + 1) + 1, Len(s))
    <3>1. SubSeq(s, n + 1, Len(s)) = <<e>> \o t
      BY <1>4, <1>5, <1>6, <2>1
    <3> QED
      BY <1>4, <3>1, LeftIs
  <2>3. PICK row : row = Row(r.inst) /\ row = Projected(e, fields)
    BY <1>5, <2>1, RowIs
  <2>4. PICK all : all = Append(rows, row) /\ OneMore(rows, row, all)
    BY RowAppended
  <2>5. all = [k \in 1 .. n + 1 |-> Projected(s[k], fields)]
    <3>1. \A k \in 1 .. n + 1 : k \in 1 .. n \/ k = n + 1
      OBVIOUS
    <3>2. \A k \in 1 .. n + 1 : all[k] = Projected(s[k], fields)
      BY <1>1, <1>4, <2>2, <2>3, <2>4, <3>1 DEF OneMore
    <3>3. all = [k \in 1 .. n + 1 |-> all[k]]
      BY <1>1, <2>4 DEF OneMore
    <3> QED
      BY <3>2, <3>3
  <2>6. Clean(r.inst)
    BY <1>4, <1>5 DEF Clean
  <2>7. n + 1 <= Len(s)
    BY <2>2
  <2>8. ByList(r.inst, fields, s, all)
    <3>1. Len(all) = n + 1
      BY <1>1, <2>4 DEF OneMore
    <3> QED
      BY <1>5, <1>6, <2>1, <2>2, <2>5, <2>6, <2>7, <3>1 DEF ByList
  <2> QED
    BY <1>3, <1>6, <2>3, <2>4, <2>8
<1>7. CASE r.outcome = "end"
  <2>1. SubSeq(s, n + 1, Len(s)) = <<>>
    BY <1>4, <1>5, <1>7
  <2>2. n = Len(s)
    BY <1>4, <2>1, NoneLeft
  <2> QED
    BY <1>3, <1>4, <1>7, <2>2
<1> QED
  BY <1>6, <1>7

\* From the heap, one class after the other,
LEMMA HeapGoesOn ==
  ASSUME NEW m, IsMem(m), NEW fields, NEW records, NEW rows, IsSeq(rows), ByHeap(m, fields, records, rows),
         NEW class \in Classes(m) \ m.returned, NEW n, n = [m EXCEPT !.returned = @ \cup {class}],
         NEW row, row = Projected(RowOf(m, class), fields)
  PROVE  ByHeap(n, fields, records, Append(rows, row))
<1>1. /\ n.written = m.written /\ n.list = m.list /\ n.bits = m.bits /\ n.sum = m.sum
      /\ n.returned = m.returned \cup {class}
  BY DEF IsMem, Heaps
<1>2. Classes(n) = Classes(m)
  BY <1>1 DEF Classes, Class
<1>3. \A c : RowOf(n, c) = RowOf(m, c)
  BY <1>1 DEF RowOf
<1>4. PICK all : /\ all = Append(rows, row) /\ Range(all) = Range(rows) \cup {row}
                 /\ IsInjective(rows) /\ row \notin Range(rows) => IsInjective(all)
  <2>1. OneMore(rows, row, Append(rows, row))
    BY RowAppended
  <2> QED
    BY <2>1 DEF OneMore
<1>5. row \notin Range(rows)
  <2> SUFFICES ASSUME row \in Range(rows) PROVE FALSE
    OBVIOUS
  <2>1. PICK c \in m.returned : row = Projected(RowOf(m, c), fields)
    BY DEF ByHeap
  <2>2. c \in Classes(m) /\ class \in Classes(m) /\ Projected(RowOf(m, c), fields) = Projected(RowOf(m, class), fields)
    BY <2>1 DEF ByHeap
  <2>3. c = class
    BY <2>2, RowsDiffer DEF ByHeap
  <2> QED
    BY <2>1, <2>3
<1>6. Range(all) = {Projected(RowOf(n, c), fields) : c \in n.returned}
  <2>1. Range(rows) = {Projected(RowOf(m, c), fields) : c \in m.returned}
    BY DEF ByHeap
  <2>2. Range(all) = {Projected(RowOf(m, c), fields) : c \in m.returned \cup {class}}
    BY <1>4, <2>1
  <2>3. \A c : Projected(RowOf(n, c), fields) = Projected(RowOf(m, c), fields)
    BY <1>3
  <2> QED
    BY <1>1, <2>2, <2>3
<1>7. IsInjective(all) /\ n.returned \subseteq Classes(n)
  BY <1>1, <1>2, <1>4, <1>5 DEF ByHeap
<1> QED
  BY <1>1, <1>4, <1>6, <1>7 DEF ByHeap, HeapFor

\* until all have been.
LEMMA HeapEnds ==
  ASSUME NEW o, NEW m, ByHeap(m, obj[o].opts.fields, wanted[o], got[o]), m.returned = Classes(m),
         Plain(obj[o].opts.fields)
  PROVE  Range(got[o]) = {Total(o, rec) : rec \in Range(wanted[o])} /\ IsInjective(got[o])
<1>1. PICK fields, records : fields = obj[o].opts.fields /\ records = wanted[o]
  OBVIOUS
<1>2. Range(got[o]) = {Projected(RowOf(m, class), fields) : class \in Classes(m)} /\ IsInjective(got[o])
  BY <1>1 DEF ByHeap
<1>3. ASSUME NEW class \in Classes(m), NEW k \in class
      PROVE  Projected(RowOf(m, class), fields) = Total(o, records[k])
  BY <1>1, RowIsTotal DEF ByHeap
<1>4. m.written = records /\ ~ m.list
  BY <1>1 DEF ByHeap, HeapFor
<1>5. ASSUME NEW class \in Classes(m) PROVE Projected(RowOf(m, class), fields) \in {Total(o, rec) : rec \in Range(records)}
  <2>1. PICK k \in class : k \in DOMAIN records
    BY <1>4, ClassIs
  <2> QED
    BY <1>3, <2>1 DEF Range
<1>6. ASSUME NEW rec \in Range(records) PROVE Total(o, rec) \in {Projected(RowOf(m, class), fields) : class \in Classes(m)}
  <2>1. PICK k \in DOMAIN records : rec = records[k]
    BY DEF Range
  <2>2. Class(m, k) \in Classes(m) /\ k \in Class(m, k)
    BY <1>4 DEF Classes, Class
  <2> QED
    BY <1>3, <2>1, <2>2
<1> QED
  BY <1>1, <1>2, <1>5, <1>6

-----------------------------------------------------------------------------
(***************************************************************************)
(* Steps                                                                   *)
(***************************************************************************)
\* The inductive invariant
Inv == PerlType /\ Owners /\ Upon

\* An object and the instance with its handle are set.
LEMMA SetTyped ==
  ASSUME PerlType, NEW o \in Objects, Has(o), NEW i, NEW x, IsInstance(i), IsObject(x),
         SetInstance(o, i), obj' = [obj EXCEPT ![o] = x],
         i.nffile_r \in DOMAIN disk' \cup {Null}, DOMAIN disk \subseteq DOMAIN disk', DiskType',
         Histories', <<alive, unopened, abused>>' \in BOOLEAN \X BOOLEAN \X BOOLEAN
  PROVE  /\ PerlType' /\ InUse' = InUse
         /\ \A p \in Objects \ {o} : obj'[p] = obj[p]
         /\ obj'[o] = x
         /\ \A h \in InUse \ {obj[o].handle} : instances'[h] = instances[h]
         /\ instances'[obj[o].handle] = i
<1> DEFINE h0 == obj[o].handle
<1>1. h0 \in InUse /\ instances' = [instances EXCEPT ![h0] = i]
  BY DEF Has, SetInstance
<1>2. /\ InUse' = InUse /\ instances' = [h \in InUse' |-> instances'[h]]
      /\ \A h \in InUse \ {h0} : instances'[h] = instances[h]
      /\ instances'[h0] = i
  <2> HIDE DEF h0
  <2> QED
    BY <1>1 DEF PerlType, InUse
<1>3. \A h \in InUse' : IsInstance(instances[h])' /\ Reading(instances[h])'
  <2> SUFFICES ASSUME NEW h \in InUse PROVE IsInstance(instances'[h]) /\ instances'[h].nffile_r \in DOMAIN disk' \cup {Null}
    BY <1>2 DEF IsInstance, IsMem, Heaps, Reading
  <2>1. CASE h = h0
    BY <1>2, <2>1
  <2>2. CASE h # h0
    BY <1>2, <2>2 DEF PerlType, Reading
  <2> QED
    BY <2>1, <2>2
<1>4. /\ obj' = [p \in Objects |-> obj'[p]] /\ obj'[o] = x
      /\ \A p \in Objects \ {o} : obj'[p] = obj[p]
  BY DEF PerlType
<1>5. \A p \in Objects : IsObject(obj[p])'
  <2> SUFFICES ASSUME NEW p \in Objects PROVE IsObject(obj'[p])
    BY DEF IsObject
  <2> QED
    BY <1>4 DEF PerlType
<1> QED
  BY <1>2, <1>3, <1>4, <1>5 DEF PerlType

\* The owner of an instance sets it to i and the object to x.
OwnerSets(o, i, x) ==
  /\ Open(o) /\ SetInstance(o, i) /\ obj' = [obj EXCEPT ![o] = x]
  /\ IsInstance(i) /\ i.nffile_r \in DOMAIN disk' \cup {Null}
  /\ IsObject(x) /\ x.state = "open" /\ x.handle = obj[o].handle
  /\ x.read_prepared => i.mem.there \/ i.files # Null
  /\ x.write_prepared => i.nffile_w # Null \/ unopened'
  /\ DOMAIN disk \subseteq DOMAIN disk' /\ DiskType'
  /\ <<alive, unopened, abused>>' \in BOOLEAN \X BOOLEAN \X BOOLEAN
  /\ unopened => unopened'
  /\ alive' \/ unopened'
  /\ Histories'
  /\ \A p \in Objects \ {o} : given'[p] = given[p] /\ base'[p] = base[p] /\ tainted'[p] = tainted[p]
  /\ i.written = given'[o] /\ (~ tainted'[o] => i.rec = base'[o])

\* The others keep theirs as they are.
LEMMA OwnerMoves ==
  ASSUME Inv, ~ abused, NEW o \in Objects, NEW i, NEW x, OwnerSets(o, i, x)
  PROVE  Inv'
<1> USE DEF OwnerSets
<1>1. Has(o) /\ Owners /\ PerlType /\ Upon
  BY DEF Inv, Owners
<1>2. /\ PerlType' /\ InUse' = InUse
      /\ \A p \in Objects \ {o} : obj'[p] = obj[p]
      /\ obj'[o] = x
      /\ \A h \in InUse \ {obj[o].handle} : instances'[h] = instances[h]
      /\ instances'[obj[o].handle] = i
  BY <1>1, SetTyped
<1>3. \A p \in Objects : Open(p)' = Open(p) /\ obj'[p].handle = obj[p].handle
  BY <1>2 DEF Open
<1>4. \A p \in Objects \ {o} : Open(p) => Has(p) /\ obj[p].handle # obj[o].handle
  BY <1>1 DEF Owners
<1>5. \A p \in Objects \ {o} : Open(p) => Has(p)' /\ Instance(p)' = Instance(p)
  BY <1>2, <1>3, <1>4 DEF Has, Instance
<1>6. Has(o)' /\ Instance(o)' = i
  BY <1>1, <1>2, <1>3 DEF Has, Instance
<1>7. Owners'
  <2>1. ASSUME NEW p \in Objects
        PROVE  \/ ~ Open(p)' /\ ~ obj'[p].read_prepared /\ ~ obj'[p].write_prepared
               \/ /\ Open(p)' /\ Has(p)'
                  /\ obj'[p].read_prepared => Instance(p)'.mem.there \/ Instance(p)'.files # Null
                  /\ obj'[p].write_prepared => Instance(p)'.nffile_w # Null \/ unopened'
    <3>1. CASE p = o
      BY <1>2, <1>3, <1>6, <3>1
    <3>2. CASE p # o
      <4>1. \/ ~ Open(p) /\ ~ obj[p].read_prepared /\ ~ obj[p].write_prepared
            \/ /\ Open(p) /\ Has(p)
               /\ obj[p].read_prepared => Instance(p).mem.there \/ Instance(p).files # Null
               /\ obj[p].write_prepared => Instance(p).nffile_w # Null \/ unopened
        BY <1>1 DEF Owners
      <4>2. obj'[p] = obj[p] /\ Open(p)' = Open(p)
        BY <1>2, <1>3, <3>2
      <4>3. Open(p) => Has(p)' /\ Instance(p)' = Instance(p)
        BY <1>5, <3>2
      <4> QED
        BY <4>1, <4>2, <4>3
    <3> QED
      BY <3>1, <3>2
  <2>2. \A p, q \in Objects : Open(p)' /\ Open(q)' /\ obj'[p].handle = obj'[q].handle => p = q
    BY <1>1, <1>3 DEF Owners
  <2>3. \A h \in InUse' : \E p \in Objects : Open(p)' /\ obj'[p].handle = h
    BY <1>1, <1>2, <1>3 DEF Owners
  <2> QED
    BY <2>1, <2>2, <2>3 DEF Owners
<1>8. Upon'
  <2> SUFFICES ASSUME NEW p \in Objects, Open(p)'
               PROVE  Instance(p)'.written = given'[p] /\ (~ tainted'[p] => Instance(p)'.rec = base'[p])
    BY DEF Upon
  <2>1. CASE p = o
    BY <1>6, <2>1
  <2>2. CASE p # o
    <3>1. Open(p) /\ Instance(p)' = Instance(p)
      BY <1>3, <1>5, <2>2
    <3> QED
      BY <1>1, <2>2, <3>1 DEF Upon
  <2> QED
    BY <2>1, <2>2
<1> QED
  BY <1>2, <1>7, <1>8 DEF Inv

\* At the beginning there is no object.
LEMMA InitInv == Init => Inv
<1> SUFFICES ASSUME Init PROVE Inv
  OBVIOUS
<1>1. InUse = {} /\ instances = [h \in InUse |-> instances[h]]
  BY DEF Init, InUse
<1>2. obj = [o \in Objects |-> obj[o]] /\ \A o \in Objects : obj[o] = NoObject
  BY DEF Init
<1>3. IsObject(NoObject)
  BY PerlAssumption DEF IsObject, NoObject, Handles
<1>4. DiskType
  BY PerlAssumption DEF Init, DiskType
<1>5. PerlType
  BY <1>1, <1>2, <1>3, <1>4 DEF PerlType, Init, Histories
<1>6. \A o \in Objects : ~ Open(o) /\ ~ obj[o].read_prepared /\ ~ obj[o].write_prepared
  BY <1>2 DEF Open, NoObject
<1>7. Owners
  BY <1>1, <1>6 DEF Owners, Init
<1>8. Upon
  BY <1>6 DEF Upon
<1> QED
  BY <1>5, <1>7, <1>8 DEF Inv

\* Objects and instances stay.
LEMMA NobodyMoves ==
  ASSUME Inv, UNCHANGED <<obj, instances, disk, alive, unopened>>, abused' \in BOOLEAN, Histories',
         abused => abused',
         \A o \in Objects : given'[o] = given[o] /\ (~ tainted'[o] => ~ tainted[o] /\ base'[o] = base[o])
  PROVE  Inv'
<1>1. PerlType'
  BY DEF Inv, PerlType, DiskType, InUse, Reading
<1>2. Owners'
  BY DEF Inv, Owners, Open, Has, Instance, InUse
<1>3. Upon'
  BY DEF Inv, Upon, Open, Instance
<1> QED
  BY <1>1, <1>2, <1>3 DEF Inv

\* The new instance has a handle of its own.
LEMMA NewMoves == ASSUME Inv, alive, ~ abused, NEW o \in Objects, New(o) PROVE Inv'
<1>1. PerlType /\ Owners /\ Upon
  BY DEF Inv
<1>2. CASE FreeHandles = {}
  BY <1>1, <1>2, NobodyMoves DEF New, history, PerlType, Histories
<1>3. CASE FreeHandles # {}
  <2>1. PICK opts \in Options :
          /\ instances' = [k \in InUse \cup {Min(FreeHandles)} |->
                              IF k = Min(FreeHandles) THEN NewInstance ELSE instances[k]]
          /\ obj' = [obj EXCEPT ![o] = [NoObject EXCEPT !.state = "open", !.handle = Min(FreeHandles),
                                                       !.opts = opts, !.fields = opts.fields]]
          /\ Forget(o) /\ UNCHANGED <<unopened, abused, disk, alive>>
    BY <1>3 DEF New
  <2>2. PICK h \in FreeHandles : h = Min(FreeHandles)
    <3>1. FreeHandles \subseteq Nat
      BY PerlAssumption DEF FreeHandles, Handles
    <3>2. PICK y \in FreeHandles : \A z \in FreeHandles : y <= z
      BY <1>3, <3>1, NatLeast
    <3> QED
      BY <3>2 DEF Min
  <2>3. h \in Handles /\ h \notin InUse
    BY DEF FreeHandles, Usable
  <2> DEFINE x == [NoObject EXCEPT !.state = "open", !.handle = h, !.opts = opts, !.fields = opts.fields]
  <2>4. IsObject(x) /\ x.state = "open" /\ x.handle = h /\ ~ x.read_prepared /\ ~ x.write_prepared
    BY <2>3 DEF IsObject, NoObject
  <2>5. /\ obj' = [p \in Objects |-> obj'[p]] /\ obj'[o] = x
        /\ \A p \in Objects \ {o} : obj'[p] = obj[p]
    BY <1>1, <2>1, <2>2 DEF PerlType
  <2> HIDE DEF x
  <2>6. /\ InUse' = InUse \cup {h} /\ instances' = [k \in InUse' |-> instances'[k]]
        /\ instances'[h] = NewInstance
        /\ \A k \in InUse : instances'[k] = instances[k]
    BY <2>1, <2>2, <2>3 DEF InUse
  <2>7. IsInstance(NewInstance) /\ NewInstance.nffile_r = Null /\ NewInstance.written = <<>> /\ NewInstance.rec = Rec0
    <3>1. \A W : <<>> \in Seq(W)
      OBVIOUS
    <3>2. IsMem(NoMem)
      BY <3>1 DEF IsMem, Heaps, NoMem
    <3> QED
      BY <3>1, <3>2 DEF IsInstance, NewInstance
  <2>8. PerlType'
    <3>1. \A p \in Objects : IsObject(obj[p])'
      BY <1>1, <2>4, <2>5 DEF PerlType, IsObject
    <3>2. ASSUME NEW k \in InUse' PROVE IsInstance(instances[k])' /\ Reading(instances[k])'
      <4>1. CASE k = h
        BY <2>6, <2>7, <4>1 DEF IsInstance, IsMem, Heaps, Reading
      <4>2. CASE k # h
        BY <1>1, <2>1, <2>6, <4>2 DEF PerlType, IsInstance, IsMem, Heaps, Reading
      <4> QED
        BY <4>1, <4>2
    <3>3. DiskType' /\ Histories'
      BY <1>1, <2>1 DEF PerlType, DiskType, Histories, Forget
    <3> QED
      BY <1>1, <2>1, <2>5, <2>6, <3>1, <3>2, <3>3 DEF PerlType
  <2>9. \A p \in Objects \ {o} : /\ Open(p)' = Open(p) /\ obj'[p] = obj[p]
                                 /\ Open(p) => Has(p) /\ Has(p)' /\ Instance(p)' = Instance(p)
    BY <1>1, <2>5, <2>6 DEF Owners, Open, Has, Instance
  <2>10. Open(o)' /\ Has(o)' /\ Instance(o)' = NewInstance /\ obj'[o] = x
    BY <2>4, <2>5, <2>6 DEF Open, Has, Instance
  <2>11. Owners'
    <3>1. ASSUME NEW p \in Objects
          PROVE  \/ ~ Open(p)' /\ ~ obj'[p].read_prepared /\ ~ obj'[p].write_prepared
                 \/ /\ Open(p)' /\ Has(p)'
                    /\ obj'[p].read_prepared => Instance(p)'.mem.there \/ Instance(p)'.files # Null
                    /\ obj'[p].write_prepared => Instance(p)'.nffile_w # Null \/ unopened'
      <4>1. CASE p = o
        BY <2>4, <2>10, <4>1
      <4>2. CASE p # o
        BY <1>1, <2>1, <2>9, <4>2 DEF Owners
      <4> QED
        BY <4>1, <4>2
    <3>2. \A p, q \in Objects : Open(p)' /\ Open(q)' /\ obj'[p].handle = obj'[q].handle => p = q
      <4>1. \A p \in Objects \ {o} : Open(p)' => obj'[p].handle # h
        BY <2>3, <2>9 DEF Has
      <4>2. \A p, q \in Objects \ {o} : Open(p)' /\ Open(q)' /\ obj'[p].handle = obj'[q].handle => p = q
        BY <1>1, <2>9 DEF Owners
      <4> QED
        BY <2>4, <2>10, <4>1, <4>2
    <3>3. \A k \in InUse' : \E p \in Objects : Open(p)' /\ obj'[p].handle = k
      <4>1. \A k \in InUse : \E p \in Objects \ {o} : Open(p) /\ obj[p].handle = k
        BY <1>1 DEF Owners, New, Open
      <4> QED
        BY <2>4, <2>6, <2>9, <2>10, <4>1
    <3> QED
      BY <1>1, <2>1, <3>1, <3>2, <3>3 DEF Owners
  <2>12. Upon'
    <3> SUFFICES ASSUME NEW p \in Objects, Open(p)'
                 PROVE  Instance(p)'.written = given'[p] /\ (~ tainted'[p] => Instance(p)'.rec = base'[p])
      BY DEF Upon
    <3>1. CASE p = o
      BY <1>1, <2>1, <2>7, <2>10, <3>1 DEF Forget, PerlType, Histories
    <3>2. CASE p # o
      BY <1>1, <2>1, <2>9, <3>2 DEF Upon, Forget, PerlType, Histories
    <3> QED
      BY <3>1, <3>2
  <2> QED
    BY <2>8, <2>11, <2>12 DEF Inv
<1> QED
  BY <1>2, <1>3

\* A query gives the object a list, or a heap that is filled.
LEMMA QueryMoves == ASSUME Inv, alive, ~ abused, NEW o \in Objects, Query(o) PROVE Inv'
<1>1. PerlType /\ Owners /\ Upon
  BY DEF Inv
<1>2. /\ UNCHANGED <<disk, given, base, unopened>> /\ abused' = Trespass(o) /\ abused' \in BOOLEAN
      /\ tainted' = [tainted EXCEPT ![o] = TRUE]
  BY DEF Query, NoteQuery, Trespass
<1>3. /\ Histories' /\ DiskType' /\ tainted'[o]
      /\ \A p \in Objects \ {o} : given'[p] = given[p] /\ base'[p] = base[p] /\ tainted'[p] = tainted[p]
  BY <1>1, <1>2 DEF PerlType, Histories, DiskType
<1>4. CASE obj[o].opts.files = <<>> \/ ~ Has(o)
  <2>1. UNCHANGED <<obj, instances, disk, alive, unopened>>
    BY <1>2, <1>4 DEF Query
  <2>2. \A p \in Objects : given'[p] = given[p] /\ (~ tainted'[p] => ~ tainted[p] /\ base'[p] = base[p])
    BY <1>2, <1>3
  <2> QED
    BY <1>2, <1>3, <2>1, <2>2, NobodyMoves
<1>5. CASE ~ (obj[o].opts.files = <<>> \/ ~ Has(o))
  <2>1. IsObject(obj[o]) /\ obj[o].opts \in Options /\ Has(o) /\ IsInstance(Instance(o)) /\ Reading(Instance(o))
    <3>1. IsObject(obj[o]) /\ obj[o].state # "none"
      BY <1>1 DEF PerlType, Query
    <3>2. obj[o].opts \in Options
      BY <3>1 DEF IsObject
    <3>3. Has(o) /\ IsInstance(Instance(o)) /\ Reading(Instance(o))
      BY <1>1, <1>5 DEF PerlType, Has, Instance
    <3> QED
      BY <3>1, <3>2, <3>3
  <2>2. PICK q : q = ReadFiles(Instance(o), obj[o].opts, obj[o].fields)
    OBVIOUS
  <2>3. Kept(Instance(o), q.inst) /\ q.outcome # "killed" /\ (q.inst.mem.there \/ q.inst.files # Null)
    <3>1. PICK i, fields : i = Instance(o) /\ fields = obj[o].fields
      OBVIOUS
    <3>2. PICK opts \in Options : opts = obj[o].opts
      BY <2>1
    <3>3. DiskType /\ IsInstance(i)
      BY <1>1, <2>1, <3>1 DEF PerlType
    <3>4. PICK m : m = WithFields(i.mem, opts, fields)
      OBVIOUS
    <3>5. Asked(i, opts, fields, m, q)
      BY <2>2, <3>1, <3>2, <3>3, <3>4, FilesRead
    <3> QED
      BY <3>1, <3>5 DEF Asked
  <2>4. PICK x : x = [obj[o] EXCEPT !.fields = Stripped(@), !.read_prepared = @ \/ q.outcome = "end"]
    OBVIOUS
  <2>5. /\ obj' = [obj EXCEPT ![o] = x] /\ SetInstance(o, q.inst) /\ alive' = TRUE
    <3>1. obj' = [obj EXCEPT ![o].fields = Stripped(@), ![o].read_prepared = @ \/ q.outcome = "end"]
      BY <1>5, <2>2 DEF Query
    <3>2. obj' = [obj EXCEPT ![o] = x]
      BY <1>1, <2>4, <3>1 DEF PerlType
    <3>3. SetInstance(o, q.inst) /\ alive' = (q.outcome # "killed")
      BY <1>5, <2>2 DEF Query
    <3> QED
      BY <2>3, <3>2, <3>3
  <2>6. IsObject(x) /\ x.state = obj[o].state /\ x.handle = obj[o].handle /\ x.write_prepared = obj[o].write_prepared
    BY <2>1, <2>4 DEF IsObject
  <2>7. PICK i : i = q.inst
    OBVIOUS
  <2>8. /\ IsInstance(i) /\ i.nffile_r \in DOMAIN disk' \cup {Null} /\ SetInstance(o, i)
        /\ i.mem.there \/ i.files # Null
        /\ i.nffile_w = Instance(o).nffile_w /\ i.written = Instance(o).written
    BY <1>2, <2>3, <2>5, <2>7 DEF Kept, Reading
  <2>9. <<alive, unopened, abused>>' \in BOOLEAN \X BOOLEAN \X BOOLEAN
    BY <1>1, <1>2, <2>5 DEF PerlType
  <2>10. CASE Open(o)
    <3>1. /\ obj[o].write_prepared => Instance(o).nffile_w # Null \/ unopened
          /\ Instance(o).written = given[o]
      BY <1>1, <2>10 DEF Owners, Upon
    <3>2. x.state = "open"
      BY <2>6, <2>10 DEF Open
    <3>3. alive' \/ unopened'
      BY <2>5
    <3> QED
      <4>1. OwnerSets(o, i, x)
        BY <1>2, <1>3, <2>5, <2>6, <2>8, <2>9, <2>10, <3>1, <3>2, <3>3 DEF OwnerSets
      <4> QED
        BY <4>1, OwnerMoves
  <2>11. CASE ~ Open(o)
    <3>1. abused'
      BY <1>1, <1>2, <2>1, <2>11 DEF Trespass, Open, IsObject, Query
    <3>2. PerlType'
      BY <1>1, <1>2, <1>3, <2>1, <2>5, <2>6, <2>8, <2>9, SetTyped
    <3> QED
      BY <3>1, <3>2 DEF Inv, Owners, Upon
  <2> QED
    BY <2>10, <2>11
<1> QED
  BY <1>4, <1>5

\* Rows come from the list or from the heap, whichever there is; with the last
\* one the object is no longer prepared.
LEMMA FetchMoves == ASSUME Inv, alive, ~ abused, NEW o \in Objects, Fetch(o) PROVE Inv'
<1>1. PerlType /\ Owners /\ Upon
  BY DEF Inv
<1>2. /\ UNCHANGED <<disk, given, base, unopened, abused>> /\ tainted' = [tainted EXCEPT ![o] = TRUE]
      /\ obj[o].read_prepared
  BY DEF Fetch
<1>3. /\ Histories' /\ DiskType' /\ tainted'[o]
      /\ \A p \in Objects \ {o} : given'[p] = given[p] /\ base'[p] = base[p] /\ tainted'[p] = tainted[p]
  BY <1>1, <1>2 DEF PerlType, Histories, DiskType
<1>4. /\ Open(o) /\ Has(o) /\ IsObject(obj[o]) /\ IsInstance(Instance(o)) /\ Reading(Instance(o))
      /\ Instance(o).mem.there \/ Instance(o).files # Null
      /\ obj[o].write_prepared => Instance(o).nffile_w # Null \/ unopened
      /\ Instance(o).written = given[o]
  BY <1>1, <1>2 DEF PerlType, Owners, Upon, Has, Instance
<1>5. SUFFICES \E i, x : /\ IsInstance(i) /\ Reading(i) /\ SetInstance(o, i) /\ alive'
                         /\ i.nffile_w = Instance(o).nffile_w /\ i.written = Instance(o).written
                         /\ obj' = [obj EXCEPT ![o] = x]
                         /\ \/ x = [obj[o] EXCEPT !.read_prepared = FALSE]
                            \/ x = obj[o] /\ (i.mem.there \/ i.files # Null)
  <2>1. PICK i, x : /\ IsInstance(i) /\ Reading(i) /\ SetInstance(o, i) /\ alive'
                    /\ i.nffile_w = Instance(o).nffile_w /\ i.written = Instance(o).written
                    /\ obj' = [obj EXCEPT ![o] = x]
                    /\ \/ x = [obj[o] EXCEPT !.read_prepared = FALSE]
                       \/ x = obj[o] /\ (i.mem.there \/ i.files # Null)
    BY <1>5
  <2>2. /\ IsObject(x) /\ x.state = "open" /\ x.handle = obj[o].handle /\ x.write_prepared = obj[o].write_prepared
        /\ x.read_prepared => i.mem.there \/ i.files # Null
    BY <1>4, <2>1 DEF IsObject, Open
  <2>3. <<alive, unopened, abused>>' \in BOOLEAN \X BOOLEAN \X BOOLEAN
    <3>1. alive' = TRUE \/ alive' = (ReadRow(Instance(o)).outcome # "killed") \/ alive' = alive
      BY DEF Fetch
    <3> QED
      BY <1>1, <1>2, <3>1 DEF PerlType
  <2>4. i.nffile_r \in DOMAIN disk' \cup {Null}
    BY <1>2, <2>1 DEF Reading
  <2> QED
    <3>1. OwnerSets(o, i, x)
      BY <1>2, <1>3, <1>4, <2>1, <2>2, <2>3, <2>4 DEF OwnerSets
    <3> QED
      BY <3>1, OwnerMoves
<1>6. obj = [obj EXCEPT ![o] = obj[o]]
  BY <1>1 DEF PerlType
<1>7. CASE ~ Instance(o).mem.there
  <2>1. PICK r : r = ReadRow(Instance(o))
    OBVIOUS
  <2>2. /\ Kept(Instance(o), r.inst) /\ r.outcome \in {"row", "end", "croak"}
        /\ r.outcome # "end" => r.inst.files # Null
    <3>1. RowsGoOn(Instance(o), r)
      BY <1>1, <1>4, <1>7, <2>1, RowRead DEF PerlType
    <3> QED
      BY <3>1 DEF RowsGoOn
  <2>3. /\ SetInstance(o, r.inst) /\ alive' = (r.outcome # "killed")
        /\ r.outcome = "end" => obj' = [obj EXCEPT ![o].read_prepared = FALSE]
        /\ r.outcome # "end" => obj' = obj
    <3>1. /\ SetInstance(o, r.inst) /\ alive' = (r.outcome # "killed")
          /\ CASE r.outcome = "row" -> FetchRow(o, r.inst)
               [] r.outcome = "end" -> EndOfRows(o)
               [] OTHER -> sound' = [sound EXCEPT ![o] = FALSE] /\ UNCHANGED <<obj, got, ended>>
      BY <1>7, <2>1 DEF Fetch
    <3>2. FetchRow(o, r.inst) => obj' = obj
      BY DEF FetchRow
    <3>3. EndOfRows(o) => obj' = [obj EXCEPT ![o].read_prepared = FALSE]
      BY DEF EndOfRows
    <3> QED
      BY <2>2, <3>1, <3>2, <3>3
  <2>4. r.outcome = "end" => obj' = [obj EXCEPT ![o] = [obj[o] EXCEPT !.read_prepared = FALSE]]
    BY <1>1, <2>3 DEF PerlType
  <2> QED
    BY <1>6, <2>2, <2>3, <2>4 DEF Kept
<1>8. CASE Instance(o).mem.there
  <2>1. CASE /\ SetInstance(o, [Instance(o) EXCEPT !.mem = NoMem])
             /\ obj' = [obj EXCEPT ![o].read_prepared = FALSE]
    <3>1. PICK i : i = [Instance(o) EXCEPT !.mem = NoMem]
      OBVIOUS
    <3>2. IsMem(NoMem)
      <4>1. \A W : <<>> \in Seq(W)
        OBVIOUS
      <4> QED
        BY <4>1 DEF IsMem, Heaps, NoMem
    <3>3. IsInstance(i) /\ Reading(i) /\ i.nffile_w = Instance(o).nffile_w /\ i.written = Instance(o).written
      BY <1>4, <3>1, <3>2 DEF IsInstance, Reading
    <3>4. obj' = [obj EXCEPT ![o] = [obj[o] EXCEPT !.read_prepared = FALSE]]
      BY <1>1, <2>1 DEF PerlType
    <3>5. alive' = alive
      BY <1>8 DEF Fetch
    <3> QED
      BY <2>1, <3>1, <3>3, <3>4, <3>5
  <2>2. CASE /\ \E class, rec : SetInstance(o, [Instance(o) EXCEPT !.mem.returned = @ \cup {class}, !.rec = rec])
             /\ obj' = obj
    <3>1. PICK class, rec : SetInstance(o, [Instance(o) EXCEPT !.mem.returned = @ \cup {class}, !.rec = rec])
      BY <2>2
    <3>2. PICK i : i = [Instance(o) EXCEPT !.mem.returned = @ \cup {class}, !.rec = rec]
      OBVIOUS
    <3>3. PICK m : m = [Instance(o).mem EXCEPT !.returned = @ \cup {class}]
      OBVIOUS
    <3>4. IsMem(m) /\ m.there = Instance(o).mem.there
      BY <1>4, <3>3 DEF IsInstance, IsMem, Heaps
    <3>5. i = [Instance(o) EXCEPT !.mem = m, !.rec = rec]
      BY <1>4, <3>2, <3>3 DEF IsInstance
    <3>6. /\ IsInstance(i) /\ Reading(i) /\ i.nffile_w = Instance(o).nffile_w /\ i.written = Instance(o).written
          /\ i.mem.there
      BY <1>4, <1>8, <3>4, <3>5 DEF IsInstance, Reading
    <3>7. alive' = alive
      BY <1>8 DEF Fetch
    <3> QED
      BY <1>6, <2>2, <3>1, <3>2, <3>6, <3>7
  <2> QED
    BY <1>8, <2>1, <2>2 DEF Fetch, FetchRow, EndOfRows
<1> QED
  BY <1>7, <1>8

\* The object has a file, or one could not be created.
LEMMA CreateMoves == ASSUME Inv, alive, ~ abused, NEW o \in Objects, Create(o) PROVE Inv'
<1>1. PerlType /\ Owners /\ Upon
  BY DEF Inv
<1>2. Open(o) /\ obj[o].opts.out # Null /\ UNCHANGED <<alive, base, given, tainted, abused>>
  BY DEF Create
<1>3. /\ Has(o) /\ IsObject(obj[o]) /\ IsInstance(Instance(o)) /\ Reading(Instance(o))
      /\ obj[o].read_prepared => Instance(o).mem.there \/ Instance(o).files # Null
      /\ Instance(o).written = given[o] /\ (~ tainted[o] => Instance(o).rec = base[o])
  BY <1>1, <1>2 DEF PerlType, Owners, Upon, Has, Instance
<1>4. PICK x : x = [obj[o] EXCEPT !.write_prepared = TRUE, !.fields = Stripped(@)]
  OBVIOUS
<1>5. obj' = [obj EXCEPT ![o] = x]
  <2>1. obj' = [obj EXCEPT ![o].write_prepared = TRUE, ![o].fields = Stripped(@)]
    BY DEF Create
  <2> QED
    BY <1>1, <1>4, <2>1 DEF PerlType
<1>6. /\ IsObject(x) /\ x.state = "open" /\ x.handle = obj[o].handle /\ x.read_prepared = obj[o].read_prepared
  BY <1>2, <1>3, <1>4 DEF IsObject, Open
<1>7. Histories' /\ abused' \in BOOLEAN /\ alive' \in BOOLEAN
  BY <1>1, <1>2 DEF PerlType, Histories
<1>8. PICK path, names : path = obj[o].opts.out /\ path # Null /\ names = Names(obj[o].fields)
  BY <1>2
<1>9. CASE path = Denied
  <2>1. /\ disk' = disk /\ unopened' = TRUE
        /\ SetInstance(o, [Instance(o) EXCEPT !.field_list = names])
    BY <1>8, <1>9 DEF Create
  <2>2. PICK i : i = [Instance(o) EXCEPT !.field_list = names]
    OBVIOUS
  <2>3. /\ IsInstance(i) /\ i.nffile_r = Instance(o).nffile_r /\ i.mem = Instance(o).mem /\ i.files = Instance(o).files
        /\ i.written = Instance(o).written /\ i.rec = Instance(o).rec
    BY <1>3, <2>2 DEF IsInstance
  <2>4. DiskType' /\ i.nffile_r \in DOMAIN disk' \cup {Null} /\ DOMAIN disk \subseteq DOMAIN disk'
    BY <1>1, <1>3, <2>1, <2>3 DEF PerlType, DiskType, Reading
  <2>5. <<alive, unopened, abused>>' \in BOOLEAN \X BOOLEAN \X BOOLEAN
    BY <1>7, <2>1
  <2> QED
    <3>1. OwnerSets(o, i, x)
      BY <1>2, <1>3, <1>5, <1>6, <1>7, <2>1, <2>2, <2>3, <2>4, <2>5 DEF OwnerSets
    <3> QED
      BY <3>1, OwnerMoves
<1>10. CASE path # Denied
  <2>1. /\ disk' = [p \in DOMAIN disk \cup {path} |-> IF p = path THEN <<>> ELSE disk[p]]
        /\ unopened' = unopened
        /\ SetInstance(o, [Instance(o) EXCEPT !.nffile_w = path, !.field_list = names])
    BY <1>8, <1>10 DEF Create
  <2>2. PICK i : i = [Instance(o) EXCEPT !.nffile_w = path, !.field_list = names]
    OBVIOUS
  <2>3. /\ IsInstance(i) /\ i.nffile_r = Instance(o).nffile_r /\ i.mem = Instance(o).mem /\ i.files = Instance(o).files
        /\ i.written = Instance(o).written /\ i.rec = Instance(o).rec /\ i.nffile_w # Null
    BY <1>3, <1>8, <2>2 DEF IsInstance
  <2>4. DiskType' /\ DOMAIN disk \subseteq DOMAIN disk'
    <3>1. IsFiniteSet(DOMAIN disk \cup {path})
      BY <1>1, FS_AddElement DEF PerlType, DiskType
    <3>2. \A p \in DOMAIN disk' : disk'[p] \in Seq(Range(disk'[p]))
      <4>1. \A W : <<>> \in Seq(W)
        OBVIOUS
      <4>2. \A p \in DOMAIN disk' : disk'[p] = <<>> \/ (p \in DOMAIN disk /\ disk'[p] = disk[p])
        BY <2>1
      <4> QED
        BY <1>1, <4>1, <4>2 DEF PerlType, DiskType
    <3> QED
      BY <2>1, <3>1, <3>2 DEF DiskType
  <2>5. i.nffile_r \in DOMAIN disk' \cup {Null}
    BY <1>3, <2>3, <2>4 DEF Reading
  <2>6. <<alive, unopened, abused>>' \in BOOLEAN \X BOOLEAN \X BOOLEAN
    BY <1>1, <1>7, <2>1 DEF PerlType
  <2>7. alive' \/ unopened'
    BY <1>2
  <2> QED
    <3>1. OwnerSets(o, i, x)
      BY <1>2, <1>3, <1>5, <1>6, <1>7, <2>1, <2>2, <2>3, <2>4, <2>5, <2>6, <2>7 DEF OwnerSets
    <3> QED
      BY <3>1, OwnerMoves
<1> QED
  BY <1>9, <1>10

\* A row is stored upon the record in hand.
LEMMA StoreMoves == ASSUME Inv, alive, ~ abused, NEW o \in Objects, StoreRow(o) PROVE Inv'
<1>1. PerlType /\ Owners /\ Upon
  BY DEF Inv
<1>2. Open(o) /\ obj[o].write_prepared /\ UNCHANGED <<obj, disk, unopened, abused>>
  BY DEF StoreRow
<1>3. /\ Has(o) /\ IsObject(obj[o]) /\ IsInstance(Instance(o)) /\ Reading(Instance(o))
      /\ obj[o].read_prepared => Instance(o).mem.there \/ Instance(o).files # Null
      /\ Instance(o).nffile_w # Null \/ unopened
      /\ Instance(o).written = given[o] /\ (~ tainted[o] => Instance(o).rec = base[o])
  BY <1>1, <1>2 DEF PerlType, Owners, Upon, Has, Instance
<1>4. PICK row, full, x :
        /\ x = Filled(Instance(o).rec, Instance(o).field_list, row)
        /\ full = Filled(base[o], Instance(o).field_list, row).rec
        /\ \/ UNCHANGED <<instances, alive, base, given, tainted>>
           \/ /\ SetInstance(o, [Instance(o) EXCEPT !.rec = x.rec])
              /\ tainted' = [tainted EXCEPT ![o] = TRUE]
              /\ UNCHANGED <<alive, base, given>>
           \/ /\ alive' = (Instance(o).nffile_w # Null)
              /\ SetInstance(o, [Instance(o) EXCEPT !.rec = AfterWrite(x.rec), !.written = Append(@, x.rec)])
              /\ given' = [given EXCEPT ![o] = Append(@, IF tainted[o] THEN x.rec ELSE full)]
              /\ base' = [base EXCEPT ![o] = Rec0]
              /\ tainted' = [tainted EXCEPT ![o] = FALSE]
  BY DEF StoreRow
<1>5. /\ obj' = [obj EXCEPT ![o] = obj[o]] /\ DiskType' /\ Reading(Instance(o)) /\ DOMAIN disk' = DOMAIN disk
      /\ obj[o].state = "open"
  BY <1>1, <1>2, <1>3 DEF PerlType, DiskType, Open
<1>6. CASE UNCHANGED <<instances, alive, base, given, tainted>>
  <2>1. Histories' /\ abused' \in BOOLEAN
    BY <1>1, <1>2, <1>6 DEF PerlType, Histories
  <2> QED
    BY <1>1, <1>2, <1>6, <2>1, NobodyMoves DEF PerlType
<1>7. CASE /\ SetInstance(o, [Instance(o) EXCEPT !.rec = x.rec])
           /\ tainted' = [tainted EXCEPT ![o] = TRUE]
           /\ UNCHANGED <<alive, base, given>>
  <2>1. PICK i, rec : rec = x.rec /\ i = [Instance(o) EXCEPT !.rec = rec]
    OBVIOUS
  <2>2. IsInstance(i) /\ Reading(i) /\ i.mem = Instance(o).mem /\ i.files = Instance(o).files
        /\ i.written = Instance(o).written /\ i.nffile_w = Instance(o).nffile_w
    BY <1>3, <2>1 DEF IsInstance, Reading
  <2>3. /\ Histories' /\ tainted'[o]
        /\ \A p \in Objects \ {o} : given'[p] = given[p] /\ base'[p] = base[p] /\ tainted'[p] = tainted[p]
    BY <1>1, <1>7 DEF PerlType, Histories
  <2>4. <<alive, unopened, abused>>' \in BOOLEAN \X BOOLEAN \X BOOLEAN
    BY <1>1, <1>2, <1>7 DEF PerlType
  <2>5. i.nffile_r \in DOMAIN disk' \cup {Null} /\ SetInstance(o, i)
    BY <1>5, <1>7, <2>1, <2>2 DEF Reading
  <2> QED
    <3>1. OwnerSets(o, i, obj[o])
      BY <1>2, <1>3, <1>5, <1>7, <2>2, <2>3, <2>4, <2>5 DEF OwnerSets
    <3> QED
      BY <3>1, OwnerMoves
<1>8. CASE /\ alive' = (Instance(o).nffile_w # Null)
           /\ SetInstance(o, [Instance(o) EXCEPT !.rec = AfterWrite(x.rec), !.written = Append(@, x.rec)])
           /\ given' = [given EXCEPT ![o] = Append(@, IF tainted[o] THEN x.rec ELSE full)]
           /\ base' = [base EXCEPT ![o] = Rec0]
           /\ tainted' = [tainted EXCEPT ![o] = FALSE]
  <2>1. PICK rec, w : rec = x.rec /\ w = Append(Instance(o).written, rec)
    OBVIOUS
  <2>2. w \in Seq(Range(w))
    <3>1. Instance(o).written \in Seq(Range(Instance(o).written) \cup {rec})
      BY <1>3 DEF IsInstance
    <3>2. w \in Seq(Range(Instance(o).written) \cup {rec})
      BY <2>1, <3>1, AppendProperties
    <3> QED
      BY <3>2, SeqOfRange
  <2>3. PICK i : i = [Instance(o) EXCEPT !.rec = Rec0, !.written = w]
    OBVIOUS
  <2>4. /\ IsInstance(i) /\ Reading(i) /\ i.mem = Instance(o).mem /\ i.files = Instance(o).files
        /\ i.written = w /\ i.nffile_w = Instance(o).nffile_w /\ i.rec = Rec0
    BY <1>3, <2>2, <2>3 DEF IsInstance, Reading
  <2>5. ~ tainted[o] => full = rec
    BY <1>3, <1>4, <2>1
  <2>6. /\ Histories' /\ base'[o] = Rec0 /\ given'[o] = w
        /\ \A p \in Objects \ {o} : given'[p] = given[p] /\ base'[p] = base[p] /\ tainted'[p] = tainted[p]
    <3>1. given'[o] = Append(given[o], IF tainted[o] THEN x.rec ELSE full)
      BY <1>1, <1>8 DEF PerlType, Histories
    <3>2. given'[o] = w
      BY <1>3, <2>1, <2>5, <3>1
    <3> QED
      BY <1>1, <1>8, <3>2 DEF PerlType, Histories
  <2>7. <<alive, unopened, abused>>' \in BOOLEAN \X BOOLEAN \X BOOLEAN
    BY <1>1, <1>2, <1>8 DEF PerlType
  <2>8. i.nffile_r \in DOMAIN disk' \cup {Null} /\ SetInstance(o, i)
    BY <1>5, <1>8, <2>1, <2>3, <2>4 DEF Reading, AfterWrite
  <2>9. alive' \/ unopened'
    BY <1>2, <1>3, <1>8
  <2> QED
    <3>1. OwnerSets(o, i, obj[o])
      BY <1>2, <1>3, <1>5, <2>4, <2>6, <2>7, <2>8, <2>9 DEF OwnerSets
    <3> QED
      BY <3>1, OwnerMoves
<1> QED
  BY <1>4, <1>6, <1>7, <1>8

\* The record of another object
LEMMA CloneMoves == ASSUME Inv, alive, ~ abused, NEW o \in Objects, NEW src \in Objects, CloneRow(o, src) PROVE Inv'
<1>1. PerlType /\ Owners /\ Upon
  BY DEF Inv
<1>2. /\ Open(o) /\ UNCHANGED <<obj, disk, alive, given, unopened>>
      /\ abused' = Trespass(src) /\ abused' \in BOOLEAN
  BY DEF CloneRow, Trespass
<1>3. /\ Has(o) /\ IsObject(obj[o]) /\ IsInstance(Instance(o)) /\ Reading(Instance(o))
      /\ obj[o].read_prepared => Instance(o).mem.there \/ Instance(o).files # Null
      /\ obj[o].write_prepared => Instance(o).nffile_w # Null \/ unopened
      /\ Instance(o).written = given[o]
  BY <1>1, <1>2 DEF PerlType, Owners, Upon, Has, Instance
<1>4. CASE ~ Has(src)
  <2>1. UNCHANGED <<instances, base, tainted>>
    BY <1>4 DEF CloneRow
  <2>2. Histories'
    BY <1>1, <1>2, <2>1 DEF PerlType, Histories
  <2> QED
    BY <1>2, <2>1, <2>2, NobodyMoves
<1>5. CASE Has(src)
  <2>1. PICK rec, i : rec = Instance(src).rec /\ i = [Instance(o) EXCEPT !.rec = rec]
    OBVIOUS
  <2>2. /\ SetInstance(o, i) /\ base' = [base EXCEPT ![o] = rec] /\ tainted' = [tainted EXCEPT ![o] = FALSE]
    BY <1>5, <2>1 DEF CloneRow
  <2>3. /\ IsInstance(i) /\ Reading(i) /\ i.mem = Instance(o).mem /\ i.files = Instance(o).files
        /\ i.written = Instance(o).written /\ i.nffile_w = Instance(o).nffile_w /\ i.rec = rec
    BY <1>3, <2>1 DEF IsInstance, Reading
  <2>4. /\ Histories' /\ base'[o] = rec /\ given'[o] = given[o]
        /\ \A p \in Objects \ {o} : given'[p] = given[p] /\ base'[p] = base[p] /\ tainted'[p] = tainted[p]
    BY <1>1, <1>2, <2>2 DEF PerlType, Histories
  <2>5. <<alive, unopened, abused>>' \in BOOLEAN \X BOOLEAN \X BOOLEAN
    BY <1>1, <1>2 DEF PerlType
  <2>6. /\ obj' = [obj EXCEPT ![o] = obj[o]] /\ DiskType' /\ DOMAIN disk' = DOMAIN disk /\ obj[o].state = "open"
    BY <1>1, <1>2 DEF PerlType, DiskType, Open
  <2>7. i.nffile_r \in DOMAIN disk' \cup {Null} /\ (alive' \/ unopened')
    BY <1>2, <2>3, <2>6 DEF Reading
  <2> QED
    <3>1. OwnerSets(o, i, obj[o])
      BY <1>2, <1>3, <2>2, <2>3, <2>4, <2>5, <2>6, <2>7 DEF OwnerSets
    <3> QED
      BY <3>1, OwnerMoves
<1> QED
  BY <1>4, <1>5

\* The instance is given back, by its owner unless a finished object is used.
LEMMA ClosedMoves ==
  ASSUME Inv, alive, ~ abused, NEW o \in Objects, Closed(o), NEW x, IsObject(x), obj' = [obj EXCEPT ![o] = x],
         x.state # "open", ~ x.read_prepared, ~ x.write_prepared, Open(o) \/ ~ Has(o) \/ abused',
         alive' = alive, unopened' = unopened, abused' \in BOOLEAN, Histories',
         \A p \in Objects \ {o} : given'[p] = given[p] /\ base'[p] = base[p] /\ tainted'[p] = tainted[p]
  PROVE  Inv'
<1> DEFINE h0 == obj[o].handle
<1>1. PerlType /\ Owners /\ Upon
  BY DEF Inv
<1>2. /\ InUse' = InUse \ {h0} /\ instances' = [h \in InUse' |-> instances'[h]]
      /\ \A h \in InUse' : instances'[h] = instances[h]
  BY DEF Closed, InUse
<1>3. /\ obj' = [p \in Objects |-> obj'[p]] /\ obj'[o] = x
      /\ \A p \in Objects \ {o} : obj'[p] = obj[p]
  BY <1>1 DEF PerlType
<1>4. DOMAIN disk' = DOMAIN disk /\ DiskType'
  <2>1. CASE Has(o) /\ Instance(o).nffile_w # Null
    <3>1. PICK w : w = Written(Instance(o)) /\ w \in Seq(Range(w))
      <4>1. Instance(o).written \in Seq(Range(Instance(o).written))
        BY <1>1, <2>1 DEF PerlType, Has, Instance, IsInstance
      <4>2. PICK N \in Nat : DOMAIN Instance(o).written = 1 .. N
        BY <4>1
      <4>3. Written(Instance(o)) = [k \in 1 .. N |-> [bad |-> FALSE, croaks |-> FALSE, rec |-> Instance(o).written[k]]]
        BY <4>2 DEF Written
      <4>4. \A k \in 1 .. N : Instance(o).written[k] \in Range(Instance(o).written)
        BY <4>1, <4>2
      <4>5. Written(Instance(o)) \in Seq([bad : {FALSE}, croaks : {FALSE}, rec : Range(Instance(o).written)])
        BY <4>3, <4>4
      <4> QED
        BY <4>5, SeqOfRange
    <3>2. disk' = [disk EXCEPT ![Instance(o).nffile_w] = w]
      BY <2>1, <3>1 DEF Closed
    <3>3. DOMAIN disk' = DOMAIN disk /\ \A p \in DOMAIN disk : disk'[p] = w \/ disk'[p] = disk[p]
      BY <3>2
    <3> QED
      BY <1>1, <3>1, <3>3 DEF PerlType, DiskType
  <2>2. CASE ~ (Has(o) /\ Instance(o).nffile_w # Null)
    <3>1. disk' = disk
      BY <2>2 DEF Closed
    <3> QED
      BY <1>1, <3>1 DEF PerlType, DiskType
  <2> QED
    BY <2>1, <2>2
<1>5. PerlType'
  <2>1. \A p \in Objects : IsObject(obj[p])'
    BY <1>1, <1>3 DEF PerlType, IsObject
  <2>2. \A h \in InUse' : IsInstance(instances[h])' /\ Reading(instances[h])'
    BY <1>1, <1>2, <1>4 DEF PerlType, IsInstance, IsMem, Heaps, Reading
  <2> QED
    BY <1>1, <1>2, <1>3, <1>4, <2>1, <2>2 DEF PerlType
<1>6. CASE abused'
  BY <1>5, <1>6 DEF Inv, Owners, Upon
<1>7. CASE ~ abused'
  <2>1. ~ Open(o)' /\ \A p \in Objects \ {o} : Open(p)' = Open(p) /\ obj'[p] = obj[p]
    BY <1>3 DEF Open
  <2>2. \A p \in Objects \ {o} : Open(p) => Has(p) /\ obj[p].handle # h0
    BY <1>1, <1>7 DEF Owners, Has
  <2>3. \A p \in Objects \ {o} : Open(p) => Has(p)' /\ Instance(p)' = Instance(p)
    BY <1>2, <2>1, <2>2 DEF Has, Instance
  <2>4. Owners'
    <3>1. ASSUME NEW p \in Objects
          PROVE  \/ ~ Open(p)' /\ ~ obj'[p].read_prepared /\ ~ obj'[p].write_prepared
                 \/ /\ Open(p)' /\ Has(p)'
                    /\ obj'[p].read_prepared => Instance(p)'.mem.there \/ Instance(p)'.files # Null
                    /\ obj'[p].write_prepared => Instance(p)'.nffile_w # Null \/ unopened'
      <4>1. CASE p = o
        BY <1>3, <2>1, <4>1
      <4>2. CASE p # o
        BY <1>1, <2>1, <2>3, <4>2 DEF Owners
      <4> QED
        BY <4>1, <4>2
    <3>2. \A p, q \in Objects : Open(p)' /\ Open(q)' /\ obj'[p].handle = obj'[q].handle => p = q
      BY <1>1, <2>1 DEF Owners
    <3>3. \A h \in InUse' : \E p \in Objects : Open(p)' /\ obj'[p].handle = h
      <4>1. \A h \in InUse : \E p \in Objects : Open(p) /\ obj[p].handle = h
        BY <1>1 DEF Owners
      <4> QED
        BY <1>2, <2>1, <4>1
    <3> QED
      BY <1>1, <3>1, <3>2, <3>3 DEF Owners
  <2>5. Upon'
    BY <1>1, <2>1, <2>3 DEF Upon
  <2> QED
    BY <1>5, <2>4, <2>5 DEF Inv
<1> QED
  BY <1>6, <1>7

\* finish, of an object or of one that is finished
LEMMA FinishMoves == ASSUME Inv, alive, ~ abused, NEW o \in Objects, Finish(o) PROVE Inv'
<1>1. PerlType
  BY DEF Inv
<1>2. PICK x : x = [obj[o] EXCEPT !.state = "closed", !.read_prepared = FALSE, !.write_prepared = FALSE]
  OBVIOUS
<1>3. obj' = [obj EXCEPT ![o] = x]
  <2>1. obj' = [obj EXCEPT ![o].state = "closed", ![o].read_prepared = FALSE, ![o].write_prepared = FALSE]
    BY DEF Finish
  <2> QED
    BY <1>1, <1>2, <2>1 DEF PerlType
<1>4. IsObject(x) /\ x.state # "open" /\ ~ x.read_prepared /\ ~ x.write_prepared
  BY <1>1, <1>2 DEF PerlType, IsObject, Finish
<1>5. Open(o) \/ ~ Has(o) \/ abused'
  BY <1>1 DEF PerlType, IsObject, Finish, Trespass, Open
<1>6. /\ Closed(o) /\ UNCHANGED <<alive, unopened, given, base, tainted>> /\ abused' \in BOOLEAN
  BY DEF Finish, Trespass
<1>7. Histories'
  BY <1>1, <1>6 DEF PerlType, Histories
<1> QED
  BY <1>3, <1>4, <1>5, <1>6, <1>7, ClosedMoves

\* DESTROY closes an object that was not finished.
LEMMA DestroyMoves == ASSUME Inv, alive, ~ abused, NEW o \in Objects, Destroy(o) PROVE Inv'
<1>1. PerlType
  BY DEF Inv
<1>2. Open(o) /\ Closed(o) /\ obj' = [obj EXCEPT ![o] = NoObject] /\ Forget(o) /\ UNCHANGED <<alive, unopened, abused>>
  BY DEF Destroy
<1>3. PICK x : x = NoObject
  OBVIOUS
<1>4. IsObject(x) /\ x.state # "open" /\ ~ x.read_prepared /\ ~ x.write_prepared
  BY <1>3, PerlAssumption DEF IsObject, NoObject, Handles
<1>5. /\ Histories' /\ abused' \in BOOLEAN
      /\ \A p \in Objects \ {o} : given'[p] = given[p] /\ base'[p] = base[p] /\ tainted'[p] = tainted[p]
  BY <1>1, <1>2 DEF PerlType, Histories, Forget
<1> QED
  BY <1>2, <1>3, <1>4, <1>5, ClosedMoves
-----------------------------------------------------------------------------
(***************************************************************************)
(* Who owns what, and what is stored                                       *)
(***************************************************************************)
\* Every step keeps the invariant.
LEMMA InvMoves == Inv /\ [Next]_vars => Inv'
<1> SUFFICES ASSUME Inv, [Next]_vars PROVE Inv'
  OBVIOUS
<1>1. CASE UNCHANGED vars
  BY <1>1, NobodyMoves DEF vars, history, Inv, PerlType, Histories
<1>2. CASE Next
  <2>1. alive /\ ~ abused
    BY <1>2 DEF Next
  <2>2. PICK o \in Objects :
          \/ New(o) \/ Query(o) \/ Fetch(o) \/ Create(o) \/ StoreRow(o)
          \/ \E src \in Objects : CloneRow(o, src)
          \/ Finish(o) \/ Destroy(o)
    BY <1>2 DEF Next
  <2> QED
    BY <2>1, <2>2, NewMoves, QueryMoves, FetchMoves, CreateMoves, StoreMoves, CloneMoves, FinishMoves, DestroyMoves
<1> QED
  BY <1>1, <1>2

\* The invariant: types, owners, and the records in hand, over all methods of Net::NfDump.
THEOREM PerlInvariant == Spec => []Inv
<1>1. Init => Inv
  BY InitInv
<1>2. Inv /\ [Next]_vars => Inv'
  BY InvMoves
<1> QED
  BY <1>1, <1>2, PTL DEF Spec

\* Objects do not share instances, none is left behind, and the process is killed
\* only by a row for a file that could not be created (libnf_init, libnf_finish
\* and whoever looks an instance up by its handle).
THEOREM PerlHandlesOwned == Spec => []HandlesOwned
<1>1. Inv => HandlesOwned
  BY DEF Inv, Owners, HandlesOwned, Open, Has
<1> QED
  BY <1>1, PerlInvariant, PTL

\* What an object has stored is what it was given (libnf_write_row, libnf_copy_row).
THEOREM PerlStoredAsGiven == Spec => []StoredAsGiven
<1>1. Inv => StoredAsGiven
  BY DEF Inv, Upon, StoredAsGiven
<1> QED
  BY <1>1, PerlInvariant, PTL
-----------------------------------------------------------------------------
(***************************************************************************)
(* How a query is answered                                                 *)
(***************************************************************************)

\* Some records have been asked for with opts and some rows of them fetched; the
\* instance i has the others.
Going(i, opts, records, rows) ==
  /\ i.field_list = Names(opts.fields)
  /\ i.mem.there <=> opts.aggreg
  /\ IsSeq(records) /\ IsSeq(rows)
  /\ IF opts.aggreg THEN ByHeap(i.mem, opts.fields, records, rows)
                    ELSE ByList(i, opts.fields, records, rows)

\* What QueryAnswers says of an object
Answer(o) ==
  ended[o] /\ sound[o] /\ obj[o].state # "none" =>
    IF obj[o].opts.aggreg
    THEN /\ Range(got[o]) = {Total(o, rec) : rec \in Range(wanted[o])}
         /\ IsInjective(got[o])
    ELSE got[o] = [k \in DOMAIN wanted[o] |-> Projected(wanted[o][k], obj[o].opts.fields)]

Progress(o) ==
  /\ ended[o] => ~ obj[o].read_prepared
  /\ Open(o) => obj[o].fields \in {obj[o].opts.fields, Stripped(obj[o].opts.fields)}
  /\ obj[o].read_prepared /\ sound[o] => Going(Instance(o), obj[o].opts, wanted[o], got[o])

\* A heap that has not been asked for is empty.
MemsClear == \A h \in InUse : ~ instances[h].mem.there => instances[h].mem = NoMem

\* A file that is written is not read.
Unread == \A h, k \in InUse : instances[h].nffile_w \notin ReadFrom(instances[k])

HistoryType ==
  /\ wanted = [o \in Objects |-> wanted[o]] /\ got = [o \in Objects |-> got[o]]
  /\ ended = [o \in Objects |-> ended[o]] /\ sound = [o \in Objects |-> sound[o]]

\* The other half of the inductive invariant
Answering ==
  /\ \A o \in Objects : Answer(o)
  /\ ~ abused => /\ HistoryType /\ MemsClear /\ Unread
                 /\ \A o \in Objects : Progress(o)

\* A query goes on as long as nobody writes the files it reads,
LEMMA GoingStays ==
  ASSUME NEW i, IsInstance(i), Reading(i), \A p \in ReadFrom(i) : SameFile(p),
         NEW opts, NEW records, NEW rows, Going(i, opts, records, rows)
  PROVE  Going(i, opts, records, rows)'
<1>1. CASE opts.aggreg
  <2>1. ByHeap(i.mem, opts.fields, records, rows)'
    BY <1>1 DEF Going
  <2> QED
    BY <1>1, <2>1 DEF Going, Names, IsSeq
<1>2. CASE ~ opts.aggreg
  <2>1. ByList(i, opts.fields, records, rows) /\ i.files # Null
    BY <1>2 DEF Going, ByList
  <2>2. (Clean(i)' <=> Clean(i)) /\ Rest(i)' = Rest(i)
    BY <2>1, SameDisk
  <2>3. ByList(i, opts.fields, records, rows)'
    BY <2>1, <2>2 DEF ByList, Projected
  <2> QED
    BY <1>2, <2>3 DEF Going, Names, IsSeq
<1> QED
  BY <1>1, <1>2

\* and it is the same query in every instance that has the same list and heap.
LEMMA GoingSame ==
  ASSUME NEW i, NEW j, j.files = i.files, j.nffile_r = i.nffile_r, j.pos = i.pos, j.filter = i.filter,
         j.mem = i.mem, j.field_list = i.field_list,
         NEW opts, NEW records, NEW rows, Going(i, opts, records, rows)
  PROVE  Going(j, opts, records, rows)
<1>1. (Clean(j) <=> Clean(i)) /\ Rest(j) = Rest(i)
  BY SameRest
<1> QED
  BY <1>1 DEF Going, ByList

\* What is asked for does not change by itself,
LEMMA TotalStays ==
  ASSUME NEW o, obj'[o].opts = obj[o].opts, wanted'[o] = wanted[o]
  PROVE  \A rec : Total(o, rec)' = Total(o, rec)
<1> TAKE rec
<1>1. PICK opts, records : opts = obj[o].opts /\ records = wanted[o]
  OBVIOUS
<1>2. PICK opts1, records1 : opts1 = obj'[o].opts /\ records1 = wanted'[o]
  OBVIOUS
<1>3. opts1 = opts /\ records1 = records
  BY <1>1, <1>2
<1>4. Group(o, rec) = {k \in DOMAIN records : \A b \in BitsOf(opts.fields) : Masked(b, records[k].a) = Masked(b, rec.a)}
  BY <1>1 DEF Group
<1>5. Group(o, rec)' = {k \in DOMAIN records1 : \A b \in BitsOf(opts1.fields) : Masked(b, records1[k].a) = Masked(b, rec.a)}
  BY <1>2 DEF Group
<1>6. PICK group : group = Group(o, rec) /\ group = Group(o, rec)'
  BY <1>3, <1>4, <1>5
<1> QED
  BY <1>1, <1>2, <1>3, <1>6 DEF Total

\* nor the answer.
LEMMA AnswerStays ==
  ASSUME NEW o, Answer(o), obj'[o].opts = obj[o].opts, obj[o].state # "none",
         wanted'[o] = wanted[o], got'[o] = got[o], ended'[o] = ended[o], sound'[o] = sound[o]
  PROVE  Answer(o)'
<1>1. PICK opts, records, rows : opts = obj[o].opts /\ records = wanted[o] /\ rows = got[o]
  OBVIOUS
<1>2. opts = obj'[o].opts /\ records = wanted'[o] /\ rows = got'[o]
  BY <1>1
<1>3. \A rec : Total(o, rec)' = Total(o, rec)
  BY TotalStays
<1>4. SUFFICES ASSUME ended[o], sound[o] PROVE
        IF opts.aggreg
        THEN Range(rows) = {Total(o, rec)' : rec \in Range(records)} /\ IsInjective(rows)
        ELSE rows = [k \in DOMAIN records |-> Projected(records[k], opts.fields)]
  BY <1>2 DEF Answer
<1> QED
  BY <1>1, <1>3, <1>4 DEF Answer

\* A step leaves p as it is, and nobody writes what is read.
Stays(p) == /\ obj'[p] = obj[p] /\ wanted'[p] = wanted[p] /\ got'[p] = got[p]
            /\ ended'[p] = ended[p] /\ sound'[p] = sound[p]
            /\ ~ abused' /\ Open(p) => Instance(p)' = Instance(p)
FilesStay == \A h \in InUse : \A q \in ReadFrom(instances[h]) : SameFile(q)

\* With that the query of p goes on.
LEMMA ProgressStays ==
  ASSUME Inv, ~ abused, NEW p \in Objects, Stays(p), FilesStay, Answer(p), Progress(p)
  PROVE  Answer(p)' /\ (~ abused' => Progress(p)')
<1>1. PerlType /\ Owners
  BY DEF Inv
<1>2. /\ obj'[p] = obj[p] /\ wanted'[p] = wanted[p] /\ got'[p] = got[p]
      /\ ended'[p] = ended[p] /\ sound'[p] = sound[p]
      /\ ~ abused' /\ Open(p) => Instance(p)' = Instance(p)
  BY DEF Stays
<1>3. Answer(p)'
  <2>1. CASE obj[p].state = "none"
    BY <1>2, <2>1 DEF Answer
  <2>2. CASE obj[p].state # "none"
    BY <1>2, <2>2, AnswerStays
  <2> QED
    BY <2>1, <2>2
<1>4. ASSUME ~ abused' PROVE Progress(p)'
  <2>1. (ended[p] => ~ obj[p].read_prepared)'
    BY <1>2 DEF Progress
  <2>2. (Open(p) => obj[p].fields \in {obj[p].opts.fields, Stripped(obj[p].opts.fields)})'
    <3>1. PICK x : x = obj[p] /\ x = obj'[p]
      BY <1>2
    <3> QED
      BY <3>1 DEF Progress, Open
  <2>3. (obj[p].read_prepared /\ sound[p] => Going(Instance(p), obj[p].opts, wanted[p], got[p]))'
    <3>1. SUFFICES ASSUME obj[p].read_prepared, sound[p]
                   PROVE  Going(Instance(p), obj[p].opts, wanted[p], got[p])'
      BY <1>2
    <3>2. Open(p) /\ Has(p)
      BY <1>1, <3>1 DEF Owners
    <3>3. PICK i, opts, records, rows :
            i = Instance(p) /\ opts = obj[p].opts /\ records = wanted[p] /\ rows = got[p]
      OBVIOUS
    <3>4. IsInstance(i) /\ Reading(i) /\ (\A q \in ReadFrom(i) : SameFile(q))
      BY <1>1, <3>2, <3>3 DEF PerlType, Has, Instance, FilesStay
    <3>5. Going(i, opts, records, rows)
      BY <3>1, <3>3 DEF Progress
    <3>6. Going(i, opts, records, rows)'
      BY <3>4, <3>5, GoingStays
    <3>7. i = Instance(p)' /\ opts = obj'[p].opts /\ records = wanted'[p] /\ rows = got'[p]
      BY <1>2, <1>4, <3>2, <3>3
    <3> QED
      BY <3>6, <3>7
  <2> QED
    BY <2>1, <2>2, <2>3 DEF Progress
<1> QED
  BY <1>3, <1>4

\* A step of o leaves the others as they are.
LEMMA AnsweringMoves ==
  ASSUME Inv, Answering, ~ abused, NEW o \in Objects, \A p \in Objects \ {o} : Stays(p), FilesStay, Answer(o)',
         ~ abused' => HistoryType' /\ Progress(o)' /\ MemsClear' /\ Unread'
  PROVE  Answering'
<1>1. ASSUME NEW p \in Objects \ {o} PROVE Answer(p)' /\ (~ abused' => Progress(p)')
  <2>1. Stays(p) /\ Answer(p) /\ Progress(p)
    BY DEF Answering
  <2> QED
    BY <2>1, ProgressStays
<1>2. \A p \in Objects : Answer(p)'
  BY <1>1
<1>3. ~ abused' => \A p \in Objects : Progress(p)'
  BY <1>1
<1> QED
  BY <1>2, <1>3 DEF Answering

\* Objects, queries, instances and files stay.
LEMMA NobodyAnswers ==
  ASSUME Inv, Answering, ~ abused, UNCHANGED <<obj, instances, disk, wanted, got, ended, sound>>
  PROVE  Answering'
<1>1. FilesStay
  BY DEF FilesStay, SameFile
<1>2. ASSUME NEW p \in Objects PROVE Answer(p)' /\ (~ abused' => Progress(p)')
  <2>1. Stays(p)
    BY DEF Stays, Instance
  <2>2. Answer(p) /\ Progress(p)
    BY DEF Answering
  <2> QED
    BY <1>1, <2>1, <2>2, ProgressStays
<1>3. HistoryType' /\ MemsClear' /\ Unread'
  BY DEF Answering, HistoryType, MemsClear, Unread, InUse, ReadFrom
<1>4. \A p \in Objects : Answer(p)'
  BY <1>2
<1>5. ~ abused' => \A p \in Objects : Progress(p)'
  BY <1>2
<1> QED
  BY <1>3, <1>4, <1>5 DEF Answering

\* The owner of an instance sets it to i, and the object to x, for which some
\* records have been asked for and some rows fetched.
OwnerAnswers(o, i, x, records, rows) ==
  /\ Open(o) /\ SetInstance(o, i)
  /\ obj' = [obj EXCEPT ![o] = x] /\ x.state = "open" /\ x.handle = obj[o].handle
  /\ wanted' = [wanted EXCEPT ![o] = records] /\ got' = [got EXCEPT ![o] = rows]
  /\ HistoryType'
  /\ \A p \in Objects \ {o} : ended'[p] = ended[p] /\ sound'[p] = sound[p]
  /\ \A h \in InUse : \A q \in ReadFrom(instances[h]) \cup ReadFrom(i) : SameFile(q)
  /\ IsInstance(i) /\ Reading(i)
  /\ i.mem.there \/ i.mem = NoMem
  /\ i.nffile_w \notin ReadFrom(i)
  /\ \A h \in InUse : /\ instances[h].nffile_w \notin ReadFrom(i)
                      /\ i.nffile_w = Instance(o).nffile_w \/ i.nffile_w \notin ReadFrom(instances[h])
  /\ Answer(o)'
  /\ ended'[o] => ~ x.read_prepared
  /\ x.fields \in {x.opts.fields, Stripped(x.opts.fields)}
  /\ x.read_prepared /\ sound'[o] => Going(i, x.opts, records, rows)

LEMMA OwnerAnswering ==
  ASSUME Inv, Answering, ~ abused, NEW o \in Objects, NEW i, NEW x, NEW records, NEW rows,
         OwnerAnswers(o, i, x, records, rows)
  PROVE  Answering'
<1> USE DEF OwnerAnswers
<1>1. PerlType /\ Owners /\ Has(o) /\ MemsClear /\ Unread /\ HistoryType
  BY DEF Inv, Owners, Answering
<1> DEFINE h0 == obj[o].handle
<1>2. /\ h0 \in InUse /\ InUse' = InUse
      /\ \A h \in InUse \ {h0} : instances'[h] = instances[h]
      /\ instances'[h0] = i
  <2>1. h0 \in InUse /\ instances' = [instances EXCEPT ![h0] = i]
    BY <1>1 DEF Has, SetInstance
  <2> HIDE DEF h0
  <2> QED
    BY <1>1, <2>1 DEF PerlType, InUse
<1>3. /\ obj'[o] = x /\ \A p \in Objects \ {o} : obj'[p] = obj[p]
      /\ wanted'[o] = records /\ got'[o] = rows
      /\ \A p \in Objects \ {o} : wanted'[p] = wanted[p] /\ got'[p] = got[p]
  BY <1>1 DEF PerlType, HistoryType
<1>4. Instance(o)' = i
  BY <1>2, <1>3 DEF Instance
<1>5. ASSUME NEW p \in Objects \ {o}, Open(p) PROVE Instance(p)' = Instance(p)
  <2>1. Has(p) /\ obj[p].handle # h0
    BY <1>1, <1>5 DEF Owners
  <2> QED
    BY <1>2, <1>3, <2>1 DEF Has, Instance
<1>6. (\A p \in Objects \ {o} : Stays(p)) /\ FilesStay
  BY <1>3, <1>5 DEF Stays, FilesStay
<1>7. Progress(o)'
  <2>1. Open(o)' /\ x.fields \in {x.opts.fields, Stripped(x.opts.fields)}'
    BY <1>3 DEF Open
  <2>2. (obj[o].read_prepared /\ sound[o] => Going(Instance(o), obj[o].opts, wanted[o], got[o]))'
    <3>1. SUFFICES ASSUME x.read_prepared, sound'[o] PROVE Going(Instance(o), obj[o].opts, wanted[o], got[o])'
      BY <1>3
    <3>2. PICK opts : opts = x.opts
      OBVIOUS
    <3>3. Going(i, opts, records, rows) /\ \A q \in ReadFrom(i) : SameFile(q)
      BY <1>2, <3>1, <3>2
    <3>4. Going(i, opts, records, rows)'
      BY <3>3, GoingStays
    <3> QED
      BY <1>3, <1>4, <3>2, <3>4
  <2>3. (obj[o].fields \in {obj[o].opts.fields, Stripped(obj[o].opts.fields)})'
    BY <1>3, <2>1
  <2>4. (ended[o] => ~ obj[o].read_prepared)'
    BY <1>3
  <2> QED
    BY <2>2, <2>3, <2>4 DEF Progress
<1>8. MemsClear'
  BY <1>1, <1>2 DEF MemsClear
<1>9. Unread'
  <2> SUFFICES ASSUME NEW h \in InUse, NEW k \in InUse PROVE instances'[h].nffile_w \notin ReadFrom(instances[k])'
    BY <1>2 DEF Unread
  <2>1. ReadFrom(instances[k])' = IF k = h0 THEN ReadFrom(i) ELSE ReadFrom(instances[k])
    BY <1>2 DEF ReadFrom
  <2>2. instances'[h] = IF h = h0 THEN i ELSE instances[h]
    BY <1>2
  <2>3. instances[h].nffile_w \notin ReadFrom(instances[k]) /\ instances[h0].nffile_w \notin ReadFrom(instances[k])
    BY <1>1, <1>2 DEF Unread
  <2>4. i.nffile_w = instances[h0].nffile_w \/ i.nffile_w \notin ReadFrom(instances[k])
    BY DEF Instance
  <2> HIDE DEF h0
  <2> QED
    BY <2>1, <2>2, <2>3, <2>4
<1> QED
  BY <1>6, <1>7, <1>8, <1>9, AnsweringMoves

\* Only the record in hand and the rows that are stored are set.
LEMMA RecAnswering ==
  ASSUME Inv, Answering, ~ abused, NEW o \in Objects, Open(o), NEW i, SetInstance(o, i), IsInstance(i),
         i.files = Instance(o).files, i.nffile_r = Instance(o).nffile_r, i.pos = Instance(o).pos,
         i.filter = Instance(o).filter, i.mem = Instance(o).mem, i.field_list = Instance(o).field_list,
         i.nffile_w = Instance(o).nffile_w,
         UNCHANGED <<obj, disk, wanted, got, ended, sound>>
  PROVE  Answering'
<1>1. PerlType /\ Owners /\ Has(o) /\ MemsClear /\ Unread /\ HistoryType /\ Progress(o) /\ Answer(o)
  BY DEF Inv, Owners, Answering
<1>2. PICK x, records, rows : x = obj[o] /\ records = wanted[o] /\ rows = got[o]
  OBVIOUS
<1>3. /\ obj' = [obj EXCEPT ![o] = x] /\ x.state = "open" /\ x.handle = obj[o].handle
      /\ wanted' = [wanted EXCEPT ![o] = records] /\ got' = [got EXCEPT ![o] = rows]
      /\ HistoryType'
  <2>1. obj' = [obj EXCEPT ![o] = x] /\ x.state = "open" /\ x.handle = obj[o].handle
    BY <1>1, <1>2 DEF PerlType, Open
  <2>2. wanted' = [wanted EXCEPT ![o] = records] /\ got' = [got EXCEPT ![o] = rows] /\ HistoryType'
    BY <1>1, <1>2 DEF HistoryType
  <2> QED
    BY <2>1, <2>2
<1>4. obj[o].handle \in InUse /\ Instance(o) = instances[obj[o].handle]
  BY <1>1 DEF Has, Instance
<1>5. ReadFrom(i) = ReadFrom(instances[obj[o].handle])
  BY <1>4 DEF ReadFrom
<1>6. /\ i.mem.there \/ i.mem = NoMem
      /\ i.nffile_w \notin ReadFrom(i)
      /\ \A h \in InUse : /\ instances[h].nffile_w \notin ReadFrom(i)
                          /\ i.nffile_w = Instance(o).nffile_w \/ i.nffile_w \notin ReadFrom(instances[h])
  BY <1>1, <1>4, <1>5 DEF MemsClear, Unread
<1>7. Answer(o)'
  <2>1. obj[o].state # "none"
    BY DEF Open
  <2> QED
    BY <1>1, <2>1, AnswerStays
<1>8. /\ ended'[o] => ~ x.read_prepared
      /\ x.fields \in {x.opts.fields, Stripped(x.opts.fields)}
  BY <1>1, <1>2 DEF Progress
<1>9. x.read_prepared /\ sound'[o] => Going(i, x.opts, records, rows)
  <2> SUFFICES ASSUME x.read_prepared, sound[o] PROVE Going(i, x.opts, records, rows)
    OBVIOUS
  <2>1. PICK j, opts : j = Instance(o) /\ opts = x.opts
    OBVIOUS
  <2>2. Going(j, opts, records, rows)
    BY <1>1, <1>2, <2>1 DEF Progress
  <2> QED
    BY <2>1, <2>2, GoingSame
<1>10. Reading(i) /\ \A h \in InUse : \A q \in ReadFrom(instances[h]) \cup ReadFrom(i) : SameFile(q)
  BY <1>1, <1>4 DEF PerlType, Reading, SameFile
<1>11. OwnerAnswers(o, i, x, records, rows)
  BY <1>3, <1>6, <1>7, <1>8, <1>9, <1>10 DEF OwnerAnswers
<1> QED
  BY <1>11, OwnerAnswering

LEMMA StoreAnswers == ASSUME Inv, Answering, alive, ~ abused, NEW o \in Objects, StoreRow(o) PROVE Answering'
<1>1. Open(o) /\ UNCHANGED <<obj, disk, wanted, got, ended, sound>>
  BY DEF StoreRow
<1>2. IsInstance(Instance(o))
  BY <1>1 DEF Inv, PerlType, Owners, Has, Instance
<1>3. \/ UNCHANGED instances
      \/ \E rec, w : w \in Seq(Range(w)) /\ SetInstance(o, [Instance(o) EXCEPT !.rec = rec, !.written = w])
  <2>1. PICK row, x :
          /\ x = Filled(Instance(o).rec, Instance(o).field_list, row)
          /\ \/ UNCHANGED instances
             \/ SetInstance(o, [Instance(o) EXCEPT !.rec = x.rec])
             \/ SetInstance(o, [Instance(o) EXCEPT !.rec = AfterWrite(x.rec), !.written = Append(@, x.rec)])
    BY DEF StoreRow
  <2>2. CASE SetInstance(o, [Instance(o) EXCEPT !.rec = x.rec])
    <3>1. [Instance(o) EXCEPT !.rec = x.rec, !.written = Instance(o).written] = [Instance(o) EXCEPT !.rec = x.rec]
      BY <1>2 DEF IsInstance
    <3>2. Instance(o).written \in Seq(Range(Instance(o).written))
      BY <1>2 DEF IsInstance
    <3> QED
      BY <2>2, <3>1, <3>2
  <2>3. CASE SetInstance(o, [Instance(o) EXCEPT !.rec = AfterWrite(x.rec), !.written = Append(@, x.rec)])
    <3>1. PICK s, w, rec : s = Instance(o).written /\ rec = x.rec /\ w = Append(s, rec)
      OBVIOUS
    <3>2. IsSeq(s)
      BY <1>2, <3>1 DEF IsInstance, IsSeq
    <3>3. OneMore(s, rec, w)
      BY <3>1, <3>2, RowAppended
    <3> QED
      BY <2>3, <3>1, <3>3 DEF OneMore, IsSeq
  <2> QED
    BY <2>1, <2>2, <2>3
<1>4. CASE UNCHANGED instances
  BY <1>1, <1>4, NobodyAnswers
<1>5. CASE ~ UNCHANGED instances
  <2>1. PICK rec, w : w \in Seq(Range(w)) /\ SetInstance(o, [Instance(o) EXCEPT !.rec = rec, !.written = w])
    BY <1>3, <1>5
  <2>2. PICK i : i = [Instance(o) EXCEPT !.rec = rec, !.written = w]
    OBVIOUS
  <2>3. /\ IsInstance(i) /\ SetInstance(o, i)
        /\ i.files = Instance(o).files /\ i.nffile_r = Instance(o).nffile_r /\ i.pos = Instance(o).pos
        /\ i.filter = Instance(o).filter /\ i.mem = Instance(o).mem /\ i.field_list = Instance(o).field_list
        /\ i.nffile_w = Instance(o).nffile_w
    BY <1>2, <2>1, <2>2 DEF IsInstance
  <2> QED
    BY <1>1, <2>3, RecAnswering
<1> QED
  BY <1>4, <1>5

LEMMA CloneAnswers ==
  ASSUME Inv, Answering, alive, ~ abused, NEW o \in Objects, NEW src \in Objects, CloneRow(o, src)
  PROVE  Answering'
<1>1. Open(o) /\ UNCHANGED <<obj, disk, wanted, got, ended, sound>>
  BY DEF CloneRow
<1>2. IsInstance(Instance(o))
  BY <1>1 DEF Inv, PerlType, Owners, Has, Instance
<1>3. CASE ~ Has(src)
  BY <1>1, <1>3, NobodyAnswers DEF CloneRow
<1>4. CASE Has(src)
  <2>1. PICK rec, i : rec = Instance(src).rec /\ i = [Instance(o) EXCEPT !.rec = rec]
    OBVIOUS
  <2>2. /\ IsInstance(i) /\ SetInstance(o, i)
        /\ i.files = Instance(o).files /\ i.nffile_r = Instance(o).nffile_r /\ i.pos = Instance(o).pos
        /\ i.filter = Instance(o).filter /\ i.mem = Instance(o).mem /\ i.field_list = Instance(o).field_list
        /\ i.nffile_w = Instance(o).nffile_w
    BY <1>2, <1>4, <2>1 DEF IsInstance, CloneRow
  <2> QED
    BY <1>1, <2>2, RecAnswering
<1> QED
  BY <1>3, <1>4

\* The file that is created is read by nobody, and the names of the fields stay.
LEMMA CreateAnswers == ASSUME Inv, Answering, alive, ~ abused, NEW o \in Objects, Create(o) PROVE Answering'
<1>1. PerlType /\ Owners /\ MemsClear /\ Unread /\ HistoryType /\ Progress(o) /\ Answer(o)
  BY DEF Inv, Answering
<1>2. Open(o) /\ Has(o) /\ UNCHANGED <<wanted, got, ended, sound, abused>>
  BY <1>1 DEF Create, Owners
<1>3. IsObject(obj[o]) /\ obj[o].opts \in Options /\ IsInstance(Instance(o)) /\ Reading(Instance(o))
  <2>1. IsObject(obj[o]) /\ obj[o].state # "none"
    BY <1>1, <1>2 DEF PerlType, Open
  <2> QED
    BY <1>1, <1>2, <2>1 DEF IsObject, PerlType, Has, Instance
<1>4. PICK x : x = [obj[o] EXCEPT !.write_prepared = TRUE, !.fields = Stripped(@)]
  OBVIOUS
<1>5. obj' = [obj EXCEPT ![o] = x]
  <2>1. obj' = [obj EXCEPT ![o].write_prepared = TRUE, ![o].fields = Stripped(@)]
    BY DEF Create
  <2> QED
    BY <1>1, <1>4, <2>1 DEF PerlType
<1>6. /\ x.state = "open" /\ x.handle = obj[o].handle /\ x.read_prepared = obj[o].read_prepared
      /\ x.opts = obj[o].opts /\ x.fields = Stripped(obj[o].fields)
  BY <1>2, <1>3, <1>4 DEF IsObject, Open
<1>7. PICK path, names : path = obj[o].opts.out /\ names = Names(obj[o].fields)
  OBVIOUS
<1>8. PICK w, i :
        /\ i = [Instance(o) EXCEPT !.nffile_w = w, !.field_list = names] /\ SetInstance(o, i)
        /\ \/ w = Instance(o).nffile_w /\ disk' = disk
           \/ w = path /\ disk' = [p \in DOMAIN disk \cup {path} |-> IF p = path THEN <<>> ELSE disk[p]]
  <2>1. CASE path = Denied
    <3>1. disk' = disk /\ SetInstance(o, [Instance(o) EXCEPT !.field_list = names])
      BY <1>7, <2>1 DEF Create
    <3>2. [Instance(o) EXCEPT !.field_list = names]
            = [Instance(o) EXCEPT !.nffile_w = Instance(o).nffile_w, !.field_list = names]
      BY <1>3 DEF IsInstance
    <3> QED
      BY <3>1, <3>2
  <2>2. CASE path # Denied
    BY <1>7, <2>2 DEF Create
  <2> QED
    BY <2>1, <2>2
<1>9. /\ IsInstance(i) /\ i.files = Instance(o).files /\ i.nffile_r = Instance(o).nffile_r
      /\ i.pos = Instance(o).pos /\ i.filter = Instance(o).filter /\ i.mem = Instance(o).mem
      /\ i.field_list = names /\ i.nffile_w = w
  BY <1>3, <1>8 DEF IsInstance
<1>10. Reading(i) /\ ReadFrom(i) = ReadFrom(Instance(o))
  BY <1>3, <1>9 DEF Reading, ReadFrom
<1>11. obj[o].handle \in InUse /\ Instance(o) = instances[obj[o].handle]
  BY <1>2 DEF Has, Instance
<1>12. \A h \in InUse : path \notin ReadFrom(instances[h])
  <2> SUFFICES ASSUME NEW h \in InUse PROVE path \notin ReadFrom(instances[h])
    OBVIOUS
  <2>1. /\ path \notin {instances[h].nffile_r, instances[h].nffile_w}
        /\ instances[h].files # Null => path \notin Range(instances[h].files)
    BY <1>7 DEF Create
  <2> QED
    BY <2>1 DEF ReadFrom
<1>13. \A h \in InUse : \A q \in ReadFrom(instances[h]) : SameFile(q)
  <2>1. \A q : q # path => SameFile(q)
    BY <1>8 DEF SameFile
  <2> QED
    BY <1>12, <2>1
<1>14. PICK records, rows : records = wanted[o] /\ rows = got[o]
  OBVIOUS
<1>15. wanted' = [wanted EXCEPT ![o] = records] /\ got' = [got EXCEPT ![o] = rows] /\ HistoryType'
  BY <1>1, <1>2, <1>14 DEF HistoryType
<1>16. Answer(o)'
  <2>1. obj[o].state # "none" /\ obj'[o].opts = obj[o].opts
    BY <1>1, <1>2, <1>5, <1>6 DEF Open, PerlType
  <2> QED
    BY <1>1, <1>2, <2>1, AnswerStays
<1>17. PICK opts \in Options : opts = obj[o].opts /\ IsFields(opts.fields)
  BY <1>3, PerlAssumption DEF IsFields
<1>18. x.fields \in {opts.fields, Stripped(opts.fields)} /\ names = Names(opts.fields)
  <2>1. obj[o].fields \in {opts.fields, Stripped(opts.fields)}
    BY <1>1, <1>2, <1>17 DEF Progress
  <2>2. Names(Stripped(opts.fields)) = Names(opts.fields) /\ Stripped(Stripped(opts.fields)) = Stripped(opts.fields)
    BY <1>17, StrippedIs
  <2> QED
    BY <1>6, <1>7, <2>1, <2>2
<1>19. ended'[o] => ~ x.read_prepared
  BY <1>1, <1>2, <1>6 DEF Progress
<1>20. x.read_prepared /\ sound'[o] => Going(i, x.opts, records, rows)
  <2> SUFFICES ASSUME obj[o].read_prepared, sound[o] PROVE Going(i, opts, records, rows)
    BY <1>2, <1>6, <1>17
  <2>1. PICK j : j = Instance(o)
    OBVIOUS
  <2>2. Going(j, opts, records, rows)
    BY <1>1, <1>14, <1>17, <2>1 DEF Progress
  <2>3. i.field_list = j.field_list
    BY <1>9, <1>18, <2>2 DEF Going
  <2> QED
    BY <1>9, <2>1, <2>2, <2>3, GoingSame
<1>21. /\ i.mem.there \/ i.mem = NoMem
       /\ i.nffile_w \notin ReadFrom(i)
       /\ \A h \in InUse : /\ instances[h].nffile_w \notin ReadFrom(i)
                           /\ i.nffile_w = Instance(o).nffile_w \/ i.nffile_w \notin ReadFrom(instances[h])
  <2>1. i.mem.there \/ i.mem = NoMem
    BY <1>1, <1>9, <1>11 DEF MemsClear
  <2>2. \A h \in InUse : i.nffile_w \notin ReadFrom(instances[h])
    BY <1>1, <1>8, <1>9, <1>11, <1>12 DEF Unread
  <2>3. \A h \in InUse : instances[h].nffile_w \notin ReadFrom(i)
    BY <1>1, <1>10, <1>11 DEF Unread
  <2> QED
    BY <1>10, <1>11, <2>1, <2>2, <2>3
<1>22. OwnerAnswers(o, i, x, records, rows)
  <2>1. \A h \in InUse : \A q \in ReadFrom(instances[h]) \cup ReadFrom(i) : SameFile(q)
    BY <1>10, <1>11, <1>13
  <2>2. x.fields \in {x.opts.fields, Stripped(x.opts.fields)}
    BY <1>6, <1>17, <1>18
  <2> QED
    BY <1>2, <1>5, <1>6, <1>8, <1>9, <1>10, <1>15, <1>16, <1>19, <1>20, <1>21, <2>1, <2>2 DEF OwnerAnswers
<1> QED
  BY <1>22, OwnerAnswering

\* A file that gets its rows is read by nobody, and nobody has the instance that
\* is given back unless a finished object is used.
LEMMA ClosedAnswers ==
  ASSUME Inv, Answering, ~ abused, NEW o \in Objects, Closed(o), NEW x, obj' = [obj EXCEPT ![o] = x],
         x.state # "open", ~ x.read_prepared, Open(o) \/ ~ Has(o) \/ abused', HistoryType', Answer(o)',
         \A p \in Objects \ {o} : /\ wanted'[p] = wanted[p] /\ got'[p] = got[p]
                                  /\ ended'[p] = ended[p] /\ sound'[p] = sound[p]
  PROVE  Answering'
<1> DEFINE h0 == obj[o].handle
<1>1. PerlType /\ Owners /\ MemsClear /\ Unread
  BY DEF Inv, Answering
<1>2. /\ InUse' = InUse \ {h0} /\ \A h \in InUse' : instances'[h] = instances[h]
  BY DEF Closed, InUse
<1>3. obj'[o] = x /\ \A p \in Objects \ {o} : obj'[p] = obj[p]
  BY <1>1 DEF PerlType
<1>4. FilesStay
  <2> SUFFICES ASSUME NEW h \in InUse, NEW q \in ReadFrom(instances[h]) PROVE SameFile(q)
    BY DEF FilesStay
  <2>1. CASE Has(o) /\ Instance(o).nffile_w # Null
    <3>1. Instance(o).nffile_w # q
      BY <1>1, <2>1 DEF Unread, Has, Instance
    <3>2. PICK w, p : w = Written(Instance(o)) /\ p = Instance(o).nffile_w
      OBVIOUS
    <3>3. disk' = [disk EXCEPT ![p] = w]
      BY <2>1, <3>2 DEF Closed
    <3> QED
      BY <3>1, <3>2, <3>3 DEF SameFile
  <2>2. CASE ~ (Has(o) /\ Instance(o).nffile_w # Null)
    BY <2>2 DEF Closed, SameFile
  <2> QED
    BY <2>1, <2>2
<1>5. ASSUME NEW p \in Objects \ {o} PROVE Stays(p)
  <2>1. ASSUME ~ abused', Open(p) PROVE Instance(p)' = Instance(p)
    <3>1. Has(p) /\ obj[p].handle # h0
      BY <1>1, <2>1 DEF Owners, Has
    <3>2. obj[p].handle \in InUse'
      BY <1>2, <3>1 DEF Has
    <3> QED
      BY <1>2, <1>3, <3>2 DEF Instance
  <2> QED
    BY <1>3, <2>1 DEF Stays
<1>6. Progress(o)'
  <2>1. (~ obj[o].read_prepared)' /\ ~ Open(o)'
    BY <1>3 DEF Open
  <2> QED
    BY <2>1 DEF Progress
<1>7. MemsClear' /\ Unread'
  <2>1. \A h \in InUse' : h \in InUse /\ ReadFrom(instances[h])' = ReadFrom(instances[h])
    BY <1>2 DEF ReadFrom
  <2> QED
    BY <1>1, <1>2, <2>1 DEF MemsClear, Unread
<1> QED
  BY <1>4, <1>5, <1>6, <1>7, AnsweringMoves

LEMMA FinishAnswers == ASSUME Inv, Answering, alive, ~ abused, NEW o \in Objects, Finish(o) PROVE Answering'
<1>1. PerlType /\ HistoryType /\ Answer(o)
  BY DEF Inv, Answering
<1>2. PICK x : x = [obj[o] EXCEPT !.state = "closed", !.read_prepared = FALSE, !.write_prepared = FALSE]
  OBVIOUS
<1>3. obj' = [obj EXCEPT ![o] = x]
  <2>1. obj' = [obj EXCEPT ![o].state = "closed", ![o].read_prepared = FALSE, ![o].write_prepared = FALSE]
    BY DEF Finish
  <2> QED
    BY <1>1, <1>2, <2>1 DEF PerlType
<1>4. x.state # "open" /\ ~ x.read_prepared /\ x.opts = obj[o].opts
  BY <1>1, <1>2 DEF PerlType, IsObject
<1>5. Open(o) \/ ~ Has(o) \/ abused'
  BY <1>1 DEF PerlType, IsObject, Finish, Trespass, Open
<1>6. Closed(o) /\ UNCHANGED <<wanted, got, ended, sound>> /\ obj[o].state # "none"
  BY DEF Finish
<1>7. HistoryType'
  BY <1>1, <1>6 DEF HistoryType
<1>8. Answer(o)'
  <2>1. obj'[o].opts = obj[o].opts
    BY <1>1, <1>3, <1>4 DEF PerlType
  <2> QED
    BY <1>1, <1>6, <2>1, AnswerStays
<1> QED
  BY <1>3, <1>4, <1>5, <1>6, <1>7, <1>8, ClosedAnswers

LEMMA DestroyAnswers == ASSUME Inv, Answering, alive, ~ abused, NEW o \in Objects, Destroy(o) PROVE Answering'
<1>1. PerlType /\ HistoryType
  BY DEF Inv, Answering
<1>2. Open(o) /\ Closed(o) /\ obj' = [obj EXCEPT ![o] = NoObject] /\ Forget(o)
  BY DEF Destroy
<1>3. PICK x : x = NoObject
  OBVIOUS
<1>4. x.state # "open" /\ ~ x.read_prepared
  BY <1>3 DEF NoObject
<1>5. /\ HistoryType' /\ ~ ended'[o]
      /\ \A p \in Objects \ {o} : /\ wanted'[p] = wanted[p] /\ got'[p] = got[p]
                                  /\ ended'[p] = ended[p] /\ sound'[p] = sound[p]
  BY <1>1, <1>2 DEF HistoryType, Forget
<1>6. Answer(o)'
  BY <1>5 DEF Answer
<1> QED
  BY <1>2, <1>3, <1>4, <1>5, <1>6, ClosedAnswers

\* A new object has asked for nothing.
LEMMA NewAnswers == ASSUME Inv, Answering, alive, ~ abused, NEW o \in Objects, New(o) PROVE Answering'
<1>1. PerlType /\ Owners /\ MemsClear /\ Unread /\ HistoryType
  BY DEF Inv, Answering
<1>2. CASE FreeHandles = {}
  BY <1>2, NobodyAnswers DEF New, history
<1>3. CASE FreeHandles # {}
  <2>1. PICK opts, h :
          /\ h = Min(FreeHandles)
          /\ instances' = [k \in InUse \cup {h} |-> IF k = h THEN NewInstance ELSE instances[k]]
          /\ obj' = [obj EXCEPT ![o] = [NoObject EXCEPT !.state = "open", !.handle = h,
                                                       !.opts = opts, !.fields = opts.fields]]
          /\ Forget(o) /\ UNCHANGED <<abused, disk>>
    BY <1>3 DEF New
  <2>2. h \notin InUse
    <3>1. FreeHandles \subseteq Nat
      BY PerlAssumption DEF FreeHandles, Handles
    <3>2. PICK y \in FreeHandles : \A z \in FreeHandles : y <= z
      BY <1>3, <3>1, NatLeast
    <3>3. h \in FreeHandles
      BY <2>1, <3>2 DEF Min
    <3> QED
      BY <3>3 DEF FreeHandles, Usable
  <2>3. PICK x : x = [NoObject EXCEPT !.state = "open", !.handle = h, !.opts = opts, !.fields = opts.fields]
    OBVIOUS
  <2>4. x.state = "open" /\ ~ x.read_prepared /\ x.fields = x.opts.fields
    BY <2>3 DEF NoObject
  <2>5. obj'[o] = x /\ \A p \in Objects \ {o} : obj'[p] = obj[p]
    BY <1>1, <2>1, <2>3 DEF PerlType
  <2>6. /\ InUse' = InUse \cup {h} /\ instances'[h] = NewInstance
        /\ \A k \in InUse : instances'[k] = instances[k]
    BY <2>1, <2>2 DEF InUse
  <2>7. /\ HistoryType' /\ ~ ended'[o] /\ ~ sound'[o]
        /\ \A p \in Objects \ {o} : /\ wanted'[p] = wanted[p] /\ got'[p] = got[p]
                                    /\ ended'[p] = ended[p] /\ sound'[p] = sound[p]
    BY <1>1, <2>1 DEF HistoryType, Forget
  <2>8. FilesStay
    BY <2>1 DEF FilesStay, SameFile
  <2>9. ASSUME NEW p \in Objects \ {o} PROVE Stays(p)
    <3>1. Open(p) => Instance(p)' = Instance(p)
      BY <1>1, <2>5, <2>6 DEF Owners, Has, Instance
    <3> QED
      BY <2>5, <2>7, <3>1 DEF Stays
  <2>10. Answer(o)'
    BY <2>7 DEF Answer
  <2>11. Progress(o)'
    <3>1. (Open(o) => obj[o].fields \in {obj[o].opts.fields, Stripped(obj[o].opts.fields)})'
      BY <2>4, <2>5
    <3> QED
      BY <2>4, <2>5, <2>7, <3>1 DEF Progress
  <2>12. MemsClear'
    <3>1. instances'[h].mem = NoMem
      BY <2>6 DEF NewInstance
    <3> QED
      BY <1>1, <2>6, <3>1 DEF MemsClear
  <2>13. Unread'
    <3> SUFFICES ASSUME NEW k \in InUse', NEW l \in InUse' PROVE instances'[k].nffile_w \notin ReadFrom(instances[l])'
      BY DEF Unread
    <3>1. CASE l = h
      <4>1. ReadFrom(instances[l])' = {}
        BY <2>6, <3>1 DEF ReadFrom, NewInstance
      <4> QED
        BY <4>1
    <3>2. CASE l # h
      <4>1. l \in InUse /\ ReadFrom(instances[l])' = ReadFrom(instances[l])
        BY <2>6, <3>2 DEF ReadFrom
      <4>2. CASE k = h
        <5>1. instances'[k].nffile_w = Null
          BY <2>6, <4>2 DEF NewInstance
        <5>2. IsInstance(instances[l])
          BY <1>1, <4>1 DEF PerlType
        <5> QED
          BY <4>1, <5>1, <5>2, NullUnread
      <4>3. CASE k # h
        BY <1>1, <2>6, <4>1, <4>3 DEF Unread
      <4> QED
        BY <4>2, <4>3
    <3> QED
      BY <3>1, <3>2
  <2> QED
    BY <2>7, <2>8, <2>9, <2>10, <2>11, <2>12, <2>13, AnsweringMoves
<1> QED
  BY <1>2, <1>3

\* Nothing of a query has been fetched yet.
LEMMA NothingFetched ==
  /\ IsSeq(<<>>) /\ Len(<<>>) = 0 /\ Range(<<>>) = {} /\ IsInjective(<<>>)
  /\ \A records, fields : <<>> = [k \in 1 .. 0 |-> Projected(records[k], fields)]
  /\ \A R, s : s \in Seq(R) => SubSeq(s, 0 + 1, Len(s)) = s /\ Len(s) \in Nat /\ <<>> \o s = s
<1>1. Range(<<>>) = {} /\ IsInjective(<<>>) /\ Len(<<>>) = 0 /\ \A R : <<>> \in Seq(R)
  BY DEF Range, IsInjective
<1>2. IsSeq(<<>>)
  BY <1>1 DEF IsSeq
<1>3. 1 .. 0 = {}
  OBVIOUS
<1>4. \A records, fields : <<>> = [k \in 1 .. 0 |-> Projected(records[k], fields)]
  BY <1>3
<1>5. ASSUME NEW R, NEW s \in Seq(R) PROVE SubSeq(s, 0 + 1, Len(s)) = s /\ Len(s) \in Nat /\ <<>> \o s = s
  <2>1. SubSeq(s, 1, Len(s)) = s /\ <<>> \o s = s
    BY SubSeqFull, ConcatEmptySeq
  <2> QED
    BY <2>1
<1> QED
  BY <1>1, <1>2, <1>4, <1>5

\* A query that is sound begins with all the records it asks for.
LEMMA QueryBegins ==
  ASSUME PerlType, MemsClear, NEW o \in Objects, Has(o), NEW opts \in Options, opts = obj[o].opts,
         NEW q, q = ReadFiles(Instance(o), opts, obj[o].fields), Sound(o, q),
         NEW records, records = AllMatching(opts.files, opts.filter)
  PROVE  Going(q.inst, opts, records, <<>>)
<1>1. /\ q.outcome = "end" /\ ~ Instance(o).mem.there /\ obj[o].fields = opts.fields /\ AllGood(opts.files)
      /\ q.inst.mem.there <=> opts.aggreg
      /\ opts.aggreg => \A b, c \in BitsOf(opts.fields) : b = c
  BY DEF Sound, AllGood
<1>2. PICK i : i = Instance(o) /\ IsInstance(i) /\ i.mem = NoMem
  BY <1>1 DEF PerlType, MemsClear, Has, Instance
<1>3. PICK m : m = WithFields(NoMem, opts, opts.fields)
  OBVIOUS
<1>4. PICK j : j = q.inst
  OBVIOUS
<1>5. Asked(i, opts, opts.fields, m, q)
  BY <1>1, <1>2, <1>3, FilesRead DEF PerlType
<1>6. /\ j.field_list = Names(opts.fields) /\ j.mem.there = m.there
      /\ j.mem \in Heaps(m, Range(j.mem.written))
      /\ m.there => j.mem.written = m.written \o records
      /\ ~ m.there => Clean(j) /\ j.files # Null /\ Rest(j) = records
  BY <1>1, <1>4, <1>5 DEF Asked
<1>7. PICK R : records \in Seq(R) /\ IsSeq(records)
  <2>1. opts.files \in Seq(STRING)
    BY PerlAssumption
  <2>2. AllMatching(opts.files, opts.filter) \in Seq(DiskRecs) /\ IsSeq(AllMatching(opts.files, opts.filter))
    BY <2>1, AskedFor DEF PerlType
  <2> QED
    BY <2>2
<1>8. SubSeq(records, 0 + 1, Len(records)) = records /\ Len(records) \in Nat /\ <<>> \o records = records
  BY <1>7, NothingFetched
<1>9. CASE opts.aggreg
  <2>1. m.there
    BY <1>1, <1>4, <1>6, <1>9
  <2>2. IsFields(opts.fields)
    BY PerlAssumption DEF IsFields
  <2>3. m.written = <<>> /\ m.returned = {} /\ HeapFor(m, opts.fields)
    BY <1>1, <1>3, <1>9, <2>1, <2>2, HeapOfFields
  <2>4. j.mem.list = m.list /\ j.mem.bits = m.bits /\ j.mem.sum = m.sum /\ j.mem.returned = {}
    BY <1>6, <2>3 DEF Heaps
  <2>5. HeapFor(j.mem, opts.fields)
    BY <2>3, <2>4 DEF HeapFor
  <2>6. j.mem.written = records
    BY <1>6, <1>8, <2>1, <2>3
  <2>7. ByHeap(j.mem, opts.fields, records, <<>>)
    BY <2>4, <2>5, <2>6, NothingFetched DEF ByHeap
  <2> QED
    BY <1>1, <1>4, <1>6, <1>7, <1>9, <2>7, NothingFetched DEF Going
<1>10. CASE ~ opts.aggreg
  <2>1. Clean(j) /\ j.files # Null /\ Rest(j) = records
    BY <1>1, <1>4, <1>6, <1>10
  <2>2. PICK rows : rows = <<>> /\ Len(rows) = 0 /\ rows = [k \in 1 .. 0 |-> Projected(records[k], opts.fields)]
    BY NothingFetched
  <2>3. ByList(j, opts.fields, records, rows)
    BY <1>8, <2>1, <2>2 DEF ByList
  <2> QED
    BY <1>1, <1>4, <1>6, <1>7, <1>10, <2>2, <2>3, NothingFetched DEF Going
<1> QED
  BY <1>9, <1>10

LEMMA QueryAnswered == ASSUME Inv, Answering, alive, ~ abused, NEW o \in Objects, Query(o) PROVE Answering'
<1>1. PerlType /\ Owners /\ MemsClear /\ Unread /\ HistoryType /\ Progress(o)
  BY DEF Inv, Answering
<1>2. PICK records, rows : records = AllMatching(obj[o].opts.files, obj[o].opts.filter) /\ rows = <<>>
  OBVIOUS
<1>3. /\ wanted' = [wanted EXCEPT ![o] = records] /\ got' = [got EXCEPT ![o] = rows]
      /\ ended' = [ended EXCEPT ![o] = FALSE] /\ disk' = disk
      /\ obj[o].state # "none" /\ MayQuery(o) /\ abused' = Trespass(o)
  BY <1>2 DEF Query, NoteQuery
<1>4. \A p \in Objects \ {o} : sound'[p] = sound[p]
  BY <1>1 DEF Query, HistoryType
<1>5. HistoryType'
  <2>1. \E v : sound' = [sound EXCEPT ![o] = v]
    BY DEF Query
  <2> QED
    BY <1>1, <1>3, <2>1 DEF HistoryType
<1>6. /\ ~ ended'[o]
      /\ \A p \in Objects \ {o} : wanted'[p] = wanted[p] /\ got'[p] = got[p] /\ ended'[p] = ended[p]
  BY <1>1, <1>3 DEF HistoryType
<1>7. Answer(o)'
  BY <1>6 DEF Answer
<1>8. FilesStay
  BY <1>3 DEF FilesStay, SameFile
<1>9. CASE obj[o].opts.files = <<>> \/ ~ Has(o)
  <2>1. UNCHANGED <<obj, instances>> /\ sound' = [sound EXCEPT ![o] = FALSE]
    BY <1>9 DEF Query
  <2>2. \A p \in Objects \ {o} : Stays(p)
    BY <1>4, <1>6, <2>1 DEF Stays, Instance
  <2>3. Progress(o)'
    <3>1. ~ sound'[o]
      BY <1>1, <2>1 DEF HistoryType
    <3>2. (Open(o) => obj[o].fields \in {obj[o].opts.fields, Stripped(obj[o].opts.fields)})'
      <4>1. PICK x : x = obj[o] /\ x = obj'[o]
        BY <2>1
      <4> QED
        BY <1>1, <4>1 DEF Progress, Open
    <3> QED
      BY <1>6, <3>1, <3>2 DEF Progress
  <2>4. MemsClear' /\ Unread'
    BY <1>1, <2>1 DEF MemsClear, Unread, InUse, ReadFrom
  <2> QED
    BY <1>5, <1>7, <1>8, <2>2, <2>3, <2>4, AnsweringMoves
<1>10. CASE ~ (obj[o].opts.files = <<>> \/ ~ Has(o))
  <2>1. IsObject(obj[o]) /\ Has(o) /\ IsInstance(Instance(o)) /\ obj[o].handle \in InUse
    BY <1>1, <1>10 DEF PerlType, Has, Instance
  <2>2. PICK opts \in Options : opts = obj[o].opts
    BY <1>3, <2>1 DEF IsObject
  <2>3. PICK fields, q : fields = obj[o].fields /\ q = ReadFiles(Instance(o), opts, fields)
    OBVIOUS
  <2>4. /\ SetInstance(o, q.inst)
        /\ obj' = [obj EXCEPT ![o].fields = Stripped(@), ![o].read_prepared = @ \/ q.outcome = "end"]
        /\ sound' = [sound EXCEPT ![o] = Sound(o, q)]
    BY <1>10, <2>2, <2>3 DEF Query
  <2>5. PICK x : x = [obj[o] EXCEPT !.fields = Stripped(@), !.read_prepared = @ \/ q.outcome = "end"]
    OBVIOUS
  <2>6. obj' = [obj EXCEPT ![o] = x]
    BY <1>1, <2>4, <2>5 DEF PerlType
  <2>7. x.state = obj[o].state /\ x.handle = obj[o].handle /\ x.opts = opts /\ x.fields = Stripped(fields)
    BY <2>1, <2>2, <2>3, <2>5 DEF IsObject
  <2>8. CASE ~ Open(o)
    <3>1. abused'
      BY <1>3, <2>1, <2>8 DEF Trespass, Open, IsObject
    <3>2. \A p \in Objects \ {o} : Stays(p)
      <4>1. \A p \in Objects \ {o} : obj'[p] = obj[p]
        BY <1>1, <2>6 DEF PerlType
      <4> QED
        BY <1>4, <1>6, <3>1, <4>1 DEF Stays
    <3> QED
      BY <1>5, <1>7, <1>8, <3>1, <3>2, AnsweringMoves
  <2>9. CASE Open(o)
    <3>1. PICK i, m : i = q.inst /\ m = WithFields(Instance(o).mem, opts, fields)
      OBVIOUS
    <3>2. Asked(Instance(o), opts, fields, m, q)
      <4>1. PICK j : j = Instance(o)
        OBVIOUS
      <4> QED
        BY <1>1, <2>1, <2>3, <3>1, <4>1, FilesRead DEF PerlType
    <3>3. /\ IsInstance(i) /\ Reading(i) /\ i.nffile_w = Instance(o).nffile_w
          /\ ReadFrom(i) \subseteq Range(opts.files)
          /\ i.mem.there = m.there /\ (~ m.there => i.mem = m)
      BY <3>1, <3>2 DEF Asked, Kept
    <3>4. i.mem.there \/ i.mem = NoMem
      <4> SUFFICES ASSUME ~ m.there PROVE m = NoMem
        BY <3>3
      <4>1. CASE HeapFields(opts, fields) = {}
        <5>1. m = Instance(o).mem
          BY <3>1, <4>1 DEF WithFields
        <5> QED
          BY <1>1, <2>1, <5>1 DEF MemsClear, Instance
      <4>2. CASE HeapFields(opts, fields) # {}
        <5>1. PICK b, s, l : m = [Instance(o).mem EXCEPT !.there = TRUE, !.bits = b, !.sum = s, !.list = l]
          BY <2>1, <3>1, <4>2 DEF WithFields, IsInstance, IsMem, Heaps
        <5>2. m.there
          BY <2>1, <5>1 DEF IsInstance, IsMem, Heaps
        <5> QED
          BY <5>2
      <4> QED
        BY <4>1, <4>2
    <3>5. /\ i.nffile_w \notin ReadFrom(i)
          /\ \A h \in InUse : /\ instances[h].nffile_w \notin ReadFrom(i)
                              /\ i.nffile_w = Instance(o).nffile_w \/ i.nffile_w \notin ReadFrom(instances[h])
      <4>1. \A h \in InUse : instances[h].nffile_w \notin Range(opts.files)
        BY <1>3, <2>2 DEF MayQuery
      <4> QED
        BY <2>1, <3>3, <4>1 DEF Instance
    <3>6. x.fields \in {x.opts.fields, Stripped(x.opts.fields)}
      <4>1. fields \in {opts.fields, Stripped(opts.fields)}
        BY <1>1, <2>2, <2>3, <2>9 DEF Progress
      <4>2. Stripped(Stripped(opts.fields)) = Stripped(opts.fields)
        <5>1. IsFields(opts.fields)
          BY PerlAssumption DEF IsFields
        <5> QED
          BY <5>1, StrippedIs
      <4> QED
        BY <2>7, <4>1, <4>2
    <3>7. ASSUME sound'[o] PROVE Going(i, opts, records, rows)
      <4>1. Sound(o, q)
        BY <1>1, <2>4, <3>7 DEF HistoryType
      <4> QED
        BY <1>1, <1>2, <2>1, <2>2, <2>3, <3>1, <4>1, QueryBegins
    <3>8. \A h \in InUse : \A p \in ReadFrom(instances[h]) \cup ReadFrom(i) : SameFile(p)
      BY <1>3 DEF SameFile
    <3>9. \A p \in Objects \ {o} : ended'[p] = ended[p] /\ sound'[p] = sound[p]
      BY <1>4, <1>6
    <3>10. SetInstance(o, i) /\ x.state = "open"
      BY <2>4, <2>7, <2>9, <3>1 DEF Open
    <3>11. OwnerAnswers(o, i, x, records, rows)
      BY <1>3, <1>5, <1>6, <1>7, <2>6, <2>7, <2>9, <3>3, <3>4, <3>5, <3>6, <3>7, <3>8, <3>9, <3>10 DEF OwnerAnswers
    <3> QED
      BY <3>11, OwnerAnswering
  <2> QED
    BY <2>8, <2>9
<1> QED
  BY <1>9, <1>10

\* A row is fetched from the list, which goes on, or there is none, and all have been fetched.
LEMMA ListAnswers ==
  ASSUME DiskType, NEW i, IsInstance(i), Reading(i), i.files # Null, ~ i.mem.there,
         NEW opts, NEW records, NEW rows, Going(i, opts, records, rows),
         NEW r, r = ReadRow(i)
  PROVE  /\ ~ opts.aggreg
         /\ r.outcome = "row" => Going(r.inst, opts, records, Append(rows, Row(r.inst)))
         /\ r.outcome = "end" => rows = [k \in DOMAIN records |-> Projected(records[k], opts.fields)]
<1>1. /\ ~ opts.aggreg /\ i.field_list = Names(opts.fields) /\ IsSeq(records) /\ IsSeq(rows)
      /\ ByList(i, opts.fields, records, rows)
  BY DEF Going
<1>2. PICK fields : fields = opts.fields
  OBVIOUS
<1>3. /\ r.outcome = "row" => ByList(r.inst, fields, records, Append(rows, Row(r.inst)))
      /\ r.outcome = "end" => rows = [k \in DOMAIN records |-> Projected(records[k], fields)]
  BY <1>1, <1>2, ListGoesOn
<1>4. RowsGoOn(i, r)
  BY RowRead
<1>5. IsSeq(Append(rows, Row(r.inst)))
  <2>1. PICK row, all : row = Row(r.inst) /\ all = Append(rows, row)
    OBVIOUS
  <2>2. OneMore(rows, row, all)
    BY <1>1, <2>1, RowAppended
  <2> QED
    BY <2>1, <2>2 DEF OneMore
<1>6. r.inst.mem = i.mem /\ r.inst.field_list = i.field_list
  BY <1>4 DEF RowsGoOn
<1> QED
  BY <1>1, <1>2, <1>3, <1>5, <1>6 DEF Going

LEMMA FetchAnswers == ASSUME Inv, Answering, alive, ~ abused, NEW o \in Objects, Fetch(o) PROVE Answering'
<1>1. PerlType /\ Owners /\ MemsClear /\ Unread /\ HistoryType /\ Progress(o) /\ Answer(o)
  BY DEF Inv, Answering
<1>2. obj[o].read_prepared /\ UNCHANGED <<disk, wanted>>
  BY DEF Fetch
<1>3. PICK i : i = Instance(o)
  OBVIOUS
<1>4. /\ Open(o) /\ Has(o) /\ IsObject(obj[o]) /\ IsInstance(i) /\ Reading(i)
      /\ i.mem.there \/ i.files # Null
      /\ obj[o].handle \in InUse /\ instances[obj[o].handle] = i
  BY <1>1, <1>2, <1>3 DEF PerlType, Owners, Has, Instance
<1>5. PICK opts \in Options : opts = obj[o].opts /\ IsFields(opts.fields) /\ (opts.aggreg => Plain(opts.fields))
  <2>1. obj[o].opts \in Options
    BY <1>4 DEF IsObject, Open
  <2> QED
    BY <2>1, PerlAssumption DEF IsFields, Plain
<1>6. PICK records, rows : records = wanted[o] /\ rows = got[o]
  OBVIOUS
<1>7. /\ ~ ended[o] /\ (sound[o] => Going(i, opts, records, rows))
      /\ obj[o].fields \in {opts.fields, Stripped(opts.fields)}
  BY <1>1, <1>2, <1>3, <1>4, <1>5, <1>6 DEF Progress
\* What is left to be shown, whichever way the row comes
<1> DEFINE Fetched(j, x, all) ==
             /\ IsInstance(j) /\ Reading(j) /\ SetInstance(o, j)
             /\ j.nffile_w = i.nffile_w /\ ReadFrom(j) \subseteq ReadFrom(i)
             /\ j.mem.there \/ j.mem = NoMem
             /\ obj' = [obj EXCEPT ![o] = x] /\ got' = [got EXCEPT ![o] = all]
             /\ \/ /\ x = obj[o] /\ ended' = ended
                   /\ \/ sound' = sound /\ (sound[o] => Going(j, opts, records, all))
                      \/ sound' = [sound EXCEPT ![o] = FALSE]
                \/ /\ x = [obj[o] EXCEPT !.read_prepared = FALSE]
                   /\ ended' = [ended EXCEPT ![o] = TRUE] /\ sound' = sound /\ all = rows
                   /\ sound[o] =>
                        IF opts.aggreg
                        THEN Range(rows) = {Total(o, rec) : rec \in Range(records)} /\ IsInjective(rows)
                        ELSE rows = [k \in DOMAIN records |-> Projected(records[k], opts.fields)]
<1>8. SUFFICES \E j, x, all : Fetched(j, x, all)
  <2>1. PICK j, x, all : Fetched(j, x, all)
    BY <1>8
  <2>2. /\ x.state = "open" /\ x.handle = obj[o].handle /\ x.opts = opts /\ x.fields = obj[o].fields
    BY <1>4, <1>5, <2>1 DEF IsObject, Open
  <2>3. wanted' = [wanted EXCEPT ![o] = records] /\ HistoryType'
    BY <1>1, <1>2, <1>6, <2>1 DEF HistoryType
  <2>4. \A p \in Objects \ {o} : ended'[p] = ended[p] /\ sound'[p] = sound[p]
    BY <1>1, <2>1 DEF HistoryType
  <2>5. Answer(o)'
    <3>1. CASE ended' = ended
      BY <1>7, <3>1 DEF Answer
    <3>2. CASE ended' # ended
      <4>1. /\ sound' = sound /\ all = rows
            /\ sound[o] => IF opts.aggreg
                           THEN Range(rows) = {Total(o, rec) : rec \in Range(records)} /\ IsInjective(rows)
                           ELSE rows = [k \in DOMAIN records |-> Projected(records[k], opts.fields)]
        BY <2>1, <3>2
      <4>2. obj'[o].opts = opts /\ wanted'[o] = records /\ got'[o] = rows
        BY <1>1, <1>2, <1>6, <2>1, <2>2, <4>1 DEF PerlType, HistoryType
      <4>3. \A rec : Total(o, rec)' = Total(o, rec)
        BY <1>5, <1>6, <4>2, TotalStays
      <4>4. sound'[o] => IF opts.aggreg
                         THEN Range(rows) = {Total(o, rec)' : rec \in Range(records)} /\ IsInjective(rows)
                         ELSE rows = [k \in DOMAIN records |-> Projected(records[k], opts.fields)]
        BY <4>1, <4>3
      <4> QED
        BY <4>2, <4>4 DEF Answer
    <3> QED
      BY <3>1, <3>2
  <2>6. ended'[o] => ~ x.read_prepared
    <3>1. CASE x = obj[o] /\ ended' = ended
      BY <1>7, <3>1
    <3>2. CASE x = [obj[o] EXCEPT !.read_prepared = FALSE]
      BY <1>4, <3>2 DEF IsObject
    <3> QED
      BY <2>1, <3>1, <3>2
  <2>7. x.read_prepared /\ sound'[o] => Going(j, x.opts, records, all)
    <3>1. CASE x = [obj[o] EXCEPT !.read_prepared = FALSE]
      BY <1>4, <3>1 DEF IsObject
    <3>2. CASE x = obj[o] /\ sound' = sound /\ (sound[o] => Going(j, opts, records, all))
      BY <2>2, <3>2
    <3>3. CASE sound' = [sound EXCEPT ![o] = FALSE]
      BY <1>1, <3>3 DEF HistoryType
    <3> QED
      BY <2>1, <3>1, <3>2, <3>3
  <2>8. /\ j.nffile_w \notin ReadFrom(j)
        /\ \A h \in InUse : /\ instances[h].nffile_w \notin ReadFrom(j)
                            /\ j.nffile_w = Instance(o).nffile_w \/ j.nffile_w \notin ReadFrom(instances[h])
    BY <1>1, <1>3, <1>4, <2>1 DEF Unread
  <2>9. \A h \in InUse : \A q \in ReadFrom(instances[h]) \cup ReadFrom(j) : SameFile(q)
    BY <1>2 DEF SameFile
  <2>10. x.fields \in {x.opts.fields, Stripped(x.opts.fields)}
    BY <1>7, <2>2
  <2>11. /\ SetInstance(o, j) /\ IsInstance(j) /\ Reading(j) /\ (j.mem.there \/ j.mem = NoMem)
         /\ obj' = [obj EXCEPT ![o] = x] /\ got' = [got EXCEPT ![o] = all]
    BY <2>1
  <2> HIDE DEF Fetched
  <2>12. OwnerAnswers(o, j, x, records, all)
    BY <1>4, <2>2, <2>3, <2>4, <2>5, <2>6, <2>7, <2>8, <2>9, <2>10, <2>11 DEF OwnerAnswers
  <2> QED
    BY <2>12, OwnerAnswering
<1>9. obj = [obj EXCEPT ![o] = obj[o]] /\ got = [got EXCEPT ![o] = rows]
  BY <1>1, <1>6 DEF PerlType, HistoryType
<1>10. EndOfRows(o) => /\ obj' = [obj EXCEPT ![o] = [obj[o] EXCEPT !.read_prepared = FALSE]]
                       /\ ended' = [ended EXCEPT ![o] = TRUE] /\ sound' = sound /\ got' = got
  BY <1>1 DEF EndOfRows, PerlType
<1>11. CASE ~ i.mem.there
  <2>1. PICK r : r = ReadRow(i)
    OBVIOUS
  <2>2. i.mem = NoMem /\ i.files # Null /\ DiskType
    BY <1>1, <1>4, <1>11 DEF MemsClear, PerlType
  <2>3. /\ IsInstance(r.inst) /\ Reading(r.inst) /\ r.inst.nffile_w = i.nffile_w
        /\ ReadFrom(r.inst) \subseteq ReadFrom(i) /\ r.inst.mem = NoMem
        /\ r.outcome \in {"row", "end", "croak"}
    <3>1. RowsGoOn(i, r)
      BY <1>4, <2>1, <2>2, RowRead
    <3> QED
      BY <2>2, <3>1 DEF RowsGoOn, Kept, RowAnswer
  <2>4. /\ SetInstance(o, r.inst)
        /\ CASE r.outcome = "row" -> FetchRow(o, r.inst)
             [] r.outcome = "end" -> EndOfRows(o)
             [] OTHER -> sound' = [sound EXCEPT ![o] = FALSE] /\ UNCHANGED <<obj, got, ended>>
    BY <1>3, <1>11, <2>1 DEF Fetch
  <2>5. sound[o] =>
          /\ ~ opts.aggreg
          /\ r.outcome = "row" => Going(r.inst, opts, records, Append(rows, Row(r.inst)))
          /\ r.outcome = "end" => rows = [k \in DOMAIN records |-> Projected(records[k], opts.fields)]
    BY <1>4, <1>7, <1>11, <2>1, <2>2, ListAnswers
  <2>6. CASE r.outcome = "row"
    <3>1. PICK all : all = Append(rows, Row(r.inst))
      OBVIOUS
    <3>2. got' = [got EXCEPT ![o] = all] /\ UNCHANGED <<obj, ended, sound>>
      BY <1>6, <2>4, <2>6, <3>1 DEF FetchRow
    <3>3. Fetched(r.inst, obj[o], all)
      BY <1>9, <2>3, <2>4, <2>5, <2>6, <3>1, <3>2
    <3> QED
      BY <3>3
  <2>7. CASE r.outcome = "end"
    <3>1. Fetched(r.inst, [obj[o] EXCEPT !.read_prepared = FALSE], rows)
      BY <1>9, <1>10, <2>3, <2>4, <2>5, <2>7
    <3> QED
      BY <3>1
  <2>8. CASE r.outcome = "croak"
    <3>1. sound' = [sound EXCEPT ![o] = FALSE] /\ UNCHANGED <<obj, got, ended>>
      BY <2>4, <2>8
    <3>2. Fetched(r.inst, obj[o], rows)
      BY <1>9, <2>3, <2>4, <3>1
    <3> QED
      BY <3>2
  <2> QED
    BY <2>3, <2>6, <2>7, <2>8
<1>12. CASE i.mem.there
  <2>1. PICK m : m = i.mem /\ IsMem(m) /\ m.there
    BY <1>4, <1>12 DEF IsInstance
  <2>2. sound[o] => /\ opts.aggreg /\ i.field_list = Names(opts.fields) /\ IsSeq(records) /\ IsSeq(rows)
                    /\ ByHeap(m, opts.fields, records, rows)
    BY <1>7, <1>12, <2>1 DEF Going
  <2>3. CASE Classes(m) = m.returned
    <3>1. PICK j : j = [i EXCEPT !.mem = NoMem]
      OBVIOUS
    <3>2. SetInstance(o, j) /\ EndOfRows(o)
      BY <1>3, <1>12, <2>1, <2>3, <3>1 DEF Fetch
    <3>3. /\ IsInstance(j) /\ j.nffile_w = i.nffile_w /\ j.mem = NoMem
          /\ j.files = i.files /\ j.nffile_r = i.nffile_r
      <4>1. IsMem(NoMem)
        <5>1. \A W : <<>> \in Seq(W)
          OBVIOUS
        <5> QED
          BY <5>1 DEF IsMem, Heaps, NoMem
      <4> QED
        BY <1>4, <3>1, <4>1 DEF IsInstance
    <3>4. Reading(j) /\ ReadFrom(j) = ReadFrom(i)
      BY <1>4, <3>3 DEF Reading, ReadFrom
    <3>5. sound[o] => Range(rows) = {Total(o, rec) : rec \in Range(records)} /\ IsInjective(rows)
      BY <1>5, <1>6, <2>2, <2>3, HeapEnds
    <3>6. Fetched(j, [obj[o] EXCEPT !.read_prepared = FALSE], rows)
      BY <1>9, <1>10, <2>2, <3>2, <3>3, <3>4, <3>5
    <3> QED
      BY <3>6
  <2>4. CASE Classes(m) # m.returned
    <3>1. PICK class \in Classes(m) \ m.returned :
            LET j == [i EXCEPT !.mem.returned = @ \cup {class}, !.rec = RowOf(m, class)] IN
            SetInstance(o, j) /\ FetchRow(o, j)
      BY <1>3, <1>12, <2>1, <2>4 DEF Fetch
    <3>2. PICK n, rec, j : /\ n = [m EXCEPT !.returned = @ \cup {class}] /\ rec = RowOf(m, class)
                           /\ j = [i EXCEPT !.mem = n, !.rec = rec]
      OBVIOUS
    <3>3. j = [i EXCEPT !.mem.returned = @ \cup {class}, !.rec = RowOf(m, class)]
      BY <1>4, <2>1, <3>2 DEF IsInstance
    <3>4. SetInstance(o, j) /\ FetchRow(o, j)
      BY <3>1, <3>3
    <3>5. IsMem(n) /\ n.there
      BY <2>1, <3>2 DEF IsMem, Heaps
    <3>6. /\ IsInstance(j) /\ j.nffile_w = i.nffile_w /\ j.mem = n /\ j.rec = rec
          /\ j.files = i.files /\ j.nffile_r = i.nffile_r /\ j.field_list = i.field_list
      BY <1>4, <3>2, <3>5 DEF IsInstance
    <3>7. Reading(j) /\ ReadFrom(j) = ReadFrom(i)
      BY <1>4, <3>6 DEF Reading, ReadFrom
    <3>8. PICK row, all : row = Row(j) /\ all = Append(rows, row)
      OBVIOUS
    <3>9. got' = [got EXCEPT ![o] = all] /\ UNCHANGED <<obj, ended, sound>>
      BY <1>6, <3>4, <3>8 DEF FetchRow
    <3>10. sound[o] => Going(j, opts, records, all)
      <4> SUFFICES ASSUME sound[o] PROVE Going(j, opts, records, all)
        OBVIOUS
      <4>1. PICK fields : fields = opts.fields
        OBVIOUS
      <4>2. row = Projected(rec, fields)
        BY <2>2, <3>6, <3>8, <4>1, RowIs
      <4>3. ByHeap(m, fields, records, rows) /\ IsSeq(rows) /\ row = Projected(RowOf(m, class), fields)
        BY <2>2, <3>2, <4>1, <4>2
      <4>4. ByHeap(n, fields, records, Append(rows, row))
        BY <2>1, <3>2, <4>3, HeapGoesOn
      <4>5. OneMore(rows, row, all)
        BY <3>8, <4>3, RowAppended
      <4>6. IsSeq(all)
        BY <4>5 DEF OneMore
      <4> QED
        BY <2>2, <3>5, <3>6, <3>8, <4>1, <4>4, <4>6 DEF Going
    <3>11. Fetched(j, obj[o], all)
      BY <1>9, <3>4, <3>5, <3>6, <3>7, <3>9, <3>10
    <3> QED
      BY <3>11
  <2> QED
    BY <2>3, <2>4
<1> QED
  BY <1>11, <1>12
-----------------------------------------------------------------------------
(***************************************************************************)
(* What is fetched is the answer                                           *)
(***************************************************************************)
LEMMA AnsweringHolds == Inv /\ Answering /\ [Next]_vars => Answering'
<1> SUFFICES ASSUME Inv, Answering, [Next]_vars PROVE Answering'
  OBVIOUS
<1>1. CASE UNCHANGED vars
  <2>1. CASE ~ abused
    BY <1>1, <2>1, NobodyAnswers DEF vars, history
  <2>2. CASE abused
    <3>1. abused' = abused /\ UNCHANGED <<obj, wanted, got, ended, sound>>
      BY <1>1 DEF vars, history
    <3>2. \A p \in Objects : Answer(p)'
      <4> SUFFICES ASSUME NEW p \in Objects PROVE Answer(p)'
        OBVIOUS
      <4>1. Answer(p)
        BY DEF Answering
      <4>2. CASE obj[p].state = "none"
        BY <3>1, <4>2 DEF Answer
      <4>3. CASE obj[p].state # "none"
        BY <3>1, <4>1, <4>3, AnswerStays
      <4> QED
        BY <4>2, <4>3
    <3> QED
      BY <2>2, <3>1, <3>2 DEF Answering
  <2> QED
    BY <2>1, <2>2
<1>2. CASE Next
  <2>1. alive /\ ~ abused
    BY <1>2 DEF Next
  <2>2. PICK o \in Objects :
          \/ New(o) \/ Query(o) \/ Fetch(o) \/ Create(o) \/ StoreRow(o)
          \/ \E src \in Objects : CloneRow(o, src)
          \/ Finish(o) \/ Destroy(o)
    BY <1>2 DEF Next
  <2> QED
    BY <2>1, <2>2, NewAnswers, QueryAnswered, FetchAnswers, CreateAnswers, StoreAnswers, CloneAnswers,
       FinishAnswers, DestroyAnswers
<1> QED
  BY <1>1, <1>2

\* At the beginning nothing has been asked for.
LEMMA InitAnswering == Init => Answering
<1> SUFFICES ASSUME Init PROVE Answering
  OBVIOUS
<1>1. InUse = {}
  BY DEF Init, InUse
<1>2. \A o \in Objects : obj[o] = NoObject /\ ~ ended[o] /\ ~ sound[o]
  BY DEF Init
<1>3. HistoryType /\ MemsClear /\ Unread
  BY <1>1 DEF Init, HistoryType, MemsClear, Unread
<1>4. \A o \in Objects : ~ obj[o].read_prepared /\ ~ Open(o)
  BY <1>2 DEF Open, NoObject
<1>5. \A o \in Objects : Progress(o) /\ Answer(o)
  BY <1>2, <1>4 DEF Progress, Answer
<1> QED
  BY <1>3, <1>5 DEF Answering

\* Whatever other objects do in the meantime, the rows that are fetched until undef
\* is returned are the records of the files that pass the filter, in order, or
\* their totals (libnf_read_row_files, fetchrow_arrayref and query).
THEOREM PerlQueryAnswers == Spec => []QueryAnswers
<1>1. Init => Answering
  BY InitAnswering
<1>2. Inv /\ Answering /\ [Next]_vars => Answering'
  BY AnsweringHolds
<1>3. Answering => QueryAnswers
  BY DEF Answering, Answer, QueryAnswers
<1> QED
  BY <1>1, <1>2, <1>3, PerlInvariant, PTL DEF Spec
=============================================================================
