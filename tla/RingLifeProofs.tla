--------------------------- MODULE RingLifeProofs ---------------------------
(***************************************************************************)
(* Theorems about RingLife, for any number of processes, calls and crashes.*)
(*   LifeInv - of a ring whose mutex is not spoilt, whoever is in a        *)
(*             critical section holds it: mutual exclusion;                *)
(*   OneInv  - a ring's count is the number of the processes that have     *)
(*             counted themselves there (by mutual exclusion), so the last *)
(*             to leave is alone when it removes the name, and all the     *)
(*             others are where the name leads: there is one ring.         *)
(***************************************************************************)
EXTENDS RingLife, FiniteSetTheorems, TLAPS

InsidePcs == {"count", "counted", "use", "leave", "left"}
Pcs == InsidePcs \cup {"idle", "create", "truncate", "open", "mutex", "lock", "ready", "unlink", "dead"}

LifeType ==
  /\ name \in Nat /\ created \in Nat
  /\ holder \in [Segments -> Procs \cup {NoProc}]
  /\ pc \in [Procs -> Pcs]
  /\ shm \in [Procs -> Nat]
  /\ cont \in [Procs -> InsidePcs]

Holds ==
  \A p \in Procs : pc[p] \in InsidePcs /\ shm[p] \in Segments \ spoilt => holder[shm[p]] = p

LifeInv == LifeType /\ Holds

\* At the beginning nobody is in a ring.
LEMMA LifeInit == Init => LifeInv
  BY DEF Init, LifeInv, LifeType, Holds, None, NoProc, Pcs, InsidePcs

\* The types are kept by every step.
LEMMA LifeTypeStep == LifeType /\ [Next]_vars => LifeType'
<1> SUFFICES ASSUME LifeType, [Next]_vars PROVE LifeType'
  OBVIOUS
<1> USE DEF LifeType, Pcs, InsidePcs, Goto
<1>1. CASE UNCHANGED vars
  BY <1>1 DEF vars, segvars, procvars
<1>2. ASSUME NEW p \in Procs, Runs(p) PROVE LifeType'
  <2>1. CASE TryLock(p) \/ GiveUp(p)
    BY <2>1 DEF TryLock, GiveUp, EndLock, segvars
  <2>2. CASE Poll(p)
    BY <2>2 DEF Poll, segvars
  <2>3. CASE Create(p)
    BY <2>3 DEF Create
  <2>4. CASE Truncate(p) \/ Count(p) \/ Leave(p)
    BY <2>4 DEF Truncate, Count, Leave, segvars
  <2>5. CASE Open(p)
    BY <2>5 DEF Open, CallLock, segvars
  <2>6. CASE MutexInit(p)
    BY <2>6 DEF MutexInit, CallLock
  <2>7. CASE InitReturn(p) \/ UseReturn(p)
    BY <2>7 DEF InitReturn, UseReturn, Unlocked
  <2>8. CASE Left(p) \/ Unlink(p)
    BY <2>8 DEF Left, Unlink, Unlocked, None
  <2>9. CASE BusError(p)
    BY <2>9 DEF BusError, Die, None, segvars
  <2> QED
    BY <1>2, <2>1, <2>2, <2>3, <2>4, <2>5, <2>6, <2>7, <2>8, <2>9 DEF Runs
<1>3. ASSUME NEW p \in Procs, Calls(p) \/ Crash(p) PROVE LifeType'
  <2>1. CASE InitCall(p)
    BY <2>1 DEF InitCall, None
  <2>2. CASE Use(p) \/ FreeCall(p)
    BY <2>2 DEF Use, FreeCall, CallLock, segvars
  <2>3. CASE Crash(p)
    BY <2>3 DEF Crash, Die, None, segvars
  <2> QED
    BY <1>3, <2>1, <2>2, <2>3 DEF Calls
<1> QED
  BY <1>1, <1>2, <1>3 DEF Next

\* Whoever enters has taken the mutex, or has spoilt it; nobody gives back
\* a mutex that another process in the ring holds, unless it is spoilt.
LEMMA HoldsStep == LifeInv /\ [Next]_vars => Holds'
<1> SUFFICES ASSUME LifeType, Holds, [Next]_vars,
                    NEW q \in Procs, pc'[q] \in InsidePcs, shm'[q] \in Segments \ spoilt'
             PROVE  holder'[shm'[q]] = q
  BY DEF LifeInv, Holds
<1> USE NobodyAssumption DEF LifeType, Pcs, Goto
<1>1. CASE UNCHANGED vars
  BY <1>1 DEF vars, segvars, procvars, history, Holds
<1>2. ASSUME NEW p \in Procs, Runs(p) PROVE holder'[shm'[q]] = q
  <2>1. CASE TryLock(p)
    BY <2>1 DEF TryLock, EndLock, Taken, history, Holds
  <2>2. CASE Poll(p)
    BY <2>2 DEF Poll, segvars, history, Holds
  <2>3. CASE GiveUp(p)
    BY <2>3 DEF GiveUp, EndLock, segvars, Holds
  <2>4. CASE Create(p) \/ Truncate(p)
    BY <2>4 DEF Create, Truncate, InsidePcs, history, Holds
  <2>5. CASE Open(p)
    BY <2>5 DEF Open, CallLock, InsidePcs, segvars, history, Holds
  <2>6. CASE MutexInit(p)
    BY <2>6 DEF MutexInit, CallLock, Taken, InsidePcs, Holds
  <2>7. CASE Count(p) \/ Leave(p)
    BY <2>7 DEF Count, Leave, InsidePcs, segvars, history, Holds
  <2>8. CASE InitReturn(p) \/ UseReturn(p)
    BY <2>8 DEF InitReturn, UseReturn, Unlocked, InsidePcs, history, Holds
  <2>9. CASE Left(p)
    BY <2>9 DEF Left, Unlocked, InsidePcs, Holds
  <2>10. CASE Unlink(p)
    BY <2>10 DEF Unlink, InsidePcs, Holds
  <2>11. CASE BusError(p)
    BY <2>11 DEF BusError, Die, InsidePcs, segvars, Holds
  <2> QED
    BY <1>2, <2>1, <2>2, <2>3, <2>4, <2>5, <2>6, <2>7, <2>8, <2>9, <2>10, <2>11 DEF Runs
<1>3. ASSUME NEW p \in Procs, Calls(p) \/ Crash(p) PROVE holder'[shm'[q]] = q
  <2>1. CASE InitCall(p)
    BY <2>1 DEF InitCall, InsidePcs, Holds
  <2>2. CASE Use(p) \/ FreeCall(p)
    BY <2>2 DEF Use, FreeCall, CallLock, InsidePcs, segvars, history, Holds
  <2>3. CASE Crash(p)
    BY <2>3 DEF Crash, Die, InsidePcs, segvars, Holds
  <2> QED
    BY <1>3, <2>1, <2>2, <2>3 DEF Calls
<1> QED
  BY <1>1, <1>2, <1>3 DEF Next

\* In every reachable state whoever is in a critical section of a ring with an
\* unspoilt mutex holds that mutex (lnf_ring_lock and its callers).
THEOREM LifeInvariant == Spec => []LifeInv
<1>1. LifeInv /\ [Next]_vars => LifeInv'
  BY LifeTypeStep, HoldsStep DEF LifeInv
<1> QED
  BY LifeInit, <1>1, PTL DEF Spec

\* However many processes create, attach to, force, leave and unlink rings,
\* and wherever they are killed: two of them are in critical sections of one
\* ring only after its mutex was given up on or initialised while it was held.
THEOREM LockIsExclusive == Spec => []LockExclusive
<1>1. LifeInv => LockExclusive
  BY DEF LifeInv, Holds, LockExclusive, Inside, InsidePcs
<1> QED
  BY LifeInvariant, <1>1, PTL

-----------------------------------------------------------------------------
(***************************************************************************)
(* One ring                                                                *)
(***************************************************************************)

RingPcs == InsidePcs \cup {"truncate", "mutex", "lock", "ready"}
Creators == {p \in Procs : pc[p] = "create"}

\* p has been counted, and not yet taken off the count.
Counted(p) == pc[p] \in {"ready", "use", "leave", "left"} \/ (pc[p] = "lock" /\ cont[p] # "count")

\* Every segment was created by a call of its own, so there is room for all;
\* a process has a segment exactly while it is in one.
Placed ==
  /\ cont \in [Procs -> {"count", "use", "leave"}]
  /\ inits \in Nat /\ inits <= MaxInits
  /\ IsFiniteSet(Creators) /\ created + Cardinality(Creators) <= inits
  /\ name <= created /\ \A p \in Procs : shm[p] <= created
  /\ \A p \in Procs : pc[p] \in RingPcs <=> shm[p] # None

\* The processes attached to a segment are those counted there, and dead ones.
Attached ==
  /\ attached \in [Segments -> SUBSET Procs]
  /\ \A s \in Segments : IsFiniteSet(attached[s])
  /\ \A p \in Procs : Counted(p) => p \in attached[shm[p]]
  /\ \A s \in Segments : \A p \in attached[s] : pc[p] = "dead" \/ (Counted(p) /\ shm[p] = s)

\* conn_count is their number, but in a segment whose mutex is spoilt; who is
\* about to write it has read it.
CountRight ==
  /\ conn_count \in [Segments -> Int] /\ tmp \in [Procs -> Int]
  /\ \A s \in Segments \ spoilt : conn_count[s] = Cardinality(attached[s])
  /\ \A p \in Procs : shm[p] \in Segments \ spoilt =>
       /\ pc[p] = "counted" => tmp[p] = conn_count[shm[p]]
       /\ pc[p] = "left" => tmp[p] = conn_count[shm[p]] - 1

\* So nobody is left behind by the last to go, and while no name was taken from
\* a segment in use, all are where the name is.
Together ==
  /\ spoilt \subseteq Segments
  /\ others \in [Procs -> SUBSET Procs]
  /\ spoilt = {} => others = [p \in Procs |-> {}]
  /\ split \in BOOLEAN
  /\ spoilt = {} /\ ~ split => \A p \in Procs : shm[p] # None => shm[p] = name

OneInv == LifeInv /\ Placed /\ Attached /\ CountRight /\ Together

\* Creating a segment takes a call that has not created one yet.
LEMMA PlacedStep == LifeType /\ Placed /\ [Next]_vars => Placed'
<1> SUFFICES ASSUME LifeType, Placed, [Next]_vars PROVE Placed'
  OBVIOUS
<1> USE LifeAssumption DEF LifeType, Placed, Pcs, InsidePcs, RingPcs, Goto, None
<1>1. CASE UNCHANGED vars
  BY <1>1 DEF vars, segvars, procvars, Creators
<1>2. Cardinality(Creators) \in Nat
  BY FS_CardinalityType
<1>3. ASSUME NEW p \in Procs, Runs(p) \/ Calls(p) \/ Crash(p) PROVE Placed'
  <2>1. Creators' = Creators \/ Creators' = Creators \cup {p} \/ Creators' = Creators \ {p}
    <3>1. \A q \in Procs : q # p => pc'[q] = pc[q]
      BY <1>3 DEF Runs, Calls, TryLock, Poll, GiveUp, EndLock, Create, Truncate, Open, MutexInit, CallLock,
           Count, InitReturn, UseReturn, Leave, Left, Unlink, BusError, Die, InitCall, Use, FreeCall, Crash
    <3> QED BY <3>1 DEF Creators
  <2>2. IsFiniteSet(Creators')
    BY <2>1, FS_AddElement, FS_RemoveElement
  <2>3. CASE InitCall(p)
    <3>1. Cardinality(Creators') <= Cardinality(Creators) + 1
      <4> DEFINE C == Creators
                 D == Creators'
      <4>1. IsFiniteSet(C) /\ Cardinality(C) \in Nat /\ (D = C \/ D = C \cup {p} \/ D = C \ {p})
        BY <1>2, <2>1
      <4> HIDE DEF C, D
      <4>2. Cardinality(D) <= Cardinality(C) + 1
        <5>1. CASE D = C
          BY <4>1, <5>1
        <5>2. CASE D = C \cup {p}
          <6>1. Cardinality(C \cup {p}) = IF p \in C THEN Cardinality(C) ELSE Cardinality(C) + 1
            BY <4>1, FS_AddElement
          <6> QED
            BY <4>1, <5>2, <6>1
        <5>3. CASE D = C \ {p}
          <6>1. Cardinality(C \ {p}) = IF p \in C THEN Cardinality(C) - 1 ELSE Cardinality(C)
            BY <4>1, FS_RemoveElement
          <6> QED
            BY <4>1, <5>3, <6>1
        <5> QED
          BY <4>1, <5>1, <5>2, <5>3
      <4> QED
        BY <4>2 DEF C, D
    <3>2. Cardinality(Creators') \in Nat
      BY <2>2, FS_CardinalityType
    <3> QED BY <2>2, <2>3, <3>1, <3>2, <1>2 DEF InitCall
  <2>4. CASE Create(p)
    <3>1. p \in Creators /\ Creators' = Creators \ {p}
      BY <2>1, <2>4 DEF Create, Creators
    <3>2. Cardinality(Creators') = Cardinality(Creators) - 1
      BY <3>1, FS_RemoveElement
    <3> QED BY <2>2, <2>4, <3>2, <1>2 DEF Create
  <2>5. CASE ~ InitCall(p) /\ ~ Create(p)
    <3>1. Creators' \subseteq Creators
      BY <1>3, <2>5 DEF Creators, Runs, Calls, TryLock, Poll, GiveUp, EndLock, Truncate, Open, MutexInit, CallLock,
           Count, InitReturn, UseReturn, Leave, Left, Unlink, BusError, Die, Use, FreeCall, Crash
    <3>2. Cardinality(Creators') \in Nat /\ Cardinality(Creators') <= Cardinality(Creators)
      BY <2>2, <3>1, FS_CardinalityType, FS_Subset
    <3>3. UNCHANGED <<inits, created>> /\ (name' = name \/ name' = 0)
      BY <1>3, <2>5 DEF Runs, Calls, TryLock, Poll, GiveUp, EndLock, Truncate, Open, MutexInit, CallLock,
           Count, InitReturn, UseReturn, Leave, Left, Unlink, BusError, Die, Use, FreeCall, Crash, segvars
    <3>4. cont' \in [Procs -> {"count", "use", "leave"}]
      BY <1>3, <2>5 DEF Runs, Calls, TryLock, Poll, GiveUp, EndLock, Truncate, Open, MutexInit, CallLock,
           Count, InitReturn, UseReturn, Leave, Left, Unlink, BusError, Die, Use, FreeCall, Crash
    <3>5. \A q \in Procs : shm'[q] <= created /\ (pc'[q] \in RingPcs <=> shm'[q] # 0)
      <4>1. CASE TryLock(p) \/ Poll(p) \/ GiveUp(p)
        BY <4>1 DEF TryLock, Poll, GiveUp, EndLock
      <4>2. CASE Truncate(p) \/ Open(p) \/ MutexInit(p) \/ Count(p) \/ InitReturn(p) \/ UseReturn(p)
        BY <4>2 DEF Truncate, Open, MutexInit, CallLock, Count, InitReturn, UseReturn
      <4>3. CASE Leave(p) \/ Left(p) \/ Unlink(p)
        BY <4>3 DEF Leave, Left, Unlink
      <4>4. CASE BusError(p) \/ Crash(p)
        BY <4>4 DEF BusError, Die, Crash
      <4>5. CASE Use(p) \/ FreeCall(p)
        BY <4>5 DEF Use, FreeCall, CallLock
      <4> QED BY <1>3, <2>5, <4>1, <4>2, <4>3, <4>4, <4>5 DEF Runs, Calls
    <3> QED BY <2>2, <3>2, <3>3, <3>4, <3>5, <1>2
  <2> QED BY <2>3, <2>4, <2>5
<1> QED BY <1>1, <1>3 DEF Next

\* A process has a segment among those there are.
LEMMA PlacedSegment ==
  LifeType /\ Placed => \A p \in Procs : shm[p] # None => shm[p] \in Segments
<1> SUFFICES ASSUME LifeType, Placed, NEW p \in Procs, shm[p] # None PROVE shm[p] \in Segments
  OBVIOUS
<1>1. Cardinality(Creators) \in Nat
  BY FS_CardinalityType DEF Placed
<1> QED BY <1>1, LifeAssumption DEF LifeType, Placed, Segments, None

\* The others stay as they are; who is counted stays so until lnf_ring_free
\* takes it off or it is killed.
LEMMA CountedStep ==
  ASSUME LifeType, Placed, NEW p \in Procs, Runs(p) \/ Calls(p) \/ Crash(p)
  PROVE  /\ pc[p] # "dead"
         /\ \A q \in Procs : q # p => (Counted(q)' <=> Counted(q)) /\ pc'[q] = pc[q] /\ shm'[q] = shm[q]
         /\ ~ InitReturn(p) /\ ~ Left(p) =>
              /\ attached' = attached
              /\ \/ Counted(p) /\ Counted(p)' /\ shm'[p] = shm[p]
                 \/ ~ Counted(p) /\ ~ Counted(p)'
                 \/ pc'[p] = "dead" /\ ~ Counted(p)'
<1> USE DEF LifeType, Placed, Pcs, InsidePcs, Goto, Counted
<1>1. CASE TryLock(p) \/ Poll(p) \/ GiveUp(p)
  BY <1>1 DEF TryLock, Poll, GiveUp, EndLock, history
<1>2. CASE Create(p) \/ Truncate(p) \/ Open(p) \/ MutexInit(p)
  BY <1>2 DEF Create, Truncate, Open, MutexInit, CallLock, history
<1>3. CASE Count(p) \/ UseReturn(p) \/ Leave(p) \/ Unlink(p)
  BY <1>3 DEF Count, UseReturn, Leave, Unlink, history
<1>4. CASE InitReturn(p) \/ Left(p)
  BY <1>4 DEF InitReturn, Left, LastOne
<1>5. CASE BusError(p) \/ Crash(p)
  BY <1>5 DEF BusError, Crash, Die
<1>6. CASE Calls(p)
  BY <1>6 DEF Calls, InitCall, Use, FreeCall, CallLock, history
<1> QED BY <1>1, <1>2, <1>3, <1>4, <1>5, <1>6 DEF Runs

\* attached follows the counting, process by process.
LEMMA AttachedStep == LifeType /\ Placed /\ Attached /\ [Next]_vars => Attached'
<1> SUFFICES ASSUME LifeType, Placed, Attached, [Next]_vars PROVE Attached'
  OBVIOUS
<1>1. CASE UNCHANGED vars
  BY <1>1 DEF vars, segvars, procvars, history, Attached, Counted
<1>2. ASSUME NEW p \in Procs, Runs(p) \/ Calls(p) \/ Crash(p) PROVE Attached'
  <2>1. CASE ~ InitReturn(p) /\ ~ Left(p)
    BY <1>2, <2>1, CountedStep DEF Attached
  <2>2. CASE InitReturn(p)
    <3> DEFINE s == shm[p]
    <3>1. s \in Segments
      BY <2>2, PlacedSegment DEF InitReturn, Placed, RingPcs, InsidePcs, None
    <3>2. /\ attached' = [attached EXCEPT ![s] = @ \cup {p}]
          /\ shm' = shm /\ Counted(p)'
      BY <2>2 DEF InitReturn, Goto, LifeType, Counted
    <3>3. IsFiniteSet(attached[s] \cup {p})
      BY <3>1, FS_AddElement DEF Attached
    <3> HIDE DEF s
    <3>4. \A q \in Procs : q # p => (Counted(q)' <=> Counted(q)) /\ pc'[q] = pc[q]
      BY <1>2, CountedStep
    <3>5. \A q \in Procs : Counted(q)' => q \in attached'[shm'[q]]
      BY <3>1, <3>2, <3>4 DEF Attached, s
    <3>6. \A u \in Segments : \A q \in attached'[u] : pc'[q] = "dead" \/ (Counted(q)' /\ shm'[q] = u)
      <4> SUFFICES ASSUME NEW u \in Segments, NEW q \in attached'[u]
                   PROVE  pc'[q] = "dead" \/ (Counted(q)' /\ shm'[q] = u)
        OBVIOUS
      <4>1. CASE q = p
        <5>1. pc[p] # "dead" /\ ~ Counted(p)
          BY <2>2 DEF InitReturn, Counted
        <5>2. u = s
          BY <4>1, <5>1, <3>1, <3>2 DEF Attached
        <5> QED BY <4>1, <5>2, <3>2 DEF s
      <4>2. CASE q # p
        BY <4>2, <3>1, <3>2, <3>4 DEF Attached
      <4> QED BY <4>1, <4>2
    <3> QED BY <3>1, <3>2, <3>3, <3>5, <3>6 DEF Attached
  <2>3. CASE Left(p)
    <3> DEFINE s == shm[p]
    <3>1. s \in Segments
      BY <2>3, PlacedSegment DEF Left, Placed, RingPcs, InsidePcs, None
    <3>2. /\ attached' = [attached EXCEPT ![s] = @ \ {p}]
          /\ ~ Counted(p)'
      BY <2>3 DEF Left, Goto, LifeType, Counted
    <3>3. IsFiniteSet(attached[s] \ {p})
      BY <3>1, FS_RemoveElement DEF Attached
    <3> HIDE DEF s
    <3>4. \A q \in Procs : q # p => (Counted(q)' <=> Counted(q)) /\ pc'[q] = pc[q] /\ shm'[q] = shm[q]
      BY <1>2, CountedStep
    <3>5. \A q \in Procs : Counted(q)' => q \in attached'[shm'[q]]
      BY <3>1, <3>2, <3>4 DEF Attached
    <3>6. \A u \in Segments : \A q \in attached'[u] : q # p /\ q \in attached[u]
      BY <3>1, <3>2, <1>2, CountedStep DEF Attached, s
    <3> QED BY <3>1, <3>2, <3>3, <3>4, <3>5, <3>6 DEF Attached
  <2> QED BY <2>1, <2>2, <2>3
<1> QED BY <1>1, <1>2 DEF Next

\* The count is written by the holder of the mutex, who has read it since it
\* got the mutex: nobody else is between reading and writing.
LEMMA CountStep == LifeInv /\ Placed /\ Attached /\ CountRight /\ [Next]_vars => CountRight'
<1> SUFFICES ASSUME LifeInv, Placed, Attached, CountRight, [Next]_vars PROVE CountRight'
  OBVIOUS
<1> USE DEF LifeInv
<1>1. CASE UNCHANGED vars
  BY <1>1 DEF vars, segvars, procvars, history, CountRight
<1>2. ASSUME NEW p \in Procs, Runs(p) \/ Calls(p) \/ Crash(p) PROVE CountRight'
  <2> DEFINE s == shm[p]
  <2>1. \A q \in Procs : q # p => pc'[q] = pc[q] /\ shm'[q] = shm[q]
    BY <1>2, CountedStep
  <2>2. CASE InitReturn(p) \/ Left(p)
    <3>1. s \in Segments /\ pc[p] \in InsidePcs /\ pc[p] # "dead"
      BY <2>2, PlacedSegment DEF InitReturn, Left, Placed, RingPcs, InsidePcs, None
    <3>2. /\ conn_count' \in [Segments -> Int] /\ tmp' \in [Procs -> Int] /\ spoilt' = spoilt
          /\ \A u \in Segments : u # s => conn_count'[u] = conn_count[u] /\ attached'[u] = attached[u]
          /\ \A q \in Procs : q # p => tmp'[q] = tmp[q]
          /\ pc'[p] \notin {"counted", "left"}
      BY <2>2, <3>1 DEF InitReturn, Left, Goto, CountRight, LifeType, Attached
    <3>3. ASSUME s \notin spoilt PROVE conn_count'[s] = Cardinality(attached'[s])
      <4>1. CASE InitReturn(p)
        <5>1. p \notin attached[s]
          BY <3>1, <4>1 DEF InitReturn, Attached, Counted
        <5>2. conn_count'[s] = conn_count[s] + 1 /\ attached'[s] = attached[s] \cup {p}
          BY <3>1, <3>3, <4>1 DEF InitReturn, CountRight, Attached
        <5>3. Cardinality(attached[s] \cup {p}) = Cardinality(attached[s]) + 1
          BY <3>1, <5>1, FS_AddElement DEF Attached
        <5> QED BY <3>1, <3>3, <5>2, <5>3 DEF CountRight
      <4>2. CASE Left(p)
        <5>1. p \in attached[s]
          BY <3>1, <4>2 DEF Left, Attached, Counted
        <5>2. conn_count'[s] = conn_count[s] - 1 /\ attached'[s] = attached[s] \ {p}
          BY <3>1, <3>3, <4>2 DEF Left, CountRight, Attached
        <5>3. Cardinality(attached[s] \ {p}) = Cardinality(attached[s]) - 1
          BY <3>1, <5>1, FS_RemoveElement DEF Attached
        <5> QED BY <3>1, <3>3, <5>2, <5>3 DEF CountRight
      <4> QED BY <2>2, <4>1, <4>2
    <3>4. ASSUME NEW q \in Procs, q # p, shm[q] = s, s \notin spoilt PROVE pc[q] \notin {"counted", "left"}
      BY <3>1, <3>4 DEF Holds, InsidePcs
    <3> HIDE DEF s
    <3>5. ASSUME NEW q \in Procs, shm'[q] \in Segments \ spoilt', pc'[q] \in {"counted", "left"}
          PROVE  /\ pc'[q] = "counted" => tmp'[q] = conn_count'[shm'[q]]
                 /\ pc'[q] = "left" => tmp'[q] = conn_count'[shm'[q]] - 1
      <4>1. q # p /\ shm'[q] = shm[q] /\ pc'[q] = pc[q] /\ tmp'[q] = tmp[q] /\ spoilt' = spoilt
        BY <2>1, <3>2, <3>5
      <4>2. shm[q] # s
        BY <3>4, <3>5, <4>1
      <4> QED BY <3>2, <3>5, <4>1, <4>2 DEF CountRight
    <3> QED BY <3>2, <3>3, <3>5 DEF CountRight
  <2>3. CASE Count(p) \/ Leave(p)
    <3>1. s \in Segments
      BY <2>3, PlacedSegment DEF Count, Leave, Placed, RingPcs, InsidePcs, None
    <3> QED BY <2>3, <3>1 DEF Count, Leave, Goto, CountRight, LifeType, segvars, history
  <2>4. CASE ~ InitReturn(p) /\ ~ Left(p) /\ ~ Count(p) /\ ~ Leave(p)
    <3>1. UNCHANGED <<conn_count, attached>> /\ spoilt \subseteq spoilt'
      BY <1>2, <2>4 DEF Runs, Calls, TryLock, Poll, GiveUp, Create, Truncate, Open, MutexInit,
           UseReturn, Unlink, BusError, Die, InitCall, Use, FreeCall, Crash, segvars, history
    <3>2. tmp' \in [Procs -> Int] /\ \A q \in Procs : q # p => tmp'[q] = tmp[q]
      BY <1>2, <2>4 DEF Runs, Calls, TryLock, Poll, GiveUp, Create, Truncate, Open, MutexInit,
           UseReturn, Unlink, BusError, Die, InitCall, Use, FreeCall, Crash, CountRight
    <3>3. \/ pc'[p] \notin {"counted", "left"}
          \/ pc'[p] = pc[p] /\ shm'[p] = shm[p] /\ tmp'[p] = tmp[p]
      BY <1>2, <2>4 DEF Runs, Calls, TryLock, Poll, GiveUp, EndLock, CallLock, Create, Truncate, Open, MutexInit,
           UseReturn, Unlink, BusError, Die, InitCall, Use, FreeCall, Crash, Goto, LifeType, Placed
    <3>4. ASSUME NEW q \in Procs, shm'[q] \in Segments \ spoilt', pc'[q] \in {"counted", "left"}
          PROVE  pc'[q] = pc[q] /\ shm'[q] = shm[q] /\ tmp'[q] = tmp[q]
      BY <2>1, <3>2, <3>3, <3>4
    <3> QED BY <3>1, <3>2, <3>4 DEF CountRight
  <2> QED BY <2>2, <2>3, <2>4
<1> QED BY <1>1, <1>2 DEF Next

\* The last to leave leaves nobody behind, so the name is taken from a segment
\* only when it is forced or has no users; and only a name that stands for
\* nothing gets a new segment.
LEMMA TogetherStep == LifeInv /\ Placed /\ Attached /\ CountRight /\ Together /\ [Next]_vars => Together'
<1> SUFFICES ASSUME LifeInv, Placed, Attached, CountRight, Together, [Next]_vars PROVE Together'
  OBVIOUS
<1> USE DEF LifeInv
<1>1. CASE UNCHANGED vars
  BY <1>1 DEF vars, segvars, procvars, history, Together
<1>2. ASSUME NEW p \in Procs, Runs(p) \/ Calls(p) \/ Crash(p) PROVE Together'
  <2>1. CASE InitCall(p)
    BY <2>1 DEF InitCall, Together, Users, None, LifeType
  <2>2. CASE Create(p)
    BY <2>2 DEF Create, Together, history, LifeType, None
  <2>3. CASE Open(p)
    BY <2>3 DEF Open, Together, history, LifeType, segvars
  <2>4. CASE GiveUp(p) \/ MutexInit(p)
    <3>1. shm[p] \in Segments
      BY <2>4, PlacedSegment DEF GiveUp, MutexInit, Placed, RingPcs, InsidePcs, None
    <3> QED BY <2>4, <3>1 DEF GiveUp, MutexInit, Together, segvars
  <2>5. CASE Left(p)
    <3>1. shm[p] \in Segments /\ p \in attached[shm[p]]
      BY <2>5, PlacedSegment DEF Left, Placed, RingPcs, InsidePcs, None, Attached, Counted
    <3>2. ASSUME spoilt = {}, LastOne(tmp[p]) PROVE attached[shm[p]] \ {p} = {}
      <4>1. Cardinality(attached[shm[p]]) - 1 <= 0
        BY <2>5, <3>1, <3>2 DEF Left, LastOne, CountRight
      <4>2. /\ IsFiniteSet(attached[shm[p]] \ {p})
            /\ Cardinality(attached[shm[p]] \ {p}) = Cardinality(attached[shm[p]]) - 1
        <5> DEFINE A == attached[shm[p]]
        <5>1. IsFiniteSet(A) /\ p \in A
          BY <3>1 DEF Attached
        <5> HIDE DEF A
        <5>2. IsFiniteSet(A \ {p}) /\ Cardinality(A \ {p}) = Cardinality(A) - 1
          BY <5>1, FS_RemoveElement
        <5> QED
          BY <5>2 DEF A
      <4>3. Cardinality(attached[shm[p]] \ {p}) \in Nat /\ Cardinality(attached[shm[p]] \ {p}) = 0
        <5>1. Cardinality(attached[shm[p]] \ {p}) \in Nat /\ Cardinality(attached[shm[p]]) \in Nat
          BY <3>1, <4>2, FS_CardinalityType DEF Attached
        <5> QED BY <4>1, <4>2, <5>1
      <4> QED BY <4>2, <4>3, FS_EmptySet
    <3>3. attached[shm[p]] \ {p} \in SUBSET Procs
      BY <3>1 DEF Attached
    <3>4. others' \in [Procs -> SUBSET Procs] /\ (spoilt = {} => others' = [q \in Procs |-> {}])
      BY <2>5, <3>2, <3>3 DEF Left, Together
    <3> QED BY <2>5, <3>4 DEF Left, Together, LifeType, None
  <2>6. CASE Unlink(p)
    <3>1. ASSUME spoilt' = {}, ~ split', NEW q \in Procs, shm'[q] # None PROVE FALSE
      <4>1. spoilt = {} /\ ~ split /\ shm' = shm /\ others[p] = {}
        BY <2>6, <3>1 DEF Unlink, Together
      <4>2. name # None /\ q \in Users(name)
        BY <3>1, <4>1 DEF Together, Users
      <4> QED BY <2>6, <3>1, <4>1, <4>2 DEF Unlink
    <3>2. others' \in [Procs -> SUBSET Procs] /\ (spoilt = {} => others' = [q \in Procs |-> {}])
      BY <2>6 DEF Unlink, Together
    <3> QED BY <2>6, <3>1, <3>2 DEF Unlink, Together
  <2>7. CASE BusError(p) \/ Crash(p)
    BY <2>7 DEF BusError, Crash, Die, Together, LifeType, None, segvars
  <2>8. CASE \/ TryLock(p) \/ Poll(p) \/ Truncate(p) \/ Count(p) \/ InitReturn(p) \/ UseReturn(p)
             \/ Leave(p) \/ Use(p) \/ FreeCall(p)
    BY <2>8 DEF TryLock, Poll, Truncate, Count, InitReturn, UseReturn, Leave, Use, FreeCall,
         Together, segvars, history
  <2> QED BY <1>2, <2>1, <2>2, <2>3, <2>4, <2>5, <2>6, <2>7, <2>8 DEF Runs, Calls
<1> QED BY <1>1, <1>2 DEF Next

\* The invariant of the counting and of the name.
THEOREM OneInvariant == Spec => []OneInv
<1>1. Init => OneInv
  <2> SUFFICES ASSUME Init PROVE OneInv
    OBVIOUS
  <2>1. Creators = {}
    BY DEF Init, Creators
  <2>2. LifeInv
    BY LifeInit
  <2>3. Placed
    BY <2>1, LifeAssumption, FS_EmptySet DEF Init, Placed, RingPcs, InsidePcs, None
  <2>4. Attached
    BY FS_EmptySet DEF Init, Attached, Counted
  <2>5. CountRight
    BY FS_EmptySet DEF Init, CountRight
  <2>6. Together
    BY DEF Init, Together, None
  <2> QED BY <2>2, <2>3, <2>4, <2>5, <2>6 DEF OneInv
<1>2. OneInv /\ [Next]_vars => OneInv'
  BY LifeTypeStep, HoldsStep, PlacedStep, AttachedStep, CountStep, TogetherStep DEF OneInv, LifeInv
<1> QED
  BY <1>1, <1>2, PTL DEF Spec

\* Processes that are attached at the same time share one ring, however many
\* they are and wherever they are killed: unless a mutex was given up on or
\* initialised while held, or the name was taken from a ring in use by force
\* or by somebody who had left before (lnf_ring_init, lnf_ring_free).
THEOREM OneRingHolds == Spec => []OneRing
<1>1. OneInv => OneRing
  BY DEF OneInv, Placed, Together, OneRing, RingPcs, InsidePcs
<1> QED
  BY OneInvariant, <1>1, PTL

\* conn_count says how many are attached to a segment, those that were killed
\* while attached included, unless its mutex is spoilt: also with any number
\* of processes counting themselves in and out at the same time.
THEOREM CountIsAttached ==
  Spec => [](\A s \in Segments \ spoilt : conn_count[s] = Cardinality(attached[s]))
<1>1. OneInv => \A s \in Segments \ spoilt : conn_count[s] = Cardinality(attached[s])
  BY DEF OneInv, CountRight
<1> QED
  BY OneInvariant, <1>1, PTL
=============================================================================
