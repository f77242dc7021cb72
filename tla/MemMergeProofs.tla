--------------------------- MODULE MemMergeProofs --------------------------
(***************************************************************************)
(* Theorems about MemMerge, for every finite set of threads and any number *)
(* of records.  Three invariants, each resting on the one before:          *)
(*   RegInv   - ids are dense and unique, so an index has one owner;       *)
(*   HandInv  - thread_status agrees with where the owner of an index is,  *)
(*              and an index has at most one thread merging into it;       *)
(*   RowInv   - no row is lost, doubled or left behind.                    *)
(***************************************************************************)
EXTENDS MemMerge, FiniteSetTheorems, TLAPS

USE DEF HasId, MustMerge, Move, Release, modes

Registered == {t \in Threads : id[t] # NoId}

RegInv ==
  /\ TypeOK
  /\ numthreads = Cardinality(Registered)
  /\ \A t \in Threads : id[t] < numthreads
  /\ \A t, u \in Threads : id[t] = id[u] /\ id[t] # NoId => t = u
  /\ \A t \in Threads : pc[t] = "init" => id[t] = NoId
  /\ \A t \in Threads : pc[t] \in {"enter", "insert", "poll", "merge", "failed"} => id[t] # NoId
  /\ \A t \in Threads : pc[t] \in {"init", "enter", "insert"} => count[t] >= 1

\* There are finitely many threads, and an index for each.
LEMMA CardinalityThreads ==
  /\ Cardinality(Threads) \in Nat
  /\ \A S \in SUBSET Threads : IsFiniteSet(S) /\ Cardinality(S) \in Nat /\ Cardinality(S) <= Cardinality(Threads)
  /\ Threads # {} => 0 \in Ids
<1>1. Cardinality(Threads) \in Nat
  BY ThreadsAssumption, FS_CardinalityType
<1>2. \A S \in SUBSET Threads : IsFiniteSet(S) /\ Cardinality(S) \in Nat /\ Cardinality(S) <= Cardinality(Threads)
  BY ThreadsAssumption, FS_Subset, FS_CardinalityType
<1>3. Threads # {} => Cardinality(Threads) # 0
  BY ThreadsAssumption, FS_EmptySet
<1>4. QED BY <1>1, <1>2, <1>3 DEF Ids

\* lnf_mem_init establishes RegInv.
LEMMA InitRegInv == Init => RegInv
<1> SUFFICES ASSUME Init PROVE RegInv
  OBVIOUS
<1>1. TypeOK
  <2>1. oom \in BOOLEAN /\ list_mode \in BOOLEAN /\ numthreads \in Nat
    BY DEF Init
  <2>2. target \in [Threads -> Ids] /\ count \in [Threads -> 0 .. MaxRows]
    BY CardinalityThreads, BoundsAssumption DEF Init
  <2>3. QED BY <2>1, <2>2 DEF Init, TypeOK
<1>2. Registered = {}
  BY DEF Init, Registered
<1>3. QED BY <1>1, <1>2, FS_EmptySet DEF Init, RegInv, NoId

\* Registering: the next id is an index of the arrays and nobody has it.
LEMMA FreshId ==
  ASSUME RegInv, NEW t \in Threads, ThreadInit(t)
  PROVE  /\ numthreads \in Ids
         /\ \A u \in Threads : id[u] # numthreads
         /\ Registered' = Registered \cup {t}
         /\ Cardinality(Registered') = numthreads + 1
<1>1. id[t] = NoId /\ t \notin Registered
  BY DEF RegInv, ThreadInit, Registered
<1>2. \A u \in Threads : id[u] # numthreads
  BY DEF RegInv, TypeOK, Ids, NoId
<1>3. Registered' = Registered \cup {t}
  BY DEF ThreadInit, RegInv, TypeOK, Registered, NoId
<1>4. IsFiniteSet(Registered) /\ Registered' \in SUBSET Threads
  BY CardinalityThreads DEF Registered
<1>5. Cardinality(Registered') = numthreads + 1
  BY <1>1, <1>3, <1>4, FS_AddElement DEF RegInv
<1>6. numthreads \in Ids
  <2>1. numthreads \in Nat
    BY DEF RegInv, TypeOK
  <2>2. QED BY <1>4, <1>5, <2>1, CardinalityThreads DEF Ids
<1>7. QED BY <1>2, <1>3, <1>5, <1>6

\* What a step that registers nobody has to show.
LEMMA SameIds ==
  ASSUME RegInv, TypeOK', UNCHANGED <<id, numthreads>>,
         \A u \in Threads :
           /\ pc'[u] = "init" => id[u] = NoId
           /\ pc'[u] \in {"enter", "insert", "poll", "merge", "failed"} => id[u] # NoId
           /\ pc'[u] \in {"init", "enter", "insert"} => count'[u] >= 1
  PROVE  RegInv'
<1>1. Registered' = Registered
  BY DEF Registered
<1>2. QED BY <1>1 DEF RegInv

\* Every step preserves RegInv.
LEMMA StepRegInv ==
  ASSUME RegInv, [Next]_vars
  PROVE  RegInv'
<1> USE CardinalityThreads, BoundsAssumption DEF Goto
<1>0. TypeOK
  BY DEF RegInv
<1>1. ASSUME NEW t \in Threads, Write(t) PROVE RegInv'
  <2>1. TypeOK'
    BY <1>0, <1>1 DEF Write, TypeOK, RegInv
  <2>2. UNCHANGED <<id, numthreads>> /\ \A u \in Threads : u # t => pc'[u] = pc[u] /\ count'[u] = count[u]
    BY <1>0, <1>1 DEF Write, TypeOK
  <2>3. /\ pc'[t] = "init" => id[t] = NoId
        /\ pc'[t] \in {"enter", "insert", "poll", "merge", "failed"} => id[t] # NoId
        /\ pc'[t] \in {"init", "enter", "insert"} => count'[t] >= 1
    BY <1>0, <1>1 DEF Write, TypeOK, RegInv
  <2>4. QED BY <2>1, <2>2, <2>3, SameIds DEF RegInv
<1>2. ASSUME NEW t \in Threads, ThreadInit(t) PROVE RegInv'
  <2>1. TypeOK'
    <3>1. numthreads \in Ids
      BY <1>2, FreshId
    <3>2. QED BY <1>0, <1>2, <3>1 DEF ThreadInit, TypeOK
  <2>2. /\ numthreads' = numthreads + 1 /\ numthreads \in Nat /\ count' = count
        /\ \A u \in Threads : id'[u] = IF u = t THEN numthreads ELSE id[u]
        /\ \A u \in Threads : pc'[u] = IF u = t THEN "enter" ELSE pc[u]
    BY <1>2 DEF ThreadInit, RegInv, TypeOK
  <2>3. \A u \in Threads : id'[u] < numthreads'
    <3>1. \A u \in Threads : id[u] < numthreads /\ id[u] \in Int
      BY <1>0 DEF RegInv, TypeOK, Ids, NoId
    <3>2. QED BY <2>2, <3>1
  <2>4. \A u, v \in Threads : id'[u] = id'[v] /\ id'[u] # NoId => u = v
    BY <1>2, <2>2, FreshId DEF RegInv
  <2>5. id'[t] # NoId /\ count[t] >= 1
    BY <1>2, <2>2 DEF NoId, ThreadInit, RegInv
  <2>6. QED BY <1>2, <2>1, <2>2, <2>3, <2>4, <2>5, FreshId DEF RegInv
<1>3. ASSUME NEW t \in Threads, WriteEnter(t) PROVE RegInv'
  <2>1. TypeOK'
    BY <1>0, <1>3 DEF WriteEnter, TypeOK, RegInv
  <2>2. UNCHANGED <<id, numthreads>> /\ \A u \in Threads : u # t => pc'[u] = pc[u] /\ count'[u] = count[u]
    BY <1>0, <1>3 DEF WriteEnter, TypeOK
  <2>3. /\ pc'[t] = "init" => id[t] = NoId
        /\ pc'[t] \in {"enter", "insert", "poll", "merge", "failed"} => id[t] # NoId
        /\ pc'[t] \in {"init", "enter", "insert"} => count'[t] >= 1
    BY <1>0, <1>3 DEF WriteEnter, TypeOK, RegInv
  <2>4. QED BY <2>1, <2>2, <2>3, SameIds DEF RegInv
<1>4. ASSUME NEW t \in Threads, WriteInsert(t) PROVE RegInv'
  <2>1. TypeOK'
    <3>1. <<t, count[t]>> \in Rows /\ id[t] \in Ids
      BY <1>0, <1>4 DEF WriteInsert, RegInv, TypeOK, Rows
    <3>2. rows' \in [Ids -> SUBSET Rows] /\ written' \subseteq Rows
      BY <1>0, <1>4, <3>1 DEF WriteInsert, TypeOK
    <3>3. has_last' \in [Ids -> BOOLEAN]
      BY <1>0, <1>4, <3>1 DEF WriteInsert, TypeOK
    <3>4. QED BY <1>0, <1>4, <3>2, <3>3 DEF WriteInsert, TypeOK
  <2>2. UNCHANGED <<id, numthreads>> /\ \A u \in Threads : u # t => pc'[u] = pc[u] /\ count'[u] = count[u]
    BY <1>0, <1>4 DEF WriteInsert, TypeOK
  <2>3. /\ pc'[t] = "init" => id[t] = NoId
        /\ pc'[t] \in {"enter", "insert", "poll", "merge", "failed"} => id[t] # NoId
        /\ pc'[t] \in {"init", "enter", "insert"} => count'[t] >= 1
    BY <1>0, <1>4 DEF WriteInsert, TypeOK, RegInv
  <2>4. QED BY <2>1, <2>2, <2>3, SameIds DEF RegInv
<1>5. ASSUME NEW t \in Threads, MergeCall(t) PROVE RegInv'
  <2>1. TypeOK'
    BY <1>0, <1>5 DEF MergeCall, TypeOK, RegInv
  <2>2. UNCHANGED <<id, numthreads>> /\ \A u \in Threads : u # t => pc'[u] = pc[u] /\ count'[u] = count[u]
    BY <1>0, <1>5 DEF MergeCall, TypeOK
  <2>3. /\ pc'[t] = "init" => id[t] = NoId
        /\ pc'[t] \in {"enter", "insert", "poll", "merge", "failed"} => id[t] # NoId
        /\ pc'[t] \in {"init", "enter", "insert"} => count'[t] >= 1
    BY <1>0, <1>5 DEF MergeCall, TypeOK, RegInv, NoId
  <2>4. QED BY <2>1, <2>2, <2>3, SameIds DEF RegInv
<1>6. ASSUME NEW t \in Threads, MergePoll(t) PROVE RegInv'
  <2>1. TypeOK'
    BY <1>0, <1>6 DEF MergePoll, Candidates, TypeOK
  <2>2. UNCHANGED <<id, numthreads>> /\ \A u \in Threads : u # t => pc'[u] = pc[u] /\ count'[u] = count[u]
    BY <1>0, <1>6 DEF MergePoll, TypeOK
  <2>3. /\ pc'[t] = "init" => id[t] = NoId
        /\ pc'[t] \in {"enter", "insert", "poll", "merge", "failed"} => id[t] # NoId
        /\ pc'[t] \in {"init", "enter", "insert"} => count'[t] >= 1
    BY <1>0, <1>6 DEF MergePoll, TypeOK, RegInv
  <2>4. QED BY <2>1, <2>2, <2>3, SameIds DEF RegInv
<1>7. ASSUME NEW t \in Threads, MergeRow(t) PROVE RegInv'
  <2>1. TypeOK'
    <3>1. rows' \in [Ids -> SUBSET Rows]
      <4>1. id[t] \in Ids /\ target[t] \in Ids
        BY <1>0, <1>7 DEF MergeRow, RegInv, TypeOK
      <4>2. PICK row \in rows[id[t]] :
              rows' = [rows EXCEPT ![id[t]] = @ \ {row}, ![target[t]] = @ \cup {row}]
        BY <1>7 DEF MergeRow
      <4>3. row \in Rows
        BY <1>0, <4>1 DEF TypeOK
      <4>4. QED BY <1>0, <4>1, <4>2, <4>3 DEF TypeOK
    <3>2. has_last' \in [Ids -> BOOLEAN]
      BY <1>0, <1>7 DEF MergeRow, TypeOK
    <3>3. QED BY <1>0, <1>7, <3>1, <3>2 DEF MergeRow, TypeOK
  <2>2. UNCHANGED <<id, numthreads>> /\ \A u \in Threads : u # t => pc'[u] = pc[u] /\ count'[u] = count[u]
    BY <1>0, <1>7 DEF MergeRow, TypeOK
  <2>3. /\ pc'[t] = "init" => id[t] = NoId
        /\ pc'[t] \in {"enter", "insert", "poll", "merge", "failed"} => id[t] # NoId
        /\ pc'[t] \in {"init", "enter", "insert"} => count'[t] >= 1
    BY <1>0, <1>7 DEF MergeRow, TypeOK, RegInv
  <2>4. QED BY <2>1, <2>2, <2>3, SameIds DEF RegInv
<1>8. ASSUME NEW t \in Threads, MergeFail(t) PROVE RegInv'
  <2>1. TypeOK'
    BY <1>0, <1>8 DEF MergeFail, TypeOK, RegInv
  <2>2. UNCHANGED <<id, numthreads>> /\ \A u \in Threads : u # t => pc'[u] = pc[u] /\ count'[u] = count[u]
    BY <1>0, <1>8 DEF MergeFail, TypeOK
  <2>3. /\ pc'[t] = "init" => id[t] = NoId
        /\ pc'[t] \in {"enter", "insert", "poll", "merge", "failed"} => id[t] # NoId
        /\ pc'[t] \in {"init", "enter", "insert"} => count'[t] >= 1
    BY <1>0, <1>8 DEF MergeFail, TypeOK, RegInv
  <2>4. QED BY <2>1, <2>2, <2>3, SameIds DEF RegInv
<1>9. ASSUME NEW t \in Threads, MergeDone(t) PROVE RegInv'
  <2>1. TypeOK'
    <3>1. id[t] \in Ids /\ target[t] \in Ids
      BY <1>0, <1>9 DEF MergeDone, RegInv, TypeOK
    <3>2. rows' \in [Ids -> SUBSET Rows]
      <4>1. JoinRows(target[t], id[t]) \in SUBSET Rows
        BY <1>0, <3>1 DEF JoinRows, TypeOK
      <4>2. rows' = rows \/ rows' = [rows EXCEPT ![target[t]] = JoinRows(target[t], id[t]), ![id[t]] = {}]
        BY <1>9 DEF MergeDone
      <4>3. QED BY <1>0, <3>1, <4>1, <4>2 DEF TypeOK
    <3>3. has_last' \in [Ids -> BOOLEAN]
      BY <1>0, <1>9, <3>1 DEF MergeDone, TypeOK
    <3>4. QED BY <1>0, <1>9, <3>2, <3>3 DEF MergeDone, TypeOK
  <2>2. UNCHANGED <<id, numthreads>> /\ \A u \in Threads : u # t => pc'[u] = pc[u] /\ count'[u] = count[u]
    BY <1>0, <1>9 DEF MergeDone, TypeOK
  <2>3. /\ pc'[t] = "init" => id[t] = NoId
        /\ pc'[t] \in {"enter", "insert", "poll", "merge", "failed"} => id[t] # NoId
        /\ pc'[t] \in {"init", "enter", "insert"} => count'[t] >= 1
    BY <1>0, <1>9 DEF MergeDone, TypeOK, RegInv
  <2>4. QED BY <2>1, <2>2, <2>3, SameIds DEF RegInv
<1>10. CASE UNCHANGED vars
  BY <1>0, <1>10, SameIds DEF vars, TypeOK, RegInv
<1>11. CASE Exhaust
  <2>1. TypeOK' /\ UNCHANGED <<id, numthreads, pc, count>>
    BY <1>0, <1>11 DEF Exhaust, TypeOK
  <2>2. QED BY <2>1, SameIds DEF RegInv
<1>12. QED
  BY <1>1, <1>2, <1>3, <1>4, <1>5, <1>6, <1>7, <1>8, <1>9, <1>10, <1>11 DEF Next, Step

\* Thread ids are unique indices and every variable keeps its type, however
\* the threads interleave and whatever malloc does.
THEOREM TypeCorrect == Spec => []TypeOK
<1>1. RegInv /\ [Next]_vars => RegInv'
  BY StepRegInv
<1>2. RegInv => TypeOK
  BY DEF RegInv
<1>3. QED BY <1>1, <1>2, InitRegInv, PTL DEF Spec
-----------------------------------------------------------------------------
(***************************************************************************)
(* thread_status as a hand-over protocol.                                  *)
(***************************************************************************)
Merging(t) == pc[t] \in {"merge", "failed"}

StatusOf(t) ==
  LET s == thread_status[id[t]] IN
  id[t] # NoId =>
    /\ pc[t] \in {"idle", "enter"} => s \in {"EMPTY", "WRITE"}
    /\ pc[t] = "insert" => s = "WRITE"
    /\ pc[t] = "poll" => s \in {"MERGE", "MERGING"}
    /\ Merging(t) => /\ s = "MERGED"
                     /\ thread_status[target[t]] = "MERGING"
    /\ pc[t] = "done" => s \in IF id[t] = 0 THEN {"MERGE", "MERGING"} ELSE {"MERGED"}

HandInv ==
  /\ RegInv
  /\ \A t \in Threads : StatusOf(t)
  /\ \A t \in Threads : pc[t] \in {"poll", "merge", "failed"} => id[t] > 0
  /\ \A t, u \in Threads : Merging(t) /\ Merging(u) /\ target[t] = target[u] => t = u
  /\ \A i \in Ids : i >= numthreads => thread_status[i] = "EMPTY"

\* lnf_mem_init establishes HandInv.
LEMMA InitHandInv == Init => HandInv
  BY InitRegInv DEF Init, HandInv, StatusOf, Merging, NoId

\* What a step has to show when it leaves ids and targets alone, and changes
\* at most the position of t and the status of its own table.
LEMMA OwnStatus ==
  ASSUME HandInv, RegInv', NEW t \in Threads,
         UNCHANGED <<id, target, numthreads>>,
         \A u \in Threads : u # t => pc'[u] = pc[u],
         \A i \in Ids : i # id[t] => thread_status'[i] = thread_status[i],
         ~ Merging(t), ~ Merging(t)',
         pc'[t] = "poll" => id[t] > 0,
         id[t] # NoId => thread_status[id[t]] # "MERGING",
         StatusOf(t)'
  PROVE  HandInv'
<1>0. TypeOK
  BY DEF HandInv, RegInv
<1>1. \A u \in Threads : u # t /\ id[u] # NoId => id[u] \in Ids /\ thread_status'[id[u]] = thread_status[id[u]]
  BY <1>0 DEF HandInv, RegInv, TypeOK
<1>2. \A u \in Threads : Merging(u)' => Merging(u) /\ u # t
  BY DEF Merging
<1>3. \A u \in Threads : Merging(u) => thread_status'[target[u]] = thread_status[target[u]]
  <2> SUFFICES ASSUME NEW u \in Threads, Merging(u) PROVE thread_status'[target[u]] = thread_status[target[u]]
    OBVIOUS
  <2>1. id[u] # NoId /\ thread_status[target[u]] = "MERGING" /\ target[u] \in Ids
    BY <1>0 DEF HandInv, RegInv, StatusOf, Merging, TypeOK
  <2>2. target[u] # id[t]
    BY <2>1 DEF Ids, NoId
  <2>3. QED BY <2>1, <2>2
<1>4. ASSUME NEW u \in Threads PROVE StatusOf(u)'
  <2>1. CASE u = t
    BY <2>1
  <2>2. CASE u # t
    BY <1>1, <1>2, <1>3, <2>2 DEF HandInv, StatusOf, Merging
  <2>3. QED BY <2>1, <2>2
<1>5. \A u \in Threads : pc'[u] \in {"poll", "merge", "failed"} => id'[u] > 0
  BY DEF HandInv, Merging
<1>6. \A u, v \in Threads : Merging(u)' /\ Merging(v)' /\ target'[u] = target'[v] => u = v
  BY <1>2 DEF HandInv
<1>7. \A i \in Ids : i >= numthreads' => thread_status'[i] = "EMPTY"
  <2>1. id[t] < numthreads /\ id[t] \in Int /\ numthreads \in Int
    BY <1>0 DEF HandInv, RegInv, TypeOK, Ids, NoId
  <2>2. \A i \in Ids : i >= numthreads => thread_status'[i] = thread_status[i]
    BY <2>1 DEF Ids
  <2>3. QED BY <2>2 DEF HandInv
<1>8. QED BY <1>4, <1>5, <1>6, <1>7 DEF HandInv

\* Every step preserves HandInv.
LEMMA StepHandInv ==
  ASSUME HandInv, [Next]_vars
  PROVE  HandInv'
<1>0. RegInv /\ RegInv' /\ TypeOK /\ TypeOK'
  BY StepRegInv DEF HandInv, RegInv
<1>1. ASSUME NEW t \in Threads, Write(t) PROVE HandInv'
  <2>1. /\ pc[t] = "idle" /\ pc'[t] \in {"enter", "init", "idle"} /\ (id[t] # NoId => pc'[t] = "enter")
        /\ UNCHANGED <<id, target, numthreads, thread_status>>
        /\ \A u \in Threads : u # t => pc'[u] = pc[u]
    BY <1>0, <1>1 DEF Write, Goto, TypeOK
  <2>2. id[t] # NoId => thread_status[id[t]] \in {"EMPTY", "WRITE"}
    BY <2>1 DEF HandInv, StatusOf
  <2>3. StatusOf(t)' /\ ~ Merging(t) /\ ~ Merging(t)'
    BY <2>1, <2>2 DEF StatusOf, Merging
  <2>4. QED BY <1>0, <2>1, <2>2, <2>3, OwnStatus
<1>2. ASSUME NEW t \in Threads, ThreadInit(t) PROVE HandInv'
  <2>1. /\ numthreads \in Ids /\ \A u \in Threads : id[u] # numthreads
        /\ numthreads' = numthreads + 1
    BY <1>0, <1>2, FreshId DEF ThreadInit
  <2>2. /\ UNCHANGED <<thread_status, target>> /\ pc[t] = "init" /\ pc'[t] = "enter" /\ id'[t] = numthreads
        /\ \A u \in Threads : u # t => pc'[u] = pc[u] /\ id'[u] = id[u]
    BY <1>0, <1>2 DEF ThreadInit, Goto, TypeOK
  <2>3. thread_status[numthreads] = "EMPTY"
    BY <2>1 DEF HandInv, Ids
  <2>4. \A u \in Threads : StatusOf(u)'
    BY <2>2, <2>3 DEF HandInv, StatusOf, Merging
  <2>5. \A u \in Threads : Merging(u)' => Merging(u) /\ target'[u] = target[u]
    BY <2>2 DEF Merging
  <2>6. \A u \in Threads : pc'[u] \in {"poll", "merge", "failed"} => id'[u] > 0
    BY <2>2 DEF HandInv
  <2>7. \A i \in Ids : i >= numthreads' => thread_status'[i] = "EMPTY"
    BY <2>1, <2>2 DEF HandInv, Ids
  <2>8. QED BY <1>0, <2>4, <2>5, <2>6, <2>7 DEF HandInv
<1>3. ASSUME NEW t \in Threads, WriteEnter(t) PROVE HandInv'
  <2>1. /\ id[t] # NoId /\ id[t] \in Ids /\ pc[t] = "enter" /\ pc'[t] = "insert"
        /\ UNCHANGED <<id, target, numthreads>>
        /\ thread_status'[id[t]] = "WRITE"
        /\ \A u \in Threads : u # t => pc'[u] = pc[u]
        /\ \A i \in Ids : i # id[t] => thread_status'[i] = thread_status[i]
    BY <1>0, <1>3 DEF WriteEnter, Goto, RegInv, TypeOK
  <2>2. thread_status[id[t]] \in {"EMPTY", "WRITE"}
    BY <2>1 DEF HandInv, StatusOf
  <2>3. StatusOf(t)' /\ ~ Merging(t) /\ ~ Merging(t)'
    BY <2>1, <2>2 DEF StatusOf, Merging
  <2>4. QED BY <1>0, <2>1, <2>2, <2>3, OwnStatus
<1>4. ASSUME NEW t \in Threads, WriteInsert(t) PROVE HandInv'
  <2>1. /\ id[t] # NoId /\ pc[t] = "insert" /\ pc'[t] = "idle"
        /\ UNCHANGED <<id, target, numthreads, thread_status>>
        /\ \A u \in Threads : u # t => pc'[u] = pc[u]
    BY <1>0, <1>4 DEF WriteInsert, Goto, RegInv, TypeOK
  <2>2. thread_status[id[t]] = "WRITE"
    BY <2>1 DEF HandInv, StatusOf
  <2>3. StatusOf(t)' /\ ~ Merging(t) /\ ~ Merging(t)'
    BY <2>1, <2>2 DEF StatusOf, Merging
  <2>4. QED BY <1>0, <2>1, <2>2, <2>3, OwnStatus
<1>5. ASSUME NEW t \in Threads, MergeCall(t) PROVE HandInv'
  <2>1. /\ pc[t] = "idle" /\ pc'[t] = IF id[t] > 0 THEN "poll" ELSE "done"
        /\ UNCHANGED <<id, target, numthreads>>
        /\ id[t] # NoId => thread_status'[id[t]] = "MERGE" /\ id[t] \in Ids
        /\ \A u \in Threads : u # t => pc'[u] = pc[u]
        /\ \A i \in Ids : i # id[t] => thread_status'[i] = thread_status[i]
    BY <1>0, <1>5 DEF MergeCall, Goto, TypeOK
  <2>2. id[t] # NoId => thread_status[id[t]] \in {"EMPTY", "WRITE"}
    BY <2>1 DEF HandInv, StatusOf
  <2>3. StatusOf(t)' /\ ~ Merging(t) /\ ~ Merging(t)' /\ (pc'[t] = "poll" => id[t] > 0)
    BY <2>1, <2>2 DEF StatusOf, Merging, Ids
  <2>4. QED BY <1>0, <2>1, <2>2, <2>3, OwnStatus
<1>6. ASSUME NEW t \in Threads, MergePoll(t) PROVE HandInv'
  <2>1. /\ id[t] # NoId /\ id[t] \in Ids /\ id[t] > 0 /\ pc[t] = "poll" /\ pc'[t] = "merge"
        /\ UNCHANGED <<id, numthreads>>
        /\ \A u \in Threads : u # t => pc'[u] = pc[u] /\ target'[u] = target[u]
    BY <1>0, <1>6 DEF MergePoll, Goto, RegInv, TypeOK, HandInv
  <2>2. PICK i \in Ids : /\ i < id[t] /\ thread_status[id[t]] = "MERGE" /\ thread_status[i] = "MERGE"
                         /\ target' = [target EXCEPT ![t] = i]
                         /\ thread_status' = [thread_status EXCEPT ![id[t]] = "MERGED", ![i] = "MERGING"]
    BY <1>6 DEF MergePoll, Candidates
  <2>3. /\ i # id[t] /\ target'[t] = i /\ thread_status'[id[t]] = "MERGED" /\ thread_status'[i] = "MERGING"
        /\ \A j \in Ids : j # i /\ j # id[t] => thread_status'[j] = thread_status[j]
    BY <1>0, <2>1, <2>2 DEF TypeOK, Ids
  <2>4. ASSUME NEW u \in Threads, u # t, Merging(u) PROVE target[u] \in Ids /\ target[u] # i /\ target[u] # id[t] /\ thread_status[target[u]] = "MERGING"
    BY <1>0, <2>2, <2>4 DEF HandInv, RegInv, StatusOf, Merging, TypeOK
  <2>5. ASSUME NEW u \in Threads PROVE StatusOf(u)'
    <3>1. CASE u = t
      BY <2>1, <2>3, <3>1 DEF StatusOf, Merging
    <3>2. CASE u # t /\ id[u] # NoId
      <4>1. id[u] \in Ids /\ id[u] # id[t] /\ StatusOf(u)
        BY <1>0, <2>1, <3>2 DEF HandInv, RegInv, TypeOK
      <4>2. CASE id[u] = i
        BY <2>1, <2>2, <2>3, <3>2, <4>1, <4>2 DEF StatusOf, Merging
      <4>3. CASE id[u] # i
        <5>1. thread_status'[id[u]] = thread_status[id[u]]
          BY <2>3, <4>1, <4>3
        <5>2. Merging(u) => thread_status'[target[u]] = "MERGING"
          BY <2>3, <2>4, <3>2
        <5>3. QED BY <2>1, <3>2, <4>1, <5>1, <5>2 DEF StatusOf, Merging
      <4>4. QED BY <4>2, <4>3
    <3>3. CASE id[u] = NoId
      BY <2>1, <3>3 DEF StatusOf
    <3>4. QED BY <3>1, <3>2, <3>3
  <2>6. ASSUME NEW u \in Threads, NEW v \in Threads, Merging(u)', Merging(v)', target'[u] = target'[v] PROVE u = v
    <3>1. \A w \in Threads : Merging(w)' /\ w # t => Merging(w) /\ target'[w] = target[w]
      BY <2>1 DEF Merging
    <3>2. \A w \in Threads : Merging(w)' /\ w # t => target'[w] # target'[t]
      BY <2>3, <2>4, <3>1
    <3>3. QED BY <2>6, <3>1, <3>2 DEF HandInv
  <2>7. \A u \in Threads : pc'[u] \in {"poll", "merge", "failed"} => id'[u] > 0
    BY <2>1 DEF HandInv
  <2>8. \A j \in Ids : j >= numthreads' => thread_status'[j] = "EMPTY"
    BY <2>1, <2>2, <2>3 DEF HandInv
  <2>9. QED BY <1>0, <2>5, <2>6, <2>7, <2>8 DEF HandInv
<1>7. ASSUME NEW t \in Threads, MergeRow(t) PROVE HandInv'
  <2>1. UNCHANGED <<numthreads, thread_status, id, pc, target>>
    BY <1>7 DEF MergeRow
  <2>2. QED BY <1>0, <2>1 DEF HandInv, StatusOf, Merging
<1>8. ASSUME NEW t \in Threads, MergeFail(t) PROVE HandInv'
  <2>1. /\ pc[t] = "merge" /\ pc'[t] = "failed"
        /\ UNCHANGED <<numthreads, thread_status, id, target>>
        /\ \A u \in Threads : u # t => pc'[u] = pc[u]
    BY <1>0, <1>8 DEF MergeFail, Goto, TypeOK
  <2>2. \A u \in Threads : Merging(u)' <=> Merging(u)
    BY <2>1 DEF Merging
  <2>3. \A u \in Threads : StatusOf(u)'
    BY <2>1, <2>2 DEF HandInv, StatusOf, Merging
  <2>4. \A u \in Threads : pc'[u] \in {"poll", "merge", "failed"} => id'[u] > 0
    BY <2>1 DEF HandInv
  <2>5. QED BY <1>0, <2>1, <2>2, <2>3, <2>4 DEF HandInv
<1>9. ASSUME NEW t \in Threads, MergeDone(t) PROVE HandInv'
  <2> DEFINE i == target[t]
  <2>1. /\ id[t] # NoId /\ id[t] \in Ids /\ id[t] > 0 /\ i \in Ids /\ pc[t] = "merge" /\ pc'[t] = "done"
        /\ UNCHANGED <<id, numthreads, target>>
        /\ \A u \in Threads : u # t => pc'[u] = pc[u]
        /\ thread_status' = [thread_status EXCEPT ![id[t]] = "MERGED", ![i] = "MERGE"]
    BY <1>0, <1>9 DEF MergeDone, Goto, RegInv, TypeOK, HandInv
  <2>2. thread_status[id[t]] = "MERGED" /\ thread_status[i] = "MERGING"
    BY <2>1 DEF HandInv, StatusOf, Merging
  <2> HIDE DEF i
  <2>3. /\ i # id[t] /\ thread_status'[id[t]] = "MERGED" /\ thread_status'[i] = "MERGE"
        /\ \A j \in Ids : j # i /\ j # id[t] => thread_status'[j] = thread_status[j]
    BY <1>0, <2>1, <2>2 DEF TypeOK
  <2>4. ASSUME NEW u \in Threads, u # t, Merging(u) PROVE target[u] \in Ids /\ target[u] # i /\ target[u] # id[t] /\ thread_status[target[u]] = "MERGING"
    <3>1. Merging(t) /\ target[u] # target[t]
      BY <2>1, <2>4 DEF HandInv, Merging
    <3>2. QED BY <1>0, <2>2, <2>4, <3>1 DEF HandInv, RegInv, StatusOf, Merging, TypeOK, i
  <2>5. ASSUME NEW u \in Threads PROVE StatusOf(u)'
    <3>1. CASE u = t
      BY <2>1, <2>3, <3>1 DEF StatusOf, Merging
    <3>2. CASE u # t /\ id[u] # NoId
      <4>1. id[u] \in Ids /\ id[u] # id[t] /\ StatusOf(u)
        BY <1>0, <2>1, <3>2 DEF HandInv, RegInv, TypeOK
      <4>2. CASE id[u] = i
        BY <2>1, <2>2, <2>3, <3>2, <4>1, <4>2 DEF StatusOf, Merging
      <4>3. CASE id[u] # i
        <5>1. thread_status'[id[u]] = thread_status[id[u]]
          BY <2>3, <4>1, <4>3
        <5>2. Merging(u) => thread_status'[target[u]] = "MERGING"
          BY <2>3, <2>4, <3>2
        <5>3. QED BY <2>1, <3>2, <4>1, <5>1, <5>2 DEF StatusOf, Merging
      <4>4. QED BY <4>2, <4>3
    <3>3. CASE id[u] = NoId
      BY <2>1, <3>3 DEF StatusOf
    <3>4. QED BY <3>1, <3>2, <3>3
  <2>6. \A u \in Threads : Merging(u)' => Merging(u)
    BY <2>1 DEF Merging
  <2>7. \A u \in Threads : pc'[u] \in {"poll", "merge", "failed"} => id'[u] > 0
    BY <2>1 DEF HandInv
  <2>8. \A j \in Ids : j >= numthreads' => thread_status'[j] = "EMPTY"
    BY <2>1, <2>2, <2>3 DEF HandInv
  <2>9. QED BY <1>0, <2>1, <2>5, <2>6, <2>7, <2>8 DEF HandInv
<1>10. CASE Exhaust \/ UNCHANGED vars
  <2>1. UNCHANGED <<numthreads, thread_status, id, pc, target>>
    BY <1>10 DEF vars, Exhaust
  <2>2. QED BY <1>0, <2>1 DEF HandInv, StatusOf, Merging
<1>11. QED
  BY <1>1, <1>2, <1>3, <1>4, <1>5, <1>6, <1>7, <1>8, <1>9, <1>10 DEF Next, Step

\* HandInv says enough: a writer's table is WRITE, a merging thread's own
\* table MERGED and its target MERGING.
LEMMA HandImpliesExclusive == HandInv => ExclusiveTables
<1> SUFFICES ASSUME HandInv, NEW i \in Ids, NEW t \in Users(i), NEW u \in Users(i) PROVE t = u
  BY DEF ExclusiveTables
<1>0. TypeOK /\ t \in Threads /\ u \in Threads /\ StatusOf(t) /\ StatusOf(u)
  BY DEF HandInv, RegInv, Users
<1>1. ASSUME NEW w \in Users(i)
      PROVE  \/ id[w] = i /\ thread_status[i] \in {"WRITE", "MERGED"}
             \/ Merging(w) /\ target[w] = i /\ thread_status[i] = "MERGING"
  BY <1>1 DEF Users, HandInv, RegInv, StatusOf, Merging
<1>2. i # NoId
  BY DEF Ids, NoId
<1>3. QED BY <1>0, <1>1, <1>2 DEF HandInv, RegInv

\* thread_status alone keeps two threads out of one table, in both modes and
\* whatever malloc does: neither lnf_mem_write nor the merge needs the mutex
\* while it works in a table.
THEOREM ExclusiveTablesHold == Spec => []ExclusiveTables
<1>1. Init => HandInv
  BY InitHandInv
<1>2. HandInv /\ [Next]_vars => HandInv'
  BY StepHandInv
<1>3. QED BY <1>1, <1>2, HandImpliesExclusive, PTL DEF Spec
-----------------------------------------------------------------------------
(***************************************************************************)
(* Where the rows are.  In list mode the argument needs every thread that  *)
(* joins to bring a row, which holds only while memory lasts.              *)
(***************************************************************************)
Good == list_mode => ~ oom

Placed ==
  /\ \A r \in Rows : r \in written <=> \E i \in Ids : r \in rows[i]
  /\ \A i, j \in Ids : \A r \in Rows : r \in rows[i] /\ r \in rows[j] => i = j

RowFresh ==
  \A t \in Threads, k \in 1 .. MaxRows : <<t, k>> \in written =>
    k <= count[t] /\ (pc[t] \in {"init", "enter", "insert"} => k < count[t])

LastKnown ==
  list_mode =>
    /\ \A i \in Ids : rows[i] # {} => has_last[i]
    /\ \A t \in Threads : id[t] # NoId /\ pc[t] \in {"idle", "poll", "merge"} => has_last[id[t]]

Owned == \A i \in Ids : IF i < numthreads THEN \E t \in Threads : id[t] = i ELSE rows[i] = {}

DoneEmpty == \A t \in Threads : pc[t] = "done" /\ id[t] > 0 => rows[id[t]] = {}

RowInv == HandInv /\ Owned /\ (Good => Placed /\ RowFresh /\ LastKnown /\ DoneEmpty)

\* Placed is RowsKept row by row.
LEMMA PlacedRows == ASSUME TypeOK PROVE Placed => RowsKept
<1>1. \A i \in Ids : rows[i] \subseteq Rows
  BY DEF TypeOK
<1>2. SUFFICES ASSUME Placed PROVE RowsKept
  OBVIOUS
<1>3. written \subseteq UNION {rows[i] : i \in Ids}
  BY <1>2 DEF Placed, TypeOK
<1>4. UNION {rows[i] : i \in Ids} \subseteq written
  BY <1>1, <1>2 DEF Placed
<1>5. \A i, j \in Ids : i # j => rows[i] \cap rows[j] = {}
  BY <1>1, <1>2 DEF Placed
<1>6. QED BY <1>3, <1>4, <1>5 DEF RowsKept

\* An empty heap satisfies RowInv.
LEMMA InitRowInv == Init => RowInv
<1> SUFFICES ASSUME Init PROVE RowInv
  OBVIOUS
<1>1. HandInv /\ TypeOK
  BY InitHandInv DEF HandInv, RegInv
<1>2. Placed /\ RowFresh /\ DoneEmpty
  BY DEF Init, Placed, RowFresh, DoneEmpty
<1>3. LastKnown /\ Owned
  BY DEF Init, LastKnown, Owned, NoId, Ids
<1>4. QED BY <1>1, <1>2, <1>3 DEF RowInv

\* What a step that moves no row has to show.
LEMMA SameRows ==
  ASSUME RowInv, HandInv',
         UNCHANGED <<rows, has_last, written, numthreads, id, list_mode>>,
         Good' => Good,
         \A u \in Threads :
           /\ count'[u] >= count[u]
           /\ pc'[u] \in {"init", "enter", "insert"} =>
                pc[u] \in {"init", "enter", "insert"} \/ count'[u] > count[u]
           /\ list_mode /\ ~ oom /\ id[u] # NoId /\ pc'[u] \in {"idle", "poll", "merge"} =>
                pc[u] \in {"idle", "poll", "merge"}
           /\ pc'[u] = "done" /\ id[u] > 0 => pc[u] = "done"
  PROVE  RowInv'
<1>1. Owned'
  BY DEF RowInv, Owned
<1>2. ASSUME Good' PROVE Placed' /\ RowFresh' /\ LastKnown' /\ DoneEmpty'
  <2>1. Good /\ Placed /\ RowFresh /\ LastKnown /\ DoneEmpty
    BY <1>2 DEF RowInv
  <2>2. \A u \in Threads : count[u] \in Int /\ count'[u] \in Int
    <3>1. count \in [Threads -> 0 .. MaxRows] /\ count' \in [Threads -> 0 .. MaxRows]
      BY DEF RowInv, HandInv, RegInv, TypeOK
    <3>2. QED BY <3>1
  <2>3. RowFresh'
    BY <2>1, <2>2 DEF RowFresh
  <2>4. LastKnown'
    BY <2>1 DEF LastKnown, Good
  <2>5. QED BY <2>1, <2>3, <2>4 DEF Placed, DoneEmpty
<1>3. QED BY <1>1, <1>2 DEF RowInv

\* Every step preserves RowInv.
LEMMA StepRowInv ==
  ASSUME RowInv, [Next]_vars
  PROVE  RowInv'
<1>h. HandInv /\ HandInv' /\ RegInv /\ RegInv'
  BY StepHandInv DEF RowInv, HandInv
<1>t. TypeOK /\ TypeOK'
  BY <1>h DEF RegInv
<1>c. \A u \in Threads : count[u] \in 0 .. MaxRows
  BY <1>t DEF TypeOK
<1>1. ASSUME NEW t \in Threads, Write(t) PROVE RowInv'
  <2>1. /\ UNCHANGED <<rows, has_last, written, numthreads, id, list_mode, oom>>
        /\ pc[t] = "idle" /\ pc'[t] \in {"enter", "init", "idle"} /\ count'[t] = count[t] + 1
        /\ \A u \in Threads : u # t => pc'[u] = pc[u] /\ count'[u] = count[u]
    BY <1>t, <1>1 DEF Write, Goto, TypeOK
  <2>2. Good' => Good
    BY <2>1 DEF Good
  <2>3. QED BY <1>h, <1>c, <2>1, <2>2, SameRows
<1>2. ASSUME NEW t \in Threads, ThreadInit(t) PROVE RowInv'
  <2>1. /\ numthreads \in Ids /\ numthreads' = numthreads + 1
        /\ \A u \in Threads : id[u] # numthreads
    BY <1>h, <1>2, FreshId DEF ThreadInit
  <2>2. /\ UNCHANGED <<written, count, list_mode, oom>> /\ pc[t] = "init" /\ pc'[t] = "enter" /\ id'[t] = numthreads
        /\ \A u \in Threads : u # t => pc'[u] = pc[u] /\ id'[u] = id[u]
        /\ rows' = [rows EXCEPT ![numthreads] = {}]
        /\ has_last' = [has_last EXCEPT ![numthreads] = FALSE]
    BY <1>t, <1>2 DEF ThreadInit, Goto, TypeOK
  <2>3. rows[numthreads] = {}
    BY <2>1 DEF RowInv, Owned, Ids
  <2>4. \A i \in Ids : rows'[i] = rows[i]
    BY <1>t, <2>1, <2>2, <2>3 DEF TypeOK
  <2>5. Owned'
    <3> SUFFICES ASSUME NEW i \in Ids
                 PROVE  IF i < numthreads' THEN \E u \in Threads : id'[u] = i ELSE rows'[i] = {}
      BY DEF Owned
    <3>1. CASE i = numthreads
      BY <2>1, <2>2, <3>1 DEF Ids
    <3>2. CASE i < numthreads
      <4>1. PICK u \in Threads : id[u] = i
        BY <3>2 DEF RowInv, Owned
      <4>2. u # t
        BY <1>h, <1>2, <4>1 DEF RegInv, ThreadInit, Ids, NoId
      <4>3. QED BY <2>1, <2>2, <3>2, <4>1, <4>2 DEF Ids
    <3>3. CASE i > numthreads
      BY <2>1, <2>4, <3>3 DEF RowInv, Owned, Ids
    <3>4. QED BY <2>1, <3>1, <3>2, <3>3 DEF Ids
  <2>6. ASSUME Good' PROVE Placed' /\ RowFresh' /\ LastKnown' /\ DoneEmpty'
    <3>1. Placed /\ RowFresh /\ LastKnown /\ DoneEmpty
      BY <2>2, <2>6 DEF RowInv, Good
    <3>2. Placed'
      BY <2>2, <2>4, <3>1 DEF Placed
    <3>3. RowFresh'
      BY <2>2, <3>1 DEF RowFresh
    <3>4. LastKnown'
      <4>1. \A i \in Ids : i # numthreads => has_last'[i] = has_last[i]
        BY <1>t, <2>1, <2>2 DEF TypeOK
      <4>2. \A u \in Threads : u # t /\ id[u] # NoId => id[u] \in Ids
        BY <1>t DEF TypeOK
      <4>3. QED BY <2>1, <2>2, <2>3, <2>4, <3>1, <4>1, <4>2 DEF LastKnown
    <3>5. DoneEmpty'
      <4>1. \A u \in Threads : pc'[u] = "done" /\ id'[u] > 0 => u # t /\ pc[u] = "done" /\ id[u] > 0 /\ id[u] \in Ids
        BY <1>t, <2>2 DEF TypeOK, NoId
      <4>2. QED BY <2>2, <2>4, <3>1, <4>1 DEF DoneEmpty
    <3>6. QED BY <3>2, <3>3, <3>4, <3>5
  <2>7. QED BY <1>h, <2>5, <2>6 DEF RowInv
<1>3. ASSUME NEW t \in Threads, WriteEnter(t) PROVE RowInv'
  <2>1. /\ UNCHANGED <<rows, has_last, written, numthreads, id, list_mode, oom, count>>
        /\ pc[t] = "enter" /\ pc'[t] = "insert"
        /\ \A u \in Threads : u # t => pc'[u] = pc[u]
    BY <1>t, <1>3 DEF WriteEnter, Goto, TypeOK
  <2>2. Good' => Good
    BY <2>1 DEF Good
  <2>3. QED BY <1>h, <1>c, <2>1, <2>2, SameRows
<1>4. ASSUME NEW t \in Threads, WriteInsert(t) PROVE RowInv'
  <2>1. /\ UNCHANGED <<numthreads, id, list_mode, oom, count>> /\ id[t] # NoId /\ id[t] \in Ids
        /\ id[t] < numthreads /\ pc[t] = "insert" /\ pc'[t] = "idle"
        /\ \A u \in Threads : u # t => pc'[u] = pc[u]
    BY <1>h, <1>t, <1>4 DEF WriteInsert, Goto, TypeOK, RegInv
  <2>2. Good' <=> Good
    BY <2>1 DEF Good
  <2>3. CASE oom /\ UNCHANGED <<rows, has_last, written>>
    BY <1>h, <1>c, <2>1, <2>2, <2>3, SameRows
  <2>4. CASE /\ has_last' = [has_last EXCEPT ![id[t]] = @ \/ rows[id[t]] = {}]
             /\ rows' = [rows EXCEPT ![id[t]] = @ \cup {<<t, count[t]>>}]
             /\ written' = written \cup {<<t, count[t]>>}
    <3> DEFINE row == <<t, count[t]>>
    <3>1. row \in Rows /\ count[t] \in 1 .. MaxRows
      BY <1>h, <1>c, <2>1 DEF Rows, RegInv
    <3>2. /\ rows'[id[t]] = rows[id[t]] \cup {row}
          /\ \A i \in Ids : i # id[t] => rows'[i] = rows[i]
      BY <1>t, <2>1, <2>4 DEF TypeOK
    <3>3. /\ has_last'[id[t]] = (has_last[id[t]] \/ rows[id[t]] = {})
          /\ \A i \in Ids : i # id[t] => has_last'[i] = has_last[i]
      BY <1>t, <2>1, <2>4 DEF TypeOK
    <3>4. Owned'
      BY <2>1, <3>2 DEF RowInv, Owned, Ids
    <3>5. ASSUME Good' PROVE Placed' /\ RowFresh' /\ LastKnown' /\ DoneEmpty'
      <4>1. Placed /\ RowFresh /\ LastKnown /\ DoneEmpty
        BY <2>2, <3>5 DEF RowInv
      <4>2. row \notin written
        BY <2>1, <3>1, <4>1 DEF RowFresh
      <4>3. Placed'
        <5>1. \A i \in Ids : row \notin rows[i]
          BY <3>1, <4>1, <4>2 DEF Placed
        <5>2. written' = written \cup {row}
          BY <2>4
        <5> HIDE DEF row
        <5>3. \A r \in Rows : r \in written' <=> \E i \in Ids : r \in rows'[i]
          BY <2>1, <3>2, <4>1, <5>2 DEF Placed
        <5>4. \A i, j \in Ids : \A r \in Rows : r \in rows'[i] /\ r \in rows'[j] => i = j
          BY <3>2, <4>1, <5>1 DEF Placed
        <5>5. QED BY <5>3, <5>4 DEF Placed
      <4>4. RowFresh'
        <5> SUFFICES ASSUME NEW u \in Threads, NEW k \in 1 .. MaxRows, <<u, k>> \in written'
                     PROVE  k <= count'[u] /\ (pc'[u] \in {"init", "enter", "insert"} => k < count'[u])
          BY DEF RowFresh
        <5>1. CASE <<u, k>> \in written
          BY <2>1, <4>1, <5>1 DEF RowFresh
        <5>2. CASE <<u, k>> = row
          BY <2>1, <3>1, <5>2
        <5>3. QED BY <2>4, <5>1, <5>2
      <4>5. LastKnown'
        <5>1. ASSUME list_mode PROVE has_last'[id[t]]
          BY <2>1, <3>3, <4>1, <5>1 DEF LastKnown
        <5>2. \A u \in Threads : id[u] # NoId => id[u] \in Ids
          BY <1>t DEF TypeOK
        <5>3. QED BY <2>1, <3>2, <3>3, <4>1, <5>1, <5>2 DEF LastKnown
      <4>6. DoneEmpty'
        <5>1. \A u \in Threads : pc'[u] = "done" /\ id[u] > 0 => u # t /\ id[u] \in Ids /\ id[u] # id[t]
          BY <1>h, <1>t, <2>1 DEF RegInv, TypeOK, NoId
        <5>2. QED BY <2>1, <3>2, <4>1, <5>1 DEF DoneEmpty
      <4>7. QED BY <4>3, <4>4, <4>5, <4>6
    <3>6. QED BY <1>h, <3>4, <3>5 DEF RowInv
  <2>5. QED BY <1>4, <2>3, <2>4 DEF WriteInsert
<1>5. ASSUME NEW t \in Threads, MergeCall(t) PROVE RowInv'
  <2>1. /\ UNCHANGED <<rows, has_last, written, numthreads, id, list_mode, oom, count>>
        /\ pc[t] = "idle" /\ pc'[t] \in {"poll", "done"} /\ (pc'[t] = "done" => ~ id[t] > 0)
        /\ \A u \in Threads : u # t => pc'[u] = pc[u]
    BY <1>t, <1>5 DEF MergeCall, Goto, TypeOK
  <2>2. Good' => Good
    BY <2>1 DEF Good
  <2>3. QED BY <1>h, <1>c, <2>1, <2>2, SameRows
<1>6. ASSUME NEW t \in Threads, MergePoll(t) PROVE RowInv'
  <2>1. /\ UNCHANGED <<rows, has_last, written, numthreads, id, list_mode, oom, count>>
        /\ pc[t] = "poll" /\ pc'[t] = "merge"
        /\ \A u \in Threads : u # t => pc'[u] = pc[u]
    BY <1>t, <1>6 DEF MergePoll, Goto, TypeOK
  <2>2. Good' => Good
    BY <2>1 DEF Good
  <2>3. QED BY <1>h, <1>c, <2>1, <2>2, SameRows
<1>8. ASSUME NEW t \in Threads, MergeFail(t) PROVE RowInv'
  <2>1. /\ UNCHANGED <<rows, has_last, written, numthreads, id, list_mode, oom, count>>
        /\ pc[t] = "merge" /\ pc'[t] = "failed"
        /\ \A u \in Threads : u # t => pc'[u] = pc[u]
    BY <1>t, <1>8 DEF MergeFail, Goto, TypeOK
  <2>2. Good' => Good
    BY <2>1 DEF Good
  <2>3. QED BY <1>h, <1>c, <2>1, <2>2, SameRows
<1>10. CASE Exhaust \/ UNCHANGED vars
  <2>1. UNCHANGED <<rows, has_last, written, numthreads, id, list_mode, count, pc>>
    BY <1>10 DEF Exhaust, vars
  <2>2. Good' => Good
    BY <1>10 DEF Good, Exhaust, vars
  <2>3. QED BY <1>h, <1>c, <2>1, <2>2, SameRows
<1>m. ASSUME NEW t \in Threads, pc[t] = "merge"
      PROVE  /\ id[t] \in Ids /\ target[t] \in Ids /\ id[t] # target[t] /\ id[t] > 0
             /\ id[t] < numthreads /\ target[t] < numthreads
             /\ \A u \in Threads : u # t => id[u] # id[t]
             /\ \A u \in Threads : pc[u] = "done" /\ id[u] > 0 => id[u] \in Ids /\ id[u] # target[t]
  <2>1. /\ id[t] \in Ids /\ target[t] \in Ids /\ id[t] > 0 /\ id[t] # NoId /\ StatusOf(t)
        /\ id[t] < numthreads /\ \A u \in Threads : u # t => id[u] # id[t]
    BY <1>h, <1>t, <1>m DEF HandInv, RegInv, TypeOK
  <2>2. thread_status[id[t]] = "MERGED" /\ thread_status[target[t]] = "MERGING"
    BY <1>m, <2>1 DEF StatusOf, Merging
  <2>3. target[t] < numthreads
    <3>1. numthreads \in Nat
      BY <1>t DEF TypeOK
    <3>2. QED BY <1>h, <2>1, <2>2, <3>1 DEF HandInv, Ids
  <2>4. ASSUME NEW u \in Threads, pc[u] = "done", id[u] > 0 PROVE id[u] \in Ids /\ id[u] # target[t]
    <3>1. id[u] # NoId /\ id[u] \in Ids /\ id[u] # 0
      BY <1>t, <2>4 DEF TypeOK, NoId, Ids
    <3>2. thread_status[id[u]] = "MERGED"
      BY <1>h, <2>4, <3>1 DEF HandInv, StatusOf
    <3>3. QED BY <2>2, <3>1, <3>2
  <2>5. QED BY <2>1, <2>2, <2>3, <2>4
<1>7. ASSUME NEW t \in Threads, MergeRow(t) PROVE RowInv'
  <2>1. UNCHANGED <<numthreads, id, list_mode, oom, count, pc, written>> /\ pc[t] = "merge" /\ ~ list_mode
    BY <1>7 DEF MergeRow
  <2>2. PICK row \in rows[id[t]] :
          rows' = [rows EXCEPT ![id[t]] = @ \ {row}, ![target[t]] = @ \cup {row}]
    BY <1>7 DEF MergeRow
  <2>3. /\ rows'[id[t]] = rows[id[t]] \ {row}
        /\ rows'[target[t]] = rows[target[t]] \cup {row}
        /\ \A i \in Ids : i # id[t] /\ i # target[t] => rows'[i] = rows[i]
    BY <1>t, <1>m, <2>1, <2>2 DEF TypeOK
  <2>4. Owned'
    BY <1>m, <2>1, <2>3 DEF RowInv, Owned
  <2>5. ASSUME Good' PROVE Placed' /\ RowFresh' /\ LastKnown' /\ DoneEmpty'
    <3>1. Placed /\ RowFresh /\ LastKnown /\ DoneEmpty
      BY <2>1, <2>5 DEF RowInv, Good
    <3>2. Placed'
      <4>1. \A r \in Rows : r \in written <=> \E i \in Ids : r \in rows'[i]
        <5> SUFFICES ASSUME NEW r \in Rows PROVE r \in written <=> \E i \in Ids : r \in rows'[i]
          OBVIOUS
        <5>1. CASE r = row
          BY <1>m, <2>1, <2>2, <2>3, <3>1, <5>1 DEF Placed
        <5>2. CASE r # row
          <6>1. \A i \in Ids : r \in rows'[i] <=> r \in rows[i]
            BY <1>m, <2>1, <2>3, <5>2
          <6>2. QED BY <3>1, <6>1 DEF Placed
        <5>3. QED BY <5>1, <5>2
      <4>2. \A i, j \in Ids : \A r \in Rows : r \in rows'[i] /\ r \in rows'[j] => i = j
        <5> SUFFICES ASSUME NEW i \in Ids, NEW j \in Ids, NEW r \in Rows, r \in rows'[i], r \in rows'[j]
                     PROVE  i = j
          OBVIOUS
        <5>1. CASE r = row
          <6>1. \A n \in Ids : r \in rows'[n] => n = target[t]
            BY <1>m, <2>1, <2>2, <2>3, <3>1, <5>1 DEF Placed
          <6>2. QED BY <6>1
        <5>2. CASE r # row
          <6>1. \A n \in Ids : r \in rows'[n] => r \in rows[n]
            BY <1>m, <2>1, <2>3, <5>2
          <6>2. QED BY <3>1, <6>1 DEF Placed
        <5>3. QED BY <5>1, <5>2
      <4>3. QED BY <2>1, <4>1, <4>2 DEF Placed
    <3>3. RowFresh' /\ LastKnown'
      BY <2>1, <3>1 DEF RowFresh, LastKnown
    <3>4. DoneEmpty'
      <4>1. \A u \in Threads : pc[u] = "done" => u # t
        BY <2>1
      <4>2. QED BY <1>m, <2>1, <2>3, <3>1, <4>1 DEF DoneEmpty
    <3>5. QED BY <3>2, <3>3, <3>4
  <2>6. QED BY <1>h, <2>4, <2>5 DEF RowInv
<1>9. ASSUME NEW t \in Threads, MergeDone(t) PROVE RowInv'
  <2>1. /\ UNCHANGED <<numthreads, id, list_mode, oom, count, written>> /\ pc[t] = "merge" /\ pc'[t] = "done"
        /\ \A u \in Threads : u # t => pc'[u] = pc[u]
    BY <1>t, <1>9 DEF MergeDone, Goto, TypeOK
  <2>2. CASE ~ list_mode
    <3>1. rows[id[t]] = {} /\ rows' = rows
      BY <1>9, <2>2 DEF MergeDone
    <3>2. Owned'
      BY <2>1, <3>1 DEF RowInv, Owned
    <3>3. ASSUME Good' PROVE Placed' /\ RowFresh' /\ LastKnown' /\ DoneEmpty'
      <4>1. Placed /\ RowFresh /\ LastKnown /\ DoneEmpty
        BY <2>1, <3>3 DEF RowInv, Good
      <4>2. Placed' /\ LastKnown'
        BY <2>1, <2>2, <3>1, <4>1 DEF Placed, LastKnown
      <4>3. RowFresh' /\ DoneEmpty'
        BY <2>1, <3>1, <4>1 DEF RowFresh, DoneEmpty
      <4>4. QED BY <4>2, <4>3
    <3>4. QED BY <1>h, <3>2, <3>3 DEF RowInv
  <2>3. CASE list_mode
    <3>1. /\ rows' = [rows EXCEPT ![target[t]] = JoinRows(target[t], id[t]), ![id[t]] = {}]
          /\ has_last' = [has_last EXCEPT ![target[t]] = has_last[id[t]], ![id[t]] = FALSE]
      BY <1>9, <2>3 DEF MergeDone
    <3>2. /\ rows'[target[t]] = JoinRows(target[t], id[t])
          /\ rows'[id[t]] = {}
          /\ \A i \in Ids : i # id[t] /\ i # target[t] => rows'[i] = rows[i]
      BY <1>t, <1>m, <2>1, <3>1 DEF TypeOK
    <3>3. /\ has_last'[target[t]] = has_last[id[t]]
          /\ \A i \in Ids : i # id[t] /\ i # target[t] => has_last'[i] = has_last[i]
      BY <1>t, <1>m, <2>1, <3>1 DEF TypeOK
    <3>4. Owned'
      BY <1>m, <2>1, <3>2 DEF RowInv, Owned
    <3>5. ASSUME Good' PROVE Placed' /\ RowFresh' /\ LastKnown' /\ DoneEmpty'
      <4>1. Placed /\ RowFresh /\ LastKnown /\ DoneEmpty
        BY <2>1, <3>5 DEF RowInv, Good
      <4>2. id[t] # NoId /\ has_last[id[t]]
        BY <1>m, <2>1, <2>3, <4>1 DEF LastKnown, NoId
      <4>3. rows'[target[t]] = rows[target[t]] \cup rows[id[t]]
        BY <1>m, <2>1, <2>3, <3>2, <4>1 DEF LastKnown, JoinRows
      <4>4. Placed'
        <5>1. \A r \in Rows : r \in written <=> \E i \in Ids : r \in rows'[i]
          <6> SUFFICES ASSUME NEW r \in Rows
                       PROVE  (\E i \in Ids : r \in rows[i]) <=> (\E i \in Ids : r \in rows'[i])
            BY <4>1 DEF Placed
          <6>1. ASSUME NEW i \in Ids, r \in rows[i] PROVE \E j \in Ids : r \in rows'[j]
            BY <1>m, <2>1, <3>2, <4>3, <6>1
          <6>2. ASSUME NEW i \in Ids, r \in rows'[i] PROVE \E j \in Ids : r \in rows[j]
            BY <1>m, <2>1, <3>2, <4>3, <6>2
          <6>3. QED BY <6>1, <6>2
        <5>2. \A i, j \in Ids : \A r \in Rows : r \in rows'[i] /\ r \in rows'[j] => i = j
          BY <1>m, <2>1, <3>2, <4>1, <4>3 DEF Placed
        <5>3. QED BY <2>1, <5>1, <5>2 DEF Placed
      <4>5. RowFresh'
        BY <2>1, <4>1 DEF RowFresh
      <4>6. LastKnown'
        <5>1. \A i \in Ids : rows'[i] # {} => has_last'[i]
          BY <1>m, <2>1, <2>3, <3>2, <3>3, <4>1, <4>2 DEF LastKnown
        <5>2. ASSUME NEW u \in Threads, id[u] # NoId, pc'[u] \in {"idle", "poll", "merge"} PROVE has_last'[id[u]]
          <6>1. u # t /\ pc[u] \in {"idle", "poll", "merge"} /\ id[u] \in Ids /\ id[u] # id[t]
            BY <1>m, <1>t, <2>1, <5>2 DEF TypeOK
          <6>2. has_last[id[u]]
            BY <2>3, <4>1, <5>2, <6>1 DEF LastKnown
          <6>3. CASE id[u] = target[t]
            BY <3>3, <4>2, <6>3
          <6>4. CASE id[u] # target[t]
            BY <3>3, <6>1, <6>2, <6>4
          <6>5. QED BY <6>3, <6>4
        <5>3. QED BY <2>1, <5>1, <5>2 DEF LastKnown
      <4>7. DoneEmpty'
        <5> SUFFICES ASSUME NEW u \in Threads, pc'[u] = "done", id[u] > 0 PROVE rows'[id[u]] = {}
          BY <2>1 DEF DoneEmpty
        <5>1. CASE u = t
          BY <3>2, <5>1
        <5>2. CASE u # t
          <6>1. pc[u] = "done" /\ id[u] \in Ids /\ id[u] # target[t] /\ id[u] # id[t]
            BY <1>m, <2>1, <5>2
          <6>2. QED BY <3>2, <4>1, <6>1 DEF DoneEmpty
        <5>3. QED BY <5>1, <5>2
      <4>8. QED BY <4>4, <4>5, <4>6, <4>7
    <3>6. QED BY <1>h, <3>4, <3>5 DEF RowInv
  <2>4. QED BY <1>t, <2>2, <2>3 DEF TypeOK
<1>11. QED
  BY <1>1, <1>2, <1>3, <1>4, <1>5, <1>6, <1>7, <1>8, <1>9, <1>10 DEF Next, Step

\* RowInv is inductive and holds from the start.
LEMMA RowInvariant == Spec => []RowInv
<1>1. RowInv /\ [Next]_vars => RowInv'
  BY StepRowInv
<1>2. QED BY <1>1, InitRowInv, PTL DEF Spec

\* No row that lnf_mem_write acknowledged is lost or doubled by the merge,
\* for any number of threads and records: in hash mode whatever malloc does,
\* in list mode as long as no allocation fails.
THEOREM NothingLostHolds == Spec => []NothingLost
<1>1. RowInv => NothingLost
  BY PlacedRows DEF RowInv, HandInv, RegInv, NothingLost, Good
<1>2. QED BY <1>1, RowInvariant, PTL

\* When every call of lnf_mem_merge_threads has returned LNF_OK, table 0
\* holds all rows and every other table is empty.
THEOREM ResultCompleteHolds == Spec => []ResultComplete
<1>1. RowInv => ResultComplete
  <2> SUFFICES ASSUME RowInv, \A t \in Threads : pc[t] = "done", Good, NEW i \in Ids
               PROVE  rows[i] = IF i = 0 THEN written ELSE {}
    BY DEF ResultComplete, Good
  <2>1. TypeOK /\ Placed /\ DoneEmpty
    BY DEF RowInv, HandInv, RegInv
  <2>2. \A j \in Ids : j # 0 => rows[j] = {}
    <3> SUFFICES ASSUME NEW j \in Ids, j # 0 PROVE rows[j] = {}
      OBVIOUS
    <3>1. CASE j < numthreads
      <4>1. PICK t \in Threads : id[t] = j
        BY <3>1 DEF RowInv, Owned
      <4>2. QED BY <2>1, <4>1 DEF DoneEmpty, Ids
    <3>2. CASE ~ j < numthreads
      BY <3>2 DEF RowInv, Owned
    <3>3. QED BY <3>1, <3>2
  <2>3. CASE i = 0
    <3>1. rows[0] \subseteq Rows /\ written \subseteq Rows
      BY <2>1, <2>3 DEF TypeOK
    <3>2. \A r \in Rows : r \in written <=> r \in rows[0]
      BY <2>1, <2>2, <2>3 DEF Placed
    <3>3. QED BY <2>3, <3>1, <3>2
  <2>4. QED BY <2>2, <2>3
<1>2. QED BY <1>1, RowInvariant, PTL
=============================================================================
