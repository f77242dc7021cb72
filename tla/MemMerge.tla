------------------------------ MODULE MemMerge -----------------------------
(***************************************************************************)
(* Threads that share one memory heap (src/memheap.c): every thread writes *)
(* into a hash table of its own, found through its thread id, and when it  *)
(* has no more records folds that table into the one of a thread with a    *)
(* lower id (lnf_mem_merge_threads).  Table 0 is what lnf_mem_first_c,     *)
(* lnf_mem_next_c and lnf_mem_lookup_c read afterwards.                    *)
(*                                                                         *)
(* Each region under thread_mutex is one action.  Inserting into a table   *)
(* and moving rows between tables happen without the mutex: a thread       *)
(* enters its table in one step and changes it in later ones.              *)
(*                                                                         *)
(* Rows are tokens: what aggregation does with them is HashTable's part.   *)
(***************************************************************************)
EXTENDS Integers, FiniteSets

CONSTANTS
  Threads,      \* the threads that use the heap
  MaxRows,      \* bound: records each thread writes
  MaxThreads,   \* LNF_MAX_THREADS
  Faults        \* subset of {"nomem"}: memory may run out

ASSUME ThreadsAssumption == IsFiniteSet(Threads)
ASSUME BoundsAssumption  == MaxRows \in Nat /\ MaxThreads \in Nat \ {0}
ASSUME FaultsAssumption  == Faults \subseteq {"nomem"}

NoId == -1
Rows == Threads \X (1 .. MaxRows)

\* Indices of thread_status and hash_table.  The C arrays end at MaxThreads;
\* these are long enough for every thread (see IdsInBounds).
Ids == 0 .. Cardinality(Threads) - 1

VARIABLES
  oom,         \* memory has run out: from now on malloc may fail
  \* lnf_mem_t
  list_mode,   \* LNF_OPT_LISTMODE: tables are joined, not merged
  numthreads, thread_status,
  rows,        \* per table: the rows in it
  has_last,    \* per table: slast # NULL
  \* per thread
  id,          \* the value behind thread_id_key
  pc, target,  \* position in lnf_mem_write or lnf_mem_merge_threads; id2
  count,       \* records it has tried to write
  \* history: the rows whose write returned LNF_OK
  written

modes == <<oom, list_mode>>
vars == <<modes, numthreads, thread_status, rows, has_last, id, pc, target, count, written>>

\* lnf_mem_init and lnf_mem_setopt
Init ==
  /\ oom = FALSE
  /\ list_mode \in BOOLEAN
  /\ numthreads = 0
  /\ thread_status = [i \in Ids |-> "EMPTY"]
  /\ rows = [i \in Ids |-> {}]
  /\ has_last = [i \in Ids |-> FALSE]
  /\ id = [t \in Threads |-> NoId]
  /\ pc = [t \in Threads |-> "idle"]
  /\ target = [t \in Threads |-> 0]
  /\ count = [t \in Threads |-> 0]
  /\ written = {}

Goto(t, l) == pc' = [pc EXCEPT ![t] = l]
-----------------------------------------------------------------------------
(***************************************************************************)
(* lnf_mem_write, lnf_mem_write_raw                                        *)
(***************************************************************************)

\* The test in lnf_mem_thread_init, made before the mutex is taken.
MayRegister == numthreads <= MaxThreads

\* mutant of HasId: the thread-specific id is never found
HasNoId(t) == FALSE

\* pthread_getspecific(thread_id_key) # NULL
HasId(t) == id[t] # NoId

\* A thread without an id registers first; when that is refused, or the id
\* cannot be allocated, the record is dropped with an error.
Write(t) ==
  /\ pc[t] = "idle"
  /\ count[t] < MaxRows
  /\ count' = [count EXCEPT ![t] = @ + 1]
  /\ \/ HasId(t) /\ Goto(t, "enter")
     \/ ~ HasId(t) /\ MayRegister /\ Goto(t, "init")
     \/ ~ HasId(t) /\ (~ MayRegister \/ oom) /\ Goto(t, "idle")
  /\ UNCHANGED <<modes, numthreads, thread_status, rows, has_last, id, target, written>>

\* The rest of lnf_mem_thread_init: the id under the mutex, then an empty
\* table.  (That the table's buckets cannot be allocated is left out: the
\* thread keeps its id and the next write uses uninitialised memory.)
ThreadInit(t) ==
  /\ pc[t] = "init"
  /\ id' = [id EXCEPT ![t] = numthreads]
  /\ numthreads' = numthreads + 1
  /\ rows' = [rows EXCEPT ![numthreads] = {}]
  /\ has_last' = [has_last EXCEPT ![numthreads] = FALSE]
  /\ Goto(t, "enter")
  /\ UNCHANGED <<modes, thread_status, target, count, written>>

\* thread_status is set without the mutex, then the table is entered.
WriteEnter(t) ==
  /\ pc[t] = "enter"
  /\ thread_status' = [thread_status EXCEPT ![id[t]] = "WRITE"]
  /\ Goto(t, "insert")
  /\ UNCHANGED <<modes, numthreads, rows, has_last, id, target, count, written>>

\* hash_table_insert_hash or hash_table_insert_list puts the row in front:
\* it is the last one too when there was none.
WriteInsert(t) ==
  /\ pc[t] = "insert"
  /\ \/ LET row == <<t, count[t]>> IN
        /\ has_last' = [has_last EXCEPT ![id[t]] = @ \/ rows[id[t]] = {}]
        /\ rows' = [rows EXCEPT ![id[t]] = @ \cup {row}]
        /\ written' = written \cup {row}
     \/ oom /\ UNCHANGED <<rows, has_last, written>>
  /\ Goto(t, "idle")
  /\ UNCHANGED <<modes, numthreads, thread_status, id, target, count>>
-----------------------------------------------------------------------------
(***************************************************************************)
(* lnf_mem_merge_threads, called once by every thread when it is done      *)
(***************************************************************************)

\* mutant of MustMerge: thread 1 is let go as well
MustMergeAboveOne(t) == id[t] > 1

\* thread id 0, and a thread that wrote nothing, have nothing to do
MustMerge(t) == id[t] > 0

MergeCall(t) ==
  /\ pc[t] = "idle"
  /\ IF HasId(t)
     THEN thread_status' = [thread_status EXCEPT ![id[t]] = "MERGE"]
     ELSE UNCHANGED thread_status
  /\ Goto(t, IF MustMerge(t) THEN "poll" ELSE "done")
  /\ UNCHANGED <<modes, numthreads, rows, has_last, id, target, count, written>>

\* mutant of Candidates: whether somebody merges into n is not looked at
CandidatesForAnyone(n) == {i \in Ids : i < n /\ thread_status[i] = "MERGE"}

\* The threads a thread with id n may merge into; the code takes the first.
Candidates(n) == {i \in Ids : i < n /\ thread_status[n] = "MERGE" /\ thread_status[i] = "MERGE"}

\* One round of the busy loop that finds somebody.
MergePoll(t) ==
  /\ pc[t] = "poll"
  /\ \E i \in Candidates(id[t]) :
       /\ \A j \in Candidates(id[t]) : i <= j
       /\ target' = [target EXCEPT ![t] = i]
       /\ thread_status' = [thread_status EXCEPT ![id[t]] = "MERGED", ![i] = "MERGING"]
  /\ Goto(t, "merge")
  /\ UNCHANGED <<modes, numthreads, rows, has_last, id, count, written>>

\* mutant of Move: the row is freed before it is put in
MoveNowhere(from, to, row) == [rows EXCEPT ![from] = @ \ {row}]

Move(from, to, row) == [rows EXCEPT ![from] = @ \ {row}, ![to] = @ \cup {row}]

\* hash_table_merge: one row is inserted into the target and freed.
MergeRow(t) ==
  /\ pc[t] = "merge" /\ ~ list_mode
  /\ \E row \in rows[id[t]] :
       /\ rows' = Move(id[t], target[t], row)
       /\ has_last' = [has_last EXCEPT ![target[t]] = @ \/ rows[target[t]] = {}]
  /\ UNCHANGED <<modes, numthreads, thread_status, id, pc, target, count, written>>

\* hash_table_merge fails in the target's malloc: LNF_ERR_NOMEM at once.
MergeFail(t) ==
  /\ oom
  /\ pc[t] = "merge" /\ ~ list_mode
  /\ rows[id[t]] # {}
  /\ Goto(t, "failed")
  /\ UNCHANGED <<modes, numthreads, thread_status, rows, has_last, id, target, count, written>>

\* hash_table_join: the source's list is hung after the target's last row,
\* or becomes the target's list when the target has no last row.
JoinRows(td, ts) == IF has_last[td] THEN rows[td] \cup rows[ts] ELSE rows[ts]

\* mutant of Release: only the thread's own status is set
ReleaseSelf(t) == [thread_status EXCEPT ![id[t]] = "MERGED"]

\* LNF_TH_CLEARED, which has the value of LNF_TH_MERGED, and the target back
Release(t) == [thread_status EXCEPT ![id[t]] = "MERGED", ![target[t]] = "MERGE"]

\* The table has been moved: free it and give the target back.
MergeDone(t) ==
  /\ pc[t] = "merge"
  /\ IF list_mode
     THEN /\ rows' = [rows EXCEPT ![target[t]] = JoinRows(target[t], id[t]), ![id[t]] = {}]
          /\ has_last' = [has_last EXCEPT ![target[t]] = has_last[id[t]], ![id[t]] = FALSE]
     ELSE /\ rows[id[t]] = {}
          /\ has_last' = [has_last EXCEPT ![id[t]] = FALSE]
          /\ UNCHANGED rows
  /\ thread_status' = Release(t)
  /\ Goto(t, "done")
  /\ UNCHANGED <<modes, numthreads, id, target, count, written>>
-----------------------------------------------------------------------------
Step(t) == \/ Write(t) \/ ThreadInit(t) \/ WriteEnter(t) \/ WriteInsert(t)
           \/ MergeCall(t) \/ MergePoll(t) \/ MergeRow(t) \/ MergeFail(t) \/ MergeDone(t)

Exhaust ==
  /\ "nomem" \in Faults /\ ~ oom
  /\ oom' = TRUE
  /\ UNCHANGED <<list_mode, numthreads, thread_status, rows, has_last, id, pc, target, count, written>>

Next == Exhaust \/ \E t \in Threads : Step(t)

Spec == Init /\ [][Next]_vars

(***************************************************************************)
(* Every thread keeps running (process_thread in bin/nfdumpp.c): it has    *)
(* finitely many records, then calls lnf_mem_merge_threads, which spins    *)
(* and never sleeps on anything.  Memory need not run out.                 *)
(***************************************************************************)
FairSpec == Spec /\ \A t \in Threads : WF_vars(Step(t))
-----------------------------------------------------------------------------
(***************************************************************************)
(* Properties                                                              *)
(***************************************************************************)

\* Every variable of the heap and every thread's locals hold a value of
\* their kind; ids are indices of the arrays.
TypeOK ==
  /\ oom \in BOOLEAN /\ list_mode \in BOOLEAN
  /\ numthreads \in Nat
  /\ thread_status \in [Ids -> {"EMPTY", "WRITE", "MERGE", "MERGING", "MERGED"}]
  /\ rows \in [Ids -> SUBSET Rows]
  /\ has_last \in [Ids -> BOOLEAN]
  /\ id \in [Threads -> Ids \cup {NoId}]
  /\ pc \in [Threads -> {"idle", "init", "enter", "insert", "poll", "merge", "done", "failed"}]
  /\ target \in [Threads -> Ids]
  /\ count \in [Threads -> 0 .. MaxRows]
  /\ written \subseteq Rows

\* the threads that work in table i without holding the mutex
Users(i) == {t \in Threads : \/ pc[t] = "insert" /\ id[t] = i
                             \/ pc[t] = "merge" /\ i \in {id[t], target[t]}}

\* No table is used by two threads at a time, although neither inserting nor
\* merging takes the mutex: thread_status alone hands tables over.
ExclusiveTables == \A i \in Ids : \A t, u \in Users(i) : t = u

\* Every row whose write returned LNF_OK is in exactly one table.
RowsKept ==
  /\ written = UNION {rows[i] : i \in Ids}
  /\ \A i, j \in Ids : i # j => rows[i] \cap rows[j] = {}

\* No acknowledged row is lost or doubled, also while tables are being folded
\* into each other, and when malloc fails in a write or half way through a
\* merge.  (In list mode a failed write may cost rows: see JoinsAllLists.)
NothingLost == (list_mode => ~ oom) => RowsKept

\* When all threads have returned from lnf_mem_merge_threads with LNF_OK,
\* table 0, the only one that is read, holds everything that was written.
ResultComplete ==
  (\A t \in Threads : pc[t] = "done") /\ (list_mode => ~ oom)
    => \A i \in Ids : rows[i] = IF i = 0 THEN written ELSE {}

\* As long as there is memory every thread gets out of the busy loop of
\* lnf_mem_merge_threads, whatever order the threads arrive in.
MergeReturns == \A t \in Threads : pc[t] = "poll" ~> pc[t] = "done" \/ oom

\* libnf.h: in list mode lnf_mem_merge_threads "only joins liked lists from
\* all threads into one long list".
JoinsAllLists == list_mode => RowsKept

\* libnf.h: lnf_mem_merge_threads returns "LNF_OK, LNF_EOF, LNF_ERR_NOMEM".
MergeAnswers == \A t \in Threads : pc[t] = "poll" ~> pc[t] \in {"done", "failed"}

\* libnf.h: LNF_MAX_THREADS is the "maximum threads" of a heap, and the
\* length of both arrays: no thread gets an id beyond it.
IdsInBounds == \A t \in Threads : id[t] < MaxThreads
=============================================================================
