------------------------------- MODULE MemHeap -------------------------------
(***************************************************************************)
(* A memory heap used by one thread (src/memheap.c): records are written   *)
(* and aggregated, the heap is read through cursors in the order of the    *)
(* sort field, looked up by key and cleaned for the next round.  The rows  *)
(* are in hash table 0.  The threads of a heap are MemMerge's part.        *)
(***************************************************************************)
EXTENDS HashTable

CONSTANTS
  Recs,        \* records: [k1, k2, bytes, pkts]; k1, k2 are the two fields
               \* of a pair, masked to their numbits
  RawRecs,     \* the same, for rows that come from another heap
  Configs,     \* ways to set a heap up: [list_mode, statistics, comp, field, desc]
  MaxWrites,   \* bound: records written
  MaxCleans,   \* bound: calls of lnf_mem_clean
  Faults       \* subset of {"nomem"}: malloc of a row may fail

\* A record of no packets has no bytes per packet: the value buffer on the
\* stack is then not set, and is left out here.
ASSUME RecsAssumption == \A rec \in Recs \cup RawRecs : rec.k1 \in Nat /\ rec.k2 \in Nat
                                                         /\ rec.bytes \in Nat /\ rec.pkts \in Nat \ {0}
ASSUME ConfigsAssumption ==
  Configs \subseteq [list_mode : BOOLEAN, statistics : BOOLEAN, comp : BOOLEAN,
                     field : {"none", "port", "addr", "bytes", "bpp"}, desc : BOOLEAN]

VARIABLES
  conf,        \* list_mode, statistics_mode, nfdump_comp_statistics, sort_field, sort_flags
  table,       \* hash_table[0]
  status,      \* thread_status[0]
  has_id,      \* the thread has its id
  sorted,
  cursor,      \* per way of reading: "read" is read_cursor, "scan" a caller's
  ret,         \* what the last write returned
  \* history
  todo,        \* per cursor: rows of its scan that are still to come
  skipped,     \* per cursor: the row lnf_mem_read_reset put it on, which is
               \* among them and is not delivered
  phase,       \* "load", "read" once the heap was sorted, "mixed" if written again
  cleans, writes

vars == <<conf, table, status, has_id, sorted, cursor, ret, todo, skipped, phase, cleans, writes>>

Cursors == {"read", "scan"}

\* lnf_mem_init, lnf_mem_fadd and lnf_mem_setopt
Init ==
  /\ conf \in Configs
  /\ table = EmptyTable
  /\ status = "EMPTY"
  /\ has_id = FALSE
  /\ sorted = FALSE
  /\ cursor = [c \in Cursors |-> NULL]
  /\ ret = "LNF_OK"
  /\ todo = [c \in Cursors |-> {}]
  /\ skipped = [c \in Cursors |-> {}]
  /\ phase = "load"
  /\ cleans = 0 /\ writes = 0
-----------------------------------------------------------------------------
(***************************************************************************)
(* lnf_mem_write, lnf_mem_write_raw                                        *)
(***************************************************************************)

\* lnf_mem_fill_buf for the value list
Values(rec) == [bytes |-> rec.bytes, pkts |-> rec.pkts, bpp |-> rec.bytes \div rec.pkts]

\* mutant of PairKeys: both keys of a pair are inserted in any case
PairKeysAlways(rec) == <<rec.k1, rec.k2>>

\* The keys a record is inserted under: in statistics mode both of the pair,
\* nfdump style only one if they are equal.
PairKeys(rec) ==
  IF conf.statistics /\ ~ conf.list_mode /\ ~ (conf.comp /\ rec.k1 = rec.k2)
  THEN <<rec.k1, rec.k2>> ELSE <<rec.k1>>

Insert(t, key, val) ==
  IF conf.list_mode THEN InsertList(t, key, val) ELSE InsertHash(t, key, val)

NeedsMemory(t, key) == conf.list_mode \/ Lookup(t, key) = NULL

\* the table when the first n of a record's keys, of which it has one or two,
\* have been inserted one by one
Inserted(keys, n, val) ==
  CASE n = 0 -> table
    [] n = 1 -> Insert(table, keys[1], val)
    [] n = 2 -> Insert(Insert(table, keys[1], val), keys[2], val)

\* When memory runs out the call returns LNF_ERR_NOMEM and what was inserted
\* before stays.
InsertKeys(keys, val) ==
  \E n \in 0 .. Len(keys) :
    LET t == Inserted(keys, n, val) IN
    /\ n < Len(keys) => "nomem" \in Faults /\ NeedsMemory(t, keys[n + 1])
    /\ table' = t
    /\ ret' = IF n = Len(keys) THEN "LNF_OK" ELSE "LNF_ERR_NOMEM"

Written ==
  /\ writes < MaxWrites
  /\ writes' = writes + 1
  /\ has_id' = TRUE
  /\ phase' = IF phase = "read" THEN "mixed" ELSE phase
  /\ UNCHANGED <<conf, sorted, cursor, todo, skipped, cleans>>

Write(rec) ==
  /\ Written
  /\ status' = "WRITE"
  /\ InsertKeys(PairKeys(rec), Values(rec))

\* A row read with lnf_mem_read_raw from a heap of the same layout.  The
\* status is set only where the thread gets its id.
WriteRaw(rec) ==
  /\ Written
  /\ status' = IF has_id THEN status ELSE "WRITE"
  /\ InsertKeys(<<rec.k1>>, Values(rec))
-----------------------------------------------------------------------------
(***************************************************************************)
(* Sorting                                                                 *)
(***************************************************************************)

SortValue(r) == IF conf.field \in {"port", "addr"} THEN r.key ELSE r.val[conf.field]

\* lnf_mem_sort_callback: numbers ascend, addresses (memcmp > 0) descend, and
\* LNF_SORT_DESC negates the answer.
SortCallback(p, q) ==
  LET less == IF conf.field = "addr" THEN SortValue(p) > SortValue(q)
                                     ELSE SortValue(p) < SortValue(q)
  IN  IF conf.desc THEN ~ less ELSE less

\* mutant of UpdCalcFields: calculated fields are left as aggregation left them
UpdNoFields(t) == t

\* lnf_mem_upd_calc_fields: every row's calculated values from its others
UpdCalcFields(t) ==
  [t EXCEPT !.row = [a \in DOMAIN t.row |->
     [t.row[a] EXCEPT !.val.bpp = t.row[a].val.bytes \div t.row[a].val.pkts]]]

\* the callback on the rows of a table, as the relation ListSort takes
RowsBefore(t) ==
  {pair \in (DOMAIN t.row) \X (DOMAIN t.row) : SortCallback(t.row[pair[1]], t.row[pair[2]])}

SortRows(t) == SortTable(t, RowsBefore(t))

\* What lnf_mem_first_c does before it looks for the first row, if need be: a
\* calculated sort field is calculated first.
Sort ==
  IF ~ sorted /\ conf.field # "none"
  THEN /\ table' = SortRows(IF conf.field = "bpp" THEN UpdCalcFields(table) ELSE table)
       /\ sorted' = TRUE
  ELSE UNCHANGED <<table, sorted>>
-----------------------------------------------------------------------------
(***************************************************************************)
(* Reading                                                                 *)
(***************************************************************************)

\* a cursor is put on a row, or on none, and the scan still owes these rows
PutCursor(c, a, owed) ==
  /\ cursor' = [cursor EXCEPT ![c] = a]
  /\ todo' = [todo EXCEPT ![c] = owed]

\* lnf_mem_first_c, and nothing is delivered yet: a scan from the beginning
\* owes every row
Begin(c, passed) ==
  /\ IF status = "EMPTY"
     THEN PutCursor(c, NULL, {}) /\ UNCHANGED <<table, sorted, phase>>
     ELSE /\ Sort
          /\ PutCursor(c, FirstRow(table'), Range(table'.order) \ passed)
          /\ phase' = IF phase = "load" THEN "read" ELSE phase
  /\ UNCHANGED <<conf, status, has_id, ret, cleans, writes>>

\* lnf_mem_first_c for a caller that then reads the row
First(c) ==
  /\ Begin(c, {cursor'[c]})
  /\ skipped' = [skipped EXCEPT ![c] = {}]

\* lnf_mem_next_c: an empty heap leaves the cursor as it is
Next_c(c) ==
  /\ cursor[c] # NULL
  /\ IF status = "EMPTY"
     THEN UNCHANGED <<cursor, todo>>
     ELSE \E a \in IF cursor[c] \in DOMAIN table.row
                   THEN {NextRow(table, cursor[c])}
                   ELSE DOMAIN table.row \cup {NULL} :  \* the row was freed: anything
            PutCursor(c, a, todo[c] \ {a})
  /\ UNCHANGED <<conf, table, status, has_id, sorted, ret, skipped, phase, cleans, writes>>

\* lnf_mem_read, lnf_mem_read_raw: the first row, or the next one; after the
\* last row it begins again.  A caller's loop around lnf_mem_first_c and
\* lnf_mem_next_c has a cursor of its own.
Read == (cursor["read"] = NULL /\ First("read")) \/ Next_c("read")

Scan == First("scan") \/ Next_c("scan")

\* lnf_mem_read_reset puts read_cursor on the first row and reads nothing;
\* the next read goes to the row behind it.
ReadReset ==
  /\ Begin("read", {})
  /\ skipped' = [skipped EXCEPT !["read"] = {cursor'["read"]} \ {NULL}]

\* lnf_mem_lookup_c, lnf_mem_lookup_raw_c: the row they put the cursor on
Lookup_c(key) == IF status = "EMPTY" THEN NULL ELSE Lookup(table, key)

\* lnf_mem_clean: the table is emptied unless the status says it is empty.
\* sorted and read_cursor stay; a caller drops its own cursors.
Clean ==
  /\ cleans < MaxCleans
  /\ cleans' = cleans + 1
  /\ IF status # "EMPTY"
     THEN /\ table' = CleanTable(table)
          /\ status' = "EMPTY"
          /\ phase' = "load"
     ELSE UNCHANGED <<table, status, phase>>
  /\ cursor' = [cursor EXCEPT !["scan"] = NULL]
  /\ todo' = [todo EXCEPT !["scan"] = {}]
  /\ skipped' = [skipped EXCEPT !["scan"] = {}]
  /\ UNCHANGED <<conf, has_id, sorted, ret, writes>>

Next == (\E rec \in Recs : Write(rec)) \/ (\E rec \in RawRecs : WriteRaw(rec))
        \/ Read \/ Scan \/ ReadReset \/ Clean

Spec == Init /\ [][Next]_vars
-----------------------------------------------------------------------------
(***************************************************************************)
(* Properties                                                              *)
(***************************************************************************)

\* The heap's fields hold values of their kind; the list runs through every
\* allocated row once and through no freed one.
TypeOK ==
  /\ conf \in Configs
  /\ \A a \in DOMAIN table.row :
       table.row[a].key \in Nat /\ table.row[a].val \in [{"bytes", "pkts", "bpp"} -> Nat]
  /\ Range(table.order) = DOMAIN table.row /\ IsInjective(table.order)
  /\ status \in {"EMPTY", "WRITE"}
  /\ has_id \in BOOLEAN /\ sorted \in BOOLEAN
  /\ cursor \in [Cursors -> Nat]
  /\ ret \in {"LNF_OK", "LNF_ERR_NOMEM"}
  /\ phase \in {"load", "read", "mixed"}

\* The rows of the table, as a bag.
Flows == ToBag([i \in DOMAIN table.order |->
                  LET r == table.row[table.order[i]] IN
                  [key |-> r.key, bytes |-> r.val.bytes, pkts |-> r.val.pkts]])

Reference == INSTANCE FlowTable WITH
  FlowRecs <- Recs, flows <- Flows, answer <- ret,
  aggregating <- ~ conf.list_mode,
  pairing <- IF ~ conf.statistics \/ conf.list_mode THEN "one"
             ELSE IF conf.comp THEN "ifequal" ELSE "both"

\* The heap aggregates as a plain table of totals does: whatever the chains
\* and the list go through in writes, sorts and scans, a write adds its
\* record to the one row of its key (in statistics mode of both keys), nothing
\* else changes a row, and only a write that returned LNF_ERR_NOMEM is not
\* counted in full.
RefinesFlowTable == Reference!Spec

\* A lookup finds the row of a key if, and only if, one is in the list, also
\* when buckets are shared and after the list was sorted.  (After a clean the
\* raw writes of WriteRaw leave the heap marked as empty.)
LookupFinds ==
  ~ conf.list_mode /\ (cleans = 0 \/ status # "EMPTY") =>
    \A key \in UNION {{rec.k1, rec.k2} : rec \in Recs \cup RawRecs} :
      LET at == {a \in Range(table.order) : table.row[a].key = key} IN
      at = IF Lookup_c(key) = NULL THEN {} ELSE {Lookup_c(key)}

\* A scan delivers every row that was there when it began, once, although
\* rows are written, and the other cursor is used, in the middle of it: what
\* it owes is what lies behind its cursor, and the row that was skipped if it
\* began with lnf_mem_read_reset.  (read_cursor survives a clean.)
ScanComplete ==
  \A c \in Cursors : c = "scan" \/ cleans = 0 =>
    todo[c] = skipped[c] \cup (IF cursor[c] = NULL THEN {} ELSE Range(RowsAfter(table, cursor[c])))

\* libnf.h: lnf_mem_read_reset re-sets "the position of the internal cursor to
\* the beginning", so a scan that has come to its end owes nothing.
ResetBeginsAgain ==
  \A c \in Cursors : (c = "scan" \/ cleans = 0) /\ cursor[c] = NULL => todo[c] = {}

\* rows p, q may follow each other: LNF_SORT_ASC is "ascending order",
\* LNF_SORT_DESC "descending order"
Ordered(p, q) ==
  IF conf.desc THEN SortValue(p) >= SortValue(q) ELSE SortValue(p) <= SortValue(q)

InOrder ==
  conf.field # "none" =>
    \A i, j \in DOMAIN table.order :
      i < j => Ordered(table.row[table.order[i]], table.row[table.order[j]])

\* and their calculated field is that of the totals
Recalculated ==
  conf.field = "bpp" =>
    \A a \in DOMAIN table.row :
      table.row[a].val.bpp = table.row[a].val.bytes \div table.row[a].val.pkts

\* A heap that is loaded and then read is read in the order of its sort
\* field, calculated from the totals if it is a calculated one.  Addresses are
\* left out, their order is the other way round: AddressesOrdered.
ScanOrdered == phase = "read" /\ cleans = 0 /\ conf.field # "addr" => InOrder /\ Recalculated

\* libnf.h on lnf_mem_fadd: LNF_SORT_ASC is to "sort the result by the in
\* ascending order", whatever the field.
AddressesOrdered == phase = "read" /\ cleans = 0 /\ conf.field = "addr" => InOrder

\* libnf.h on lnf_mem_clean: "The memheap will be in the same state as it was
\* after the initialization", so a second load is read in order as well.
CleanLikeNew == phase = "read" /\ conf.field # "addr" => InOrder
=============================================================================
