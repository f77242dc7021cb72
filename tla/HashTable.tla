------------------------------ MODULE HashTable ------------------------------
(***************************************************************************)
(* src/hash_table.c: rows that hang both in the chain of their bucket      *)
(* (hnext) and in one list of all rows (snext).  A table is a record:      *)
(*   row     what malloc'ed rows hold, a function from addresses           *)
(*   bucket  per bucket the addresses along hnext                          *)
(*   order   the addresses along snext from sfirst                         *)
(* A row holds a key and the values the heap aggregates.  slast is in      *)
(* MemMerge, the only place that reads it.                                 *)
(***************************************************************************)
EXTENDS Integers, Sequences, FiniteSets, SequencesExt, ListSort

CONSTANTS
  NumBuckets    \* HASH_TABLE_INIT_SIZE or LNF_OPT_HASHBUCKETS

ASSUME NumBucketsAssumption == NumBuckets \in Nat \ {0}

NULL == 0

\* XXH64 modulo numbuckets
Bucket(key) == key % NumBuckets

\* hash_table_init
EmptyTable ==
  [row |-> <<>>, bucket |-> [b \in 0 .. NumBuckets - 1 |-> <<>>], order |-> <<>>]

\* Addresses are numbers; freed ones are used again.
NewAddr(t) == CHOOSE a \in 1 .. Cardinality(DOMAIN t.row) + 1 : a \notin DOMAIN t.row

\* hash_table_lookup: the first row with the key along the bucket's chain
Lookup(t, key) ==
  LET chain == t.bucket[Bucket(key)]
      hits  == {i \in DOMAIN chain : t.row[chain[i]].key = key}
  IN  IF hits = {} THEN NULL ELSE chain[CHOOSE i \in hits : \A j \in hits : i <= j]

\* mutant of ListFront: the row is hung behind the last one
ListBack(t, a) == Append(t.order, a)

\* a new row becomes sfirst
ListFront(t, a) == <<a>> \o t.order

\* mutant of ChainFront: hnext of the new row is not set
ChainOnly(t, key, a) == [t.bucket EXCEPT ![Bucket(key)] = <<a>>]

\* and the head of its bucket
ChainFront(t, key, a) == [t.bucket EXCEPT ![Bucket(key)] = <<a>> \o @]

NewRow(t, key, val) ==
  [a \in DOMAIN t.row \cup {NewAddr(t)} |->
     IF a = NewAddr(t) THEN [key |-> key, val |-> val] ELSE t.row[a]]

\* lnf_mem_aggr_callback: every value field is LNF_AGGR_SUM, the default of
\* bytes and pkts and also of the calculated bpp, whose sum means nothing.
Aggregated(old, new) == [f \in DOMAIN old |-> old[f] + new[f]]

\* hash_table_insert_hash; it needs memory only for a key that is not there
InsertHash(t, key, val) ==
  LET at == Lookup(t, key) IN
  IF at # NULL
  THEN [t EXCEPT !.row[at].val = Aggregated(@, val)]
  ELSE [row    |-> NewRow(t, key, val),
        bucket |-> ChainFront(t, key, NewAddr(t)),
        order  |-> ListFront(t, NewAddr(t))]

\* hash_table_insert_list
InsertList(t, key, val) ==
  [t EXCEPT !.row = NewRow(t, key, val), !.order = ListFront(t, NewAddr(t))]

\* hash_table_sort: only the list is rearranged
SortTable(t, before) == [t EXCEPT !.order = ListSorted(@, before)]

\* hash_table_first, hash_table_next
FirstRow(t) == IF t.order = <<>> THEN NULL ELSE Head(t.order)

Position(t, a) == CHOOSE i \in DOMAIN t.order : t.order[i] = a

RowsAfter(t, a) == SubSeq(t.order, Position(t, a) + 1, Len(t.order))

NextRow(t, a) == IF RowsAfter(t, a) = <<>> THEN NULL ELSE Head(RowsAfter(t, a))

\* mutant of CleanTable: sfirst is left as it is
CleanRows(t) == [EmptyTable EXCEPT !.order = t.order]

\* hash_table_clean
CleanTable(t) == EmptyTable
=============================================================================
