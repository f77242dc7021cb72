----------------------------- MODULE MemFields ------------------------------
(***************************************************************************)
(* Setting up the fields of a memory heap (src/memheap.c): the lists of    *)
(* key and value fields with their places in a row, the sort field, the    *)
(* fields a calculated field is calculated from, statistics mode and fast  *)
(* aggregation; and the way of a record into a row and back again.         *)
(* What becomes of the rows is MemHeap's part.                             *)
(***************************************************************************)
EXTENDS Fields, Bitwise, FiniteSetsExt

CONSTANTS
  Adds,      \* arguments of lnf_mem_fadd: [field, aggr, sort, bits, bits6]
  Recs,      \* the records written
  MaxAdds,   \* bound: calls of lnf_mem_fadd and lnf_mem_fastaggr
  MaxWrites, \* bound: records aggregated in the row
  Faults     \* subset of {"nomem"}: malloc of a list node may fail

\* bits6 is 0, 64 or 128; PAIR_IF writes more than its size (see RecRaw).
ASSUME AddsAssumption ==
  /\ Adds \subseteq [field : Fields, aggr : {"NONE", "KEY", "SUM", "MIN", "MAX", "OR"},
                     sort : {"NONE", "ASC", "DESC"}, bits : 0 .. 32, bits6 : {0, 64, 128}]
  /\ \A a \in Adds : a.field # "PAIR_IF"
  /\ MaxAdds \in Nat /\ MaxWrites \in Nat /\ Faults \subseteq {"nomem"}

VARIABLES
  h,         \* the heap: key_list, val_list, key_len, val_len, sort,
             \* statistics_mode, fastaggr_mode; ret of the last call
  row,       \* the row of the records written: [key, val], as the lists go
  written,   \* the records aggregated in the row
  updated,   \* lnf_mem_upd_calc_fields has been over the row
  adds,      \* calls so far
  nomem,     \* a call ran out of memory
  before     \* value fields added before the first lnf_mem_fastaggr

setupvars == <<h, row, written, updated, adds, nomem, before>>

FastFields == <<"FIRST", "LAST", "DOCTETS", "DPKTS", "AGGR_FLOWS">>
FastAggr == [FIRST |-> "MIN", LAST |-> "MAX", DOCTETS |-> "SUM", DPKTS |-> "SUM", AGGR_FLOWS |-> "SUM"]

NoSort == [field |-> "none", offset |-> 0, list |-> "none", dir |-> "NONE"]
NoRow == <<>>
Junk == <<"unset">>

SetupInit ==
  /\ h = [key |-> <<>>, val |-> <<>>, key_len |-> 0, val_len |-> 0, sort |-> NoSort,
          statistics |-> FALSE, fast |-> FALSE, left |-> 0, ret |-> "LNF_OK"]
  /\ row = NoRow /\ written = <<>> /\ updated = FALSE
  /\ adds = 0 /\ nomem = FALSE /\ before = {}
-----------------------------------------------------------------------------
(***************************************************************************)
(* lnf_mem_fadd                                                            *)
(***************************************************************************)

SupportedTypes == {"UINT8", "UINT16", "UINT32", "UINT64", "DOUBLE", "ADDR", "MAC"}
Def(f) == lnf_fields_def[f]

Addable(f) == Def(f).type \in SupportedTypes

In(list, f) == \E i \in DOMAIN list : list[i].field = f
At(list, f) == CHOOSE i \in DOMAIN list : list[i].field = f

EndOf(list) == IF list = <<>> THEN 0 ELSE Last(list).offset + SizeOf[Last(list).type]

\* The default: what the table says, but a key for a time that is to be aligned.
AggrOf(a) ==
  IF a.aggr # "NONE" THEN a.aggr
  ELSE IF a.bits > 0 /\ Def(a.field).type = "UINT64" THEN "KEY"
  ELSE IF Def(a.field).aggr \in {"KEY", "SUM", "MIN", "MAX", "OR"} THEN Def(a.field).aggr ELSE "EMPTY"

Node(a, offset) ==
  [field |-> a.field, type |-> Def(a.field).type, offset |-> offset, aggr |-> AggrOf(a),
   sort |-> a.sort, bits |-> a.bits, bits6 |-> a.bits6]

\* mutant of ListAdd: the list is not searched
ListAppend(list, a) == Append(list, Node(a, EndOf(list)))

\* lnf_filedlist_add_or_upd: a field that is there keeps its place.
ListAdd(list, a) ==
  IF In(list, a.field) THEN [list EXCEPT ![At(list, a.field)] = Node(a, @.offset)]
  ELSE Append(list, Node(a, EndOf(list)))

IsPair(f) == Def(f).pair # <<>>

MakesStatistics(name, f) == name = "key" /\ IsPair(f)

SortPlace(a, name, list) ==
  [field |-> a.field, offset |-> list[At(list, a.field)].offset, list |-> name, dir |-> a.sort]

\* One field, without its dependencies; left is how often malloc still succeeds.
AddOne(hp, a) ==
  LET name == IF AggrOf(a) = "KEY" THEN "key" ELSE "val"
      list == ListAdd(hp[name], a)
      new == ~ In(hp[name], a.field) IN
  IF hp.ret # "LNF_OK" THEN hp
  ELSE IF ~ Addable(a.field) THEN [hp EXCEPT !.ret = "LNF_ERR_UNKFLD"]
  ELSE IF new /\ hp.left = 0 THEN [hp EXCEPT !.ret = "LNF_ERR_NOMEM"]
  ELSE [hp EXCEPT ![name] = list,
                  ![IF name = "key" THEN "key_len" ELSE "val_len"] = EndOf(list),
                  !.sort = IF a.sort = "NONE" THEN @ ELSE SortPlace(a, name, list),
                  !.statistics = @ \/ MakesStatistics(name, a.field),
                  !.left = IF new THEN @ - 1 ELSE @]

Plain(f) == [field |-> f, aggr |-> "NONE", sort |-> "NONE", bits |-> 0, bits6 |-> 0]
Known(hp, f) == In(hp.key, f) \/ In(hp.val, f)

\* What a calculated field is calculated from is added, unless it is there;
\* its own dependencies with it.  No field depends on others in more than two steps.
AddDep(hp, f) == IF hp.ret # "LNF_OK" \/ Known(hp, f) THEN hp ELSE AddOne(hp, Plain(f))
AddDeps(hp, f) ==
  IF hp.ret # "LNF_OK" \/ Known(hp, f) THEN hp
  ELSE FoldLeft(AddDep, AddOne(hp, Plain(f)), Def(f).deps)

FaddTo(hp, a) == FoldLeft(AddDeps, AddOne(hp, a), Def(a.field).deps)

Budgets == IF "nomem" \in Faults THEN 0 .. 5 ELSE {5}

Fadd(a) ==
  /\ row = NoRow /\ adds < MaxAdds
  /\ \E n \in Budgets :
       h' = LET hp == FaddTo([h EXCEPT !.ret = "LNF_OK", !.left = n], a) IN [hp EXCEPT !.left = 0]
  /\ adds' = adds + 1
  /\ nomem' = (nomem \/ h'.ret = "LNF_ERR_NOMEM")
  /\ before' = IF h.fast THEN before ELSE {h'.val[i].field : i \in DOMAIN h'.val}
  /\ UNCHANGED <<row, written, updated>>

\* lnf_mem_fastaggr, which answers LNF_OK whatever lnf_mem_fadd does
Fastaggr ==
  /\ row = NoRow /\ adds < MaxAdds
  /\ \E n \in Budgets :
       h' = LET add(hp, f) == AddOne([hp EXCEPT !.ret = "LNF_OK"],
                                     [Plain(f) EXCEPT !.aggr = FastAggr[f]])
            IN [FoldLeft(add, [h EXCEPT !.fast = TRUE, !.left = n], FastFields)
                  EXCEPT !.left = 0, !.ret = "LNF_OK"]
  /\ adds' = adds + 1
  /\ nomem' = (nomem \/ \E i \in DOMAIN FastFields : ~ In(h'.val, FastFields[i]))
  /\ UNCHANGED <<row, written, updated, before>>
-----------------------------------------------------------------------------
(***************************************************************************)
(* A record into a row: lnf_mem_fill_buf                                   *)
(***************************************************************************)

\* lnf_clear_bits_v4, lnf_clear_bits_v6
Masked(v, n) ==
  IF V4Compat(v) THEN IF n.bits < 32 THEN [v EXCEPT !.lo = @ - (@ % 2^(32 - n.bits))] ELSE v
  ELSE CASE n.bits6 = 0 -> Zero [] n.bits6 = 64 -> [v EXCEPT !.lo = 0] [] OTHER -> v

\* lnf_align_uint64
Aligned(v, n) == [v EXCEPT !.lo = @ - (@ % (n.bits * 1000))]

Data(v) == <<"data", v>>
IsData(x) == x[1] = "data"

\* mutant of Fetched: what cannot be calculated is zero
FetchedZero(rec, f) ==
  LET func == Def(f).func IN
  IF func \in CalcFuncs THEN IF CalcOK(rec, func) THEN Get(rec, func)[1] ELSE <<"zero">>
  ELSE Data(Get(rec, func)[1])

\* The value of a calculated field that cannot be calculated is zero, but the
\* bytes per packet are left unset.
Fetched(rec, f) ==
  LET func == Def(f).func IN
  CASE func = "CALC_BPP" /\ ~ CalcOK(rec, func) -> Junk
    [] func \in CalcFuncs /\ ~ CalcOK(rec, func) -> <<"zero">>
    [] func \in CalcFuncs -> Get(rec, func)[1]
    [] OTHER -> Data(Get(rec, func)[1])

PairField(f, pairset) == IF pairset # 0 /\ IsPair(f) THEN Def(f).pair[pairset] ELSE f

Fill(n, rec, pairset) ==
  LET x == Fetched(rec, PairField(n.field, pairset)) IN
  CASE n.type = "ADDR" -> Data(Masked(x[2], n))
    [] n.type = "UINT64" /\ n.bits > 0 /\ IsData(x) -> Data(Aligned(x[2], n))
    [] OTHER -> x

FillBuf(list, rec, pairset) == [i \in DOMAIN list |-> Fill(list[i], rec, pairset)]

\* In fast mode the value buffer is the five values of lnf_fastaggr_t, and
\* nothing behind them; a field of the list is what lies at its offset.
FastPart(n) == IF n.offset % 8 = 0 /\ n.offset \div 8 < 5 /\ SizeOf[n.type] = 8
               THEN FastFields[n.offset \div 8 + 1] ELSE "none"

FillVal(hp, rec) ==
  IF ~ hp.fast THEN FillBuf(hp.val, rec, 0)
  ELSE [i \in DOMAIN hp.val |-> IF FastPart(hp.val[i]) = "none" THEN Junk
                                ELSE Fetched(rec, FastPart(hp.val[i]))]

Pairset(hp) == IF hp.statistics THEN 1 ELSE 0

RowOf(hp, rec) == [key |-> FillBuf(hp.key, rec, Pairset(hp)), val |-> FillVal(hp, rec)]

\* lnf_mem_aggr_SUM_, MIN_, MAX_, OR_ and EMPTY; sums of calculated values
\* mean nothing and are not told apart.
Aggr(aggr, type, a, b) ==
  IF a = Junk \/ b = Junk THEN Junk
  ELSE IF type \in {"ADDR", "MAC"} \/ aggr = "EMPTY" THEN a
  ELSE IF ~ IsData(a) THEN <<"sum">>
  ELSE CASE aggr = "SUM" -> [a EXCEPT ![2].lo = @ + b[2].lo]
         [] aggr = "MIN" -> IF a[2].lo > b[2].lo THEN b ELSE a
         [] aggr = "MAX" -> IF a[2].lo < b[2].lo THEN b ELSE a
         [] aggr = "OR" -> [a EXCEPT ![2].lo = @ | b[2].lo]

\* mutant of FastCallback: the flows are not added
FastCallbackNoFlows(n, a, b) ==
  IF FastPart(n) \in {"none", "AGGR_FLOWS"} THEN a ELSE Aggr(FastAggr[FastPart(n)], "UINT64", a, b)

\* lnf_mem_fastaggr_callback, lnf_mem_aggr_callback
FastCallback(n, a, b) ==
  IF FastPart(n) = "none" THEN a ELSE Aggr(FastAggr[FastPart(n)], "UINT64", a, b)

Aggregate(hp, old, new) ==
  [i \in DOMAIN hp.val |->
     LET n == hp.val[i] IN
     IF hp.fast THEN FastCallback(n, old[i], new[i])
     ELSE Aggr(n.aggr, n.type, old[i], new[i])]

\* The first record makes the row; a record with the same key is aggregated.
Write(rec) ==
  /\ h.key # <<>>
  /\ Len(written) < MaxWrites /\ ~ updated
  /\ LET new == RowOf(h, rec) IN
     IF row = NoRow THEN row' = new
     ELSE /\ new.key = row.key
          /\ row' = [row EXCEPT !.val = Aggregate(h, @, new.val)]
  /\ written' = Append(written, rec)
  /\ UNCHANGED <<h, updated, adds, nomem, before>>
-----------------------------------------------------------------------------
(***************************************************************************)
(* A row into a record: lnf_mem_fill_rec, lnf_mem_read_c                   *)
(***************************************************************************)

FillRec(list, vals, rec) ==
  LET put(r, i) == IF IsData(vals[i]) THEN FSet(r, list[i].field, <<vals[i][2]>>) ELSE r
  IN FoldLeft(put, rec, [i \in DOMAIN list |-> i])

ReadRow(hp, r) == FillRec(hp.val, r.val, FillRec(hp.key, r.key, EmptyRec))

\* lnf_mem_upd_calc_fields takes the values first and then the keys; what was
\* unset stays so.
UpdCalcRow(hp, r) ==
  LET rec == FillRec(hp.key, r.key, FillRec(hp.val, r.val, EmptyRec)) IN
  [r EXCEPT !.val = [i \in DOMAIN hp.val |->
                       IF r.val[i] = Junk /\ Def(hp.val[i].field).func \notin CalcFuncs THEN Junk
                       ELSE Fill(hp.val[i], rec, 0)]]

\* lnf_mem_first_c does it when the heap is sorted by a calculated field.
UpdCalc ==
  /\ row # NoRow /\ ~ updated
  /\ h.sort.field # "none" /\ Def(h.sort.field).deps # <<>>
  /\ row' = UpdCalcRow(h, row)
  /\ updated' = TRUE
  /\ UNCHANGED <<h, written, adds, nomem, before>>

SetupNext ==
  \/ \E a \in Adds : Fadd(a)
  \/ Fastaggr
  \/ \E rec \in Recs : Write(rec)
  \/ UpdCalc

-----------------------------------------------------------------------------
(***************************************************************************)
(* Properties                                                              *)
(***************************************************************************)

ListSize(list) == FoldLeft(LAMBDA n, node : n + SizeOf[node.type], 0, list)

\* The fields of a row lie one behind the other, each once, and key_len and
\* val_len are where the row ends, in whatever order fields are added and updated.
LayoutDense ==
  /\ \A list \in {h.key, h.val} : \A i \in DOMAIN list :
       /\ list[i].offset = ListSize(SubSeq(list, 1, i - 1))
       /\ At(list, list[i].field) = i
  /\ h.key_len = ListSize(h.key) /\ h.val_len = ListSize(h.val)

\* The sort field is in the list the sort flags name, at the sort offset.
SortPlaced ==
  h.sort.field # "none" =>
    LET list == IF h.sort.list = "key" THEN h.key ELSE h.val IN
    /\ In(list, h.sort.field)
    /\ list[At(list, h.sort.field)].offset = h.sort.offset

\* Unless memory ran out, all that a calculated field needs is there.  Once it
\* did, it may be missing for good: a retry finds the field it added first.
DepsPresent ==
  ~ nomem => \A f \in Fields : Known(h, f) => \A i \in DOMAIN Def(f).deps : Known(h, Def(f).deps[i])

\* Statistics mode is that of a heap with a pair in its key.
StatisticsIffPair == h.statistics <=> \E i \in DOMAIN h.key : IsPair(h.key[i].field)

\* If there is no value field when lnf_mem_fastaggr is called first, the five of
\* lnf_fastaggr_t come first and stay there.
FastLayout ==
  h.fast /\ ~ nomem /\ before = {} =>
    \A i \in DOMAIN FastFields : h.val[i].field = FastFields[i] /\ h.val[i].offset = 8 * (i - 1)

\* Fields come one by one, in any order, again, and with memory running out:
\* what the heap says about its rows is true of them.
ListsConsistent == LayoutDense /\ SortPlaced /\ DepsPresent /\ StatisticsIffPair /\ FastLayout

UnsetIn(r) == \E i \in DOMAIN r.val : r.val[i] = Junk
NeedsPackets == \E i \in DOMAIN h.val : Def(h.val[i].field).func = "CALC_BPP"

\* A row holds bytes nobody set only if the bytes per packet of a record
\* without packets were asked for, or fast aggregation together with other
\* value fields.
UnsetExactly ==
  row # NoRow /\ ~ updated =>
    (UnsetIn(row) <=>
       IF h.fast THEN \E i \in DOMAIN h.val : FastPart(h.val[i]) = "none"
       ELSE NeedsPackets /\ \E i \in DOMAIN written : ~ CalcOK(written[i], "CALC_BPP"))

Funcs(list) == [i \in DOMAIN list |-> Def(list[i].field).func]
\* Every place of the record is named by one field only.
Apart == LET all == Funcs(h.key \o h.val) IN \A i, j \in DOMAIN all : all[i] = all[j] => i = j
\* no key follows from other fields
OwnKeys == \A i \in DOMAIN h.key : Def(h.key[i].field).func \notin CalcFuncs \cup {"INET_FAMILY"}

\* The record read from a row belongs to that row: written to a heap of the
\* same fields it has the same key, in spite of masks, alignment and pairs.
KeyStable ==
  row # NoRow /\ Apart /\ OwnKeys => FillBuf(h.key, ReadRow(h, row), Pairset(h)) = row.key

\* The value a heap is sorted by is the one that is read.
SortedIsRead ==
  updated /\ Apart /\ ~ nomem /\ ~ h.fast /\ h.sort.list = "val" =>
    row.val[At(h.val, h.sort.field)] = Fetched(ReadRow(h, row), h.sort.field)

Lows(f) == {written[i].val[f].lo : i \in DOMAIN written}
TotalOf(f) == FoldLeft(LAMBDA n, rec : n + rec.val[f].lo, 0, written)

\* However they are aggregated, the fast way or field by field, the totals of a
\* row are those of the records written, and sorting leaves them alone.  (It
\* does not where a field is key and value: the key is put over the total.)
TotalsRight ==
  row # NoRow /\ ~ nomem /\ (h.fast => before = {}) /\ (updated => Apart) => \A i \in DOMAIN h.val :
    LET n == h.val[i]  v == row.val[i] IN
    n.field \in DOMAIN FastAggr /\ n.aggr = FastAggr[n.field] /\ n.bits = 0 =>
      v[2].lo = CASE n.aggr = "MIN" -> Min(Lows(n.field))
               [] n.aggr = "MAX" -> Max(Lows(n.field))
               [] n.aggr = "SUM" -> TotalOf(n.field)

\* A row answers for the records that were written to it.
RowsRight == KeyStable /\ SortedIsRead /\ TotalsRight
=============================================================================
