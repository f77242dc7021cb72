------------------------------- MODULE PerlNf -------------------------------
(***************************************************************************)
(* The Perl binding: objects of Net::NfDump (perl/lib/Net/NfDump.pm), each *)
(* with a handle of the table of instances in libnf_perl.c.  A query reads *)
(* a list of files through a filter, row by row or by way of a memory      *)
(* heap; rows are stored in an output file.                                *)
(*                                                                         *)
(* A Perl program has one thread here and a method call is a step.  A call *)
(* that croaks may be caught by the program, and what it had done by then  *)
(* stays.  The time window is taken and ignored, as in the code; info and  *)
(* the conversions of values between Perl and C are left out.              *)
(***************************************************************************)
EXTENDS Integers, Sequences, FiniteSets, SequencesExt, FiniteSetsExt, Functions

CONSTANTS
  Objects,      \* variables of the program that hold an object
  Options,      \* what is given to new: [files, filter, fields, aggreg, order, out]
  Rows,         \* what is given to storerow_arrayref
  Disk,         \* the files there are at the beginning: path -> entries
  MaxInstances, \* NFL_MAX_INSTANCES
  AddrBits,     \* 32, scaled down
  Null,
  Undef,        \* of Perl; in a record, a field that is not set
  Invalid,      \* a value not of the length of an address
  MaxNews, MaxQueries, MaxStores  \* bounds: calls of new, query and storerow

Denied == "denied"   \* a path nobody can write to

ASSUME PerlAssumption ==
  /\ MaxInstances \in Nat \ 0 .. 2 /\ AddrBits \in Nat
  /\ IsFiniteSet(DOMAIN Disk) /\ \A p \in DOMAIN Disk : Disk[p] \in Seq(Range(Disk[p]))
  /\ Null \notin STRING \cup Seq(STRING) \cup Nat
  /\ \A opts \in Options :
       /\ opts.files \in Seq(STRING) /\ opts.out \in STRING \cup {Null}
       /\ opts.fields \in Seq([name : STRING, bits : Nat])
       /\ opts.aggreg \in BOOLEAN
       \* Heaps of other fields are not looked at.
       /\ opts.aggreg => \A k \in DOMAIN opts.fields : opts.fields[k].name \in {"a", "n"}

VARIABLES
  obj,        \* per object: [state, handle, opts, fields, read_prepared, write_prepared]
  instances,  \* libnf_instances: what there is for the handles in use
  disk,       \* the files there are: path -> sequence of entries [bad, croaks, rec]
  alive,      \* the process has not been killed by a bad access
  news, queries, stores,
  \* history
  wanted,     \* per object: the records the last query asks for
  got,        \* the rows fetched since
  ended,      \* fetch has returned undef since
  sound,      \* nothing known to go wrong has happened to the query
  base,       \* the record that the next row is stored upon
  given,      \* per object: the records that were to be stored
  tainted,    \* a storerow has failed half way, or the object has read a row itself
  unopened,   \* a file could not be created
  abused      \* a method of a finished object has reached another object's instance

history == <<wanted, got, ended, sound, base, given, tainted, unopened, abused>>
vars == <<obj, instances, disk, alive, news, queries, stores, history>>

\* What lnf_rec_clear leaves: an address, a number and a field of an extension
Rec0 == [a |-> 0, n |-> 0, e |-> Undef]

Handles == 0 .. MaxInstances - 1
NoObject == [state |-> "none", handle |-> 0, opts |-> Null, fields |-> <<>>, read_prepared |-> FALSE, write_prepared |-> FALSE]

\* A heap, if there is one: list mode, the bits of the address and whether the
\* number is summed; what was written and the rows that have been returned.
NoMem == [there |-> FALSE, list |-> FALSE, bits |-> Null, sum |-> FALSE, written |-> <<>>, returned |-> {}]

NewInstance == [files |-> Null, nffile_r |-> Null, pos |-> 0, nffile_w |-> Null, written |-> <<>>,
                filter |-> "any", field_list |-> <<>>, mem |-> NoMem, rec |-> Rec0]

Init ==
  /\ obj = [o \in Objects |-> NoObject]
  /\ instances = [h \in {} |-> NewInstance]
  /\ disk = Disk /\ alive = TRUE
  /\ news = 0 /\ queries = 0 /\ stores = 0
  /\ wanted = [o \in Objects |-> <<>>] /\ got = [o \in Objects |-> <<>>]
  /\ ended = [o \in Objects |-> FALSE] /\ sound = [o \in Objects |-> FALSE]
  /\ base = [o \in Objects |-> Rec0] /\ given = [o \in Objects |-> <<>>]
  /\ tainted = [o \in Objects |-> FALSE]
  /\ unopened = FALSE /\ abused = FALSE

Names(fields) == [i \in DOMAIN fields |-> fields[i].name]
InUse == DOMAIN instances
Has(o) == obj[o].handle \in InUse
Instance(o) == instances[obj[o].handle]
Open(o) == obj[o].state = "open"
SetInstance(o, i) == instances' = [instances EXCEPT ![obj[o].handle] = i]

\* Whoever finishes an object may go on using it: its handle may have another owner.
Trespass(o) == obj[o].state = "closed" /\ Has(o)
-----------------------------------------------------------------------------
(***************************************************************************)
(* new: libnf_init                                                         *)
(***************************************************************************)

\* mutant of Usable: the handle is looked at before it is known to be free
UsableAny(h) == h < MaxInstances - 1

\* Neither the first handle nor the last one is ever used.
Usable(h) == h < MaxInstances - 1 /\ h \notin InUse

FreeHandles == {h \in Handles \ {0} : Usable(h)}

\* History of an object that is gone
Forget(o) ==
  /\ wanted' = [wanted EXCEPT ![o] = <<>>] /\ got' = [got EXCEPT ![o] = <<>>]
  /\ ended' = [ended EXCEPT ![o] = FALSE] /\ sound' = [sound EXCEPT ![o] = FALSE]
  /\ base' = [base EXCEPT ![o] = Rec0] /\ given' = [given EXCEPT ![o] = <<>>]
  /\ tainted' = [tainted EXCEPT ![o] = FALSE]

\* new croaks when the table is full, and the variable keeps what it had.
New(o) ==
  /\ obj[o].state \in {"none", "closed"} /\ news < MaxNews
  /\ news' = news + 1
  /\ IF FreeHandles = {} THEN UNCHANGED <<obj, instances, history>>
     ELSE \E opts \in Options :
            LET h == Min(FreeHandles) IN
            /\ instances' = [k \in InUse \cup {h} |-> IF k = h THEN NewInstance ELSE instances[k]]
            /\ obj' = [obj EXCEPT ![o] = [NoObject EXCEPT !.state = "open", !.handle = h,
                                                         !.opts = opts, !.fields = opts.fields]]
            /\ Forget(o)
            /\ UNCHANGED <<unopened, abused>>
  /\ UNCHANGED <<disk, alive, queries, stores>>
-----------------------------------------------------------------------------
(***************************************************************************)
(* Reading files: libnf_read_row_files                                     *)
(***************************************************************************)

\* lnf_filter_match with the record in hand
Passes(filter, rec) == filter = "any" \/ rec.a # 0

\* mutant of RestOfFiles: the list moves on by two files
RestOfFilesSkips(files) == IF Len(files) > 1 THEN SubSeq(files, 3, Len(files)) ELSE Tail(files)

RestOfFiles(files) == Tail(files)

\* One turn of the loop: [inst, outcome].  LNF_ERR_CORRUPT and LNF_ERR_READ
\* croak; any other error of lnf_read is taken for a record: the one before,
\* again.  (The next lnf_read goes on behind the error.)  At the
\* end of a file the next one is opened; at the end of the list the list is freed.
ReadTurn(i) ==
  IF i.nffile_r # Null /\ i.pos < Len(disk[i.nffile_r])
  THEN LET entry == disk[i.nffile_r][i.pos + 1]
           rec == IF entry.bad THEN i.rec ELSE entry.rec
       IN [inst |-> [i EXCEPT !.pos = @ + 1, !.rec = rec],
           outcome |-> IF entry.croaks THEN "croak" ELSE IF Passes(i.filter, rec) THEN "row" ELSE "on"]
  ELSE LET j == [i EXCEPT !.nffile_r = Null, !.pos = 0] IN
       CASE i.files = Null -> [inst |-> j, outcome |-> "killed"]
         [] i.files = <<>> -> [inst |-> [j EXCEPT !.files = Null], outcome |-> "end"]
         [] OTHER ->
              IF Head(i.files) \notin DOMAIN disk THEN [inst |-> j, outcome |-> "croak"]
              ELSE [inst |-> [j EXCEPT !.nffile_r = Head(i.files), !.files = RestOfFiles(i.files)],
                    outcome |-> "on"]

\* The loop takes a turn for every file and one for every entry, and one more.
Longest == Max({0} \cup {Len(disk[p]) : p \in DOMAIN disk})
Turns(i) == 1 + ((IF i.files = Null THEN 0 ELSE Len(i.files)) + 1) * (Longest + 1)

\* The row that is read, or why there is none
ReadRow(i) ==
  LET turn[n \in 0 .. Turns(i)] ==
        IF n = 0 THEN [inst |-> i, outcome |-> "on"]
        ELSE LET before == turn[n - 1]
             IN IF before.outcome = "on" THEN ReadTurn(before.inst) ELSE before
  IN turn[Turns(i)]

Masked(bits, a) == LET unit == 2^(AddrBits - bits) IN (a \div unit) * unit
Class(m, k) == {l \in DOMAIN m.written :
                  IF m.list THEN l = k
                  ELSE m.bits = Null \/ Masked(m.bits, m.written[l].a) = Masked(m.bits, m.written[k].a)}
Classes(m) == {Class(m, k) : k \in DOMAIN m.written}

SumOf(records, class) == MapThenSumSet(LAMBDA k : records[k].n, class)

\* The record of a row: fields the heap has not are those of a cleared record.
RowOf(m, class) ==
  LET k == CHOOSE l \in class : TRUE IN
  [Rec0 EXCEPT !.a = IF m.bits = Null THEN 0 ELSE Masked(m.bits, m.written[k].a),
               !.n = IF m.sum THEN SumOf(m.written, class) ELSE 0]

\* In a heap every record is aggregated at once.
FillTurn(i) ==
  LET r == ReadRow(i) IN
  IF r.outcome = "row"
  THEN [inst |-> [r.inst EXCEPT !.mem.written = Append(@, r.inst.rec)], outcome |-> "on"]
  ELSE r

FillMem(i) ==
  LET turn[n \in 0 .. Turns(i)] ==
        IF n = 0 THEN [inst |-> i, outcome |-> "on"]
        ELSE LET before == turn[n - 1]
             IN IF before.outcome = "on" THEN FillTurn(before.inst) ELSE before
  IN turn[Turns(i)]
-----------------------------------------------------------------------------
(***************************************************************************)
(* query                                                                   *)
(***************************************************************************)

\* An aggregated query adds every field to the heap; one that is only to be
\* sorted adds the field it is sorted by, and the other fields are lost.
HeapFields(opts, fields) == {k \in DOMAIN fields : opts.aggreg \/ opts.order = fields[k].name}

WithFields(m, opts, fields) ==
  LET added == HeapFields(opts, fields)
      addrs == {k \in added : fields[k].name = "a"} IN
  IF added = {} THEN m
  ELSE [m EXCEPT !.there = TRUE,
                 !.bits = IF addrs = {} THEN @ ELSE fields[Max(addrs)].bits,
                 !.sum = @ \/ \E k \in added : fields[k].name = "n",
                 !.list = @ \/ ~ opts.aggreg]

\* set_fields remembers the names of the fields without their numbers of bits.
Stripped(fields) == [k \in DOMAIN fields |-> [fields[k] EXCEPT !.bits = AddrBits]]

\* [inst, outcome]: the heap, the fields, the list of files and the filter
\* are set, whatever they were; then the heap is filled.
ReadFiles(i, opts, fields) ==
  LET j == [i EXCEPT !.mem = WithFields(@, opts, fields), !.field_list = Names(fields),
                     !.files = opts.files, !.nffile_r = Null, !.pos = 0, !.filter = "any"]
  IN CASE opts.filter = "broken" -> [inst |-> j, outcome |-> "croak"]
       [] j.mem.there -> FillMem([j EXCEPT !.filter = opts.filter])
       [] OTHER -> [inst |-> [j EXCEPT !.filter = opts.filter], outcome |-> "end"]

\* The numbers of bits an address is asked for with
BitsOf(fields) == {fields[k].bits : k \in {l \in DOMAIN fields : fields[l].name = "a"}}

\* What has been known to go wrong before the first row: rows that an earlier
\* query has left in the heap; records that cannot be read; fields whose
\* number of bits an earlier query has forgotten; fields that are not in the
\* heap of a query that is only sorted; an aggregated query without a field,
\* which has no heap, or with an address cut in two ways, of which the last is
\* taken.
Sound(o, q) ==
  LET opts == obj[o].opts IN
  /\ q.outcome = "end" /\ ~ Instance(o).mem.there
  /\ obj[o].fields = opts.fields
  /\ \A p \in Range(opts.files) \cap DOMAIN disk : \A k \in DOMAIN disk[p] : ~ disk[p][k].bad
  /\ q.inst.mem.there <=> opts.aggreg
  /\ opts.aggreg => \A b, c \in BitsOf(opts.fields) : b = c

\* The records of a file that pass, and those of a list of files
Entries(path) == IF path \in DOMAIN disk THEN disk[path] ELSE <<>>
Matching(entries, filter) ==
  FlattenSeq([k \in DOMAIN entries |-> IF Passes(filter, entries[k].rec) THEN <<entries[k].rec>> ELSE <<>>])
AllMatching(files, filter) ==
  FlattenSeq([k \in DOMAIN files |-> Matching(Entries(files[k]), filter)])

NoteQuery(o) ==
  /\ queries' = queries + 1
  /\ wanted' = [wanted EXCEPT ![o] = AllMatching(obj[o].opts.files, obj[o].opts.filter)]
  /\ got' = [got EXCEPT ![o] = <<>>]
  /\ ended' = [ended EXCEPT ![o] = FALSE]
  /\ tainted' = [tainted EXCEPT ![o] = TRUE]

\* Bound: no query while rows of a heap are being fetched, or on a file that is being written.
MayQuery(o) ==
  /\ queries < MaxQueries
  /\ Has(o) => Instance(o).mem.returned = {}
  /\ \A h \in InUse : instances[h].nffile_w \notin Range(obj[o].opts.files)

\* It croaks without files and, of a finished object, without an instance.
Query(o) ==
  /\ obj[o].state # "none" /\ MayQuery(o)
  /\ IF obj[o].opts.files = <<>> \/ ~ Has(o)
     THEN /\ sound' = [sound EXCEPT ![o] = FALSE]
          /\ UNCHANGED <<obj, instances, alive>>
     ELSE LET q == ReadFiles(Instance(o), obj[o].opts, obj[o].fields) IN
          /\ obj' = [obj EXCEPT ![o].fields = Stripped(@), ![o].read_prepared = @ \/ q.outcome = "end"]
          /\ SetInstance(o, q.inst)
          /\ alive' = (q.outcome # "killed")
          /\ sound' = [sound EXCEPT ![o] = Sound(o, q)]
  /\ NoteQuery(o)
  /\ abused' = Trespass(o)
  /\ UNCHANGED <<disk, news, stores, base, given, unopened>>

\* fetchrow_arrayref, which asks first when nobody has; in that case Query is
\* the first half of the call.
Row(i) == [k \in DOMAIN i.field_list |-> i.rec[i.field_list[k]]]

\* End of the rows: the next fetch asks again.
EndOfRows(o) ==
  /\ obj' = [obj EXCEPT ![o].read_prepared = FALSE]
  /\ ended' = [ended EXCEPT ![o] = TRUE]
  /\ UNCHANGED <<got, sound>>

FetchRow(o, i) ==
  /\ got' = [got EXCEPT ![o] = Append(@, Row(i))]
  /\ UNCHANGED <<obj, ended, sound>>

Fetch(o) ==
  /\ obj[o].read_prepared
  /\ tainted' = [tainted EXCEPT ![o] = TRUE]
  /\ LET i == Instance(o) IN
     IF ~ i.mem.there
     THEN LET r == ReadRow(i) IN
          /\ SetInstance(o, r.inst)
          /\ alive' = (r.outcome # "killed")
          /\ CASE r.outcome = "row" -> FetchRow(o, r.inst)
               [] r.outcome = "end" -> EndOfRows(o)
               [] OTHER -> sound' = [sound EXCEPT ![o] = FALSE] /\ UNCHANGED <<obj, got, ended>>
     ELSE /\ UNCHANGED alive
          /\ IF Classes(i.mem) = i.mem.returned
             THEN SetInstance(o, [i EXCEPT !.mem = NoMem]) /\ EndOfRows(o)
             ELSE \E class \in Classes(i.mem) \ i.mem.returned :
                    LET j == [i EXCEPT !.mem.returned = @ \cup {class}, !.rec = RowOf(i.mem, class)] IN
                    SetInstance(o, j) /\ FetchRow(o, j)
  /\ UNCHANGED <<disk, news, queries, stores, wanted, base, given, unopened, abused>>
-----------------------------------------------------------------------------
(***************************************************************************)
(* Storing rows                                                            *)
(***************************************************************************)

\* create: its result is not looked at, a second call croaks.  The record in
\* hand is not touched.  Bound: nobody reads or writes the file.
Create(o) ==
  /\ Open(o) /\ ~ obj[o].write_prepared /\ obj[o].opts.out # Null
  /\ LET path == obj[o].opts.out IN
     /\ \A h \in InUse :
          /\ path \notin {instances[h].nffile_r, instances[h].nffile_w}
          /\ instances[h].files # Null => path \notin Range(instances[h].files)
     /\ IF path = Denied
        THEN UNCHANGED disk /\ unopened' = TRUE
             /\ SetInstance(o, [Instance(o) EXCEPT !.field_list = Names(obj[o].fields)])
        ELSE /\ disk' = [p \in DOMAIN disk \cup {path} |-> IF p = path THEN <<>> ELSE disk[p]]
             /\ UNCHANGED unopened
             /\ SetInstance(o, [Instance(o) EXCEPT !.nffile_w = path,
                                                   !.field_list = Names(obj[o].fields)])
  /\ obj' = [obj EXCEPT ![o].write_prepared = TRUE, ![o].fields = Stripped(@)]
  /\ UNCHANGED <<alive, news, queries, stores, wanted, got, ended, sound, base, given, tainted, abused>>

\* Values are set in the record one by one: [rec, ok].  What is undef is
\* skipped; a value that is no address ends the call, and the fields before it
\* stay set.
SetValue(acc, name, value) ==
  CASE ~ acc.ok \/ value = Undef -> acc
    [] name = "a" /\ value = Invalid -> [acc EXCEPT !.ok = FALSE]
    [] OTHER -> [acc EXCEPT !.rec[name] = value]
Filled(rec, names, row) ==
  FoldLeft(LAMBDA acc, k : SetValue(acc, names[k], row[k]), [rec |-> rec, ok |-> TRUE],
           [k \in DOMAIN names |-> k])

\* mutant of AfterWrite: the record is not cleared
AfterWriteKept(rec) == rec

AfterWrite(rec) == Rec0

\* storerow_arrayref, when create has been called, by the program or by it.
\* A row of another length croaks.  Without a file the process is killed.
StoreRow(o) ==
  /\ Open(o) /\ obj[o].write_prepared /\ stores < MaxStores
  /\ stores' = stores + 1
  /\ \E row \in Rows :
       LET i == Instance(o)  x == Filled(i.rec, i.field_list, row) IN
       IF Len(row) # Len(i.field_list)
       THEN UNCHANGED <<instances, alive, base, given, tainted>>
       ELSE IF ~ x.ok
       THEN /\ SetInstance(o, [i EXCEPT !.rec = x.rec])
            /\ tainted' = [tainted EXCEPT ![o] = TRUE]
            /\ UNCHANGED <<alive, base, given>>
       ELSE /\ alive' = (i.nffile_w # Null)
            /\ SetInstance(o, [i EXCEPT !.rec = AfterWrite(x.rec), !.written = Append(@, x.rec)])
            /\ LET full == Filled(base[o], i.field_list, row).rec IN
               given' = [given EXCEPT ![o] = Append(@, IF tainted[o] THEN x.rec ELSE full)]
            /\ base' = [base EXCEPT ![o] = Rec0]
            /\ tainted' = [tainted EXCEPT ![o] = FALSE]
  /\ UNCHANGED <<obj, disk, news, queries, wanted, got, ended, sound, unopened, abused>>

\* clonerow: the record the other object has in hand
CloneRow(o, src) ==
  /\ Open(o) /\ obj[o].write_prepared /\ src # o /\ obj[src].state # "none"
  /\ IF ~ Has(src) THEN UNCHANGED <<instances, base, tainted>>
     ELSE /\ SetInstance(o, [Instance(o) EXCEPT !.rec = Instance(src).rec])
          /\ base' = [base EXCEPT ![o] = Instance(src).rec]
          /\ tainted' = [tainted EXCEPT ![o] = FALSE]
  /\ abused' = Trespass(src)
  /\ UNCHANGED <<obj, disk, alive, news, queries, stores, wanted, got, ended, sound, given, unopened>>
-----------------------------------------------------------------------------
(***************************************************************************)
(* finish and DESTROY: libnf_finish                                        *)
(***************************************************************************)

\* The file gets the rows; the heap is not freed.  A second finish goes for
\* whatever instance has the handle by now.
Written(i) == [k \in DOMAIN i.written |-> [bad |-> FALSE, croaks |-> FALSE, rec |-> i.written[k]]]
Closed(o) ==
  /\ disk' = IF Has(o) /\ Instance(o).nffile_w # Null
             THEN [disk EXCEPT ![Instance(o).nffile_w] = Written(Instance(o))] ELSE disk
  /\ instances' = [h \in InUse \ {obj[o].handle} |-> instances[h]]

Finish(o) ==
  /\ obj[o].state # "none"
  /\ Closed(o)
  /\ obj' = [obj EXCEPT ![o].state = "closed", ![o].read_prepared = FALSE, ![o].write_prepared = FALSE]
  /\ abused' = Trespass(o)
  /\ UNCHANGED <<alive, news, queries, stores, wanted, got, ended, sound, base, given, tainted, unopened>>

\* The variable goes out of scope.  (Of a finished object nothing is left to do.)
Destroy(o) ==
  /\ Open(o)
  /\ Closed(o)
  /\ obj' = [obj EXCEPT ![o] = NoObject]
  /\ Forget(o)
  /\ UNCHANGED <<alive, news, queries, stores, unopened, abused>>

\* What happens after a trespass is not looked at.
Next ==
  /\ alive /\ ~ abused
  /\ \E o \in Objects :
       \/ New(o) \/ Query(o) \/ Fetch(o) \/ Create(o) \/ StoreRow(o)
       \/ \E src \in Objects : CloneRow(o, src)
       \/ Finish(o) \/ Destroy(o)

Spec == Init /\ [][Next]_vars
-----------------------------------------------------------------------------
(***************************************************************************)
(* Properties                                                              *)
(***************************************************************************)

Projected(rec, fields) == [k \in DOMAIN fields |-> rec[fields[k].name]]

\* The rows of an aggregated query: one for every address, cut to its bits,
\* with the sum of the numbers.
Group(o, rec) ==
  {k \in DOMAIN wanted[o] :
     \A b \in BitsOf(obj[o].opts.fields) : Masked(b, wanted[o][k].a) = Masked(b, rec.a)}
Total(o, rec) ==
  LET bits == BitsOf(obj[o].opts.fields) IN
  Projected([a |-> IF bits = {} THEN rec.a ELSE Masked(CHOOSE b \in bits : TRUE, rec.a),
             n |-> SumOf(wanted[o], Group(o, rec))], obj[o].opts.fields)

\* Whatever other objects do between two fetches, rows are fetched until undef
\* is returned, and they are the answer: the records of all the files that
\* pass the filter, in order, or their totals.  (Of a query that was sound:
\* rows left in the heap by a query that croaked are counted again; a record
\* that cannot be read doubles the one before it; a second query of an object
\* has forgotten the numbers of bits; a sort without aggregation loses the
\* fields it does not sort by; an aggregation without fields has no heap, and
\* an address can be cut in one way only.)
QueryAnswers ==
  \A o \in Objects :
    ended[o] /\ sound[o] /\ obj[o].state # "none" =>
      IF obj[o].opts.aggreg
      THEN /\ Range(got[o]) = {Total(o, rec) : rec \in Range(wanted[o])}
           /\ IsInjective(got[o])
      ELSE got[o] = [k \in DOMAIN wanted[o] |-> Projected(wanted[o][k], obj[o].opts.fields)]

\* What is stored is the row that was given, upon the record that was cloned
\* for it and no other: nothing of an earlier row, whatever was fetched in
\* between.  (But a row with a bad address leaves the fields before it to the
\* next row, and an object that reads adds its rows to what it has fetched.)
StoredAsGiven ==
  ~ abused => \A o \in Objects : Open(o) => Instance(o).written = given[o]

\* As long as no finished object is used again, every object has an instance
\* of its own, no instance is left behind, and no list or file that is gone is
\* used: the process is killed only by a row for a file that could not be
\* created.
HandlesOwned ==
  ~ abused =>
    /\ \A o, p \in Objects : Open(o) =>
         Has(o) /\ (Open(p) /\ obj[o].handle = obj[p].handle => o = p)
    /\ \A h \in InUse : \E o \in Objects : Open(o) /\ obj[o].handle = h
    /\ alive \/ unopened
=============================================================================
