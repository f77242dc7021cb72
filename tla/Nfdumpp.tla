------------------------------- MODULE Nfdumpp ------------------------------
(***************************************************************************)
(* The command line program nfdumpp (bin/): main reads the options into a  *)
(* list of files and an array of outputs, starts the threads and waits for *)
(* them; every thread takes files from the list, reads, filters and writes *)
(* the records to every output; main prints what the outputs have kept.    *)
(*                                                                         *)
(* An output either prints a record at once or keeps it in a memory heap.  *)
(* A heap is what MemMerge and MemHeap show it to be: a table per thread,  *)
(* folded into that of a lower id when the thread is done, in one step     *)
(* here.  Reading from a ring buffer and in an endless loop never ends and *)
(* is left out; so is a failing malloc, open for writing or pthread_create.*)
(***************************************************************************)
EXTENDS Integers, Sequences, FiniteSets, SequencesExt, FiniteSetsExt

CONSTANTS
  CommandLines,  \* sequences of options [opt, ...]
  Paths,         \* the file system: path -> [kind, names, hidden, records]
  MaxThreads,    \* MAX_THREADS
  Processors,    \* get_cpu_cores
  AddrBits       \* 32, and 128 of version 6, scaled down

ASSUME NfdumppAssumption ==
  MaxThreads \in Nat \ {0} /\ Processors \in 1 .. MaxThreads /\ AddrBits \in Nat \ {0}

Threads == 1 .. MaxThreads
NoId == -1
Empty == <<"empty">>      \* the record lnf_rec_init makes
Outputs == 0 .. 2         \* bound: outputs used of MAX_OUTPUTS

VARIABLES
  \* main
  argv, optind, numaflags, numoutputs, numthreads, filter, main,
  cur,          \* the output main prints
  \* shared, under the mutex
  flist, totalrows,
  progress,     \* [num, steps]
  output,       \* [memp, list, keys, vals, sortfield, sortbits, limit, fmt, started, outputflows]
  heap,         \* per output: [ids, merge, rows], rows per id: set of [flow, keys, vals]
  printed,      \* per output: sequence of rows, a row a set of flows
  engine,       \* the filter engine: [holder, nfrecord]
  \* per thread
  th            \* [pc, file, pos, rec, rows, o]

optvars == <<argv, optind, numaflags, numoutputs, numthreads, filter>>
vars == <<optvars, main, cur, flist, totalrows, progress, output, heap, printed, engine, th>>
mainvars == <<optvars, main, cur>>

\* seventy percent of the processors, but one thread at least
DefaultThreads == Max({1, (Processors * 7) \div 10})

Records(f) == Paths[f].records
Entry(r) == Records(r[1])[r[2]]

\* What the filter says of a record; the empty record is of no protocol,
\* address or port: only a program without a filter lets it pass.
Hit(r) == filter = "none" \/ (r # Empty /\ Entry(r).hit)

\* A flow: the record in hand after the n-th lnf_read of a file.
Flow(t) == [rec |-> th[t].rec, file |-> th[t].file, pos |-> th[t].pos]

NewOutput == [memp |-> FALSE, list |-> FALSE, keys |-> <<>>, vals |-> {},
              sortfield |-> "none", sortbits |-> 0, limit |-> 0,
              fmt |-> "line", started |-> FALSE, outputflows |-> 0]
NewHeap == [ids |-> [t \in Threads |-> NoId], merge |-> {}, rows |-> [i \in 0 .. MaxThreads |-> {}]]

Init ==
  /\ argv \in CommandLines /\ optind = 1
  /\ numaflags = 0 /\ numoutputs = 1 /\ numthreads = DefaultThreads /\ filter = "none"
  /\ main = "options" /\ cur = 0
  /\ flist = <<>> /\ totalrows = 0 /\ progress = [num |-> 0, steps |-> 0]
  /\ output = [o \in Outputs |-> NewOutput]
  /\ heap = [o \in Outputs |-> NewHeap]
  /\ printed = [o \in Outputs |-> <<>>]
  /\ engine = [holder |-> NoId, nfrecord |-> Empty]
  /\ th = [t \in Threads |-> [pc |-> "none", file |-> "none", pos |-> 0, rec |-> Empty, rows |-> 0, o |-> 0]]
-----------------------------------------------------------------------------
(***************************************************************************)
(* The options                                                             *)
(***************************************************************************)

\* flist_push
Push(l, path) == <<path>> \o l

\* flist_lookup_dir: [ok, list].  Names that start with a dot are skipped; a
\* name that cannot be found ends the search of every directory above it.
RECURSIVE Lookup(_, _)
Lookup(r, path) ==
  LET p == Paths[path] IN
  CASE ~ r.ok \/ p.hidden -> r
    [] p.kind = "missing" -> [r EXCEPT !.ok = FALSE]
    [] p.kind = "file" -> [r EXCEPT !.list = Push(@, path)]
    [] p.kind = "dir" -> FoldLeft(Lookup, r, p.names)
    [] OTHER -> r
Found(l, path) == Lookup([ok |-> TRUE, list |-> l], path).list

\* The fields, by the names lnf_fld_parse knows; types and default aggregation.
Values == {"first", "last", "duration", "packets", "octets", "flows"}
KeyFields == {"srcaddr", "srcport"}
IsAddr(f) == f = "srcaddr"
Name == [srcip |-> "srcaddr", sourceIPv4Address |-> "srcaddr", srcport |-> "srcport",
         bytes |-> "octets", icmpCodeIPv4 |-> "icmp-code"]

\* lnf_fld_parse of name[4|6][/bits[/bits]].  A last 4 or 6 is cut off before
\* the name is looked for (so no name that ends in one is ever found).  Of two
\* numbers after a 6 the second is not read: the first one is taken twice.
FldParse(token) ==
  LET found == token.base \in DOMAIN Name
      f == Name[token.base]
      n == Len(token.bits)
      full == IF IsAddr(f) THEN AddrBits ELSE 0 IN
  IF ~ found THEN [field |-> "none", bits |-> 0, bits6 |-> 0]
  ELSE IF f \notin {"srcaddr", "octets"} THEN [field |-> f, bits |-> 0, bits6 |-> 0]
  ELSE IF token.last = "6"
  THEN [field |-> f, bits6 |-> IF n > 0 THEN token.bits[1] ELSE full,
        bits |-> IF n > 1 THEN token.bits[1] ELSE full]
  ELSE [field |-> f, bits |-> IF n > 0 THEN token.bits[1] ELSE full,
        bits6 |-> IF n > 1 THEN token.bits[2] ELSE full]

\* lnf_mem_fadd with the default aggregation: a field that is there keeps its
\* place and gets the new number of bits.
Fadd(p, f, bits) ==
  IF f \in KeyFields THEN [p EXCEPT !.keys = (f :> bits) @@ @] ELSE [p EXCEPT !.vals = @ \cup {f}]

\* The second -A begins another output; it takes over how the one before is sorted.
OutputOf(n) == IF numaflags = 0 THEN 0 ELSE n
Begun(n) == IF numaflags = 0 THEN output
            ELSE [output EXCEPT ![n].sortfield = output[n - 1].sortfield, ![n].limit = output[n - 1].limit]

\* outputp
Current == numoutputs - 1

\* output_parse_aggreg: [ok, p].  It stops at a token it does not like.
BadBits(x) == IsAddr(x.field) /\ (x.bits > AddrBits \/ x.bits6 > AddrBits)
AddKey(acc, token) ==
  LET x == FldParse(token) IN
  IF ~ acc.ok \/ x.field = "none" \/ BadBits(x) THEN [acc EXCEPT !.ok = FALSE]
  ELSE [acc EXCEPT !.p.keys = (x.field :> x.bits) @@ @]
Aggregate(p, tokens) ==
  FoldLeft(AddKey, [ok |-> TRUE, p |-> [p EXCEPT !.memp = TRUE, !.vals = @ \cup Values]], tokens)

\* options that end the program; the output of nfdump's files is had by -w only
Refused(a) ==
  \/ a.opt = "o" /\ a.fmt = "nfdump"
  \/ a.opt = "num-threads" /\ a.n > MaxThreads
  \/ a.opt = "A" /\ ~ Aggregate(NewOutput, a.tokens).ok
  \/ a.opt = "O" /\ FldParse(a.token).field = "none"

Sorted(p, x) == [p EXCEPT !.sortfield = x.field, !.sortbits = x.bits]

Option ==
  /\ main = "options" /\ optind <= Len(argv)
  /\ LET a == argv[optind] IN
     /\ optind' = optind + 1
     /\ numthreads' = IF a.opt = "num-threads" THEN a.n ELSE numthreads
     /\ main' = IF Refused(a) THEN "exit" ELSE main
     /\ filter' = IF a.opt = "filter" THEN a.type ELSE filter
     /\ flist' = CASE a.opt = "r" -> Push(flist, a.path)
                   [] a.opt = "R" -> Found(flist, a.path)
                   [] OTHER -> flist
     /\ IF a.opt = "A"
        THEN LET o == OutputOf(numoutputs) IN
             /\ output' = [Begun(o) EXCEPT ![o] = Aggregate(@, a.tokens).p]
             /\ numoutputs' = o + 1 /\ numaflags' = numaflags + 1
        ELSE /\ output' = CASE a.opt = "n" -> [output EXCEPT ![Current].limit = a.n]
                            [] a.opt = "w" -> [output EXCEPT ![Current].fmt = "nfdump"]
                            [] a.opt = "o" /\ ~ Refused(a) -> [output EXCEPT ![Current].fmt = a.fmt]
                            [] a.opt = "O" -> [output EXCEPT ![Current] = Sorted(@, FldParse(a.token))]
                            [] OTHER -> output
             /\ UNCHANGED <<numoutputs, numaflags>>
  /\ UNCHANGED <<argv, cur, totalrows, progress, heap, printed, engine, th>>
-----------------------------------------------------------------------------
(***************************************************************************)
(* An output                                                               *)
(***************************************************************************)

ListKeys == [srcaddr |-> AddrBits, srcport |-> 0]

\* output_start: sorted but not aggregated records go to a heap in list mode;
\* the sort field becomes a field of the heap.
Started(p) ==
  LET sorted == p.sortfield # "none"
      list == ~ p.memp /\ sorted
      q == [p EXCEPT !.started = TRUE, !.list = list, !.memp = @ \/ list,
                     !.keys = IF list THEN ListKeys ELSE @, !.vals = IF list THEN Values ELSE @]
  IN IF sorted THEN Fadd(q, p.sortfield, p.sortbits) ELSE q

\* What output_row_func returns for a row that has been written: the ring
\* buffer's function has success and failure the other way round.
RowCounted(fmt) == fmt # "shm"

\* The id of a thread in a heap (lnf_mem_thread_init)
NextId(hp) == Cardinality({t \in Threads : hp.ids[t] # NoId})
Registered(hp, t) == IF hp.ids[t] # NoId THEN hp ELSE [hp EXCEPT !.ids[t] = NextId(hp)]

\* lnf_mem_write
Stored(hp, t, row) == LET g == Registered(hp, t) IN [g EXCEPT !.rows[g.ids[t]] = @ \cup {row}]

\* output_write, all of it under write_lock
OutputWrite(t, o) ==
  LET p == output[o] IN
  IF p.memp
  THEN /\ heap' = [heap EXCEPT ![o] = Stored(@, t, [flow |-> Flow(t), keys |-> p.keys, vals |-> p.vals])]
       /\ UNCHANGED <<output, printed>>
  ELSE /\ printed' = [printed EXCEPT ![o] = Append(@, {Flow(t)})]
       /\ output' = [output EXCEPT ![o].outputflows = IF RowCounted(p.fmt) THEN @ + 1 ELSE @]
       /\ UNCHANGED heap

Field(r, f, bits) ==
  IF r = Empty THEN 0
  ELSE IF IsAddr(f) /\ bits <= AddrBits THEN Entry(r)[f] \div 2^(AddrBits - bits)
  ELSE Entry(r)[f]
SameKey(keys, r, s) == \A f \in DOMAIN keys : Field(r, f, keys[f]) = Field(s, f, keys[f])

\* The rows of table 0 that lnf_mem_read returns.  A heap whose fields are not
\* those its rows were written with reads something else: junk.
Junk == {}
RowsOf(o) ==
  LET table == heap[o].rows[0]
      class(x) == {y \in table : IF output[o].list THEN y = x ELSE SameKey(x.keys, x.flow.rec, y.flow.rec)}
      value(x) == IF DOMAIN x.keys = DOMAIN output[o].keys /\ x.vals = output[o].vals THEN {y.flow : y \in class(x)} ELSE Junk
  IN {value(x) : x \in table}
-----------------------------------------------------------------------------
(***************************************************************************)
(* A thread: process_thread and process_file                               *)
(***************************************************************************)

At(t, l) == th[t].pc = l
Go(t, l) == th' = [th EXCEPT ![t].pc = l]

\* The next file, under the mutex; the list is a stack.
PopFile(t) ==
  /\ At(t, "pop")
  /\ IF flist = <<>>
     THEN th' = [th EXCEPT ![t].pc = "merge", ![t].o = 0] /\ UNCHANGED <<flist, progress>>
     ELSE /\ progress' = [progress EXCEPT !.num = @ + 1]
          /\ th' = [th EXCEPT ![t].pc = "open", ![t].file = Head(flist)]
          /\ flist' = Tail(flist)
  /\ UNCHANGED <<mainvars, totalrows, output, heap, printed, engine>>

\* A file that cannot be opened counts no records.
Open(t) ==
  /\ At(t, "open")
  /\ th' = [th EXCEPT ![t].pc = IF Paths[th[t].file].kind = "file" THEN "read" ELSE "add",
                      ![t].pos = 0, ![t].rec = Empty, ![t].rows = 0]
  /\ UNCHANGED <<mainvars, flist, totalrows, progress, output, heap, printed, engine>>

\* What is done with a record once it is known whether it matches.
Matched(match) == IF match THEN "write" ELSE "read"

\* lnf_read and the filter.  Only the end of the file ends the loop: after any
\* error the record that was read before is filtered, and written, again.  (An
\* error takes one place of the file here; one that comes back with every call,
\* which the program would never get out of, is not modelled.)
Read(t) ==
  /\ At(t, "read")
  /\ LET pos == th[t].pos + 1 IN
     IF pos > Len(Records(th[t].file)) THEN Go(t, "add")
     ELSE LET r == <<th[t].file, pos>>
              rec == IF Entry(r).bad THEN th[t].rec ELSE r IN
          th' = [th EXCEPT ![t].pos = pos, ![t].rec = rec, ![t].rows = @ + 1, ![t].o = 0,
                           ![t].pc = IF filter = "nfdump" THEN "match" ELSE Matched(Hit(rec))]
  /\ UNCHANGED <<mainvars, flist, totalrows, progress, output, heap, printed, engine>>

\* mutant of EngineFree: the mutex is not taken
EngineAlways == TRUE

EngineFree == engine.holder = NoId

\* lnf_filter_match with a filter of nfdump: all threads use the one engine,
\* under a mutex; the record is put in it, then the engine runs.
MatchSet(t) ==
  /\ At(t, "match") /\ EngineFree
  /\ engine' = [holder |-> t, nfrecord |-> th[t].rec]
  /\ Go(t, "engine")
  /\ UNCHANGED <<mainvars, flist, totalrows, progress, output, heap, printed>>

\* mutant of Released: a record that does not match leaves the mutex locked
ReleasedOnMatch(match) == IF match THEN NoId ELSE engine.holder

Released(match) == NoId

MatchRun(t) ==
  /\ At(t, "engine")
  /\ LET match == Hit(engine.nfrecord) IN
     /\ Go(t, Matched(match))
     /\ engine' = [engine EXCEPT !.holder = Released(match)]
  /\ UNCHANGED <<mainvars, flist, totalrows, progress, output, heap, printed>>

Write(t) ==
  /\ At(t, "write")
  /\ OutputWrite(t, th[t].o)
  /\ th' = [th EXCEPT ![t].o = @ + 1, ![t].pc = IF th[t].o + 1 < numoutputs THEN "write" ELSE "read"]
  /\ UNCHANGED <<mainvars, flist, totalrows, progress, engine>>

\* mutant of Total: the rows of the last file only
TotalLast(rows) == rows

Total(rows) == totalrows + rows

\* totalrows, under the mutex
AddRows(t) ==
  /\ At(t, "add")
  /\ totalrows' = Total(th[t].rows)
  /\ Go(t, "pop")
  /\ UNCHANGED <<mainvars, flist, progress, output, heap, printed, engine>>

\* output_merge_threads, one output after the other
Merge(t) ==
  /\ At(t, "merge")
  /\ IF th[t].o = numoutputs THEN Go(t, "done") /\ UNCHANGED heap
     ELSE LET o == th[t].o  id == heap[o].ids[t] IN
          IF ~ output[o].memp \/ id = NoId
          THEN th' = [th EXCEPT ![t].o = @ + 1] /\ UNCHANGED heap
          ELSE /\ heap' = [heap EXCEPT ![o].merge = @ \cup {id}]
               /\ IF id = 0 THEN th' = [th EXCEPT ![t].o = @ + 1] ELSE Go(t, "fold")
  /\ UNCHANGED <<mainvars, flist, totalrows, progress, output, printed, engine>>

\* The busy loop of lnf_mem_merge_threads: the first thread with a lower id
\* that is done as well gets the table.
Fold(t) ==
  /\ At(t, "fold")
  /\ LET o == th[t].o  hp == heap[th[t].o]  id == hp.ids[t] IN
     /\ \E i \in hp.merge :
          /\ i < id /\ \A j \in hp.merge : i <= j
          /\ heap' = [heap EXCEPT ![o].merge = @ \ {id}, ![o].rows[id] = {},
                                  ![o].rows[i] = @ \cup hp.rows[id]]
     /\ th' = [th EXCEPT ![t].o = @ + 1, ![t].pc = "merge"]
  /\ UNCHANGED <<mainvars, flist, totalrows, progress, output, printed, engine>>

ThreadStep(t) == \/ PopFile(t) \/ Open(t) \/ Read(t) \/ MatchSet(t) \/ MatchRun(t)
                 \/ Write(t) \/ AddRows(t) \/ Merge(t) \/ Fold(t)
-----------------------------------------------------------------------------
(***************************************************************************)
(* The rest of main                                                        *)
(***************************************************************************)

\* Only the first output is started before the threads.
Start ==
  /\ main = "options" /\ optind > Len(argv) /\ flist # <<>>
  /\ output' = [output EXCEPT ![0] = Started(@)]
  /\ th' = [t \in Threads |-> [th[t] EXCEPT !.pc = IF t <= numthreads THEN "pop" ELSE @]]
  /\ progress' = [num |-> 0, steps |-> Len(flist)]
  /\ main' = "join"
  /\ UNCHANGED <<optvars, cur, flist, totalrows, heap, printed, engine>>

Join ==
  /\ main = "join"
  /\ \A t \in Threads : th[t].pc \in {"none", "done"}
  /\ main' = "start"
  /\ UNCHANGED <<optvars, cur, flist, totalrows, progress,
                 output, heap, printed, engine, th>>

\* The other outputs are started when their heaps are full.
StartOutput ==
  /\ main = "start"
  /\ output' = IF cur = 0 THEN output ELSE [output EXCEPT ![cur] = Started(@)]
  /\ main' = "rows"
  /\ UNCHANGED <<optvars, cur, flist, totalrows, progress,
                 heap, printed, engine, th>>

Unread == RowsOf(cur) \ Range(printed[cur])

LimitReached(p) == p.limit > 0 /\ p.outputflows >= p.limit

\* One turn of output_output_rows; the limit is looked at after a row.
PrintRow ==
  /\ main = "rows" /\ output[cur].memp
  /\ \E row \in Unread :
       /\ printed' = [printed EXCEPT ![cur] = Append(@, row)]
       /\ output' = [output EXCEPT ![cur].outputflows = @ + 1]
       /\ main' = IF LimitReached(output'[cur]) THEN "finish" ELSE "rows"
  /\ UNCHANGED <<optvars, cur, flist, totalrows, progress, heap, engine, th>>

RowsDone ==
  /\ main = "rows" /\ (output[cur].memp => Unread = {})
  /\ main' = "finish"
  /\ UNCHANGED <<optvars, cur, flist, totalrows, progress,
                 output, heap, printed, engine, th>>

\* output_finish, the summary, and on to the next output
Finish ==
  /\ main = "finish"
  /\ cur' = cur + 1
  /\ main' = IF cur + 1 < numoutputs THEN "start" ELSE "exit"
  /\ UNCHANGED <<optvars, flist, totalrows, progress,
                 output, heap, printed, engine, th>>

MainStep == Option \/ Start \/ Join \/ StartOutput \/ PrintRow \/ RowsDone \/ Finish

Next == MainStep \/ \E t \in Threads : ThreadStep(t)

Spec == Init /\ [][Next]_vars

(***************************************************************************)
(* Main and every thread keep running.  Nothing is asked of the filter's   *)
(* mutex: a thread that waits for it gets it at the latest when the others *)
(* have run out of records.                                                *)
(***************************************************************************)
FairSpec == Spec /\ WF_vars(MainStep) /\ \A t \in Threads : WF_vars(ThreadStep(t))
-----------------------------------------------------------------------------
(***************************************************************************)
(* Properties                                                              *)
(***************************************************************************)

\* What the command line asks for, read off the options themselves
Opts(name) == SelectSeq(argv, LAMBDA a : a.opt = name)

RECURSIVE Under(_)
Under(path) ==
  LET p == Paths[path] IN
  IF p.hidden THEN {}
  ELSE IF p.kind = "dir" THEN UNION {Under(p.names[i]) : i \in DOMAIN p.names} ELSE {path}

Named == {a.path : a \in Range(Opts("r"))} \cup UNION {Under(a.path) : a \in Range(Opts("R"))}
Files == {f \in Named : Paths[f].kind = "file"}

AllRead == UNION {{<<f, i>> : i \in DOMAIN Records(f)} : f \in Files}
Wanted == {r \in AllRead : Hit(r)}

\* The n-th -A belongs to the n-th output.
Tokens(o) == IF Opts("A") = <<>> THEN <<>> ELSE Opts("A")[o + 1].tokens
BitsOf(token) == IF token.bits # <<>> /\ token.last # "6" THEN token.bits[1] ELSE AddrBits
SameToken(token, r, s) ==
  LET f == Name[token.base] IN Field(r, f, BitsOf(token)) = Field(s, f, BitsOf(token))

Group(o, r) ==
  IF Opts("A") = <<>> THEN {r}
  ELSE {s \in Wanted : \A i \in DOMAIN Tokens(o) : SameToken(Tokens(o)[i], r, s)}

\* A field to sort by that is not among those of the output is added to it: as
\* one more key, or with its own number of bits; see Started.
SortedByItsOwn(o) ==
  LET f == output[o].sortfield IN
  \/ f \in Values \cup {"none"}
  \/ Opts("A") = <<>>
  \/ \E i \in DOMAIN Tokens(o) : Name[Tokens(o)[i].base] = f /\ BitsOf(Tokens(o)[i]) = AddrBits

\* What is known to go wrong: a directory with an entry that cannot be found
\* is not read to its end; a record that cannot be read doubles the one before
\* it; no thread reads nothing.
Readable ==
  /\ numthreads > 0
  /\ \A f \in Named : Paths[f].kind # "missing"
  /\ \A r \in AllRead : ~ Entry(r).bad

Finished == main = "exit" /\ cur = numoutputs

\* However many threads share the files, the filter and the outputs: at the
\* end every output has shown each record that matches in exactly one row,
\* together with the records it is aggregated with and no others; of a sorted
\* or aggregated output as many rows as -n allows, of any other all.  (When it is sorted by a
\* field of its own: the first output is aggregated by the sort field, too, and
\* an address to the length given there; a later one gets the field when its
\* rows have been stored without it, and reads junk.)
EachMatchOnce ==
  Finished /\ Readable =>
    \A o \in 0 .. numoutputs - 1 :
      LET p == output[o]
          groups == {Group(o, r) : r \in Wanted}
          limit == IF p.memp /\ p.limit > 0 THEN Min({p.limit, Cardinality(groups)}) ELSE Cardinality(groups)
          recs(row) == {x.rec : x \in row}
      IN SortedByItsOwn(o) =>
           /\ Len(printed[o]) = limit
           /\ \A i \in DOMAIN printed[o] :
                /\ recs(printed[o][i]) \in groups
                /\ Cardinality(printed[o][i]) = Cardinality(recs(printed[o][i]))
                /\ \A j \in DOMAIN printed[o] : i # j => printed[o][i] # printed[o][j]

\* Every file has been taken.  The summary counts every record read by any
\* thread, good or bad, and the rows each output has shown.  (Not those that
\* went to a ring buffer at once: see RowCounted.)
SummaryRight ==
  Finished /\ numthreads > 0 /\ (\A f \in Named : Paths[f].kind # "missing") =>
    /\ totalrows = Cardinality(AllRead)
    /\ progress.num = progress.steps
    /\ \A o \in 0 .. numoutputs - 1 :
         output[o].outputflows = IF output[o].memp \/ RowCounted(output[o].fmt) THEN Len(printed[o]) ELSE 0

\* The program ends, although every thread waits for others, output by
\* output, to fold its heaps, and for the filter's engine with every record.
\* (The files come to an end: see Read.)
RunEnds == <>(main = "exit")
=============================================================================
