------------------------------- MODULE NfFile -------------------------------
(***************************************************************************)
(* nfdump files (src/libnf.c): lnf_open, lnf_read, lnf_write, lnf_info and *)
(* lnf_close of a writing and a reading thread of one program, on one path *)
(* under which other programs put files of their own.  A reader in LOOP    *)
(* mode goes on reading while the file grows, is replaced or removed.      *)
(*                                                                         *)
(* nfdump's own file layer is external: OpenFile, OpenNewFile, AppendFile, *)
(* ReadBlock, WriteBlock, AppendToBuffer, PackRecord, Insert_Extension_Map *)
(***************************************************************************)
EXTENDS Naturals, Sequences, FiniteSets, SequencesExt, FiniteSetsExt, Functions

CONSTANTS
  Exts,        \* the sets of extensions records have
  Exporters,   \* exporters, by their id and address
  Leftovers,   \* what a record used before may hold as exporter_sysid
  WriteFlags,  \* the flags files are opened with for writing
  ReadFlags,   \* and for reading
  Contents,    \* files of other programs: sequences of blocks
  Inodes,      \* inode numbers; those of removed files are used again
  Unset,       \* what malloc leaves in the inode of a handle
  BlockCap,    \* entries that fit into a block
  MaxMaps,     \* MAX_EXTENSION_MAPS
  Limits,      \* bounds: how many records are written (recs), how many files come to be
               \* under the path (files), how many calls of each thread take the mutex (calls)
  Faults       \* what may go wrong: "noname", "nomem"

ASSUME NfFileAssumption ==
  /\ WriteFlags \subseteq {{"WRITE"}, {"APPEND"}, {"WRITE", "APPEND"}}
  /\ ReadFlags \subseteq {{}, {"READ_LOOP"}}
  /\ Inodes \subseteq Nat \ {0} /\ Unset \subseteq Nat
  /\ {BlockCap, MaxMaps} \subseteq Nat \ {0}
  /\ \A c \in Contents : c \in Seq(Range(c)) /\ \A b \in Range(c) :
       b.entries \in Seq(Range(b.entries)) /\ \A e \in Range(b.entries) : e.id \in Nat
  /\ Leftovers \subseteq Nat
  /\ Limits \subseteq [recs : Nat, files : Nat, calls : [{"W", "R"} -> Nat]]

VARIABLES
  files,   \* all files there ever were: inode, blocks, and as the file itself
           \* says the number of its blocks and flows
  path,    \* the file under the path, 0 if there is none
  mutex,   \* lnf_nfdump_filter_mutex: who holds it
  pc,      \* where the threads are
  w, r,    \* their handles; r.told and r.misled are history: how many answers
           \* the reader had for this same file before it was reopened, and
           \* whether the inode was ever noted of no file, or of another one
  rec,     \* number of records written so far
  acked,   \* of each file: the records lnf_write answered LNF_OK for
  got,     \* what lnf_read returned since the handle was last (re)opened
  calls,   \* calls so far that take the mutex
  limit,   \* the bounds of this behaviour
  broken   \* what can no longer be trusted after a fault: "mutex", "heap"

vars == <<files, path, mutex, pc, w, r, rec, acked, got, calls, limit, broken>>

Threads == {"W", "R"}
Nobody == "nobody"

\* An entry of a block: an extension map, an exporter, the exporters'
\* statistics, a data record, or something else.
Entry(kind) == [kind |-> kind, id |-> 0, exts |-> {}, sysid |-> 0, exp |-> "none", n |-> 0, stats |-> <<>>]
Block(type, entries) == [type |-> type, entries |-> entries]

NoWriter == [file |-> 0, flags |-> {}, buf |-> <<>>, maps |-> <<>>, exporters |-> <<>>, blocks |-> 0, flows |-> 0,
             since |-> 0]
NoReader == [file |-> 0, flags |-> {}, pos |-> 0, block |-> <<>>, at |-> 0, remains |-> 0, slots |-> <<>>,
             inode |-> 0, seen |-> 0, blocks |-> 0, flows |-> 0, told |-> 0, misled |-> FALSE]

\* The places of the entries in the data blocks, and their order.
Places(bs) == {p \in UNION {{b} \X DOMAIN bs[b].entries : b \in DOMAIN bs} : bs[p[1]].type = 2}
At(bs, p) == bs[p[1]].entries[p[2]]
Before(p, q) == p[1] < q[1] \/ (p[1] = q[1] /\ p[2] < q[2])
Earlier(bs, p) == {q \in Places(bs) : Before(q, p)}
Of(bs, ps, kind) == {p \in ps : At(bs, p).kind = kind}
Records(bs) == Of(bs, Places(bs), "record")

Init ==
  /\ files = <<>> /\ path = 0 /\ mutex = Nobody
  /\ pc = [t \in Threads |-> "closed"]
  /\ w = NoWriter /\ r = NoReader
  /\ rec = 0 /\ acked = <<>> /\ got = <<>>
  /\ calls = [t \in Threads |-> 0]
  /\ broken = {} /\ limit \in Limits

-----------------------------------------------------------------------------
(***************************************************************************)
(* Other programs                                                          *)
(***************************************************************************)

HeldOpen == {w.file, r.file, path} \ {0}
FreeInodes == Inodes \ {files[f].ino : f \in HeldOpen}

\* A file of another program takes the place of the one under the path.
PutInPlace(blocks) ==
  /\ Len(files) < limit.files
  /\ \E ino \in FreeInodes : files' = Append(files, [ino |-> ino, blocks |-> blocks, header |-> Len(blocks),
                                                           flows |-> Cardinality(Records(blocks))])
  /\ path' = Len(files')
  /\ acked' = Append(acked, <<>>)
  /\ UNCHANGED <<mutex, pc, w, r, rec, got, calls, broken>>

Unlink ==
  /\ path # 0
  /\ path' = 0
  /\ UNCHANGED <<files, mutex, pc, w, r, rec, acked, got, calls, broken>>

-----------------------------------------------------------------------------
(***************************************************************************)
(* The mutex: lnf_open, lnf_filter_init_v1                                 *)
(***************************************************************************)

Lock(t, from, to) ==
  /\ pc[t] = from /\ mutex = Nobody
  /\ mutex' = t
  /\ pc' = [pc EXCEPT ![t] = to]

\* lnf_filter_init_v1 compiles a filter under the mutex.
FilterLock(t) ==
  /\ Lock(t, "closed", "filter")
  /\ calls[t] < limit.calls[t] /\ calls' = [calls EXCEPT ![t] = @ + 1]
  /\ UNCHANGED <<files, path, w, r, rec, acked, got, broken>>
FilterUnlock(t) ==
  /\ pc[t] = "filter"
  /\ mutex' = Nobody /\ pc' = [pc EXCEPT ![t] = "closed"]
  /\ UNCHANGED <<files, path, w, r, rec, acked, got, calls, broken>>

OpenCall(t) ==
  /\ pc[t] = "closed" /\ calls[t] < limit.calls[t]
  /\ pc' = [pc EXCEPT ![t] = "lock"]
  /\ calls' = [calls EXCEPT ![t] = @ + 1]
  /\ UNCHANGED <<files, path, mutex, w, r, rec, acked, got, broken>>

OpenLock(t) == Lock(t, "lock", "nffile") /\ UNCHANGED <<files, path, w, r, rec, acked, got, calls, broken>>

\* lnf_open for reading in LOOP mode without a name, or without memory for a
\* copy of it: it returns as it is.
OpenEarlyReturn ==
  /\ pc["R"] = "nffile" /\ {"READ_LOOP"} \in ReadFlags
  /\ Faults \cap {"noname", "nomem"} # {}
  /\ pc' = [pc EXCEPT !["R"] = "closed"]
  /\ broken' = broken \cup {"mutex"}
  /\ UNCHANGED <<files, path, mutex, w, r, rec, acked, got, calls>>

\* mutant of Unlocked: a file that cannot be opened ends the call at once
UnlockedIfOpen(opened) == IF opened THEN Nobody ELSE mutex
Unlocked(opened) == Nobody

\* Unlock, and on to the second critical section if there is a file.
Opened(t, file) ==
  /\ mutex' = Unlocked(file # 0)
  /\ pc' = [pc EXCEPT ![t] = IF file = 0 THEN "closed" ELSE "lock2"]

OpenedReader(file, flags, inode) ==
  IF file = 0 THEN NoReader
  ELSE [NoReader EXCEPT !.file = file, !.flags = flags, !.inode = inode,
                           !.blocks = files[file].header, !.flows = files[file].flows,
                           !.misled = inode # 0]

OpenRead ==
  /\ pc["R"] = "nffile"
  /\ Opened("R", path)
  /\ \E flags \in ReadFlags, unset \in Unset : r' = OpenedReader(path, flags, unset)
  /\ got' = <<>>
  /\ UNCHANGED <<files, path, w, rec, acked, calls, broken>>

\* OpenNewFile under a name that is free; AppendFile needs a file.
OpenNew(flags) ==
  /\ "APPEND" \notin flags /\ path = 0
  /\ Len(files) < limit.files
  /\ \E ino \in FreeInodes : files' = Append(files, [ino |-> ino, blocks |-> <<>>, header |-> 0, flows |-> 0])
  /\ path' = Len(files')
  /\ acked' = Append(acked, <<>>)
  /\ w' = [NoWriter EXCEPT !.file = path', !.flags = flags, !.since = rec]
  /\ Opened("W", path')

OpenAppend(flags) ==
  /\ "APPEND" \in flags
  /\ w' = IF path = 0 THEN NoWriter
          ELSE [NoWriter EXCEPT !.file = path, !.flags = flags, !.blocks = files[path].header,
                                   !.flows = files[path].flows, !.since = rec]
  /\ Opened("W", path)
  /\ UNCHANGED <<files, path, acked>>

OpenRefused == w' = NoWriter /\ Opened("W", 0) /\ UNCHANGED <<files, path, acked>>

OpenWrite ==
  /\ pc["W"] = "nffile"
  /\ OpenRefused \/ \E flags \in WriteFlags : OpenNew(flags) \/ OpenAppend(flags)
  /\ UNCHANGED <<r, rec, got, calls, broken>>

OpenLock2(t) == Lock(t, "lock2", "init") /\ UNCHANGED <<files, path, w, r, rec, acked, got, calls, broken>>

\* The handle is set up but for the inode, which lnf_open leaves alone.
OpenInit(t) ==
  /\ pc[t] = "init"
  /\ mutex' = Nobody /\ pc' = [pc EXCEPT ![t] = "open"]
  /\ UNCHANGED <<files, path, w, r, rec, acked, got, calls, broken>>

-----------------------------------------------------------------------------
(***************************************************************************)
(* lnf_write, lnf_close of the writer.  st is the handle and what WriteBlock *)
(* has put into the file so far.                                           *)
(***************************************************************************)

\* WriteBlock, which also counts the block in the header of the handle
Flush(st) ==
  IF st.h.buf = <<>> THEN st
  ELSE [st EXCEPT !.blocks = Append(@, Block(2, st.h.buf)), !.h.buf = <<>>, !.h.blocks = @ + 1]

\* AppendToBuffer, PackRecord: a full buffer is written first
Put(st, e) ==
  LET room == IF Len(st.h.buf) = BlockCap THEN Flush(st) ELSE st
  IN [room EXCEPT !.h.buf = Append(@, e)]

\* mutant of KnownMap: bit_array_cmp taken for a test of equality
KnownMapUnequal(maps, exts) == {i \in DOMAIN maps : maps[i] # exts /\ (i = 1 \/ i < Len(maps))}

\* lnf_lookup_map compares the first map and all but the last of the list.
KnownMap(maps, exts) == {i \in DOMAIN maps : maps[i] = exts /\ (i = 1 \/ i < Len(maps))}

\* The id of a map is its place in the list; the first is 0.
LookupMap(st, exts) ==
  LET known == KnownMap(st.h.maps, exts) IN
  IF known # {} THEN [st EXCEPT !.id = Min(known) - 1]
  ELSE LET added == [st EXCEPT !.id = Len(st.h.maps), !.h.maps = Append(@, exts)]
       IN Put(added, [Entry("map") EXCEPT !.id = added.id, !.exts = exts])

NewSysid(st) == Len(st.h.exporters) + 1

HasExporter(st, exp) == \E i \in DOMAIN st.h.exporters : st.h.exporters[i].exp = exp

\* lnf_lookup_exporter puts a new exporter at the head of the list.
LookupExporter(st, exp) ==
  IF HasExporter(st, exp) THEN st
  ELSE LET new == [exp |-> exp, sysid |-> NewSysid(st), flows |-> 0]
       IN Put([st EXCEPT !.h.exporters = <<new>> \o @],
              [Entry("exporter") EXCEPT !.sysid = new.sysid, !.exp = exp])

ExporterOf(st, exp) == CHOOSE i \in DOMAIN st.h.exporters : st.h.exporters[i].exp = exp

\* The statistics of the exporter, and its sysid for the record.  A record
\* stands for one flow here: the code adds its aggr_flows.
Account(st, exp) ==
  LET found == LookupExporter(st, exp) i == ExporterOf(found, exp)
  IN [found EXCEPT !.h.exporters[i].flows = @ + 1, !.sysid = found.h.exporters[i].sysid]

Accounted(st, exp, lost) == IF exp = "none" \/ (lost /\ ~ HasExporter(st, exp)) THEN st ELSE Account(st, exp)

Started(left) == [h |-> w, blocks |-> files[w.file].blocks, id |-> 0, sysid |-> left]

Stored(st) ==
  /\ w' = st.h
  /\ files' = [files EXCEPT ![w.file].blocks = st.blocks]

\* lnf_write.  When there is no memory for a new exporter (lost) the record is
\* written without.
Write(exts, exp, left, lost) ==
  /\ pc["W"] = "open" /\ "heap" \notin broken
  /\ rec < limit.recs
  /\ lost => "nomem" \in Faults
  /\ LET named == Accounted(LookupMap(Started(left), exts), exp, lost)
         stored == Put(named, [Entry("record") EXCEPT !.id = named.id, !.exts = exts, !.sysid = named.sysid, !.n = rec + 1,
                                  !.exp = IF HasExporter(named, exp) THEN exp ELSE "none"])
     IN Stored([stored EXCEPT !.h.flows = @ + 1])
  /\ rec' = rec + 1
  /\ acked' = [acked EXCEPT ![w.file] = Append(@, [n |-> rec', flags |-> w.flags])]
  /\ UNCHANGED <<path, mutex, pc, r, got, calls, broken>>

\* No memory for a new map: LNF_ERR_WRITE.  If it was the map itself, its list
\* still names the node that was freed.
WriteNoMem(exts) ==
  /\ "nomem" \in Faults
  /\ pc["W"] = "open" /\ "heap" \notin broken /\ KnownMap(w.maps, exts) = {}
  /\ broken' \in {broken, broken \cup {"heap"}}
  /\ UNCHANGED <<files, path, mutex, pc, w, r, rec, acked, got, calls>>

\* Whatever follows is undefined, here the end of the program.
Undefined == pc' = [t \in Threads |-> "dead"]

\* The freed node is used by the next lnf_write or lnf_close.
UseFreed ==
  /\ pc["W"] = "open" /\ "heap" \in broken
  /\ Undefined
  /\ UNCHANGED <<files, path, mutex, w, r, rec, acked, got, calls, broken>>

\* lnf_update_exporter_stats
StatsEntry(h) == [Entry("stat") EXCEPT !.stats = h.exporters, !.n = h.since]

CloseFlush(st) == Flush(IF st.h.exporters = <<>> THEN st ELSE Put(st, StatsEntry(st.h)))

\* lnf_close: with LNF_WRITE the last block is written, and the header and the
\* stat record are brought up to date.
CloseWriter ==
  /\ pc["W"] = "open" /\ "heap" \notin broken
  /\ LET done == CloseFlush(Started(0)) IN
     files' = IF "WRITE" \in w.flags
              THEN [files EXCEPT ![w.file].blocks = done.blocks, ![w.file].header = done.h.blocks,
                                  ![w.file].flows = w.flows]
              ELSE files
  /\ w' = NoWriter
  /\ pc' = [pc EXCEPT !["W"] = "closed"]
  /\ UNCHANGED <<path, mutex, r, rec, acked, got, calls, broken>>

-----------------------------------------------------------------------------
(***************************************************************************)
(* lnf_read                                                                *)
(***************************************************************************)

Looping == "READ_LOOP" \in r.flags

ReadCall ==
  /\ pc["R"] = "open"
  /\ pc' = [pc EXCEPT !["R"] = "reading"]
  /\ UNCHANGED <<files, path, mutex, w, r, rec, acked, got, calls, broken>>

Answer(status, n, exts) == [status |-> status, n |-> n, exts |-> exts]

Return(answer) ==
  /\ pc' = [pc EXCEPT !["R"] = "open"]
  /\ got' = Append(got, answer)

Again == UNCHANGED <<pc, got>>

\* mutant of AtEnd: the number of blocks the header gave when the file was opened
AtHeaderEnd == r.file # 0 => r.pos \in {r.blocks, Len(files[r.file].blocks)}
AtEnd == r.file # 0 => r.pos = Len(files[r.file].blocks)

\* lnf_read_record at the end of the file; lnf_read sleeps in LOOP mode.
ReadEof ==
  /\ pc["R"] = "reading" /\ r.remains = 0 /\ AtEnd
  /\ pc' = [pc EXCEPT !["R"] = IF Looping THEN "stat" ELSE "open"]
  /\ UNCHANGED <<files, path, mutex, w, r, rec, acked, got, calls, broken>>

EmptyData(b) == b.type = 2 /\ b.entries = <<>>

\* A data block of no entries: blk_record_remains goes from 0 to -1, and
\* lnf_read_record runs on through what the buffer held before.
LoadEmptyBlock ==
  /\ pc["R"] = "reading" /\ r.remains = 0 /\ ~ AtEnd
  /\ EmptyData(files[r.file].blocks[r.pos + 1])
  /\ Undefined
  /\ UNCHANGED <<files, path, mutex, w, r, rec, acked, got, calls, broken>>

\* The next block.  (A block that cannot be read, LNF_ERR_READ, is not modelled.)
LoadBlock ==
  /\ pc["R"] = "reading" /\ r.remains = 0 /\ ~ AtEnd
  /\ ~ EmptyData(files[r.file].blocks[r.pos + 1])
  /\ LET b == files[r.file].blocks[r.pos + 1]
         read == [r EXCEPT !.pos = @ + 1] IN
     CASE b.type = 2 -> r' = [read EXCEPT !.block = b.entries, !.at = 1, !.remains = Len(b.entries)] /\ Again
       [] b.type = 1 -> r' = read /\ Again
       [] b.type = 0 -> r' = read /\ Return(Answer("LNF_ERR_CORRUPT", 0, {}))
       [] OTHER -> r' = read /\ Return(Answer("LNF_ERR_UNKBLOCK", 0, {}))
  /\ UNCHANGED <<files, path, mutex, w, rec, acked, calls, broken>>

\* mutant of Advance: the entry after a map is not gone to
AdvanceNotMap(kind) == kind \notin {"v0", "map"}

\* FLOW_RECORD_NEXT is missing for the records of nfdump 1.5.
Advance(kind) == kind # "v0"

\* Insert_Extension_Map: the newest map of an id is in its slot
Slotted(slots, e) == [id \in DOMAIN slots \cup {e.id} |-> IF id = e.id THEN e.exts ELSE slots[id]]

\* the next entry of the block
ReadEntry ==
  /\ pc["R"] = "reading" /\ r.remains > 0
  /\ LET e == r.block[r.at]
         next == [r EXCEPT !.remains = @ - 1, !.at = IF Advance(e.kind) THEN @ + 1 ELSE @] IN
     CASE e.kind \in {"exporter", "stat", "v0"} -> r' = next /\ Again
       [] e.kind = "map" -> r' = [next EXCEPT !.slots = Slotted(r.slots, e)] /\ Again
       [] e.kind = "record" ->
            /\ r' = next
            /\ Return(IF e.id >= MaxMaps THEN Answer("LNF_ERR_EXTMAPB", e.n, {})
                      ELSE IF e.id \notin DOMAIN r.slots THEN Answer("LNF_ERR_EXTMAPM", e.n, {})
                      ELSE Answer("LNF_OK", e.n, r.slots[e.id]))
       [] OTHER -> r' = next /\ Return(Answer("LNF_ERR_UNKREC", 0, {}))
  /\ UNCHANGED <<files, path, mutex, w, rec, acked, calls, broken>>

\* LOOP mode: the file is gone.
StatGone ==
  /\ pc["R"] = "stat" /\ path = 0
  /\ pc' = [pc EXCEPT !["R"] = "open"]
  /\ UNCHANGED <<files, path, mutex, w, r, rec, acked, got, calls, broken>>

\* The inode is compared with the one of the last time; the first time with
\* what malloc left there.
Stat ==
  /\ pc["R"] = "stat" /\ path # 0
  /\ LET ino == files[path].ino IN
     IF r.inode # 0 /\ r.inode # ino
     THEN r' = [r EXCEPT !.seen = ino] /\ pc' = [pc EXCEPT !["R"] = "reopen"]
     ELSE r' = [r EXCEPT !.inode = ino] /\ pc' = [pc EXCEPT !["R"] = "reading"]
  /\ UNCHANGED <<files, path, mutex, w, rec, acked, got, calls, broken>>

Reopened(file) ==
  IF file = 0 THEN [r EXCEPT !.file = 0, !.seen = 0]
  ELSE [r EXCEPT !.file = file, !.pos = 0, !.inode = r.seen, !.seen = 0,
                 !.blocks = files[file].header, !.flows = files[file].flows,
                 !.told = IF file = r.file THEN @ + Len(got) ELSE 0,
                 !.misled = (@ /\ file = r.file) \/ r.seen # files[file].ino]

\* The path may name another file by now, or none: then LNF_ERR_OTHER and a
\* handle without a file (and without the new inode).
Reopen ==
  /\ pc["R"] = "reopen"
  /\ r' = Reopened(path)
  /\ pc' = [pc EXCEPT !["R"] = IF path = 0 THEN "open" ELSE "reading"]
  /\ got' = <<>>
  /\ UNCHANGED <<files, path, mutex, w, rec, acked, calls, broken>>

\* lnf_close; a handle without a file is left as it is.
CloseReader ==
  /\ pc["R"] = "open"
  /\ r' = NoReader /\ got' = <<>>
  /\ pc' = [pc EXCEPT !["R"] = "closed"]
  /\ UNCHANGED <<files, path, mutex, w, rec, acked, calls, broken>>

-----------------------------------------------------------------------------
OpenNext(t) == OpenLock(t) \/ OpenLock2(t) \/ OpenInit(t) \/ FilterUnlock(t)

WriterOpen == OpenNext("W") \/ OpenWrite
ReaderOpen == OpenNext("R") \/ OpenRead
ReaderNext == ReadCall \/ ReadEof \/ LoadBlock \/ LoadEmptyBlock \/ ReadEntry \/ StatGone \/ Stat \/ Reopen

Step ==
  \/ \E blocks \in Contents : PutInPlace(blocks)
  \/ Unlink
  \/ \E t \in Threads : FilterLock(t) \/ OpenCall(t)
  \/ WriterOpen \/ ReaderOpen \/ OpenEarlyReturn
  \/ \E exts \in Exts, exp \in Exporters \cup {"none"}, left \in Leftovers, lost \in BOOLEAN :
       Write(exts, exp, left, lost)
  \/ \E exts \in Exts : WriteNoMem(exts)
  \/ UseFreed
  \/ CloseWriter
  \/ ReaderNext
  \/ CloseReader

Next == Step /\ UNCHANGED limit

\* A call that has begun goes on, and the program reads again.
Fairness ==
  /\ WF_vars(WriterOpen /\ UNCHANGED limit)
  /\ WF_vars(ReaderOpen /\ UNCHANGED limit)
  /\ WF_vars(ReaderNext /\ UNCHANGED limit)

Spec == Init /\ [][Next]_vars /\ Fairness
-----------------------------------------------------------------------------
(***************************************************************************)
(* lnf_info                                                                *)
(***************************************************************************)

\* Each group of items has a condition of its own; the answer must fit.
\* h is a handle, or NoReader for a program that passes none.
InfoNeedsFile(item) == item # "LNF_INFO_VERSION"
InfoValue(h, item) ==
  CASE item = "LNF_INFO_VERSION" -> 1
    [] item = "LNF_INFO_BLOCKS" -> h.blocks
    [] item = "LNF_INFO_FLOWS" -> h.flows

lnf_info(h, item, size) ==
  IF InfoNeedsFile(item) /\ h.file = 0 THEN [status |-> "LNF_ERR_OTHER", value |-> 0]
  ELSE IF size < 8 THEN [status |-> "LNF_ERR_NOMEM", value |-> 0]
  ELSE [status |-> "LNF_OK", value |-> InfoValue(h, item)]
-----------------------------------------------------------------------------
(***************************************************************************)
(* Properties                                                              *)
(***************************************************************************)

\* The blocks of a file; what the writer still has in its buffer is a block after
\* the last.
Written(f) == IF w.file = f THEN Append(files[f].blocks, Block(2, w.buf)) ELSE files[f].blocks

\* The last entry of a kind with this id among the places ps.
NewestMap(bs, ps, id, m) ==
  /\ m \in Of(bs, ps, "map") /\ At(bs, m).id = id
  /\ \A q \in Of(bs, ps, "map") : At(bs, q).id = id => q = m \/ Before(q, m)
NewestExporter(bs, ps, sysid, m) ==
  /\ m \in Of(bs, ps, "exporter") /\ At(bs, m).sysid = sysid
  /\ \A q \in Of(bs, ps, "exporter") : At(bs, q).sysid = sysid => q = m \/ Before(q, m)

\* Wherever blocks end, a record's map comes before it, and no other under the
\* same id in between.
RecordsMapped(bs) ==
  \A p \in Records(bs) : \E m \in Earlier(bs, p) :
    NewestMap(bs, Earlier(bs, p), At(bs, p).id, m) /\ At(bs, m).exts = At(bs, p).exts

\* So does its exporter.
ExportersNamed(bs) ==
  \A p \in Records(bs) : At(bs, p).exp # "none" =>
    /\ At(bs, p).sysid # 0
    /\ \E m \in Earlier(bs, p) :
         NewestExporter(bs, Earlier(bs, p), At(bs, p).sysid, m) /\ At(bs, m).exp = At(bs, p).exp

\* The statistics are those of the records of the handle that wrote them.
FlowsOf(bs, ps, exp, since) ==
  Cardinality({p \in Of(bs, ps, "record") : At(bs, p).exp = exp /\ At(bs, p).n > since})
StatsExact(bs) ==
  \A p \in Of(bs, Places(bs), "stat") : \A s \in Range(At(bs, p).stats) :
    s.flows = FlowsOf(bs, Earlier(bs, p), s.exp, At(bs, p).n)

\* The records of a file were acknowledged, in their order and each once.
\* What was acknowledged is there; a handle opened with LNF_APPEND alone may
\* lose the records of its last block.
AckedKept(f) ==
  LET bs == Written(f) records == Records(bs) answers == acked[f] IN
  /\ \A p \in records : \E i \in DOMAIN answers : answers[i].n = At(bs, p).n
  /\ \A p, q \in records : Before(p, q) =>
       \E i, j \in DOMAIN answers : i < j /\ answers[i].n = At(bs, p).n /\ answers[j].n = At(bs, q).n
  /\ \A i, j \in DOMAIN answers : answers[i].n = answers[j].n => i = j
  /\ \A i \in DOMAIN answers : "WRITE" \in answers[i].flags => \E p \in records : At(bs, p).n = answers[i].n

\* A map is written at most twice, although the last of the list is not looked at.
MapsFew == \A exts \in Exts : Cardinality({i \in DOMAIN w.maps : w.maps[i] = exts}) <= 2

\* A file that was written here: with no block of another program.
Own(f) == Range(files[f].blocks) \cap UNION {Range(c) : c \in Contents} = {}

\* What is in a file that was written here can be made sense of: by a reader
\* of the file as it is on disk at any time, and when it is closed.
FileSound ==
  /\ MapsFew
  /\ \A f \in DOMAIN files : Own(f) =>
       LET bs == Written(f) IN RecordsMapped(bs) /\ ExportersNamed(bs) /\ StatsExact(bs) /\ AckedKept(f)

\* The entries lnf_read comes to: none after a record of nfdump 1.5 in its block.
Reached(bs) == {p \in Places(bs) : \A i \in 1 .. p[2] - 1 : bs[p[1]].entries[i].kind # "v0"}
ReachedBefore(bs, p) == Earlier(bs, p) \cap Reached(bs)

\* What a reader is owed for a file, in its order: an answer for each record and
\* each entry it does not know, and for each block it does not know, which as a
\* whole is the place <<b, 0>>.
Owed(bs) ==
  {p \in Reached(bs) : At(bs, p).kind \notin {"map", "exporter", "stat", "v0"}}
    \cup {<<b, 0>> : b \in {b \in DOMAIN bs : bs[b].type \notin {1, 2}}}

\* The answer for a record: with the extensions of the last map of its id.
\* Without a map in this file, one of a file read before through the same
\* handle may be taken if it is in LOOP mode (loop).
RightRecord(a, bs, p, loop) ==
  LET id == At(bs, p).id
      maps == {m \in ReachedBefore(bs, p) : NewestMap(bs, ReachedBefore(bs, p), id, m)}
  IN CASE id >= MaxMaps -> a.status = "LNF_ERR_EXTMAPB"
       [] id < MaxMaps /\ maps = {} -> a.status = "LNF_ERR_EXTMAPM" \/ (a.status = "LNF_OK" /\ loop)
       [] OTHER -> \A m \in maps : a = Answer("LNF_OK", At(bs, p).n, At(bs, m).exts)

RightAnswer(a, bs, p, loop) ==
  CASE p[2] = 0 -> a.status = IF bs[p[1]].type = 0 THEN "LNF_ERR_CORRUPT" ELSE "LNF_ERR_UNKBLOCK"
    [] p[2] # 0 /\ At(bs, p).kind # "record" -> a.status = "LNF_ERR_UNKREC"
    [] OTHER -> RightRecord(a, bs, p, loop)

\* A file whose header counts all its blocks says how many records there are: a
\* handle opened with LNF_APPEND alone leaves the header as it was, and for the
\* handles after it the header stays behind.
InfoAgrees ==
  r.blocks = Len(files[r.file].blocks) =>
    lnf_info(r, "LNF_INFO_FLOWS", 8).value = Cardinality(Records(files[r.file].blocks))

\* A reader gets the records of its file in order, each once, with the
\* extensions it was written with, and an error for what it cannot read; at
\* the end of each block it has got them all.  Once means: no more often than
\* the file was opened, and a reader that was not misled about the inode never
\* reopens the file that it has open.
ReadsFaithful ==
  r.file # 0 /\ pc["R"] # "closed" =>
    LET bs == files[r.file].blocks
        owed == {p \in Owed(bs) : p[1] <= r.pos}
    IN /\ Len(got) <= Cardinality(owed)
       /\ r.told = 0 \/ r.misled
       /\ \A p \in owed : LET k == Cardinality({q \in owed : Before(q, p)}) + 1
                         IN k <= Len(got) => RightAnswer(got[k], bs, p, Looping)
       /\ r.remains = 0 => Len(got) = Cardinality(owed)
       /\ InfoAgrees

\* libnf.h on LNF_READ_LOOP: it "detects whether the original file was replaced
\* by a new one and if so it reopens file handle on the new file", so of one
\* file no more is delivered than is in it.
EachOnce ==
  r.file # 0 /\ pc["R"] # "closed" => r.told + Len(got) <= Cardinality(Owed(files[r.file].blocks))

\* The mutex is held by a thread inside lnf_open or lnf_filter_init, unless
\* lnf_open has returned early.
MutexReturned ==
  mutex # Nobody => pc[mutex] \in {"nffile", "init", "filter", "dead"} \/ "mutex" \in broken

Files == 1 .. Max({0} \cup {l.files : l \in Limits})
Reading(f) == path = f /\ r.file = f /\ Looping /\ pc["R"] \notin {"closed", "dead"}

\* A reader in LOOP mode gets all there is of a file that stays where it is.
LoopCatchesUp ==
  \A f \in Files :
    <>[]Reading(f) => <>[](f \in DOMAIN files /\ Len(got) = Cardinality(Owed(files[f].blocks)))

\* A reader in LOOP mode notices that its file was replaced and reopens.
FollowsReplacement ==
  \A f \in Files : <>[](path = f /\ Looping /\ pc["R"] \notin {"closed", "dead"}) => <>(r.file = f)
=============================================================================
