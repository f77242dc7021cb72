# libnf in TLA+

libnf is a C library for nfdump files: it reads and writes flow records, filters
them, aggregates and sorts them in memory, and passes them between processes
through a ring buffer in shared memory. `nfdumpp` is the multi-threaded tool on top
of it. This directory models the parts of libnf that carry its own logic, checks
them with TLC and proves the most important properties with TLAPS.

Paths below are relative to the repository (`src/` is the library, `bin/` the tool).

## Inventory

| component | code | state | operations | what makes it correct |
|---|---|---|---|---|
| ring buffer, data path | `src/lnf_ringbuf.c` | entries (status, num_readers, sequence, data), write_pos, last_write_sequence in shared memory; read_pos, last_read_sequence and counters per handle | `lnf_ring_read`, `lnf_ring_write`, `lnf_ring_info` | records leave whole, in order, at most once; nobody works in an entry somebody else uses; losses are counted; nobody waits forever |
| ring buffer, life cycle | `src/lnf_ringbuf.c` | the name of the segment, conn_count, the mutex | `lnf_ring_init`, `lnf_ring_free` | all handles of a name share one segment; it goes with its last user |
| ring buffer, lock | `src/lnf_ringbuf.c` | the mutex, stuck_counter | `lnf_ring_lock` | mutual exclusion also when a holder dies |
| memory heap, threads | `src/memheap.c` | numthreads, thread_status, one hash table per thread | `lnf_mem_thread_init`, `lnf_mem_write`, `lnf_mem_write_raw`, `lnf_mem_merge_threads` | one user per table; nothing lost or doubled; everything ends in table 0; every thread returns |
| hash table | `src/hash_table.c` | buckets, list of rows, numentries | insert, lookup, sort, join, merge, clean, free | one row per key, holding the aggregate |
| sorting | `src/list_sort.c`, `src/heap_sort.c` | - | `list_sort`, `heap_sort` | a sorted permutation |
| memory heap, use | `src/memheap.c` | key and value lists, options, sorted, read_cursor | `lnf_mem_fadd`, `setopt`, `first_c`, `next_c`, `lookup_c`, `read`, `read_reset`, `clean`, `free` | a scan returns every row once, in order |
| files | `src/libnf.c` | the open file, block buffer, extension maps, exporters, the library-wide filter mutex | `lnf_open`, `lnf_read`, `lnf_write`, `lnf_close`, `lnf_info` | what is written is read back, at any time, by whoever has the path; the mutex is released on every path |
| records, fields | `src/libnf.c`, `src/fields.c` | the record, its extension bits, the table of fields | `lnf_rec_init`, `fget`, `fset`, `get_raw`, `set_raw`, `copy`, `clear`, `free` | what is set arrives, whatever way it goes, and nothing else |
| memory heap, set-up | `src/memheap.c`, `src/fields.c` | key and value lists with offsets, sort field, statistics and fast mode | `lnf_mem_fadd`, `lnf_mem_fastaggr` | rows are laid out as the lists say, in any order of calls; keys and totals are those of the records |
| filter | `src/lnf_filter.c`, `src/ffilter/` | expression tree | init, match, free | match agrees with the expression; every node is freed once |
| nfdumpp | `bin/` | shared list of files, outputs, counters | `main`, `process_thread`, outputs | every record of every file reaches every output once; the program ends |
| perl binding | `perl/` | the table of instances, an object per variable | `new`, `query`, `fetchrow`, `create`, `storerow`, `clonerow`, `finish`, `DESTROY` | one instance per object; a query gives its answer whatever other objects do |
| libnf-info, vendored nfdump and xxHash | `src/libnf-info.c`, `src/xxhash.c` | - | - | not modelled |

Interaction: `process_thread` of `nfdumpp` opens files, reads records, matches the
filter and writes into the heap; every thread then calls `lnf_mem_merge_threads`
and the main thread scans table 0 into an output, one of which writes into the ring
buffer. The ring uses the raw record format for its entries. Shared state is
the shm segment (between processes), `lnf_mem_t` and the file list (between
threads), a mutex in `libnf.c` and another in `lnf_filter.c`.

The hard behaviours are: copying in and out of ring entries outside the lock;
writers and readers that die anywhere; a timeout that decides a reader is dead;
a merge protocol in which threads change each other's tables holding no lock; and
allocation failures in the middle of it. They are listed line by line under
`hazards` in `PROJECT.json`.

## Modules

| module | what it is |
|---|---|
| `RingLog` | abstract specification of the ring: writers append to a log, a reader walks through it, skipping what it was too slow for |
| `RingBuf` | `lnf_ring_read` and `lnf_ring_write`, critical section by critical section |
| `RingBufProofs` | theorems about `RingBuf`, including that it implements `RingLog` |
| `MCRingBuf` | `RingBuf` for TLC |
| `MemMerge` | the threads of one memory heap, from their first write to the end of the merge |
| `MemMergeProofs` | theorems about `MemMerge` |
| `MCMemMerge` | `MemMerge` for TLC |
| `FlowTable` | abstract specification of a heap: a bag of rows to which records are added |
| `ListSort`, `HashTable` | the sort and the table as operators on sequences and records |
| `MemHeap` | a heap used by one thread: writing, sorting, scans, lookup, clean |
| `MemHeapProofs` | theorems about `ListSort` and `MemHeap`, including that it implements `FlowTable` |
| `MCMemHeap` | `MemHeap` for TLC |
| `RingLife`, `MCRingLife` | `lnf_ring_init`, `lnf_ring_free`, `lnf_ring_lock`: name, segment, count and mutex |
| `RingLifeProofs` | theorems about `RingLife` |
| `Fields` | the fields of a record as a table and two operators |
| `RecRaw` | records: allocation, setting, copy, the raw form |
| `RecRawProofs` | theorems about `RecRaw` |
| `MemFields` | setting up a heap's fields; a record's way into a row and back |
| `Records`, `MCRecords` | the composition of `RecRaw` and `MemFields` |
| `NfFile`, `MCNfFile` | files: open, read, write, info, close |
| `NfFileProofs` | theorems about the mutex, about what is in a file and what a reader gets of it |
| `NatFacts` | induction and recursion over the natural numbers, in the form the proofs need |
| `FfValues` | literals and comparisons of the filter |
| `FFilter`, `MCFFilter` | its parser, tree, evaluation and heap |
| `Nfdumpp`, `MCNfdumpp` | the program from its command line to its summary |
| `PerlNf`, `MCPerlNf` | objects of the Perl binding |
| `PerlProofs` | theorems about who owns an instance, what is stored, and what a query answers |

Operators described in a comment as a *mutant of* something are small faulty
variants used to confirm that a property notices a plausible bug; no specification
uses them.

### RingBuf

Every region between `lnf_ring_lock` and `pthread_mutex_unlock` is one action; what
happens outside the lock is a step of its own.

| action | code |
|---|---|
| `ReadCall`, `ReadEof`, `ReadEnter` | `lnf_ring_read` up to the first unlock; `num_readers` is incremented |
| `ReadCopy` | `lnf_rec_set_raw`, without the lock |
| `ReadTest`, `ReadAdd`, `ReadStore` | the three reads of `ent->sequence`, without the lock: for the test, for lost_counter, for last_read_sequence |
| `ReadLeave` | `num_readers` is decremented; read_pos moves after LNF_OK only |
| `WriteCall`, `WriteSpin`, `WriteEnter` | `lnf_ring_write` up to the entry being marked WRITE, with the dead-reader timeout |
| `WriteFill` | `lnf_rec_get_raw`, without the lock |
| `WriteFail`, `WritePublish` | the second critical section |
| `ReaderCrash`, `WriterCrash` | a process dies between two critical sections; a writer is started again |

An entry that a writer has taken holds `Garbled` until the copy is complete, so a
reader that overlaps with it is seen to deliver garbage. A writer may count
`StuckLimit` polls only while some reader really stays in the entry (`Stalled`):
dead, or slow if the instance says so. That is the reading of the constant's
comment, 10000 polls of 10 microseconds against one copy of at most a kilobyte.

`overrun` is history: the readers in whose entry a record was published while they were
between their two critical sections, which takes a writer that has stopped waiting for them,
or two writers. The three reads of `ent->sequence` may then give different numbers, and a gap
may be stepped over between the test and the store. `LossIsReported` is about all other
readers; `EveryLossReported` is the documented promise for all of them, which the code does not keep.

Abstractions: a record is one value; `long` sequence numbers do not overflow;
`lnf_ring_lock` always succeeds and a process dies between critical sections, not
inside one: what happens otherwise is `RingLife`'s part.

### MemMerge

`Write` covers `lnf_mem_write` up to the thread's id, `ThreadInit` the critical
section of `lnf_mem_thread_init` and the creation of the table, `WriteEnter` the
unlocked assignment of WRITE, `WriteInsert` the insertion. `MergeCall`,
`MergePoll`, `MergeRow`, `MergeFail` and `MergeDone` are `lnf_mem_merge_threads`:
a poll that finds nobody changes nothing and is not a step. `hash_table_merge` moves
one row at a time, since another thread may run in between; `hash_table_join` is a
single step. `Exhaust` is memory running out: from then on every allocation may
fail. `list_mode` is chosen once.

Rows are tokens. What two rows with the same key do to each other belongs to the
hash table, not to the protocol. In statistics mode `lnf_mem_write` inserts twice;
the model has one row per call. The failure of `calloc` in `hash_table_init` is left
out: the thread then has an id but no table, and its next write runs on
uninitialised memory. Threads write first and merge once, as `process_thread` does.

### HashTable, ListSort, MemHeap

A table is a record: the rows by address, the chain of every bucket, and the list of
all rows. `ListSort` is the merge sort round by round, with the runs, the comparison and
the end of the loop as in the code; a merge takes one element at a time (`Taken`). Addresses are numbers and freed ones are used
again. Three keys share two buckets, so one chain has two rows.

`Write` and `WriteRaw` are whole calls, `InsertKeys` inserting under one key or both
keys of a pair and stopping where malloc fails. `First` is `lnf_mem_first_c` with the
recalculation and the sort it makes the first time; `Next_c` is `lnf_mem_next_c`. The
deprecated `lnf_mem_read` is `Read` on the heap's own cursor, `Scan` is a caller's
loop on a cursor of its own, both at once. A read through a cursor whose row was
freed by `lnf_mem_clean` may go anywhere (`Next_c`). `todo`, `skipped` and `phase` are
history: what a scan still owes, the row `lnf_mem_read_reset` put the cursor on, and whether
the heap was written after it was sorted. A scan that begins with a reset owes every row, and
`lnf_mem_read` goes behind the first one: `ScanComplete` names that row (`skipped`), and
`ResetBeginsAgain` is the promise without it. `ScanOrdered` is the documented order of
LNF_SORT_ASC and LNF_SORT_DESC for all fields but addresses; `AddressesOrdered` is the same
for addresses. The code keeps neither of these two.

`FlowTable` is what all this has to amount to: a bag of rows in which the row of a
key grows, or in list mode one row more, and an answer that says whether the whole
record was counted. `RefinesFlowTable` maps the list of rows to that bag.

A conversion of a record to key and values is one record with a key for each half of
a pair; masking of addresses and alignment of times is part of the key. The values
are two sums and one field calculated from them; minimum, maximum and OR are
aggregated in the same place and the same way. Records have packets: without any the
bytes per packet are uninitialised memory (see hazards).

### RingLife

One name, and everything that happens to it: `shm_open`, `ftruncate`, `mmap`, the
mutex's initialisation, each access to `conn_count` (read and write are two steps),
`shm_unlink`. `TryLock`, `Poll` and `GiveUp` are `lnf_ring_lock`, whose result no
caller looks at. An access before the creator's `ftruncate` is a bus error: the
process dies. A process may be killed between any two steps and leaves the count and the
mutex as they are. `spoilt` is the set of segments whose lock was given up on, or
whose mutex was initialised while somebody held it; `split` says that a name was
removed from a ring in use: by FORCE_INIT, by the last user of an older ring, or
by a leaver just before somebody attached. The two properties say that nothing else
breaks the ring. What is done with the ring is `RingBuf`'s part and one critical section
here. LNF_RING_FORCE_RELEASE is stored and never used by the code, and so by the model.

### Fields, RecRaw, MemFields, Records

`Fields` is `lnf_fields_def` with, for each field, its type, the place it is kept in,
its extension bits, and what it is calculated from. A value is two parts, the lower two
bytes and the rest: enough to see fields of different width write over one another.

`RecRaw` has `lnf_rec_init` piece by piece, with each malloc refused (`RecInitStep`, `RecInitFail`); `RecFset` and `RecRead` fill a
record, `RecGetRaw`, `RecSetRaw` and `RecCopy` send it, through buffers of several sizes. `MemFields` has
`lnf_mem_fadd` with its recursion into dependencies, `lnf_mem_fastaggr`, and the
conversions between records and rows. `Records` composes them as `nfdumpp -A ... -w ring`
does: row, record, raw form, record of another process, key of another heap. What becomes
of the rows is left to `MemHeap`. Excluded in the properties, and said there: the family
and the interface's upper bytes in the raw form (`Altered`), keys that are calculated
from other fields (`OwnKeys`), fields that are key and value at once (`Apart`). A call of
`lnf_rec_get_raw` with a buffer that is too small has no effect in the model; the code has
written the record behind the buffer before it looks at the size (`libnf.c:1255`, 1260).

### NfFile

A writing and a reading thread of one program on one path, under which other programs
put files of their own. Calls are steps except where they do something another thread or
process can see in between: `lnf_open` is the file, the mutex, the filter engine;
LOOP reading is `stat`, then `OpenFile`. A block is written to disk atomically. nfdump's
functions are modelled from their use. A foreign file has all that `lnf_read` knows and
does not know: maps of other numbers, records of nfdump 1.5, unknown entries and blocks.
What malloc leaves in `inode` of a handle is a choice (`Unset`), because `lnf_open` never
sets it. A block is counted in the header of the handle when it is written, and the header
goes to the file with `lnf_close`, for LNF_WRITE only: after a handle opened with LNF_APPEND
alone it stays behind the blocks, and `InfoAgrees` claims the count of flows only
where it is not. `ReadsFaithful` counts what is owed by places in the file: one answer
for each record, unknown entry and unknown block before the reader's place. `told` and
`misled` are history: how many answers the reader had for this same file before it was
reopened, and whether the inode in the handle was ever that of no file it has opened or of
another one. `ReadsFaithful` says that a file is given once unless the reader was misled;
`EachOnce` is the same without that condition, and does not hold. A data block of no entries
sends blk_record_remains to -1: what is read then is undefined, and the behaviour ends
(`LoadEmptyBlock`). A record counts as one flow (`Account`), where the code adds its
aggr_flows. Left out: files cut short under a reader, a block that cannot be read
(LNF_ERR_READ), the counters processed and skipped.

### FFilter

The reductions of the grammar are actions, so every expression is some sequence of them;
each builds nodes as `ffilter.c` does and keeps, beside the subtree, what the text means.
The meaning is the reference definition `EvalAgrees` compares `ff_eval` with. The heap is
explicit: nodes are allocated, keep old contents, and are freed. `Spec` is one filter in
memory new to the process, which is zero; `SpecAgain` compiles filters one after the other
in the memory the last ones left, and is where the opcode that `ff_new_node` does not set
goes wrong: what holds of a filter is claimed for the first one only. `Settled` names where
the meaning is not settled: IN and MPLS against missing data, addresses
with an empty mask. "flags X" is 511, which an 8-bit field never equals: that is what the
meaning says, too. Numbers are scaled (2^64 to 4096, octets to one bit).

### Nfdumpp

`main` parses options one at a time, builds the list of files, starts the threads, joins
them, and prints output by output; `process_thread` takes a file under the mutex, reads,
matches and writes to every output. The filter is the v1 engine: one record pointer for
all threads, two steps under a mutex. A heap's folding is one step per thread, because
`MemMerge` has the protocol. After an error of `lnf_read` the loop goes on with the
record it had. Known to go wrong, and excluded by name in the properties: directories
with an entry that cannot be found, bad records, no threads at all (`Readable`), a sort
field that is not one of the aggregated ones (`SortedByItsOwn`), rows streamed to a ring,
which are never counted (`RowCounted`). `-o nfdump` ends the program (`Refused`), though the
usage lists it (`nfdumpp.c:302`); `-w` gives that output. `-n` limits aggregated and sorted
output only (`EachMatchOnce`), which the usage (`nfdumpp.c:304`) does not say. A bad record takes one place in its file; an
error of `lnf_read` that stays, with which the loop at `nfdumpp.c:96` never ends, is not modelled.

### PerlNf

A Perl program has one thread, so a method is a step; a call that croaks may be caught
and leaves what it had done. Two variables hold objects that are finished, destroyed and
used after that. A handle is given out again as soon as it is free (`FreeHandles`:
neither 0 nor the last one); `abused` ends a behaviour when the variable of a finished
object reaches somebody else's instance. Two queries, two rows stored, eight kinds of
options: a filter, several files of which one may be missing, not readable or being the
output of the other object, aggregation with and without a number of bits, sorting alone,
a broken filter, an output that cannot be created; one of the files has an entry that makes
the call that reads it croak (LNF_ERR_CORRUPT, LNF_ERR_READ). What is known to go wrong is listed
in the comments of the properties (`Sound`, `tainted`, `unopened`). Bounds: no query while rows
of a heap are being fetched or on a file that is being written. The time window has no
effect in the code. A full table of handles is in the model but out of reach of the run.

## Runs

| run | expected | shows |
|---|---|---|
| `ring_one_writer` | pass | with one writer, killed and restarted at any step, and failing conversions: the ring implements the log, entries have one user, `num_readers` is exact, the newest records stay readable |
| `ring_live` | pass | with readers dying or dawdling anywhere: writes return, live readers catch up, losses are reported (but for `overrun`), published records stand |
| `ring_two_writers` | violation | two writers take the same entry, against the statement of `libnf.h` |
| `merge_threads` | pass | hash and list mode, three threads, memory running out at any time: one user per table, nothing lost, table 0 complete, every thread returns while there is memory |
| `mem_heap` | pass | one heap in aggregation, statistics and list mode: it implements `FlowTable`, also when malloc fails; lookups find every row, scans are complete but for the row a reset skips, and in the documented order but for addresses |
| `ring_life` | pass | processes come, force, go and are killed: which events alone break the mutual exclusion or split the ring; every call returns |
| `records` | pass | records of every kind of field through the raw form, copies, rows and rows in the raw form: what arrives is what was sent; lists consistent in any order of calls and with memory running out |
| `nf_file` | pass | a file written, appended to, replaced, removed and read at once: always sound, read faithfully and once unless misled by an inode, the mutex returned, a LOOP reader gets all there is |
| `filter` | pass | every expression of up to three leaves: the tree matches what the text says, every node is freed once |
| `filter_again` | violation | a second filter loses a NOT because of what a freed node left in memory |
| `nfdumpp` | pass | two or three threads, up to two outputs: every match is shown once by every output, the summary is right, the program ends |
| `perl_objects` | pass | two objects used in any order, also after they are finished: queries are answered, rows stored as given, instances owned |

**Bounds.** `Size` is 2: an entry before and after the one in use, and a ring that
wraps twice within `MaxSeq` = 4 records, so that a reader can be overtaken more than
once and by a whole turn. `StuckLimit` is 1, which gives a poll below, at and above
the limit. Two readers show the difference between counting and flagging, two
records show which one was delivered. Three threads are the fewest for which a
merge target can itself be waiting for a target; two rows let a merge be
interrupted between rows. `MaxSeq`, `MaxRows` and `MaxStuck` only end the
exploration and appear in the guards of `WriteCall`, `Write` and `WriteSpin`.

Four writes into a heap give lists of up to four rows (up to three in aggregation
mode): the sort then has one to three passes, with short and missing runs. The
configurations of `MCMemHeap` are a key, an address, a sum, a calculated field and no
field to sort by, both directions, and each mode; one clean shows what survives it.

*ring_life*: two processes, one of them forcing, four calls of `lnf_ring_init` and two
uses of the ring: the name can be removed and created again while an older ring is still
held, and one process killed leaves a mutex and a count for the others. *records*: three
calls that set up fields and two records in a row, from a table with one field of every
kind; two fields set, in both orders. *nf_file*: `Limits` is either three records written
and two opens of the writer, or two files under the path with one call of each thread;
blocks of two entries end before, between and after a record and its map, inode
numbers 1 and 2 come up again, and a handle holds 0 or 2 to begin with. *filter*: depth 2 gives NOT over
AND over OR; eight nodes hold a list of two and a pair; one comparison for every type and
every way to write a value. *nfdumpp*: 23 command lines; four files, one of them with
a bad record, and directories in which they are found again. *perl_objects*: above.

**Deadlock** is checked for the heap of one thread only: elsewhere the end of the
exploration, or of the program, leaves nothing to do. That somebody waits forever is what
the liveness properties exclude.

**Fairness** is weak fairness for each process inside a call, and for a reader
calling again. Both sides of the ring poll with `usleep` under a mutex held for a few
instructions, so a process that can go on eventually does. No fairness is assumed
for crashes, for memory running out, or for a writer calling again. A thread of the
heap has finitely many records and then merges. `ring_life`: a process inside a call goes
on; it need not make another. `nf_file`: a thread inside `lnf_open` goes on, a reader
goes on and calls again, as a LOOP reader is meant to; writes, and other programs, need not.
`nfdumpp`: main and each thread go on.

## Proofs

All theorems hold for every value of the constants allowed by the `ASSUME`s of the
modules: any ring size, any number of records and of (finitely many) readers and
threads.

*RingBufProofs.* `TypeCorrect` needs nothing. The theorems of the first part assume `OneWriter` (no two
different writers) and `PatientReaders` (no reader is dead or slow). Neither can be
dropped: `ring_two_writers` violates the refinement, and a reader that is written off
for dead takes live ones with it, because the count is reset for all of them.
`NoOverlap` is not inductive. `RingInv` adds: no writer has passed the stuck limit;
a working writer owns the entry at write_pos, which is marked WRITE and holds its
record once filled; what is READ is exactly what was published under that sequence
number; a reader that counted itself in still finds an entry that is ready for it.
From it follow `NoOverlapHolds`, `ReadersCountedHolds` and `RingImplementsLog`: the
refinement maps a reader's cursor to last_read_sequence, or, once the record is copied and
until that is stored, to the sequence of the entry (`Cursor`); only `WritePublish` and `ReadCopy` take
abstract steps. `CursorKept` is why the rest does not: no entry is published anew while a
reader is inside.

In the second part readers may be dead or slow. `LossIsReportedHolds` needs no
assumption on the writers either. `LossInv` adds that no entry carries a sequence beyond
last_write_sequence, that what a reader is copying is newer than what it has read unless it was
overrun (`CopiesNewer`), and what the counters amount to at each of the steps of `lnf_ring_read`
(`Accounted`): the gap is added before last_read_sequence moves over it. A reader that was not
overrun has read the same sequence three times, so what it added is at least what it missed. `WindowIntactHolds` assumes
`OneWriter`: `WindowInv` adds that write_pos is last_write_sequence modulo Size and that
a writer at work marks that entry only, which is the one the window can spare. It rests
on five lemmas on remainders (`Division` to `TurnsApart`): `lnf_ring_next` is the step
from one remainder to the next, and two records less than a turn apart never share an
entry.

*MemMergeProofs.* Three layers. `RegInv`: ids are unique, dense and below
numthreads, so a table has one owner. `HandInv`: thread_status agrees with where
the owner is (inserting: WRITE; merging: its own MERGED, its target MERGING), and
no two threads have the same target. It gives `ExclusiveTablesHold` in all modes.
`RowInv`: every acknowledged row is in exactly one table, tables without an owner
are empty, so is the table of a thread that has merged, and in list mode a table
with rows knows its last row and a thread that joins brings one. The last part is
what an allocation failure breaks. It gives `NothingLostHolds` and
`ResultCompleteHolds`.

*RingLifeProofs.* `LifeInv` says that whoever is inside a critical section of a segment
that is not spoilt holds its mutex; mutual exclusion follows since a mutex has one holder.
It is inductive with the types alone because the code that runs without the mutex is
exactly what puts the segment into `spoilt`. `OneInvariant` is what `OneRing` needs: the
processes a segment counts are set against those that are attached, process by process.
every call creates at most one segment (`Placed`); the attached set of a segment is the processes
counted there and those that died there (`Attached`); conn_count is their number
(`CountRight`, `CountIsAttached`: its read and its write are two steps, so this is what mutual
exclusion is for); so the last one to leave is the last, and while no name was taken from a
ring in use everybody is where the name leads (`Together`). The theorems assume nothing of the number
of processes, calls and kills.

*NatFacts.* The library's induction takes an operator as a parameter, which no installed
prover can instantiate. Here the numbers a claim holds of are a set (`NatSetInduction`), and
the values a step may lead to are a family of sets (`StepByStep`); so induction over data is
possible where the recursive definition is a function.

*MemHeapProofs*, the sort. Everything is for any list and any comparison that follows a total preorder of
keys. `MergedMerges`: the merge of two ordered runs has the elements of both and is ordered.
`PassSorts`: a round makes ordered runs of twice the length. `RoundStep`: the code's test for
the end is true exactly when one run covers the list, and `ListSortSorts` and
`ListSortPermutes` follow. That lnf's callback is such a comparison, for each sort field and
direction the model has, is `CallbackFollows`.

*MemHeapProofs*, the heap. `IInv` is typing; `TableInv` (the list has every row once; a chain has
exactly the rows of its bucket; no key twice); `IdInv` (thread_status and the id tell a table
that was never made from one that was); `CursorsInv` (a cursor is on a row of the list, and
what a scan still owes is what comes after it and the row a reset skipped, which are apart); `PhaseInv` (before the first clean, a heap
that was not read yet is not marked sorted); `ScanFollows` (a heap being read is in the order of
the sort callback, addresses included, from which the documented order of the others follows). Each is needed by
another: a lookup finds its row by the chains, a scan is complete because no sort moves the
list under a cursor, which needs the mark to be right. From it follow `HeapTypeOK`,
`HeapLookupFinds`, `HeapScanComplete`, `HeapScanOrdered` and `HeapRefines`: the list as a
bag does not depend on its order (`ListCounts`), so sorts and scans stutter; an insertion adds
a row or makes one grow (`FlowAdded`, `FlowReplaced`), which is `FlowTable`'s `Put`, for each
key of a record and up to where memory ran out. Assumed: records have packets
(`RecsAssumption`), the bounds of the configurations (`ConfigsAssumption`), at least one bucket.

*NfFileProofs.* `MutexInv`: whoever is inside a critical section holds the mutex. It gives
`MutexHeldInside` and, whatever an early return has left behind, `CriticalExclusive`.
`FileInv` says what the writer's handle knows about its file: its maps and exporters are the
newest of their numbers in the file, each exporter is listed once with the number of records
it was given. Without that a record would not find its map after any number of other entries.
The proof goes from one entry put behind the others (`Extends`), whose map and exporter are
looked up among what comes before, to a whole call (`StateSound`: the calls may end in a
flushed block, or halfway for want of memory) and to the steps of the system, where a foreign
file, an append and a close may come at any time. `FilesSound` is the result, for any blocks,
bounds, flags and files of other programs.

*NfFileProofs*, the reader. `ReadsRight`, for every file of another program and every interleaving.
`ReadsFaithful` is about what was answered; it becomes inductive with `ReadInv`: the reader
has come to a place (`Cursor`), the answers are those owed before it (`Answered`), the
newest extension map before it is in its slot (`SlotsRight`; without that the next record's
answer would be anything), the block in the handle is the one in the file (`InBlock`), and a
header, in a file or in a handle, that counts all blocks counts all records
(`HeadersRight`). Two things are proved about it. A step of the reader moves the place over
one entry or one block, and the answer, if there is one, is the right one (`MovesBlock`,
`MovesEntry`, `AnsweredThen`, `SlotsThen`, `RecordRight`). What anybody else does to the
file leaves the blocks that are there as they are, and then nothing that is before the place
changes (`KeptBefore`, `KeptSound`); that the writer's steps are of this kind comes from
the first part. That no file is given twice to a reader that was not misled is `OnceInv`: such a
reader's handle has the inode of its file, or none, while that file is under the path, so it
never comes to reopen it; and a file that left the path does not come back to it
(`OnceKept`, `OnceReopened`). Foreign files are any sequences of blocks of entries with
numbered maps; a data block of no entries is where a behaviour ends.

*RecRawProofs.* The theorems are about `RawSpec`: records the program sets and records of
files. `RawInv` says that what is under way is the raw form of the record as it was, and the
other record what `lnf_rec_set_raw` or `lnf_rec_copy` makes of it; the work is in what these
operators do (`RoundTrip`, `CopyAnswers`). The tables of `Fields` are looked up once, row by
row, and reduced to what is used of them. `RowFits`: a field is as wide as the place it is
kept in, but for PAIR_IF; what is kept in a place of its own is a field. `AccessFits`: a setter
sets bits its getter looks at, and places that share a bit share all, but for the
sequence failures of an exporter. The walk over the entries then keeps `Toward`: what has been
written is as in the record that was sent, though the buffer holds upper bytes of the entry
before (`TakenRight`), and every bit that is set belongs to something sent, which is why nothing
is invented (`Sharing`, `NoneInvented`). That the family follows the source address is due to
the last field, PAIR_ADDR_ALIAS, which is always set. For `InitReleases` the pieces got are
those before the one refused (`PiecesInOrder`). Assumed (`RecRawAssumption`): the fields are
those of the table and values are two natural numbers; setters and files give narrow
fields narrow values (`Fit`). `RawInv` holds on an instance with all fields, too.

*PerlProofs.* The loops of `libnf_read_row_files` and `libnf_read_files` come first, since an
instance whose list of files is gone must not be read again: `Todo` counts the files and
entries that are left, every turn that goes on leaves less (`ReadTurnIs`, `FillTurnIs`), so
both loops end, and with the list in hand unless they have come to its end (`ReadRowIs`,
`FillMemIs`). `PerlType` is typing. `Owners` is what `HandlesOwned` needs to be inductive: an
object that is not open is not prepared for anything; one that may fetch has a heap or a list,
one that may store has a file, or no file could be created; so no step of an object that is not
finished kills the process. `Upon` adds to `StoredAsGiven` the record in hand, which is the
one the next row is stored upon, unless the object has read rows itself or a bad row was
refused. A step of an owner is one lemma (`OwnerMoves`); a step of a finished object may
reach another one's instance, and of that only the types are proved.

`QueryAnswers` speaks of the end of a query; its inductive form, `Answering`, says how far it
is. Without a heap (`ByList`), the rows fetched are those of the first records that are wanted,
and `Rest`, the records that pass in what is left of the open file and of the list, are the
others: a turn of the loop takes either nothing or the first of them (`TurnRest`), hence so
does `libnf_read_row_files` (`RowRead`), and at the end of the list none is left. With a heap
(`ByHeap`), all that is wanted has been written to it, since a turn of `libnf_read_files` moves
the first record that is left to the heap (`FillTurnIs`); the rows fetched are those of the
classes that were returned, no two alike (`RowsDiffer`), and the row of a class is the total
that is asked for (`RowIsTotal`). The rest is needed because objects share the disk and the
table: a file that is written is not read (`Unread`), so that what is left stays left while
others create and close files (`SameDisk`); a heap that was not asked for is empty
(`MemsClear`); and the fields of an object are those it was made with, or these without their
numbers of bits. The records of a list of files are put together by `FlattenSeq`, which is
defined by recursion; the lemmas under *Sequences put together* say what it gives for a list
with one file more, by an induction in the form of `NatFacts`. `Inv` and `Answering` hold on
the instance of `perl_objects` too.

Assumed (`PerlAssumption`): there are handles; `Disk` is finite and its files are sequences;
Null is no path, list or number; files, fields and outputs in the options are of their types;
and an aggregated query asks for the address and the number only (`RowOf` leaves the other
fields of a heap out). `Sound` excludes what is known to go wrong and is explained at
`QueryAnswers`; an aggregated query with an address cut in two ways is among it, since the
heap takes the last of them.

Only model-checked: liveness everywhere (with ENABLED it is out of the prover's reach);
`RecommendedSize` of `RecRaw`, a sum over a set of fields that says something about one table
and one number, which TLC computes; `MemFields`, `Records`, `FFilter` and `Nfdumpp`. `MemFields`
(and with it `Records`, where a row is sent on) and `FFilter` reach `Bitwise`; `FFilter` and
`Nfdumpp` have recursive operators (trees, folds over options and files).

## Findings and known divergences

Two have runs whose counterexamples show them, and entries in `PROJECT.json` that quote the
documentation: writers that share a ring overwrite each other (`ring_two_writers`,
`include/libnf.h:957`), and a filter that loses a NOT (`filter_again`,
`src/ffilter/README.md:51`).

The following are stated as definitions of the modules, known not to hold, and not run:

| definition | what the code does |
|---|---|
| `EveryLossReported` (`RingBuf`) | an entry published anew under a slow reader, between the reads of its sequence, hides what the reader missed (`include/libnf.h:981`, `src/lnf_ringbuf.c:170` to 174) |
| `LostIsExact` (`RingBuf`) | lost_counter is two too high for every gap (`include/libnf.h:981`) |
| `EofMeansDrained` (`RingBuf`) | LNF_EOF with newer records in the ring (`include/libnf.h:999`) |
| `MergeAnswers` (`MemMerge`) | after a failed merge another thread polls forever |
| `JoinsAllLists` (`MemMerge`) | joining an empty list after a failed write costs rows |
| `IdsInBounds` (`MemMerge`) | the thread limit is off by one |
| `ResetBeginsAgain` (`MemHeap`) | a read after `lnf_mem_read_reset` skips the first row (`include/libnf.h:918`, `src/memheap.c:1082`) |
| `AddressesOrdered` (`MemHeap`) | LNF_SORT_ASC descends for addresses (`include/libnf.h:753`, `src/memheap.c:641`) |
| `CleanLikeNew` (`MemHeap`) | after `lnf_mem_clean` the heap is taken for sorted |
| `InterfaceSurvives` (`RecRaw`) | the raw form takes the interface's upper bytes from the entry before |
| `EachOnce` (`NfFile`) | `lnf_open` does not store the inode: a LOOP reader may reopen its unchanged file at the first end and give all records again (`include/libnf.h:351`, `src/libnf.c:847`) |
| `FollowsReplacement` (`NfFile`) | for the same reason a LOOP reader whose file is replaced before it gets to the end need never reopen |

Others are modelled as they are and named where they show: raw writes after a clean stay
invisible (`WriteRaw`), a data block of no entries makes the reader run on through what its
buffer held (`LoadEmptyBlock`), a handle opened with LNF_APPEND alone loses its last block (`AckedKept`), `lnf_open` keeps the mutex when it
returns early (`broken`), a failed malloc in `ff_branch_node` frees leaves twice
(`HeapSound`), IPv6 prefixes of up to 8 bits are refused (`FfValues`), of two numbers after a name that ends
in 6 the second is not read (`FldParse`), `-o nfdump` is refused (`Refused`), records before an error are counted twice
(`ReadRow` of `PerlNf`, `Read` of `Nfdumpp`).

## Not modelled

libnf-info and literals (they print tables), the layout of an output line, progress bars,
`heap_sort` (never called), nfdump's block I/O, filter engine and xxHash (third-party; modelled
from their use), the lexer and the parser's tables (generated), in the Perl binding the
conversion of values, `info` and `file_info`. `hash_table_init` that fails leaves a thread
with an id and no table; its next write runs on uninitialised memory, of which no state of a
model can say anything. Truncation of a file under its reader is nfdump's part.

## What is left to do

`Nfdumpp` and `MemFields` with recursive functions in the place of their recursive and
bitwise operators, and what can then be proved of them; the hashref methods of the Perl binding.
