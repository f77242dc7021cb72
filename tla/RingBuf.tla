------------------------------ MODULE RingBuf ------------------------------
(***************************************************************************)
(* The data path of the shared-memory ring buffer (src/lnf_ringbuf.c):     *)
(* lnf_ring_write and lnf_ring_read run by separate processes over one     *)
(* segment of Size entries.                                                *)
(*                                                                         *)
(* Every region between lnf_ring_lock and pthread_mutex_unlock is one      *)
(* action.  What the code does outside the lock is a step of its own: the  *)
(* writer fills the entry it has marked WRITE, the reader copies the entry *)
(* it has counted itself into.  Everything a process reads before an       *)
(* unlock and uses after it (ent, last_read_sequence) is kept per process. *)
(*                                                                         *)
(* Handles are taken after lnf_ring_init: calloc and ftruncate leave every *)
(* counter at zero and every entry EMPTY.                                  *)
(***************************************************************************)
EXTENDS Integers, Sequences, FiniteSets

CONSTANTS
  Writers,      \* processes (or threads) that call lnf_ring_write
  Readers,      \* processes (or threads) that call lnf_ring_read
  Blocking,     \* the readers opened without LNF_RING_NO_BLOCK
  Records,      \* contents of a record
  Garbled,      \* contents of an entry that somebody is filling
  Size,         \* LNF_RINGBUF_SIZE
  StuckLimit,   \* LNF_RING_STUCK_LIMIT
  Faults,       \* what may go wrong in this instance, a subset of FaultKinds
  MaxSeq,       \* bound: no write starts once this many records are published
  MaxStuck      \* bound: ring->stuck_counter saturates here

(***************************************************************************)
(* get_raw, set_raw : the conversion of a record to or from TLV fails      *)
(* reader_crash     : a reader process dies, wherever it is                *)
(* writer_crash     : a writer process dies and is started again           *)
(* slow_reader      : a live reader may stay in an entry for longer than   *)
(*                    StuckLimit polls of a writer                         *)
(***************************************************************************)
FaultKinds == {"get_raw", "set_raw", "reader_crash", "writer_crash", "slow_reader"}

ASSUME SizeAssumption   == Size \in Nat \ {0}
ASSUME BoundsAssumption == StuckLimit \in Nat /\ MaxSeq \in Nat /\ MaxStuck \in Nat
ASSUME ProcsAssumption  == /\ IsFiniteSet(Readers)
                           /\ Blocking \subseteq Readers
                           /\ Faults \subseteq FaultKinds
ASSUME DataAssumption   == Garbled \notin Records

Slots == 0 .. Size - 1

VARIABLES
  \* the segment, lnf_ring_shm_t and its lnf_ring_entry_t
  status, num_readers, sequence, data,      \* per entry
  write_pos, last_write_sequence,
  \* the readers' handles, lnf_ring_t
  last_read_sequence, read_pos, lost_counter, total_counter,
  \* where each reader is in lnf_ring_read, what its record holds, what it returned
  rpc, got, ret,
  \* where each writer is in lnf_ring_write, and its local variables
  wpc, ent, rec, stuck, stuck_counter,
  \* history: the records published so far, in order, and the readers in whose
  \* entry a record was published while they were between the critical sections
  log, overrun

entries == <<status, num_readers, sequence, data>>
shm     == <<entries, write_pos, last_write_sequence>>
reader  == <<last_read_sequence, read_pos, lost_counter, total_counter, rpc, got, ret>>
writer  == <<wpc, ent, rec, stuck, stuck_counter>>
history == <<log, overrun>>
vars    == <<shm, reader, writer, history>>

Init ==
  /\ status      = [i \in Slots |-> "EMPTY"]
  /\ num_readers = [i \in Slots |-> 0]
  /\ sequence    = [i \in Slots |-> 0]
  /\ data        = [i \in Slots |-> Garbled]
  /\ write_pos = 0 /\ last_write_sequence = 0
  /\ last_read_sequence = [r \in Readers |-> 0]
  /\ read_pos           = [r \in Readers |-> 0]
  /\ lost_counter       = [r \in Readers |-> 0]
  /\ total_counter      = [r \in Readers |-> 0]
  /\ rpc = [r \in Readers |-> "idle"]
  /\ got = [r \in Readers |-> Garbled]
  /\ ret = [r \in Readers |-> "none"]
  /\ wpc = [w \in Writers |-> "idle"]
  /\ ent = [w \in Writers |-> 0]
  /\ rec \in [Writers -> Records]         \* the caller's, set by every call
  /\ stuck         = [w \in Writers |-> 0]
  /\ stuck_counter = [w \in Writers |-> 0]
  /\ log = << >> /\ overrun = {}

\* mutants of RingNext: it wraps one entry late, one entry early
RingNextLate(i)  == IF i + 1 > Size THEN 0 ELSE i + 1
RingNextEarly(i) == IF i + 2 >= Size THEN 0 ELSE i + 1

\* lnf_ring_next
RingNext(i) == IF i + 1 >= Size THEN 0 ELSE i + 1
-----------------------------------------------------------------------------
(***************************************************************************)
(* lnf_ring_read                                                           *)
(***************************************************************************)

\* mutants of Ready: the sequence is not looked at; only the next one will do
ReadyAnySequence(r) == status[read_pos[r]] = "READ"
ReadyNextOnly(r) ==
  /\ status[read_pos[r]] = "READ"
  /\ sequence[read_pos[r]] = last_read_sequence[r] + 1

\* the entry at the reader's position holds a record it has not read yet
Ready(r) ==
  /\ status[read_pos[r]] = "READ"
  /\ sequence[read_pos[r]] > last_read_sequence[r]

ReadCall(r) ==
  /\ rpc[r] = "idle"
  /\ rpc' = [rpc EXCEPT ![r] = "wait"]
  /\ ret' = [ret EXCEPT ![r] = "none"]
  /\ UNCHANGED <<shm, last_read_sequence, read_pos, lost_counter, total_counter, got, writer, history>>

\* nothing to read and the handle does not block: LNF_EOF.  (A blocking
\* handle polls until the entry is ready, which changes nothing.)
ReadEof(r) ==
  /\ rpc[r] = "wait" /\ r \notin Blocking
  /\ ~ Ready(r)
  /\ rpc' = [rpc EXCEPT ![r] = "idle"]
  /\ ret' = [ret EXCEPT ![r] = "LNF_EOF"]
  /\ UNCHANGED <<shm, last_read_sequence, read_pos, lost_counter, total_counter, got, writer, history>>

\* count the reader in, under the lock
ReadEnter(r) ==
  /\ rpc[r] = "wait"
  /\ Ready(r)
  /\ num_readers' = [num_readers EXCEPT ![read_pos[r]] = @ + 1]
  /\ rpc' = [rpc EXCEPT ![r] = "copy"]
  /\ UNCHANGED <<status, sequence, data, write_pos, last_write_sequence, last_read_sequence,
                 read_pos, lost_counter, total_counter, got, ret, writer, history>>

\* lnf_rec_set_raw, without the lock: a copy that meets a writer at work is
\* garbled
ReadCopy(r) ==
  /\ rpc[r] = "copy"
  /\ \/ ret' = [ret EXCEPT ![r] = "LNF_OK"]
     \/ "set_raw" \in Faults /\ ret' = [ret EXCEPT ![r] = "LNF_ERR"]
  /\ got' = [got EXCEPT ![r] = data[read_pos[r]]]
  /\ rpc' = [rpc EXCEPT ![r] = "test"]
  /\ UNCHANGED <<shm, last_read_sequence, read_pos, lost_counter, total_counter, writer, history>>

(***************************************************************************)
(* The handle's counters.  ent->sequence is read three times without the   *)
(* lock; it is the same number each time unless the entry is published     *)
(* anew in between.  (A compiler may read it once for two of them, which   *)
(* is one of the interleavings.)                                           *)
(***************************************************************************)
ReadTest(r) ==
  /\ rpc[r] = "test"
  /\ rpc' = [rpc EXCEPT ![r] = IF last_read_sequence[r] + 1 # sequence[read_pos[r]]
                                THEN "add" ELSE "store"]
  /\ UNCHANGED <<shm, last_read_sequence, read_pos, lost_counter, total_counter, got, ret, writer, history>>

\* mutant of LostIncrement: counts gaps instead of records
LostIncrementGaps(s, l) == 1

\* what lnf_ring_read adds to lost_counter when it meets sequence s after l
LostIncrement(s, l) == s - l + 1

ReadAdd(r) ==
  /\ rpc[r] = "add"
  /\ lost_counter' = [lost_counter EXCEPT
       ![r] = @ + LostIncrement(sequence[read_pos[r]], last_read_sequence[r])]
  /\ rpc' = [rpc EXCEPT ![r] = "store"]
  /\ UNCHANGED <<shm, last_read_sequence, read_pos, total_counter, got, ret, writer, history>>

ReadStore(r) ==
  /\ rpc[r] = "store"
  /\ last_read_sequence' = [last_read_sequence EXCEPT ![r] = sequence[read_pos[r]]]
  /\ rpc' = [rpc EXCEPT ![r] = "leave"]
  /\ UNCHANGED <<shm, read_pos, lost_counter, total_counter, got, ret, writer, history>>

\* mutant of CountOut: a reader whose conversion failed stays counted
CountOutOnOk(r) ==
  IF ret[r] = "LNF_OK" THEN [num_readers EXCEPT ![read_pos[r]] = @ - 1] ELSE num_readers

CountOut(r) == [num_readers EXCEPT ![read_pos[r]] = @ - 1]

\* count the reader out under the lock; the position moves only after LNF_OK
ReadLeave(r) ==
  /\ rpc[r] = "leave"
  /\ num_readers' = CountOut(r)
  /\ IF ret[r] = "LNF_OK"
     THEN /\ read_pos' = [read_pos EXCEPT ![r] = RingNext(@)]
          /\ total_counter' = [total_counter EXCEPT ![r] = @ + 1]
     ELSE UNCHANGED <<read_pos, total_counter>>
  /\ rpc' = [rpc EXCEPT ![r] = "idle"]
  /\ UNCHANGED <<status, sequence, data, write_pos, last_write_sequence, last_read_sequence,
                 lost_counter, got, ret, writer, history>>

\* the process is gone; if it was counted into an entry, it stays counted
ReaderCrash(r) ==
  /\ "reader_crash" \in Faults
  /\ rpc[r] # "dead"
  /\ rpc' = [rpc EXCEPT ![r] = "dead"]
  /\ UNCHANGED <<shm, last_read_sequence, read_pos, lost_counter, total_counter, got, ret, writer, history>>
-----------------------------------------------------------------------------
(***************************************************************************)
(* lnf_ring_write                                                          *)
(***************************************************************************)

\* the live readers between ReadEnter and ReadLeave on entry i
Inside(i) == {r \in Readers : rpc[r] \in {"copy", "test", "add", "store", "leave"} /\ read_pos[r] = i}

\* a reader holds entry i for longer than a writer polls: it is dead, or slow
Stalled(i) == \/ \E r \in Readers : rpc[r] = "dead" /\ read_pos[r] = i
              \/ "slow_reader" \in Faults

\* mutant of Busy: off by one
BusyAtTwo(i) == num_readers[i] > 1

\* somebody is counted into entry i (the count may be negative)
Busy(i) == num_readers[i] > 0

\* mutant of WriteOff: the count is not cleared
WriteOffNobody(i) == num_readers

\* past the limit whoever is counted into entry i is taken for dead
WriteOff(i) == [num_readers EXCEPT ![i] = 0]

WriteCall(w) ==
  /\ wpc[w] = "idle"
  /\ last_write_sequence < MaxSeq
  /\ \E v \in Records : rec' = [rec EXCEPT ![w] = v]
  /\ stuck' = [stuck EXCEPT ![w] = 0]
  /\ wpc' = [wpc EXCEPT ![w] = "wait"]
  /\ UNCHANGED <<shm, reader, ent, stuck_counter, history>>

\* the entry is in use: poll again; past the limit the readers are written off
WriteSpin(w) ==
  /\ wpc[w] = "wait"
  /\ Busy(write_pos)
  /\ \/ /\ stuck[w] <= StuckLimit
        /\ stuck[w] = StuckLimit => Stalled(write_pos)
        /\ stuck' = [stuck EXCEPT ![w] = @ + 1]
        /\ UNCHANGED <<num_readers, stuck_counter>>
     \/ /\ stuck[w] > StuckLimit
        /\ stuck_counter' = [stuck_counter EXCEPT ![w] = IF @ < MaxStuck THEN @ + 1 ELSE @]
        /\ num_readers' = WriteOff(write_pos)
        /\ UNCHANGED stuck
  /\ UNCHANGED <<status, sequence, data, write_pos, last_write_sequence, reader, wpc, ent, rec, history>>

\* take the entry at write_pos; from here on its data is in flux
WriteEnter(w) ==
  /\ wpc[w] = "wait"
  /\ ~ Busy(write_pos)
  /\ ent' = [ent EXCEPT ![w] = write_pos]
  /\ status' = [status EXCEPT ![write_pos] = "WRITE"]
  /\ data' = [data EXCEPT ![write_pos] = Garbled]
  /\ wpc' = [wpc EXCEPT ![w] = "fill"]
  /\ UNCHANGED <<num_readers, sequence, write_pos, last_write_sequence, reader, rec, stuck, stuck_counter, history>>

\* lnf_rec_get_raw into the entry, without the lock.  When another writer
\* fills the same entry the two copies interleave.
WriteFill(w) ==
  /\ wpc[w] = "fill"
  /\ \/ /\ data' = [data EXCEPT ![ent[w]] =
                      IF \E v \in Writers \ {w} : wpc[v] = "fill" /\ ent[v] = ent[w]
                      THEN Garbled ELSE rec[w]]
        /\ wpc' = [wpc EXCEPT ![w] = "publish"]
     \/ /\ "get_raw" \in Faults
        /\ wpc' = [wpc EXCEPT ![w] = "fail"]
        /\ UNCHANGED data
  /\ UNCHANGED <<status, num_readers, sequence, write_pos, last_write_sequence, reader,
                 ent, rec, stuck, stuck_counter, history>>

\* the conversion failed: the entry is EMPTY and write_pos stays
WriteFail(w) ==
  /\ wpc[w] = "fail"
  /\ status' = [status EXCEPT ![ent[w]] = "EMPTY"]
  /\ wpc' = [wpc EXCEPT ![w] = "idle"]
  /\ UNCHANGED <<num_readers, sequence, data, write_pos, last_write_sequence, reader,
                 ent, rec, stuck, stuck_counter, history>>

\* number the record, make it readable, move write_pos
WritePublish(w) ==
  /\ wpc[w] = "publish"
  /\ status' = [status EXCEPT ![ent[w]] = "READ"]
  /\ last_write_sequence' = last_write_sequence + 1
  /\ sequence' = [sequence EXCEPT ![ent[w]] = last_write_sequence + 1]
  /\ write_pos' = RingNext(write_pos)
  /\ log' = Append(log, rec[w])
  /\ overrun' = overrun \cup Inside(ent[w])
  /\ wpc' = [wpc EXCEPT ![w] = "idle"]
  /\ UNCHANGED <<num_readers, data, reader, ent, rec, stuck, stuck_counter>>

\* the process dies between two steps and a new one takes its place
WriterCrash(w) ==
  /\ "writer_crash" \in Faults
  /\ wpc[w] # "idle"
  /\ wpc' = [wpc EXCEPT ![w] = "idle"]
  /\ stuck_counter' = [stuck_counter EXCEPT ![w] = 0]
  /\ UNCHANGED <<shm, reader, ent, rec, stuck, history>>
-----------------------------------------------------------------------------
ReadStep(r)  == \/ ReadEof(r) \/ ReadEnter(r) \/ ReadCopy(r)
                \/ ReadTest(r) \/ ReadAdd(r) \/ ReadStore(r) \/ ReadLeave(r)
WriteStep(w) == WriteSpin(w) \/ WriteEnter(w) \/ WriteFill(w) \/ WriteFail(w) \/ WritePublish(w)

Next ==
  \/ \E r \in Readers : ReadCall(r) \/ ReadStep(r) \/ ReaderCrash(r)
  \/ \E w \in Writers : WriteCall(w) \/ WriteStep(w) \/ WriterCrash(w)

Spec == Init /\ [][Next]_vars

(***************************************************************************)
(* A process inside a call keeps running, and a reader keeps calling: both *)
(* poll with usleep and never wait for anything but the condition itself.  *)
(* A writer need not call again.                                           *)
(***************************************************************************)
Fairness == /\ \A r \in Readers : WF_vars(ReadCall(r)) /\ WF_vars(ReadStep(r))
            /\ \A w \in Writers : WF_vars(WriteStep(w))

FairSpec == Spec /\ Fairness
-----------------------------------------------------------------------------
(***************************************************************************)
(* Properties                                                              *)
(***************************************************************************)

TypeShm ==
  /\ status      \in [Slots -> {"EMPTY", "WRITE", "READ"}]
  /\ num_readers \in [Slots -> Int]
  /\ sequence    \in [Slots -> Nat]
  /\ data        \in [Slots -> Records \cup {Garbled}]
  /\ write_pos   \in Slots
  /\ last_write_sequence \in Nat
  /\ log \in Seq(Records)
  /\ overrun \subseteq Readers

TypeReader ==
  /\ last_read_sequence \in [Readers -> Nat]
  /\ read_pos      \in [Readers -> Slots]
  /\ lost_counter  \in [Readers -> Int]
  /\ total_counter \in [Readers -> Nat]
  /\ rpc \in [Readers -> {"idle", "wait", "copy", "test", "add", "store", "leave", "dead"}]
  /\ got \in [Readers -> Records \cup {Garbled}]
  /\ ret \in [Readers -> {"none", "LNF_OK", "LNF_EOF", "LNF_ERR"}]

TypeWriter ==
  /\ wpc \in [Writers -> {"idle", "wait", "fill", "publish", "fail"}]
  /\ ent \in [Writers -> Slots]
  /\ rec \in [Writers -> Records]
  /\ stuck         \in [Writers -> 0 .. StuckLimit + 1]
  /\ stuck_counter \in [Writers -> 0 .. MaxStuck]

\* Every variable of the segment, the readers' handles and the writers'
\* locals holds a value of its kind.
TypeOK == TypeShm /\ TypeReader /\ TypeWriter

\* No writer works in an entry while a live reader is between the two
\* critical sections of lnf_ring_read on it, and no two writers work in the
\* same entry.  This is what num_readers and the status WRITE are for.
NoOverlap ==
  \A w \in Writers : wpc[w] \in {"fill", "publish", "fail"} =>
    /\ Inside(ent[w]) = {}
    /\ \A v \in Writers \ {w} : wpc[v] \in {"fill", "publish", "fail"} => ent[v] # ent[w]

\* num_readers counts exactly the readers inside the entry: no enter or
\* leave is lost although the copy between them runs without the lock.
ReadersCounted == \A i \in Slots : num_readers[i] = Cardinality(Inside(i))

\* The ring always holds the newest Size records, each in its own entry and
\* readable, except for the entry at write_pos that the next write reuses.
WindowIntact ==
  \A s \in 1 .. last_write_sequence :
    s > last_write_sequence - Size =>
      LET i == (s - 1) % Size IN
      \/ status[i] = "READ" /\ sequence[i] = s /\ data[i] = log[s]
      \/ i = write_pos /\ status[i] # "READ"

\* What a handle says between two reads is not less than what the reader
\* missed (conversion errors aside: they are not counted).
Reported(r) ==
  LET missed == last_read_sequence[r] - total_counter[r]
  IN  /\ missed >= 0
      /\ lost_counter[r] >= missed
      /\ missed = 0 => lost_counter[r] = 0

\* A reader whose lost_counter is zero has returned every record up to the
\* last one it read, and a reader that missed records never reports fewer
\* than it missed, for every live reader, slow or not, in whose entry no
\* record was published while lnf_ring_read was between its two critical
\* sections.  Others may miss records unreported: EveryLossReported.
LossIsReported ==
  "set_raw" \notin Faults =>
    \A r \in Readers \ overrun : rpc[r] \in {"idle", "wait"} => Reported(r)

\* libnf.h: LNF_RING_LOST is the "number of records that couldn't be read
\* due to ringif overflow": it is not zero when a reader missed records.
EveryLossReported ==
  \A r \in Readers : rpc[r] \in {"idle", "wait"} =>
    (lost_counter[r] = 0 => last_read_sequence[r] = total_counter[r])

\* libnf.h: LNF_RING_LOST is the "number of records that couldn't be read
\* due to ringif overflow".
LostIsExact ==
  \A r \in Readers : rpc[r] = "idle" =>
    lost_counter[r] = last_read_sequence[r] - total_counter[r]

\* libnf.h: "If there is no more records in ring buffer to read the function
\* returns LNF_EOF": when it does, no entry holds a record newer than the
\* last one read.
EofMeansDrained ==
  [][\A r \in Readers : ret[r] # "LNF_EOF" /\ ret'[r] = "LNF_EOF" =>
       ~ \E i \in Slots : status[i] = "READ" /\ sequence[i] > last_read_sequence[r]]_vars

\* The number of the record a reader was given last: that of the entry it
\* has copied, until last_read_sequence holds it.
Cursor == [r \in Readers |-> IF rpc[r] \in {"test", "add", "store"}
                             THEN sequence[read_pos[r]] ELSE last_read_sequence[r]]

\* What readers observe is the abstract log: records leave in publication
\* order, none is delivered twice, none is delivered half written.
Log == INSTANCE RingLog WITH cursor <- Cursor, delivered <- got
ImplementsLog == Log!Spec

\* A call of lnf_ring_write returns although readers keep entering, or die
\* inside, the entry it needs.
WriteReturns == \A w \in Writers : wpc[w] # "idle" ~> wpc[w] = "idle"

\* A reader that keeps calling comes back to the newest record again and
\* again, however often it was overtaken: it never waits on an entry that
\* the writer has passed.
ReaderCatchesUp ==
  \A r \in Readers : []<>(rpc[r] = "dead" \/ last_read_sequence[r] = last_write_sequence)
=============================================================================
