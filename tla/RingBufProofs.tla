---------------------------- MODULE RingBufProofs ---------------------------
(***************************************************************************)
(* Theorems about RingBuf, for every number of readers, every ring size    *)
(* and every set of records.                                               *)
(***************************************************************************)
EXTENDS RingBuf, FiniteSetTheorems, TLAPS

USE DEF CountOut, Busy, WriteOff, history

\* lnf_ring_next stays inside the ring.
LEMMA SlotsNext ==
  /\ 0 \in Slots
  /\ \A i \in Slots : RingNext(i) \in Slots
  BY SizeAssumption DEF Slots, RingNext

\* Every step of lnf_ring_read and lnf_ring_write preserves the types.
LEMMA TypeStep == TypeOK /\ [Next]_vars => TypeOK'
<1> USE SizeAssumption, BoundsAssumption, SlotsNext DEF TypeOK
<1> SUFFICES ASSUME TypeOK, [Next]_vars PROVE TypeOK'
  OBVIOUS
<1>1. ASSUME NEW r \in Readers, ReadCall(r) PROVE TypeOK'
  <2>1. TypeShm'
    BY <1>1 DEF ReadCall, TypeShm, shm, entries
  <2>2. TypeReader'
    BY <1>1 DEF ReadCall, TypeReader, TypeShm
  <2>3. TypeWriter'
    BY <1>1 DEF ReadCall, TypeWriter, writer
  <2>4. QED BY <2>1, <2>2, <2>3
<1>2. ASSUME NEW r \in Readers, ReadEof(r) PROVE TypeOK'
  <2>1. TypeShm'
    BY <1>2 DEF ReadEof, TypeShm, shm, entries
  <2>2. TypeReader'
    BY <1>2 DEF ReadEof, TypeReader, TypeShm
  <2>3. TypeWriter'
    BY <1>2 DEF ReadEof, TypeWriter, writer
  <2>4. QED BY <2>1, <2>2, <2>3
<1>3. ASSUME NEW r \in Readers, ReadEnter(r) PROVE TypeOK'
  <2>1. TypeShm'
    BY <1>3 DEF ReadEnter, TypeShm, TypeReader
  <2>2. TypeReader'
    BY <1>3 DEF ReadEnter, TypeReader, TypeShm
  <2>3. TypeWriter'
    BY <1>3 DEF ReadEnter, TypeWriter, writer
  <2>4. QED BY <2>1, <2>2, <2>3
<1>4. ASSUME NEW r \in Readers, ReadCopy(r) PROVE TypeOK'
  <2>2. TypeShm'
    BY <1>4 DEF ReadCopy, TypeShm, shm, entries
  <2>3. TypeReader'
    <3>1. ret' \in [Readers -> {"none", "LNF_OK", "LNF_EOF", "LNF_ERR"}]
      BY <1>4 DEF ReadCopy, TypeReader
    <3>3. QED BY <1>4, <3>1 DEF ReadCopy, TypeReader, TypeShm
  <2>4. TypeWriter'
    BY <1>4 DEF ReadCopy, TypeWriter, writer
  <2>5. QED BY <2>2, <2>3, <2>4
<1>16. ASSUME NEW r \in Readers, ReadTest(r) \/ ReadAdd(r) \/ ReadStore(r) PROVE TypeOK'
  <2>1. TypeShm'
    BY <1>16 DEF ReadTest, ReadAdd, ReadStore, TypeShm, shm, entries
  <2>2. TypeReader'
    <3>1. CASE ReadTest(r)
      BY <3>1 DEF ReadTest, TypeReader
    <3>2. CASE ReadAdd(r)
      <4>1. LostIncrement(sequence[read_pos[r]], last_read_sequence[r]) \in Int
        BY DEF LostIncrement, TypeShm, TypeReader
      <4>2. lost_counter' \in [Readers -> Int]
        BY <3>2, <4>1 DEF ReadAdd, TypeReader
      <4> QED BY <3>2, <4>2 DEF ReadAdd, TypeReader
    <3>3. CASE ReadStore(r)
      BY <3>3 DEF ReadStore, TypeReader, TypeShm
    <3> QED BY <1>16, <3>1, <3>2, <3>3
  <2>3. TypeWriter'
    BY <1>16 DEF ReadTest, ReadAdd, ReadStore, TypeWriter, writer
  <2> QED BY <2>1, <2>2, <2>3
<1>5. ASSUME NEW r \in Readers, ReadLeave(r) PROVE TypeOK'
  <2>1. TypeShm'
    BY <1>5 DEF ReadLeave, TypeShm, TypeReader
  <2>2. TypeReader'
    <3>1. CASE ret[r] = "LNF_OK"
      BY <1>5, <3>1 DEF ReadLeave, TypeReader
    <3>2. CASE ret[r] # "LNF_OK"
      BY <1>5, <3>2 DEF ReadLeave, TypeReader
    <3>3. QED BY <3>1, <3>2
  <2>3. TypeWriter'
    BY <1>5 DEF ReadLeave, TypeWriter, writer
  <2>4. QED BY <2>1, <2>2, <2>3
<1>6. ASSUME NEW r \in Readers, ReaderCrash(r) PROVE TypeOK'
  <2>1. TypeShm'
    BY <1>6 DEF ReaderCrash, TypeShm, shm, entries
  <2>2. TypeReader'
    BY <1>6 DEF ReaderCrash, TypeReader, TypeShm
  <2>3. TypeWriter'
    BY <1>6 DEF ReaderCrash, TypeWriter, writer
  <2>4. QED BY <2>1, <2>2, <2>3
<1>7. ASSUME NEW w \in Writers, WriteCall(w) PROVE TypeOK'
  <2>1. TypeShm'
    BY <1>7 DEF WriteCall, TypeShm, shm, entries
  <2>2. TypeReader'
    BY <1>7 DEF WriteCall, TypeReader, reader
  <2>3. TypeWriter'
    BY <1>7 DEF WriteCall, TypeWriter, TypeShm
  <2>4. QED BY <2>1, <2>2, <2>3
<1>8. ASSUME NEW w \in Writers, WriteSpin(w) PROVE TypeOK'
  <2>1. TypeShm'
    BY <1>8 DEF WriteSpin, TypeShm, TypeWriter
  <2>2. TypeReader'
    BY <1>8 DEF WriteSpin, TypeReader, reader
  <2>3. TypeWriter'
    <3>1. stuck' \in [Writers -> 0 .. StuckLimit + 1]
      BY <1>8 DEF WriteSpin, TypeWriter
    <3>2. stuck_counter' \in [Writers -> 0 .. MaxStuck]
      BY <1>8 DEF WriteSpin, TypeWriter
    <3>3. QED BY <1>8, <3>1, <3>2 DEF WriteSpin, TypeWriter
  <2>4. QED BY <2>1, <2>2, <2>3
<1>9. ASSUME NEW w \in Writers, WriteEnter(w) PROVE TypeOK'
  <2>1. TypeShm'
    BY <1>9 DEF WriteEnter, TypeShm, TypeWriter
  <2>2. TypeReader'
    BY <1>9 DEF WriteEnter, TypeReader, reader
  <2>3. TypeWriter'
    BY <1>9 DEF WriteEnter, TypeWriter, TypeShm
  <2>4. QED BY <2>1, <2>2, <2>3
<1>10. ASSUME NEW w \in Writers, WriteFill(w) PROVE TypeOK'
  <2>1. TypeShm'
    BY <1>10 DEF WriteFill, TypeShm, TypeWriter
  <2>2. TypeReader'
    BY <1>10 DEF WriteFill, TypeReader, reader
  <2>3. TypeWriter'
    BY <1>10 DEF WriteFill, TypeWriter, TypeShm
  <2>4. QED BY <2>1, <2>2, <2>3
<1>11. ASSUME NEW w \in Writers, WriteFail(w) PROVE TypeOK'
  <2>1. TypeShm'
    BY <1>11 DEF WriteFail, TypeShm, TypeWriter
  <2>2. TypeReader'
    BY <1>11 DEF WriteFail, TypeReader, reader
  <2>3. TypeWriter'
    BY <1>11 DEF WriteFail, TypeWriter, TypeShm
  <2>4. QED BY <2>1, <2>2, <2>3
<1>12. ASSUME NEW w \in Writers, WritePublish(w) PROVE TypeOK'
  <2>1. TypeShm'
    <3>1. Inside(ent[w]) \subseteq Readers
      BY DEF Inside
    <3> QED BY <1>12, <3>1 DEF WritePublish, TypeShm, TypeWriter
  <2>2. TypeReader'
    BY <1>12 DEF WritePublish, TypeReader, reader
  <2>3. TypeWriter'
    BY <1>12 DEF WritePublish, TypeWriter, TypeShm
  <2>4. QED BY <2>1, <2>2, <2>3
<1>13. ASSUME NEW w \in Writers, WriterCrash(w) PROVE TypeOK'
  <2>1. TypeShm'
    BY <1>13 DEF WriterCrash, TypeShm, shm, entries
  <2>2. TypeReader'
    BY <1>13 DEF WriterCrash, TypeReader, reader
  <2>3. TypeWriter'
    BY <1>13 DEF WriterCrash, TypeWriter, TypeShm
  <2>4. QED BY <2>1, <2>2, <2>3
<1>14. CASE UNCHANGED vars
  BY <1>14 DEF vars, shm, entries, reader, writer, TypeShm, TypeReader, TypeWriter
<1>15. QED
  BY <1>1, <1>2, <1>3, <1>4, <1>5, <1>6, <1>7, <1>8, <1>9, <1>10, <1>11, <1>12, <1>13, <1>14, <1>16
     DEF Next, ReadStep, WriteStep

\* Every variable of the segment and of the handles keeps its type, whatever
\* fails and however many writers share the ring.
THEOREM TypeCorrect == Spec => []TypeOK
<1>1. Init => TypeOK
  BY SizeAssumption, BoundsAssumption, SlotsNext DEF Init, TypeOK, TypeShm, TypeReader, TypeWriter
<1>2. QED BY <1>1, TypeStep, PTL DEF Spec

-----------------------------------------------------------------------------
(***************************************************************************)
(* One writer, and readers that neither die nor outstay the writer's       *)
(* patience.  The inductive invariant adds to the properties what the      *)
(* protocol maintains between the critical sections: the writer's entry is *)
(* the one at write_pos, marked WRITE and free of readers; a reader that   *)
(* is about to copy still sees a readable, newer record; every readable    *)
(* entry holds the record its sequence number names.                       *)
(***************************************************************************)
OneWriter      == \A v, w \in Writers : v = w
PatientReaders == "reader_crash" \notin Faults /\ "slow_reader" \notin Faults

Working(w) == wpc[w] \in {"fill", "publish", "fail"}

NobodyWrittenOff ==
  /\ \A r \in Readers : rpc[r] # "dead"
  /\ \A w \in Writers : stuck[w] <= StuckLimit

WriterOwnsEntry ==
  \A w \in Writers :
    /\ Working(w) => Inside(ent[w]) = {} /\ status[ent[w]] = "WRITE" /\ ent[w] = write_pos
    /\ wpc[w] = "publish" => data[ent[w]] = rec[w]

ReadableIsPublished ==
  /\ last_write_sequence = Len(log)
  /\ \A i \in Slots : status[i] = "READ" => sequence[i] \in 1 .. Len(log) /\ data[i] = log[sequence[i]]

\* between ReadEnter and the store of ent->sequence
Copying(r)  == rpc[r] \in {"copy", "test", "add", "store"}
CopiesReady == \A r \in Readers : Copying(r) => Ready(r)

RingInv ==
  /\ TypeOK
  /\ ReadersCounted
  /\ NobodyWrittenOff
  /\ WriterOwnsEntry
  /\ ReadableIsPublished
  /\ CopiesReady

\* The readers inside an entry can be counted.
LEMMA InsideFinite == \A i : IsFiniteSet(Inside(i))
  BY ProcsAssumption, FS_Subset DEF Inside

\* A step that moves no reader leaves every entry's readers as they are.
LEMMA InsideUnchanged ==
  ASSUME rpc' = rpc, read_pos' = read_pos
  PROVE  \A i : Inside(i)' = Inside(i)
  BY DEF Inside

\* A freshly initialised ring satisfies the inductive invariant.
LEMMA InitRingInv == Init => RingInv
<1> SUFFICES ASSUME Init PROVE RingInv
  OBVIOUS
<1> USE SizeAssumption, BoundsAssumption, SlotsNext
<1>1. TypeOK
  BY DEF Init, TypeOK, TypeShm, TypeReader, TypeWriter
<1>2. ReadersCounted
  <2>1. \A i \in Slots : Inside(i) = {}
    BY DEF Init, Inside
  <2>2. QED BY <2>1, FS_EmptySet DEF Init, ReadersCounted
<1>3. NobodyWrittenOff
  BY DEF Init, NobodyWrittenOff
<1>4. WriterOwnsEntry
  BY DEF Init, WriterOwnsEntry, Working
<1>5. ReadableIsPublished
  BY DEF Init, ReadableIsPublished
<1>6. CopiesReady
  BY DEF Init, CopiesReady, Copying
<1>7. QED BY <1>1, <1>2, <1>3, <1>4, <1>5, <1>6 DEF RingInv

\* Every step preserves the inductive invariant, given one writer and readers
\* that are neither dead nor slow.
LEMMA StepRingInv ==
  ASSUME OneWriter, PatientReaders, RingInv, [Next]_vars
  PROVE  RingInv'
<1> USE SizeAssumption, BoundsAssumption, SlotsNext
<1>0. TypeOK /\ TypeOK'
  BY TypeStep DEF RingInv
<1>t. /\ TypeShm /\ TypeReader /\ TypeWriter
      /\ TypeShm' /\ TypeReader' /\ TypeWriter'
  BY <1>0 DEF TypeOK
<1>1. ASSUME NEW r \in Readers, ReadCall(r) \/ ReadEof(r)
      PROVE  RingInv'
  <2>1. \A i \in Slots : Inside(i)' = Inside(i)
    BY <1>1, <1>t DEF ReadCall, ReadEof, Inside, TypeReader
  <2>2. UNCHANGED <<shm, writer, log, read_pos, last_read_sequence>>
    BY <1>1 DEF ReadCall, ReadEof
  <2>3. ReadersCounted'
    BY <2>1, <2>2 DEF RingInv, ReadersCounted, shm, entries
  <2>4. NobodyWrittenOff'
    BY <1>1, <1>t, <2>2 DEF RingInv, NobodyWrittenOff, ReadCall, ReadEof, TypeReader, writer
  <2>5. WriterOwnsEntry'
    BY <2>1, <2>2, <1>t DEF RingInv, WriterOwnsEntry, Working, shm, entries, writer, TypeWriter
  <2>6. ReadableIsPublished'
    BY <2>2 DEF RingInv, ReadableIsPublished, shm, entries
  <2>7. CopiesReady'
    BY <1>1, <1>t, <2>2 DEF RingInv, CopiesReady, Copying, Ready, ReadCall, ReadEof, TypeReader, shm, entries
  <2>8. QED BY <1>0, <2>3, <2>4, <2>5, <2>6, <2>7 DEF RingInv
<1>2. ASSUME NEW r \in Readers, ReadEnter(r)
      PROVE  RingInv'
  <2>1. \A i \in Slots : Inside(i)' = IF i = read_pos[r] THEN Inside(i) \cup {r} ELSE Inside(i)
    BY <1>2, <1>t DEF ReadEnter, Inside, TypeReader
  <2>2. r \notin Inside(read_pos[r])
    BY <1>2 DEF ReadEnter, Inside
  <2>3. ReadersCounted'
    <3> SUFFICES ASSUME NEW i \in Slots PROVE num_readers'[i] = Cardinality(Inside(i)')
      BY DEF ReadersCounted
    <3>1. IsFiniteSet(Inside(i)) /\ num_readers[i] = Cardinality(Inside(i))
      BY InsideFinite DEF RingInv, ReadersCounted
    <3>2. CASE i = read_pos[r]
      <4>1. Cardinality(Inside(i) \cup {r}) = Cardinality(Inside(i)) + 1
        BY <2>2, <3>1, <3>2, FS_AddElement
      <4>2. num_readers'[i] = num_readers[i] + 1
        BY <1>2, <1>t, <3>2 DEF ReadEnter, TypeShm
      <4>3. QED BY <2>1, <3>1, <3>2, <4>1, <4>2
    <3>3. CASE i # read_pos[r]
      BY <1>2, <1>t, <2>1, <3>1, <3>3 DEF ReadEnter, TypeShm
    <3>4. QED BY <3>2, <3>3
  <2>4. NobodyWrittenOff'
    BY <1>2, <1>t DEF RingInv, NobodyWrittenOff, ReadEnter, TypeReader, writer
  <2>5. WriterOwnsEntry'
    <3>1. UNCHANGED <<status, data, write_pos, writer>>
      BY <1>2 DEF ReadEnter
    <3>2. \A w \in Writers : Working(w) => ent[w] # read_pos[r]
      BY <1>2 DEF RingInv, WriterOwnsEntry, ReadEnter, Ready
    <3>3. QED
      BY <1>t, <2>1, <3>1, <3>2 DEF RingInv, WriterOwnsEntry, Working, writer, TypeWriter
  <2>6. ReadableIsPublished'
    BY <1>2 DEF RingInv, ReadableIsPublished, ReadEnter
  <2>7. CopiesReady'
    BY <1>2, <1>t DEF RingInv, CopiesReady, Copying, Ready, ReadEnter, TypeReader
  <2>8. QED BY <1>0, <2>3, <2>4, <2>5, <2>6, <2>7 DEF RingInv
<1>3. ASSUME NEW r \in Readers, ReadCopy(r) \/ ReadTest(r) \/ ReadAdd(r) \/ ReadStore(r)
      PROVE  RingInv'
  <2>1. \A i \in Slots : Inside(i)' = Inside(i)
    BY <1>3, <1>t DEF ReadCopy, ReadTest, ReadAdd, ReadStore, Inside, TypeReader
  <2>2. UNCHANGED <<shm, writer, log, read_pos>>
    BY <1>3 DEF ReadCopy, ReadTest, ReadAdd, ReadStore
  <2>3. ReadersCounted'
    BY <2>1, <2>2 DEF RingInv, ReadersCounted, shm, entries
  <2>4. NobodyWrittenOff'
    BY <1>3, <1>t, <2>2 DEF RingInv, NobodyWrittenOff, ReadCopy, ReadTest, ReadAdd, ReadStore, TypeReader, writer
  <2>5. WriterOwnsEntry'
    BY <2>1, <2>2, <1>t DEF RingInv, WriterOwnsEntry, Working, shm, entries, writer, TypeWriter
  <2>6. ReadableIsPublished'
    BY <2>2 DEF RingInv, ReadableIsPublished, shm, entries
  <2>7. CopiesReady'
    <3> SUFFICES ASSUME NEW q \in Readers, Copying(q)' PROVE Ready(q)'
      BY DEF CopiesReady
    <3>1. Copying(q) /\ last_read_sequence'[q] = last_read_sequence[q]
      BY <1>3, <1>t DEF ReadCopy, ReadTest, ReadAdd, ReadStore, Copying, TypeReader
    <3>2. QED BY <2>2, <3>1 DEF RingInv, CopiesReady, Ready, shm, entries
  <2>8. QED BY <1>0, <2>3, <2>4, <2>5, <2>6, <2>7 DEF RingInv
<1>4. ASSUME NEW r \in Readers, ReadLeave(r)
      PROVE  RingInv'
  <2>1. \A i \in Slots : Inside(i)' = IF i = read_pos[r] THEN Inside(i) \ {r} ELSE Inside(i)
    <3>1. \A q \in Readers : q # r => rpc'[q] = rpc[q] /\ read_pos'[q] = read_pos[q]
      BY <1>4, <1>t DEF ReadLeave, TypeReader
    <3>2. rpc'[r] = "idle"
      BY <1>4, <1>t DEF ReadLeave, TypeReader
    <3>3. QED BY <3>1, <3>2 DEF Inside
  <2>2. r \in Inside(read_pos[r])
    BY <1>4 DEF ReadLeave, Inside
  <2>3. ReadersCounted'
    <3> SUFFICES ASSUME NEW i \in Slots PROVE num_readers'[i] = Cardinality(Inside(i)')
      BY DEF ReadersCounted
    <3>1. IsFiniteSet(Inside(i)) /\ num_readers[i] = Cardinality(Inside(i))
      BY InsideFinite DEF RingInv, ReadersCounted
    <3>2. CASE i = read_pos[r]
      <4>1. Cardinality(Inside(i) \ {r}) = Cardinality(Inside(i)) - 1
        BY <2>2, <3>1, <3>2, FS_RemoveElement
      <4>2. num_readers'[i] = num_readers[i] - 1
        BY <1>4, <1>t, <3>2 DEF ReadLeave, TypeShm
      <4>3. QED BY <2>1, <3>1, <3>2, <4>1, <4>2
    <3>3. CASE i # read_pos[r]
      BY <1>4, <1>t, <2>1, <3>1, <3>3 DEF ReadLeave, TypeShm
    <3>4. QED BY <3>2, <3>3
  <2>4. NobodyWrittenOff'
    BY <1>4, <1>t DEF RingInv, NobodyWrittenOff, ReadLeave, TypeReader, writer
  <2>5. WriterOwnsEntry'
    <3>1. UNCHANGED <<status, data, write_pos, writer>>
      BY <1>4 DEF ReadLeave
    <3>2. \A i \in Slots : Inside(i) = {} => Inside(i)' = {}
      BY <2>1
    <3>3. QED
      BY <1>t, <3>1, <3>2 DEF RingInv, WriterOwnsEntry, Working, writer, TypeWriter
  <2>6. ReadableIsPublished'
    BY <1>4 DEF RingInv, ReadableIsPublished, ReadLeave
  <2>7. CopiesReady'
    <3> SUFFICES ASSUME NEW q \in Readers, Copying(q)' PROVE Ready(q)'
      BY DEF CopiesReady
    <3>1. q # r /\ Copying(q) /\ read_pos'[q] = read_pos[q]
      BY <1>4, <1>t DEF ReadLeave, Copying, TypeReader
    <3>2. UNCHANGED <<status, sequence, last_read_sequence>>
      BY <1>4 DEF ReadLeave
    <3>3. QED BY <3>1, <3>2 DEF RingInv, CopiesReady, Copying, Ready
  <2>8. QED BY <1>0, <2>3, <2>4, <2>5, <2>6, <2>7 DEF RingInv
<1>5. ASSUME NEW w \in Writers, WriteCall(w)
      PROVE  RingInv'
  <2>1. UNCHANGED <<shm, rpc, read_pos, last_read_sequence, ent, log>>
    BY <1>5 DEF WriteCall, reader
  <2>2. \A i : Inside(i)' = Inside(i)
    BY <2>1, InsideUnchanged
  <2>3. ReadersCounted'
    BY <2>1, <2>2 DEF RingInv, ReadersCounted, shm, entries
  <2>4. NobodyWrittenOff'
    BY <1>5, <1>t, <2>1 DEF RingInv, NobodyWrittenOff, WriteCall, TypeWriter
  <2>5. WriterOwnsEntry'
    <3> SUFFICES ASSUME NEW v \in Writers, Working(v)'
                 PROVE  /\ Inside(ent[v])' = {} /\ status'[ent'[v]] = "WRITE" /\ ent'[v] = write_pos'
                        /\ wpc'[v] = "publish" => data'[ent'[v]] = rec'[v]
      BY DEF WriterOwnsEntry, Working
    <3>1. v # w /\ wpc'[v] = wpc[v] /\ rec'[v] = rec[v]
      BY <1>5, <1>t DEF WriteCall, Working, TypeWriter
    <3>2. QED BY <1>t, <2>1, <2>2, <3>1 DEF RingInv, WriterOwnsEntry, Working, shm, entries
  <2>6. ReadableIsPublished'
    BY <2>1 DEF RingInv, ReadableIsPublished, shm, entries
  <2>7. CopiesReady'
    BY <2>1 DEF RingInv, CopiesReady, Copying, Ready, shm, entries
  <2>8. QED BY <1>0, <2>3, <2>4, <2>5, <2>6, <2>7 DEF RingInv
<1>6. ASSUME NEW w \in Writers, WriteSpin(w)
      PROVE  RingInv'
  \* nobody is dead or slow, so the limit is not passed and nothing is reset
  <2>0. /\ stuck' = [stuck EXCEPT ![w] = @ + 1]
        /\ stuck[w] < StuckLimit
        /\ num_readers' = num_readers
    <3>1. stuck[w] <= StuckLimit /\ ~ Stalled(write_pos)
      BY DEF RingInv, NobodyWrittenOff, Stalled, PatientReaders
    <3>2. QED BY <1>6, <1>t, <3>1 DEF WriteSpin, TypeWriter
  <2>1. UNCHANGED <<shm, rpc, read_pos, last_read_sequence, wpc, ent, rec, log>>
    BY <1>6, <2>0 DEF WriteSpin, reader, shm, entries
  <2>2. \A i : Inside(i)' = Inside(i)
    BY <2>1, InsideUnchanged
  <2>3. ReadersCounted'
    BY <2>1, <2>2 DEF RingInv, ReadersCounted, shm, entries
  <2>4. NobodyWrittenOff'
    BY <2>0, <1>t, <2>1 DEF RingInv, NobodyWrittenOff, TypeWriter
  <2>5. WriterOwnsEntry'
    BY <1>t, <2>1, <2>2 DEF RingInv, WriterOwnsEntry, Working, shm, entries
  <2>6. ReadableIsPublished'
    BY <2>1 DEF RingInv, ReadableIsPublished, shm, entries
  <2>7. CopiesReady'
    BY <2>1 DEF RingInv, CopiesReady, Copying, Ready, shm, entries
  <2>8. QED BY <1>0, <2>3, <2>4, <2>5, <2>6, <2>7 DEF RingInv
<1>7. ASSUME NEW w \in Writers, WriteEnter(w)
      PROVE  RingInv'
  <2>1. UNCHANGED <<num_readers, sequence, write_pos, last_write_sequence, rpc, read_pos,
                    last_read_sequence, rec, stuck, log>>
    BY <1>7 DEF WriteEnter, reader
  <2>2. \A i : Inside(i)' = Inside(i)
    BY <2>1, InsideUnchanged
  \* the entry is free because num_readers counts everybody inside it
  <2>3. Inside(write_pos) = {}
    <3>1. num_readers[write_pos] = Cardinality(Inside(write_pos))
      BY <1>t DEF RingInv, ReadersCounted, TypeShm
    <3>2. Cardinality(Inside(write_pos)) \in Nat
      BY InsideFinite, FS_CardinalityType
    <3>3. Cardinality(Inside(write_pos)) = 0
      BY <1>7, <3>1, <3>2 DEF WriteEnter
    <3>4. QED BY <3>3, InsideFinite, FS_EmptySet
  <2>4. ReadersCounted'
    BY <2>1, <2>2 DEF RingInv, ReadersCounted
  <2>5. NobodyWrittenOff'
    BY <2>1 DEF RingInv, NobodyWrittenOff
  <2>6. WriterOwnsEntry'
    <3>1. ent'[w] = write_pos /\ wpc'[w] = "fill" /\ status'[write_pos] = "WRITE"
      BY <1>7, <1>t DEF WriteEnter, TypeShm, TypeWriter
    <3>2. \A v \in Writers : v = w
      BY DEF OneWriter
    <3>3. QED BY <2>1, <2>2, <2>3, <3>1, <3>2 DEF WriterOwnsEntry, Working
  <2>7. ReadableIsPublished'
    <3>1. \A i \in Slots : status'[i] = "READ" => status[i] = "READ" /\ data'[i] = data[i]
      BY <1>7, <1>t DEF WriteEnter, TypeShm
    <3>2. QED BY <2>1, <3>1 DEF RingInv, ReadableIsPublished
  <2>8. CopiesReady'
    <3> SUFFICES ASSUME NEW q \in Readers, Copying(q) PROVE Ready(q)'
      BY <2>1 DEF CopiesReady, Copying
    <3>1. read_pos[q] # write_pos
      BY <2>3 DEF Inside, Copying
    <3>2. status'[read_pos[q]] = status[read_pos[q]]
      BY <1>7, <1>t, <3>1 DEF WriteEnter, TypeShm, TypeReader
    <3>3. QED BY <2>1, <3>2 DEF RingInv, CopiesReady, Copying, Ready
  <2>9. QED BY <1>0, <2>4, <2>5, <2>6, <2>7, <2>8 DEF RingInv
<1>8. ASSUME NEW w \in Writers, WriteFill(w)
      PROVE  RingInv'
  <2>1. UNCHANGED <<status, num_readers, sequence, write_pos, last_write_sequence, rpc, read_pos,
                    last_read_sequence, ent, rec, stuck, log>>
    BY <1>8 DEF WriteFill, reader
  <2>2. \A i : Inside(i)' = Inside(i)
    BY <2>1, InsideUnchanged
  <2>3. Working(w) /\ status[ent[w]] = "WRITE"
    BY <1>8 DEF WriteFill, Working, RingInv, WriterOwnsEntry
  <2>4. ReadersCounted'
    BY <2>1, <2>2 DEF RingInv, ReadersCounted
  <2>5. NobodyWrittenOff'
    BY <2>1 DEF RingInv, NobodyWrittenOff
  <2>6. WriterOwnsEntry'
    <3>1. \A v \in Writers : v = w
      BY DEF OneWriter
    <3>2. wpc'[w] = "publish" => data'[ent[w]] = rec[w]
      BY <1>8, <1>t, <3>1 DEF WriteFill, TypeWriter, TypeShm
    <3>3. QED BY <2>1, <2>2, <2>3, <3>1, <3>2 DEF RingInv, WriterOwnsEntry, Working
  <2>7. ReadableIsPublished'
    <3>1. \A i \in Slots : i # ent[w] => data'[i] = data[i]
      BY <1>8, <1>t DEF WriteFill, TypeShm
    <3>2. QED BY <2>1, <2>3, <3>1 DEF RingInv, ReadableIsPublished
  <2>8. CopiesReady'
    BY <2>1 DEF RingInv, CopiesReady, Copying, Ready
  <2>9. QED BY <1>0, <2>4, <2>5, <2>6, <2>7, <2>8 DEF RingInv
<1>9. ASSUME NEW w \in Writers, WriteFail(w)
      PROVE  RingInv'
  <2>1. UNCHANGED <<num_readers, sequence, data, write_pos, last_write_sequence, rpc, read_pos,
                    last_read_sequence, ent, rec, stuck, log>>
    BY <1>9 DEF WriteFail, reader
  <2>2. \A i : Inside(i)' = Inside(i)
    BY <2>1, InsideUnchanged
  <2>3. Inside(ent[w]) = {} /\ ent[w] \in Slots
    BY <1>9, <1>t DEF WriteFail, Working, RingInv, WriterOwnsEntry, TypeWriter
  <2>4. ReadersCounted'
    BY <2>1, <2>2 DEF RingInv, ReadersCounted
  <2>5. NobodyWrittenOff'
    BY <2>1 DEF RingInv, NobodyWrittenOff
  <2>6. WriterOwnsEntry'
    <3>1. \A v \in Writers : v = w /\ wpc'[v] = "idle"
      BY <1>9, <1>t DEF OneWriter, WriteFail, TypeWriter
    <3>2. QED BY <3>1 DEF WriterOwnsEntry, Working
  <2>7. ReadableIsPublished'
    <3>1. \A i \in Slots : status'[i] = "READ" => status[i] = "READ"
      BY <1>9, <1>t DEF WriteFail, TypeShm
    <3>2. QED BY <2>1, <3>1 DEF RingInv, ReadableIsPublished
  <2>8. CopiesReady'
    <3> SUFFICES ASSUME NEW q \in Readers, Copying(q) PROVE Ready(q)'
      BY <2>1 DEF CopiesReady, Copying
    <3>1. read_pos[q] # ent[w]
      BY <2>3 DEF Inside, Copying
    <3>2. status'[read_pos[q]] = status[read_pos[q]]
      BY <1>9, <1>t, <2>3, <3>1 DEF WriteFail, TypeShm, TypeReader
    <3>3. QED BY <2>1, <3>2 DEF RingInv, CopiesReady, Copying, Ready
  <2>9. QED BY <1>0, <2>4, <2>5, <2>6, <2>7, <2>8 DEF RingInv
<1>10. ASSUME NEW w \in Writers, WritePublish(w)
       PROVE  RingInv'
  <2>1. UNCHANGED <<num_readers, data, rpc, read_pos, last_read_sequence, ent, rec, stuck>>
    BY <1>10 DEF WritePublish, reader
  <2>2. \A i : Inside(i)' = Inside(i)
    BY <2>1, InsideUnchanged
  <2>3. Inside(ent[w]) = {} /\ ent[w] \in Slots /\ data[ent[w]] = rec[w]
    BY <1>10, <1>t DEF WritePublish, Working, RingInv, WriterOwnsEntry, TypeWriter
  <2>4. ReadersCounted'
    BY <2>1, <2>2 DEF RingInv, ReadersCounted
  <2>5. NobodyWrittenOff'
    BY <2>1 DEF RingInv, NobodyWrittenOff
  <2>6. WriterOwnsEntry'
    <3>1. \A v \in Writers : v = w /\ wpc'[v] = "idle"
      BY <1>10, <1>t DEF OneWriter, WritePublish, TypeWriter
    <3>2. QED BY <3>1 DEF WriterOwnsEntry, Working
  <2>7. ReadableIsPublished'
    <3>1. /\ log' = Append(log, rec[w]) /\ log \in Seq(Records) /\ rec[w] \in Records
          /\ last_write_sequence = Len(log) /\ last_write_sequence' = last_write_sequence + 1
      BY <1>10, <1>t DEF WritePublish, TypeShm, TypeWriter, RingInv, ReadableIsPublished
    <3>2. /\ Len(log') = Len(log) + 1 /\ log'[Len(log) + 1] = rec[w]
          /\ \A s \in 1 .. Len(log) : log'[s] = log[s]
      BY <3>1
    <3>3. ASSUME NEW i \in Slots, status'[i] = "READ"
          PROVE  sequence'[i] \in 1 .. Len(log') /\ data'[i] = log'[sequence'[i]]
      <4>1. CASE i = ent[w]
        BY <1>10, <1>t, <2>1, <2>3, <3>1, <3>2, <4>1 DEF WritePublish, TypeShm
      <4>2. CASE i # ent[w]
        <5>1. status[i] = "READ" /\ sequence'[i] = sequence[i] /\ data'[i] = data[i]
          BY <1>10, <1>t, <2>1, <3>3, <4>2 DEF WritePublish, TypeShm
        <5>2. QED BY <5>1, <3>1, <3>2 DEF RingInv, ReadableIsPublished
      <4>3. QED BY <4>1, <4>2
    <3>4. QED BY <3>1, <3>2, <3>3 DEF ReadableIsPublished
  <2>8. CopiesReady'
    <3> SUFFICES ASSUME NEW q \in Readers, Copying(q) PROVE Ready(q)'
      BY <2>1 DEF CopiesReady, Copying
    <3>1. read_pos[q] # ent[w]
      BY <2>3 DEF Inside, Copying
    <3>2. status'[read_pos[q]] = status[read_pos[q]] /\ sequence'[read_pos[q]] = sequence[read_pos[q]]
      BY <1>10, <1>t, <2>3, <3>1 DEF WritePublish, TypeShm, TypeReader
    <3>3. QED BY <2>1, <3>2 DEF RingInv, CopiesReady, Copying, Ready
  <2>9. QED BY <1>0, <2>4, <2>5, <2>6, <2>7, <2>8 DEF RingInv
<1>11. ASSUME NEW w \in Writers, WriterCrash(w)
       PROVE  RingInv'
  <2>1. UNCHANGED <<shm, rpc, read_pos, last_read_sequence, ent, rec, stuck, log>>
    BY <1>11 DEF WriterCrash, reader
  <2>2. \A i : Inside(i)' = Inside(i)
    BY <2>1, InsideUnchanged
  <2>3. ReadersCounted'
    BY <2>1, <2>2 DEF RingInv, ReadersCounted, shm, entries
  <2>4. NobodyWrittenOff'
    BY <2>1 DEF RingInv, NobodyWrittenOff
  <2>5. WriterOwnsEntry'
    <3>1. \A v \in Writers : v = w /\ wpc'[v] = "idle"
      BY <1>11, <1>t DEF OneWriter, WriterCrash, TypeWriter
    <3>2. QED BY <3>1 DEF WriterOwnsEntry, Working
  <2>6. ReadableIsPublished'
    BY <2>1 DEF RingInv, ReadableIsPublished, shm, entries
  <2>7. CopiesReady'
    BY <2>1 DEF RingInv, CopiesReady, Copying, Ready, shm, entries
  <2>8. QED BY <1>0, <2>3, <2>4, <2>5, <2>6, <2>7 DEF RingInv
<1>12. ASSUME UNCHANGED vars
       PROVE  RingInv'
  <2>1. \A i : Inside(i)' = Inside(i)
    BY <1>12, InsideUnchanged DEF vars, reader
  <2>2. UNCHANGED <<shm, reader, writer, log>>
    BY <1>12 DEF vars
  <2>3. ReadersCounted' /\ NobodyWrittenOff' /\ WriterOwnsEntry'
    BY <2>1, <2>2 DEF RingInv, ReadersCounted, NobodyWrittenOff, WriterOwnsEntry, Working,
                      shm, entries, reader, writer
  <2>4. ReadableIsPublished' /\ CopiesReady'
    BY <2>2 DEF RingInv, ReadableIsPublished, CopiesReady, Copying, Ready, shm, entries, reader
  <2>5. QED BY <1>0, <2>3, <2>4 DEF RingInv
<1>13. \A r \in Readers : ~ ReaderCrash(r)
  BY DEF PatientReaders, ReaderCrash
<1>14. QED
  BY <1>1, <1>2, <1>3, <1>4, <1>5, <1>6, <1>7, <1>8, <1>9, <1>10, <1>11, <1>12, <1>13
     DEF Next, ReadStep, WriteStep

\* The inductive invariant behind the theorems below: the writer owns its
\* entry, what is readable is what was published, and a reader that has
\* counted itself in still finds the record it saw under the lock.
THEOREM RingInvariant ==
  ASSUME OneWriter, PatientReaders
  PROVE  Spec => []RingInv
<1>1. RingInv /\ [Next]_vars => RingInv'
  BY StepRingInv
<1>2. QED BY <1>1, InitRingInv, PTL DEF Spec

\* With one writer, and readers that neither die nor stall inside an entry,
\* the writer of lnf_ring_write and the readers of lnf_ring_read are never
\* in the same entry, for any number of readers and any ring size.
THEOREM NoOverlapHolds ==
  ASSUME OneWriter, PatientReaders
  PROVE  Spec => []NoOverlap
<1>1. RingInv => NoOverlap
  BY DEF RingInv, WriterOwnsEntry, Working, NoOverlap, OneWriter
<1>2. QED BY <1>1, RingInvariant, PTL

\* Under the same conditions num_readers is exactly the number of readers
\* between their two critical sections.
THEOREM ReadersCountedHolds ==
  ASSUME OneWriter, PatientReaders
  PROVE  Spec => []ReadersCounted
<1>1. RingInv => ReadersCounted
  BY DEF RingInv
<1>2. QED BY <1>1, RingInvariant, PTL

\* A reader's cursor moves only when the reader does, or the number of the
\* entry it is copying.
LEMMA CursorKept ==
  ASSUME UNCHANGED <<rpc, read_pos, last_read_sequence>>,
         \A r \in Readers : Copying(r) => sequence'[read_pos[r]] = sequence[read_pos[r]]
  PROVE  Cursor' = Cursor
  BY DEF Cursor, Copying

\* A step of the ring is a step of the abstract log or leaves it unchanged:
\* WritePublish appends, ReadCopy delivers.
LEMMA StepImplementsLog ==
  ASSUME PatientReaders, RingInv, [Next]_vars
  PROVE  [Log!Next]_(Log!vars)
<1> USE DEF Log!vars
<1>t. TypeShm /\ TypeReader /\ TypeWriter
  BY DEF RingInv, TypeOK
<1>1. ASSUME NEW r \in Readers, ReadCopy(r)
      PROVE  Log!Next
  <2>1. Ready(r) /\ read_pos[r] \in Slots /\ rpc[r] = "copy"
    BY <1>1, <1>t DEF RingInv, CopiesReady, Copying, ReadCopy, TypeReader
  <2> DEFINE s == sequence[read_pos[r]]
  <2>2. s \in last_read_sequence[r] + 1 .. Len(log) /\ data[read_pos[r]] = log[s]
    BY <2>1, <1>t DEF RingInv, ReadableIsPublished, Ready, TypeShm, TypeReader
  <2>3. /\ got' = [got EXCEPT ![r] = log[s]]
        /\ UNCHANGED <<log, sequence, read_pos, last_read_sequence>>
        /\ rpc' = [rpc EXCEPT ![r] = "test"]
    BY <1>1, <2>2 DEF ReadCopy, shm, entries
  <2>4. Cursor[r] = last_read_sequence[r] /\ Cursor' = [Cursor EXCEPT ![r] = s]
    BY <2>1, <2>3, <1>t DEF Cursor, TypeReader
  <2>5. Log!Read(r)
    BY <2>2, <2>3, <2>4 DEF Log!Read
  <2>6. QED BY <2>5 DEF Log!Next
<1>2. ASSUME NEW w \in Writers, WritePublish(w)
      PROVE  Log!Next
  <2>1. rec[w] \in Records
    BY <1>t DEF TypeWriter
  <2>2. Inside(ent[w]) = {}
    BY <1>2 DEF RingInv, WriterOwnsEntry, WritePublish, Working
  <2>3. Cursor' = Cursor
    <3>1. UNCHANGED <<rpc, read_pos, last_read_sequence>>
      BY <1>2 DEF WritePublish, reader
    <3>2. ASSUME NEW r \in Readers, Copying(r) PROVE sequence'[read_pos[r]] = sequence[read_pos[r]]
      <4>1. read_pos[r] # ent[w]
        BY <2>2, <3>2 DEF Inside, Copying
      <4> QED BY <1>2, <1>t, <4>1 DEF WritePublish, TypeShm, TypeReader
    <3> QED BY <3>1, <3>2, CursorKept
  <2>4. QED BY <1>2, <2>1, <2>3 DEF WritePublish, reader, Log!Next, Log!Write
<1>3. ASSUME NEW r \in Readers,
             ReadCall(r) \/ ReadEof(r) \/ ReadEnter(r) \/ ReadTest(r) \/ ReadAdd(r) \/ ReadStore(r)
               \/ ReadLeave(r)
      PROVE  UNCHANGED Log!vars
  <2>1. UNCHANGED <<log, got, sequence>>
    BY <1>3 DEF ReadCall, ReadEof, ReadEnter, ReadTest, ReadAdd, ReadStore, ReadLeave, shm, entries
  <2>2. \A q \in Readers \ {r} : /\ rpc'[q] = rpc[q] /\ read_pos'[q] = read_pos[q]
                                   /\ last_read_sequence'[q] = last_read_sequence[q]
    BY <1>3, <1>t DEF ReadCall, ReadEof, ReadEnter, ReadTest, ReadAdd, ReadStore, ReadLeave, TypeReader
  <2>3. Cursor'[r] = Cursor[r]
    <3>1. CASE ReadCall(r) \/ ReadEof(r) \/ ReadEnter(r) \/ ReadLeave(r)
      <4>1. /\ rpc[r] \notin {"test", "add", "store"} /\ rpc'[r] \notin {"test", "add", "store"}
            /\ last_read_sequence' = last_read_sequence
        BY <3>1, <1>t DEF ReadCall, ReadEof, ReadEnter, ReadLeave, TypeReader
      <4> QED BY <4>1 DEF Cursor
    <3>2. CASE ReadTest(r) \/ ReadAdd(r)
      <4>1. /\ rpc[r] \in {"test", "add", "store"} /\ rpc'[r] \in {"test", "add", "store"}
            /\ read_pos' = read_pos
        BY <3>2, <1>t DEF ReadTest, ReadAdd, TypeReader
      <4> QED BY <2>1, <4>1 DEF Cursor
    <3>3. CASE ReadStore(r)
      <4>1. /\ rpc[r] = "store" /\ rpc'[r] = "leave"
            /\ last_read_sequence'[r] = sequence[read_pos[r]]
        BY <3>3, <1>t DEF ReadStore, TypeReader
      <4> QED BY <4>1 DEF Cursor
    <3> QED BY <1>3, <3>1, <3>2, <3>3
  <2>4. Cursor' = Cursor
    BY <2>1, <2>2, <2>3 DEF Cursor
  <2> QED BY <2>1, <2>4
<1>6. ASSUME NEW r \in Readers, ReaderCrash(r), PatientReaders
      PROVE  FALSE
  BY <1>6 DEF ReaderCrash, PatientReaders
<1>4. ASSUME NEW w \in Writers,
             WriteCall(w) \/ WriteSpin(w) \/ WriteEnter(w) \/ WriteFill(w) \/ WriteFail(w) \/ WriterCrash(w)
      PROVE  UNCHANGED Log!vars
  <2>1. UNCHANGED <<log, got, sequence, rpc, read_pos, last_read_sequence>>
    BY <1>4 DEF WriteCall, WriteSpin, WriteEnter, WriteFill, WriteFail, WriterCrash, reader, shm, entries
  <2> QED BY <2>1, CursorKept
<1>5. CASE UNCHANGED vars
  <2>1. UNCHANGED <<log, got, sequence, rpc, read_pos, last_read_sequence>>
    BY <1>5 DEF vars, reader, shm, entries
  <2> QED BY <2>1, CursorKept
<1>7. QED BY <1>1, <1>2, <1>3, <1>4, <1>5, <1>6 DEF Next, ReadStep, WriteStep

\* Under the same conditions the ring implements the abstract log: whatever
\* the interleaving, lnf_ring_read delivers published records whole, in
\* order and at most once.
THEOREM RingImplementsLog ==
  ASSUME OneWriter, PatientReaders
  PROVE  Spec => ImplementsLog
<1>1. Init => Log!Init
  BY DEF Init, Log!Init, Cursor
<1>2. RingInv /\ [Next]_vars => [Log!Next]_(Log!vars)
  BY StepImplementsLog
<1>3. QED BY <1>1, <1>2, RingInvariant, PTL DEF Spec, ImplementsLog, Log!Spec
-----------------------------------------------------------------------------
(***************************************************************************)
(* Theorems that need nothing of the readers: they may be dead or slow.    *)
(* Losses are reported, with any number of writers; and with one writer    *)
(* the newest records stay readable.                                       *)
(***************************************************************************)

-----------------------------------------------------------------------------
(***************************************************************************)
(* Positions in the ring                                                   *)
(***************************************************************************)

\* The remainder is a slot, and what is left is a multiple of Size.
LEMMA Division ==
  \A n \in Nat : /\ n % Size \in 0 .. Size - 1
                 /\ n \div Size \in Nat
                 /\ n = Size * (n \div Size) + (n % Size)
  BY SizeAssumption

\* A number is in one way only a multiple of Size and a slot.
LEMMA DivisionUnique ==
  ASSUME NEW q \in Int, NEW p \in Int, NEW i \in 0 .. Size - 1, NEW j \in 0 .. Size - 1,
         Size * q + i = Size * p + j
  PROVE  q = p /\ i = j
  BY SizeAssumption

\* The remainder of a multiple of Size and a slot is that slot.
LEMMA RemainderOf ==
  ASSUME NEW n \in Nat, NEW q \in Nat, NEW i \in 0 .. Size - 1, n = Size * q + i
  PROVE  n % Size = i
<1>1. Size * (n \div Size) + (n % Size) = Size * q + i
  BY Division
<1>2. n \div Size \in Int /\ q \in Int /\ n % Size \in 0 .. Size - 1
  BY Division
<1> QED BY <1>1, <1>2, DivisionUnique

\* lnf_ring_next goes from the entry of the n-th record to that of the next.
LEMMA NextIsRemainder ==
  ASSUME NEW n \in Nat
  PROVE  (n + 1) % Size = RingNext(n % Size)
<1> DEFINE q == n \div Size  i == n % Size
<1>1. i \in 0 .. Size - 1 /\ q \in Nat /\ n = Size * q + i
  BY Division
<1> HIDE DEF q
<1>2. CASE i + 1 >= Size
  <2>1. i + 1 = Size
    BY <1>1, <1>2, SizeAssumption
  <2>2. n + 1 = Size * (q + 1) + 0
    BY <1>1, <2>1, SizeAssumption
  <2>3. q + 1 \in Nat /\ 0 \in 0 .. Size - 1 /\ n + 1 \in Nat
    BY <1>1, SizeAssumption
  <2>4. (n + 1) % Size = 0
    BY <2>2, <2>3, RemainderOf
  <2> QED BY <2>4, <1>2 DEF RingNext
<1>3. CASE ~ (i + 1 >= Size)
  <2>1. n + 1 = Size * q + (i + 1)
    BY <1>1, SizeAssumption
  <2>2. i + 1 \in 0 .. Size - 1 /\ n + 1 \in Nat
    BY <1>1, <1>3, SizeAssumption
  <2>3. (n + 1) % Size = i + 1
    BY <2>1, <2>2, <1>1, RemainderOf
  <2> QED BY <2>3, <1>3 DEF RingNext
<1> QED BY <1>2, <1>3

\* Records that are less than a turn apart are in different entries.
LEMMA TurnsApart ==
  ASSUME NEW m \in Nat, NEW n \in Nat, m < n, n - m < Size
  PROVE  m % Size # n % Size
<1> SUFFICES ASSUME m % Size = n % Size PROVE FALSE
  OBVIOUS
<1> DEFINE p == m \div Size  q == n \div Size
<1>1. p \in Nat /\ q \in Nat /\ n - m = Size * q - Size * p
  BY Division, SizeAssumption
<1> HIDE DEF p, q
<1>2. n - m = Size * (q - p)
  BY <1>1, SizeAssumption
<1>3. q - p >= 1 => Size * (q - p) >= Size
  BY <1>1, SizeAssumption
<1>4. q - p <= 0 => Size * (q - p) <= 0
  BY <1>1, SizeAssumption
<1> QED BY <1>1, <1>2, <1>3, <1>4, SizeAssumption

-----------------------------------------------------------------------------
(***************************************************************************)
(* Losses                                                                  *)
(***************************************************************************)

SequencesGrow == \A i \in Slots : sequence[i] <= last_write_sequence

\* What a reader that has not been overrun is copying is newer than what it
\* has read.
CopiesNewer ==
  \A r \in Readers \ overrun : Copying(r) => sequence[read_pos[r]] > last_read_sequence[r]

LeavesWithOk ==
  "set_raw" \notin Faults => \A r \in Readers : rpc[r] \in {"test", "add", "store", "leave"} => ret[r] = "LNF_OK"

\* Where the counter stands at each step of lnf_ring_read, for the sequence s
\* of the entry: a gap is added before last_read_sequence moves over it, and
\* total_counter is the last to move.
Accounted(r) ==
  LET s == sequence[read_pos[r]]
      l == last_read_sequence[r]
      n == total_counter[r]
      lost == lost_counter[r]
  IN  /\ rpc[r] \in {"idle", "wait", "copy", "test", "add"} =>
           l - n >= 0 /\ lost >= l - n /\ (l - n = 0 => lost = 0)
      /\ rpc[r] = "add" => l + 1 # s
      /\ rpc[r] = "store" => /\ l - n >= 0 /\ lost >= s - n - 1
                             /\ s - n - 1 = 0 => lost = 0
      /\ rpc[r] = "leave" => /\ l - n - 1 >= 0 /\ lost >= l - n - 1
                             /\ l - n - 1 = 0 => lost = 0

AllAccounted == "set_raw" \notin Faults => \A r \in Readers \ overrun : Accounted(r)

LossInv == TypeOK /\ SequencesGrow /\ CopiesNewer /\ LeavesWithOk /\ AllAccounted

\* A step of a reader leaves its own account in order: what is copied is newer
\* than what was read before, and the gap is added to the counter.
LEMMA AccountKept ==
  ASSUME LossInv, TypeOK', NEW r \in Readers \ overrun, "set_raw" \notin Faults, ReadCall(r) \/ ReadStep(r)
  PROVE  Accounted(r)' /\ (Copying(r)' => sequence'[read_pos'[r]] > last_read_sequence'[r])
<1> DEFINE s == sequence[read_pos[r]]  l == last_read_sequence[r]
           n == total_counter[r]       lost == lost_counter[r]
<1>t. TypeShm /\ TypeReader
  BY DEF LossInv, TypeOK
<1>1. s \in Nat /\ l \in Nat /\ n \in Nat /\ lost \in Int
  BY <1>t DEF TypeShm, TypeReader
<1>2. Accounted(r) /\ (Copying(r) => s > l)
  BY DEF LossInv, AllAccounted, CopiesNewer
<1>3. sequence' = sequence
  BY DEF ReadCall, ReadStep, ReadEof, ReadEnter, ReadCopy, ReadTest, ReadAdd, ReadStore, ReadLeave, shm, entries
<1> HIDE DEF s, l, n, lost
<1>4. CASE ReadCall(r) \/ ReadEof(r) \/ ReadEnter(r) \/ ReadCopy(r) \/ ReadTest(r)
  <2>1. UNCHANGED <<read_pos, last_read_sequence, total_counter, lost_counter>>
    BY <1>4 DEF ReadCall, ReadEof, ReadEnter, ReadCopy, ReadTest
  <2>2. CASE ReadCall(r) \/ ReadEof(r) \/ ReadEnter(r) \/ ReadCopy(r)
    <3>1. /\ rpc[r] \in {"idle", "wait", "copy"} /\ rpc'[r] \in {"idle", "wait", "copy", "test"}
          /\ rpc'[r] \in {"copy", "test"} => s > l
      BY <2>2, <1>2, <1>t DEF ReadCall, ReadEof, ReadEnter, ReadCopy, Ready, Copying, TypeReader, s, l
    <3> QED BY <3>1, <2>1, <1>1, <1>2, <1>3 DEF Accounted, Copying, s, l, n, lost
  <2>3. CASE ReadTest(r)
    <3>1. rpc[r] = "test" /\ rpc'[r] = IF l + 1 # s THEN "add" ELSE "store"
      BY <2>3, <1>t DEF ReadTest, TypeReader, s, l
    <3>2. s > l /\ l - n >= 0 /\ lost >= l - n /\ (l - n = 0 => lost = 0)
      BY <3>1, <1>2 DEF Accounted, Copying, s, l, n, lost
    <3>3. CASE l + 1 # s
      <4>1. rpc'[r] = "add"
        BY <3>1, <3>3
      <4> QED BY <4>1, <3>2, <3>3, <2>1, <1>3 DEF Accounted, Copying, s, l, n, lost
    <3>4. CASE l + 1 = s
      <4>1. rpc'[r] = "store"
        BY <3>1, <3>4
      <4>2. s - n - 1 = l - n
        BY <3>4, <1>1
      <4> QED BY <4>1, <4>2, <3>2, <2>1, <1>3 DEF Accounted, Copying, s, l, n, lost
    <3> QED BY <3>3, <3>4
  <2> QED BY <1>4, <2>2, <2>3
<1>5. CASE ReadAdd(r)
  <2>1. /\ rpc[r] = "add" /\ rpc'[r] = "store" /\ lost_counter'[r] = lost + LostIncrement(s, l)
        /\ UNCHANGED <<read_pos, last_read_sequence, total_counter>>
    BY <1>5, <1>t DEF ReadAdd, TypeReader, s, l, lost
  <2>2. s > l /\ l + 1 # s /\ l - n >= 0 /\ lost >= l - n
    BY <2>1, <1>2 DEF Accounted, Copying, s, l, n, lost
  <2>3. lost_counter'[r] >= s - n - 1 /\ s - n - 1 # 0
    BY <2>1, <2>2, <1>1 DEF LostIncrement
  <2> QED BY <2>1, <2>2, <2>3, <1>3 DEF Accounted, Copying, s, l, n, lost
<1>6. CASE ReadStore(r)
  <2>1. /\ rpc[r] = "store" /\ rpc'[r] = "leave" /\ last_read_sequence'[r] = s
        /\ UNCHANGED <<read_pos, lost_counter, total_counter>>
    BY <1>6, <1>t DEF ReadStore, TypeReader, s
  <2>2. s > l /\ l - n >= 0 /\ lost >= s - n - 1 /\ (s - n - 1 = 0 => lost = 0)
    BY <2>1, <1>2 DEF Accounted, Copying, s, l, n, lost
  <2>3. s - n - 1 >= 0
    BY <2>2, <1>1
  <2> QED BY <2>1, <2>2, <2>3 DEF Accounted, Copying, n, lost
<1>7. CASE ReadLeave(r)
  <2>1. /\ rpc[r] = "leave" /\ rpc'[r] = "idle" /\ ret[r] = "LNF_OK"
        /\ UNCHANGED <<last_read_sequence, lost_counter>>
    BY <1>7, <1>t DEF ReadLeave, LossInv, LeavesWithOk, TypeReader
  <2>2. total_counter'[r] = n + 1
    BY <1>7, <2>1, <1>t DEF ReadLeave, TypeReader, n
  <2>3. l - n - 1 >= 0 /\ lost >= l - n - 1 /\ (l - n - 1 = 0 => lost = 0)
    BY <2>1, <1>2 DEF Accounted, l, n, lost
  <2>4. l - (n + 1) >= 0 /\ lost >= l - (n + 1) /\ (l - (n + 1) = 0 => lost = 0)
    BY <2>3, <1>1
  <2> QED BY <2>1, <2>2, <2>4 DEF Accounted, Copying, l, lost
<1> QED BY <1>4, <1>5, <1>6, <1>7 DEF ReadStep

\* The steps of readers keep the invariant.
LEMMA LossReader ==
  ASSUME LossInv, TypeOK', NEW r \in Readers, ReadCall(r) \/ ReadStep(r) \/ ReaderCrash(r)
  PROVE  LossInv'
<1>t. TypeShm /\ TypeReader
  BY DEF LossInv, TypeOK
<1> USE DEF ReadCall, ReadStep, ReadEof, ReadEnter, ReadCopy, ReadTest, ReadAdd, ReadStore, ReadLeave, ReaderCrash
<1>1. UNCHANGED <<sequence, last_write_sequence, overrun>>
  BY DEF shm, entries
<1>3. \A q \in Readers \ {r} : /\ rpc'[q] = rpc[q] /\ ret'[q] = ret[q] /\ read_pos'[q] = read_pos[q]
                                /\ last_read_sequence'[q] = last_read_sequence[q]
                                /\ lost_counter'[q] = lost_counter[q] /\ total_counter'[q] = total_counter[q]
  BY <1>t DEF TypeReader
<1>4. SequencesGrow'
  BY <1>1 DEF LossInv, SequencesGrow
<1>5. LeavesWithOk'
  <2> SUFFICES ASSUME "set_raw" \notin Faults, rpc'[r] \in {"test", "add", "store", "leave"}
               PROVE  ret'[r] = "LNF_OK"
    BY <1>3 DEF LossInv, LeavesWithOk
  <2>1. CASE ReadCopy(r)
    BY <2>1, <1>t DEF TypeReader
  <2>2. CASE ~ ReadCopy(r)
    <3>1. ret' = ret /\ rpc[r] \in {"test", "add", "store"}
      BY <2>2, <1>t DEF TypeReader
    <3> QED BY <3>1 DEF LossInv, LeavesWithOk
  <2> QED BY <2>1, <2>2
<1>6. CopiesNewer'
  <2> SUFFICES ASSUME r \notin overrun, Copying(r)' PROVE sequence[read_pos'[r]] > last_read_sequence'[r]
    BY <1>1, <1>3 DEF LossInv, CopiesNewer, Copying
  <2>1. UNCHANGED <<read_pos, last_read_sequence>>
    BY <1>t DEF Copying, TypeReader
  <2>2. Copying(r) \/ ReadEnter(r)
    BY <1>t DEF Copying, TypeReader
  <2> QED BY <2>1, <2>2 DEF LossInv, CopiesNewer, Ready
<1>7. AllAccounted'
  <2> SUFFICES ASSUME "set_raw" \notin Faults, NEW q \in Readers \ overrun PROVE Accounted(q)'
    BY <1>1 DEF AllAccounted
  <2>1. CASE q # r
    BY <1>1, <1>3, <2>1 DEF LossInv, AllAccounted, Accounted
  <2>2. CASE q = r /\ ReaderCrash(r)
    <3>1. rpc'[r] = "dead"
      BY <2>2, <1>t DEF TypeReader
    <3> QED BY <2>2, <3>1 DEF Accounted
  <2>3. CASE q = r /\ ~ ReaderCrash(r)
    <3>1. ReadCall(r) \/ ReadStep(r)
      BY <2>3
    <3> HIDE DEF ReadCall, ReadStep
    <3> QED BY <2>3, <3>1, AccountKept
  <2> QED BY <2>1, <2>2, <2>3
<1> QED BY <1>4, <1>5, <1>6, <1>7 DEF LossInv

\* The steps of writers, however many there are: a sequence only grows, and
\* the readers whose entry gets a new one are overrun.
LEMMA LossWriter ==
  ASSUME LossInv, TypeOK', NEW w \in Writers, WriteCall(w) \/ WriteStep(w) \/ WriterCrash(w)
  PROVE  LossInv'
<1> USE DEF LossInv
<1>t. TypeShm /\ TypeReader /\ TypeWriter /\ TypeShm' /\ TypeReader'
  BY DEF TypeOK
<1>1. UNCHANGED <<rpc, ret, read_pos, last_read_sequence, lost_counter, total_counter>>
  BY DEF WriteCall, WriteStep, WriteSpin, WriteEnter, WriteFill, WriteFail, WritePublish, WriterCrash, reader
<1>2. LeavesWithOk'
  BY <1>1 DEF LeavesWithOk
<1>3. /\ last_write_sequence' >= last_write_sequence
      /\ \A i \in Slots : sequence'[i] <= last_write_sequence'
      /\ overrun \subseteq overrun'
      /\ \A r \in Readers \ overrun' :
           (Copying(r) \/ rpc[r] = "leave") => sequence'[read_pos[r]] = sequence[read_pos[r]]
  <2>1. CASE WritePublish(w)
    <3>1. /\ last_write_sequence' = last_write_sequence + 1
          /\ sequence' = [sequence EXCEPT ![ent[w]] = last_write_sequence + 1]
          /\ overrun' = overrun \cup Inside(ent[w])
      BY <2>1 DEF WritePublish
    <3>2. last_write_sequence \in Nat /\ sequence \in [Slots -> Nat] /\ ent[w] \in Slots
      BY <1>t DEF TypeShm, TypeWriter
    <3>3. ASSUME NEW r \in Readers \ overrun', Copying(r) \/ rpc[r] = "leave"
          PROVE  sequence'[read_pos[r]] = sequence[read_pos[r]]
      <4>1. read_pos[r] # ent[w] /\ read_pos[r] \in Slots
        BY <3>1, <3>3, <1>t DEF Inside, Copying, TypeReader
      <4> QED BY <3>1, <3>2, <4>1
    <3>4. \A i \in Slots : sequence'[i] <= last_write_sequence'
      BY <3>1, <3>2 DEF SequencesGrow
    <3> QED BY <3>1, <3>2, <3>3, <3>4
  <2>2. CASE ~ WritePublish(w)
    <3>1. UNCHANGED <<sequence, last_write_sequence, overrun>>
      BY <2>2 DEF WriteCall, WriteStep, WriteSpin, WriteEnter, WriteFill, WriteFail, WriterCrash, shm, entries
    <3>2. last_write_sequence \in Nat /\ sequence \in [Slots -> Nat]
      BY <1>t DEF TypeShm
    <3> QED BY <3>1, <3>2 DEF SequencesGrow
  <2> QED BY <2>1, <2>2
<1>4. SequencesGrow'
  BY <1>3 DEF SequencesGrow
<1>5. CopiesNewer'
  BY <1>1, <1>3 DEF CopiesNewer, Copying
<1>6. AllAccounted'
  <2> SUFFICES ASSUME "set_raw" \notin Faults, NEW r \in Readers \ overrun' PROVE Accounted(r)'
    BY DEF AllAccounted
  <2>1. Accounted(r)
    BY <1>3 DEF AllAccounted
  <2>2. CASE Copying(r)
    BY <1>1, <1>3, <2>1, <2>2 DEF Accounted
  <2>3. CASE ~ Copying(r)
    BY <1>1, <2>1, <2>3 DEF Accounted, Copying
  <2> QED BY <2>2, <2>3
<1> QED BY <1>2, <1>4, <1>5, <1>6

\* The invariant that makes the counter right.
THEOREM LossInvariant == Spec => []LossInv
<1>1. Init => LossInv
  <2> SUFFICES ASSUME Init PROVE LossInv
    OBVIOUS
  <2>1. TypeOK
    BY SizeAssumption, BoundsAssumption, SlotsNext DEF Init, TypeOK, TypeShm, TypeReader, TypeWriter
  <2> QED BY <2>1 DEF Init, LossInv, SequencesGrow, CopiesNewer, Copying, LeavesWithOk, AllAccounted, Accounted
<1>2. LossInv /\ [Next]_vars => LossInv'
  <2> SUFFICES ASSUME LossInv, [Next]_vars PROVE LossInv'
    OBVIOUS
  <2>1. TypeOK'
    BY TypeStep DEF LossInv
  <2>2. CASE UNCHANGED vars
    BY <2>1, <2>2 DEF LossInv, SequencesGrow, CopiesNewer, Copying, LeavesWithOk, AllAccounted, Accounted,
                      vars, shm, entries, reader
  <2> QED BY <2>1, <2>2, LossReader, LossWriter DEF Next
<1> QED BY <1>1, <1>2, PTL DEF Spec

\* No reader misses a record without lost_counter saying so, and it never
\* says fewer than were missed: for any number of writers and readers, dead or
\* slow, as long as no record is published in the entry lnf_ring_read is in.
THEOREM LossIsReportedHolds == Spec => []LossIsReported
<1>1. LossInv => LossIsReported
  BY DEF LossInv, AllAccounted, Accounted, LossIsReported, Reported
<1> QED BY <1>1, LossInvariant, PTL

-----------------------------------------------------------------------------
(***************************************************************************)
(* The window                                                              *)
(***************************************************************************)

Numbered == write_pos = last_write_sequence % Size /\ last_write_sequence = Len(log)

WriterAtPosition ==
  \A w \in Writers :
    /\ Working(w) => ent[w] = write_pos /\ status[write_pos] = "WRITE"
    /\ wpc[w] = "publish" => data[write_pos] = rec[w]

WindowInv == TypeOK /\ Numbered /\ WriterAtPosition /\ WindowIntact

\* Readers leave everything alone that the invariant is about.
LEMMA WindowReader ==
  ASSUME WindowInv, TypeOK', UNCHANGED <<status, sequence, data, write_pos, last_write_sequence, writer, log>>
  PROVE  WindowInv'
  BY DEF WindowInv, Numbered, WriterAtPosition, WindowIntact, Working, writer

\* A writer at work touches only the entry at write_pos, which the window does
\* not need; publishing puts the newest record there and moves the window on.
LEMMA WindowWriter ==
  ASSUME OneWriter, WindowInv, TypeOK', NEW w \in Writers, WriteCall(w) \/ WriteStep(w) \/ WriterCrash(w)
  PROVE  WindowInv'
<1> USE DEF WindowInv
<1>t. TypeShm /\ TypeWriter /\ TypeShm' /\ TypeWriter'
  BY DEF TypeOK
<1>w. Writers = {w}
  BY DEF OneWriter
<1>1. CASE WriteCall(w) \/ WriteSpin(w) \/ WriterCrash(w)
  <2>1. UNCHANGED <<status, sequence, data, write_pos, last_write_sequence, log, ent>>
    BY <1>1 DEF WriteCall, WriteSpin, WriterCrash, shm, entries
  <2>2. ~ Working(w)' /\ wpc'[w] # "publish"
    BY <1>1, <1>t DEF WriteCall, WriteSpin, WriterCrash, Working, TypeWriter
  <2>3. Numbered' /\ WriterAtPosition'
    BY <1>w, <2>1, <2>2 DEF Numbered, WriterAtPosition
  <2>4. WindowIntact'
    BY <2>1 DEF WindowIntact
  <2> QED BY <2>3, <2>4
<1>2. CASE WriteEnter(w)
  <2>1. UNCHANGED <<sequence, write_pos, last_write_sequence, log, rec>>
    BY <1>2 DEF WriteEnter
  <2>2. /\ wpc'[w] = "fill" /\ ent'[w] = write_pos /\ status'[write_pos] = "WRITE"
        /\ \A i \in Slots \ {write_pos} : status'[i] = status[i] /\ data'[i] = data[i]
    BY <1>2, <1>t DEF WriteEnter, TypeShm, TypeWriter
  <2>3. Numbered' /\ WriterAtPosition'
    BY <1>w, <2>1, <2>2 DEF Numbered, WriterAtPosition, Working
  <2>4. WindowIntact'
    <3> SUFFICES ASSUME NEW s \in 1 .. last_write_sequence, s > last_write_sequence - Size,
                        NEW i \in Slots, i = (s - 1) % Size
                 PROVE  \/ status'[i] = "READ" /\ sequence[i] = s /\ data'[i] = log[s]
                        \/ i = write_pos /\ status'[i] # "READ"
      <4>1. last_write_sequence \in Nat
        BY <1>t DEF TypeShm
      <4>2. \A s \in 1 .. last_write_sequence : (s - 1) % Size \in Slots
        BY <4>1, Division DEF Slots
      <4> QED BY <2>1, <4>2 DEF WindowIntact
    <3> QED BY <2>2 DEF WindowIntact
  <2> QED BY <2>3, <2>4
<1>3. CASE WriteFill(w) \/ WriteFail(w)
  <2>1. UNCHANGED <<sequence, write_pos, last_write_sequence, log, rec, ent>>
    BY <1>3 DEF WriteFill, WriteFail
  <2>2. ent[w] = write_pos /\ status[write_pos] = "WRITE"
    BY <1>3 DEF WriteFill, WriteFail, WriterAtPosition, Working
  <2>3. /\ status'[write_pos] # "READ"
        /\ \A i \in Slots \ {write_pos} : status'[i] = status[i] /\ data'[i] = data[i]
    BY <1>3, <1>t, <2>2 DEF WriteFill, WriteFail, TypeShm, TypeWriter
  <2>4. WriterAtPosition'
    <3>1. CASE WriteFill(w)
      <4>1. status' = status /\ wpc'[w] \in {"publish", "fail"}
        BY <3>1, <1>t DEF WriteFill, TypeWriter
      <4>2. wpc'[w] = "publish" => data'[write_pos] = rec[w]
        BY <3>1, <1>t, <1>w, <2>2 DEF WriteFill, TypeShm, TypeWriter
      <4> QED BY <1>w, <2>1, <2>2, <4>1, <4>2 DEF WriterAtPosition, Working
    <3>2. CASE WriteFail(w)
      <4>1. wpc'[w] = "idle"
        BY <3>2, <1>t DEF WriteFail, TypeWriter
      <4> QED BY <1>w, <4>1 DEF WriterAtPosition, Working
    <3> QED BY <1>3, <3>1, <3>2
  <2>5. WindowIntact'
    <3> SUFFICES ASSUME NEW s \in 1 .. last_write_sequence, s > last_write_sequence - Size,
                        NEW i \in Slots, i = (s - 1) % Size
                 PROVE  \/ status'[i] = "READ" /\ sequence[i] = s /\ data'[i] = log[s]
                        \/ i = write_pos /\ status'[i] # "READ"
      <4>1. last_write_sequence \in Nat
        BY <1>t DEF TypeShm
      <4>2. \A s \in 1 .. last_write_sequence : (s - 1) % Size \in Slots
        BY <4>1, Division DEF Slots
      <4> QED BY <2>1, <4>2 DEF WindowIntact
    <3> QED BY <2>3 DEF WindowIntact
  <2>6. Numbered'
    BY <2>1 DEF Numbered
  <2> QED BY <2>4, <2>5, <2>6
<1>4. CASE WritePublish(w)
  <2> DEFINE n == last_write_sequence
  <2>1. n \in Nat /\ n = Len(log) /\ write_pos = n % Size /\ ent[w] = write_pos /\ data[write_pos] = rec[w]
    BY <1>4, <1>t DEF WritePublish, Numbered, WriterAtPosition, Working, TypeShm
  <2>2. /\ last_write_sequence' = n + 1 /\ data' = data /\ write_pos' = RingNext(write_pos)
        /\ log' = Append(log, rec[w]) /\ wpc'[w] = "idle"
    BY <1>4, <1>t DEF WritePublish, TypeWriter
  <2>3. /\ status'[write_pos] = "READ" /\ sequence'[write_pos] = n + 1
        /\ \A i \in Slots \ {write_pos} : status'[i] = status[i] /\ sequence'[i] = sequence[i]
    BY <1>4, <1>t, <2>1 DEF WritePublish, TypeShm, TypeWriter
  <2>4. /\ Len(log') = n + 1 /\ log'[n + 1] = rec[w]
        /\ \A s \in 1 .. n : log'[s] = log[s]
    BY <1>t, <2>1, <2>2 DEF TypeShm, TypeWriter
  <2>5. Numbered'
    BY <2>1, <2>2, <2>4, NextIsRemainder DEF Numbered
  <2>6. WriterAtPosition'
    BY <1>w, <2>2 DEF WriterAtPosition, Working
  <2>7. ASSUME NEW s, s \in 1 .. last_write_sequence', s > last_write_sequence' - Size,
               NEW i, i = (s - 1) % Size
        PROVE  status'[i] = "READ" /\ sequence'[i] = s /\ data'[i] = log'[s]
    <3>0. s \in 1 .. n + 1 /\ s > n + 1 - Size
      <4>1. n \in Nat /\ last_write_sequence' = n + 1
        BY <2>1, <2>2
      <4> HIDE DEF n
      <4> QED BY <4>1, <2>7, SizeAssumption
    <3>1. CASE s = n + 1
      <4>1. i = write_pos
        BY <3>1, <2>1, <2>7
      <4> QED BY <4>1, <3>1, <2>1, <2>2, <2>3, <2>4
    <3>2. CASE s # n + 1
      <4>1. s \in 1 .. n /\ s - 1 \in Nat /\ s - 1 < n /\ n - (s - 1) < Size /\ s > n - Size
        BY <3>0, <3>2, <2>1, SizeAssumption
      <4>2. i # write_pos /\ i \in Slots
        BY <4>1, <2>1, <2>7, TurnsApart, Division DEF Slots
      <4>3. status[i] = "READ" /\ sequence[i] = s /\ data[i] = log[s]
        BY <4>1, <4>2, <2>7 DEF WindowIntact
      <4> QED BY <4>1, <4>2, <4>3, <2>2, <2>3, <2>4
    <3> QED BY <3>1, <3>2
  <2>8. WindowIntact'
    <3> HIDE DEF n
    <3> QED BY <2>7 DEF WindowIntact
  <2> QED BY <2>5, <2>6, <2>8
<1> QED BY <1>1, <1>2, <1>3, <1>4 DEF WriteStep

\* The invariant of a ring with one writer, whatever its readers do.
THEOREM WindowInvariant == ASSUME OneWriter PROVE Spec => []WindowInv
<1>1. Init => WindowInv
  <2> SUFFICES ASSUME Init PROVE WindowInv
    OBVIOUS
  <2>1. TypeOK
    BY SizeAssumption, BoundsAssumption, SlotsNext DEF Init, TypeOK, TypeShm, TypeReader, TypeWriter
  <2>2. 0 % Size = 0
    BY SizeAssumption, RemainderOf
  <2> QED BY <2>1, <2>2 DEF Init, WindowInv, Numbered, WriterAtPosition, Working, WindowIntact
<1>2. WindowInv /\ [Next]_vars => WindowInv'
  <2> SUFFICES ASSUME WindowInv, [Next]_vars PROVE WindowInv'
    OBVIOUS
  <2>1. TypeOK'
    BY TypeStep DEF WindowInv
  <2>2. CASE UNCHANGED vars
    BY <2>1, <2>2, WindowReader DEF vars, shm, entries
  <2>3. ASSUME NEW r \in Readers, ReadCall(r) \/ ReadStep(r) \/ ReaderCrash(r) PROVE WindowInv'
    <3>1. UNCHANGED <<status, sequence, data, write_pos, last_write_sequence, writer, log>>
      BY <2>3 DEF ReadCall, ReadStep, ReadEof, ReadEnter, ReadCopy, ReadTest, ReadAdd, ReadStore, ReadLeave, ReaderCrash, shm, entries
    <3> QED BY <2>1, <3>1, WindowReader
  <2> QED BY <2>1, <2>2, <2>3, WindowWriter DEF Next
<1> QED BY <1>1, <1>2, PTL DEF Spec

\* The newest Size records stay readable, each in its entry, but for the one
\* the next write reuses: for every ring size, with one writer that may be
\* killed and restarted anywhere in lnf_ring_write, and readers of any kind.
THEOREM WindowIntactHolds == ASSUME OneWriter PROVE Spec => []WindowIntact
<1>1. WindowInv => WindowIntact
  BY DEF WindowInv
<1> QED BY <1>1, WindowInvariant, PTL
=============================================================================
