---------------------------- MODULE NfFileProofs ----------------------------
(***************************************************************************)
(* Theorems about NfFile, for every set of extensions, exporters, flags    *)
(* and files of other programs, every size of a block and every bound.     *)
(*   MutexInv - who is inside a critical section, and holds the mutex;     *)
(*   FileInv  - each file is sound with what the writer has in its buffer, *)
(*              and the writer's handle describes the file it writes: its  *)
(*              maps and exporters are the last of their ids there, and    *)
(*              its counts are those of the records it has written.        *)
(* The way to FileInv is from the entry to the system: what one entry put  *)
(* behind the others changes (Extends), what one call does to a handle     *)
(* (StateSound), what a step does to all files.  What a reader gets of a   *)
(* file (ReadInv) is the last part.                                        *)
(***************************************************************************)
EXTENDS NfFile, NatFacts, FunctionTheorems

\* Inside lnf_open and lnf_filter_init_v1, and all places of a thread.

Critical == {"nffile", "init", "filter"}
Pcs == Critical \cup {"closed", "lock", "lock2", "open", "reading", "stat", "reopen", "dead"}

MutexInv ==
  /\ mutex \in Threads \cup {Nobody}
  /\ pc \in [Threads -> Pcs]
  /\ \A t \in Threads : pc[t] \in Critical => mutex = t
  /\ MutexReturned

\* The threads are told from nobody.
LEMMA NobodyIs == Nobody \notin Threads
  BY DEF Nobody, Threads

\* At the beginning nobody holds the mutex.
LEMMA MutexInit == Init => MutexInv
  BY NobodyIs DEF Init, MutexInv, MutexReturned, Pcs, Critical

\* A thread that does nothing about the mutex stays outside the critical sections.
LEMMA MutexKept ==
  ASSUME MutexInv, NEW t \in Threads, pc[t] \notin Critical, NEW to \in Pcs \ Critical,
         pc' = [pc EXCEPT ![t] = to], UNCHANGED <<mutex, broken>>, pc[t] # "dead"
  PROVE  MutexInv'
  BY DEF MutexInv, MutexReturned, Critical

\* The mutex is taken.
LEMMA MutexTaken ==
  ASSUME MutexInv, NEW t \in Threads, NEW from, NEW to \in Critical, Lock(t, from, to), UNCHANGED broken
  PROVE  MutexInv'
  BY NobodyIs DEF MutexInv, MutexReturned, Lock, Critical, Pcs

\* The mutex is given back by the thread in the critical section.
LEMMA MutexGiven ==
  ASSUME MutexInv, NEW t \in Threads, pc[t] \in Critical, NEW to \in Pcs \ Critical,
         pc' = [pc EXCEPT ![t] = to], mutex' = Nobody
  PROVE  MutexInv'
  BY NobodyIs DEF MutexInv, MutexReturned, Critical

\* Every step keeps the invariant.
LEMMA MutexStep == MutexInv /\ [Next]_vars => MutexInv'
<1> SUFFICES ASSUME MutexInv, [Next]_vars PROVE MutexInv'
  OBVIOUS
<1>a. pc \in [Threads -> Pcs] /\ Threads = {"W", "R"}
  BY DEF MutexInv, Threads
<1>1. CASE UNCHANGED vars
  BY <1>1 DEF vars, MutexInv, MutexReturned
<1>2. CASE \E blocks \in Contents : PutInPlace(blocks)
  BY <1>2 DEF PutInPlace, MutexInv, MutexReturned
<1>3. CASE Unlink \/ (\E exts \in Exts : WriteNoMem(exts))
  BY <1>3 DEF Unlink, WriteNoMem, MutexInv, MutexReturned
<1>4. ASSUME NEW t \in Threads, FilterLock(t) \/ OpenCall(t) PROVE MutexInv'
  <2>1. CASE FilterLock(t)
    BY <2>1, MutexTaken DEF FilterLock, Critical
  <2>2. CASE OpenCall(t)
    BY <2>2, MutexKept DEF OpenCall, Critical, Pcs
  <2> QED
    BY <1>4, <2>1, <2>2
<1>5. ASSUME NEW t \in Threads, OpenNext(t) PROVE MutexInv'
  <2>1. CASE OpenLock(t) \/ OpenLock2(t)
    BY <2>1, MutexTaken DEF OpenLock, OpenLock2, Critical
  <2>2. CASE OpenInit(t) \/ FilterUnlock(t)
    BY <2>2, MutexGiven DEF OpenInit, FilterUnlock, Critical, Pcs
  <2> QED
    BY <1>5, <2>1, <2>2 DEF OpenNext
<1>6. CASE OpenRead
  BY <1>6, <1>a, MutexGiven DEF OpenRead, Opened, Unlocked, Critical, Pcs
<1>7. CASE OpenWrite
  <2>1. PICK file : pc["W"] = "nffile" /\ Opened("W", file)
    BY <1>7 DEF OpenWrite, OpenRefused, OpenNew, OpenAppend
  <2> QED
    BY <2>1, <1>a, MutexGiven DEF Opened, Unlocked, Critical, Pcs
<1>8. CASE OpenEarlyReturn
  BY <1>8, <1>a DEF OpenEarlyReturn, MutexInv, MutexReturned, Critical, Pcs
<1>9. CASE \E exts \in Exts, exp \in Exporters \cup {"none"}, left \in Leftovers, lost \in BOOLEAN :
             Write(exts, exp, left, lost)
  BY <1>9 DEF Write, MutexInv, MutexReturned
<1>10. CASE UseFreed
  BY <1>10 DEF UseFreed, Undefined, MutexInv, MutexReturned, Critical, Pcs
<1>11. CASE CloseWriter
  BY <1>11, <1>a, MutexKept DEF CloseWriter, Critical, Pcs
<1>12. CASE LoadEmptyBlock
  BY <1>12 DEF LoadEmptyBlock, Undefined, MutexInv, MutexReturned, Critical, Pcs
<1>13. CASE (ReaderNext /\ ~ LoadEmptyBlock) \/ CloseReader
  <2>1. pc["R"] \in Pcs \ (Critical \cup {"dead"}) /\ UNCHANGED <<mutex, broken>>
    BY <1>13 DEF ReaderNext, ReadCall, ReadEof, LoadBlock, ReadEntry, StatGone, Stat, Reopen, CloseReader, Critical, Pcs
  <2>2. PICK to \in Pcs \ Critical : pc' = [pc EXCEPT !["R"] = to]
    <3>1. CASE ReadCall \/ ReadEof \/ StatGone \/ Stat \/ Reopen \/ CloseReader
      BY <3>1 DEF ReadCall, ReadEof, StatGone, Stat, Reopen, CloseReader, Critical, Pcs
    <3>2. CASE LoadBlock \/ ReadEntry
      <4>1. UNCHANGED pc \/ pc' = [pc EXCEPT !["R"] = "open"]
        BY <3>2 DEF LoadBlock, ReadEntry, Again, Return
      <4> QED
        BY <4>1, <2>1, <1>a DEF Critical, Pcs
    <3> QED
      BY <1>13, <3>1, <3>2 DEF ReaderNext
  <2> QED
    BY <2>1, <2>2, <1>a, MutexKept
<1> QED
  BY <1>1, <1>2, <1>3, <1>4, <1>5, <1>6, <1>7, <1>8, <1>9, <1>10, <1>11, <1>12, <1>13, <1>a
    DEF Next, Step, WriterOpen, ReaderOpen

\* The mutex is held only by a thread inside a critical section of lnf_open or
\* lnf_filter_init_v1, until an lnf_open has returned early; see MutexReturned.
THEOREM MutexHeldInside == Spec => []MutexReturned
<1>1. MutexInv => MutexReturned
  BY DEF MutexInv
<1> QED
  BY <1>1, MutexInit, MutexStep, PTL DEF Spec

\* No two threads are inside OpenFile, OpenNewFile or the parser of filters at a
\* time, whatever has been left behind in the mutex.
ParsersExclusive ==
  \A s, t \in Threads : pc[s] \in Critical /\ pc[t] \in Critical => s = t

\* ParsersExclusive always holds: the parsers, which keep what they parse in static
\* variables, are never run by two threads at once.
THEOREM CriticalExclusive == Spec => []ParsersExclusive
<1>1. MutexInv => ParsersExclusive
  BY DEF MutexInv, ParsersExclusive
<1> QED
  BY <1>1, MutexInit, MutexStep, PTL DEF Spec

-----------------------------------------------------------------------------
(***************************************************************************)
(* Blocks and the places in them                                           *)
(***************************************************************************)

\* The entry e at q is behind all there is in bs, which is as it was.
Extends(bs, cs, q, e) ==
  /\ q \notin Places(bs) /\ Places(cs) = Places(bs) \cup {q}
  /\ At(cs, q) = e /\ Earlier(cs, q) = Places(bs)
  /\ \A p \in Places(bs) : At(cs, p) = At(bs, p) /\ Earlier(cs, p) = Earlier(bs, p)

\* Some places are left, and what came before them is.
Cut(bs, cs) ==
  /\ Places(cs) \subseteq Places(bs)
  /\ \A p \in Places(cs) : At(cs, p) = At(bs, p) /\ Earlier(cs, p) = Earlier(bs, p)

\* What a place is.
LEMMA PlaceIs ==
  ASSUME NEW bs, NEW p
  PROVE  p \in Places(bs) <=>
           /\ p = <<p[1], p[2]>> /\ p[1] \in DOMAIN bs
           /\ bs[p[1]].type = 2 /\ p[2] \in DOMAIN bs[p[1]].entries
  BY DEF Places

\* What is appended to a data block that is the last comes after all there is.
LEMMA PutBehind ==
  ASSUME NEW B, NEW blocks \in Seq(B), NEW E, NEW buf \in Seq(E), NEW e \in E
  PROVE  Extends(Append(blocks, Block(2, buf)), Append(blocks, Block(2, Append(buf, e))),
                 <<Len(blocks) + 1, Len(buf) + 1>>, e)
<1> DEFINE bs == Append(blocks, Block(2, buf))
           cs == Append(blocks, Block(2, Append(buf, e)))
           q == <<Len(blocks) + 1, Len(buf) + 1>>
<1>1. /\ DOMAIN bs = 1 .. Len(blocks) + 1 /\ DOMAIN cs = 1 .. Len(blocks) + 1
      /\ \A b \in 1 .. Len(blocks) : bs[b] = blocks[b] /\ cs[b] = blocks[b]
      /\ bs[Len(blocks) + 1] = Block(2, buf) /\ cs[Len(blocks) + 1] = Block(2, Append(buf, e))
      /\ Len(blocks) \in Nat
  OBVIOUS
<1>2. /\ Block(2, buf).type = 2 /\ Block(2, buf).entries = buf
      /\ Block(2, Append(buf, e)).type = 2 /\ Block(2, Append(buf, e)).entries = Append(buf, e)
  BY DEF Block
<1>3. /\ DOMAIN buf = 1 .. Len(buf) /\ DOMAIN Append(buf, e) = 1 .. Len(buf) + 1 /\ Len(buf) \in Nat
      /\ \A k \in 1 .. Len(buf) : Append(buf, e)[k] = buf[k]
      /\ Append(buf, e)[Len(buf) + 1] = e
  OBVIOUS
<1> HIDE DEF bs, cs
<1>4. q \notin Places(bs)
  BY <1>1, <1>2, <1>3, PlaceIs
<1>5. \A p : p \in Places(cs) <=> p \in Places(bs) \/ p = q
  <2> TAKE p
  <2>1. CASE p = q
    BY <2>1, <1>1, <1>2, <1>3, PlaceIs
  <2>2. CASE p # q
    <3>1. ASSUME p \in Places(cs) PROVE p \in Places(bs)
      <4>1. /\ p = <<p[1], p[2]>> /\ p[1] \in 1 .. Len(blocks) + 1
            /\ cs[p[1]].type = 2 /\ p[2] \in DOMAIN cs[p[1]].entries
        BY <3>1, <1>1, PlaceIs
      <4>2. CASE p[1] \in 1 .. Len(blocks)
        BY <4>1, <4>2, <1>1, PlaceIs
      <4>3. CASE p[1] = Len(blocks) + 1
        <5>1. p[2] \in 1 .. Len(buf) + 1 /\ p[2] # Len(buf) + 1
          BY <4>1, <4>3, <2>2, <1>1, <1>2, <1>3
        <5>2. p[2] \in DOMAIN buf
          BY <5>1, <1>3
        <5> QED
          BY <4>1, <4>3, <5>2, <1>1, <1>2, PlaceIs
      <4> QED
        BY <4>1, <4>2, <4>3, <1>1
    <3>2. p \in Places(bs) => p \in Places(cs)
      BY <2>2, <1>1, <1>2, <1>3, PlaceIs
    <3> QED
      BY <2>2, <3>1, <3>2
  <2> QED
    BY <2>1, <2>2
<1>6. At(cs, q) = e
  BY <1>1, <1>2, <1>3 DEF At
<1>7. ASSUME NEW p \in Places(bs) PROVE At(cs, p) = At(bs, p)
  <2>1. p[1] \in DOMAIN bs /\ p[2] \in DOMAIN bs[p[1]].entries
    BY PlaceIs
  <2>2. CASE p[1] = Len(blocks) + 1
    <3>1. bs[p[1]] = Block(2, buf) /\ cs[p[1]] = Block(2, Append(buf, e))
      BY <2>2, <1>1
    <3>2. p[2] \in 1 .. Len(buf)
      BY <3>1, <2>1, <1>2, <1>3
    <3> QED
      BY <3>1, <3>2, <1>2, <1>3 DEF At
  <2>3. CASE p[1] \in 1 .. Len(blocks)
    BY <2>3, <1>1 DEF At
  <2> QED
    BY <2>1, <2>2, <2>3, <1>1
<1>8. \A p \in Places(bs) : Before(p, q) /\ ~ Before(q, p)
  BY <1>1, <1>2, <1>3, PlaceIs DEF Before
<1>9. ~ Before(q, q)
  BY <1>3, <1>1 DEF Before
<1> HIDE DEF q
<1>10. Extends(bs, cs, q, e)
  <2>1. \A p \in Places(bs) : Earlier(cs, p) = Earlier(bs, p)
    BY <1>5, <1>8 DEF Earlier
  <2>2. Earlier(cs, q) = Places(bs)
    BY <1>5, <1>8, <1>9 DEF Earlier
  <2> QED
    BY <1>4, <1>5, <1>6, <1>7, <2>1, <2>2 DEF Extends
<1> QED
  BY <1>10 DEF bs, cs, q

\* What is put into a new block comes after all there is.
LEMMA PutBlock ==
  ASSUME NEW B, NEW bs \in Seq(B), NEW e
  PROVE  Extends(bs, Append(bs, Block(2, <<e>>)), <<Len(bs) + 1, 1>>, e)
<1> DEFINE cs == Append(bs, Block(2, <<e>>))
           q == <<Len(bs) + 1, 1>>
<1>1. /\ DOMAIN bs = 1 .. Len(bs) /\ DOMAIN cs = 1 .. Len(bs) + 1 /\ Len(bs) \in Nat
      /\ \A b \in 1 .. Len(bs) : cs[b] = bs[b]
      /\ cs[Len(bs) + 1] = Block(2, <<e>>)
  <2>1. bs \in Seq(B \cup {Block(2, <<e>>)})
    OBVIOUS
  <2> QED
    BY <2>1
<1>2. Block(2, <<e>>).type = 2 /\ Block(2, <<e>>).entries = <<e>> /\ DOMAIN <<e>> = {1} /\ <<e>>[1] = e
  BY DEF Block
<1> HIDE DEF cs
<1>4. q \notin Places(bs)
  BY <1>1, PlaceIs
<1>5. \A p : p \in Places(cs) <=> p \in Places(bs) \/ p = q
  <2> TAKE p
  <2>1. CASE p = q
    BY <2>1, <1>1, <1>2, PlaceIs
  <2>2. CASE p # q
    <3>1. ASSUME p \in Places(cs) PROVE p \in Places(bs)
      <4>1. /\ p = <<p[1], p[2]>> /\ p[1] \in 1 .. Len(bs) + 1
            /\ cs[p[1]].type = 2 /\ p[2] \in DOMAIN cs[p[1]].entries
        BY <3>1, <1>1, PlaceIs
      <4>2. p[1] # Len(bs) + 1
        <5>1. p[1] = Len(bs) + 1 => p[2] = 1
          BY <4>1, <1>1, <1>2
        <5> QED
          BY <4>1, <5>1, <2>2
      <4>3. p[1] \in 1 .. Len(bs) /\ cs[p[1]] = bs[p[1]]
        BY <4>1, <4>2, <1>1
      <4> QED
        BY <4>1, <4>3, <1>1, PlaceIs
    <3>2. ASSUME p \in Places(bs) PROVE p \in Places(cs)
      <4>1. /\ p = <<p[1], p[2]>> /\ p[1] \in 1 .. Len(bs)
            /\ bs[p[1]].type = 2 /\ p[2] \in DOMAIN bs[p[1]].entries
        BY <3>2, <1>1, PlaceIs
      <4>2. p[1] \in DOMAIN cs /\ cs[p[1]] = bs[p[1]]
        BY <4>1, <1>1
      <4> QED
        BY <4>1, <4>2, PlaceIs
    <3> QED
      BY <2>2, <3>1, <3>2
  <2> QED
    BY <2>1, <2>2
<1>6. At(cs, q) = e
  BY <1>1, <1>2 DEF At
<1>7. \A p \in Places(bs) : At(cs, p) = At(bs, p)
  BY <1>1, PlaceIs DEF At
<1>8. \A p \in Places(bs) : Before(p, q) /\ ~ Before(q, p)
  BY <1>1, PlaceIs DEF Before
<1>9. ~ Before(q, q)
  BY <1>1 DEF Before
<1> HIDE DEF q
<1>10. Extends(bs, cs, q, e)
  <2>1. \A p \in Places(bs) : Earlier(cs, p) = Earlier(bs, p)
    BY <1>5, <1>8 DEF Earlier
  <2>2. Earlier(cs, q) = Places(bs)
    BY <1>5, <1>8, <1>9 DEF Earlier
  <2> QED
    BY <1>4, <1>5, <1>6, <1>7, <2>1, <2>2 DEF Extends
<1> QED
  BY <1>10 DEF cs, q

\* Without its last block a file has some of its places, and what came before
\* them it still has.
LEMMA CutBlock ==
  ASSUME NEW B, NEW blocks \in Seq(B), NEW buf
  PROVE  /\ Cut(Append(blocks, Block(2, buf)), blocks)
         /\ buf = <<>> => Places(Append(blocks, Block(2, buf))) = Places(blocks)
<1> DEFINE bs == Append(blocks, Block(2, buf))
<1>1. /\ DOMAIN blocks = 1 .. Len(blocks) /\ DOMAIN bs = 1 .. Len(blocks) + 1 /\ Len(blocks) \in Nat
      /\ \A b \in 1 .. Len(blocks) : bs[b] = blocks[b]
      /\ bs[Len(blocks) + 1] = Block(2, buf)
  <2>1. blocks \in Seq(B \cup {Block(2, buf)})
    OBVIOUS
  <2> QED
    BY <2>1
<1>2. Block(2, buf).entries = buf
  BY DEF Block
<1> HIDE DEF bs
<1>3. \A p : p \in Places(blocks) => p \in Places(bs) /\ At(blocks, p) = At(bs, p)
  BY <1>1, PlaceIs DEF At
<1>4. \A p : p \in Places(bs) => p \in Places(blocks) \/ (p[1] = Len(blocks) + 1 /\ p[2] \in DOMAIN buf)
  BY <1>1, <1>2, PlaceIs
<1>5. \A p \in Places(blocks), q \in Places(bs) : Before(q, p) => q \in Places(blocks)
  BY <1>1, <1>4, PlaceIs DEF Before
<1>6. \A p \in Places(blocks) : Earlier(bs, p) = Earlier(blocks, p)
  BY <1>3, <1>5 DEF Earlier
<1>7. Cut(bs, blocks)
  BY <1>3, <1>6 DEF Cut
<1>8. buf = <<>> => Places(bs) = Places(blocks)
  <2>1. buf = <<>> => DOMAIN buf = {}
    OBVIOUS
  <2> QED
    BY <2>1, <1>3, <1>4
<1> QED
  BY <1>7, <1>8 DEF bs

\* FileSound's clauses about a file; then the same of one place.
Sound(bs) == RecordsMapped(bs) /\ ExportersNamed(bs) /\ StatsExact(bs)

\* What is said of some places depends only on the entries there.
LEMMA NewestAlike ==
  ASSUME NEW bs, NEW cs, NEW ps, \A p \in ps : At(cs, p) = At(bs, p)
  PROVE  /\ \A kind : Of(cs, ps, kind) = Of(bs, ps, kind)
         /\ \A id, m : NewestMap(cs, ps, id, m) <=> NewestMap(bs, ps, id, m)
         /\ \A sysid, m : NewestExporter(cs, ps, sysid, m) <=> NewestExporter(bs, ps, sysid, m)
         /\ \A exp, since : FlowsOf(cs, ps, exp, since) = FlowsOf(bs, ps, exp, since)
<1>1. \A kind : Of(cs, ps, kind) = Of(bs, ps, kind)
  BY DEF Of
<1>2. \A kind : \A p \in Of(bs, ps, kind) : At(cs, p) = At(bs, p)
  BY DEF Of
<1>3. ASSUME NEW id, NEW m PROVE NewestMap(cs, ps, id, m) <=> NewestMap(bs, ps, id, m)
  BY <1>1, <1>2 DEF NewestMap
<1>4. ASSUME NEW sysid, NEW m PROVE NewestExporter(cs, ps, sysid, m) <=> NewestExporter(bs, ps, sysid, m)
  BY <1>1, <1>2 DEF NewestExporter
<1>5. ASSUME NEW exp, NEW since PROVE FlowsOf(cs, ps, exp, since) = FlowsOf(bs, ps, exp, since)
  <2>1. {p \in Of(cs, ps, "record") : At(cs, p).exp = exp /\ At(cs, p).n > since}
        = {p \in Of(bs, ps, "record") : At(bs, p).exp = exp /\ At(bs, p).n > since}
    BY <1>1, <1>2
  <2> QED
    BY <2>1 DEF FlowsOf
<1> QED
  BY <1>1, <1>3, <1>4, <1>5

\* What is sound of one place of a file: nothing but what is there and before it
\* matters.
RecordMapped(bs, p) == \E m \in Earlier(bs, p) :
  NewestMap(bs, Earlier(bs, p), At(bs, p).id, m) /\ At(bs, m).exts = At(bs, p).exts
ExporterNamed(bs, p) ==
  At(bs, p).exp # "none" =>
    /\ At(bs, p).sysid # 0
    /\ \E m \in Earlier(bs, p) :
         NewestExporter(bs, Earlier(bs, p), At(bs, p).sysid, m) /\ At(bs, m).exp = At(bs, p).exp
StatExact(bs, p) == \A s \in Range(At(bs, p).stats) :
  s.flows = FlowsOf(bs, Earlier(bs, p), s.exp, At(bs, p).n)
SoundAt(bs, p) ==
  /\ At(bs, p).kind = "record" => RecordMapped(bs, p) /\ ExporterNamed(bs, p)
  /\ At(bs, p).kind = "stat" => StatExact(bs, p)

\* A file is sound if it is sound everywhere.
LEMMA SoundEverywhere == ASSUME NEW bs PROVE Sound(bs) <=> \A p \in Places(bs) : SoundAt(bs, p)
  BY DEF Sound, SoundAt, RecordsMapped, ExportersNamed, StatsExact, Records, Of, RecordMapped, ExporterNamed, StatExact

\* Soundness of a place is the same where the same comes before.
LEMMA SoundAtAlike ==
  ASSUME NEW bs, NEW cs, NEW p, At(cs, p) = At(bs, p), Earlier(cs, p) = Earlier(bs, p),
         \A q \in Earlier(bs, p) : At(cs, q) = At(bs, q)
  PROVE  SoundAt(bs, p) <=> SoundAt(cs, p)
<1> DEFINE ps == Earlier(bs, p)
<1>1. /\ \A id, m : NewestMap(cs, ps, id, m) <=> NewestMap(bs, ps, id, m)
      /\ \A sysid, m : NewestExporter(cs, ps, sysid, m) <=> NewestExporter(bs, ps, sysid, m)
      /\ \A exp, since : FlowsOf(cs, ps, exp, since) = FlowsOf(bs, ps, exp, since)
  <2> HIDE DEF ps
  <2>1. \A q \in ps : At(cs, q) = At(bs, q)
    BY DEF ps
  <2> QED
    BY <2>1, NewestAlike
<1>2. Earlier(cs, p) = ps /\ Earlier(bs, p) = ps /\ \A q \in ps : At(cs, q) = At(bs, q)
  OBVIOUS
<1> HIDE DEF ps
<1>3. RecordMapped(bs, p) <=> RecordMapped(cs, p)
  BY <1>1, <1>2 DEF RecordMapped
<1>4. ExporterNamed(bs, p) <=> ExporterNamed(cs, p)
  BY <1>1, <1>2 DEF ExporterNamed
<1>5. StatExact(bs, p) <=> StatExact(cs, p)
  BY <1>1, <1>2 DEF StatExact
<1> QED
  BY <1>3, <1>4, <1>5 DEF SoundAt

\* What is cut off takes nothing away from the rest.
LEMMA CutSound ==
  ASSUME NEW bs, NEW cs, Cut(bs, cs), Sound(bs)
  PROVE  Sound(cs)
<1> SUFFICES ASSUME NEW p \in Places(cs) PROVE SoundAt(cs, p)
  BY SoundEverywhere
<1>1. SoundAt(bs, p)
  BY SoundEverywhere DEF Cut
<1>2. \A q \in Earlier(bs, p) : At(cs, q) = At(bs, q)
  BY DEF Cut, Earlier
<1> QED
  BY <1>1, <1>2, SoundAtAlike DEF Cut

\* A new entry must be sound where all there is comes before it.
LEMMA ExtendSound ==
  ASSUME NEW bs, NEW cs, NEW q, NEW e, Extends(bs, cs, q, e), Sound(bs),
         e.kind = "record" =>
           /\ \E m \in Places(bs) : NewestMap(bs, Places(bs), e.id, m) /\ At(bs, m).exts = e.exts
           /\ e.exp # "none" =>
                /\ e.sysid # 0
                /\ \E m \in Places(bs) : NewestExporter(bs, Places(bs), e.sysid, m) /\ At(bs, m).exp = e.exp,
         e.kind = "stat" => \A s \in Range(e.stats) : s.flows = FlowsOf(bs, Places(bs), s.exp, e.n)
  PROVE  Sound(cs)
<1> SUFFICES ASSUME NEW p \in Places(cs) PROVE SoundAt(cs, p)
  BY SoundEverywhere
<1>1. CASE p \in Places(bs)
  <2>1. SoundAt(bs, p)
    BY <1>1, SoundEverywhere
  <2>2. \A x \in Earlier(bs, p) : At(cs, x) = At(bs, x)
    BY DEF Extends, Earlier
  <2> QED
    BY <1>1, <2>1, <2>2, SoundAtAlike DEF Extends
<1>2. CASE p = q
  <2>1. At(cs, p) = e /\ Earlier(cs, p) = Places(bs) /\ \A x \in Places(bs) : At(cs, x) = At(bs, x)
    BY <1>2 DEF Extends
  <2>2. /\ \A id, m : NewestMap(cs, Places(bs), id, m) <=> NewestMap(bs, Places(bs), id, m)
        /\ \A sysid, m : NewestExporter(cs, Places(bs), sysid, m) <=> NewestExporter(bs, Places(bs), sysid, m)
        /\ \A exp, since : FlowsOf(cs, Places(bs), exp, since) = FlowsOf(bs, Places(bs), exp, since)
    BY <2>1, NewestAlike
  <2>3. e.kind = "record" => RecordMapped(cs, p)
    BY <2>1, <2>2 DEF RecordMapped
  <2>4. e.kind = "record" => ExporterNamed(cs, p)
    BY <2>1, <2>2 DEF ExporterNamed
  <2>5. e.kind = "stat" => StatExact(cs, p)
    BY <2>1, <2>2 DEF StatExact
  <2> QED
    BY <2>1, <2>3, <2>4, <2>5 DEF SoundAt
<1> QED
  BY <1>1, <1>2 DEF Extends

-----------------------------------------------------------------------------
(***************************************************************************)
(* The writer's handle and its file during a call                          *)
(***************************************************************************)

\* The exporters a handle keeps, the entries, blocks and handles there are.
Notes == [exp : Exporters, sysid : Nat, flows : Nat]
Entries == [kind : {"map", "exporter", "stat", "record"}, id : Nat, exts : Exts \cup {{}}, sysid : Nat,
            exp : Exporters \cup {"none"}, n : Nat, stats : Seq(Notes)]
OwnBlocks == [type : {2}, entries : Seq(Entries)]
Blocks == OwnBlocks \cup UNION {Range(c) : c \in Contents}
Handles == [file : Nat, flags : WriteFlags \cup {{}}, buf : Seq(Entries), maps : Seq(Exts),
            exporters : Seq(Notes), blocks : Nat, flows : Nat, since : Nat]
States == [h : Handles, blocks : Seq(Blocks), id : Nat, sysid : Nat]

\* The file with the buffer behind it; how many of its blocks the header of the
\* handle does not count; blocks that are all in others, where they were.
All(st) == Append(st.blocks, Block(2, st.h.buf))
Behind(st) == Len(st.blocks) - st.h.blocks
Kept(bs, cs) ==
  /\ DOMAIN bs \subseteq DOMAIN cs /\ \A b \in DOMAIN bs : cs[b] = bs[b]
  /\ Range(bs) \subseteq Range(cs) /\ Places(bs) \subseteq Places(cs)
  /\ \A p \in Places(bs) : At(cs, p) = At(bs, p)

\* Blocks are kept when one is appended.
LEMMA KeptBehind ==
  ASSUME NEW B, NEW blocks \in Seq(B), NEW buf
  PROVE  Kept(blocks, Append(blocks, Block(2, buf)))
<1> DEFINE bs == Append(blocks, Block(2, buf))
<1>1. /\ DOMAIN blocks = 1 .. Len(blocks) /\ DOMAIN bs = 1 .. Len(blocks) + 1 /\ Len(blocks) \in Nat
      /\ \A b \in 1 .. Len(blocks) : bs[b] = blocks[b]
  <2>1. blocks \in Seq(B \cup {Block(2, buf)})
    OBVIOUS
  <2> QED
    BY <2>1
<1> HIDE DEF bs
<1>2. Range(blocks) \subseteq Range(bs)
  BY <1>1 DEF Range
<1>3. \A p \in Places(blocks) : p \in Places(bs) /\ At(bs, p) = At(blocks, p)
  BY <1>1, PlaceIs DEF At
<1>4. Kept(blocks, bs)
  BY <1>1, <1>2, <1>3 DEF Kept
<1> QED
  BY <1>4 DEF bs

\* A handle with another buffer.
LEMMA HandleBuf ==
  ASSUME NEW h \in Handles, NEW buf \in Seq(Entries)
  PROVE  [h EXCEPT !.buf = buf] \in Handles /\ [h EXCEPT !.buf = buf].buf = buf
  BY DEF Handles

\* A handle whose buffer went into the file.
LEMMA HandleFlushed ==
  ASSUME NEW h \in Handles
  PROVE  LET g == [h EXCEPT !.buf = <<>>, !.blocks = @ + 1] IN
         /\ g \in Handles /\ g.buf = <<>> /\ g.blocks = h.blocks + 1
         /\ g = [h EXCEPT !.buf = g.buf, !.blocks = g.blocks]
<1>1. <<>> \in Seq(Entries) /\ h.blocks + 1 \in Nat
  BY DEF Handles
<1>2. \A buf \in Seq(Entries), k \in Nat :
        LET g == [h EXCEPT !.buf = buf, !.blocks = k] IN g \in Handles /\ g.buf = buf /\ g.blocks = k
  BY DEF Handles
<1> QED
  BY <1>1, <1>2

\* A handle with other maps.
LEMMA HandleMaps ==
  ASSUME NEW h \in Handles, NEW maps \in Seq(Exts)
  PROVE  LET g == [h EXCEPT !.maps = maps] IN
         /\ g \in Handles /\ g.maps = maps /\ g.buf = h.buf /\ g.exporters = h.exporters
         /\ g.since = h.since /\ g.file = h.file /\ g.flags = h.flags
         /\ g.blocks = h.blocks /\ g.flows = h.flows
  BY DEF Handles

\* So with exporters.
LEMMA HandleExporters ==
  ASSUME NEW h \in Handles, NEW xs \in Seq(Notes)
  PROVE  LET g == [h EXCEPT !.exporters = xs] IN
         /\ g \in Handles /\ g.exporters = xs /\ g.buf = h.buf /\ g.maps = h.maps
         /\ g.since = h.since /\ g.file = h.file /\ g.flags = h.flags
         /\ g.blocks = h.blocks /\ g.flows = h.flows
  BY DEF Handles

\* What lnf_write and lnf_close put is an entry: an empty one first.
LEMMA EmptyEntry ==
  ASSUME NEW kind \in {"map", "exporter", "stat", "record"}
  PROVE  Entry(kind) \in Entries
<1>1. <<>> \in Seq(Notes)
  OBVIOUS
<1> QED
  BY <1>1 DEF Entry, Entries

\* A map.
MapOf(id, exts) == [Entry("map") EXCEPT !.id = id, !.exts = exts]
LEMMA MapEntry ==
  ASSUME NEW id \in Nat, NEW exts \in Exts
  PROVE  LET e == MapOf(id, exts) IN
         e \in Entries /\ e.kind = "map" /\ e.id = id /\ e.exts = exts
<1>1. \A e \in Entries : [e EXCEPT !.id = id, !.exts = exts] \in Entries
  BY DEF Entries
<1> QED
  BY <1>1, EmptyEntry DEF Entry, MapOf

\* An exporter.
ExporterEntryOf(sysid, exp) == [Entry("exporter") EXCEPT !.sysid = sysid, !.exp = exp]
LEMMA ExporterEntry ==
  ASSUME NEW sysid \in Nat, NEW exp \in Exporters
  PROVE  LET e == ExporterEntryOf(sysid, exp) IN
         e \in Entries /\ e.kind = "exporter" /\ e.sysid = sysid /\ e.exp = exp
<1>1. \A e \in Entries : [e EXCEPT !.sysid = sysid, !.exp = exp] \in Entries
  BY DEF Entries
<1> QED
  BY <1>1, EmptyEntry DEF Entry, ExporterEntryOf

\* The statistics.
LEMMA StatEntry ==
  ASSUME NEW h \in Handles
  PROVE  LET e == StatsEntry(h) IN e \in Entries /\ e.kind = "stat" /\ e.stats = h.exporters /\ e.n = h.since
<1>1. \A e \in Entries : [e EXCEPT !.stats = h.exporters, !.n = h.since] \in Entries
  BY DEF Entries, Handles
<1>2. StatsEntry(h).kind = "stat" /\ StatsEntry(h).stats = h.exporters /\ StatsEntry(h).n = h.since
  BY DEF StatsEntry, Entry
<1> QED
  BY <1>1, <1>2, EmptyEntry DEF StatsEntry

\* A record.
RecordOf(id, exts, sysid, n, exp) ==
  [Entry("record") EXCEPT !.id = id, !.exts = exts, !.sysid = sysid, !.n = n, !.exp = exp]
LEMMA RecordEntry ==
  ASSUME NEW id \in Nat, NEW exts \in Exts, NEW sysid \in Nat, NEW n \in Nat, NEW exp \in Exporters \cup {"none"}
  PROVE  LET e == RecordOf(id, exts, sysid, n, exp) IN
         /\ e \in Entries /\ e.kind = "record" /\ e.id = id /\ e.exts = exts /\ e.sysid = sysid
         /\ e.n = n /\ e.exp = exp
<1>1. \A e \in Entries : [e EXCEPT !.id = id, !.exts = exts, !.sysid = sysid, !.n = n, !.exp = exp] \in Entries
  BY DEF Entries
<1> QED
  BY <1>1, EmptyEntry DEF Entry, RecordOf

\* A buffer that is flushed is in the file.
LEMMA FlushFacts ==
  ASSUME NEW st \in States
  PROVE  LET f == Flush(st) IN
         /\ f \in States /\ f.id = st.id /\ f.sysid = st.sysid
         /\ f.h = [st.h EXCEPT !.buf = f.h.buf, !.blocks = f.h.blocks] /\ f.h.buf = <<>>
         /\ f.blocks = IF st.h.buf = <<>> THEN st.blocks ELSE All(st)
         /\ Kept(st.blocks, f.blocks) /\ Behind(f) = Behind(st)
         /\ Cut(All(st), f.blocks) /\ Places(f.blocks) = Places(All(st))
<1> DEFINE f == Flush(st)
<1>1. st.h \in Handles /\ st.blocks \in Seq(Blocks) /\ st = [h |-> st.h, blocks |-> st.blocks, id |-> st.id, sysid |-> st.sysid]
  BY DEF States
<1>2. /\ f.id = st.id /\ f.sysid = st.sysid /\ f = [h |-> f.h, blocks |-> f.blocks, id |-> f.id, sysid |-> f.sysid]
      /\ f.h = IF st.h.buf = <<>> THEN st.h ELSE [st.h EXCEPT !.buf = <<>>, !.blocks = @ + 1]
      /\ f.blocks = IF st.h.buf = <<>> THEN st.blocks ELSE All(st)
  BY <1>1 DEF Flush, All
<1>a. f.h \in Handles /\ f.h.buf = <<>> /\ f.h = [st.h EXCEPT !.buf = f.h.buf, !.blocks = f.h.blocks]
  <2>1. CASE st.h.buf = <<>>
    BY <2>1, <1>1, <1>2 DEF Handles
  <2>2. CASE st.h.buf # <<>>
    BY <2>2, <1>1, <1>2, HandleFlushed
  <2> QED
    BY <2>1, <2>2
<1>3. Block(2, st.h.buf) \in Blocks
  BY DEF States, Handles, Blocks, OwnBlocks, Block
<1>4. All(st) \in Seq(Blocks) /\ f.blocks \in Seq(Blocks) /\ Len(All(st)) = Len(st.blocks) + 1
  BY <1>1, <1>2, <1>3 DEF All
<1>b. Behind(f) = Behind(st)
  <2>1. CASE st.h.buf = <<>>
    BY <2>1, <1>2 DEF Behind
  <2>2. CASE st.h.buf # <<>>
    <3>1. f.h.blocks = st.h.blocks + 1
      BY <2>2, <1>1, <1>2, HandleFlushed
    <3>2. Len(f.blocks) = Len(st.blocks) + 1 /\ Len(st.blocks) \in Nat /\ st.h.blocks \in Nat
      BY <2>2, <1>1, <1>2, <1>4 DEF Handles
    <3> QED
      BY <3>1, <3>2 DEF Behind
  <2> QED
    BY <2>1, <2>2
<1>5. f \in States
  <2>1. st.id \in Nat /\ st.sysid \in Nat
    BY DEF States
  <2> QED
    BY <2>1, <1>2, <1>a, <1>4 DEF States
<1>6. Kept(st.blocks, f.blocks)
  <2>1. CASE st.h.buf = <<>>
    BY <2>1, <1>2 DEF Kept
  <2>2. CASE st.h.buf # <<>>
    BY <2>2, <1>2, KeptBehind DEF States, All
  <2> QED
    BY <2>1, <2>2
<1>7. Cut(All(st), f.blocks) /\ Places(f.blocks) = Places(All(st))
  <2>1. CASE st.h.buf = <<>>
    BY <2>1, <1>2, CutBlock DEF States, All
  <2>2. CASE st.h.buf # <<>>
    BY <2>2, <1>2 DEF Cut
  <2> QED
    BY <2>1, <2>2
<1> HIDE DEF f
<1>8. /\ f \in States /\ f.id = st.id /\ f.sysid = st.sysid
      /\ f.h = [st.h EXCEPT !.buf = f.h.buf, !.blocks = f.h.blocks] /\ f.h.buf = <<>>
      /\ f.blocks = IF st.h.buf = <<>> THEN st.blocks ELSE All(st)
      /\ Kept(st.blocks, f.blocks) /\ Behind(f) = Behind(st)
      /\ Cut(All(st), f.blocks) /\ Places(f.blocks) = Places(All(st))
  BY <1>2, <1>a, <1>b, <1>5, <1>6, <1>7
<1> QED
  BY <1>8 DEF f

\* An entry that is put into the buffer comes after all there is, also when the
\* buffer is flushed before.
LEMMA PutFacts ==
  ASSUME NEW st \in States, NEW e \in Entries
  PROVE  LET s == Put(st, e) IN
         /\ s \in States /\ s.id = st.id /\ s.sysid = st.sysid
         /\ s.h = [st.h EXCEPT !.buf = s.h.buf, !.blocks = s.h.blocks]
         /\ Kept(st.blocks, s.blocks) /\ Behind(s) = Behind(st)
         /\ \E q : Extends(All(st), All(s), q, e)
<1> DEFINE s == Put(st, e)
           room == IF Len(st.h.buf) = BlockCap THEN Flush(st) ELSE st
<1>1. s = [room EXCEPT !.h.buf = Append(@, e)]
  BY DEF Put
<1>2. room \in States /\ room.id = st.id /\ room.sysid = st.sysid
  BY FlushFacts
<1>3. /\ room.h = [st.h EXCEPT !.buf = room.h.buf, !.blocks = room.h.blocks]
      /\ Kept(st.blocks, room.blocks) /\ Behind(room) = Behind(st)
  <2>1. CASE Len(st.h.buf) = BlockCap
    BY <2>1, FlushFacts DEF States, Handles
  <2>2. CASE Len(st.h.buf) # BlockCap
    BY <2>2 DEF Kept, States, Handles
  <2> QED
    BY <2>1, <2>2
<1>4. \E q : Extends(All(st), Append(room.blocks, Block(2, Append(room.h.buf, e))), q, e)
  <2>1. CASE Len(st.h.buf) = BlockCap
    <3>1. st.h.buf # <<>> /\ room = Flush(st)
      BY <2>1, NfFileAssumption
    <3>2. room.blocks = All(st) /\ room.h.buf = <<>> /\ room \in States
      BY <3>1, FlushFacts
    <3>3. room.h.buf = <<>> /\ room.blocks \in Seq(Blocks)
      BY <3>2 DEF States
    <3>4. Append(room.h.buf, e) = <<e>>
      <4>1. Append(<<>>, e) = <<e>>
        OBVIOUS
      <4> QED
        BY <4>1, <3>3
    <3> HIDE DEF room
    <3> QED
      BY <3>2, <3>3, <3>4, PutBlock
  <2>2. CASE Len(st.h.buf) # BlockCap
    BY <2>2, PutBehind DEF States, Handles, All
  <2> QED
    BY <2>1, <2>2
<1> HIDE DEF room, s
<1>5. /\ s.id = st.id /\ s.sysid = st.sysid /\ s.blocks = room.blocks
      /\ s.h = [room.h EXCEPT !.buf = Append(@, e)] /\ s.h.buf = Append(room.h.buf, e)
      /\ s.h.blocks = room.h.blocks
  BY <1>1, <1>2 DEF States, Handles
<1>6. s.h = [st.h EXCEPT !.buf = s.h.buf, !.blocks = s.h.blocks] /\ Behind(s) = Behind(st)
  <2>1. Behind(s) = Behind(room)
    BY <1>5 DEF Behind
  <2>2. s.h = [st.h EXCEPT !.buf = s.h.buf, !.blocks = s.h.blocks]
    BY <1>5, <1>3, <1>2 DEF States, Handles
  <2> QED
    BY <2>1, <2>2, <1>3
<1>7. s \in States
  <2>1. s = [h |-> s.h, blocks |-> s.blocks, id |-> s.id, sysid |-> s.sysid]
    BY <1>1, <1>2 DEF States
  <2>2. s.h \in Handles
    <3>1. room.h \in Handles
      BY <1>2 DEF States
    <3>2. room.h.buf \in Seq(Entries)
      BY <3>1 DEF Handles
    <3>3. Append(room.h.buf, e) \in Seq(Entries)
      BY <3>2
    <3> QED
      BY <3>1, <3>3, <1>5, HandleBuf
  <2>3. s.blocks \in Seq(Blocks) /\ s.id \in Nat /\ s.sysid \in Nat
    BY <1>5, <1>2 DEF States
  <2> QED
    BY <2>1, <2>2, <2>3 DEF States
<1>8. \E q : Extends(All(st), All(s), q, e)
  BY <1>4, <1>5 DEF All
<1>9. /\ s \in States /\ s.id = st.id /\ s.sysid = st.sysid
      /\ s.h = [st.h EXCEPT !.buf = s.h.buf, !.blocks = s.h.blocks]
      /\ Kept(st.blocks, s.blocks) /\ Behind(s) = Behind(st)
      /\ \E q : Extends(All(st), All(s), q, e)
  BY <1>2, <1>3, <1>5, <1>6, <1>7, <1>8
<1> QED
  BY <1>9 DEF s

\* The maps of a handle are in the file, each the last of its id; so are its
\* exporters, one of each, whose counts are those of the records and which are
\* those the records have.  pending is the exporter of a record under way.
MapsKnown(maps, bs) == \A k \in DOMAIN maps : \E m \in Places(bs) :
  NewestMap(bs, Places(bs), k - 1, m) /\ At(bs, m).exts = maps[k]
ExportersKnown(xs, bs) == \A i \in DOMAIN xs :
  /\ xs[i].sysid = Len(xs) + 1 - i /\ xs[i].exp # "none"
  /\ \E m \in Places(bs) : NewestExporter(bs, Places(bs), xs[i].sysid, m) /\ At(bs, m).exp = xs[i].exp
ExportersOnce(xs) == \A i, j \in DOMAIN xs : xs[i].exp = xs[j].exp => i = j
FlowsCounted(xs, since, bs, pending) == \A i \in DOMAIN xs :
  xs[i].flows = FlowsOf(bs, Places(bs), xs[i].exp, since) + IF xs[i].exp = pending THEN 1 ELSE 0
ExportersListed(xs, since, bs) == \A p \in Records(bs) :
  At(bs, p).n > since /\ At(bs, p).exp # "none" => \E i \in DOMAIN xs : xs[i].exp = At(bs, p).exp

\* A new entry is the last of its id.
LEMMA NewestIsNew ==
  ASSUME NEW bs, NEW cs, NEW q, NEW e, Extends(bs, cs, q, e)
  PROVE  /\ e.kind = "map" => NewestMap(cs, Places(cs), e.id, q)
         /\ e.kind = "exporter" => NewestExporter(cs, Places(cs), e.sysid, q)
<1>1. \A p \in Places(cs) : p = q \/ Before(p, q)
  BY DEF Extends, Earlier
<1>2. q \in Places(cs) /\ At(cs, q) = e
  BY DEF Extends
<1> QED
  BY <1>1, <1>2 DEF NewestMap, NewestExporter, Of

\* What was the last of its id is it still, if the new entry has another.
LEMMA NewestStays ==
  ASSUME NEW bs, NEW cs, NEW q, NEW e, Extends(bs, cs, q, e), NEW id, NEW m \in Places(bs)
  PROVE  /\ NewestMap(bs, Places(bs), id, m) /\ ~ (e.kind = "map" /\ e.id = id) => NewestMap(cs, Places(cs), id, m)
         /\ NewestExporter(bs, Places(bs), id, m) /\ ~ (e.kind = "exporter" /\ e.sysid = id)
              => NewestExporter(cs, Places(cs), id, m)
<1>1. Places(cs) = Places(bs) \cup {q} /\ At(cs, q) = e /\ \A p \in Places(bs) : At(cs, p) = At(bs, p)
  BY DEF Extends
<1> QED
  BY <1>1 DEF NewestMap, NewestExporter, Of

\* The maps of a handle stay known under a new entry that is not one of them.
LEMMA MapsStay ==
  ASSUME NEW bs, NEW cs, NEW q, NEW e, Extends(bs, cs, q, e), NEW maps, MapsKnown(maps, bs),
         e.kind = "map" => \A k \in DOMAIN maps : k - 1 # e.id
  PROVE  MapsKnown(maps, cs)
<1> SUFFICES ASSUME NEW k \in DOMAIN maps
             PROVE  \E m \in Places(cs) : NewestMap(cs, Places(cs), k - 1, m) /\ At(cs, m).exts = maps[k]
  BY DEF MapsKnown
<1>1. PICK m \in Places(bs) : NewestMap(bs, Places(bs), k - 1, m) /\ At(bs, m).exts = maps[k]
  BY DEF MapsKnown
<1>2. NewestMap(cs, Places(cs), k - 1, m)
  BY <1>1, NewestStays
<1>3. m \in Places(cs) /\ At(cs, m) = At(bs, m)
  BY DEF Extends
<1> QED
  BY <1>1, <1>2, <1>3

\* So do its exporters.
LEMMA ExportersStay ==
  ASSUME NEW bs, NEW cs, NEW q, NEW e, Extends(bs, cs, q, e), NEW xs, ExportersKnown(xs, bs),
         e.kind = "exporter" => \A i \in DOMAIN xs : xs[i].sysid # e.sysid
  PROVE  ExportersKnown(xs, cs)
<1> SUFFICES ASSUME NEW i \in DOMAIN xs
             PROVE  \E m \in Places(cs) :
                      NewestExporter(cs, Places(cs), xs[i].sysid, m) /\ At(cs, m).exp = xs[i].exp
  BY DEF ExportersKnown
<1>1. PICK m \in Places(bs) : NewestExporter(bs, Places(bs), xs[i].sysid, m) /\ At(bs, m).exp = xs[i].exp
  BY DEF ExportersKnown
<1>2. NewestExporter(cs, Places(cs), xs[i].sysid, m)
  BY <1>1, NewestStays
<1>3. m \in Places(cs) /\ At(cs, m) = At(bs, m)
  BY DEF Extends
<1> QED
  BY <1>1, <1>2, <1>3

\* The records under an entry that is none, and under one that is one.
LEMMA RecordsThen ==
  ASSUME NEW bs, NEW cs, NEW q, NEW e, Extends(bs, cs, q, e)
  PROVE  /\ Records(cs) = IF e.kind = "record" THEN Records(bs) \cup {q} ELSE Records(bs)
         /\ \A p \in Records(bs) : p \in Places(bs) /\ At(cs, p) = At(bs, p)
         /\ q \notin Records(bs) /\ At(cs, q) = e
  BY DEF Extends, Records, Of

\* How the numbers of flows grow.
LEMMA FlowsThen ==
  ASSUME NEW bs, NEW cs, NEW q, NEW e, Extends(bs, cs, q, e), IsFiniteSet(Places(bs)), NEW exp, NEW since
  PROVE  /\ FlowsOf(bs, Places(bs), exp, since) \in Nat
         /\ FlowsOf(cs, Places(cs), exp, since) =
              IF e.kind = "record" /\ e.exp = exp /\ e.n > since
              THEN FlowsOf(bs, Places(bs), exp, since) + 1 ELSE FlowsOf(bs, Places(bs), exp, since)
<1> DEFINE old == {p \in Records(bs) : At(bs, p).exp = exp /\ At(bs, p).n > since}
           new == {p \in Records(cs) : At(cs, p).exp = exp /\ At(cs, p).n > since}
<1>1. FlowsOf(bs, Places(bs), exp, since) = Cardinality(old)
  BY DEF FlowsOf, Records
<1>2. FlowsOf(cs, Places(cs), exp, since) = Cardinality(new)
  BY DEF FlowsOf, Records
<1>3. new = IF e.kind = "record" /\ e.exp = exp /\ e.n > since THEN old \cup {q} ELSE old
  BY RecordsThen
<1>4. q \notin old
  BY RecordsThen
<1>5. IsFiniteSet(old)
  <2>1. old \subseteq Places(bs)
    BY DEF Records, Of
  <2> QED
    BY <2>1, FS_Subset
<1> HIDE DEF old, new
<1>6. Cardinality(old) \in Nat /\ Cardinality(old \cup {q}) = Cardinality(old) + 1
  BY <1>4, <1>5, FS_AddElement, FS_CardinalityType
<1> QED
  BY <1>1, <1>2, <1>3, <1>6

\* The places are still finitely many.
LEMMA FiniteThen ==
  ASSUME NEW bs, NEW cs, NEW q, NEW e, Extends(bs, cs, q, e), IsFiniteSet(Places(bs))
  PROVE  IsFiniteSet(Places(cs))
  BY FS_AddElement DEF Extends

\* The handle describes its file, and if this was written here it is sound.
StateSound(own, st, pending) ==
  /\ st \in States
  /\ IsFiniteSet(Places(All(st)))
  /\ MapsKnown(st.h.maps, All(st))
  /\ ExportersKnown(st.h.exporters, All(st)) /\ ExportersOnce(st.h.exporters)
  /\ own => /\ Sound(All(st))
            /\ FlowsCounted(st.h.exporters, st.h.since, All(st), pending)
            /\ ExportersListed(st.h.exporters, st.h.since, All(st))

\* s is st with more maps and exporters, and perhaps flushed, but with no other
\* records.
Follows(st, s) ==
  /\ s.h.file = st.h.file /\ s.h.flags = st.h.flags /\ s.h.since = st.h.since
  /\ s.h.flows = st.h.flows /\ Behind(s) = Behind(st)
  /\ Kept(st.blocks, s.blocks)
  /\ Records(All(s)) = Records(All(st))
  /\ \A p \in Records(All(st)) : At(All(s), p) = At(All(st), p)

\* The id of a record's map, of its exporter, leads to it.
MapReady(st, id, exts) ==
  \E m \in Places(All(st)) : NewestMap(All(st), Places(All(st)), id, m) /\ At(All(st), m).exts = exts
ExporterReady(st, sysid, exp) ==
  \E m \in Places(All(st)) : NewestExporter(All(st), Places(All(st)), sysid, m) /\ At(All(st), m).exp = exp

\* One after the other.
LEMMA FollowsOn ==
  ASSUME NEW a, NEW b, NEW c, Follows(a, b), Follows(b, c)
  PROVE  Follows(a, c)
<1>1. Kept(a.blocks, c.blocks)
  BY DEF Follows, Kept, Behind
<1> QED
  BY <1>1 DEF Follows

\* An entry other than a record is put: nothing is lost.
LEMMA PutFollows ==
  ASSUME NEW st \in States, NEW e \in Entries, e.kind # "record"
  PROVE  Follows(st, Put(st, e))
<1> DEFINE s == Put(st, e)
<1>1. /\ s.h = [st.h EXCEPT !.buf = s.h.buf, !.blocks = s.h.blocks]
      /\ Kept(st.blocks, s.blocks) /\ Behind(s) = Behind(st)
      /\ \E q : Extends(All(st), All(s), q, e)
  BY PutFacts
<1> HIDE DEF s
<1>2. s.h.file = st.h.file /\ s.h.flags = st.h.flags /\ s.h.since = st.h.since /\ s.h.flows = st.h.flows
  BY <1>1 DEF States, Handles
<1>3. PICK q : Extends(All(st), All(s), q, e)
  BY <1>1
<1>4. Records(All(s)) = Records(All(st)) /\ \A p \in Records(All(st)) : At(All(s), p) = At(All(st), p)
  BY <1>3, RecordsThen
<1>5. Follows(st, s)
  BY <1>1, <1>2, <1>4 DEF Follows
<1> QED
  BY <1>5 DEF s

\* The map lnf_write uses is in the file, the last of its id.
LEMMA MapSound ==
  ASSUME NEW own \in BOOLEAN, NEW st, NEW exts \in Exts, StateSound(own, st, "none")
  PROVE  LET s == LookupMap(st, exts) IN
         /\ StateSound(own, s, "none") /\ Follows(st, s)
         /\ MapReady(s, s.id, exts) /\ s.sysid = st.sysid
         /\ s.h.maps = IF KnownMap(st.h.maps, exts) # {} THEN st.h.maps ELSE Append(st.h.maps, exts)
<1> DEFINE known == KnownMap(st.h.maps, exts)
           s == LookupMap(st, exts)
<1>a. st \in States /\ st.h \in Handles /\ st.h.maps \in Seq(Exts)
  BY DEF StateSound, States, Handles
<1>1. CASE known # {}
  <2>1. known \subseteq Nat /\ \A i \in known : i \in DOMAIN st.h.maps /\ st.h.maps[i] = exts
    BY <1>a DEF KnownMap
  <2>2. Min(known) \in known
    BY <2>1, <1>1, NatLeast DEF Min
  <2>3. s = [st EXCEPT !.id = Min(known) - 1]
    BY <1>1 DEF LookupMap
  <2> HIDE DEF known, s
  <2>4. /\ s.h = st.h /\ s.blocks = st.blocks /\ s.id = Min(known) - 1 /\ s.sysid = st.sysid
        /\ All(s) = All(st)
    BY <2>3, <1>a DEF States, All
  <2>5. s.id \in Nat
    <3>1. Min(known) \in DOMAIN st.h.maps
      BY <2>1, <2>2
    <3>2. Min(known) \in 1 .. Len(st.h.maps) /\ Len(st.h.maps) \in Nat
      BY <3>1, <1>a
    <3> QED
      BY <3>2, <2>4
  <2>6. s \in States
    <3>1. s = [h |-> s.h, blocks |-> s.blocks, id |-> s.id, sysid |-> s.sysid]
      BY <2>3, <1>a DEF States
    <3>2. s.h \in Handles /\ s.blocks \in Seq(Blocks) /\ s.sysid \in Nat
      BY <2>4, <1>a DEF States
    <3> QED
      BY <3>1, <3>2, <2>5 DEF States
  <2>7. StateSound(own, s, "none")
    BY <2>4, <2>6 DEF StateSound
  <2>8. Follows(st, s)
    BY <2>4 DEF Follows, Kept, Behind
  <2>9. MapReady(s, s.id, exts)
    <3>1. PICK m \in Places(All(st)) : /\ NewestMap(All(st), Places(All(st)), Min(known) - 1, m)
                                      /\ At(All(st), m).exts = st.h.maps[Min(known)]
      BY <2>1, <2>2 DEF StateSound, MapsKnown
    <3> QED
      BY <3>1, <2>1, <2>2, <2>4 DEF MapReady
  <2> QED
    BY <2>4, <2>7, <2>8, <2>9, <1>1 DEF s, known
<1>2. CASE known = {}
  <2> DEFINE added == [st EXCEPT !.id = Len(st.h.maps), !.h.maps = Append(@, exts)]
             e == MapOf(added.id, exts)
  <2>1. s = Put(added, e)
    BY <1>2 DEF LookupMap, MapOf
  <2>2. /\ added.h = [st.h EXCEPT !.maps = Append(@, exts)] /\ added.blocks = st.blocks
        /\ added.id = Len(st.h.maps) /\ added.sysid = st.sysid
    BY <1>a DEF States
  <2>3. /\ added.h.maps = Append(st.h.maps, exts) /\ added.h.buf = st.h.buf /\ added.h.exporters = st.h.exporters
        /\ added.h.since = st.h.since /\ added.h.file = st.h.file /\ added.h.flags = st.h.flags
        /\ added.h.blocks = st.h.blocks /\ added.h.flows = st.h.flows
        /\ added.h \in Handles
    <3>1. Append(st.h.maps, exts) \in Seq(Exts)
      BY <1>a
    <3>2. added.h = [st.h EXCEPT !.maps = Append(st.h.maps, exts)]
      BY <2>2
    <3> DEFINE maps == Append(st.h.maps, exts)
    <3> HIDE DEF added, maps
    <3>3. LET g == [st.h EXCEPT !.maps = maps] IN
          /\ g \in Handles /\ g.maps = maps /\ g.buf = st.h.buf /\ g.exporters = st.h.exporters
          /\ g.since = st.h.since /\ g.file = st.h.file /\ g.flags = st.h.flags
          /\ g.blocks = st.h.blocks /\ g.flows = st.h.flows
      BY <3>1, <1>a, HandleMaps DEF maps
    <3> QED
      BY <3>2, <3>3 DEF maps
  <2>4. added \in States
    <3>1. \A id \in Nat, g \in Handles : [st EXCEPT !.id = id, !.h = g] \in States
      BY <1>a DEF States
    <3>2. added = [st EXCEPT !.id = Len(st.h.maps), !.h = added.h]
      BY <2>2, <1>a DEF States
    <3>3. Len(st.h.maps) \in Nat
      BY <1>a
    <3> QED
      BY <3>1, <3>2, <3>3, <2>3
  <2>5. e.kind = "map" /\ e.id = Len(st.h.maps) /\ e.exts = exts /\ e \in Entries
    <3>1. Len(st.h.maps) \in Nat
      BY <1>a
    <3>2. added.id = Len(st.h.maps)
      BY <2>2
    <3> QED
      BY <3>1, <3>2, MapEntry
  <2>6. All(added) = All(st)
    BY <2>2, <2>3 DEF All
  <2> HIDE DEF added, e, s, known
  <2>7. /\ s \in States /\ s.id = added.id /\ s.sysid = added.sysid
        /\ s.h = [added.h EXCEPT !.buf = s.h.buf, !.blocks = s.h.blocks]
        /\ \E q : Extends(All(st), All(s), q, e)
    BY <2>1, <2>4, <2>5, <2>6, PutFacts
  <2>8. /\ s.h.maps = Append(st.h.maps, exts) /\ s.h.exporters = st.h.exporters /\ s.h.since = st.h.since
    BY <2>7, <2>3 DEF Handles
  <2>9. PICK q : Extends(All(st), All(s), q, e)
    BY <2>7
  <2>10. MapsKnown(st.h.maps, All(s))
    <3>1. \A k \in DOMAIN st.h.maps : k - 1 # e.id
      BY <2>5, <1>a
    <3> QED
      BY <3>1, <2>9, MapsStay DEF StateSound
  <2>11. /\ q \in Places(All(s)) /\ At(All(s), q).exts = exts
         /\ NewestMap(All(s), Places(All(s)), Len(st.h.maps), q)
    <3>1. q \in Places(All(s)) /\ At(All(s), q) = e
      BY <2>9 DEF Extends
    <3> QED
      BY <3>1, <2>5, <2>9, NewestIsNew
  <2>12. MapsKnown(s.h.maps, All(s))
    <3> SUFFICES ASSUME NEW k \in DOMAIN s.h.maps
                 PROVE  \E m \in Places(All(s)) :
                          NewestMap(All(s), Places(All(s)), k - 1, m) /\ At(All(s), m).exts = s.h.maps[k]
      BY DEF MapsKnown
    <3>1. CASE k \in DOMAIN st.h.maps
      <4>1. s.h.maps[k] = st.h.maps[k]
        BY <3>1, <2>8, <1>a
      <4> QED
        BY <3>1, <4>1, <2>10 DEF MapsKnown
    <3>2. CASE k \notin DOMAIN st.h.maps
      <4>1. k - 1 = Len(st.h.maps) /\ s.h.maps[k] = exts
        BY <3>2, <2>8, <1>a
      <4> QED
        BY <4>1, <2>11
    <3> QED
      BY <3>1, <3>2
  <2>13. own => Sound(All(s))
    BY <2>5, <2>9, ExtendSound DEF StateSound
  <2>14. ExportersKnown(s.h.exporters, All(s))
    BY <2>5, <2>8, <2>9, ExportersStay DEF StateSound
  <2>15. own => FlowsCounted(s.h.exporters, s.h.since, All(s), "none")
    BY <2>5, <2>8, <2>9, FlowsThen DEF StateSound, FlowsCounted
  <2>16. own => ExportersListed(s.h.exporters, s.h.since, All(s))
    BY <2>5, <2>8, <2>9, RecordsThen DEF StateSound, ExportersListed
  <2>17. StateSound(own, s, "none")
    <3>1. IsFiniteSet(Places(All(s)))
      BY <2>9, FiniteThen DEF StateSound
    <3> QED
      BY <3>1, <2>7, <2>8, <2>12, <2>13, <2>14, <2>15, <2>16 DEF StateSound
  <2>18. Follows(st, s)
    <3>1. Follows(added, s)
      BY <2>1, <2>4, <2>5, PutFollows
    <3>2. Follows(st, added)
      BY <2>2, <2>3, <2>6 DEF Follows, Kept, Behind
    <3> QED
      BY <3>1, <3>2, FollowsOn
  <2>19. MapReady(s, s.id, exts)
    BY <2>2, <2>7, <2>11 DEF MapReady, added
  <2> QED
    BY <1>2, <2>2, <2>7, <2>8, <2>17, <2>18, <2>19 DEF s, known, added
<1> QED
  BY <1>1, <1>2

\* What a record may refer to stays in place under an entry of another kind.
LEMMA MapStaysReady ==
  ASSUME NEW a, NEW b, NEW q, NEW e, Extends(All(a), All(b), q, e), e.kind # "map",
         NEW id, NEW exts, MapReady(a, id, exts)
  PROVE  MapReady(b, id, exts)
<1>1. PICK m \in Places(All(a)) : NewestMap(All(a), Places(All(a)), id, m) /\ At(All(a), m).exts = exts
  BY DEF MapReady
<1>2. NewestMap(All(b), Places(All(b)), id, m)
  BY <1>1, NewestStays
<1>3. m \in Places(All(b)) /\ At(All(b), m) = At(All(a), m)
  BY DEF Extends
<1> QED
  BY <1>1, <1>2, <1>3 DEF MapReady

\* The exporter of lnf_write is in the list and in the file; the map stays.
LEMMA ExporterSound ==
  ASSUME NEW own \in BOOLEAN, NEW st, NEW exp \in Exporters, exp # "none", StateSound(own, st, "none")
  PROVE  LET s == LookupExporter(st, exp) IN
         /\ StateSound(own, s, "none") /\ Follows(st, s) /\ HasExporter(s, exp)
         /\ s.id = st.id /\ s.h.maps = st.h.maps
         /\ \A id, exts : MapReady(st, id, exts) => MapReady(s, id, exts)
<1> DEFINE s == LookupExporter(st, exp)
           xs == st.h.exporters
<1>a. st \in States /\ st.h \in Handles /\ xs \in Seq(Notes)
  BY DEF StateSound, States, Handles
<1>1. CASE HasExporter(st, exp)
  <2>1. s = st
    BY <1>1 DEF LookupExporter
  <2>2. Follows(st, st)
    BY DEF Follows, Kept, Behind
  <2> QED
    BY <2>1, <2>2, <1>1
<1>2. CASE ~ HasExporter(st, exp)
  <2> DEFINE new == [exp |-> exp, sysid |-> Len(xs) + 1, flows |-> 0]
             ys == <<new>> \o xs
             added == [st EXCEPT !.h.exporters = <<new>> \o @]
             e == ExporterEntryOf(new.sysid, new.exp)
  <2>1. s = Put(added, e)
    BY <1>2 DEF LookupExporter, NewSysid, ExporterEntryOf
  <2>2. /\ new \in Notes /\ new.exp = exp /\ new.sysid = Len(xs) + 1 /\ new.flows = 0
        /\ Len(xs) \in Nat /\ DOMAIN xs = 1 .. Len(xs)
    BY <1>a DEF Notes
  <2> HIDE DEF new
  <2>3. /\ ys \in Seq(Notes) /\ Len(ys) = Len(xs) + 1 /\ DOMAIN ys = 1 .. Len(xs) + 1 /\ ys[1] = new
        /\ \A i \in 2 .. Len(xs) + 1 : ys[i] = xs[i - 1] /\ i - 1 \in DOMAIN xs
    BY <2>2, <1>a
  <2>4. /\ added.h = [st.h EXCEPT !.exporters = ys] /\ added.blocks = st.blocks
        /\ added.id = st.id /\ added.sysid = st.sysid
    BY <1>a DEF States
  <2> HIDE DEF ys
  <2>5. /\ added.h.exporters = ys /\ added.h.buf = st.h.buf /\ added.h.maps = st.h.maps
        /\ added.h.since = st.h.since /\ added.h.file = st.h.file /\ added.h.flags = st.h.flags
        /\ added.h.blocks = st.h.blocks /\ added.h.flows = st.h.flows
        /\ added.h \in Handles
    <3>1. LET g == [st.h EXCEPT !.exporters = ys] IN
          /\ g \in Handles /\ g.exporters = ys /\ g.buf = st.h.buf /\ g.maps = st.h.maps
          /\ g.since = st.h.since /\ g.file = st.h.file /\ g.flags = st.h.flags
          /\ g.blocks = st.h.blocks /\ g.flows = st.h.flows
      BY <2>3, <1>a, HandleExporters
    <3> QED
      BY <2>4, <3>1
  <2>6. added \in States
    <3>1. \A g \in Handles : [st EXCEPT !.h = g] \in States
      BY <1>a DEF States
    <3>2. added = [st EXCEPT !.h = added.h]
      BY <2>4, <1>a DEF States
    <3> QED
      BY <3>1, <3>2, <2>5
  <2>7. e.kind = "exporter" /\ e.sysid = Len(xs) + 1 /\ e.exp = exp /\ e \in Entries
    <3>1. Len(xs) + 1 \in Nat /\ e = ExporterEntryOf(Len(xs) + 1, exp)
      BY <2>2
    <3> HIDE DEF e
    <3> QED
      BY <3>1, ExporterEntry
  <2>8. All(added) = All(st)
    BY <2>4, <2>5 DEF All
  <2> HIDE DEF added, e, s
  <2>9. /\ s \in States /\ s.id = st.id /\ s.sysid = st.sysid
        /\ s.h = [added.h EXCEPT !.buf = s.h.buf, !.blocks = s.h.blocks]
        /\ \E q : Extends(All(st), All(s), q, e)
    BY <2>1, <2>4, <2>6, <2>7, <2>8, PutFacts
  <2>10. /\ s.h.maps = st.h.maps /\ s.h.exporters = ys /\ s.h.since = st.h.since
    BY <2>9, <2>5 DEF Handles
  <2>11. PICK q : Extends(All(st), All(s), q, e)
    BY <2>9
  <2>12. IsFiniteSet(Places(All(s))) /\ (own => Sound(All(s))) /\ MapsKnown(s.h.maps, All(s))
    BY <2>7, <2>10, <2>11, FiniteThen, ExtendSound, MapsStay DEF StateSound
  <2>13. ExportersKnown(xs, All(s))
    <3>1. \A i \in DOMAIN xs : xs[i].sysid = Len(xs) + 1 - i
      BY DEF StateSound, ExportersKnown
    <3>2. \A i \in DOMAIN xs : xs[i].sysid # e.sysid
      BY <3>1, <2>7, <2>2
    <3> QED
      BY <3>2, <2>11, ExportersStay DEF StateSound
  <2>14. /\ q \in Places(All(s)) /\ At(All(s), q).exp = exp
         /\ NewestExporter(All(s), Places(All(s)), Len(xs) + 1, q)
    <3>1. q \in Places(All(s)) /\ At(All(s), q) = e
      BY <2>11 DEF Extends
    <3> QED
      BY <3>1, <2>7, <2>11, NewestIsNew
  <2>15. ExportersKnown(ys, All(s))
    <3> SUFFICES ASSUME NEW i \in DOMAIN ys
                 PROVE  /\ ys[i].sysid = Len(ys) + 1 - i /\ ys[i].exp # "none"
                        /\ \E m \in Places(All(s)) : /\ NewestExporter(All(s), Places(All(s)), ys[i].sysid, m)
                                                      /\ At(All(s), m).exp = ys[i].exp
      BY DEF ExportersKnown
    <3>1. CASE i = 1
      BY <3>1, <2>2, <2>3, <2>14
    <3>2. CASE i # 1
      <4>1. i \in 2 .. Len(xs) + 1
        BY <3>2, <2>3, <2>2
      <4>2. ys[i] = xs[i - 1] /\ i - 1 \in DOMAIN xs
        BY <4>1, <2>3
      <4>3. xs[i - 1].sysid = Len(xs) + 1 - (i - 1)
        BY <4>2, <2>13 DEF ExportersKnown
      <4>4. Len(xs) + 1 - (i - 1) = Len(ys) + 1 - i
        BY <4>1, <2>3, <2>2
      <4> QED
        BY <4>2, <4>3, <4>4, <2>13 DEF ExportersKnown
    <3> QED
      BY <3>1, <3>2
  <2>16. \A i \in DOMAIN xs : xs[i].exp # exp
    BY <1>2 DEF HasExporter
  <2>17. ExportersOnce(ys)
    <3> SUFFICES ASSUME NEW i \in DOMAIN ys, NEW j \in DOMAIN ys, ys[i].exp = ys[j].exp, i # j PROVE FALSE
      BY DEF ExportersOnce
    <3>1. CASE i = 1
      <4>1. j \in 2 .. Len(xs) + 1
        BY <3>1, <2>3, <2>2
      <4> QED
        BY <3>1, <4>1, <2>3, <2>2, <2>16
    <3>2. CASE j = 1
      <4>1. i \in 2 .. Len(xs) + 1
        BY <3>2, <2>3, <2>2
      <4> QED
        BY <3>2, <4>1, <2>3, <2>2, <2>16
    <3>3. CASE i # 1 /\ j # 1
      <4>1. i \in 2 .. Len(xs) + 1 /\ j \in 2 .. Len(xs) + 1
        BY <3>3, <2>3, <2>2
      <4>2. xs[i - 1].exp = xs[j - 1].exp /\ i - 1 \in DOMAIN xs /\ j - 1 \in DOMAIN xs
        BY <4>1, <2>3
      <4>3. i - 1 = j - 1
        BY <4>2 DEF StateSound, ExportersOnce
      <4> QED
        BY <4>1, <4>3
    <3> QED
      BY <3>1, <3>2, <3>3
  <2>18. own => FlowsCounted(ys, st.h.since, All(s), "none")
    <3>1. \A x, since : FlowsOf(All(s), Places(All(s)), x, since) = FlowsOf(All(st), Places(All(st)), x, since)
                     /\ FlowsOf(All(st), Places(All(st)), x, since) \in Nat
      BY <2>7, <2>11, FlowsThen DEF StateSound
    <3>2. own => FlowsOf(All(st), Places(All(st)), exp, st.h.since) = 0
      <4>1. own => {p \in Of(All(st), Places(All(st)), "record") :
                      At(All(st), p).exp = exp /\ At(All(st), p).n > st.h.since} = {}
        BY <2>16 DEF StateSound, ExportersListed, Records
      <4> QED
        BY <4>1, FS_EmptySet DEF FlowsOf
    <3> SUFFICES ASSUME own, NEW i \in DOMAIN ys
                 PROVE  ys[i].flows = FlowsOf(All(s), Places(All(s)), ys[i].exp, st.h.since)
                                        + IF ys[i].exp = "none" THEN 1 ELSE 0
      BY DEF FlowsCounted
    <3>3. CASE i = 1
      BY <3>1, <3>2, <3>3, <2>2, <2>3
    <3>4. CASE i # 1
      <4>1. i \in 2 .. Len(xs) + 1
        BY <3>4, <2>3, <2>2
      <4>2. ys[i] = xs[i - 1] /\ i - 1 \in DOMAIN xs
        BY <4>1, <2>3
      <4> QED
        BY <4>2, <3>1 DEF StateSound, FlowsCounted
    <3> QED
      BY <3>3, <3>4
  <2>19. own => ExportersListed(ys, st.h.since, All(s))
    <3>1. \A i \in DOMAIN xs : i + 1 \in DOMAIN ys /\ ys[i + 1] = xs[i]
      BY <2>2, <2>3
    <3> QED
      BY <3>1, <2>7, <2>11, RecordsThen DEF StateSound, ExportersListed
  <2>20. StateSound(own, s, "none")
    BY <2>9, <2>10, <2>12, <2>15, <2>17, <2>18, <2>19 DEF StateSound
  <2>21. Follows(st, s)
    <3>1. Follows(added, s)
      BY <2>1, <2>6, <2>7, PutFollows
    <3>2. Follows(st, added)
      BY <2>4, <2>5, <2>8 DEF Follows, Kept, Behind
    <3> QED
      BY <3>1, <3>2, FollowsOn
  <2>22. HasExporter(s, exp)
    BY <2>10, <2>3, <2>2 DEF HasExporter
  <2>23. \A id, exts : MapReady(st, id, exts) => MapReady(s, id, exts)
    BY <2>7, <2>11, MapStaysReady
  <2> QED
    BY <2>9, <2>10, <2>20, <2>21, <2>22, <2>23 DEF s
<1> QED
  BY <1>1, <1>2

\* The exporter a record is accounted to is one flow ahead of what the file
\* holds; the record's sysid names it.
LEMMA AccountSound ==
  ASSUME NEW own \in BOOLEAN, NEW st, NEW exp \in Exporters, exp # "none", StateSound(own, st, "none")
  PROVE  LET s == Account(st, exp) IN
         /\ StateSound(own, s, exp) /\ Follows(st, s) /\ HasExporter(s, exp)
         /\ s.id = st.id /\ s.h.maps = st.h.maps
         /\ s.sysid # 0 /\ ExporterReady(s, s.sysid, exp)
         /\ \A id, exts : MapReady(st, id, exts) => MapReady(s, id, exts)
<1> DEFINE found == LookupExporter(st, exp)
           s == Account(st, exp)
           i == ExporterOf(found, exp)
           xs == found.h.exporters
           ys == [xs EXCEPT ![i].flows = @ + 1]
<1>1. /\ StateSound(own, found, "none") /\ Follows(st, found) /\ HasExporter(found, exp)
      /\ found.id = st.id /\ found.h.maps = st.h.maps
      /\ \A id, exts : MapReady(st, id, exts) => MapReady(found, id, exts)
  BY ExporterSound
<1>2. s = [found EXCEPT !.h.exporters[i].flows = @ + 1, !.sysid = found.h.exporters[i].sysid]
  BY DEF Account
<1> HIDE DEF found, s
<1>3. found \in States /\ found.h \in Handles /\ xs \in Seq(Notes)
  BY <1>1 DEF StateSound, States, Handles
<1>4. i \in DOMAIN xs /\ xs[i].exp = exp
  BY <1>1 DEF HasExporter, ExporterOf
<1>5. /\ s.h = [found.h EXCEPT !.exporters = ys] /\ s.blocks = found.blocks
      /\ s.id = found.id /\ s.sysid = xs[i].sysid
  BY <1>2, <1>3 DEF States, Handles
<1>6. xs[i] \in Notes /\ [xs[i] EXCEPT !.flows = @ + 1] \in Notes
  <2>1. xs[i] \in Notes
    BY <1>3, <1>4
  <2>2. \A x \in Notes : [x EXCEPT !.flows = @ + 1] \in Notes
    BY DEF Notes
  <2> QED
    BY <2>1, <2>2
<1>7. /\ ys \in Seq(Notes) /\ Len(ys) = Len(xs) /\ DOMAIN ys = DOMAIN xs
      /\ ys[i] = [xs[i] EXCEPT !.flows = @ + 1]
      /\ \A j \in DOMAIN xs : j # i => ys[j] = xs[j]
  BY <1>3, <1>4, <1>6
<1>8. ys[i].flows = xs[i].flows + 1 /\ ys[i].exp = exp /\ ys[i].sysid = xs[i].sysid
  BY <1>4, <1>6, <1>7 DEF Notes
<1>9. \A j \in DOMAIN xs : ys[j].exp = xs[j].exp /\ ys[j].sysid = xs[j].sysid
  BY <1>4, <1>7, <1>8
<1> HIDE DEF ys, i
<1>10. /\ s.h.exporters = ys /\ s.h.buf = found.h.buf /\ s.h.maps = found.h.maps
       /\ s.h.since = found.h.since /\ s.h.file = found.h.file /\ s.h.flags = found.h.flags
       /\ s.h.blocks = found.h.blocks /\ s.h.flows = found.h.flows
       /\ s.h \in Handles
  <2>1. LET g == [found.h EXCEPT !.exporters = ys] IN
        /\ g \in Handles /\ g.exporters = ys /\ g.buf = found.h.buf /\ g.maps = found.h.maps
        /\ g.since = found.h.since /\ g.file = found.h.file /\ g.flags = found.h.flags
        /\ g.blocks = found.h.blocks /\ g.flows = found.h.flows
    BY <1>7, <1>3, HandleExporters
  <2> QED
    BY <1>5, <2>1
<1>11. All(s) = All(found)
  BY <1>5, <1>10 DEF All
<1>12. s \in States
  <2>1. \A g \in Handles, id \in Nat : [found EXCEPT !.h = g, !.sysid = id] \in States
    BY <1>3 DEF States
  <2>2. s = [found EXCEPT !.h = s.h, !.sysid = s.sysid]
    BY <1>2, <1>5, <1>3 DEF States
  <2>3. s.sysid \in Nat
    BY <1>5, <1>6 DEF Notes
  <2> QED
    BY <2>1, <2>2, <2>3, <1>10
<1>13. ExportersKnown(ys, All(found))
  <2>1. ExportersKnown(xs, All(found))
    BY <1>1 DEF StateSound
  <2>2. DOMAIN ys = DOMAIN xs /\ Len(ys) = Len(xs)
    BY <1>7
  <2> HIDE DEF xs
  <2> QED
    BY <2>1, <2>2, <1>9 DEF ExportersKnown
<1>14. ExportersOnce(ys)
  BY <1>1, <1>7, <1>9 DEF StateSound, ExportersOnce
<1>15. own => FlowsCounted(ys, found.h.since, All(found), exp)
  <2> SUFFICES ASSUME own, NEW j \in DOMAIN xs
               PROVE  ys[j].flows = FlowsOf(All(found), Places(All(found)), ys[j].exp, found.h.since)
                                      + IF ys[j].exp = exp THEN 1 ELSE 0
    BY <1>7 DEF FlowsCounted
  <2>1. xs[j].flows = FlowsOf(All(found), Places(All(found)), xs[j].exp, found.h.since) + 0
    <3>1. xs[j].exp # "none"
      BY <1>1 DEF StateSound, ExportersKnown
    <3> QED
      BY <1>1, <3>1 DEF StateSound, FlowsCounted
  <2>2. FlowsOf(All(found), Places(All(found)), xs[j].exp, found.h.since) \in Nat
    <3>1. IsFiniteSet(Places(All(found)))
      BY <1>1 DEF StateSound
    <3>2. {p \in Of(All(found), Places(All(found)), "record") : At(All(found), p).exp = xs[j].exp
             /\ At(All(found), p).n > found.h.since} \subseteq Places(All(found))
      BY DEF Of
    <3> QED
      BY <3>1, <3>2, FS_Subset, FS_CardinalityType DEF FlowsOf
  <2>3. CASE j = i
    BY <2>1, <2>2, <2>3, <1>4, <1>8
  <2>4. CASE j # i
    <3>1. ys[j] = xs[j] /\ xs[j].exp # exp
      BY <2>4, <1>1, <1>4, <1>7 DEF StateSound, ExportersOnce
    <3> QED
      BY <3>1, <2>1, <2>2
  <2> QED
    BY <2>3, <2>4
<1>16. own => ExportersListed(ys, found.h.since, All(found))
  BY <1>1, <1>7, <1>9 DEF StateSound, ExportersListed
<1>17. StateSound(own, s, exp)
  BY <1>1, <1>10, <1>11, <1>12, <1>13, <1>14, <1>15, <1>16 DEF StateSound
<1>18. Follows(st, s)
  <2>1. Follows(found, s)
    BY <1>5, <1>10, <1>11 DEF Follows, Kept, Behind
  <2> QED
    BY <2>1, <1>1, FollowsOn
<1>19. HasExporter(s, exp)
  BY <1>4, <1>7, <1>8, <1>10 DEF HasExporter
<1>20. s.sysid # 0 /\ ExporterReady(s, s.sysid, exp)
  <2>1. /\ xs[i].sysid = Len(xs) + 1 - i
        /\ \E m \in Places(All(found)) :
             NewestExporter(All(found), Places(All(found)), xs[i].sysid, m) /\ At(All(found), m).exp = xs[i].exp
    BY <1>1, <1>4 DEF StateSound, ExportersKnown
  <2>2. Len(xs) + 1 - i # 0
    BY <1>3, <1>4
  <2> QED
    BY <2>1, <2>2, <1>4, <1>5, <1>11 DEF ExporterReady
<1>21. \A id, exts : MapReady(found, id, exts) => MapReady(s, id, exts)
  BY <1>11 DEF MapReady
<1> QED
  BY <1>1, <1>5, <1>10, <1>17, <1>18, <1>19, <1>20, <1>21 DEF s

\* With or without an exporter, the record that comes next is accounted for.
LEMMA AccountedSound ==
  ASSUME NEW own \in BOOLEAN, NEW st, NEW exp \in Exporters \cup {"none"}, NEW lost \in BOOLEAN,
         StateSound(own, st, "none")
  PROVE  LET s == Accounted(st, exp, lost) x == IF HasExporter(s, exp) THEN exp ELSE "none" IN
         /\ StateSound(own, s, x) /\ Follows(st, s) /\ s.id = st.id /\ s.h.maps = st.h.maps
         /\ x \in Exporters \cup {"none"}
         /\ x # "none" => s.sysid # 0 /\ ExporterReady(s, s.sysid, x)
         /\ \A id, exts : MapReady(st, id, exts) => MapReady(s, id, exts)
<1>1. CASE exp = "none" \/ (lost /\ ~ HasExporter(st, exp))
  <2>1. Accounted(st, exp, lost) = st
    BY <1>1 DEF Accounted
  <2>2. ~ HasExporter(st, "none")
    BY DEF HasExporter, StateSound, ExportersKnown
  <2>3. Follows(st, st)
    BY DEF Follows, Kept, Behind
  <2> QED
    BY <1>1, <2>1, <2>2, <2>3
<1>2. CASE ~ (exp = "none" \/ (lost /\ ~ HasExporter(st, exp)))
  <2>1. Accounted(st, exp, lost) = Account(st, exp) /\ exp \in Exporters /\ exp # "none"
    BY <1>2 DEF Accounted
  <2> QED
    BY <2>1, AccountSound
<1> QED
  BY <1>1, <1>2

\* s is st with one record more.
Recorded(st, s, n) ==
  /\ s.h.file = st.h.file /\ s.h.flags = st.h.flags /\ s.h.since = st.h.since
  /\ Kept(st.blocks, s.blocks) /\ Behind(s) = Behind(st)
  /\ \E q : /\ q \notin Records(All(st)) /\ Records(All(s)) = Records(All(st)) \cup {q}
            /\ At(All(s), q).n = n /\ ~ Before(q, q)
            /\ \A p \in Records(All(st)) : At(All(s), p) = At(All(st), p) /\ Before(p, q) /\ ~ Before(q, p)

\* The record is put behind its map and its exporter.
LEMMA RecordSound ==
  ASSUME NEW own \in BOOLEAN, NEW st, NEW x \in Exporters \cup {"none"}, StateSound(own, st, x),
         NEW exts \in Exts, MapReady(st, st.id, exts),
         x # "none" => st.sysid # 0 /\ ExporterReady(st, st.sysid, x) /\ HasExporter(st, x),
         NEW n \in Nat, n > st.h.since
  PROVE  LET s == Put(st, RecordOf(st.id, exts, st.sysid, n, x)) IN
         StateSound(own, s, "none") /\ Recorded(st, s, n) /\ s.h.maps = st.h.maps /\ s.h.flows = st.h.flows
<1> DEFINE e == RecordOf(st.id, exts, st.sysid, n, x)
           s == Put(st, e)
<1>1. st \in States /\ st.id \in Nat /\ st.sysid \in Nat /\ st.h \in Handles
  BY DEF StateSound, States
<1>2. /\ e \in Entries /\ e.kind = "record" /\ e.id = st.id /\ e.exts = exts /\ e.sysid = st.sysid
      /\ e.n = n /\ e.exp = x
  BY <1>1, RecordEntry
<1> HIDE DEF e
<1>3. /\ s \in States /\ s.h = [st.h EXCEPT !.buf = s.h.buf, !.blocks = s.h.blocks]
      /\ Kept(st.blocks, s.blocks) /\ Behind(s) = Behind(st)
      /\ \E q : Extends(All(st), All(s), q, e)
  BY <1>1, <1>2, PutFacts
<1> HIDE DEF s
<1>4. PICK q : Extends(All(st), All(s), q, e)
  BY <1>3
<1>5. /\ s.h.file = st.h.file /\ s.h.flags = st.h.flags /\ s.h.since = st.h.since
      /\ s.h.maps = st.h.maps /\ s.h.exporters = st.h.exporters /\ s.h.flows = st.h.flows
  BY <1>1, <1>3 DEF Handles
<1>6. own => Sound(All(s))
  <2>1. \E m \in Places(All(st)) : NewestMap(All(st), Places(All(st)), e.id, m) /\ At(All(st), m).exts = e.exts
    BY <1>2 DEF MapReady
  <2>2. e.exp # "none" => /\ e.sysid # 0
                          /\ \E m \in Places(All(st)) : /\ NewestExporter(All(st), Places(All(st)), e.sysid, m)
                                                        /\ At(All(st), m).exp = e.exp
    BY <1>2 DEF ExporterReady
  <2> QED
    BY <1>2, <1>4, <2>1, <2>2, ExtendSound DEF StateSound
<1>7. IsFiniteSet(Places(All(s))) /\ MapsKnown(s.h.maps, All(s)) /\ ExportersKnown(s.h.exporters, All(s))
  BY <1>2, <1>4, <1>5, FiniteThen, MapsStay, ExportersStay DEF StateSound
<1>8. own => FlowsCounted(s.h.exporters, s.h.since, All(s), "none")
  <2> DEFINE xs == st.h.exporters
  <2> SUFFICES ASSUME own, NEW i \in DOMAIN xs
               PROVE  xs[i].flows = FlowsOf(All(s), Places(All(s)), xs[i].exp, st.h.since) + 0
    <3>1. \A i \in DOMAIN xs : xs[i].exp # "none"
      BY DEF StateSound, ExportersKnown
    <3> QED
      BY <1>5, <3>1 DEF FlowsCounted
  <2>1. xs[i].flows = FlowsOf(All(st), Places(All(st)), xs[i].exp, st.h.since) + IF xs[i].exp = x THEN 1 ELSE 0
    BY DEF StateSound, FlowsCounted
  <2>2. /\ FlowsOf(All(st), Places(All(st)), xs[i].exp, st.h.since) \in Nat
        /\ FlowsOf(All(s), Places(All(s)), xs[i].exp, st.h.since) =
              IF e.kind = "record" /\ e.exp = xs[i].exp /\ e.n > st.h.since
              THEN FlowsOf(All(st), Places(All(st)), xs[i].exp, st.h.since) + 1
              ELSE FlowsOf(All(st), Places(All(st)), xs[i].exp, st.h.since)
    BY <1>4, FlowsThen DEF StateSound
  <2>3. CASE xs[i].exp = x
    BY <2>1, <2>2, <2>3, <1>2
  <2>4. CASE xs[i].exp # x
    BY <2>1, <2>2, <2>4, <1>2
  <2> QED
    BY <2>3, <2>4
<1>9. own => ExportersListed(s.h.exporters, s.h.since, All(s))
  <2> SUFFICES ASSUME own, NEW p \in Records(All(s)), At(All(s), p).n > st.h.since, At(All(s), p).exp # "none"
               PROVE  \E i \in DOMAIN st.h.exporters : st.h.exporters[i].exp = At(All(s), p).exp
    BY <1>5 DEF ExportersListed
  <2>1. CASE p = q
    BY <2>1, <1>2, <1>4, RecordsThen DEF HasExporter
  <2>2. CASE p # q
    BY <2>2, <1>2, <1>4, RecordsThen DEF StateSound, ExportersListed
  <2> QED
    BY <2>1, <2>2
<1>10. StateSound(own, s, "none")
  BY <1>3, <1>5, <1>6, <1>7, <1>8, <1>9 DEF StateSound
<1>11. Recorded(st, s, n)
  <2>1. Earlier(All(s), q) = Places(All(st)) /\ q \notin Places(All(st)) /\ q \in Places(All(s))
    BY <1>4 DEF Extends
  <2>2. ~ Before(q, q)
    BY <2>1 DEF Earlier
  <2>3. \A p \in Places(All(st)) : Before(p, q) /\ ~ Before(q, p)
    BY <1>4, <2>1 DEF Earlier, Extends
  <2> QED
    BY <1>2, <1>3, <1>4, <1>5, <2>2, <2>3, RecordsThen DEF Recorded
<1> QED
  BY <1>5, <1>10, <1>11 DEF s, e

\* What lnf_write leaves.
Wrote(st, exts, exp, lost, n) ==
  LET named == Accounted(LookupMap(st, exts), exp, lost)
      stored == Put(named, RecordOf(named.id, exts, named.sysid, n, IF HasExporter(named, exp) THEN exp ELSE "none"))
  IN [stored EXCEPT !.h.flows = @ + 1]
WriteDone(own, st, s, exts, n) ==
  /\ StateSound(own, s, "none") /\ Recorded(st, s, n) /\ s.h.flows = st.h.flows + 1
  /\ s.h.maps = IF KnownMap(st.h.maps, exts) # {} THEN st.h.maps ELSE Append(st.h.maps, exts)

\* One record more, and the handle counts it.
LEMMA WriteSound ==
  ASSUME NEW own \in BOOLEAN, NEW st, StateSound(own, st, "none"), NEW exts \in Exts,
         NEW exp \in Exporters \cup {"none"},
         NEW lost \in BOOLEAN, NEW n \in Nat, n > st.h.since
  PROVE  WriteDone(own, st, Wrote(st, exts, exp, lost, n), exts, n)
<1> DEFINE mapped == LookupMap(st, exts)
           named == Accounted(mapped, exp, lost)
           x == IF HasExporter(named, exp) THEN exp ELSE "none"
           stored == Put(named, RecordOf(named.id, exts, named.sysid, n, x))
           s == [stored EXCEPT !.h.flows = @ + 1]
<1>1. /\ StateSound(own, mapped, "none") /\ Follows(st, mapped) /\ MapReady(mapped, mapped.id, exts)
      /\ mapped.h.maps = IF KnownMap(st.h.maps, exts) # {} THEN st.h.maps ELSE Append(st.h.maps, exts)
  BY MapSound
<1> HIDE DEF mapped
<1>2. /\ StateSound(own, named, x) /\ Follows(mapped, named) /\ named.id = mapped.id /\ named.h.maps = mapped.h.maps
      /\ x \in Exporters \cup {"none"}
      /\ x # "none" => named.sysid # 0 /\ ExporterReady(named, named.sysid, x)
      /\ MapReady(named, named.id, exts)
  BY <1>1, AccountedSound
<1>3. Follows(st, named) /\ named.h.since = st.h.since /\ (x # "none" => HasExporter(named, x))
  BY <1>1, <1>2, FollowsOn DEF Follows
<1> HIDE DEF named, x
<1>4. /\ StateSound(own, stored, "none") /\ Recorded(named, stored, n) /\ stored.h.maps = named.h.maps
      /\ stored.h.flows = named.h.flows
  BY <1>2, <1>3, RecordSound
<1> HIDE DEF stored
<1>5. stored \in States /\ stored.h \in Handles
  BY <1>4 DEF StateSound, States
<1>6. /\ s.blocks = stored.blocks /\ s.h = [stored.h EXCEPT !.flows = @ + 1]
      /\ s.h.buf = stored.h.buf /\ s.h.maps = stored.h.maps /\ s.h.exporters = stored.h.exporters
      /\ s.h.since = stored.h.since /\ s.h.file = stored.h.file /\ s.h.flags = stored.h.flags
      /\ s.h.blocks = stored.h.blocks /\ s.h.flows = stored.h.flows + 1
  BY <1>5 DEF States, Handles
<1>7. s \in States
  <2>1. [stored.h EXCEPT !.flows = @ + 1] \in Handles
    <3>1. \A h \in Handles, k \in Nat : [h EXCEPT !.flows = k] \in Handles
      BY DEF Handles
    <3>2. stored.h.flows + 1 \in Nat
      BY <1>5 DEF Handles
    <3> QED
      BY <3>1, <3>2, <1>5
  <2>2. \A g \in Handles : [stored EXCEPT !.h = g] \in States
    BY <1>5 DEF States
  <2>3. s = [stored EXCEPT !.h = [stored.h EXCEPT !.flows = @ + 1]]
    BY <1>5 DEF States, Handles
  <2> QED
    BY <2>1, <2>2, <2>3, <1>5
<1> HIDE DEF s
<1>8. All(s) = All(stored)
  BY <1>6 DEF All
<1>9. StateSound(own, s, "none")
  BY <1>4, <1>6, <1>7, <1>8 DEF StateSound
<1>10. Recorded(st, s, n)
  <2>1. Kept(st.blocks, s.blocks)
    BY <1>3, <1>4, <1>6 DEF Follows, Recorded, Kept
  <2>2. s.h.file = st.h.file /\ s.h.flags = st.h.flags /\ s.h.since = st.h.since /\ Behind(s) = Behind(st)
    BY <1>3, <1>4, <1>6 DEF Follows, Recorded, Behind
  <2> QED
    BY <2>1, <2>2, <1>3, <1>4, <1>8 DEF Follows, Recorded
<1>11. s.h.flows = st.h.flows + 1
  BY <1>3, <1>4, <1>6 DEF Follows
<1> QED
  BY <1>1, <1>2, <1>4, <1>6, <1>9, <1>10, <1>11 DEF s, stored, named, x, mapped, Wrote, WriteDone

\* What lnf_close leaves in the file.
LEMMA CloseSound ==
  ASSUME NEW own \in BOOLEAN, NEW st, StateSound(own, st, "none")
  PROVE  LET cs == CloseFlush(st).blocks IN
         /\ cs \in Seq(Blocks) /\ (own => Sound(cs)) /\ Kept(st.blocks, cs)
         /\ Records(cs) = Records(All(st)) /\ \A p \in Records(cs) : At(cs, p) = At(All(st), p)
         /\ CloseFlush(st).h.blocks \in Nat /\ Behind(CloseFlush(st)) = Behind(st)
<1> DEFINE put == IF st.h.exporters = <<>> THEN st ELSE Put(st, StatsEntry(st.h))
           cs == Flush(put).blocks
<1>1. st \in States /\ st.h \in Handles
  BY DEF StateSound, States
<1>2. put \in States /\ (own => Sound(All(put))) /\ Follows(st, put)
  <2>1. CASE st.h.exporters = <<>>
    BY <2>1, <1>1 DEF StateSound, Follows, Kept, Behind
  <2>2. CASE st.h.exporters # <<>>
    <3> DEFINE e == StatsEntry(st.h)
    <3>1. e \in Entries /\ e.kind = "stat" /\ e.stats = st.h.exporters /\ e.n = st.h.since
      BY <1>1, StatEntry
    <3> HIDE DEF e
    <3>2. put = Put(st, e)
      BY <2>2 DEF e
    <3> HIDE DEF put
    <3>3. put \in States /\ \E q : Extends(All(st), All(put), q, e)
      BY <1>1, <3>1, <3>2, PutFacts
    <3>4. own => \A s \in Range(e.stats) : s.flows = FlowsOf(All(st), Places(All(st)), s.exp, e.n)
      <4> SUFFICES ASSUME own, NEW i \in DOMAIN st.h.exporters
                   PROVE  st.h.exporters[i].flows
                            = FlowsOf(All(st), Places(All(st)), st.h.exporters[i].exp, st.h.since)
        BY <3>1 DEF Range
      <4>1. st.h.exporters[i].exp # "none"
        BY DEF StateSound, ExportersKnown
      <4>2. st.h.exporters[i].flows = FlowsOf(All(st), Places(All(st)), st.h.exporters[i].exp, st.h.since) + 0
        BY <4>1 DEF StateSound, FlowsCounted
      <4>3. FlowsOf(All(st), Places(All(st)), st.h.exporters[i].exp, st.h.since) \in Nat
        BY <3>3, FlowsThen DEF StateSound
      <4> QED
        BY <4>2, <4>3
    <3>5. own => Sound(All(put))
      BY <3>1, <3>3, <3>4, ExtendSound DEF StateSound
    <3>6. Follows(st, put)
      BY <1>1, <3>1, <3>2, PutFollows
    <3> QED
      BY <3>3, <3>5, <3>6
  <2> QED
    BY <2>1, <2>2
<1> HIDE DEF put
<1>3. /\ Flush(put) \in States /\ Kept(put.blocks, cs) /\ Behind(Flush(put)) = Behind(put)
      /\ Cut(All(put), cs) /\ Places(cs) = Places(All(put))
  BY <1>2, FlushFacts
<1> HIDE DEF cs
<1>4. own => Sound(cs)
  BY <1>2, <1>3, CutSound
<1>5. Kept(st.blocks, cs)
  BY <1>2, <1>3 DEF Follows, Kept, Behind
<1>6. Records(cs) = Records(All(st)) /\ \A p \in Records(cs) : At(cs, p) = At(All(st), p)
  <2>1. Records(cs) = Records(All(put)) /\ \A p \in Records(cs) : At(cs, p) = At(All(put), p)
    BY <1>3 DEF Cut, Records, Of
  <2> QED
    BY <2>1, <1>2 DEF Follows
<1>7. cs \in Seq(Blocks) /\ Flush(put).h.blocks \in Nat /\ Behind(Flush(put)) = Behind(st)
  BY <1>2, <1>3 DEF States, Handles, Follows, cs
<1> QED
  BY <1>4, <1>5, <1>6, <1>7 DEF cs, put, CloseFlush

-----------------------------------------------------------------------------
(***************************************************************************)
(* The system                                                              *)
(***************************************************************************)

FileRecords == [ino : Nat, blocks : Seq(Blocks), header : Nat, flows : Nat]
Acks == [n : Nat, flags : WriteFlags \cup {{}}]

\* Where the writer has no file, and where it has one.
WithoutFile == {"closed", "lock", "nffile", "filter"}
WithFile == {"lock2", "init", "open"}

FileType ==
  /\ files \in Seq(FileRecords) /\ path \in 0 .. Len(files)
  /\ w \in Handles /\ w.file \in 0 .. Len(files)
  /\ rec \in Nat
  /\ acked \in Seq(Seq(Acks)) /\ Len(acked) = Len(files)
  /\ pc["W"] \in WithoutFile \cup WithFile \cup {"dead"}
  /\ pc["W"] \in WithoutFile => w.file = 0
  /\ pc["W"] \in WithFile => w.file # 0

\* Of what is written here alone: the acknowledged numbers rise, and each record
\* has one; what was acknowledged through a handle opened with LNF_WRITE is there.
Rising(acks, top) == \A i, j \in DOMAIN acks : (i < j => acks[i].n < acks[j].n) /\ acks[i].n <= top
WrittenKept(bs, acks) ==
  \A i \in DOMAIN acks : "WRITE" \in acks[i].flags => \E p \in Records(bs) : At(bs, p).n = acks[i].n
Numbered(bs, acks) ==
  /\ \A p \in Records(bs) : \E i \in DOMAIN acks : acks[i].n = At(bs, p).n
  /\ \A p, q \in Records(bs) : Before(p, q) => At(bs, p).n < At(bs, q).n
  /\ WrittenKept(bs, acks)

OwnContent(blocks) == Range(blocks) \cap UNION {Range(c) : c \in Contents} = {}
SoundFile(blocks, bs, acks, top) ==
  Rising(acks, top) /\ (OwnContent(blocks) => Sound(bs) /\ Numbered(bs, acks))

\* The writer between two calls.
Handle == [h |-> w, blocks |-> files[w.file].blocks, id |-> 0, sysid |-> 0]
HandleSound ==
  w.file # 0 =>
    /\ StateSound(OwnContent(files[w.file].blocks), Handle, "none") /\ w.since <= rec
    /\ OwnContent(files[w.file].blocks) /\ "WRITE" \notin w.flags =>
         WrittenKept(files[w.file].blocks, acked[w.file])

\* The inductive invariant.
FileInv ==
  /\ FileType /\ MapsFew /\ HandleSound
  /\ \A f \in DOMAIN files : SoundFile(files[f].blocks, Written(f), acked[f], rec)

\* The files are finite.
LEMMA PlacesFinite ==
  ASSUME NEW bs \in Seq(Blocks)
  PROVE  IsFiniteSet(Places(bs))
<1> DEFINE f == [b \in DOMAIN bs |-> {b} \X DOMAIN bs[b].entries]
           T == {{b} \X DOMAIN bs[b].entries : b \in DOMAIN bs}
<1>1. IsFiniteSet(DOMAIN bs)
  <2>1. DOMAIN bs = 1 .. Len(bs) /\ Len(bs) \in Int /\ 1 \in Int
    OBVIOUS
  <2> QED
    BY <2>1, FS_Interval
<1>2. IsFiniteSet(T)
  <2>1. f \in [DOMAIN bs -> T] /\ \A t \in T : \E b \in DOMAIN bs : f[b] = t
    OBVIOUS
  <2> HIDE DEF f, T
  <2>2. f \in Surjection(DOMAIN bs, T)
    BY <2>1, Fun_IsSurj
  <2> QED
    BY <2>2, <1>1, FS_Surjection
<1>3. ASSUME NEW b \in DOMAIN bs PROVE IsFiniteSet({b} \X DOMAIN bs[b].entries)
  <2>1. bs[b] \in Blocks
    OBVIOUS
  <2>2. \E S : bs[b].entries \in Seq(S)
    <3>1. CASE bs[b] \in OwnBlocks
      BY <3>1 DEF OwnBlocks
    <3>2. CASE bs[b] \notin OwnBlocks
      <4>1. PICK c \in Contents : bs[b] \in Range(c)
        BY <3>2, <2>1 DEF Blocks
      <4>2. bs[b].entries \in Seq(Range(bs[b].entries))
        BY <4>1, NfFileAssumption
      <4> QED
        BY <4>2
    <3> QED
      BY <3>1, <3>2
  <2>3. DOMAIN bs[b].entries = 1 .. Len(bs[b].entries) /\ Len(bs[b].entries) \in Int
    BY <2>2
  <2>4. IsFiniteSet(DOMAIN bs[b].entries)
    BY <2>3, FS_Interval
  <2>5. IsFiniteSet({b})
    BY FS_Singleton
  <2> QED
    BY <2>4, <2>5, FS_Product
<1>4. IsFiniteSet(UNION T)
  <2>1. \A t \in T : IsFiniteSet(t)
    BY <1>3
  <2> HIDE DEF T
  <2> QED
    BY <2>1, <1>2, FS_UNION
<1>5. Places(bs) \subseteq UNION T
  BY DEF Places
<1> QED
  BY <1>4, <1>5, FS_Subset

\* A file of another program.
LEMMA ForeignFile ==
  ASSUME NEW c \in Contents, NEW top
  PROVE  /\ c \in Seq(Blocks) /\ Len(c) \in Nat /\ Cardinality(Records(c)) \in Nat
         /\ SoundFile(c, c, <<>>, top)
<1>1. c \in Seq(Blocks) /\ Len(c) \in Nat
  <2>1. c \in Seq(Range(c)) /\ Range(c) \subseteq Blocks
    BY NfFileAssumption DEF Blocks
  <2> QED
    BY <2>1
<1>2. Cardinality(Records(c)) \in Nat
  <2>1. Records(c) \subseteq Places(c)
    BY DEF Records, Of
  <2> QED
    BY <2>1, <1>1, PlacesFinite, FS_Subset, FS_CardinalityType
<1>3. OwnContent(c) => Places(c) = {}
  <2>1. OwnContent(c) => Range(c) = {}
    BY DEF OwnContent
  <2>2. Range(c) = {} => DOMAIN c = {}
    BY DEF Range
  <2> QED
    BY <2>1, <2>2 DEF Places
<1>4. Places(c) = {} => Sound(c) /\ Records(c) = {}
  BY SoundEverywhere DEF Records, Of
<1>5. DOMAIN <<>> = {}
  OBVIOUS
<1>6. SoundFile(c, c, <<>>, top)
  BY <1>3, <1>4, <1>5 DEF SoundFile, Rising, Numbered, WrittenKept
<1> QED
  BY <1>1, <1>2, <1>6

\* What the property says of the acknowledged records.
LEMMA AckedKeptIs ==
  ASSUME NEW f, acked[f] \in Seq(Acks), NEW top \in Nat, Rising(acked[f], top), Numbered(Written(f), acked[f])
  PROVE  AckedKept(f)
<1> DEFINE bs == Written(f)
           acks == acked[f]
<1>1. \A i \in DOMAIN acks : i \in Nat /\ acks[i].n \in Nat
  <2>1. \A i \in DOMAIN acks : i \in Nat /\ acks[i] \in Acks
    OBVIOUS
  <2> QED
    BY <2>1 DEF Acks
<1>2. \A i, j \in DOMAIN acks : acks[i].n < acks[j].n => i < j
  <2> SUFFICES ASSUME NEW i \in DOMAIN acks, NEW j \in DOMAIN acks, acks[i].n < acks[j].n, ~ (i < j) PROVE FALSE
    OBVIOUS
  <2>1. j < i \/ j = i
    BY <1>1
  <2> QED
    BY <2>1, <1>1 DEF Rising
<1>3. \A i, j \in DOMAIN acks : acks[i].n = acks[j].n => i = j
  <2> SUFFICES ASSUME NEW i \in DOMAIN acks, NEW j \in DOMAIN acks, acks[i].n = acks[j].n, i # j PROVE FALSE
    OBVIOUS
  <2>1. j < i \/ i < j
    BY <1>1
  <2> QED
    BY <2>1, <1>1 DEF Rising
<1> HIDE DEF bs
<1>4. \A p, q \in Records(bs) : Before(p, q) =>
        \E i, j \in DOMAIN acks : i < j /\ acks[i].n = At(bs, p).n /\ acks[j].n = At(bs, q).n
  <2> SUFFICES ASSUME NEW p \in Records(bs), NEW q \in Records(bs), Before(p, q)
               PROVE  \E i, j \in DOMAIN acks : i < j /\ acks[i].n = At(bs, p).n /\ acks[j].n = At(bs, q).n
    OBVIOUS
  <2>1. PICK i \in DOMAIN acks : acks[i].n = At(bs, p).n
    BY DEF Numbered, bs
  <2>2. PICK j \in DOMAIN acks : acks[j].n = At(bs, q).n
    BY DEF Numbered, bs
  <2>3. acks[i].n < acks[j].n
    BY <2>1, <2>2 DEF Numbered, bs
  <2> QED
    BY <2>1, <2>2, <2>3, <1>2
<1>5. /\ \A p \in Records(bs) : \E i \in DOMAIN acks : acks[i].n = At(bs, p).n
      /\ \A i \in DOMAIN acks : "WRITE" \in acks[i].flags => \E p \in Records(bs) : At(bs, p).n = acks[i].n
  BY DEF Numbered, WrittenKept, bs
<1> QED
  BY <1>3, <1>4, <1>5 DEF AckedKept, bs

\* The invariant says what the property says.
LEMMA FileInvIsSound == FileInv => FileSound
<1> SUFFICES ASSUME FileInv, NEW f \in DOMAIN files, Own(f)
             PROVE  Sound(Written(f)) /\ AckedKept(f)
  BY DEF FileSound, FileInv, Sound
<1>1. Sound(Written(f)) /\ Numbered(Written(f), acked[f]) /\ Rising(acked[f], rec)
  BY DEF FileInv, SoundFile, Own, OwnContent
<1>2. acked[f] \in Seq(Acks) /\ rec \in Nat
  <2>1. f \in DOMAIN acked
    BY DEF FileInv, FileType
  <2> QED
    BY <2>1 DEF FileInv, FileType
<1> QED
  BY <1>1, <1>2, AckedKeptIs

\* Nothing was written at the beginning.
LEMMA FileInit == Init => FileInv
<1> SUFFICES ASSUME Init PROVE FileInv
  OBVIOUS
<1>1. NoWriter \in Handles /\ NoWriter.file = 0 /\ DOMAIN NoWriter.maps = {}
  BY DEF NoWriter, Handles
<1>2. DOMAIN files = {} /\ Len(files) = 0 /\ Len(acked) = 0
  BY DEF Init
<1>3. FileType
  BY <1>1, <1>2 DEF Init, FileType, WithoutFile, WithFile, Threads
<1>4. MapsFew
  BY <1>1, FS_EmptySet DEF Init, MapsFew
<1>5. HandleSound
  BY <1>1 DEF Init, HandleSound
<1> QED
  BY <1>2, <1>3, <1>4, <1>5 DEF FileInv

\* What concerns neither the files nor the writer's handle.
LEMMA Quiet ==
  ASSUME FileInv, UNCHANGED <<files, w, rec, acked>>, path' \in 0 .. Len(files),
         pc'["W"] = pc["W"] \/ (pc'["W"] \in WithoutFile /\ w.file = 0) \/ (pc'["W"] \in WithFile /\ w.file # 0)
           \/ pc'["W"] = "dead"
  PROVE  FileInv'
<1>1. FileType'
  BY DEF FileInv, FileType, WithoutFile, WithFile
<1>2. MapsFew' /\ HandleSound'
  BY DEF FileInv, MapsFew, HandleSound, Handle
<1>3. \A f \in DOMAIN files : Written(f)' = Written(f)
  BY DEF Written
<1> QED
  BY <1>1, <1>2, <1>3 DEF FileInv

\* A file is added; the old ones stay as they are.
LEMMA Added ==
  ASSUME FileInv, NEW new \in FileRecords, files' = Append(files, new), acked' = Append(acked, <<>>)
  PROVE  /\ files' \in Seq(FileRecords) /\ Len(files') = Len(files) + 1 /\ Len(files) \in Nat
         /\ acked' \in Seq(Seq(Acks)) /\ Len(acked') = Len(files') /\ DOMAIN files' = DOMAIN files \cup {Len(files')}
         /\ \A f \in DOMAIN files : files'[f] = files[f] /\ acked'[f] = acked[f] /\ f # Len(files')
         /\ files'[Len(files')] = new /\ acked'[Len(files')] = <<>>
<1>1. files \in Seq(FileRecords) /\ acked \in Seq(Seq(Acks)) /\ Len(acked) = Len(files) /\ <<>> \in Seq(Acks)
  BY DEF FileInv, FileType
<1> QED
  BY <1>1

\* Another program puts a file of its own in place.
LEMMA PutInPlaceStep ==
  ASSUME FileInv, NEW c \in Contents, PutInPlace(c)
  PROVE  FileInv'
<1>1. PICK ino \in FreeInodes :
        files' = Append(files, [ino |-> ino, blocks |-> c, header |-> Len(c), flows |-> Cardinality(Records(c))])
  BY DEF PutInPlace
<1> DEFINE new == [ino |-> ino, blocks |-> c, header |-> Len(c), flows |-> Cardinality(Records(c))]
<1>2. new \in FileRecords /\ new.blocks = c
  BY ForeignFile, NfFileAssumption DEF FreeInodes, FileRecords
<1>3. path' = Len(files') /\ acked' = Append(acked, <<>>) /\ UNCHANGED <<pc, w, rec>>
  BY DEF PutInPlace
<1> HIDE DEF new
<1>4. files' = Append(files, new)
  BY <1>1 DEF new
<1>5. /\ files' \in Seq(FileRecords) /\ Len(files') = Len(files) + 1 /\ Len(files) \in Nat
      /\ acked' \in Seq(Seq(Acks)) /\ Len(acked') = Len(files') /\ DOMAIN files' = DOMAIN files \cup {Len(files')}
      /\ \A f \in DOMAIN files : files'[f] = files[f] /\ acked'[f] = acked[f] /\ f # Len(files')
      /\ files'[Len(files')] = new /\ acked'[Len(files')] = <<>>
  BY <1>2, <1>3, <1>4, Added
<1>6. w.file \in 0 .. Len(files) /\ DOMAIN files = 1 .. Len(files)
  BY DEF FileInv, FileType
<1>7. FileType'
  BY <1>3, <1>5, <1>6 DEF FileInv, FileType
<1>8. MapsFew' /\ HandleSound'
  <2>1. MapsFew'
    BY <1>3 DEF FileInv, MapsFew
  <2>2. w.file # 0 => w.file \in DOMAIN files
    BY <1>6
  <2> QED
    BY <2>1, <2>2, <1>3, <1>5 DEF FileInv, HandleSound, Handle
<1>9. ASSUME NEW f \in DOMAIN files' PROVE SoundFile(files'[f].blocks, Written(f)', acked'[f], rec')
  <2>1. CASE f \in DOMAIN files
    <3>1. Written(f)' = Written(f)
      BY <2>1, <1>3, <1>5 DEF Written
    <3> QED
      BY <2>1, <3>1, <1>3, <1>5 DEF FileInv
  <2>2. CASE f = Len(files')
    <3>1. Written(f)' = c
      BY <2>2, <1>2, <1>3, <1>5, <1>6 DEF Written
    <3> QED
      BY <2>2, <3>1, <1>2, <1>3, <1>5, ForeignFile
  <2> QED
    BY <2>1, <2>2, <1>5
<1> QED
  BY <1>7, <1>8, <1>9 DEF FileInv

\* A handle that was just opened knows no maps and no exporters.
LEMMA NewHandle ==
  ASSUME NEW h \in Handles, h.buf = <<>>, h.maps = <<>>, h.exporters = <<>>,
         NEW blocks \in Seq(Blocks), NEW own \in BOOLEAN,
         own => Sound(blocks) /\ \A p \in Records(blocks) : At(blocks, p).n \in Nat /\ At(blocks, p).n <= h.since
  PROVE  StateSound(own, [h |-> h, blocks |-> blocks, id |-> 0, sysid |-> 0], "none")
<1> DEFINE st == [h |-> h, blocks |-> blocks, id |-> 0, sysid |-> 0]
<1>1. st \in States /\ st.h = h /\ st.blocks = blocks
  BY DEF States
<1> HIDE DEF st
<1>2. All(st) = Append(blocks, Block(2, <<>>))
  BY <1>1 DEF All
<1>3. Cut(All(st), blocks) /\ Places(All(st)) = Places(blocks)
  BY <1>2, CutBlock
<1>4. Cut(blocks, All(st))
  BY <1>3 DEF Cut
<1>5. IsFiniteSet(Places(All(st)))
  BY <1>3, PlacesFinite
<1>6. DOMAIN h.maps = {} /\ DOMAIN h.exporters = {}
  OBVIOUS
<1>7. own => Sound(All(st))
  BY <1>4, CutSound
<1>8. own => ExportersListed(h.exporters, h.since, All(st))
  <2> SUFFICES ASSUME own, NEW p \in Records(All(st)), At(All(st), p).n > h.since PROVE FALSE
    BY DEF ExportersListed
  <2>1. p \in Records(blocks) /\ At(All(st), p) = At(blocks, p)
    BY <1>3 DEF Cut, Records, Of
  <2> QED
    BY <2>1 DEF Handles
<1>9. StateSound(own, st, "none")
  BY <1>1, <1>5, <1>6, <1>7, <1>8 DEF StateSound, MapsKnown, ExportersKnown, ExportersOnce, FlowsCounted
<1> QED
  BY <1>9 DEF st

\* A pair has two elements.
LEMMA PairCardinality ==
  ASSUME NEW a, NEW b, a # b
  PROVE  IsFiniteSet({a, b}) /\ Cardinality({a, b}) = 2
<1>1. IsFiniteSet({a}) /\ Cardinality({a}) = 1
  BY FS_Singleton
<1>2. b \notin {a} /\ {a, b} = {a} \cup {b}
  OBVIOUS
<1> DEFINE S == {a}
<1> HIDE DEF S
<1>3. IsFiniteSet(S \cup {b}) /\ Cardinality(S \cup {b}) = Cardinality(S) + 1
  BY <1>1, <1>2, FS_AddElement DEF S
<1> QED
  BY <1>1, <1>2, <1>3 DEF S

\* A new map is one of two at most.
LEMMA MapsFewThen ==
  ASSUME NEW maps \in Seq(Exts), NEW exts \in Exts, KnownMap(maps, exts) = {}, NEW x \in Exts,
         Cardinality({i \in DOMAIN maps : maps[i] = x}) <= 2
  PROVE  Cardinality({i \in DOMAIN Append(maps, exts) : Append(maps, exts)[i] = x}) <= 2
<1> DEFINE new == Append(maps, exts)
           n == Len(maps)
<1>1. /\ n \in Nat /\ DOMAIN maps = 1 .. n /\ DOMAIN new = 1 .. n + 1 /\ new[n + 1] = exts
      /\ \A i \in 1 .. n : new[i] = maps[i]
  OBVIOUS
<1>2. CASE x # exts
  <2>1. {i \in DOMAIN new : new[i] = x} = {i \in DOMAIN maps : maps[i] = x}
    BY <1>1, <1>2
  <2> QED
    BY <2>1
<1>3. CASE x = exts
  <2>1. \A i \in DOMAIN maps : maps[i] = exts => i = n
    BY <1>1 DEF KnownMap
  <2>2. {i \in DOMAIN new : new[i] = x} \subseteq {n, n + 1}
    BY <1>1, <1>3, <2>1
  <2>4. IsFiniteSet({n, n + 1}) /\ Cardinality({n, n + 1}) = 2
    <3>1. n \in Nat
      BY <1>1
    <3> HIDE DEF n
    <3>2. n # n + 1
      BY <3>1
    <3> QED
      BY <3>2, PairCardinality
  <2>5. IsFiniteSet({i \in DOMAIN new : new[i] = x})
        /\ Cardinality({i \in DOMAIN new : new[i] = x}) <= 2
    BY <2>2, <2>4, FS_Subset
  <2> QED
    BY <2>5
<1> QED
  BY <1>2, <1>3

\* The handles lnf_open makes, for a new file and for one that is there.
NewWriter(file, flags, since) == [NoWriter EXCEPT !.file = file, !.flags = flags, !.since = since]
Appender(file, flags, blocks, flows, since) ==
  [NoWriter EXCEPT !.file = file, !.flags = flags, !.blocks = blocks, !.flows = flows, !.since = since]

\* They are handles with nothing in them.
Fresh(h, file, since) ==
  h \in Handles /\ h.file = file /\ h.buf = <<>> /\ h.maps = <<>> /\ h.exporters = <<>> /\ h.since = since
LEMMA OpenedHandles ==
  ASSUME NEW file \in Nat, NEW flags \in WriteFlags, NEW blocks \in Nat, NEW flows \in Nat, NEW since \in Nat
  PROVE  /\ Fresh(NewWriter(file, flags, since), file, since)
         /\ Fresh(Appender(file, flags, blocks, flows, since), file, since)
<1>1. NoWriter \in Handles
  BY DEF NoWriter, Handles
<1>2. \A h \in Handles : /\ [h EXCEPT !.file = file, !.flags = flags, !.since = since] \in Handles
                        /\ [h EXCEPT !.file = file, !.flags = flags, !.blocks = blocks, !.flows = flows,
                                       !.since = since] \in Handles
  BY DEF Handles
<1> QED
  BY <1>1, <1>2 DEF NewWriter, Appender, NoWriter, Fresh

\* lnf_open for writing under a free name.
LEMMA OpenNewStep ==
  ASSUME FileInv, pc \in [Threads -> Pcs], NEW flags \in WriteFlags, OpenNew(flags), w.file = 0, UNCHANGED rec
  PROVE  FileInv'
<1>1. PICK ino \in FreeInodes : files' = Append(files, [ino |-> ino, blocks |-> <<>>, header |-> 0, flows |-> 0])
  BY DEF OpenNew
<1> DEFINE new == [ino |-> ino, blocks |-> <<>>, header |-> 0, flows |-> 0]
<1>2. new \in FileRecords /\ new.blocks = <<>>
  <2>1. <<>> \in Seq(Blocks)
    OBVIOUS
  <2> QED
    BY <2>1, NfFileAssumption DEF FreeInodes, FileRecords
<1>3. /\ path' = Len(files') /\ acked' = Append(acked, <<>>)
      /\ w' = [NoWriter EXCEPT !.file = path', !.flags = flags, !.since = rec]
      /\ pc' = [pc EXCEPT !["W"] = IF path' = 0 THEN "closed" ELSE "lock2"]
  BY DEF OpenNew, Opened
<1> HIDE DEF new
<1>4. files' = Append(files, new)
  BY <1>1 DEF new
<1>5. /\ files' \in Seq(FileRecords) /\ Len(files') = Len(files) + 1 /\ Len(files) \in Nat
      /\ acked' \in Seq(Seq(Acks)) /\ Len(acked') = Len(files') /\ DOMAIN files' = DOMAIN files \cup {Len(files')}
      /\ \A f \in DOMAIN files : files'[f] = files[f] /\ acked'[f] = acked[f] /\ f # Len(files')
      /\ files'[Len(files')] = new /\ acked'[Len(files')] = <<>>
  BY <1>2, <1>3, <1>4, Added
<1>6. rec \in Nat
  BY DEF FileInv, FileType
<1>7. /\ w' \in Handles /\ w'.file = Len(files') /\ w'.buf = <<>> /\ w'.maps = <<>> /\ w'.exporters = <<>>
      /\ w'.since = rec
  <2>1. w' = NewWriter(Len(files'), flags, rec) /\ Len(files') \in Nat
    BY <1>3, <1>5 DEF NewWriter
  <2> QED
    <3>1. Fresh(NewWriter(Len(files'), flags, rec), Len(files'), rec)
      BY <2>1, <1>6, OpenedHandles
    <3> QED
      BY <2>1, <3>1 DEF Fresh
<1>8. pc'["W"] = "lock2" /\ w'.file # 0
  <2>1. "W" \in DOMAIN pc
    BY DEF Threads
  <2> QED
    BY <2>1, <1>3, <1>5, <1>7
<1>9. FileType'
  BY <1>3, <1>5, <1>6, <1>7, <1>8 DEF FileType, WithFile, WithoutFile
<1>10. MapsFew'
  <2>1. DOMAIN w'.maps = {}
    BY <1>7
  <2> QED
    BY <2>1, FS_EmptySet DEF MapsFew
<1>11. Places(<<>>) = {} /\ Sound(<<>>) /\ Records(<<>>) = {}
  <2>1. Places(<<>>) = {}
    BY DEF Places
  <2> QED
    BY <2>1, SoundEverywhere DEF Records, Of
<1>12. <<>> \in Seq(Blocks)
  OBVIOUS
<1>13. HandleSound'
  <2>1. Handle' = [h |-> w', blocks |-> <<>>, id |-> 0, sysid |-> 0]
    BY <1>2, <1>5, <1>7 DEF Handle
  <2>2. \A own \in BOOLEAN : StateSound(own, Handle', "none")
    BY <2>1, <1>7, <1>11, <1>12, NewHandle
  <2>3. OwnContent(<<>>) \in BOOLEAN
    BY DEF OwnContent
  <2>4. WrittenKept(<<>>, <<>>)
    BY DEF WrittenKept
  <2>5. files'[w'.file].blocks = <<>> /\ acked'[w'.file] = <<>>
    BY <1>2, <1>5, <1>7
  <2> QED
    BY <2>2, <2>3, <2>4, <2>5, <1>6, <1>7 DEF HandleSound
<1>14. ASSUME NEW f \in DOMAIN files' PROVE SoundFile(files'[f].blocks, Written(f)', acked'[f], rec')
  <2>1. CASE f \in DOMAIN files
    <3>1. Written(f)' = Written(f)
      <4>1. f # 0 /\ w'.file # f
        BY <2>1, <1>5, <1>7 DEF FileInv, FileType
      <4> QED
        BY <2>1, <4>1, <1>5 DEF Written
    <3> QED
      BY <2>1, <3>1, <1>5 DEF FileInv
  <2>2. CASE f = Len(files')
    <3>1. Written(f)' = Append(<<>>, Block(2, <<>>))
      BY <2>2, <1>2, <1>5, <1>7 DEF Written
    <3>2. Cut(<<>>, Append(<<>>, Block(2, <<>>))) /\ Places(Append(<<>>, Block(2, <<>>))) = {}
      BY <1>11, <1>12, CutBlock DEF Cut
    <3>3. Sound(Append(<<>>, Block(2, <<>>))) /\ Records(Append(<<>>, Block(2, <<>>))) = {}
      BY <3>2, <1>11, CutSound DEF Records, Of
    <3> QED
      <4>1. Rising(<<>>, rec')
        BY DEF Rising
      <4>2. Numbered(Append(<<>>, Block(2, <<>>)), <<>>)
        BY <3>3 DEF Numbered, WrittenKept
      <4> QED
        BY <4>1, <4>2, <2>2, <3>1, <3>3, <1>5 DEF SoundFile
  <2> QED
    BY <2>1, <2>2, <1>5
<1> QED
  BY <1>9, <1>10, <1>13, <1>14 DEF FileInv

\* lnf_open for appending to the file that is there.
LEMMA OpenAppendStep ==
  ASSUME FileInv, pc \in [Threads -> Pcs], NEW flags \in WriteFlags, OpenAppend(flags), w.file = 0, path # 0,
         UNCHANGED rec
  PROVE  FileInv'
<1>1. /\ w' = [NoWriter EXCEPT !.file = path, !.flags = flags, !.blocks = files[path].header,
                         !.flows = files[path].flows, !.since = rec]
      /\ UNCHANGED <<files, path, acked>>
      /\ pc' = [pc EXCEPT !["W"] = IF path = 0 THEN "closed" ELSE "lock2"]
  BY DEF OpenAppend, Opened
<1>2. rec \in Nat /\ path \in DOMAIN files /\ Len(files) \in Nat /\ path \in 0 .. Len(files)
  BY DEF FileInv, FileType
<1>3. files[path].blocks \in Seq(Blocks) /\ files[path].header \in Nat /\ files[path].flows \in Nat
  <2>1. files[path] \in FileRecords
    BY <1>2 DEF FileInv, FileType
  <2> QED
    BY <2>1 DEF FileRecords
<1>4. /\ w' \in Handles /\ w'.file = path /\ w'.buf = <<>> /\ w'.maps = <<>> /\ w'.exporters = <<>>
      /\ w'.since = rec
  <2>1. w' = Appender(path, flags, files[path].header, files[path].flows, rec) /\ path \in Nat
    BY <1>1, <1>2 DEF Appender
  <2> QED
    <3>1. Fresh(Appender(path, flags, files[path].header, files[path].flows, rec), path, rec)
      BY <2>1, <1>2, <1>3, OpenedHandles
    <3> QED
      BY <2>1, <3>1 DEF Fresh
<1>5. pc'["W"] = "lock2"
  BY <1>1 DEF Threads
<1>6. FileType'
  BY <1>1, <1>2, <1>4, <1>5 DEF FileInv, FileType, WithFile, WithoutFile
<1>7. MapsFew'
  <2>1. DOMAIN w'.maps = {}
    BY <1>4
  <2> QED
    BY <2>1, FS_EmptySet DEF MapsFew
<1> DEFINE blocks == files[path].blocks
           bs == Append(blocks, Block(2, <<>>))
<1>8. Written(path) = blocks /\ Written(path)' = bs
  BY <1>1, <1>2, <1>4 DEF Written
<1>9. SoundFile(blocks, blocks, acked[path], rec)
  BY <1>2, <1>8 DEF FileInv
<1> HIDE DEF blocks, bs
<1>10. Places(bs) = Places(blocks) /\ Cut(bs, blocks) /\ Cut(blocks, bs)
  BY <1>3, CutBlock DEF Cut, blocks, bs
<1>11. Records(bs) = Records(blocks) /\ \A p \in Records(bs) : At(bs, p) = At(blocks, p)
  BY <1>10 DEF Cut, Records, Of
<1>12. SoundFile(blocks, bs, acked[path], rec)
  BY <1>9, <1>10, <1>11, CutSound DEF SoundFile, Numbered, WrittenKept
<1>13. HandleSound'
  <2>1. Handle' = [h |-> w', blocks |-> blocks, id |-> 0, sysid |-> 0]
    BY <1>1, <1>4 DEF Handle, blocks
  <2>2. acked[path] \in Seq(Acks)
    BY <1>2 DEF FileInv, FileType
  <2>3. \A i \in DOMAIN acked[path] : acked[path][i].n \in Nat /\ acked[path][i].n <= rec
    <3>1. \A i \in DOMAIN acked[path] : acked[path][i] \in Acks
      BY <2>2
    <3> QED
      BY <3>1, <1>9 DEF Acks, SoundFile, Rising
  <2>4. OwnContent(blocks) \in BOOLEAN
    BY DEF OwnContent
  <2>5. OwnContent(blocks) =>
          Sound(blocks) /\ \A p \in Records(blocks) : At(blocks, p).n \in Nat /\ At(blocks, p).n <= w'.since
    BY <1>4, <1>9, <2>3 DEF SoundFile, Numbered
  <2>6. StateSound(OwnContent(blocks), Handle', "none")
    BY <2>1, <2>4, <2>5, <1>3, <1>4, NewHandle DEF blocks
  <2>7. OwnContent(blocks) => WrittenKept(blocks, acked[path])
    BY <1>9 DEF SoundFile, Numbered
  <2> QED
    BY <2>6, <2>7, <1>1, <1>2, <1>4 DEF HandleSound, blocks
<1>14. ASSUME NEW f \in DOMAIN files' PROVE SoundFile(files'[f].blocks, Written(f)', acked'[f], rec')
  <2>1. CASE f = path
    BY <2>1, <1>1, <1>8, <1>12 DEF blocks
  <2>2. CASE f # path
    <3>1. Written(f)' = Written(f)
      <4>1. f # 0
        BY <1>1 DEF FileInv, FileType
      <4> QED
        BY <2>2, <4>1, <1>1, <1>4 DEF Written
    <3> QED
      BY <3>1, <1>1 DEF FileInv
  <2> QED
    BY <2>1, <2>2
<1> QED
  BY <1>6, <1>7, <1>13, <1>14 DEF FileInv

\* The record is acknowledged with its number.
LEMMA AckedThen ==
  ASSUME NEW acks \in Seq(Acks), NEW top \in Nat, NEW ack \in Acks, ack.n = top + 1, Rising(acks, top)
  PROVE  LET new == Append(acks, ack) IN
         /\ new \in Seq(Acks) /\ Rising(new, top + 1) /\ DOMAIN new = DOMAIN acks \cup {Len(acks) + 1}
         /\ new[Len(acks) + 1] = ack /\ \A i \in DOMAIN acks : new[i] = acks[i]
<1> DEFINE new == Append(acks, ack)
           n == Len(acks)
<1>1. /\ n \in Nat /\ new \in Seq(Acks) /\ DOMAIN acks = 1 .. n /\ DOMAIN new = 1 .. n + 1
      /\ new[n + 1] = ack /\ \A i \in 1 .. n : new[i] = acks[i]
  OBVIOUS
<1>2. \A i \in 1 .. n : acks[i].n \in Nat
  <2>1. \A i \in 1 .. n : acks[i] \in Acks
    OBVIOUS
  <2> QED
    BY <2>1 DEF Acks
<1> HIDE DEF new, n
<1>3. Rising(new, top + 1)
  <2> SUFFICES ASSUME NEW i \in 1 .. n + 1, NEW j \in 1 .. n + 1
               PROVE  (i < j => new[i].n < new[j].n) /\ new[i].n <= top + 1
    BY <1>1 DEF Rising
  <2>1. CASE i = n + 1
    BY <2>1, <1>1
  <2>2. CASE i \in 1 .. n
    <3>1. new[i] = acks[i] /\ acks[i].n \in Nat /\ acks[i].n <= top
      BY <2>2, <1>1, <1>2 DEF Rising
    <3>2. CASE j = n + 1
      BY <3>1, <3>2, <1>1
    <3>3. CASE j \in 1 .. n
      <4>1. new[j] = acks[j] /\ (i < j => acks[i].n < acks[j].n)
        BY <2>2, <3>3, <1>1 DEF Rising
      <4> QED
        BY <3>1, <4>1
    <3> QED
      BY <3>2, <3>3, <1>1
  <2> QED
    BY <2>1, <2>2, <1>1
<1> QED
  BY <1>1, <1>3 DEF new, n

\* With one record more, acknowledged, the numbers are still right.
LEMMA NumberedThen ==
  ASSUME NEW st, NEW s, NEW top \in Nat, Recorded(st, s, top + 1),
         NEW acks \in Seq(Acks), Rising(acks, top), Numbered(All(st), acks),
         NEW flags \in WriteFlags \cup {{}}
  PROVE  Numbered(All(s), Append(acks, [n |-> top + 1, flags |-> flags]))
<1> DEFINE bs == All(st)
           cs == All(s)
           ack == [n |-> top + 1, flags |-> flags]
           new == Append(acks, ack)
<1>1. PICK q : /\ q \notin Records(bs) /\ Records(cs) = Records(bs) \cup {q}
              /\ At(cs, q).n = top + 1 /\ ~ Before(q, q)
              /\ \A p \in Records(bs) : At(cs, p) = At(bs, p) /\ Before(p, q) /\ ~ Before(q, p)
  BY DEF Recorded
<1>2. /\ new \in Seq(Acks) /\ DOMAIN new = DOMAIN acks \cup {Len(acks) + 1}
      /\ new[Len(acks) + 1] = ack /\ \A i \in DOMAIN acks : new[i] = acks[i] /\ acks[i].n <= top
  <2>1. ack \in Acks /\ ack.n = top + 1
    BY DEF Acks
  <2> HIDE DEF ack
  <2> QED
    BY <2>1, AckedThen DEF Rising
<1>3. Len(acks) + 1 \in DOMAIN new /\ new[Len(acks) + 1].n = top + 1 /\ ack.flags = flags
  BY <1>2
<1>4. \A p \in Records(bs) : At(bs, p).n \in Nat /\ At(bs, p).n <= top
  <2>1. \A i \in DOMAIN acks : acks[i].n \in Nat
    <3>1. \A i \in DOMAIN acks : acks[i] \in Acks
      OBVIOUS
    <3> QED
      BY <3>1 DEF Acks
  <2> QED
    BY <2>1 DEF Numbered, Rising
<1> HIDE DEF bs, cs, new, ack
<1>5. \A p \in Records(cs) : \E i \in DOMAIN new : new[i].n = At(cs, p).n
  <2> SUFFICES ASSUME NEW p \in Records(cs) PROVE \E i \in DOMAIN new : new[i].n = At(cs, p).n
    OBVIOUS
  <2>1. CASE p = q
    BY <2>1, <1>1, <1>3
  <2>2. CASE p \in Records(bs)
    <3>1. PICK i \in DOMAIN acks : acks[i].n = At(bs, p).n
      BY <2>2 DEF Numbered, bs
    <3> QED
      BY <3>1, <2>2, <1>1, <1>2
  <2> QED
    BY <2>1, <2>2, <1>1
<1>6. \A p, x \in Records(cs) : Before(p, x) => At(cs, p).n < At(cs, x).n
  <2> SUFFICES ASSUME NEW p \in Records(cs), NEW x \in Records(cs), Before(p, x)
               PROVE  At(cs, p).n < At(cs, x).n
    OBVIOUS
  <2>1. p # q /\ p \in Records(bs)
    BY <1>1
  <2>2. CASE x = q
    BY <2>1, <2>2, <1>1, <1>4
  <2>3. CASE x \in Records(bs)
    BY <2>1, <2>3, <1>1 DEF Numbered, bs
  <2> QED
    BY <2>2, <2>3, <1>1
<1>7. WrittenKept(cs, new)
  <2> SUFFICES ASSUME NEW i \in DOMAIN new, "WRITE" \in new[i].flags
               PROVE  \E p \in Records(cs) : At(cs, p).n = new[i].n
    BY DEF WrittenKept
  <2>1. CASE i = Len(acks) + 1
    BY <2>1, <1>1, <1>3
  <2>2. CASE i \in DOMAIN acks
    <3>1. PICK p \in Records(bs) : At(bs, p).n = acks[i].n
      BY <2>2, <1>2 DEF Numbered, WrittenKept, bs
    <3> QED
      BY <3>1, <2>2, <1>1, <1>2
  <2> QED
    BY <2>1, <2>2, <1>2
<1> QED
  BY <1>5, <1>6, <1>7 DEF Numbered, cs, new, ack

\* What is kept keeps what was written.
LEMMA KeptWritten ==
  ASSUME NEW bs, NEW cs, Kept(bs, cs), NEW acks, WrittenKept(bs, acks)
  PROVE  WrittenKept(cs, acks)
<1>1. \A p \in Records(bs) : p \in Records(cs) /\ At(cs, p) = At(bs, p)
  BY DEF Kept, Records, Of
<1> QED
  BY <1>1 DEF WrittenKept

\* The writer puts blocks into its file.
LEMMA BlocksStored ==
  ASSUME FileInv, w.file # 0, NEW blocks \in Seq(Blocks), files' = [files EXCEPT ![w.file].blocks = blocks]
  PROVE  /\ files' \in Seq(FileRecords) /\ Len(files') = Len(files) /\ DOMAIN files' = DOMAIN files
         /\ w.file \in DOMAIN files /\ files'[w.file].blocks = blocks
         /\ \A f \in DOMAIN files : f # w.file => files'[f] = files[f]
<1>1. files \in Seq(FileRecords) /\ w.file \in DOMAIN files /\ DOMAIN files = 1 .. Len(files)
  BY DEF FileInv, FileType
<1>2. \A g \in FileRecords : [g EXCEPT !.blocks = blocks] \in FileRecords
  BY DEF FileRecords
<1>3. files' = [files EXCEPT ![w.file] = [files[w.file] EXCEPT !.blocks = blocks]]
  BY <1>1
<1>4. files[w.file] \in FileRecords
  BY <1>1
<1>5. /\ [files[w.file] EXCEPT !.blocks = blocks] \in FileRecords
      /\ [files[w.file] EXCEPT !.blocks = blocks].blocks = blocks
  BY <1>2, <1>4 DEF FileRecords
<1> QED
  BY <1>1, <1>3, <1>5

\* What rises below a bound rises below the next.
LEMMA RisingStill ==
  ASSUME NEW acks \in Seq(Acks), NEW top \in Nat, Rising(acks, top)
  PROVE  Rising(acks, top + 1)
<1>1. \A i \in DOMAIN acks : acks[i].n \in Nat
  <2>1. \A i \in DOMAIN acks : acks[i] \in Acks
    OBVIOUS
  <2> QED
    BY <2>1 DEF Acks
<1> QED
  BY <1>1 DEF Rising

\* A content that another one keeps is no less the program's own.
LEMMA OwnBefore ==
  ASSUME NEW bs, NEW cs, Kept(bs, cs), OwnContent(cs)
  PROVE  OwnContent(bs)
  BY DEF Kept, OwnContent

\* The maps of the handle after lnf_write.
LEMMA MapsFewAfter ==
  ASSUME FileInv, NEW exts \in Exts,
         w'.maps = IF KnownMap(w.maps, exts) # {} THEN w.maps ELSE Append(w.maps, exts)
  PROVE  MapsFew'
<1>1. w.maps \in Seq(Exts) /\ \A x \in Exts : Cardinality({i \in DOMAIN w.maps : w.maps[i] = x}) <= 2
  BY DEF FileInv, FileType, Handles, MapsFew
<1> SUFFICES ASSUME NEW x \in Exts PROVE Cardinality({i \in DOMAIN w'.maps : w'.maps[i] = x}) <= 2
  BY DEF MapsFew
<1>2. CASE KnownMap(w.maps, exts) # {}
  BY <1>1, <1>2
<1>3. CASE KnownMap(w.maps, exts) = {}
  <2>1. w'.maps = Append(w.maps, exts)
    BY <1>3
  <2>2. w.maps \in Seq(Exts) /\ Cardinality({i \in DOMAIN w.maps : w.maps[i] = x}) <= 2
    BY <1>1
  <2>3. Cardinality({i \in DOMAIN Append(w.maps, exts) : Append(w.maps, exts)[i] = x}) <= 2
    BY <1>3, <2>2, MapsFewThen
  <2> QED
    BY <2>1, <2>3
<1> QED
  BY <1>2, <1>3
\* What lnf_write makes of its handle and its file.
LEMMA WriteGives ==
  ASSUME FileInv, pc["W"] = "open", NEW exts \in Exts, NEW exp \in Exporters \cup {"none"}, NEW left \in Leftovers,
         NEW lost \in BOOLEAN, Write(exts, exp, left, lost)
  PROVE  LET own == OwnContent(files[w.file].blocks)
             st == Started(left)
         IN /\ w.file # 0 /\ w \in Handles /\ rec \in Nat /\ w.since \in Nat /\ w.since <= rec
            /\ w.flags \in WriteFlags \cup {{}} /\ w.file \in Nat
            /\ StateSound(own, st, "none") /\ own \in BOOLEAN /\ All(st) = Written(w.file) /\ st.h = w
            /\ st.blocks = files[w.file].blocks /\ rec + 1 > st.h.since
            /\ \E s : /\ w' = s.h /\ files' = [files EXCEPT ![w.file].blocks = s.blocks]
                     /\ WriteDone(own, st, s, exts, rec + 1)
<1> DEFINE own == OwnContent(files[w.file].blocks)
           st == Started(left)
<1>1. /\ w.file # 0 /\ w \in Handles /\ rec \in Nat /\ w.since \in Nat /\ w.since <= rec
      /\ w.flags \in WriteFlags \cup {{}} /\ w.file \in Nat
  BY DEF FileInv, FileType, WithFile, HandleSound, Handles
<1>2. StateSound(own, st, "none") /\ own \in BOOLEAN /\ All(st) = Written(w.file) /\ st.h = w
      /\ st.blocks = files[w.file].blocks
  <2>1. StateSound(own, Handle, "none")
    BY <1>1 DEF FileInv, HandleSound
  <2>2. Handle.h = w /\ st.h = w /\ Handle.blocks = files[w.file].blocks /\ st.blocks = files[w.file].blocks
    BY DEF Handle, Started
  <2>3. All(st) = All(Handle) /\ All(st) = Written(w.file)
    BY <2>2 DEF All, Written
  <2>4. st \in States
    BY <2>1, NfFileAssumption DEF StateSound, States, Handle, Started
  <2> HIDE DEF st
  <2>5. own \in BOOLEAN
    BY DEF OwnContent
  <2> QED
    BY <2>1, <2>2, <2>3, <2>4, <2>5 DEF StateSound
<1>3. rec + 1 \in Nat /\ rec + 1 > st.h.since
  BY <1>1, <1>2
<1>4. \E s : /\ w' = s.h /\ files' = [files EXCEPT ![w.file].blocks = s.blocks]
            /\ WriteDone(own, st, s, exts, rec + 1)
  <2> DEFINE s == Wrote(st, exts, exp, lost, rec + 1)
  <2>1. w' = s.h /\ files' = [files EXCEPT ![w.file].blocks = s.blocks]
    BY DEF Write, Stored, Wrote, RecordOf
  <2> HIDE DEF st, own
  <2>2. \A n \in Nat : n > st.h.since => WriteDone(own, st, Wrote(st, exts, exp, lost, n), exts, n)
    <3>1. StateSound(own, st, "none") /\ own \in BOOLEAN
      BY <1>2
    <3> QED
      BY <3>1, WriteSound
  <2>3. WriteDone(own, st, s, exts, rec + 1)
    BY <1>3, <2>2
  <2> HIDE DEF s
  <2> QED
    BY <2>1, <2>3
<1> QED
  BY <1>1, <1>2, <1>3, <1>4

\* lnf_write.
LEMMA WriteStep ==
  ASSUME FileInv, pc["W"] = "open", NEW exts \in Exts, NEW exp \in Exporters \cup {"none"}, NEW left \in Leftovers,
         NEW lost \in BOOLEAN, Write(exts, exp, left, lost)
  PROVE  FileInv'
<1> DEFINE own == OwnContent(files[w.file].blocks)
           st == Started(left)
<1>1. /\ w.file # 0 /\ w \in Handles /\ rec \in Nat /\ w.since \in Nat /\ w.since <= rec
      /\ w.flags \in WriteFlags \cup {{}} /\ w.file \in Nat
  BY WriteGives
<1>2. StateSound(own, st, "none") /\ own \in BOOLEAN /\ All(st) = Written(w.file) /\ st.h = w
      /\ st.blocks = files[w.file].blocks
  BY WriteGives
<1>3. rec + 1 \in Nat /\ rec + 1 > st.h.since
  BY <1>1, <1>2
<1>4. PICK s : /\ w' = s.h /\ files' = [files EXCEPT ![w.file].blocks = s.blocks]
              /\ StateSound(own, s, "none") /\ Recorded(st, s, rec + 1)
              /\ s.h.maps = IF KnownMap(st.h.maps, exts) # {} THEN st.h.maps ELSE Append(st.h.maps, exts)
  <2>1. PICK s : /\ w' = s.h /\ files' = [files EXCEPT ![w.file].blocks = s.blocks]
                 /\ WriteDone(own, st, s, exts, rec + 1)
    BY WriteGives
  <2> QED
    BY <2>1 DEF WriteDone
<1> DEFINE ack == [n |-> rec + 1, flags |-> w.flags]
<1>5. /\ rec' = rec + 1 /\ acked' = [acked EXCEPT ![w.file] = Append(acked[w.file], ack)]
      /\ UNCHANGED <<path, pc>>
  BY DEF Write
<1>6. s.h \in Handles /\ s.blocks \in Seq(Blocks)
  BY <1>4 DEF StateSound, States
<1>7. w'.file = w.file /\ w'.flags = w.flags /\ w'.since = w.since /\ Kept(files[w.file].blocks, s.blocks)
  BY <1>2, <1>4 DEF Recorded
<1> HIDE DEF st
<1>8. /\ files' \in Seq(FileRecords) /\ Len(files') = Len(files) /\ DOMAIN files' = DOMAIN files
      /\ w.file \in DOMAIN files /\ files'[w.file].blocks = s.blocks
      /\ \A f \in DOMAIN files : f # w.file => files'[f] = files[f]
  BY <1>1, <1>4, <1>6, BlocksStored
<1>9. acked \in Seq(Seq(Acks)) /\ DOMAIN acked = DOMAIN files /\ \A f \in DOMAIN files : acked[f] \in Seq(Acks)
  BY DEF FileInv, FileType
<1>10. Rising(acked[w.file], rec) /\ ack \in Acks /\ ack.n = rec + 1 /\ ack.flags = w.flags
  BY <1>1, <1>8 DEF FileInv, SoundFile, Acks
<1> HIDE DEF ack
<1>11. /\ Append(acked[w.file], ack) \in Seq(Acks) /\ Rising(Append(acked[w.file], ack), rec + 1)
       /\ DOMAIN Append(acked[w.file], ack) = DOMAIN acked[w.file] \cup {Len(acked[w.file]) + 1}
       /\ Append(acked[w.file], ack)[Len(acked[w.file]) + 1] = ack
       /\ \A i \in DOMAIN acked[w.file] : Append(acked[w.file], ack)[i] = acked[w.file][i]
  BY <1>1, <1>8, <1>9, <1>10, AckedThen
<1>12. /\ acked' \in Seq(Seq(Acks)) /\ Len(acked') = Len(files')
       /\ acked'[w.file] = Append(acked[w.file], ack) /\ \A f \in DOMAIN files : f # w.file => acked'[f] = acked[f]
  <2> DEFINE new == Append(acked[w.file], ack)
  <2>1. new \in Seq(Acks)
    BY <1>11
  <2>2. acked' = [acked EXCEPT ![w.file] = new]
    BY <1>5
  <2> HIDE DEF new
  <2>3. Len(acked') = Len(acked) /\ acked' \in Seq(Seq(Acks))
    BY <1>8, <1>9, <2>1, <2>2
  <2>4. Len(acked) = Len(files)
    BY DEF FileInv, FileType
  <2>5. acked'[w.file] = new /\ \A f \in DOMAIN files : f # w.file => acked'[f] = acked[f]
    BY <1>8, <1>9, <2>2
  <2> QED
    BY <1>8, <2>3, <2>4, <2>5 DEF new
<1>13. FileType'
  BY <1>1, <1>4, <1>5, <1>6, <1>7, <1>8, <1>12 DEF FileInv, FileType, WithFile, WithoutFile
<1>14. MapsFew'
  BY <1>2, <1>4, MapsFewAfter
<1>15. OwnContent(s.blocks) => own
  BY <1>7, OwnBefore
<1>16. OwnContent(s.blocks) \in BOOLEAN
  BY DEF OwnContent
<1>17. HandleSound'
  <2>1. StateSound(OwnContent(s.blocks), Handle', "none")
    <3>1. Handle'.h = s.h /\ Handle'.blocks = s.blocks /\ All(Handle') = All(s)
      BY <1>4, <1>7, <1>8 DEF Handle, All
    <3>2. Handle' \in States
      BY <1>4, <1>6, <1>7, <1>8 DEF Handle, States
    <3> QED
      BY <3>1, <3>2, <1>4, <1>15 DEF StateSound
  <2>2. ASSUME OwnContent(s.blocks), "WRITE" \notin w.flags PROVE WrittenKept(s.blocks, acked'[w.file])
    <3>1. WrittenKept(files[w.file].blocks, acked[w.file])
      BY <1>1, <1>15, <2>2 DEF FileInv, HandleSound
    <3>2. WrittenKept(s.blocks, acked[w.file])
      BY <3>1, <1>7, KeptWritten
    <3>3. SUFFICES ASSUME NEW i \in DOMAIN Append(acked[w.file], ack), "WRITE" \in Append(acked[w.file], ack)[i].flags
                   PROVE  \E p \in Records(s.blocks) : At(s.blocks, p).n = Append(acked[w.file], ack)[i].n
      BY <1>12 DEF WrittenKept
    <3>4. i \in DOMAIN acked[w.file] /\ Append(acked[w.file], ack)[i] = acked[w.file][i]
      BY <3>3, <2>2, <1>10, <1>11
    <3> QED
      BY <3>2, <3>3, <3>4 DEF WrittenKept
  <2> QED
    BY <2>1, <2>2, <1>1, <1>5, <1>7, <1>8 DEF HandleSound
<1>18. ASSUME NEW f \in DOMAIN files' PROVE SoundFile(files'[f].blocks, Written(f)', acked'[f], rec')
  <2>1. SoundFile(files[f].blocks, Written(f), acked[f], rec) /\ acked[f] \in Seq(Acks)
    BY <1>8, <1>9 DEF FileInv
  <2>2. CASE f # w.file
    <3>1. Written(f)' = Written(f) /\ files'[f] = files[f] /\ acked'[f] = acked[f]
      BY <2>2, <1>7, <1>8, <1>12 DEF Written
    <3> QED
      BY <3>1, <2>1, <1>1, <1>5, RisingStill DEF SoundFile
  <2>3. CASE f = w.file
    <3>1. Written(f)' = All(s)
      BY <2>3, <1>4, <1>7, <1>8 DEF Written, All
    <3>2. ASSUME OwnContent(s.blocks) PROVE Sound(All(s)) /\ Numbered(All(s), acked'[f])
      <4>1. Sound(All(s))
        BY <3>2, <1>4, <1>15 DEF StateSound
      <4>2. Numbered(All(st), acked[f])
        BY <3>2, <2>1, <2>3, <1>2, <1>15 DEF SoundFile
      <4>3. Numbered(All(s), Append(acked[f], [n |-> rec + 1, flags |-> w.flags]))
        BY <4>2, <2>1, <1>1, <1>4, NumberedThen DEF SoundFile
      <4> QED
        BY <4>1, <4>3, <2>3, <1>12 DEF ack
    <3>3. Rising(acked'[f], rec')
      BY <2>3, <1>5, <1>11, <1>12
    <3> QED
      BY <3>1, <3>2, <3>3, <2>3, <1>8 DEF SoundFile
  <2> QED
    BY <2>2, <2>3
<1> QED
  BY <1>13, <1>14, <1>17, <1>18 DEF FileInv

\* Numbers are right for the same records at other places of a file, or for some
\* of them if what was written with LNF_WRITE is among them.
LEMMA NumberedFewer ==
  ASSUME NEW bs, NEW cs, NEW acks, Numbered(bs, acks), Records(cs) \subseteq Records(bs),
         \A p \in Records(cs) : At(cs, p) = At(bs, p),
         Records(cs) = Records(bs) \/ WrittenKept(cs, acks)
  PROVE  Numbered(cs, acks)
<1>1. WrittenKept(cs, acks)
  BY DEF Numbered, WrittenKept
<1> QED
  BY <1>1 DEF Numbered

\* When the writer lets go of its file, what counts is what is on disk.
LEMMA WriterClosed ==
  ASSUME FileInv, pc \in [Threads -> Pcs], w' = NoWriter, pc' = [pc EXCEPT !["W"] = "closed"],
         UNCHANGED <<path, rec, acked>>,
         files' \in Seq(FileRecords), Len(files') = Len(files),
         \A f \in DOMAIN files : f # w.file => files'[f] = files[f],
         w.file # 0 => SoundFile(files'[w.file].blocks, files'[w.file].blocks, acked[w.file], rec)
  PROVE  FileInv'
<1>1. NoWriter \in Handles /\ NoWriter.file = 0 /\ DOMAIN NoWriter.maps = {}
  BY DEF NoWriter, Handles
<1>2. pc'["W"] = "closed"
  BY DEF Threads
<1>3. FileType'
  BY <1>1, <1>2 DEF FileInv, FileType, WithFile, WithoutFile
<1>4. MapsFew'
  BY <1>1, FS_EmptySet DEF MapsFew
<1>5. HandleSound'
  BY <1>1 DEF HandleSound
<1>6. ASSUME NEW f \in DOMAIN files' PROVE SoundFile(files'[f].blocks, Written(f)', acked'[f], rec')
  <2>1. f # 0 /\ f \in DOMAIN files
    BY DEF FileInv, FileType
  <2>2. Written(f)' = files'[f].blocks
    BY <2>1, <1>1 DEF Written
  <2>3. CASE f = w.file
    BY <2>1, <2>2, <2>3
  <2>4. CASE f # w.file
    <3>1. Written(f) = files[f].blocks /\ files'[f] = files[f]
      BY <2>1, <2>4 DEF Written
    <3> QED
      BY <3>1, <2>1, <2>2 DEF FileInv
  <2> QED
    BY <2>3, <2>4
<1> QED
  BY <1>3, <1>4, <1>5, <1>6 DEF FileInv

\* The file as lnf_close leaves it.
ClosedFile(g, cs, header, flows) == [g EXCEPT !.blocks = cs, !.header = header, !.flows = flows]

\* It is a file.
LEMMA ClosedFileIs ==
  ASSUME NEW g \in FileRecords, NEW cs \in Seq(Blocks), NEW header \in Nat, NEW flows \in Nat
  PROVE  /\ ClosedFile(g, cs, header, flows) \in FileRecords /\ ClosedFile(g, cs, header, flows).blocks = cs
         /\ ClosedFile(g, cs, header, flows).header = header /\ ClosedFile(g, cs, header, flows).flows = flows
<1> DEFINE a == [g EXCEPT !.blocks = cs]
           b == [a EXCEPT !.header = header]
           c == [b EXCEPT !.flows = flows]
<1>1. a \in FileRecords /\ a.blocks = cs
  BY DEF FileRecords
<1>2. ClosedFile(g, cs, header, flows) = c
  BY DEF ClosedFile
<1> HIDE DEF a
<1>4. b \in FileRecords /\ b.blocks = cs /\ b.header = header
  BY <1>1 DEF FileRecords
<1> HIDE DEF b
<1>5. c \in FileRecords /\ c.blocks = cs /\ c.header = header /\ c.flows = flows
  BY <1>4 DEF FileRecords
<1> HIDE DEF c
<1> QED
  BY <1>2, <1>5

\* What lnf_close makes of the file of its handle.
LEMMA CloseGives ==
  ASSUME FileInv, CloseWriter
  PROVE  LET own == OwnContent(files[w.file].blocks) IN
         /\ w.file # 0 /\ w \in Handles /\ w.flows \in Nat /\ files \in Seq(FileRecords) /\ w.file \in DOMAIN files
         /\ files[w.file].blocks \in Seq(Blocks)
         /\ "WRITE" \in w.flags =>
              \E cs \in Seq(Blocks), header \in Nat :
                /\ (own => Sound(cs)) /\ Kept(files[w.file].blocks, cs)
                /\ Len(cs) - header = Len(files[w.file].blocks) - w.blocks
                /\ Records(cs) = Records(Written(w.file))
                /\ \A p \in Records(cs) : At(cs, p) = At(Written(w.file), p)
                /\ files' = [files EXCEPT ![w.file] = ClosedFile(files[w.file], cs, header, w.flows)]
<1> DEFINE own == OwnContent(files[w.file].blocks)
           done == CloseFlush(Started(0))
<1>1. pc["W"] = "open"
  BY DEF CloseWriter
<1>2. /\ w.file # 0 /\ w \in Handles /\ w.flows \in Nat /\ files \in Seq(FileRecords) /\ w.file \in DOMAIN files
      /\ files[w.file].blocks \in Seq(Blocks)
  <2>1. files \in Seq(FileRecords) /\ w.file \in DOMAIN files /\ w \in Handles /\ w.file # 0
    BY <1>1 DEF FileInv, FileType, WithFile
  <2>2. files[w.file] \in FileRecords
    BY <2>1
  <2>3. files[w.file].blocks \in Seq(Blocks) /\ w.flows \in Nat
    BY <2>1, <2>2 DEF FileRecords, Handles
  <2> QED
    BY <2>1, <2>3
<1>3. /\ StateSound(own, Handle, "none") /\ Started(0) = Handle /\ All(Handle) = Written(w.file)
      /\ Behind(Handle) = Len(files[w.file].blocks) - w.blocks /\ Handle.blocks = files[w.file].blocks
  BY <1>2 DEF FileInv, HandleSound, Handle, Started, All, Written, Behind
<1>4. /\ done.blocks \in Seq(Blocks) /\ (own => Sound(done.blocks)) /\ Kept(files[w.file].blocks, done.blocks)
      /\ Records(done.blocks) = Records(Written(w.file))
      /\ \A p \in Records(done.blocks) : At(done.blocks, p) = At(Written(w.file), p)
      /\ done.h.blocks \in Nat /\ Behind(done) = Len(files[w.file].blocks) - w.blocks
  <2>1. own \in BOOLEAN
    BY DEF OwnContent
  <2> HIDE DEF own
  <2> QED
    BY <2>1, <1>3, CloseSound
<1>5. ASSUME "WRITE" \in w.flags
      PROVE  files' = [files EXCEPT ![w.file] = ClosedFile(files[w.file], done.blocks, done.h.blocks, w.flows)]
  <2> HIDE DEF done
  <2> QED
    BY <1>2, <1>5 DEF CloseWriter, ClosedFile, done
<1> HIDE DEF done, own
<1> QED
  BY <1>2, <1>4, <1>5 DEF Behind, own

\* lnf_close of a file opened for writing.
LEMMA CloseStep ==
  ASSUME FileInv, pc \in [Threads -> Pcs], CloseWriter
  PROVE  FileInv'
<1> DEFINE own == OwnContent(files[w.file].blocks)
           blocks == files'[w.file].blocks
<1>1. pc["W"] = "open" /\ w' = NoWriter /\ pc' = [pc EXCEPT !["W"] = "closed"] /\ UNCHANGED <<path, rec, acked>>
  BY DEF CloseWriter
<1>2. /\ w.file # 0 /\ w \in Handles /\ w.flows \in Nat /\ files \in Seq(FileRecords) /\ w.file \in DOMAIN files
      /\ files[w.file].blocks \in Seq(Blocks)
  BY CloseGives
<1>5. SoundFile(files[w.file].blocks, Written(w.file), acked[w.file], rec)
  BY <1>2 DEF FileInv
<1>6. CASE "WRITE" \in w.flags
  <2>1. PICK cs \in Seq(Blocks), header \in Nat :
          /\ (own => Sound(cs)) /\ Kept(files[w.file].blocks, cs)
          /\ Records(cs) = Records(Written(w.file))
          /\ \A p \in Records(cs) : At(cs, p) = At(Written(w.file), p)
          /\ files' = [files EXCEPT ![w.file] = ClosedFile(files[w.file], cs, header, w.flows)]
    BY <1>6, CloseGives
  <2>2. /\ files'[w.file] \in FileRecords /\ blocks = cs /\ files' \in Seq(FileRecords) /\ Len(files') = Len(files)
        /\ \A f \in DOMAIN files : f # w.file => files'[f] = files[f]
    <3> DEFINE new == ClosedFile(files[w.file], cs, header, w.flows)
    <3>1. new \in FileRecords /\ new.blocks = cs
      <4>1. files[w.file] \in FileRecords /\ w.flows \in Nat
        BY <1>2
      <4>2. \A g \in FileRecords, flows \in Nat :
              /\ ClosedFile(g, cs, header, flows) \in FileRecords /\ ClosedFile(g, cs, header, flows).blocks = cs
        BY ClosedFileIs
      <4> QED
        BY <4>1, <4>2
    <3>2. files' = [files EXCEPT ![w.file] = new]
      BY <2>1 DEF ClosedFile
    <3> HIDE DEF new
    <3> QED
      BY <3>1, <3>2, <1>2
  <2>3. ASSUME OwnContent(cs) PROVE Sound(cs) /\ Numbered(cs, acked[w.file])
    <3>1. own
      BY <2>1, <2>3, OwnBefore
    <3> QED
      BY <3>1, <2>1, <1>5, NumberedFewer DEF SoundFile
  <2>4. SoundFile(blocks, blocks, acked[w.file], rec)
    BY <2>2, <2>3, <1>5 DEF SoundFile
  <2> QED
    BY <2>2, <2>4, <1>1, <1>2, WriterClosed
<1>7. CASE "WRITE" \notin w.flags
  <2>1. files' = files
    BY <1>7 DEF CloseWriter
  <2>2. ASSUME own PROVE Sound(files[w.file].blocks) /\ Numbered(files[w.file].blocks, acked[w.file])
    <3>1. Cut(Written(w.file), files[w.file].blocks)
      BY <1>2, CutBlock DEF Written
    <3>2. Sound(files[w.file].blocks)
      BY <3>1, <2>2, <1>5, CutSound DEF SoundFile
    <3>3. /\ Records(files[w.file].blocks) \subseteq Records(Written(w.file))
          /\ \A p \in Records(files[w.file].blocks) : At(files[w.file].blocks, p) = At(Written(w.file), p)
      BY <3>1 DEF Cut, Records, Of
    <3>4. WrittenKept(files[w.file].blocks, acked[w.file])
      BY <1>2, <1>7, <2>2 DEF FileInv, HandleSound
    <3> QED
      BY <3>2, <3>3, <3>4, <2>2, <1>5, NumberedFewer DEF SoundFile
  <2>3. SoundFile(blocks, blocks, acked[w.file], rec)
    BY <2>1, <2>2, <1>5 DEF SoundFile
  <2> QED
    BY <2>1, <2>3, <1>1, <1>2, WriterClosed
<1> QED
  BY <1>6, <1>7

\* lnf_open for writing.
LEMMA OpenWriteStep ==
  ASSUME FileInv, pc \in [Threads -> Pcs], OpenWrite
  PROVE  FileInv'
<1>1. pc["W"] = "nffile" /\ w.file = 0 /\ UNCHANGED rec
  BY DEF OpenWrite, FileInv, FileType, WithoutFile
<1>2. CASE OpenRefused \/ (path = 0 /\ \E flags \in WriteFlags : OpenAppend(flags))
  <2>1. /\ w' = NoWriter /\ UNCHANGED <<files, path, acked, rec>>
        /\ pc' = [pc EXCEPT !["W"] = "closed"]
    <3>1. CASE OpenRefused
      BY <3>1, <1>1 DEF OpenRefused, Opened
    <3>2. CASE path = 0 /\ \E flags \in WriteFlags : OpenAppend(flags)
      <4>1. PICK flags \in WriteFlags : OpenAppend(flags)
        BY <3>2
      <4> QED
        BY <4>1, <3>2, <1>1 DEF OpenAppend, Opened
    <3> QED
      BY <1>2, <3>1, <3>2
  <2>2. files \in Seq(FileRecords)
    BY DEF FileInv, FileType
  <2> QED
    BY <2>1, <2>2, <1>1, WriterClosed
<1>3. CASE \E flags \in WriteFlags : OpenNew(flags)
  BY <1>1, <1>3, OpenNewStep
<1>4. CASE path # 0 /\ \E flags \in WriteFlags : OpenAppend(flags)
  BY <1>1, <1>4, OpenAppendStep
<1> QED
  BY <1>2, <1>3, <1>4 DEF OpenWrite

\* Every step keeps the invariant.
LEMMA FileStep == MutexInv /\ FileInv /\ [Next]_vars => FileInv'
<1> SUFFICES ASSUME MutexInv, FileInv, [Next]_vars PROVE FileInv'
  OBVIOUS
<1>a. /\ pc \in [Threads -> Pcs] /\ Threads = {"W", "R"} /\ path \in 0 .. Len(files)
      /\ (pc["W"] \in WithoutFile => w.file = 0) /\ (pc["W"] \in WithFile => w.file # 0)
      /\ Len(files) \in Nat
  BY DEF MutexInv, Threads, FileInv, FileType
<1>1. CASE UNCHANGED vars
  BY <1>1, <1>a, Quiet DEF vars
<1>2. CASE \E blocks \in Contents : PutInPlace(blocks)
  BY <1>2, PutInPlaceStep
<1>3. CASE Unlink \/ (\E exts \in Exts : WriteNoMem(exts))
  <2>1. UNCHANGED <<files, w, rec, acked, pc>> /\ path' \in {0, path}
    BY <1>3 DEF Unlink, WriteNoMem
  <2> QED
    BY <2>1, <1>a, Quiet
<1>4. CASE \E t \in Threads : FilterLock(t) \/ OpenCall(t) \/ OpenNext(t)
  <2>1. PICK t \in Threads : FilterLock(t) \/ OpenCall(t) \/ OpenNext(t)
    BY <1>4
  <2>2. UNCHANGED <<files, w, rec, acked, path>>
    BY <2>1 DEF FilterLock, OpenCall, OpenNext, OpenLock, OpenLock2, OpenInit, FilterUnlock
  <2>3. \/ pc[t] \in WithoutFile /\ \E to \in WithoutFile : pc' = [pc EXCEPT ![t] = to]
        \/ pc[t] \in WithFile /\ \E to \in WithFile : pc' = [pc EXCEPT ![t] = to]
    BY <2>1 DEF FilterLock, OpenCall, OpenNext, OpenLock, OpenLock2, OpenInit, FilterUnlock, Lock, WithFile, WithoutFile
  <2>4. \/ pc'["W"] = pc["W"] \/ (pc'["W"] \in WithoutFile /\ w.file = 0) \/ (pc'["W"] \in WithFile /\ w.file # 0)
    BY <2>3, <1>a
  <2> QED
    BY <2>2, <2>4, <1>a, Quiet
<1>5. CASE OpenWrite
  BY <1>5, <1>a, OpenWriteStep
<1>6. CASE OpenRead \/ OpenEarlyReturn \/ ReaderNext \/ CloseReader
  <2>1. CASE OpenRead
    BY <2>1, <1>a, Quiet DEF OpenRead, Opened
  <2>2. CASE OpenEarlyReturn \/ CloseReader
    BY <2>2, <1>a, Quiet DEF OpenEarlyReturn, CloseReader
  <2>3. CASE ReadCall \/ ReadEof \/ StatGone \/ Stat \/ Reopen
    BY <2>3, <1>a, Quiet DEF ReadCall, ReadEof, StatGone, Stat, Reopen
  <2>4. CASE LoadBlock \/ ReadEntry
    <3>1. UNCHANGED pc \/ pc' = [pc EXCEPT !["R"] = "open"]
      BY <2>4 DEF LoadBlock, ReadEntry, Again, Return
    <3>2. UNCHANGED <<files, w, rec, acked, path>>
      BY <2>4 DEF LoadBlock, ReadEntry
    <3> QED
      BY <3>1, <3>2, <1>a, Quiet
  <2>5. CASE LoadEmptyBlock
    <3>1. UNCHANGED <<files, w, rec, acked, path>> /\ pc'["W"] = "dead"
      BY <2>5, <1>a DEF LoadEmptyBlock, Undefined
    <3> QED
      BY <3>1, <1>a, Quiet
  <2> QED
    BY <1>6, <2>1, <2>2, <2>3, <2>4, <2>5 DEF ReaderNext
<1>7. CASE \E exts \in Exts, exp \in Exporters \cup {"none"}, left \in Leftovers, lost \in BOOLEAN :
             Write(exts, exp, left, lost)
  <2>1. pc["W"] = "open"
    BY <1>7 DEF Write
  <2> QED
    BY <2>1, <1>7, WriteStep
<1>8. CASE UseFreed
  <2>1. UNCHANGED <<files, w, rec, acked, path>> /\ pc'["W"] = "dead"
    BY <1>8, <1>a DEF UseFreed, Undefined
  <2> QED
    BY <2>1, <1>a, Quiet
<1>9. CASE CloseWriter
  BY <1>9, <1>a, CloseStep
<1> QED
  BY <1>1, <1>2, <1>3, <1>4, <1>5, <1>6, <1>7, <1>8, <1>9, <1>a DEF Next, Step, WriterOpen, ReaderOpen

\* What is in a file that was written here can be made sense of, on disk at any
\* time and when it is closed: each record has its map and its exporter before
\* it, the statistics are those of the records, and the records are the ones
\* lnf_write acknowledged, in order; see FileSound.
THEOREM FilesSound == Spec => []FileSound
<1>1. Init => MutexInv /\ FileInv
  BY MutexInit, FileInit
<1>2. (MutexInv /\ FileInv) /\ [Next]_vars => (MutexInv /\ FileInv)'
  BY MutexStep, FileStep
<1>3. MutexInv /\ FileInv => FileSound
  BY FileInvIsSound
<1> QED
  BY <1>1, <1>2, <1>3, PTL DEF Spec
-----------------------------------------------------------------------------
(***************************************************************************)
(* That lnf_read gives a reader what is in its file (ReadsFaithful), for   *)
(* every file of another program, whatever a writer does to the file and   *)
(* other programs to its name in the meantime.                             *)
(*   ReadInv - the answers so far are those owed before the place the      *)
(*             reader has come to, the extension map in a slot is the      *)
(*             newest before that place, and a header that counts all      *)
(*             blocks of a file counts its records as well.                *)
(***************************************************************************)

\* The place a reader comes to next; <<b, 0>> is before all entries of block b.
Cursor(h) == IF h.remains > 0 THEN <<h.pos, h.at>> ELSE <<h.pos + 1, 0>>
Loops(h) == "READ_LOOP" \in h.flags

\* What is owed, and what maps there are, before the place c.
OwedBefore(bs, c) == {p \in Owed(bs) : Before(p, c)}
Maps(bs) == Of(bs, Reached(bs), "map")
MapsBefore(bs, c) == {m \in Maps(bs) : Before(m, c)}
Newest(bs, maps, id, m) ==
  m \in maps /\ At(bs, m).id = id /\ \A q \in maps : At(bs, q).id = id => q = m \/ Before(q, m)

\* The answers are those owed before c, in their order.
Answered(bs, c, answers, loop) ==
  /\ Len(answers) = Cardinality(OwedBefore(bs, c))
  /\ \A p \in OwedBefore(bs, c) :
       RightAnswer(answers[Cardinality(OwedBefore(bs, p)) + 1], bs, p, loop)

\* The newest maps before c are in their slots, and other slots are in use only if
\* the handle may have read another file before.
SlotsRight(bs, c, slots, loop) ==
  /\ \A m \in MapsBefore(bs, c) : Newest(bs, MapsBefore(bs, c), At(bs, m).id, m) =>
       At(bs, m).id \in DOMAIN slots /\ slots[At(bs, m).id] = At(bs, m).exts
  /\ loop \/ \A id \in DOMAIN slots : \E m \in MapsBefore(bs, c) : Newest(bs, MapsBefore(bs, c), id, m)

\* A reader in the middle of a block has all of it, and stays where it is at a
\* record of nfdump 1.5.
InBlock(bs, h) ==
  h.remains > 0 =>
    /\ h.pos # 0 /\ bs[h.pos].type = 2 /\ h.block = bs[h.pos].entries
    /\ h.at \in DOMAIN h.block /\ \A i \in 1 .. h.at - 1 : h.block[i].kind # "v0"
    /\ h.block[h.at].kind # "v0" => h.remains = Len(h.block) - h.at + 1

\* A header that counts blocks and flows of a file with these blocks and records.
HeaderRight(bs, ps, blocks, flows) == blocks <= Len(bs) /\ (blocks = Len(bs) => flows = Cardinality(ps))

\* A handle that reads a file with these blocks.
ReadSound(bs, h, answers) ==
  /\ h.pos \in 0 .. Len(bs) /\ InBlock(bs, h)
  /\ Answered(bs, Cursor(h), answers, Loops(h)) /\ SlotsRight(bs, Cursor(h), h.slots, Loops(h))
  /\ HeaderRight(bs, Records(bs), h.blocks, h.flows)

\* A handle for reading has these fields.
Reader(h) ==
  h = [file |-> h.file, flags |-> h.flags, pos |-> h.pos, block |-> h.block, at |-> h.at, remains |-> h.remains,
       slots |-> h.slots, inode |-> h.inode, seen |-> h.seen, blocks |-> h.blocks, flows |-> h.flows,
       told |-> h.told, misled |-> h.misled]
ReadType ==
  /\ Reader(r) /\ r.file \in 0 .. Len(files) /\ {r.remains, r.blocks} \subseteq Nat
  /\ got \in Seq(Range(got))
  /\ r.file = 0 => r.remains = 0
  /\ pc["R"] \in {"stat", "reopen"} => Loops(r) /\ r.remains = 0

\* The headers of the files, and that of the writer's handle.
HeadersRight ==
  /\ \A f \in DOMAIN files : HeaderRight(files[f].blocks, Records(files[f].blocks), files[f].header, files[f].flows)
  /\ w.file # 0 => HeaderRight(files[w.file].blocks, Records(Written(w.file)), w.blocks, w.flows)

\* The inductive invariant.
ReadInv ==
  /\ ReadType /\ HeadersRight
  /\ r.file # 0 => ReadSound(files[r.file].blocks, r, got)
-----------------------------------------------------------------------------
(***************************************************************************)
(* Places                                                                  *)
(***************************************************************************)

\* The blocks of a file and their entries are sequences.
LEMMA BlocksAre ==
  ASSUME NEW bs \in Seq(Blocks)
  PROVE  /\ DOMAIN bs = 1 .. Len(bs) /\ Len(bs) \in Nat
         /\ \A b \in DOMAIN bs : /\ DOMAIN bs[b].entries = 1 .. Len(bs[b].entries) /\ Len(bs[b].entries) \in Nat
                                /\ \A i \in DOMAIN bs[b].entries : bs[b].entries[i].id \in Nat
<1>1. DOMAIN bs = 1 .. Len(bs) /\ Len(bs) \in Nat
  OBVIOUS
<1>2. ASSUME NEW b \in DOMAIN bs
      PROVE  \E S : bs[b].entries \in Seq(S) /\ \A e \in S : e.id \in Nat
  <2>1. bs[b] \in Blocks
    OBVIOUS
  <2>2. CASE bs[b] \in OwnBlocks
    <3>1. bs[b].entries \in Seq(Entries) /\ \A e \in Entries : e.id \in Nat
      BY <2>2 DEF OwnBlocks, Entries
    <3> QED
      BY <3>1
  <2>3. CASE bs[b] \notin OwnBlocks
    <3>1. PICK c \in Contents : bs[b] \in Range(c)
      BY <2>3, <2>1 DEF Blocks
    <3>2. bs[b].entries \in Seq(Range(bs[b].entries)) /\ \A e \in Range(bs[b].entries) : e.id \in Nat
      BY <3>1, NfFileAssumption
    <3> QED
      BY <3>2
  <2> QED
    BY <2>2, <2>3
<1>3. ASSUME NEW b \in DOMAIN bs
      PROVE  /\ DOMAIN bs[b].entries = 1 .. Len(bs[b].entries) /\ Len(bs[b].entries) \in Nat
             /\ \A i \in DOMAIN bs[b].entries : bs[b].entries[i].id \in Nat
  <2>1. PICK S : bs[b].entries \in Seq(S) /\ \A e \in S : e.id \in Nat
    BY <1>2
  <2> QED
    BY <2>1
<1> QED
  BY <1>1, <1>3

\* The places of entries, and those of blocks that are owed as a whole.
LEMMA PlacesAre ==
  ASSUME NEW bs \in Seq(Blocks)
  PROVE  /\ \A p \in Places(bs) : p = <<p[1], p[2]>> /\ p[1] \in 1 .. Len(bs) /\ p[2] \in Nat \ {0}
         /\ \A p \in Owed(bs) : p = <<p[1], p[2]>> /\ p[1] \in 1 .. Len(bs) /\ p[2] \in Nat
         /\ \A p \in Owed(bs) : p[2] # 0 => p \in Reached(bs) /\ p \notin Maps(bs) /\ At(bs, p).kind # "v0"
         /\ \A p \in Owed(bs) : p[2] = 0 => bs[p[1]].type \notin {1, 2}
         /\ Maps(bs) \subseteq Reached(bs) /\ Reached(bs) \subseteq Places(bs) /\ IsFiniteSet(Owed(bs))
<1>1. \A p \in Places(bs) : p = <<p[1], p[2]>> /\ p[1] \in 1 .. Len(bs) /\ p[2] \in Nat \ {0}
  <2> TAKE p \in Places(bs)
  <2>1. p = <<p[1], p[2]>> /\ p[1] \in DOMAIN bs /\ p[2] \in DOMAIN bs[p[1]].entries
    BY PlaceIs
  <2> QED
    BY <2>1, BlocksAre
<1> DEFINE T == {b \in DOMAIN bs : bs[b].type \notin {1, 2}}
           W == {<<b, 0>> : b \in T}
<1>2. \A p \in W : p = <<p[1], 0>> /\ p[1] \in 1 .. Len(bs) /\ p[2] = 0 /\ bs[p[1]].type \notin {1, 2}
  BY BlocksAre
<1>3. Maps(bs) \subseteq Reached(bs) /\ Reached(bs) \subseteq Places(bs)
  BY DEF Maps, Of, Reached
<1>4. /\ Owed(bs) = {p \in Reached(bs) : At(bs, p).kind \notin {"map", "exporter", "stat", "v0"}} \cup W
  BY DEF Owed
<1>5. IsFiniteSet(W)
  <2>1. IsFiniteSet(1 .. Len(bs))
    <3>1. Len(bs) \in Int /\ 1 \in Int
      BY BlocksAre
    <3> QED
      BY <3>1, FS_Interval
  <2>2. IsFiniteSet((1 .. Len(bs)) \X {0})
    BY <2>1, FS_Singleton, FS_Product
  <2>3. W \subseteq (1 .. Len(bs)) \X {0}
    BY BlocksAre
  <2> QED
    BY <2>2, <2>3, FS_Subset
<1> HIDE DEF W
<1>6. IsFiniteSet(Owed(bs))
  <2>1. IsFiniteSet(Places(bs) \cup W)
    BY <1>5, PlacesFinite, FS_Union
  <2>2. Owed(bs) \subseteq Places(bs) \cup W
    BY <1>3, <1>4
  <2> QED
    BY <2>1, <2>2, FS_Subset
<1>7. \A p \in Owed(bs) : p = <<p[1], p[2]>> /\ p[1] \in 1 .. Len(bs) /\ p[2] \in Nat
  BY <1>1, <1>2, <1>3, <1>4
<1>8. \A p \in Owed(bs) : p[2] # 0 => p \in Reached(bs) /\ p \notin Maps(bs) /\ At(bs, p).kind # "v0"
  BY <1>2, <1>4 DEF Maps, Of
<1>9. \A p \in Owed(bs) : p[2] = 0 => bs[p[1]].type \notin {1, 2}
  BY <1>1, <1>2, <1>3, <1>4
<1> QED
  BY <1>1, <1>3, <1>6, <1>7, <1>8, <1>9

\* The order of places.
LEMMA BeforeOrder ==
  ASSUME NEW p, NEW q, NEW c, {p[1], p[2], q[1], q[2], c[1], c[2]} \subseteq Nat
  PROVE  ~ Before(p, p) /\ (Before(p, q) /\ Before(q, c) => Before(p, c))
  BY DEF Before

\* Blocks that are kept at the same number are the same.
LEMMA KeptSame ==
  ASSUME NEW bs \in Seq(Blocks), NEW cs \in Seq(Blocks), Kept(bs, cs)
  PROVE  Len(bs) <= Len(cs) /\ (Len(bs) = Len(cs) => cs = bs)
<1>1. /\ DOMAIN bs = 1 .. Len(bs) /\ Len(bs) \in Nat /\ DOMAIN cs = 1 .. Len(cs) /\ Len(cs) \in Nat
      /\ DOMAIN bs \subseteq DOMAIN cs /\ \A b \in DOMAIN bs : cs[b] = bs[b]
  BY DEF Kept
<1>2. Len(bs) <= Len(cs)
  <2>1. Len(bs) = 0 \/ Len(bs) \in 1 .. Len(bs)
    BY <1>1
  <2> QED
    BY <2>1, <1>1
<1>3. Len(bs) = Len(cs) => cs = bs
  BY <1>1
<1> QED
  BY <1>2, <1>3

\* A place that is not beyond n blocks.
Within(n, c) == {c[1], c[2]} \subseteq Nat /\ (c[1] <= n \/ (c[1] = n + 1 /\ c[2] = 0))

\* What is before a place does not change when blocks are kept.
LEMMA KeptBefore ==
  ASSUME NEW bs \in Seq(Blocks), NEW cs \in Seq(Blocks), Kept(bs, cs), NEW c, Within(Len(bs), c)
  PROVE  /\ OwedBefore(cs, c) = OwedBefore(bs, c) /\ ReachedBefore(cs, c) = ReachedBefore(bs, c)
         /\ MapsBefore(cs, c) = MapsBefore(bs, c) /\ \A q \in ReachedBefore(bs, c) : At(cs, q) = At(bs, q)
<1>1. \A b \in 1 .. Len(bs) : b \in DOMAIN bs /\ b \in DOMAIN cs /\ cs[b] = bs[b]
  BY BlocksAre DEF Kept
<1>2. Len(bs) \in Nat /\ Len(cs) \in Nat
  BY BlocksAre
<1>3. \A q : q[1] \in Nat /\ q[2] \in Nat /\ Before(q, c) => q[1] <= Len(bs)
  BY <1>2 DEF Before, Within
<1>4. \A q : q[1] \in 1 .. Len(bs) =>
        /\ q \in Places(cs) <=> q \in Places(bs)
        /\ At(cs, q) = At(bs, q)
        /\ q \in Reached(cs) <=> q \in Reached(bs)
  <2> TAKE q
  <2> SUFFICES ASSUME q[1] \in 1 .. Len(bs)
               PROVE  /\ q \in Places(cs) <=> q \in Places(bs)
                      /\ At(cs, q) = At(bs, q)
                      /\ q \in Reached(cs) <=> q \in Reached(bs)
    OBVIOUS
  <2>1. cs[q[1]] = bs[q[1]] /\ q[1] \in DOMAIN bs /\ q[1] \in DOMAIN cs
    BY <1>1
  <2>2. q \in Places(cs) <=> q \in Places(bs)
    BY <2>1, PlaceIs
  <2> QED
    BY <2>1, <2>2 DEF At, Reached
<1>5. \A q : Before(q, c) => (q \in Reached(cs) <=> q \in Reached(bs))
  <2> TAKE q
  <2>1. ASSUME Before(q, c), q \in Reached(cs) PROVE q \in Reached(bs)
    <3>1. q[1] \in 1 .. Len(cs) /\ q[2] \in Nat
      BY <2>1, PlacesAre
    <3> QED
      BY <3>1, <2>1, <1>3, <1>4
  <2>2. ASSUME Before(q, c), q \in Reached(bs) PROVE q \in Reached(cs)
    <3>1. q[1] \in 1 .. Len(bs)
      BY <2>2, PlacesAre
    <3> QED
      BY <3>1, <2>2, <1>4
  <2> QED
    BY <2>1, <2>2
<1>6. \A q \in Reached(bs) : At(cs, q) = At(bs, q)
  <2> TAKE q \in Reached(bs)
  <2>1. q[1] \in 1 .. Len(bs)
    BY PlacesAre
  <2> QED
    BY <2>1, <1>4
<1>7. \A q : Before(q, c) => (q \in Owed(cs) <=> q \in Owed(bs))
  <2> TAKE q
  <2> SUFFICES ASSUME Before(q, c) PROVE q \in Owed(cs) <=> q \in Owed(bs)
    OBVIOUS
  <2>1. q \in Reached(cs) <=> q \in Reached(bs)
    BY <1>5
  <2>2. ASSUME NEW b, q = <<b, 0>>
        PROVE  b \in DOMAIN cs /\ cs[b].type \notin {1, 2} <=> b \in DOMAIN bs /\ bs[b].type \notin {1, 2}
    <3>1. b \in DOMAIN cs => b \in DOMAIN bs
      <4> SUFFICES ASSUME b \in DOMAIN cs PROVE b \in DOMAIN bs
        OBVIOUS
      <4>1. q[1] = b /\ q[2] = 0 /\ b \in Nat \ {0}
        BY <2>2, BlocksAre
      <4>2. b <= Len(bs)
        BY <4>1, <1>3
      <4> QED
        BY <4>1, <4>2, BlocksAre
    <3> QED
      BY <3>1 DEF Kept
  <2> QED
    BY <2>1, <2>2, <1>6 DEF Owed
<1>8. OwedBefore(cs, c) = OwedBefore(bs, c)
  BY <1>7 DEF OwedBefore
<1>9. /\ ReachedBefore(bs, c) = {q \in Reached(bs) : Before(q, c)}
      /\ ReachedBefore(cs, c) = {q \in Reached(cs) : Before(q, c)}
  BY DEF ReachedBefore, Earlier, Reached
<1>10. ReachedBefore(cs, c) = ReachedBefore(bs, c) /\ ReachedBefore(bs, c) \subseteq Reached(bs)
  BY <1>5, <1>9
<1>11. MapsBefore(cs, c) = MapsBefore(bs, c)
  BY <1>5, <1>6 DEF MapsBefore, Maps, Of
<1> QED
  BY <1>6, <1>8, <1>10, <1>11

\* So an answer that is right stays right.
LEMMA KeptRight ==
  ASSUME NEW bs \in Seq(Blocks), NEW cs \in Seq(Blocks), Kept(bs, cs), NEW p \in Owed(bs), NEW a, NEW loop,
         RightAnswer(a, bs, p, loop)
  PROVE  RightAnswer(a, cs, p, loop)
<1>1. p = <<p[1], p[2]>> /\ p[1] \in 1 .. Len(bs) /\ p[2] \in Nat /\ (p[2] # 0 => p \in Reached(bs))
  BY PlacesAre
<1>2. Within(Len(bs), p)
  BY <1>1, BlocksAre DEF Within
<1>3. ReachedBefore(cs, p) = ReachedBefore(bs, p) /\ \A q \in ReachedBefore(bs, p) : At(cs, q) = At(bs, q)
  BY <1>2, KeptBefore
<1>4. cs[p[1]] = bs[p[1]] /\ At(cs, p) = At(bs, p)
  BY <1>1, BlocksAre DEF Kept, At
<1>5. \A id, m : NewestMap(cs, ReachedBefore(bs, p), id, m) <=> NewestMap(bs, ReachedBefore(bs, p), id, m)
  BY <1>3, NewestAlike
<1>6. RightRecord(a, bs, p, loop) <=> RightRecord(a, cs, p, loop)
  <2> DEFINE maps == {m \in ReachedBefore(bs, p) : NewestMap(bs, ReachedBefore(bs, p), At(bs, p).id, m)}
             cmaps == {m \in ReachedBefore(cs, p) : NewestMap(cs, ReachedBefore(cs, p), At(cs, p).id, m)}
  <2>1. cmaps = maps
    BY <1>3, <1>4, <1>5
  <2>2. \A m \in maps : At(cs, m) = At(bs, m)
    BY <1>3
  <2>3. RightRecord(a, bs, p, loop) <=>
          CASE At(bs, p).id >= MaxMaps -> a.status = "LNF_ERR_EXTMAPB"
            [] At(bs, p).id < MaxMaps /\ maps = {} -> a.status = "LNF_ERR_EXTMAPM" \/ (a.status = "LNF_OK" /\ loop)
            [] OTHER -> \A m \in maps : a = Answer("LNF_OK", At(bs, p).n, At(bs, m).exts)
    BY DEF RightRecord
  <2>4. RightRecord(a, cs, p, loop) <=>
          CASE At(cs, p).id >= MaxMaps -> a.status = "LNF_ERR_EXTMAPB"
            [] At(cs, p).id < MaxMaps /\ cmaps = {} -> a.status = "LNF_ERR_EXTMAPM" \/ (a.status = "LNF_OK" /\ loop)
            [] OTHER -> \A m \in cmaps : a = Answer("LNF_OK", At(cs, p).n, At(cs, m).exts)
    BY DEF RightRecord
  <2> HIDE DEF maps, cmaps
  <2> QED
    BY <2>1, <2>2, <2>3, <2>4, <1>4
<1> QED
  BY <1>4, <1>6 DEF RightAnswer

\* A handle reads on where it was when blocks are kept.
LEMMA KeptSound ==
  ASSUME NEW bs \in Seq(Blocks), NEW cs \in Seq(Blocks), Kept(bs, cs), NEW h, NEW answers,
         h.remains \in Nat, h.blocks \in Nat, ReadSound(bs, h, answers)
  PROVE  ReadSound(cs, h, answers)
<1>1. Len(bs) <= Len(cs) /\ (Len(bs) = Len(cs) => cs = bs) /\ Len(bs) \in Nat /\ Len(cs) \in Nat
  BY KeptSame, BlocksAre
<1>2. h.pos \in 0 .. Len(bs) /\ InBlock(bs, h)
  BY DEF ReadSound
<1>3. h.remains > 0 => h.pos \in DOMAIN bs /\ h.at \in Nat /\ cs[h.pos] = bs[h.pos]
  <2> SUFFICES ASSUME h.remains > 0 PROVE h.pos \in DOMAIN bs /\ h.at \in Nat /\ cs[h.pos] = bs[h.pos]
    OBVIOUS
  <2>1. h.pos \in DOMAIN bs
    BY <1>1, <1>2, BlocksAre DEF InBlock
  <2>2. h.at \in DOMAIN bs[h.pos].entries
    BY <1>2 DEF InBlock
  <2>3. h.at \in Nat
    BY <2>1, <2>2, BlocksAre
  <2> QED
    BY <2>1, <2>3 DEF Kept
<1>4. h.pos \in 0 .. Len(cs) /\ InBlock(cs, h)
  BY <1>1, <1>2, <1>3 DEF InBlock
<1> DEFINE c == Cursor(h)
<1>5. Within(Len(bs), c)
  BY <1>1, <1>2, <1>3 DEF Cursor, Within
<1> HIDE DEF c
<1>6. /\ OwedBefore(cs, c) = OwedBefore(bs, c) /\ MapsBefore(cs, c) = MapsBefore(bs, c)
      /\ \A q \in ReachedBefore(bs, c) : At(cs, q) = At(bs, q)
  BY <1>5, KeptBefore
<1>7. Answered(cs, c, answers, Loops(h))
  <2>1. Answered(bs, c, answers, Loops(h))
    BY DEF ReadSound, c
  <2>2. ASSUME NEW p \in OwedBefore(bs, c)
        PROVE  RightAnswer(answers[Cardinality(OwedBefore(cs, p)) + 1], cs, p, Loops(h))
    <3>1. p \in Owed(bs)
      BY DEF OwedBefore
    <3>2. Within(Len(bs), p)
      BY <3>1, PlacesAre, BlocksAre DEF Within
    <3>3. OwedBefore(cs, p) = OwedBefore(bs, p)
      BY <3>2, KeptBefore
    <3>4. RightAnswer(answers[Cardinality(OwedBefore(bs, p)) + 1], bs, p, Loops(h))
      BY <2>1 DEF Answered
    <3> QED
      BY <3>1, <3>3, <3>4, KeptRight
  <2> QED
    BY <2>1, <2>2, <1>6 DEF Answered
<1>8. SlotsRight(cs, c, h.slots, Loops(h))
  <2>1. SlotsRight(bs, c, h.slots, Loops(h))
    BY DEF ReadSound, c
  <2>2. \A m \in MapsBefore(bs, c) : At(cs, m) = At(bs, m)
    BY <1>6 DEF MapsBefore, Maps, Of, ReachedBefore, Earlier, Reached
  <2>3. \A id, m : Newest(cs, MapsBefore(bs, c), id, m) <=> Newest(bs, MapsBefore(bs, c), id, m)
    BY <2>2 DEF Newest
  <2> QED
    BY <2>1, <2>2, <2>3, <1>6 DEF SlotsRight
<1>9. HeaderRight(cs, Records(cs), h.blocks, h.flows)
  BY <1>1 DEF ReadSound, HeaderRight
<1> QED
  BY <1>4, <1>7, <1>8, <1>9 DEF ReadSound, c

-----------------------------------------------------------------------------
(***************************************************************************)
(* One step of lnf_read                                                    *)
(***************************************************************************)

\* From c to d the reader passes nothing but c that is owed or a map.
Moves(bs, c, d) ==
  /\ \A p \in Owed(bs) : Before(p, d) <=> Before(p, c) \/ p = c
  /\ \A p \in Maps(bs) : Before(p, d) <=> Before(p, c) \/ p = c

\* It passes a block that is empty, unknown or nfdump's catalogue, or comes to the
\* first entry of one.
LEMMA MovesBlock ==
  ASSUME NEW bs \in Seq(Blocks), NEW b \in DOMAIN bs, NEW d,
         IF bs[b].type = 2 /\ bs[b].entries # <<>> THEN d = <<b, 1>> ELSE d = <<b + 1, 0>>
  PROVE  Moves(bs, <<b, 0>>, d)
<1>1. b \in Nat
  BY BlocksAre
<1>2. ASSUME NEW p \in Places(bs) PROVE Before(p, d) <=> Before(p, <<b, 0>>) \/ p = <<b, 0>>
  <2>1. p[1] \in Nat /\ p[2] \in Nat \ {0}
    BY PlacesAre
  <2>2. p[1] = b => bs[b].type = 2 /\ bs[b].entries # <<>>
    <3>1. p[1] = b => bs[b].type = 2 /\ p[2] \in DOMAIN bs[b].entries
      BY PlaceIs
    <3> QED
      BY <3>1
  <2> QED
    BY <1>1, <2>1, <2>2 DEF Before
<1>3. ASSUME NEW p \in Owed(bs), p[2] = 0 PROVE Before(p, d) <=> Before(p, <<b, 0>>) \/ p = <<b, 0>>
  <2>1. p[1] \in Nat /\ bs[p[1]].type \notin {1, 2} /\ p = <<p[1], p[2]>>
    BY <1>3, PlacesAre
  <2> QED
    BY <1>1, <1>3, <2>1 DEF Before
<1>4. \A p \in Owed(bs) : p[2] # 0 => p \in Places(bs)
  BY PlacesAre
<1>5. Maps(bs) \subseteq Places(bs)
  BY PlacesAre
<1> QED
  BY <1>2, <1>3, <1>4, <1>5 DEF Moves

\* It passes an entry, the last one to the next block; at a record of nfdump 1.5
\* it stays, or leaves the rest of the block.
LEMMA MovesEntry ==
  ASSUME NEW bs \in Seq(Blocks), NEW b \in DOMAIN bs, bs[b].type = 2, NEW i \in DOMAIN bs[b].entries,
         \A j \in 1 .. i - 1 : bs[b].entries[j].kind # "v0", NEW d,
         \/ bs[b].entries[i].kind # "v0" /\ d = IF i = Len(bs[b].entries) THEN <<b + 1, 0>> ELSE <<b, i + 1>>
         \/ bs[b].entries[i].kind = "v0" /\ d \in {<<b, i>>, <<b + 1, 0>>}
  PROVE  <<b, i>> \in Reached(bs) /\ At(bs, <<b, i>>) = bs[b].entries[i] /\ Moves(bs, <<b, i>>, d)
<1>1. b \in Nat /\ i \in Nat /\ i <= Len(bs[b].entries) /\ Len(bs[b].entries) \in Nat
  BY BlocksAre
<1>2. <<b, i>> \in Reached(bs) /\ At(bs, <<b, i>>) = bs[b].entries[i]
  <2>1. <<b, i>> \in Places(bs)
    BY PlaceIs
  <2> QED
    BY <2>1 DEF Reached, At
<1>3. ASSUME NEW p \in Reached(bs), At(bs, p).kind # "v0" PROVE Before(p, d) <=> Before(p, <<b, i>>) \/ p = <<b, i>>
  <2>1. p = <<p[1], p[2]>> /\ p[1] \in Nat /\ p[2] \in Nat \ {0} /\ p \in Places(bs)
    BY PlacesAre
  <2>2. p[1] = b => p[2] \in 1 .. Len(bs[b].entries)
    BY <2>1, PlaceIs, BlocksAre
  <2>a. /\ p = <<b, i>> <=> p[1] = b /\ p[2] = i
        /\ Before(p, <<b, i>>) <=> p[1] < b \/ (p[1] = b /\ p[2] < i)
    BY <2>1 DEF Before
  <2>b. /\ Before(p, <<b + 1, 0>>) <=> p[1] < b \/ p[1] = b
        /\ Before(p, <<b, i + 1>>) <=> p[1] < b \/ (p[1] = b /\ (p[2] < i \/ p[2] = i))
    <3>1. \A x, y \in Nat : (x < y + 1 <=> x < y \/ x = y) /\ ~ (x < 0)
      OBVIOUS
    <3>2. /\ Before(p, <<b + 1, 0>>) <=> p[1] < b + 1 \/ (p[1] = b + 1 /\ p[2] < 0)
          /\ Before(p, <<b, i + 1>>) <=> p[1] < b \/ (p[1] = b /\ p[2] < i + 1)
      BY DEF Before
    <3> QED
      BY <1>1, <2>1, <3>1, <3>2
  <2>3. CASE bs[b].entries[i].kind # "v0"
    <3>1. CASE i = Len(bs[b].entries)
      <4>1. d = <<b + 1, 0>>
        BY <2>3, <3>1
      <4>2. p[1] = b => p[2] < i \/ p[2] = i
        BY <1>1, <2>1, <2>2, <3>1
      <4> QED
        BY <2>a, <2>b, <4>1, <4>2
    <3>2. CASE i # Len(bs[b].entries)
      <4>1. d = <<b, i + 1>>
        BY <2>3, <3>2
      <4> QED
        BY <2>a, <2>b, <4>1
    <3> QED
      BY <3>1, <3>2
  <2>4. CASE bs[b].entries[i].kind = "v0"
    <3>1. p # <<b, i>>
      BY <1>2, <1>3, <2>4
    <3>2. p[1] = b => ~ (i < p[2])
      <4> SUFFICES ASSUME p[1] = b, i < p[2] PROVE FALSE
        OBVIOUS
      <4>1. i \in 1 .. p[2] - 1
        BY <1>1, <2>1, BlocksAre
      <4> QED
        BY <4>1, <2>4 DEF Reached
    <3>3. p[1] = b => p[2] < i
      BY <1>1, <2>1, <3>1, <3>2
    <3>4. d = <<b, i>> \/ d = <<b + 1, 0>>
      BY <2>4
    <3> QED
      BY <2>a, <2>b, <3>1, <3>3, <3>4
  <2> QED
    BY <2>3, <2>4
<1>4. ASSUME NEW p \in Owed(bs), p[2] = 0 PROVE Before(p, d) <=> Before(p, <<b, i>>) \/ p = <<b, i>>
  <2>1. p[1] \in Nat /\ p[1] # b
    BY <1>4, PlacesAre
  <2> QED
    BY <1>1, <1>4, <2>1 DEF Before
<1>5. \A p \in Maps(bs) : p \in Reached(bs) /\ At(bs, p).kind # "v0"
  BY PlacesAre DEF Maps, Of
<1>6. \A p \in Owed(bs) : p[2] # 0 => p \in Reached(bs) /\ At(bs, p).kind # "v0"
  BY PlacesAre
<1>7. Moves(bs, <<b, i>>, d)
  BY <1>3, <1>4, <1>5, <1>6 DEF Moves
<1> QED
  BY <1>2, <1>7

\* A sequence with one more element.
LEMMA AppendIs ==
  ASSUME NEW s, s \in Seq(Range(s)), NEW a
  PROVE  /\ Len(Append(s, a)) = Len(s) + 1 /\ Append(s, a)[Len(s) + 1] = a
         /\ \A i \in 1 .. Len(s) : Append(s, a)[i] = s[i]
         /\ Append(s, a) \in Seq(Range(Append(s, a)))
<1> DEFINE T == Range(s) \cup {a}
           t == Append(s, a)
<1>1. s \in Seq(T) /\ a \in T
  <2> HIDE DEF T
  <2>1. Range(s) \subseteq T /\ a \in T
    BY DEF T
  <2> QED
    BY <2>1
<1> HIDE DEF T
<1>2. t \in Seq(T) /\ Len(t) = Len(s) + 1 /\ t[Len(s) + 1] = a /\ \A i \in 1 .. Len(s) : t[i] = s[i]
  BY <1>1
<1> HIDE DEF t
<1>3. \A i \in DOMAIN t : t[i] \in Range(t)
  BY DEF Range
<1>4. t \in Seq(Range(t))
  <2>1. DOMAIN t = 1 .. Len(t) /\ Len(t) \in Nat
    BY <1>2
  <2>2. t = [i \in 1 .. Len(t) |-> t[i]]
    BY <1>2
  <2> QED
    BY <2>1, <2>2, <1>3
<1> QED
  BY <1>2, <1>4 DEF t

\* The answers after such a step: one for the place if it is owed one.
LEMMA AnsweredThen ==
  ASSUME NEW bs \in Seq(Blocks), NEW c, {c[1], c[2]} \subseteq Nat, NEW d, Moves(bs, c, d), NEW loop,
         NEW answers, answers \in Seq(Range(answers)), Answered(bs, c, answers, loop), NEW then,
         \/ c \notin Owed(bs) /\ then = answers
         \/ \E a : then = Append(answers, a) /\ (c \in Owed(bs) /\ RightAnswer(a, bs, c, loop))
  PROVE  Answered(bs, d, then, loop) /\ then \in Seq(Range(then))
<1>1. IsFiniteSet(OwedBefore(bs, c)) /\ OwedBefore(bs, c) \subseteq Owed(bs)
  <2>1. OwedBefore(bs, c) \subseteq Owed(bs)
    BY DEF OwedBefore
  <2> QED
    BY <2>1, PlacesAre, FS_Subset
<1>2. \A p \in Owed(bs) : {p[1], p[2]} \subseteq Nat
  BY PlacesAre
<1>3. ~ Before(c, c)
  BY BeforeOrder
<1>4. CASE c \notin Owed(bs) /\ then = answers
  <2>1. OwedBefore(bs, d) = OwedBefore(bs, c)
    BY <1>4 DEF OwedBefore, Moves
  <2> QED
    BY <2>1, <1>4 DEF Answered
<1>5. CASE \E a : then = Append(answers, a) /\ (c \in Owed(bs) /\ RightAnswer(a, bs, c, loop))
  <2>1. PICK a : then = Append(answers, a) /\ c \in Owed(bs) /\ RightAnswer(a, bs, c, loop)
    BY <1>5
  <2>2. OwedBefore(bs, d) = OwedBefore(bs, c) \cup {c} /\ c \notin OwedBefore(bs, c)
    BY <1>3, <2>1 DEF OwedBefore, Moves
  <2>3. Cardinality(OwedBefore(bs, d)) = Cardinality(OwedBefore(bs, c)) + 1
    BY <1>1, <2>2, FS_AddElement
  <2>4. /\ Len(then) = Len(answers) + 1 /\ then[Len(answers) + 1] = a
        /\ \A i \in 1 .. Len(answers) : then[i] = answers[i]
        /\ then \in Seq(Range(then))
    BY <2>1, AppendIs
  <2>5. ASSUME NEW p \in OwedBefore(bs, c)
        PROVE  RightAnswer(then[Cardinality(OwedBefore(bs, p)) + 1], bs, p, loop)
    <3>1. p \in Owed(bs) /\ Before(p, c) /\ {p[1], p[2]} \subseteq Nat
      BY <1>2 DEF OwedBefore
    <3>2. p \notin OwedBefore(bs, p) /\ OwedBefore(bs, p) \cup {p} \subseteq OwedBefore(bs, c)
      BY <1>2, <3>1, BeforeOrder DEF OwedBefore
    <3>3. Cardinality(OwedBefore(bs, p)) \in Nat /\ Cardinality(OwedBefore(bs, p)) + 1 <= Len(answers)
      <4>1. IsFiniteSet(OwedBefore(bs, p) \cup {p}) /\ IsFiniteSet(OwedBefore(bs, p))
        BY <1>1, <3>2, FS_Subset
      <4>2. Cardinality(OwedBefore(bs, p) \cup {p}) = Cardinality(OwedBefore(bs, p)) + 1
        BY <3>2, <4>1, FS_AddElement
      <4>3. Cardinality(OwedBefore(bs, p) \cup {p}) <= Cardinality(OwedBefore(bs, c))
        BY <1>1, <3>2, FS_Subset
      <4>4. Cardinality(OwedBefore(bs, p)) \in Nat
        BY <4>1, FS_CardinalityType
      <4> QED
        BY <4>2, <4>3, <4>4 DEF Answered
    <3>4. then[Cardinality(OwedBefore(bs, p)) + 1] = answers[Cardinality(OwedBefore(bs, p)) + 1]
      BY <2>4, <3>3
    <3> QED
      BY <3>4 DEF Answered
  <2>6. RightAnswer(then[Cardinality(OwedBefore(bs, c)) + 1], bs, c, loop)
    BY <2>1, <2>4 DEF Answered
  <2> QED
    BY <2>2, <2>3, <2>4, <2>5, <2>6 DEF Answered
<1> QED
  BY <1>4, <1>5

\* The slots after such a step: a map is put into its own.
LEMMA SlotsThen ==
  ASSUME NEW bs \in Seq(Blocks), NEW c, {c[1], c[2]} \subseteq Nat, NEW d, Moves(bs, c, d), NEW loop,
         NEW slots, SlotsRight(bs, c, slots, loop), NEW then,
         then = IF c \in Maps(bs) THEN Slotted(slots, At(bs, c)) ELSE slots
  PROVE  SlotsRight(bs, d, then, loop)
<1>1. CASE c \notin Maps(bs)
  <2>1. MapsBefore(bs, d) = MapsBefore(bs, c) /\ then = slots
    BY <1>1 DEF MapsBefore, Moves
  <2> QED
    BY <2>1 DEF SlotsRight
<1>2. CASE c \in Maps(bs)
  <2> DEFINE old == MapsBefore(bs, c)
             new == MapsBefore(bs, d)
             id == At(bs, c).id
  <2>1. new = old \cup {c} /\ c \notin old /\ \A m \in old : Before(m, c) /\ ~ Before(c, m) /\ m # c
    <3>1. \A m \in Maps(bs) : {m[1], m[2]} \subseteq Nat
      BY PlacesAre
    <3>2. ~ Before(c, c) /\ \A m \in Maps(bs) : Before(m, c) => ~ Before(c, m)
      BY <3>1, BeforeOrder
    <3> QED
      BY <1>2, <3>2 DEF MapsBefore, Moves
  <2>2. /\ DOMAIN then = DOMAIN slots \cup {id}
        /\ \A i \in DOMAIN then : then[i] = IF i = id THEN At(bs, c).exts ELSE slots[i]
    BY <1>2 DEF Slotted
  <2>3. SlotsRight(bs, c, slots, loop)
    OBVIOUS
  <2> HIDE DEF old, new, id
  <2>4. Newest(bs, new, id, c)
    BY <2>1 DEF Newest, id
  <2>5. \A i, m : i # id => (Newest(bs, new, i, m) <=> Newest(bs, old, i, m))
    BY <2>1 DEF Newest, id
  <2>6. \A m : Newest(bs, new, id, m) => m = c
    BY <2>1 DEF Newest, id
  <2>7. \A m \in new : Newest(bs, new, At(bs, m).id, m) =>
          At(bs, m).id \in DOMAIN then /\ then[At(bs, m).id] = At(bs, m).exts
    <3> SUFFICES ASSUME NEW m \in new, Newest(bs, new, At(bs, m).id, m)
                 PROVE  At(bs, m).id \in DOMAIN then /\ then[At(bs, m).id] = At(bs, m).exts
      OBVIOUS
    <3>1. CASE At(bs, m).id = id
      BY <3>1, <2>2, <2>6
    <3>2. CASE At(bs, m).id # id
      <4>1. Newest(bs, old, At(bs, m).id, m) /\ m \in old
        BY <3>2, <2>5 DEF Newest
      <4>2. At(bs, m).id \in DOMAIN slots /\ slots[At(bs, m).id] = At(bs, m).exts
        BY <4>1, <2>3 DEF SlotsRight, old
      <4> QED
        BY <3>2, <4>2, <2>2
    <3> QED
      BY <3>1, <3>2
  <2>8. loop \/ \A i \in DOMAIN then : \E m \in new : Newest(bs, new, i, m)
    <3> SUFFICES ASSUME ~ loop, NEW i \in DOMAIN then PROVE \E m \in new : Newest(bs, new, i, m)
      OBVIOUS
    <3>1. CASE i = id
      BY <3>1, <2>1, <2>4
    <3>2. CASE i # id
      <4>1. PICK m \in old : Newest(bs, old, i, m)
        BY <3>2, <2>2, <2>3 DEF SlotsRight, old
      <4> QED
        BY <4>1, <3>2, <2>1, <2>5
    <3> QED
      BY <3>1, <3>2
  <2> QED
    BY <2>7, <2>8 DEF SlotsRight, new
<1> QED
  BY <1>1, <1>2

\* What lnf_read answers for a record.
RecordAnswer(e, slots) ==
  IF e.id >= MaxMaps THEN Answer("LNF_ERR_EXTMAPB", e.n, {})
  ELSE IF e.id \notin DOMAIN slots THEN Answer("LNF_ERR_EXTMAPM", e.n, {})
  ELSE Answer("LNF_OK", e.n, slots[e.id])

\* It is the right one.
LEMMA RecordRight ==
  ASSUME NEW bs \in Seq(Blocks), NEW p \in Places(bs), NEW slots, NEW loop, SlotsRight(bs, p, slots, loop)
  PROVE  RightRecord(RecordAnswer(At(bs, p), slots), bs, p, loop)
<1> DEFINE id == At(bs, p).id
           a == RecordAnswer(At(bs, p), slots)
           maps == {m \in ReachedBefore(bs, p) : NewestMap(bs, ReachedBefore(bs, p), id, m)}
<1>1. id \in Nat /\ MaxMaps \in Nat
  <2>1. p[1] \in DOMAIN bs /\ p[2] \in DOMAIN bs[p[1]].entries
    BY PlaceIs
  <2> QED
    BY <2>1, BlocksAre, NfFileAssumption DEF At
<1>2. MapsBefore(bs, p) = Of(bs, ReachedBefore(bs, p), "map")
  BY DEF MapsBefore, Maps, Of, ReachedBefore, Earlier, Reached
<1>3. \A i, m : Newest(bs, MapsBefore(bs, p), i, m) <=> NewestMap(bs, ReachedBefore(bs, p), i, m)
  BY <1>2 DEF Newest, NewestMap
<1>4. \A m \in maps : m \in MapsBefore(bs, p) /\ At(bs, m).id = id /\ Newest(bs, MapsBefore(bs, p), id, m)
  BY <1>3 DEF Newest
<1>5. \A m \in maps : id \in DOMAIN slots /\ slots[id] = At(bs, m).exts
  BY <1>4 DEF SlotsRight
<1>6. ASSUME id \in DOMAIN slots, ~ loop PROVE maps # {}
  <2>1. PICK m \in MapsBefore(bs, p) : Newest(bs, MapsBefore(bs, p), id, m)
    BY <1>6 DEF SlotsRight
  <2>2. m \in ReachedBefore(bs, p)
    BY <1>2 DEF Of
  <2> QED
    BY <2>1, <2>2, <1>3
<1>7. RightRecord(a, bs, p, loop) <=>
        CASE id >= MaxMaps -> a.status = "LNF_ERR_EXTMAPB"
          [] id < MaxMaps /\ maps = {} -> a.status = "LNF_ERR_EXTMAPM" \/ (a.status = "LNF_OK" /\ loop)
          [] OTHER -> \A m \in maps : a = Answer("LNF_OK", At(bs, p).n, At(bs, m).exts)
  BY DEF RightRecord
<1>8. /\ id >= MaxMaps => a.status = "LNF_ERR_EXTMAPB"
      /\ id < MaxMaps /\ id \notin DOMAIN slots => a.status = "LNF_ERR_EXTMAPM"
      /\ id < MaxMaps /\ id \in DOMAIN slots => a = Answer("LNF_OK", At(bs, p).n, slots[id]) /\ a.status = "LNF_OK"
  BY <1>1 DEF RecordAnswer, Answer
<1> HIDE DEF a, maps, id
<1>9. CASE id >= MaxMaps
  BY <1>1, <1>7, <1>8, <1>9 DEF a
<1>10. CASE id < MaxMaps /\ maps = {}
  <2>1. a.status = "LNF_ERR_EXTMAPM" \/ (a.status = "LNF_OK" /\ loop)
    BY <1>6, <1>8, <1>10
  <2> QED
    BY <2>1, <1>1, <1>7, <1>10 DEF a
<1>11. CASE id < MaxMaps /\ maps # {}
  <2>1. \A m \in maps : a = Answer("LNF_OK", At(bs, p).n, At(bs, m).exts)
    BY <1>5, <1>8, <1>11
  <2> QED
    BY <2>1, <1>1, <1>7, <1>11 DEF a
<1> QED
  BY <1>1, <1>9, <1>10, <1>11

\* A handle with the same file, and what reading the file leaves alone of it.
SameFile(h, g) ==
  Reader(g) /\ g.file = h.file /\ g.flags = h.flags /\ g.blocks = h.blocks /\ g.flows = h.flows
Steady(h, g) == SameFile(h, g) /\ g.inode = h.inode /\ g.told = h.told /\ g.misled = h.misled

\* The place of a handle, and its slots.
Stands(h, pos, block, at, remains, slots) ==
  h.pos = pos /\ h.block = block /\ h.at = at /\ h.remains = remains /\ h.slots = slots

\* One field is assigned.
LEMMA HandleAssigned ==
  ASSUME NEW h, Reader(h), NEW x
  PROVE  /\ Steady(h, [h EXCEPT !.pos = x]) /\ Stands([h EXCEPT !.pos = x], x, h.block, h.at, h.remains, h.slots)
         /\ Steady(h, [h EXCEPT !.block = x]) /\ Stands([h EXCEPT !.block = x], h.pos, x, h.at, h.remains, h.slots)
         /\ Steady(h, [h EXCEPT !.at = x]) /\ Stands([h EXCEPT !.at = x], h.pos, h.block, x, h.remains, h.slots)
         /\ Steady(h, [h EXCEPT !.remains = x]) /\ Stands([h EXCEPT !.remains = x], h.pos, h.block, h.at, x, h.slots)
         /\ Steady(h, [h EXCEPT !.slots = x]) /\ Stands([h EXCEPT !.slots = x], h.pos, h.block, h.at, h.remains, x)
<1>1. Steady(h, [h EXCEPT !.pos = x]) /\ Stands([h EXCEPT !.pos = x], x, h.block, h.at, h.remains, h.slots)
  BY DEF Reader, Steady, SameFile, Stands
<1>2. Steady(h, [h EXCEPT !.block = x]) /\ Stands([h EXCEPT !.block = x], h.pos, x, h.at, h.remains, h.slots)
  BY DEF Reader, Steady, SameFile, Stands
<1>3. Steady(h, [h EXCEPT !.at = x]) /\ Stands([h EXCEPT !.at = x], h.pos, h.block, x, h.remains, h.slots)
  BY DEF Reader, Steady, SameFile, Stands
<1>4. Steady(h, [h EXCEPT !.remains = x]) /\ Stands([h EXCEPT !.remains = x], h.pos, h.block, h.at, x, h.slots)
  BY DEF Reader, Steady, SameFile, Stands
<1>5. Steady(h, [h EXCEPT !.slots = x]) /\ Stands([h EXCEPT !.slots = x], h.pos, h.block, h.at, h.remains, x)
  BY DEF Reader, Steady, SameFile, Stands
<1> QED
  BY <1>1, <1>2, <1>3, <1>4, <1>5

\* The handle at the first entry of the next block.
Loaded(h, pos, block, at, remains) ==
  [[h EXCEPT !.pos = pos] EXCEPT !.block = block, !.at = at, !.remains = remains]
LEMMA HandleLoads ==
  ASSUME NEW h, Reader(h), NEW pos, NEW block, NEW at, NEW remains
  PROVE  LET b == Loaded(h, pos, block, at, remains)
         IN Steady(h, b) /\ Stands(b, pos, block, at, remains, h.slots)
<1> DEFINE a == [h EXCEPT !.pos = pos]
           a2 == [a EXCEPT !.block = block]
           a3 == [a2 EXCEPT !.at = at]
           b == [a3 EXCEPT !.remains = remains]
<1>1. Steady(h, a) /\ Stands(a, pos, h.block, h.at, h.remains, h.slots)
  BY HandleAssigned
<1> HIDE DEF a
<1>2. Reader(a) /\ Steady(a, a2) /\ Stands(a2, a.pos, block, a.at, a.remains, a.slots)
  <2>1. Reader(a)
    BY <1>1 DEF Steady, SameFile
  <2> QED
    BY <2>1, HandleAssigned
<1> HIDE DEF a2
<1>3. Reader(a2) /\ Steady(a2, a3) /\ Stands(a3, a2.pos, a2.block, at, a2.remains, a2.slots)
  <2>1. Reader(a2)
    BY <1>2 DEF Steady, SameFile
  <2> QED
    BY <2>1, HandleAssigned
<1> HIDE DEF a3
<1>4. Reader(a3) /\ Steady(a3, b) /\ Stands(b, a3.pos, a3.block, a3.at, remains, a3.slots)
  <2>1. Reader(a3)
    BY <1>3 DEF Steady, SameFile
  <2> QED
    BY <2>1, HandleAssigned
<1>5. [a EXCEPT !.block = block, !.at = at, !.remains = remains] = b
  BY DEF a2, a3
<1> HIDE DEF b
<1>6. Steady(h, b) /\ Stands(b, pos, block, at, remains, h.slots)
  BY <1>1, <1>2, <1>3, <1>4 DEF Steady, SameFile, Stands
<1> QED
  BY <1>5, <1>6 DEF a, Loaded

\* The handle at another entry of its block, and with other slots.
Stepped(h, remains, at) == [h EXCEPT !.remains = remains, !.at = at]
SteppedMap(h, remains, at, slots) == [Stepped(h, remains, at) EXCEPT !.slots = slots]
LEMMA HandleSteps ==
  ASSUME NEW h, Reader(h), NEW remains, NEW at, NEW slots
  PROVE  LET a == Stepped(h, remains, at)
             b == SteppedMap(h, remains, at, slots)
         IN /\ Steady(h, a) /\ Stands(a, h.pos, h.block, at, remains, h.slots)
            /\ Steady(h, b) /\ Stands(b, h.pos, h.block, at, remains, slots)
<1> DEFINE a1 == [h EXCEPT !.remains = remains]
           a == [a1 EXCEPT !.at = at]
           b == [a EXCEPT !.slots = slots]
<1>1. Steady(h, a1) /\ Stands(a1, h.pos, h.block, h.at, remains, h.slots)
  BY HandleAssigned
<1> HIDE DEF a1
<1>2. Reader(a1) /\ Steady(a1, a) /\ Stands(a, a1.pos, a1.block, at, a1.remains, a1.slots)
  <2>1. Reader(a1)
    BY <1>1 DEF Steady, SameFile
  <2> QED
    BY <2>1, HandleAssigned
<1>3. Stepped(h, remains, at) = a
  BY DEF a1, Stepped
<1>b. SteppedMap(h, remains, at, slots) = b
  BY <1>3 DEF SteppedMap
<1> HIDE DEF a
<1>4. Reader(a) /\ Steady(a, b) /\ Stands(b, a.pos, a.block, a.at, a.remains, slots)
  <2>1. Reader(a)
    BY <1>2 DEF Steady, SameFile
  <2> QED
    BY <2>1, HandleAssigned
<1>5. /\ Steady(h, a) /\ Stands(a, h.pos, h.block, at, remains, h.slots)
      /\ Steady(h, b) /\ Stands(b, h.pos, h.block, at, remains, slots)
  <2> HIDE DEF b
  <2> QED
    BY <1>1, <1>2, <1>4 DEF Steady, SameFile, Stands
<1> HIDE DEF b
<1> QED
  BY <1>3, <1>b, <1>5

\* What neither the files nor the writer's handle concerns.
LEMMA HeadersStay == ASSUME HeadersRight, UNCHANGED <<files, w>> PROVE HeadersRight'
<1>1. \A f : Written(f)' = Written(f)
  BY DEF Written
<1> QED
  BY <1>1 DEF HeadersRight

\* The reader's file has blocks.
LEMMA ReadersFile ==
  ASSUME FileInv, ReadInv, r.file # 0
  PROVE  r.file \in DOMAIN files /\ files[r.file].blocks \in Seq(Blocks)
<1>1. r.file \in DOMAIN files /\ files[r.file] \in FileRecords
  BY DEF FileInv, FileType, ReadInv, ReadType
<1> QED
  BY <1>1 DEF FileRecords

\* The reader moves in its file.
LEMMA ReaderMoves ==
  ASSUME pc \in [Threads -> Pcs], FileInv, ReadInv, r.file # 0, UNCHANGED <<files, w>>, pc["R"] \notin {"stat", "reopen"},
         pc' = pc \/ pc' = [pc EXCEPT !["R"] = "open"],
         Steady(r, r'), r'.remains \in Nat,
         NEW bs, bs = files[r.file].blocks, r'.pos \in 0 .. Len(bs), InBlock(bs, r'),
         {Cursor(r)[1], Cursor(r)[2]} \subseteq Nat, Moves(bs, Cursor(r), Cursor(r')),
         \/ Cursor(r) \notin Owed(bs) /\ got' = got
         \/ \E a : got' = Append(got, a) /\ (Cursor(r) \in Owed(bs) /\ RightAnswer(a, bs, Cursor(r), Loops(r))),
         r'.slots = IF Cursor(r) \in Maps(bs) THEN Slotted(r.slots, At(bs, Cursor(r))) ELSE r.slots
  PROVE  ReadInv'
<1>1. bs \in Seq(Blocks) /\ r.file \in DOMAIN files
  BY ReadersFile
<1>2. ReadSound(bs, r, got) /\ got \in Seq(Range(got))
  BY DEF ReadInv, ReadType
<1>3. Answered(bs, Cursor(r), got, Loops(r)) /\ SlotsRight(bs, Cursor(r), r.slots, Loops(r))
  BY <1>2 DEF ReadSound
<1> DEFINE c == Cursor(r)
           d == Cursor(r')
           loop == Loops(r)
<1>4. Answered(bs, d, got', loop) /\ got' \in Seq(Range(got'))
  <2>1. {c[1], c[2]} \subseteq Nat /\ Moves(bs, c, d) /\ Answered(bs, c, got, loop)
    BY <1>3
  <2>2. \/ c \notin Owed(bs) /\ got' = got
        \/ \E a : got' = Append(got, a) /\ (c \in Owed(bs) /\ RightAnswer(a, bs, c, loop))
    OBVIOUS
  <2> HIDE DEF c, d, loop
  <2> QED
    BY <1>1, <1>2, <2>1, <2>2, AnsweredThen
<1>5. SlotsRight(bs, d, r'.slots, loop)
  <2>1. {c[1], c[2]} \subseteq Nat /\ Moves(bs, c, d) /\ SlotsRight(bs, c, r.slots, loop)
    BY <1>3
  <2>2. r'.slots = IF c \in Maps(bs) THEN Slotted(r.slots, At(bs, c)) ELSE r.slots
    OBVIOUS
  <2> HIDE DEF c, d, loop
  <2> QED
    BY <1>1, <2>1, <2>2, SlotsThen
<1>6. Loops(r') = Loops(r) /\ r'.file = r.file
  BY DEF Loops, Steady, SameFile
<1>7. ReadSound(bs, r', got')
  <2>1. HeaderRight(bs, Records(bs), r'.blocks, r'.flows)
    BY <1>2 DEF ReadSound, Steady, SameFile
  <2> QED
    BY <2>1, <1>4, <1>5, <1>6 DEF ReadSound
<1>8. ReadType'
  <2>1. pc'["R"] \notin {"stat", "reopen"}
    BY DEF Threads
  <2>2. Reader(r') /\ r'.blocks = r.blocks
    BY DEF Steady, SameFile
  <2> QED
    BY <1>4, <1>6, <2>1, <2>2 DEF ReadInv, ReadType
<1>9. HeadersRight'
  BY HeadersStay DEF ReadInv
<1> QED
  BY <1>6, <1>7, <1>8, <1>9 DEF ReadInv

\* The next block.
LEMMA LoadStep ==
  ASSUME pc \in [Threads -> Pcs], FileInv, ReadInv, LoadBlock
  PROVE  ReadInv' /\ Steady(r, r')
<1>1. pc["R"] = "reading" /\ r.remains = 0 /\ r.file # 0 /\ r.pos # Len(files[r.file].blocks) /\ UNCHANGED <<files, w>>
  BY DEF LoadBlock, AtEnd
<1>2. PICK bs \in Seq(Blocks) : bs = files[r.file].blocks
  BY <1>1, ReadersFile
<1>3. PICK b \in DOMAIN bs : b = r.pos + 1
  <2>1. r.pos \in 0 .. Len(bs)
    BY <1>1, <1>2 DEF ReadInv, ReadSound
  <2>2. r.pos + 1 \in DOMAIN bs
    BY <2>1, <1>1, <1>2, BlocksAre
  <2> QED
    BY <2>2
<1>4. Reader(r) /\ Cursor(r) = <<b, 0>> /\ b \in Nat \ {0} /\ b <= Len(bs)
  <2>1. DOMAIN bs = 1 .. Len(bs) /\ Len(bs) \in Nat
    BY BlocksAre
  <2>2. b \in Nat \ {0} /\ b <= Len(bs)
    BY <2>1
  <2>3. Cursor(r) = <<b, 0>>
    BY <1>1, <1>3 DEF Cursor
  <2> QED
    BY <2>2, <2>3 DEF ReadInv, ReadType
<1>5. /\ pc' = pc \/ pc' = [pc EXCEPT !["R"] = "open"]
      /\ IF bs[b].type = 2
         THEN r' = [[r EXCEPT !.pos = b] EXCEPT !.block = bs[b].entries, !.at = 1, !.remains = Len(bs[b].entries)]
         ELSE r' = [r EXCEPT !.pos = b]
      /\ CASE bs[b].type \in {1, 2} -> got' = got
           [] bs[b].type = 0 -> got' = Append(got, Answer("LNF_ERR_CORRUPT", 0, {}))
           [] OTHER -> got' = Append(got, Answer("LNF_ERR_UNKBLOCK", 0, {}))
  <2> DEFINE block == files[r.file].blocks[r.pos + 1]
  <2>1. block = bs[b]
    BY <1>2, <1>3
  <2>2. CASE block.type = 2
    <3>1. UNCHANGED <<pc, got>>
          /\ r' = [[r EXCEPT !.pos = r.pos + 1] EXCEPT !.block = block.entries, !.at = 1, !.remains = Len(block.entries)]
      BY <2>2 DEF LoadBlock, Again
    <3> HIDE DEF block
    <3> QED
      BY <3>1, <2>1, <2>2, <1>3
  <2>3. CASE block.type = 1
    <3>1. UNCHANGED <<pc, got>> /\ r' = [r EXCEPT !.pos = r.pos + 1]
      BY <2>3 DEF LoadBlock, Again
    <3> HIDE DEF block
    <3> QED
      BY <3>1, <2>1, <2>3, <1>3
  <2>4. CASE block.type \notin {1, 2}
    <3>1. /\ pc' = [pc EXCEPT !["R"] = "open"] /\ r' = [r EXCEPT !.pos = r.pos + 1]
          /\ got' = Append(got, IF block.type = 0 THEN Answer("LNF_ERR_CORRUPT", 0, {}) ELSE Answer("LNF_ERR_UNKBLOCK", 0, {}))
      BY <2>4 DEF LoadBlock, Return
    <3> HIDE DEF block
    <3> QED
      BY <3>1, <2>1, <2>4, <1>3
  <2> QED
    BY <2>2, <2>3, <2>4
<1>6. /\ Steady(r, r') /\ r'.pos = b /\ r'.slots = r.slots
      /\ IF bs[b].type = 2 THEN r'.block = bs[b].entries /\ r'.at = 1 /\ r'.remains = Len(bs[b].entries)
         ELSE r'.remains = 0
  <2>1. CASE bs[b].type = 2
    <3>1. Steady(r, r') /\ Stands(r', b, bs[b].entries, 1, Len(bs[b].entries), r.slots)
      <4> DEFINE block == bs[b].entries
                 n == Len(bs[b].entries)
      <4>1. r' = Loaded(r, b, block, 1, n) /\ Reader(r)
        BY <2>1, <1>4, <1>5 DEF Loaded
      <4> HIDE DEF block, n
      <4>2. Steady(r, r') /\ Stands(r', b, block, 1, n, r.slots)
        BY <4>1, HandleLoads
      <4> QED
        BY <4>2 DEF block, n
    <3> QED
      BY <2>1, <3>1 DEF Stands
  <2>2. CASE bs[b].type # 2
    <3>1. Steady(r, r') /\ Stands(r', b, r.block, r.at, r.remains, r.slots)
      <4>1. r' = [r EXCEPT !.pos = b] /\ Reader(r)
        BY <2>2, <1>4, <1>5
      <4>2. /\ Steady(r, [r EXCEPT !.pos = b])
            /\ Stands([r EXCEPT !.pos = b], b, r.block, r.at, r.remains, r.slots)
        BY <4>1, HandleAssigned
      <4> QED
        BY <4>1, <4>2
    <3> QED
      BY <2>2, <3>1, <1>1 DEF Stands
  <2> QED
    BY <2>1, <2>2
<1>7. /\ DOMAIN bs[b].entries = 1 .. Len(bs[b].entries) /\ Len(bs[b].entries) \in Nat
      /\ Len(bs[b].entries) > 0 <=> bs[b].entries # <<>>
  <2>1. DOMAIN bs[b].entries = 1 .. Len(bs[b].entries) /\ Len(bs[b].entries) \in Nat
    BY BlocksAre
  <2> QED
    BY <2>1
<1>8. IF bs[b].type = 2 /\ bs[b].entries # <<>> THEN Cursor(r') = <<b, 1>> ELSE Cursor(r') = <<b + 1, 0>>
  BY <1>6, <1>7 DEF Cursor
<1>9. Moves(bs, <<b, 0>>, Cursor(r'))
  BY <1>8, MovesBlock
<1>10. InBlock(bs, r') /\ r'.remains \in Nat
  <2>1. r'.remains \in Nat
    BY <1>6, <1>7
  <2>2. ASSUME r'.remains > 0
        PROVE  /\ bs[b].type = 2 /\ r'.block = bs[b].entries /\ r'.at = 1 /\ 1 \in DOMAIN r'.block
               /\ r'.remains = Len(r'.block) - 1 + 1
    BY <2>2, <1>6, <1>7
  <2>3. \A i \in 1 .. 1 - 1 : FALSE
    OBVIOUS
  <2> QED
    BY <2>1, <2>2, <2>3, <1>4, <1>6 DEF InBlock
<1>11. <<b, 0>> \notin Maps(bs)
  BY PlacesAre
<1>12. \/ <<b, 0>> \notin Owed(bs) /\ got' = got
       \/ \E a : got' = Append(got, a) /\ (<<b, 0>> \in Owed(bs) /\ RightAnswer(a, bs, <<b, 0>>, Loops(r)))
  <2>1. CASE bs[b].type \in {1, 2}
    BY <2>1, <1>5, PlacesAre
  <2>2. CASE bs[b].type \notin {1, 2}
    <3>1. <<b, 0>> \in Owed(bs)
      BY <2>2 DEF Owed
    <3>2. PICK a : /\ got' = Append(got, a)
                   /\ a.status = IF bs[b].type = 0 THEN "LNF_ERR_CORRUPT" ELSE "LNF_ERR_UNKBLOCK"
      <4>1. CASE bs[b].type = 0
        BY <4>1, <1>5 DEF Answer
      <4>2. CASE bs[b].type # 0
        BY <4>2, <2>2, <1>5 DEF Answer
      <4> QED
        BY <4>1, <4>2
    <3>3. RightAnswer(a, bs, <<b, 0>>, Loops(r))
      BY <3>2 DEF RightAnswer
    <3> QED
      BY <3>1, <3>2, <3>3
  <2> QED
    BY <2>1, <2>2
<1>13. /\ {Cursor(r)[1], Cursor(r)[2]} \subseteq Nat /\ Moves(bs, Cursor(r), Cursor(r'))
       /\ r'.slots = IF Cursor(r) \in Maps(bs) THEN Slotted(r.slots, At(bs, Cursor(r))) ELSE r.slots
       /\ \/ Cursor(r) \notin Owed(bs) /\ got' = got
          \/ \E a : got' = Append(got, a) /\ (Cursor(r) \in Owed(bs) /\ RightAnswer(a, bs, Cursor(r), Loops(r)))
  <2>1. Cursor(r) = <<b, 0>>
    BY <1>4
  <2>2. {<<b, 0>>[1], <<b, 0>>[2]} \subseteq Nat
    BY <1>4
  <2> QED
    BY <2>1, <2>2, <1>6, <1>9, <1>11, <1>12
<1>14. pc["R"] \notin {"stat", "reopen"} /\ r'.pos \in 0 .. Len(bs)
  BY <1>1, <1>4, <1>6, BlocksAre
<1>15. UNCHANGED <<files, w>> /\ r.file # 0 /\ Steady(r, r') /\ (pc' = pc \/ pc' = [pc EXCEPT !["R"] = "open"])
  BY <1>1, <1>5, <1>6
<1> QED
  BY <1>2, <1>10, <1>13, <1>14, <1>15, ReaderMoves

\* The next entry of the block.
LEMMA EntryStep ==
  ASSUME pc \in [Threads -> Pcs], FileInv, ReadInv, ReadEntry
  PROVE  ReadInv' /\ Steady(r, r')
<1>1. pc["R"] = "reading" /\ r.remains > 0 /\ r.file # 0 /\ r.remains \in Nat /\ Reader(r) /\ UNCHANGED <<files, w>>
  BY DEF ReadEntry, ReadInv, ReadType
<1>2. PICK bs \in Seq(Blocks) : bs = files[r.file].blocks
  BY <1>1, ReadersFile
<1>3. ReadSound(bs, r, got)
  BY <1>1, <1>2 DEF ReadInv
<1>4. PICK b \in DOMAIN bs : b = r.pos /\ bs[b].type = 2 /\ r.block = bs[b].entries /\ b \in Nat /\ b <= Len(bs)
  <2>1. r.pos \in 0 .. Len(bs) /\ r.pos # 0 /\ bs[r.pos].type = 2 /\ r.block = bs[r.pos].entries
    BY <1>1, <1>3 DEF ReadSound, InBlock
  <2>2. r.pos \in DOMAIN bs /\ r.pos \in Nat /\ r.pos <= Len(bs)
    BY <2>1, BlocksAre
  <2> QED
    BY <2>1, <2>2
<1>5. PICK i \in DOMAIN bs[b].entries :
        /\ i = r.at /\ \A j \in 1 .. i - 1 : bs[b].entries[j].kind # "v0"
        /\ bs[b].entries[i].kind # "v0" => r.remains = Len(bs[b].entries) - i + 1
  BY <1>1, <1>3, <1>4 DEF ReadSound, InBlock
<1>6. /\ DOMAIN bs[b].entries = 1 .. Len(bs[b].entries) /\ Len(bs[b].entries) \in Nat
      /\ i \in Nat \ {0} /\ i <= Len(bs[b].entries)
  BY BlocksAre
<1> DEFINE e == bs[b].entries[i]
           n == Len(bs[b].entries)
           at == IF e.kind # "v0" THEN i + 1 ELSE i
<1>7. Cursor(r) = <<b, i>> /\ <<b, i>>[1] = b /\ <<b, i>>[2] = i
  BY <1>1, <1>4, <1>5 DEF Cursor
<1>8. /\ pc' = pc \/ pc' = [pc EXCEPT !["R"] = "open"]
      /\ r' = IF e.kind = "map" THEN SteppedMap(r, r.remains - 1, at, Slotted(r.slots, e))
              ELSE Stepped(r, r.remains - 1, at)
      /\ CASE e.kind \in {"exporter", "stat", "v0", "map"} -> got' = got
           [] e.kind = "record" -> got' = Append(got, RecordAnswer(e, r.slots))
           [] OTHER -> got' = Append(got, Answer("LNF_ERR_UNKREC", 0, {}))
  <2>1. r.block[r.at] = e /\ r.at = i
    BY <1>4, <1>5
  <2> HIDE DEF e
  <2> QED
    BY <2>1 DEF ReadEntry, Advance, Again, Return, Stepped, SteppedMap, RecordAnswer
<1>9. /\ Steady(r, r')
      /\ r'.pos = b /\ r'.block = bs[b].entries /\ r'.at = at /\ r'.remains = r.remains - 1
      /\ r'.slots = IF e.kind = "map" THEN Slotted(r.slots, e) ELSE r.slots
  <2> HIDE DEF e, at
  <2>1. CASE e.kind = "map"
    <3>1. r' = SteppedMap(r, r.remains - 1, at, Slotted(r.slots, e))
      BY <2>1, <1>8
    <3>2. Steady(r, r') /\ Stands(r', r.pos, r.block, at, r.remains - 1, Slotted(r.slots, e))
      BY <3>1, <1>1, HandleSteps
    <3> QED
      BY <2>1, <3>2, <1>4 DEF Stands
  <2>2. CASE e.kind # "map"
    <3>1. r' = Stepped(r, r.remains - 1, at)
      BY <2>2, <1>8
    <3>2. Steady(r, r') /\ Stands(r', r.pos, r.block, at, r.remains - 1, r.slots)
      BY <3>1, <1>1, HandleSteps
    <3> QED
      BY <2>2, <3>2, <1>4 DEF Stands
  <2> QED
    BY <2>1, <2>2
<1>10. \/ e.kind # "v0" /\ Cursor(r') = IF i = n THEN <<b + 1, 0>> ELSE <<b, i + 1>>
       \/ e.kind = "v0" /\ Cursor(r') \in {<<b, i>>, <<b + 1, 0>>}
  <2>1. CASE e.kind # "v0"
    <3>1. r'.remains = n - i /\ r'.at = i + 1 /\ r'.pos = b
      BY <2>1, <1>1, <1>5, <1>6, <1>9
    <3> HIDE DEF n
    <3>2. i \in Nat /\ n \in Nat /\ i <= n
      BY <1>6 DEF n
    <3>3. n - i > 0 <=> i # n
      BY <3>2
    <3> QED
      BY <2>1, <3>1, <3>3 DEF Cursor
  <2>2. CASE e.kind = "v0"
    <3>1. r'.at = i /\ r'.pos = b
      BY <2>2, <1>9
    <3> QED
      BY <2>2, <3>1 DEF Cursor
  <2> QED
    BY <2>1, <2>2
<1>11. <<b, i>> \in Reached(bs) /\ At(bs, <<b, i>>) = e /\ Moves(bs, <<b, i>>, Cursor(r'))
  <2> HIDE DEF at
  <2> QED
    BY <1>4, <1>5, <1>10, MovesEntry
<1>12. r'.remains \in Nat /\ InBlock(bs, r')
  <2>1. r'.remains \in Nat
    BY <1>1, <1>9
  <2>2. PICK es : es = bs[b].entries /\ DOMAIN es = 1 .. Len(es) /\ Len(es) \in Nat
    BY <1>6
  <2>3. /\ \A j \in 1 .. i - 1 : es[j].kind # "v0"
        /\ es[i].kind # "v0" => r.remains = Len(es) - i + 1
        /\ r'.at = IF es[i].kind # "v0" THEN i + 1 ELSE i
        /\ r'.remains = r.remains - 1 /\ i \in DOMAIN es /\ i \in Nat /\ i <= Len(es)
        /\ r'.pos = b /\ r'.block = es /\ b # 0 /\ bs[b].type = 2
    <3>1. b # 0
      BY BlocksAre
    <3> QED
      BY <2>2, <3>1, <1>4, <1>5, <1>6, <1>9
  <2>4. ASSUME r'.remains > 0
        PROVE  /\ r'.at \in DOMAIN es /\ \A j \in 1 .. r'.at - 1 : es[j].kind # "v0"
               /\ es[r'.at].kind # "v0" => r'.remains = Len(es) - r'.at + 1
    <3>1. CASE es[i].kind # "v0"
      <4>1. r'.at = i + 1 /\ r.remains = Len(es) - i + 1 /\ r'.remains = r.remains - 1
        BY <3>1, <2>3
      <4>2. /\ r'.remains = Len(es) - i /\ i + 1 - 1 = i /\ Len(es) - (i + 1) + 1 = Len(es) - i
            /\ i + 1 \in 1 .. Len(es)
        <5>1. PICK len \in Nat, k \in Nat, x \in Nat, y \in Nat :
                len = Len(es) /\ k = i /\ x = r.remains /\ y = r'.remains
          BY <2>1, <2>2, <2>3, <1>1
        <5>2. x = len - k + 1 /\ y = x - 1
          BY <5>1, <4>1
        <5>3. y = len - k /\ k + 1 - 1 = k /\ len - (k + 1) + 1 = len - k
          BY <5>2
        <5>4. y > 0 => k + 1 \in 1 .. len
          BY <5>3
        <5> QED
          BY <5>1, <5>3, <5>4, <2>4
      <4>3. \A j \in 1 .. i : j = i \/ j \in 1 .. i - 1
        BY <2>3
      <4>4. \A j \in 1 .. i : es[j].kind # "v0"
        BY <4>3, <3>1, <2>3
      <4> QED
        BY <4>1, <4>2, <4>4, <2>2
    <3>2. CASE es[i].kind = "v0"
      <4>1. r'.at = i
        BY <3>2, <2>3
      <4> QED
        BY <4>1, <3>2, <2>3
    <3> QED
      BY <3>1, <3>2
  <2>5. InBlock(bs, r')
    BY <2>2, <2>3, <2>4 DEF InBlock
  <2> QED
    BY <2>1, <2>5
<1>13. <<b, i>> \in Maps(bs) <=> e.kind = "map"
  BY <1>11 DEF Maps, Of
<1>14. <<b, i>> \in Owed(bs) <=> e.kind \notin {"map", "exporter", "stat", "v0"}
  <2>1. \A q : <<b, i>> # <<q, 0>>
    BY <1>6, <1>7
  <2> QED
    BY <2>1, <1>11 DEF Owed
<1>15. \/ <<b, i>> \notin Owed(bs) /\ got' = got
       \/ \E a : got' = Append(got, a) /\ (<<b, i>> \in Owed(bs) /\ RightAnswer(a, bs, <<b, i>>, Loops(r)))
  <2> HIDE DEF e
  <2>1. CASE e.kind \in {"map", "exporter", "stat", "v0"}
    BY <2>1, <1>8, <1>14
  <2>2. CASE e.kind = "record"
    <3>1. got' = Append(got, RecordAnswer(e, r.slots)) /\ <<b, i>> \in Owed(bs)
      BY <2>2, <1>8, <1>14
    <3>2. <<b, i>> \in Places(bs) /\ SlotsRight(bs, <<b, i>>, r.slots, Loops(r))
      BY <1>3, <1>7, <1>11 DEF ReadSound, Reached
    <3>3. RightRecord(RecordAnswer(At(bs, <<b, i>>), r.slots), bs, <<b, i>>, Loops(r))
      BY <3>2, RecordRight
    <3>4. RightAnswer(RecordAnswer(e, r.slots), bs, <<b, i>>, Loops(r))
      BY <3>3, <2>2, <1>6, <1>7, <1>11 DEF RightAnswer
    <3> QED
      BY <3>1, <3>4
  <2>3. CASE e.kind \notin {"map", "exporter", "stat", "v0", "record"}
    <3>1. got' = Append(got, Answer("LNF_ERR_UNKREC", 0, {})) /\ <<b, i>> \in Owed(bs)
      BY <2>3, <1>8, <1>14
    <3>2. RightAnswer(Answer("LNF_ERR_UNKREC", 0, {}), bs, <<b, i>>, Loops(r))
      BY <2>3, <1>6, <1>7, <1>11 DEF RightAnswer, Answer
    <3> QED
      BY <3>1, <3>2
  <2> QED
    BY <2>1, <2>2, <2>3
<1>16. /\ {Cursor(r)[1], Cursor(r)[2]} \subseteq Nat /\ Moves(bs, Cursor(r), Cursor(r'))
       /\ r'.slots = IF Cursor(r) \in Maps(bs) THEN Slotted(r.slots, At(bs, Cursor(r))) ELSE r.slots
       /\ \/ Cursor(r) \notin Owed(bs) /\ got' = got
          \/ \E a : got' = Append(got, a) /\ (Cursor(r) \in Owed(bs) /\ RightAnswer(a, bs, Cursor(r), Loops(r)))
  <2>1. {<<b, i>>[1], <<b, i>>[2]} \subseteq Nat
    BY <1>4, <1>6, <1>7
  <2> HIDE DEF e, at
  <2> QED
    BY <2>1, <1>7, <1>9, <1>11, <1>13, <1>15
<1>17. pc["R"] \notin {"stat", "reopen"} /\ r'.pos \in 0 .. Len(bs)
  BY <1>1, <1>4, <1>9, BlocksAre
<1>18. UNCHANGED <<files, w>> /\ r.file # 0 /\ Steady(r, r') /\ (pc' = pc \/ pc' = [pc EXCEPT !["R"] = "open"])
  BY <1>1, <1>8, <1>9
<1> QED
  BY <1>2, <1>12, <1>16, <1>17, <1>18, ReaderMoves

-----------------------------------------------------------------------------
(***************************************************************************)
(* The other steps of the reader                                           *)
(***************************************************************************)

\* A handle that has read nothing of its file.
LEMMA NothingRead ==
  ASSUME NEW bs \in Seq(Blocks), NEW h, h.pos = 0, h.remains = 0, Loops(h) \/ h.slots = <<>>,
         HeaderRight(bs, Records(bs), h.blocks, h.flows)
  PROVE  ReadSound(bs, h, <<>>)
<1>1. Cursor(h) = <<1, 0>> /\ InBlock(bs, h) /\ h.pos \in 0 .. Len(bs)
  BY BlocksAre DEF Cursor, InBlock
<1>2. \A p : p[1] \in 1 .. Len(bs) /\ p[2] \in Nat => ~ Before(p, <<1, 0>>)
  BY BlocksAre DEF Before
<1>3. OwedBefore(bs, <<1, 0>>) = {}
  BY <1>2, PlacesAre DEF OwedBefore
<1>4. MapsBefore(bs, <<1, 0>>) = {}
  <2>1. \A p \in Maps(bs) : p[1] \in 1 .. Len(bs) /\ p[2] \in Nat
    BY PlacesAre
  <2> QED
    BY <2>1, <1>2 DEF MapsBefore
<1>5. Answered(bs, <<1, 0>>, <<>>, Loops(h))
  BY <1>3, FS_EmptySet DEF Answered
<1>6. SlotsRight(bs, <<1, 0>>, h.slots, Loops(h))
  <2>1. DOMAIN <<>> = {}
    OBVIOUS
  <2> QED
    BY <2>1, <1>4 DEF SlotsRight
<1> QED
  BY <1>1, <1>5, <1>6 DEF ReadSound

\* The reader stays where it is.
LEMMA ReaderStays ==
  ASSUME ReadInv, UNCHANGED <<files, w, got>>, SameFile(r, r'),
         Stands(r', r.pos, r.block, r.at, r.remains, r.slots),
         pc'["R"] \in {"stat", "reopen"} => Loops(r) /\ r.remains = 0
  PROVE  ReadInv'
<1>1. /\ Loops(r') = Loops(r) /\ Cursor(r') = Cursor(r) /\ r'.file = r.file /\ Reader(r')
      /\ r'.pos = r.pos /\ r'.block = r.block /\ r'.at = r.at /\ r'.remains = r.remains /\ r'.slots = r.slots
      /\ r'.blocks = r.blocks /\ r'.flows = r.flows
  BY DEF Steady, SameFile, Stands, Loops, Cursor
<1>2. ReadType'
  BY <1>1 DEF ReadInv, ReadType
<1>3. ASSUME r.file # 0 PROVE ReadSound(files[r.file].blocks, r', got)
  <2>1. ReadSound(files[r.file].blocks, r, got)
    BY <1>3 DEF ReadInv
  <2> QED
    BY <2>1, <1>1 DEF ReadSound, InBlock
<1>4. HeadersRight'
  BY HeadersStay DEF ReadInv
<1> QED
  BY <1>1, <1>2, <1>3, <1>4 DEF ReadInv

\* So when its handle is left alone.
LEMMA ReaderQuiet ==
  ASSUME ReadInv, UNCHANGED <<files, w, r, got>>, pc'["R"] \in {"stat", "reopen"} => Loops(r) /\ r.remains = 0
  PROVE  ReadInv'
<1>1. SameFile(r, r') /\ Stands(r', r.pos, r.block, r.at, r.remains, r.slots)
  BY DEF ReadInv, ReadType, SameFile, Stands
<1> QED
  BY <1>1, ReaderStays

\* The values of a handle's fields.
Has(h, file, flags, pos, remains, slots, blocks, flows) ==
  /\ Reader(h) /\ h.file = file /\ h.flags = flags /\ h.pos = pos /\ h.remains = remains /\ h.slots = slots
  /\ h.blocks = blocks /\ h.flows = flows

\* One of them is assigned.
LEMMA FieldAssigned ==
  ASSUME NEW h, Reader(h), NEW x
  PROVE  /\ Has([h EXCEPT !.file = x], x, h.flags, h.pos, h.remains, h.slots, h.blocks, h.flows)
         /\ Has([h EXCEPT !.flags = x], h.file, x, h.pos, h.remains, h.slots, h.blocks, h.flows)
         /\ Has([h EXCEPT !.pos = x], h.file, h.flags, x, h.remains, h.slots, h.blocks, h.flows)
         /\ Has([h EXCEPT !.inode = x], h.file, h.flags, h.pos, h.remains, h.slots, h.blocks, h.flows)
         /\ Has([h EXCEPT !.seen = x], h.file, h.flags, h.pos, h.remains, h.slots, h.blocks, h.flows)
         /\ Has([h EXCEPT !.blocks = x], h.file, h.flags, h.pos, h.remains, h.slots, x, h.flows)
         /\ Has([h EXCEPT !.flows = x], h.file, h.flags, h.pos, h.remains, h.slots, h.blocks, x)
         /\ Has([h EXCEPT !.told = x], h.file, h.flags, h.pos, h.remains, h.slots, h.blocks, h.flows)
         /\ Has([h EXCEPT !.misled = x], h.file, h.flags, h.pos, h.remains, h.slots, h.blocks, h.flows)
<1>1. Has([h EXCEPT !.file = x], x, h.flags, h.pos, h.remains, h.slots, h.blocks, h.flows)
  BY DEF Reader, Has
<1>2. Has([h EXCEPT !.flags = x], h.file, x, h.pos, h.remains, h.slots, h.blocks, h.flows)
  BY DEF Reader, Has
<1>3. Has([h EXCEPT !.pos = x], h.file, h.flags, x, h.remains, h.slots, h.blocks, h.flows)
  BY DEF Reader, Has
<1>4. Has([h EXCEPT !.inode = x], h.file, h.flags, h.pos, h.remains, h.slots, h.blocks, h.flows)
  BY DEF Reader, Has
<1>5. Has([h EXCEPT !.seen = x], h.file, h.flags, h.pos, h.remains, h.slots, h.blocks, h.flows)
  BY DEF Reader, Has
<1>6. Has([h EXCEPT !.blocks = x], h.file, h.flags, h.pos, h.remains, h.slots, x, h.flows)
  BY DEF Reader, Has
<1>7. Has([h EXCEPT !.flows = x], h.file, h.flags, h.pos, h.remains, h.slots, h.blocks, x)
  BY DEF Reader, Has
<1>8. Has([h EXCEPT !.told = x], h.file, h.flags, h.pos, h.remains, h.slots, h.blocks, h.flows)
  BY DEF Reader, Has
<1>9. Has([h EXCEPT !.misled = x], h.file, h.flags, h.pos, h.remains, h.slots, h.blocks, h.flows)
  BY DEF Reader, Has
<1> QED
  BY <1>1, <1>2, <1>3, <1>4, <1>5, <1>6, <1>7, <1>8, <1>9

\* The handles lnf_open makes for reading have read nothing.
LEMMA OpenedReaders ==
  ASSUME NEW file, NEW flags, NEW inode
  PROVE  /\ Reader(NoReader) /\ NoReader.file = 0 /\ NoReader.remains = 0 /\ NoReader.blocks = 0
         /\ file # 0 => Has(OpenedReader(file, flags, inode), file, flags, 0, 0, <<>>,
                            files[file].header, files[file].flows)
<1>1. Has(NoReader, 0, {}, 0, 0, <<>>, 0, 0)
  BY DEF Reader, NoReader, Has
<1> DEFINE a == [NoReader EXCEPT !.file = file]
           b == [a EXCEPT !.flags = flags]
           c == [b EXCEPT !.inode = inode]
           d == [c EXCEPT !.blocks = files[file].header]
           e == [d EXCEPT !.flows = files[file].flows]
           f == [e EXCEPT !.misled = inode # 0]
<1>2. Has(a, file, NoReader.flags, NoReader.pos, NoReader.remains, NoReader.slots, NoReader.blocks, NoReader.flows)
  <2>1. Reader(NoReader)
    BY <1>1 DEF Has
  <2> QED
    BY <2>1, FieldAssigned
<1>3. file # 0 => OpenedReader(file, flags, inode) = f
  BY DEF OpenedReader
<1> HIDE DEF a
<1>4. Has(b, a.file, flags, a.pos, a.remains, a.slots, a.blocks, a.flows)
  <2>1. Reader(a)
    BY <1>2 DEF Has
  <2> QED
    BY <2>1, FieldAssigned
<1> HIDE DEF b
<1>5. Has(c, b.file, b.flags, b.pos, b.remains, b.slots, b.blocks, b.flows)
  <2>1. Reader(b)
    BY <1>4 DEF Has
  <2> QED
    BY <2>1, FieldAssigned
<1> HIDE DEF c
<1>6. Has(d, c.file, c.flags, c.pos, c.remains, c.slots, files[file].header, c.flows)
  <2>1. Reader(c)
    BY <1>5 DEF Has
  <2> QED
    BY <2>1, FieldAssigned
<1> HIDE DEF d
<1>7. Has(e, d.file, d.flags, d.pos, d.remains, d.slots, d.blocks, files[file].flows)
  <2>1. Reader(d)
    BY <1>6 DEF Has
  <2> QED
    BY <2>1, FieldAssigned
<1> HIDE DEF e
<1>8. Has(f, e.file, e.flags, e.pos, e.remains, e.slots, e.blocks, e.flows)
  <2>1. Reader(e)
    BY <1>7 DEF Has
  <2> QED
    BY <2>1, FieldAssigned
<1> HIDE DEF f
<1>9. Has(f, file, flags, 0, 0, <<>>, files[file].header, files[file].flows)
  BY <1>1, <1>2, <1>4, <1>5, <1>6, <1>7, <1>8 DEF Has
<1> QED
  BY <1>1, <1>3, <1>9 DEF Has

\* No answers yet.
LEMMA NoAnswers == <<>> \in Seq(Range(<<>>))
  OBVIOUS

\* What a file says of itself.
LEMMA FileHeader ==
  ASSUME FileInv, HeadersRight, NEW f \in DOMAIN files
  PROVE  /\ files[f].header \in Nat /\ files[f].flows \in Nat /\ files[f].blocks \in Seq(Blocks)
         /\ HeaderRight(files[f].blocks, Records(files[f].blocks), files[f].header, files[f].flows)
<1>1. files[f] \in FileRecords
  BY DEF FileInv, FileType
<1> QED
  BY <1>1 DEF FileRecords, HeadersRight

\* lnf_open for reading.
LEMMA OpenReadStep ==
  ASSUME pc \in [Threads -> Pcs], FileInv, ReadInv, OpenRead
  PROVE  ReadInv'
<1>1. /\ UNCHANGED <<files, w>> /\ got' = <<>> /\ pc'["R"] \notin {"stat", "reopen"}
      /\ path \in 0 .. Len(files) /\ DOMAIN files = 1 .. Len(files) /\ Len(files) \in Nat
  <2>1. pc' = [pc EXCEPT !["R"] = IF path = 0 THEN "closed" ELSE "lock2"]
    BY DEF OpenRead, Opened
  <2>2. pc'["R"] \notin {"stat", "reopen"}
    BY <2>1 DEF Threads
  <2> QED
    BY <2>2 DEF OpenRead, FileInv, FileType
<1>2. HeadersRight' /\ HeadersRight
  BY <1>1, HeadersStay DEF ReadInv
<1>3. CASE path = 0
  <2>1. r' = NoReader
    BY <1>3 DEF OpenRead, OpenedReader
  <2>2. Reader(NoReader) /\ NoReader.file = 0 /\ NoReader.remains = 0 /\ NoReader.blocks = 0
    BY OpenedReaders
  <2>3. ReadType'
    BY <2>1, <2>2, <1>1, NoAnswers DEF ReadType
  <2> QED
    BY <2>1, <2>2, <2>3, <1>2 DEF ReadInv
<1>4. CASE path # 0
  <2> DEFINE blocks == files[path].header
             flows == files[path].flows
  <2>1. PICK flags, inode : r' = OpenedReader(path, flags, inode)
    BY DEF OpenRead
  <2>2. path \in DOMAIN files
    BY <1>1, <1>4
  <2>3. /\ blocks \in Nat /\ files[path].blocks \in Seq(Blocks)
        /\ HeaderRight(files[path].blocks, Records(files[path].blocks), blocks, flows)
    BY <2>2, <1>2, FileHeader
  <2>4. /\ Reader(r') /\ r'.file = path /\ r'.pos = 0 /\ r'.remains = 0 /\ r'.slots = <<>>
        /\ r'.blocks = blocks /\ r'.flows = flows
    <3>1. Has(OpenedReader(path, flags, inode), path, flags, 0, 0, <<>>, files[path].header, files[path].flows)
      BY <1>4, OpenedReaders
    <3> QED
      BY <2>1, <3>1 DEF Has
  <2> HIDE DEF blocks, flows
  <2>5. ReadSound(files[path].blocks, r', <<>>)
    BY <2>3, <2>4, NothingRead
  <2>6. ReadType'
    BY <2>3, <2>4, <1>1, NoAnswers DEF ReadType
  <2> QED
    BY <2>4, <2>5, <2>6, <1>1, <1>2 DEF ReadInv
<1> QED
  BY <1>3, <1>4

\* The handle after it was opened again, without and with a file.
Emptied(h) == [h EXCEPT !.file = 0, !.seen = 0]
Renewed(h, file, blocks, flows, told, misled) ==
  [h EXCEPT !.file = file, !.pos = 0, !.inode = h.seen, !.seen = 0, !.blocks = blocks, !.flows = flows,
            !.told = told, !.misled = misled]

\* It keeps the extension maps.
LEMMA ReopenedReaders ==
  ASSUME NEW h, Reader(h), NEW file, NEW blocks, NEW flows, NEW told, NEW misled
  PROVE  /\ Has(Emptied(h), 0, h.flags, h.pos, h.remains, h.slots, h.blocks, h.flows)
         /\ Has(Renewed(h, file, blocks, flows, told, misled), file, h.flags, 0, h.remains, h.slots, blocks, flows)
<1> DEFINE a1 == [h EXCEPT !.file = 0]
           a2 == [a1 EXCEPT !.seen = 0]
           b1 == [h EXCEPT !.file = file]
           b2 == [b1 EXCEPT !.pos = 0]
           b3 == [b2 EXCEPT !.inode = h.seen]
           b4 == [b3 EXCEPT !.seen = 0]
           b5 == [b4 EXCEPT !.blocks = blocks]
           b6 == [b5 EXCEPT !.flows = flows]
           b7 == [b6 EXCEPT !.told = told]
           b8 == [b7 EXCEPT !.misled = misled]
<1>1. Emptied(h) = a2 /\ Renewed(h, file, blocks, flows, told, misled) = b8
  BY DEF Emptied, Renewed
<1>2. /\ Has(a1, 0, h.flags, h.pos, h.remains, h.slots, h.blocks, h.flows)
      /\ Has(b1, file, h.flags, h.pos, h.remains, h.slots, h.blocks, h.flows)
  BY FieldAssigned
<1> HIDE DEF a1, b1
<1>3. Has(a2, a1.file, a1.flags, a1.pos, a1.remains, a1.slots, a1.blocks, a1.flows)
  <2>1. Reader(a1)
    BY <1>2 DEF Has
  <2> QED
    BY <2>1, FieldAssigned
<1>4. Has(b2, b1.file, b1.flags, 0, b1.remains, b1.slots, b1.blocks, b1.flows)
  <2>1. Reader(b1)
    BY <1>2 DEF Has
  <2> QED
    BY <2>1, FieldAssigned
<1> HIDE DEF a2, b2
<1>5. Has(b3, b2.file, b2.flags, b2.pos, b2.remains, b2.slots, b2.blocks, b2.flows)
  <2>1. Reader(b2)
    BY <1>4 DEF Has
  <2> QED
    BY <2>1, FieldAssigned
<1> HIDE DEF b3
<1>6. Has(b4, b3.file, b3.flags, b3.pos, b3.remains, b3.slots, b3.blocks, b3.flows)
  <2>1. Reader(b3)
    BY <1>5 DEF Has
  <2> QED
    BY <2>1, FieldAssigned
<1> HIDE DEF b4
<1>7. Has(b5, b4.file, b4.flags, b4.pos, b4.remains, b4.slots, blocks, b4.flows)
  <2>1. Reader(b4)
    BY <1>6 DEF Has
  <2> QED
    BY <2>1, FieldAssigned
<1> HIDE DEF b5
<1>8. Has(b6, b5.file, b5.flags, b5.pos, b5.remains, b5.slots, b5.blocks, flows)
  <2>1. Reader(b5)
    BY <1>7 DEF Has
  <2> QED
    BY <2>1, FieldAssigned
<1> HIDE DEF b6
<1>9. Has(b7, b6.file, b6.flags, b6.pos, b6.remains, b6.slots, b6.blocks, b6.flows)
  <2>1. Reader(b6)
    BY <1>8 DEF Has
  <2> QED
    BY <2>1, FieldAssigned
<1> HIDE DEF b7
<1>10. Has(b8, b7.file, b7.flags, b7.pos, b7.remains, b7.slots, b7.blocks, b7.flows)
  <2>1. Reader(b7)
    BY <1>9 DEF Has
  <2> QED
    BY <2>1, FieldAssigned
<1> HIDE DEF b8
<1>11. /\ Has(a2, 0, h.flags, h.pos, h.remains, h.slots, h.blocks, h.flows)
       /\ Has(b8, file, h.flags, 0, h.remains, h.slots, blocks, flows)
  BY <1>2, <1>3, <1>4, <1>5, <1>6, <1>7, <1>8, <1>9, <1>10 DEF Has
<1> QED
  BY <1>1, <1>11

\* A file that has taken the place of the one that was read is opened.
LEMMA ReopenStep ==
  ASSUME pc \in [Threads -> Pcs], FileInv, ReadInv, Reopen
  PROVE  ReadInv'
<1>1. /\ UNCHANGED <<files, w>> /\ got' = <<>> /\ pc'["R"] \notin {"stat", "reopen"}
      /\ path \in 0 .. Len(files) /\ DOMAIN files = 1 .. Len(files) /\ Len(files) \in Nat
  BY DEF Reopen, Threads, FileInv, FileType
<1>2. Reader(r) /\ Loops(r) /\ r.remains = 0 /\ r.blocks \in Nat
  BY DEF Reopen, ReadInv, ReadType
<1>3. HeadersRight' /\ HeadersRight
  BY <1>1, HeadersStay DEF ReadInv
<1>4. CASE path = 0
  <2>1. r' = Emptied(r)
    BY <1>4 DEF Reopen, Reopened, Emptied
  <2>2. Reader(r') /\ r'.file = 0 /\ r'.remains = 0 /\ r'.blocks = r.blocks
    BY <2>1, <1>2, ReopenedReaders DEF Has
  <2>3. ReadType'
    BY <2>2, <1>1, <1>2, NoAnswers DEF ReadType
  <2> QED
    BY <2>2, <2>3, <1>3 DEF ReadInv
<1>5. CASE path # 0
  <2> DEFINE blocks == files[path].header
             flows == files[path].flows
             told == IF path = r.file THEN r.told + Len(got) ELSE 0
             misled == (r.misled /\ path = r.file) \/ r.seen # files[path].ino
  <2>1. r' = Renewed(r, path, blocks, flows, told, misled)
    BY <1>5 DEF Reopen, Reopened, Renewed
  <2>2. path \in DOMAIN files
    BY <1>1, <1>5
  <2>3. /\ blocks \in Nat /\ files[path].blocks \in Seq(Blocks)
        /\ HeaderRight(files[path].blocks, Records(files[path].blocks), blocks, flows)
    BY <2>2, <1>3, FileHeader
  <2> HIDE DEF blocks, flows, told, misled
  <2>4. /\ Reader(r') /\ r'.file = path /\ r'.pos = 0 /\ r'.remains = 0 /\ Loops(r')
        /\ r'.blocks = blocks /\ r'.flows = flows
    BY <2>1, <1>2, ReopenedReaders DEF Loops, Has
  <2>5. ReadSound(files[path].blocks, r', <<>>)
    BY <2>3, <2>4, NothingRead
  <2>6. ReadType'
    BY <2>3, <2>4, <1>1, NoAnswers DEF ReadType
  <2> QED
    BY <2>4, <2>5, <2>6, <1>1, <1>3 DEF ReadInv
<1> QED
  BY <1>4, <1>5

\* The inode of the file under the path is noted.
LEMMA StatStep ==
  ASSUME pc \in [Threads -> Pcs], ReadInv, Stat
  PROVE  ReadInv'
<1>1. Reader(r) /\ Loops(r) /\ r.remains = 0 /\ UNCHANGED <<files, w, got>>
  BY DEF Stat, ReadInv, ReadType
<1>2. PICK ino : ino = files[path].ino
  OBVIOUS
<1>3. \/ r' = [r EXCEPT !.seen = ino]
      \/ r' = [r EXCEPT !.inode = ino]
  BY <1>2 DEF Stat
<1>4. SameFile(r, r') /\ Stands(r', r.pos, r.block, r.at, r.remains, r.slots)
  <2>1. CASE r' = [r EXCEPT !.seen = ino]
    BY <2>1, <1>1 DEF Reader, SameFile, Stands
  <2>2. CASE r' = [r EXCEPT !.inode = ino]
    BY <2>2, <1>1 DEF Reader, SameFile, Stands
  <2> QED
    BY <1>3, <2>1, <2>2
<1> QED
  BY <1>1, <1>4, ReaderStays

\* The other steps of the reader leave its handle as it is.
LEMMA ReaderStep ==
  ASSUME pc \in [Threads -> Pcs], FileInv, ReadInv, OpenRead \/ ReaderNext \/ CloseReader
  PROVE  ReadInv'
<1>1. CASE ReadCall \/ StatGone
  <2>1. UNCHANGED <<files, w, r, got>> /\ pc'["R"] \notin {"stat", "reopen"}
    BY <1>1 DEF ReadCall, StatGone, Threads
  <2> QED
    BY <2>1, ReaderQuiet
<1>2. CASE ReadEof
  <2>1. /\ UNCHANGED <<files, w, r, got>> /\ r.remains = 0
        /\ pc' = [pc EXCEPT !["R"] = IF Loops(r) THEN "stat" ELSE "open"]
    BY <1>2 DEF ReadEof, Looping, Loops
  <2>2. pc'["R"] \in {"stat", "reopen"} => Loops(r)
    BY <2>1 DEF Threads
  <2> QED
    BY <2>1, <2>2, ReaderQuiet
<1>3. CASE CloseReader
  <2>1. UNCHANGED <<files, w>> /\ r' = NoReader /\ got' = <<>> /\ pc'["R"] \notin {"stat", "reopen"}
    BY <1>3 DEF CloseReader, Threads
  <2>2. Reader(NoReader) /\ NoReader.file = 0 /\ NoReader.remains = 0 /\ NoReader.blocks = 0
    BY OpenedReaders
  <2>3. Len(files) \in Nat
    BY DEF FileInv, FileType
  <2>4. ReadType'
    BY <2>1, <2>2, <2>3, NoAnswers DEF ReadType
  <2>5. HeadersRight'
    BY <2>1, HeadersStay DEF ReadInv
  <2> QED
    BY <2>1, <2>2, <2>4, <2>5 DEF ReadInv
<1>4. CASE LoadEmptyBlock
  <2>1. UNCHANGED <<files, w, r, got>> /\ pc'["R"] = "dead"
    BY <1>4 DEF LoadEmptyBlock, Undefined, Threads
  <2> QED
    BY <2>1, ReaderQuiet
<1> QED
  BY <1>1, <1>2, <1>3, <1>4, OpenReadStep, LoadStep, EntryStep, StatStep, ReopenStep DEF ReaderNext

-----------------------------------------------------------------------------
(***************************************************************************)
(* The steps of the writer and of other programs                           *)
(***************************************************************************)

\* Blocks that stay as they are are kept.
LEMMA KeptItself == ASSUME NEW bs PROVE Kept(bs, bs)
  BY DEF Kept

\* Files get more blocks, and there may be more files.
LEMMA FilesMove ==
  ASSUME FileInv, FileInv', ReadInv, HeadersRight', UNCHANGED <<r, got>>,
         pc'["R"] \in {"stat", "reopen"} => pc'["R"] = pc["R"],
         Len(files) <= Len(files'), \A f \in DOMAIN files : Kept(files[f].blocks, files'[f].blocks)
  PROVE  ReadInv'
<1>1. /\ files \in Seq(FileRecords) /\ files' \in Seq(FileRecords)
      /\ DOMAIN files = 1 .. Len(files) /\ DOMAIN files' = 1 .. Len(files') /\ Len(files) \in Nat /\ Len(files') \in Nat
  BY DEF FileInv, FileType
<1>2. ReadType'
  BY <1>1 DEF ReadInv, ReadType
<1>3. ASSUME r.file # 0 PROVE ReadSound(files'[r.file].blocks, r, got)
  <2>1. r.file \in DOMAIN files /\ r.file \in DOMAIN files'
    BY <1>1, <1>3 DEF ReadInv, ReadType
  <2>2. files[r.file].blocks \in Seq(Blocks) /\ files'[r.file].blocks \in Seq(Blocks)
    <3>1. files[r.file] \in FileRecords /\ files'[r.file] \in FileRecords
      BY <2>1, <1>1
    <3> QED
      BY <3>1 DEF FileRecords
  <2>3. r.remains \in Nat /\ r.blocks \in Nat /\ ReadSound(files[r.file].blocks, r, got)
    BY <1>3 DEF ReadInv, ReadType
  <2> QED
    BY <2>1, <2>2, <2>3, KeptSound
<1> QED
  BY <1>2, <1>3 DEF ReadInv

\* A file is added, perhaps with a writer that has just opened it.
LEMMA FileAdded ==
  ASSUME FileInv, FileInv', ReadInv, NEW new \in FileRecords, files' = Append(files, new), acked' = Append(acked, <<>>),
         HeaderRight(new.blocks, Records(new.blocks), new.header, new.flows),
         \/ w' = w
         \/ /\ w'.file = Len(files')
            /\ HeaderRight(new.blocks, Records(Append(new.blocks, Block(2, w'.buf))), w'.blocks, w'.flows),
         UNCHANGED <<r, got>>, pc'["R"] = pc["R"]
  PROVE  ReadInv'
<1>1. /\ Len(files') = Len(files) + 1 /\ Len(files) \in Nat /\ DOMAIN files' = DOMAIN files \cup {Len(files')}
      /\ \A f \in DOMAIN files : files'[f] = files[f] /\ f # Len(files')
      /\ files'[Len(files')] = new
  BY Added
<1>2. w.file \in 0 .. Len(files) /\ DOMAIN files = 1 .. Len(files) /\ HeadersRight
  BY DEF FileInv, FileType, ReadInv
<1>3. \A f \in DOMAIN files' : HeaderRight(files'[f].blocks, Records(files'[f].blocks), files'[f].header, files'[f].flows)
  BY <1>1, <1>2 DEF HeadersRight
<1>4. ASSUME w'.file # 0
      PROVE  HeaderRight(files'[w'.file].blocks, Records(Written(w.file)'), w'.blocks, w'.flows)
  <2>1. CASE w' = w
    <3>1. w.file \in DOMAIN files /\ files'[w.file] = files[w.file]
      BY <2>1, <1>1, <1>2, <1>4
    <3>2. Written(w.file)' = Written(w.file)
      BY <2>1, <3>1 DEF Written
    <3> QED
      BY <2>1, <3>1, <3>2, <1>2, <1>4 DEF HeadersRight
  <2>2. CASE /\ w'.file = Len(files')
             /\ HeaderRight(new.blocks, Records(Append(new.blocks, Block(2, w'.buf))), w'.blocks, w'.flows)
    <3>1. Written(w.file)' = Append(new.blocks, Block(2, w'.buf))
      BY <2>2, <1>1 DEF Written
    <3> QED
      BY <2>2, <3>1, <1>1
  <2> QED
    BY <2>1, <2>2
<1>5. HeadersRight'
  BY <1>3, <1>4 DEF HeadersRight
<1>6. Len(files) <= Len(files') /\ \A f \in DOMAIN files : Kept(files[f].blocks, files'[f].blocks)
  BY <1>1, KeptItself
<1> QED
  BY <1>5, <1>6, FilesMove

\* Another program puts a file of its own in place.
LEMMA PutInPlaceReads ==
  ASSUME FileInv, FileInv', ReadInv, NEW c \in Contents, PutInPlace(c)
  PROVE  ReadInv'
<1>1. PICK ino \in FreeInodes :
        files' = Append(files, [ino |-> ino, blocks |-> c, header |-> Len(c), flows |-> Cardinality(Records(c))])
  BY DEF PutInPlace
<1> DEFINE new == [ino |-> ino, blocks |-> c, header |-> Len(c), flows |-> Cardinality(Records(c))]
<1>2. new \in FileRecords
  BY ForeignFile, NfFileAssumption DEF FreeInodes, FileRecords
<1>3. HeaderRight(new.blocks, Records(new.blocks), new.header, new.flows)
  <2>1. Len(c) \in Nat
    BY ForeignFile
  <2> QED
    BY <2>1 DEF HeaderRight
<1>4. acked' = Append(acked, <<>>) /\ UNCHANGED <<pc, w, r, got>>
  BY DEF PutInPlace
<1>5. files' = Append(files, new)
  BY <1>1
<1> HIDE DEF new
<1> QED
  BY <1>2, <1>3, <1>4, <1>5, FileAdded

\* An empty block after the others has no records.
LEMMA EmptyBlock ==
  ASSUME NEW bs \in Seq(Blocks)
  PROVE  Records(Append(bs, Block(2, <<>>))) = Records(bs)
<1> DEFINE cs == Append(bs, Block(2, <<>>))
<1>1. Places(cs) = Places(bs) /\ Cut(cs, bs)
  BY CutBlock
<1> HIDE DEF cs
<1>2. Records(cs) = Records(bs)
  BY <1>1 DEF Cut, Records, Of
<1> QED
  BY <1>2 DEF cs

\* The headers of the handles lnf_open makes for writing.
LEMMA OpenedHeaders ==
  ASSUME NEW file, NEW flags, NEW blocks, NEW flows, NEW since
  PROVE  /\ LET h == NewWriter(file, flags, since)
            IN h.file = file /\ h.buf = <<>> /\ h.blocks = 0 /\ h.flows = 0
         /\ LET h == Appender(file, flags, blocks, flows, since)
            IN h.file = file /\ h.buf = <<>> /\ h.blocks = blocks /\ h.flows = flows
  BY DEF NewWriter, Appender, NoWriter

\* lnf_open for writing under a free name.
LEMMA OpenNewReads ==
  ASSUME FileInv, FileInv', ReadInv, pc \in [Threads -> Pcs], NEW flags \in WriteFlags, OpenNew(flags), UNCHANGED <<r, got>>
  PROVE  ReadInv'
<1>1. PICK ino \in FreeInodes : files' = Append(files, [ino |-> ino, blocks |-> <<>>, header |-> 0, flows |-> 0])
  BY DEF OpenNew
<1> DEFINE new == [ino |-> ino, blocks |-> <<>>, header |-> 0, flows |-> 0]
<1>2. new \in FileRecords /\ new.blocks = <<>> /\ new.header = 0 /\ new.flows = 0
  <2>1. <<>> \in Seq(Blocks)
    OBVIOUS
  <2> QED
    BY <2>1, NfFileAssumption DEF FreeInodes, FileRecords
<1>3. /\ path' = Len(files') /\ acked' = Append(acked, <<>>) /\ w' = NewWriter(path', flags, rec)
      /\ pc'["R"] = pc["R"]
  BY DEF OpenNew, Opened, NewWriter, Threads
<1>4. files' = Append(files, new)
  BY <1>1
<1> HIDE DEF new
<1>5. Records(<<>>) = {} /\ Records(Append(<<>>, Block(2, <<>>))) = {}
  <2>1. Records(<<>>) = {}
    BY DEF Records, Of, Places
  <2>2. <<>> \in Seq(Blocks)
    OBVIOUS
  <2> QED
    BY <2>1, <2>2, EmptyBlock
<1>6. HeaderRight(<<>>, {}, 0, 0)
  BY FS_EmptySet DEF HeaderRight
<1>7. w'.file = Len(files') /\ w'.buf = <<>> /\ w'.blocks = 0 /\ w'.flows = 0
  BY <1>3, OpenedHeaders
<1> QED
  BY <1>2, <1>3, <1>4, <1>5, <1>6, <1>7, FileAdded

\* The files stay, and the writer has another handle.
LEMMA WriterChanges ==
  ASSUME FileInv, FileInv', ReadInv, UNCHANGED <<files, r, got>>, pc'["R"] = pc["R"],
         w'.file = 0 \/ HeaderRight(files[w'.file].blocks, Records(Append(files[w'.file].blocks, Block(2, w'.buf))),
                                    w'.blocks, w'.flows)
  PROVE  ReadInv'
<1>1. Written(w.file)' = Append(files[w'.file].blocks, Block(2, w'.buf))
  BY DEF Written
<1>2. HeadersRight'
  BY <1>1 DEF ReadInv, HeadersRight
<1>3. Len(files) <= Len(files') /\ \A f \in DOMAIN files : Kept(files[f].blocks, files'[f].blocks)
  BY KeptItself DEF FileInv, FileType
<1> QED
  BY <1>2, <1>3, FilesMove

\* lnf_open for writing.
LEMMA OpenWriteReads ==
  ASSUME FileInv, FileInv', ReadInv, pc \in [Threads -> Pcs], OpenWrite
  PROVE  ReadInv'
<1>1. UNCHANGED <<r, got>>
  BY DEF OpenWrite
<1>2. CASE \E flags \in WriteFlags : OpenNew(flags)
  BY <1>1, <1>2, OpenNewReads
<1>3. CASE OpenRefused \/ (path = 0 /\ \E flags \in WriteFlags : OpenAppend(flags))
  <2>1. w' = NoWriter /\ UNCHANGED files /\ pc'["R"] = pc["R"]
    <3>1. CASE OpenRefused
      BY <3>1 DEF OpenRefused, Opened, Threads
    <3>2. CASE path = 0 /\ \E flags \in WriteFlags : OpenAppend(flags)
      <4>1. PICK flags \in WriteFlags : OpenAppend(flags)
        BY <3>2
      <4> QED
        BY <4>1, <3>2 DEF OpenAppend, Opened, Threads
    <3> QED
      BY <1>3, <3>1, <3>2
  <2>2. NoWriter.file = 0
    BY DEF NoWriter
  <2> QED
    BY <2>1, <2>2, <1>1, WriterChanges
<1>4. CASE path # 0 /\ \E flags \in WriteFlags : OpenAppend(flags)
  <2>1. PICK flags \in WriteFlags : OpenAppend(flags)
    BY <1>4
  <2>2. /\ w' = Appender(path, flags, files[path].header, files[path].flows, rec)
        /\ UNCHANGED files /\ pc'["R"] = pc["R"]
    BY <2>1, <1>4 DEF OpenAppend, Opened, Appender, Threads
  <2>3. w'.file = path /\ w'.buf = <<>> /\ w'.blocks = files[path].header /\ w'.flows = files[path].flows
    BY <2>2, OpenedHeaders
  <2>4. path \in DOMAIN files /\ HeadersRight
    BY <1>4 DEF FileInv, FileType, ReadInv
  <2>5. /\ files[path].blocks \in Seq(Blocks)
        /\ HeaderRight(files[path].blocks, Records(files[path].blocks), files[path].header, files[path].flows)
    BY <2>4, FileHeader
  <2>6. Records(Append(files[path].blocks, Block(2, <<>>))) = Records(files[path].blocks)
    BY <2>5, EmptyBlock
  <2> QED
    BY <2>2, <2>3, <2>5, <2>6, <1>1, WriterChanges
<1> QED
  BY <1>2, <1>3, <1>4 DEF OpenWrite

\* A header is right as long as blocks are kept.
LEMMA HeaderKept ==
  ASSUME NEW bs \in Seq(Blocks), NEW cs \in Seq(Blocks), Kept(bs, cs), NEW blocks \in Nat, NEW flows,
         HeaderRight(bs, Records(bs), blocks, flows)
  PROVE  HeaderRight(cs, Records(cs), blocks, flows)
<1>1. Len(bs) <= Len(cs) /\ (Len(bs) = Len(cs) => cs = bs) /\ Len(bs) \in Nat /\ Len(cs) \in Nat
  BY KeptSame, BlocksAre
<1> QED
  BY <1>1 DEF HeaderRight

\* That of a handle is right while it leaves out as many blocks as before and counts
\* flows as there are records.
LEMMA HeaderCounts ==
  ASSUME NEW bs \in Seq(Blocks), NEW cs \in Seq(Blocks), NEW blocks \in Nat, NEW more \in Nat,
         Len(cs) - more = Len(bs) - blocks, NEW ps, NEW qs, NEW flows, NEW then,
         flows = Cardinality(ps) => then = Cardinality(qs), HeaderRight(bs, ps, blocks, flows)
  PROVE  HeaderRight(cs, qs, more, then)
<1>1. Len(bs) \in Nat /\ Len(cs) \in Nat
  BY BlocksAre
<1> QED
  BY <1>1 DEF HeaderRight

\* The writer stores the blocks cs in its file, with the header given.
LEMMA FileStored ==
  ASSUME FileInv, FileInv', ReadInv, w.file # 0, UNCHANGED <<r, got>>, pc'["R"] = pc["R"],
         NEW new, files' = [files EXCEPT ![w.file] = new], Kept(files[w.file].blocks, new.blocks),
         HeaderRight(new.blocks, Records(new.blocks), new.header, new.flows),
         \/ w'.file = 0
         \/ /\ w'.file = w.file
            /\ HeaderRight(new.blocks, Records(Append(new.blocks, Block(2, w'.buf))), w'.blocks, w'.flows)
  PROVE  ReadInv'
<1>1. /\ w.file \in DOMAIN files /\ files'[w.file] = new /\ DOMAIN files' = DOMAIN files
      /\ \A f \in DOMAIN files : f # w.file => files'[f] = files[f]
  BY DEF FileInv, FileType
<1>2. HeadersRight
  BY DEF ReadInv
<1>3. \A f \in DOMAIN files' : HeaderRight(files'[f].blocks, Records(files'[f].blocks), files'[f].header, files'[f].flows)
  BY <1>1, <1>2 DEF HeadersRight
<1>4. w'.file # 0 => HeaderRight(files'[w'.file].blocks, Records(Written(w.file)'), w'.blocks, w'.flows)
  <2>1. w'.file # 0 => w'.file = w.file /\ Written(w.file)' = Append(new.blocks, Block(2, w'.buf))
    BY <1>1 DEF Written
  <2> QED
    BY <2>1, <1>1
<1>5. HeadersRight'
  BY <1>3, <1>4 DEF HeadersRight
<1>6. \A f \in DOMAIN files : Kept(files[f].blocks, files'[f].blocks)
  BY <1>1, KeptItself
<1>7. Len(files) <= Len(files')
  <2>1. Len(files) \in Nat /\ Len(files') = Len(files)
    BY DEF FileInv, FileType
  <2> QED
    BY <2>1
<1> QED
  BY <1>5, <1>6, <1>7, FilesMove

\* A file with other blocks.
Refilled(g, cs) == [g EXCEPT !.blocks = cs]

\* Its header is what it was.
LEMMA RefilledIs ==
  ASSUME NEW g \in FileRecords, NEW cs
  PROVE  Refilled(g, cs).blocks = cs /\ Refilled(g, cs).header = g.header /\ Refilled(g, cs).flows = g.flows
  BY DEF Refilled, FileRecords

\* lnf_write.
LEMMA WriteReads ==
  ASSUME FileInv, FileInv', ReadInv, NEW exts \in Exts, NEW exp \in Exporters \cup {"none"}, NEW left \in Leftovers,
         NEW lost \in BOOLEAN, Write(exts, exp, left, lost)
  PROVE  ReadInv'
<1> DEFINE own == OwnContent(files[w.file].blocks)
           st == Started(left)
<1>1. pc["W"] = "open" /\ UNCHANGED <<pc, r, got>>
  BY DEF Write
<1>2. w.file # 0 /\ StateSound(own, st, "none") /\ All(st) = Written(w.file) /\ st.h = w /\ st.blocks = files[w.file].blocks
  BY <1>1, WriteGives
<1>3. PICK s : /\ w' = s.h /\ files' = [files EXCEPT ![w.file].blocks = s.blocks]
              /\ StateSound(own, s, "none") /\ Recorded(st, s, rec + 1) /\ s.h.flows = st.h.flows + 1
  <2>1. PICK s : /\ w' = s.h /\ files' = [files EXCEPT ![w.file].blocks = s.blocks]
                 /\ WriteDone(own, st, s, exts, rec + 1)
    BY <1>1, WriteGives
  <2> QED
    BY <2>1 DEF WriteDone
<1> HIDE DEF st, own
<1>4. PICK bs \in Seq(Blocks) : bs = files[w.file].blocks
  BY <1>2 DEF StateSound, States
<1>5. /\ s.blocks \in Seq(Blocks) /\ s.h.blocks \in Nat /\ w.blocks \in Nat /\ w.flows \in Nat
      /\ IsFiniteSet(Places(Written(w.file)))
  BY <1>2, <1>3 DEF StateSound, States, Handles
<1>6. Kept(bs, s.blocks) /\ Len(s.blocks) - s.h.blocks = Len(bs) - w.blocks /\ s.h.file = w.file
  BY <1>2, <1>3, <1>4 DEF Recorded, Behind
<1>7. w.flows = Cardinality(Records(Written(w.file))) => s.h.flows = Cardinality(Records(All(s)))
  <2>1. IsFiniteSet(Records(Written(w.file)))
    <3>1. Records(Written(w.file)) \subseteq Places(Written(w.file))
      BY DEF Records, Of
    <3> QED
      BY <3>1, <1>5, FS_Subset
  <2>2. PICK q : q \notin Records(Written(w.file)) /\ Records(All(s)) = Records(Written(w.file)) \cup {q}
    BY <1>2, <1>3 DEF Recorded
  <2>3. Cardinality(Records(All(s))) = Cardinality(Records(Written(w.file))) + 1
    BY <2>1, <2>2, FS_AddElement
  <2> QED
    BY <2>3, <1>2, <1>3
<1>8. /\ HeaderRight(bs, Records(bs), files[w.file].header, files[w.file].flows)
      /\ HeaderRight(bs, Records(Written(w.file)), w.blocks, w.flows)
      /\ files[w.file] \in FileRecords /\ files[w.file].header \in Nat
  <2>1. w.file \in DOMAIN files /\ HeadersRight
    BY <1>2 DEF FileInv, FileType, ReadInv
  <2>2. files[w.file] \in FileRecords
    BY <2>1 DEF FileInv, FileType
  <2>3. files[w.file].header \in Nat
    BY <2>2 DEF FileRecords
  <2> QED
    BY <2>1, <2>2, <2>3, <1>2, <1>4 DEF HeadersRight
<1>9. /\ HeaderRight(s.blocks, Records(s.blocks), files[w.file].header, files[w.file].flows)
      /\ HeaderRight(s.blocks, Records(All(s)), s.h.blocks, s.h.flows)
  <2>1. PICK cs, header, flows :
          /\ cs \in Seq(Blocks) /\ header \in Nat
          /\ cs = s.blocks /\ header = files[w.file].header /\ flows = files[w.file].flows
    BY <1>5, <1>8
  <2>2. HeaderRight(cs, Records(cs), header, flows)
    BY <2>1, <1>6, <1>8, HeaderKept
  <2>3. PICK ps, qs : ps = Records(Written(w.file)) /\ qs = Records(All(s))
    OBVIOUS
  <2>4. HeaderRight(bs, ps, w.blocks, w.flows) /\ Len(cs) - s.h.blocks = Len(bs) - w.blocks
        /\ (w.flows = Cardinality(ps) => s.h.flows = Cardinality(qs))
    BY <2>1, <2>3, <1>6, <1>7, <1>8
  <2>5. HeaderRight(cs, qs, s.h.blocks, s.h.flows)
    <3>1. PICK blocks, more, old, then :
            /\ blocks \in Nat /\ more \in Nat
            /\ blocks = w.blocks /\ more = s.h.blocks /\ old = w.flows /\ then = s.h.flows
      BY <1>5
    <3>2. HeaderRight(bs, ps, blocks, old) /\ Len(cs) - more = Len(bs) - blocks
          /\ (old = Cardinality(ps) => then = Cardinality(qs))
      BY <3>1, <2>4
    <3>3. cs \in Seq(Blocks) /\ blocks \in Nat /\ more \in Nat
      BY <2>1, <3>1
    <3>4. HeaderRight(cs, qs, more, then)
      BY <3>2, <3>3, HeaderCounts
    <3> QED
      BY <3>1, <3>4
  <2> QED
    BY <2>1, <2>2, <2>3, <2>5
<1>10. PICK new : new = Refilled(files[w.file], s.blocks)
  OBVIOUS
<1>11. files' = [files EXCEPT ![w.file] = new]
  BY <1>3, <1>10 DEF Refilled
<1>12. new.blocks = s.blocks /\ new.header = files[w.file].header /\ new.flows = files[w.file].flows
  BY <1>8, <1>10, RefilledIs
<1>13. /\ w'.file = w.file
       /\ HeaderRight(new.blocks, Records(Append(new.blocks, Block(2, w'.buf))), w'.blocks, w'.flows)
  BY <1>3, <1>6, <1>9, <1>12 DEF All
<1> QED
  BY <1>1, <1>2, <1>4, <1>6, <1>9, <1>11, <1>12, <1>13, FileStored

\* lnf_close of a file opened for writing.
LEMMA CloseReads ==
  ASSUME FileInv, FileInv', ReadInv, pc \in [Threads -> Pcs], CloseWriter
  PROVE  ReadInv'
<1>1. UNCHANGED <<r, got>> /\ pc'["R"] = pc["R"] /\ w' = NoWriter /\ NoWriter.file = 0
  BY DEF CloseWriter, Threads, NoWriter
<1>2. CASE "WRITE" \notin w.flags
  <2>1. UNCHANGED files
    BY <1>2 DEF CloseWriter
  <2> QED
    BY <2>1, <1>1, WriterChanges
<1>3. CASE "WRITE" \in w.flags
  <2>1. /\ w.file # 0 /\ w.flows \in Nat /\ w.blocks \in Nat /\ w.file \in DOMAIN files
        /\ files[w.file] \in FileRecords /\ files[w.file].blocks \in Seq(Blocks)
    <3>1. w \in Handles /\ files \in Seq(FileRecords) /\ w.file # 0 /\ w.flows \in Nat /\ w.file \in DOMAIN files
          /\ files[w.file].blocks \in Seq(Blocks)
      BY CloseGives
    <3> QED
      BY <3>1 DEF Handles
  <2>2. PICK cs \in Seq(Blocks), header \in Nat :
          /\ Kept(files[w.file].blocks, cs)
          /\ Len(cs) - header = Len(files[w.file].blocks) - w.blocks
          /\ Records(cs) = Records(Written(w.file))
          /\ files' = [files EXCEPT ![w.file] = ClosedFile(files[w.file], cs, header, w.flows)]
    BY <1>3, CloseGives
  <2>3. HeaderRight(files[w.file].blocks, Records(Written(w.file)), w.blocks, w.flows)
    BY <2>1 DEF ReadInv, HeadersRight
  <2>4. HeaderRight(cs, Records(cs), header, w.flows)
    <3>1. PICK bs, ps, qs :
            /\ bs \in Seq(Blocks)
            /\ bs = files[w.file].blocks /\ ps = Records(Written(w.file)) /\ qs = Records(cs)
      BY <2>1
    <3>2. HeaderRight(bs, ps, w.blocks, w.flows) /\ Len(cs) - header = Len(bs) - w.blocks /\ qs = ps
      BY <2>2, <2>3, <3>1
    <3>3. cs \in Seq(Blocks) /\ header \in Nat /\ bs \in Seq(Blocks) /\ w.blocks \in Nat
      BY <2>1, <3>1
    <3>4. HeaderRight(cs, qs, header, w.flows)
      BY <3>2, <3>3, HeaderCounts
    <3> QED
      BY <3>1, <3>4
  <2>5. PICK new : new = ClosedFile(files[w.file], cs, header, w.flows)
    OBVIOUS
  <2>6. new.blocks = cs /\ new.header = header /\ new.flows = w.flows
    <3>1. \A g \in FileRecords, flows \in Nat :
            LET closed == ClosedFile(g, cs, header, flows)
            IN closed.blocks = cs /\ closed.header = header /\ closed.flows = flows
      BY ClosedFileIs
    <3> QED
      BY <2>1, <2>5, <3>1
  <2>7. files' = [files EXCEPT ![w.file] = new]
    BY <2>2, <2>5
  <2> QED
    BY <2>1, <2>2, <2>4, <2>6, <2>7, <1>1, FileStored
<1> QED
  BY <1>2, <1>3

\* What concerns neither the files nor the reader.
LEMMA ElsewhereReads ==
  ASSUME ReadInv, UNCHANGED <<files, w, r, got>>, pc'["R"] \in {"stat", "reopen"} => pc'["R"] = pc["R"]
  PROVE  ReadInv'
  BY ReaderQuiet DEF ReadInv, ReadType

\* Every step keeps the invariant.
LEMMA ReadStep == MutexInv /\ FileInv /\ ReadInv /\ [Next]_vars => ReadInv'
<1> SUFFICES ASSUME MutexInv, FileInv, ReadInv, [Next]_vars PROVE ReadInv'
  OBVIOUS
<1>a. pc \in [Threads -> Pcs] /\ Threads = {"W", "R"} /\ FileInv'
  BY FileStep DEF MutexInv, Threads
<1>1. CASE UNCHANGED vars
  BY <1>1, ElsewhereReads DEF vars
<1>2. CASE \E blocks \in Contents : PutInPlace(blocks)
  BY <1>2, <1>a, PutInPlaceReads
<1>3. CASE Unlink \/ (\E exts \in Exts : WriteNoMem(exts))
  BY <1>3, ElsewhereReads DEF Unlink, WriteNoMem
<1>4. CASE \E t \in Threads : FilterLock(t) \/ OpenCall(t) \/ OpenNext(t)
  <2>1. PICK t \in Threads : FilterLock(t) \/ OpenCall(t) \/ OpenNext(t)
    BY <1>4
  <2>2. UNCHANGED <<files, w, r, got>>
    BY <2>1 DEF FilterLock, OpenCall, OpenNext, OpenLock, OpenLock2, OpenInit, FilterUnlock
  <2>3. \E to \in Pcs \ {"stat", "reopen"} : pc' = [pc EXCEPT ![t] = to]
    BY <2>1 DEF FilterLock, OpenCall, OpenNext, OpenLock, OpenLock2, OpenInit, FilterUnlock, Lock, Pcs, Critical
  <2>4. pc'["R"] \in {"stat", "reopen"} => pc'["R"] = pc["R"]
    BY <2>3, <1>a
  <2> QED
    BY <2>2, <2>4, ElsewhereReads
<1>5. CASE OpenWrite
  BY <1>5, <1>a, OpenWriteReads
<1>6. CASE OpenRead \/ ReaderNext \/ CloseReader
  BY <1>6, <1>a, ReaderStep
<1>7. CASE OpenEarlyReturn \/ UseFreed
  <2>1. UNCHANGED <<files, w, r, got>> /\ pc'["R"] \notin {"stat", "reopen"}
    BY <1>7, <1>a DEF OpenEarlyReturn, UseFreed, Undefined
  <2> QED
    BY <2>1, ElsewhereReads
<1>8. CASE \E exts \in Exts, exp \in Exporters \cup {"none"}, left \in Leftovers, lost \in BOOLEAN :
             Write(exts, exp, left, lost)
  BY <1>8, <1>a, WriteReads
<1>9. CASE CloseWriter
  BY <1>9, <1>a, CloseReads
<1> QED
  BY <1>1, <1>2, <1>3, <1>4, <1>5, <1>6, <1>7, <1>8, <1>9, <1>a DEF Next, Step, WriterOpen, ReaderOpen

\* At the beginning there is nothing to read.
LEMMA ReadInit == Init => ReadInv
<1> SUFFICES ASSUME Init PROVE ReadInv
  OBVIOUS
<1>1. Reader(NoReader) /\ NoReader.file = 0 /\ NoReader.remains = 0 /\ NoReader.blocks = 0 /\ NoWriter.file = 0
  BY DEF Reader, NoReader, NoWriter
<1>2. Len(files) = 0 /\ DOMAIN files = {} /\ pc["R"] = "closed"
  BY DEF Init, Threads
<1>3. ReadType
  BY <1>1, <1>2, NoAnswers DEF Init, ReadType
<1> QED
  BY <1>1, <1>2, <1>3 DEF Init, ReadInv, HeadersRight

-----------------------------------------------------------------------------
(***************************************************************************)
(* That a reader reopens its file only if it was replaced or the inode in  *)
(* the handle misled it                                                    *)
(***************************************************************************)

\* A reader that is not misled has the inode of its file or none while that
\* file is under the path.
OnceInv ==
  r.file # 0 =>
    /\ r.told = 0 \/ r.misled
    /\ path = r.file /\ ~ r.misled /\ r.inode # 0 => r.inode = files[r.file].ino
    /\ path = r.file /\ pc["R"] = "reopen" => r.misled

\* It stays so while the reader keeps its file: a file that is no longer under
\* the path does not come back.
LEMMA OnceKept ==
  ASSUME OnceInv, r'.file = r.file, r'.told = r.told, r'.misled = r.misled, r'.inode = r.inode,
         pc'["R"] = "reopen" => pc["R"] = "reopen",
         r.file # 0 => path' \in {path, 0, Len(files) + 1} /\ files'[r.file].ino = files[r.file].ino,
         r.file \in 0 .. Len(files), Len(files) \in Nat
  PROVE  OnceInv'
<1>1. r.file # 0 /\ path' = r.file => path = r.file
  OBVIOUS
<1> QED
  BY <1>1 DEF OnceInv

\* lnf_open and lnf_close forget what was known.
LEMMA OnceOpened ==
  ASSUME OpenRead
  PROVE  OnceInv'
<1>1. PICK flags \in ReadFlags, inode \in Unset : r' = OpenedReader(path, flags, inode)
  BY DEF OpenRead
<1>2. CASE path = 0
  BY <1>1, <1>2 DEF OpenedReader, NoReader, OnceInv
<1>3. CASE path # 0
  <2>1. r'.told = 0 /\ r'.misled = (inode # 0) /\ r'.inode = inode
    BY <1>1, <1>3 DEF OpenedReader, NoReader
  <2>2. pc'["R"] # "reopen"
    BY DEF OpenRead, Opened
  <2> QED
    BY <2>1, <2>2 DEF OnceInv
<1> QED
  BY <1>2, <1>3

\* The file under the path is the one that is open only for a reader that was
\* misled.
LEMMA OnceReopened ==
  ASSUME pc \in [Threads -> Pcs], ReadInv, OnceInv, Reopen
  PROVE  OnceInv'
<1>1. Reader(r) /\ pc["R"] = "reopen" /\ r' = Reopened(path) /\ pc'["R"] # "reopen" /\ UNCHANGED <<files, path>>
  BY DEF Reopen, ReadInv, ReadType, Threads
<1>2. CASE path = 0
  <2>1. r'.file = 0
    BY <1>1, <1>2 DEF Reopened, Reader
  <2> QED
    BY <2>1 DEF OnceInv
<1>3. CASE path # 0
  <2>1. /\ r'.file = path /\ r'.inode = r.seen
        /\ r'.told = IF path = r.file THEN r.told + Len(got) ELSE 0
        /\ r'.misled = ((r.misled /\ path = r.file) \/ r.seen # files[path].ino)
    BY <1>1, <1>3 DEF Reopened, Reader
  <2>2. CASE path = r.file
    BY <2>1, <2>2, <1>1, <1>3 DEF OnceInv
  <2>3. CASE path # r.file
    BY <2>1, <2>3, <1>1 DEF OnceInv
  <2> QED
    BY <2>2, <2>3
<1> QED
  BY <1>2, <1>3

\* An inode other than that of the file that is open is not under its path.
LEMMA OnceStat ==
  ASSUME pc \in [Threads -> Pcs], ReadInv, OnceInv, Stat
  PROVE  OnceInv'
<1>1. Reader(r) /\ UNCHANGED <<files, path>>
  BY DEF Stat, ReadInv, ReadType
<1>2. CASE r.inode # 0 /\ r.inode # files[path].ino
  <2>1. r'.file = r.file /\ r'.told = r.told /\ r'.misled = r.misled /\ r'.inode = r.inode
    BY <1>1, <1>2 DEF Stat, Reader
  <2> QED
    BY <2>1, <1>1, <1>2 DEF OnceInv
<1>3. CASE ~ (r.inode # 0 /\ r.inode # files[path].ino)
  <2>1. /\ r'.file = r.file /\ r'.told = r.told /\ r'.misled = r.misled /\ r'.inode = files[path].ino
        /\ pc'["R"] # "reopen"
    BY <1>1, <1>3 DEF Stat, Reader, Threads
  <2> QED
    BY <2>1, <1>1 DEF OnceInv
<1> QED
  BY <1>2, <1>3

\* A file that is added leaves the others as they are, and a file that is
\* written to keeps its inode.
LEMMA InodesAdded ==
  ASSUME FileInv, NEW new, files' = Append(files, new), NEW f \in DOMAIN files
  PROVE  files'[f].ino = files[f].ino
<1>1. files \in Seq(FileRecords)
  BY DEF FileInv, FileType
<1>2. files'[f] = files[f]
  BY <1>1
<1> QED
  BY <1>2

LEMMA InodesStored ==
  ASSUME FileInv, NEW g \in DOMAIN files, NEW blocks, NEW header, NEW flows,
         \/ files' = [files EXCEPT ![g].blocks = blocks]
         \/ files' = [files EXCEPT ![g].blocks = blocks, ![g].header = header, ![g].flows = flows]
  PROVE  \A f \in DOMAIN files : files'[f].ino = files[f].ino
<1> SUFFICES ASSUME NEW f \in DOMAIN files PROVE files'[f].ino = files[f].ino
  OBVIOUS
<1>1. files[f] \in FileRecords /\ files[g] \in FileRecords
  <2>1. files \in Seq(FileRecords)
    BY DEF FileInv, FileType
  <2> QED
    BY <2>1
<1>2. \/ files' = [files EXCEPT ![g] = [files[g] EXCEPT !.blocks = blocks]]
      \/ files' = [files EXCEPT ![g] = [files[g] EXCEPT !.blocks = blocks, !.header = header, !.flows = flows]]
  OBVIOUS
<1>3. CASE f # g
  BY <1>2, <1>3
<1>4. CASE f = g
  <2>1. \/ files'[f] = [files[f] EXCEPT !.blocks = blocks]
        \/ files'[f] = [files[f] EXCEPT !.blocks = blocks, !.header = header, !.flows = flows]
    BY <1>2, <1>4
  <2> QED
    BY <1>1, <2>1 DEF FileRecords
<1> QED
  BY <1>3, <1>4

\* Every step keeps the invariant.
LEMMA OnceStep == MutexInv /\ FileInv /\ ReadInv /\ OnceInv /\ [Next]_vars => OnceInv'
<1> SUFFICES ASSUME MutexInv, FileInv, ReadInv, OnceInv, [Next]_vars PROVE OnceInv'
  OBVIOUS
<1>a. /\ pc \in [Threads -> Pcs] /\ Threads = {"W", "R"}
      /\ r.file \in 0 .. Len(files) /\ Len(files) \in Nat /\ DOMAIN files = 1 .. Len(files)
      /\ w.file \in 0 .. Len(files)
  BY DEF MutexInv, Threads, FileInv, FileType, ReadInv, ReadType
<1>b. ASSUME UNCHANGED <<files, r>>, path' \in {path, 0}, pc'["R"] = "reopen" => pc["R"] = "reopen"
      PROVE  OnceInv'
  BY <1>a, <1>b, OnceKept
<1>c. ASSUME UNCHANGED r, pc'["R"] = pc["R"], path' \in {path, Len(files) + 1},
             \A f \in DOMAIN files : files'[f].ino = files[f].ino
      PROVE  OnceInv'
  BY <1>a, <1>c, OnceKept
<1>1. CASE UNCHANGED vars
  BY <1>1, <1>b DEF vars
<1>2. CASE \E blocks \in Contents : PutInPlace(blocks)
  <2>1. PICK new : files' = Append(files, new)
    BY <1>2 DEF PutInPlace
  <2>2. path' = Len(files) + 1 /\ UNCHANGED <<pc, r>>
    BY <2>1, <1>2, <1>a DEF PutInPlace, FileInv, FileType
  <2> QED
    BY <2>1, <2>2, <1>c, InodesAdded
<1>3. CASE Unlink \/ (\E exts \in Exts : WriteNoMem(exts))
  BY <1>3, <1>b DEF Unlink, WriteNoMem
<1>4. CASE \E t \in Threads : FilterLock(t) \/ OpenCall(t) \/ OpenNext(t)
  <2>1. PICK t \in Threads : FilterLock(t) \/ OpenCall(t) \/ OpenNext(t)
    BY <1>4
  <2>2. UNCHANGED <<files, path, r>>
    BY <2>1 DEF FilterLock, OpenCall, OpenNext, OpenLock, OpenLock2, OpenInit, FilterUnlock
  <2>3. \E to \in Pcs \ {"stat", "reopen"} : pc' = [pc EXCEPT ![t] = to]
    BY <2>1 DEF FilterLock, OpenCall, OpenNext, OpenLock, OpenLock2, OpenInit, FilterUnlock, Lock, Pcs, Critical
  <2> QED
    BY <2>2, <2>3, <1>a, <1>b
<1>5. CASE OpenWrite
  <2>1. UNCHANGED r /\ pc'["R"] = pc["R"]
    BY <1>5, <1>a DEF OpenWrite, OpenRefused, OpenNew, OpenAppend, Opened
  <2>2. CASE UNCHANGED <<files, path>>
    BY <2>1, <2>2, <1>b
  <2>3. CASE \E flags \in WriteFlags : OpenNew(flags)
    <3>1. PICK new : files' = Append(files, new)
      BY <2>3 DEF OpenNew
    <3>2. path' = Len(files) + 1
      BY <3>1, <2>3, <1>a DEF OpenNew, FileInv, FileType
    <3> QED
      BY <2>1, <3>1, <3>2, <1>c, InodesAdded
  <2> QED
    BY <2>2, <2>3, <1>5 DEF OpenWrite, OpenRefused, OpenAppend
<1>6. CASE OpenRead
  BY <1>6, OnceOpened
<1>7. CASE CloseReader
  <2>1. r'.file = 0
    BY <1>7 DEF CloseReader, NoReader
  <2> QED
    BY <2>1 DEF OnceInv
<1>8. CASE ReadCall \/ ReadEof \/ StatGone
  <2>1. UNCHANGED <<files, path, r>> /\ pc'["R"] # "reopen"
    BY <1>8, <1>a DEF ReadCall, ReadEof, StatGone
  <2> QED
    BY <2>1, <1>b
<1>9. CASE LoadBlock \/ ReadEntry
  <2>1. Steady(r, r') /\ UNCHANGED <<files, path>>
    BY <1>9, <1>a, LoadStep, EntryStep DEF LoadBlock, ReadEntry
  <2>2. UNCHANGED pc \/ pc' = [pc EXCEPT !["R"] = "open"]
    BY <1>9 DEF LoadBlock, ReadEntry, Again, Return
  <2> QED
    BY <2>1, <2>2, <1>a, OnceKept DEF Steady, SameFile
<1>10. CASE LoadEmptyBlock \/ UseFreed \/ OpenEarlyReturn
  <2>1. UNCHANGED <<files, path, r>> /\ pc'["R"] # "reopen"
    BY <1>10, <1>a DEF LoadEmptyBlock, UseFreed, OpenEarlyReturn, Undefined
  <2> QED
    BY <2>1, <1>b
<1>11. CASE Stat \/ Reopen
  BY <1>11, <1>a, OnceStat, OnceReopened
<1>12. CASE \E exts \in Exts, exp \in Exporters \cup {"none"}, left \in Leftovers, lost \in BOOLEAN :
             Write(exts, exp, left, lost)
  <2>1. UNCHANGED <<path, pc, r>> /\ pc["W"] = "open"
    BY <1>12 DEF Write
  <2>2. PICK exts, exp, left, lost : Write(exts, exp, left, lost)
    BY <1>12
  <2>3. PICK blocks : files' = [files EXCEPT ![w.file].blocks = blocks]
    BY <2>2 DEF Write, Stored
  <2>4. w.file \in DOMAIN files
    BY <2>1, <1>a DEF FileInv, FileType, WithFile
  <2>5. \A f \in DOMAIN files : files'[f].ino = files[f].ino
    BY <2>3, <2>4, InodesStored
  <2> QED
    BY <2>1, <2>5, <1>c
<1>13. CASE CloseWriter
  <2>1. UNCHANGED <<path, r>> /\ pc["W"] = "open" /\ pc'["R"] = pc["R"]
    BY <1>13, <1>a DEF CloseWriter
  <2>2. w.file \in DOMAIN files
    BY <2>1, <1>a DEF FileInv, FileType, WithFile
  <2>3. PICK done : \/ files' = files
                    \/ files' = [files EXCEPT ![w.file].blocks = done.blocks, ![w.file].header = done.h.blocks,
                                               ![w.file].flows = w.flows]
    BY <1>13 DEF CloseWriter
  <2>4. PICK blocks, header, flows : blocks = done.blocks /\ header = done.h.blocks /\ flows = w.flows
    OBVIOUS
  <2>5. \/ files' = files
        \/ files' = [files EXCEPT ![w.file].blocks = blocks, ![w.file].header = header, ![w.file].flows = flows]
    BY <2>3, <2>4
  <2>6. \A f \in DOMAIN files : files'[f].ino = files[f].ino
    <3>1. CASE files' = files
      BY <3>1
    <3>2. CASE files' = [files EXCEPT ![w.file].blocks = blocks, ![w.file].header = header, ![w.file].flows = flows]
      BY <2>2, <3>2, InodesStored
    <3> QED
      BY <2>5, <3>1, <3>2
  <2> QED
    BY <2>1, <2>6, <1>c
<1> QED
  BY <1>a, <1>1, <1>2, <1>3, <1>4, <1>5, <1>6, <1>7, <1>8, <1>9, <1>10, <1>11, <1>12, <1>13
    DEF Next, Step, WriterOpen, ReaderOpen, ReaderNext

-----------------------------------------------------------------------------
(***************************************************************************)
(* What a reader gets                                                      *)
(***************************************************************************)

\* What is owed for the blocks up to one, and the earlier of some places.
OwedTo(bs, pos) == {p \in Owed(bs) : p[1] <= pos}
EarlierIn(ps, p) == {q \in ps : Before(q, p)}

\* What is owed up to the reader's block, in its order.
LEMMA OwedUpTo ==
  ASSUME NEW bs \in Seq(Blocks), NEW pos \in Nat, NEW c, {c[1], c[2]} \subseteq Nat,
         \/ c[1] = pos + 1 /\ c[2] = 0
         \/ c[1] = pos
  PROVE  /\ OwedBefore(bs, c) \subseteq OwedTo(bs, pos) /\ IsFiniteSet(OwedTo(bs, pos))
         /\ c[1] # pos => OwedBefore(bs, c) = OwedTo(bs, pos)
         /\ \A p \in OwedTo(bs, pos) : EarlierIn(OwedTo(bs, pos), p) = OwedBefore(bs, p)
         /\ \A p \in OwedTo(bs, pos) : p \notin OwedBefore(bs, c) => OwedBefore(bs, c) \subseteq OwedBefore(bs, p)
<1> DEFINE owed == {p \in Owed(bs) : p[1] <= pos}
<1>1. \A p \in Owed(bs) : p = <<p[1], p[2]>> /\ p[1] \in Nat /\ p[2] \in Nat
  BY PlacesAre, BlocksAre
<1>2. OwedBefore(bs, c) \subseteq owed
  BY <1>1 DEF OwedBefore, Before
<1>3. IsFiniteSet(owed)
  BY PlacesAre, FS_Subset
<1>4. c[1] # pos => OwedBefore(bs, c) = owed
  BY <1>1 DEF OwedBefore, Before
<1>5. \A p \in owed : {q \in owed : Before(q, p)} = OwedBefore(bs, p)
  BY <1>1 DEF OwedBefore, Before
<1>6. \A p \in owed : p \notin OwedBefore(bs, c) => OwedBefore(bs, c) \subseteq OwedBefore(bs, p)
  BY <1>1 DEF OwedBefore, Before
<1> QED
  BY <1>2, <1>3, <1>4, <1>5, <1>6 DEF OwedTo, EarlierIn

\* The invariant says what the property says.
LEMMA ReadInvIsFaithful == FileInv /\ ReadInv /\ OnceInv => ReadsFaithful
<1> SUFFICES ASSUME FileInv, ReadInv, OnceInv, r.file # 0 PROVE ReadsFaithful
  BY DEF ReadsFaithful
<1>1. PICK bs \in Seq(Blocks) : bs = files[r.file].blocks
  BY ReadersFile
<1>2. /\ ReadSound(bs, r, got) /\ r.remains \in Nat
  BY <1>1 DEF ReadInv, ReadType
<1>3. PICK pos \in Nat : pos = r.pos
  BY <1>2, BlocksAre DEF ReadSound
<1>4. PICK c : c = Cursor(r)
  OBVIOUS
<1>5. /\ {c[1], c[2]} \subseteq Nat
      /\ IF r.remains = 0 THEN c[1] = pos + 1 /\ c[2] = 0 ELSE c[1] = pos
  <2>1. CASE r.remains = 0
    BY <2>1, <1>3, <1>4 DEF Cursor
  <2>2. CASE r.remains # 0
    <3>1. InBlock(bs, r) /\ r.remains > 0 /\ pos \in 0 .. Len(bs)
      BY <2>2, <1>2, <1>3 DEF ReadSound
    <3>2. pos \in DOMAIN bs /\ r.at \in DOMAIN bs[pos].entries
      BY <3>1, <1>3, BlocksAre DEF InBlock
    <3>3. r.at \in Nat
      BY <3>2, BlocksAre
    <3> QED
      BY <2>2, <3>1, <3>3, <1>3, <1>4 DEF Cursor
  <2> QED
    BY <2>1, <2>2
<1> DEFINE owed == OwedTo(bs, r.pos)
<1>6. /\ OwedBefore(bs, c) \subseteq owed /\ IsFiniteSet(owed)
      /\ r.remains = 0 => OwedBefore(bs, c) = owed
      /\ \A p \in owed : EarlierIn(owed, p) = OwedBefore(bs, p)
      /\ \A p \in owed : p \notin OwedBefore(bs, c) => OwedBefore(bs, c) \subseteq OwedBefore(bs, p)
  <2>1. (c[1] = pos + 1 /\ c[2] = 0) \/ c[1] = pos
    BY <1>5
  <2>2. r.remains = 0 => c[1] # pos
    BY <1>5
  <2> QED
    BY <2>1, <2>2, <1>3, <1>5, OwedUpTo
<1>7. Len(got) = Cardinality(OwedBefore(bs, c))
      /\ \A p \in OwedBefore(bs, c) : RightAnswer(got[Cardinality(OwedBefore(bs, p)) + 1], bs, p, Looping)
  BY <1>2, <1>4 DEF ReadSound, Answered, Loops, Looping
<1>8. Cardinality(OwedBefore(bs, c)) \in Nat /\ Cardinality(OwedBefore(bs, c)) <= Cardinality(owed)
  <2> HIDE DEF owed
  <2> QED
    BY <1>6, FS_Subset, FS_CardinalityType
<1>9. ASSUME NEW p \in owed,
             Cardinality(EarlierIn(owed, p)) + 1 <= Len(got)
      PROVE  RightAnswer(got[Cardinality(EarlierIn(owed, p)) + 1], bs, p, Looping)
  <2>1. EarlierIn(owed, p) = OwedBefore(bs, p)
    BY <1>6
  <2>2. IsFiniteSet(OwedBefore(bs, p))
    <3>1. OwedBefore(bs, p) \subseteq owed
      BY <2>1 DEF EarlierIn
    <3> HIDE DEF owed
    <3> QED
      BY <3>1, <1>6, FS_Subset
  <2>3. p \in OwedBefore(bs, c)
    <3> SUFFICES ASSUME p \notin OwedBefore(bs, c) PROVE FALSE
      OBVIOUS
    <3>1. OwedBefore(bs, c) \subseteq OwedBefore(bs, p)
      BY <1>6
    <3>2. /\ Cardinality(OwedBefore(bs, p)) \in Nat
          /\ Cardinality(OwedBefore(bs, c)) <= Cardinality(OwedBefore(bs, p))
      BY <3>1, <2>2, FS_Subset, FS_CardinalityType
    <3> QED
      BY <3>2, <2>1, <1>7, <1>8, <1>9
  <2> QED
    BY <2>1, <2>3, <1>7
<1>10. InfoAgrees
  <2>1. lnf_info(r, "LNF_INFO_FLOWS", 8).value = r.flows
    BY DEF lnf_info, InfoValue, InfoNeedsFile
  <2>2. HeaderRight(bs, Records(bs), r.blocks, r.flows)
    BY <1>2 DEF ReadSound
  <2> QED
    BY <2>1, <2>2, <1>1 DEF InfoAgrees, HeaderRight
<1>11. r.remains = 0 => Len(got) = Cardinality(owed)
  BY <1>6, <1>7
<1> HIDE DEF owed
<1>12. Len(got) <= Cardinality(owed)
  BY <1>7, <1>8
<1>13. r.told = 0 \/ r.misled
  BY DEF OnceInv
<1> QED
  BY <1>1, <1>9, <1>10, <1>11, <1>12, <1>13 DEF ReadsFaithful, owed, OwedTo, EarlierIn

\* Whatever a writer does to the file and other programs to its name, a reader gets
\* the records of the file it has opened, in their order and with the extensions
\* of the map that is theirs, an error for what cannot be read, and at the end of
\* a block all there is up to there; each of them once, for the file it has open
\* is not opened again unless the inode in the handle was noted of no file or of
\* another one; and lnf_info counts the flows of a file whose header is up to
\* date.  Nothing is said once a data block of no entries was read, which ends
\* the behaviour.  See ReadsFaithful.
THEOREM ReadsRight == Spec => []ReadsFaithful
<1>1. Init => MutexInv /\ FileInv /\ ReadInv /\ OnceInv
  <2>1. Init => OnceInv
    BY DEF Init, NoReader, OnceInv
  <2> QED
    BY <2>1, MutexInit, FileInit, ReadInit
<1>2. (MutexInv /\ FileInv /\ ReadInv /\ OnceInv) /\ [Next]_vars
        => (MutexInv /\ FileInv /\ ReadInv /\ OnceInv)'
  BY MutexStep, FileStep, ReadStep, OnceStep
<1>3. MutexInv /\ FileInv /\ ReadInv /\ OnceInv => ReadsFaithful
  BY ReadInvIsFaithful
<1> QED
  BY <1>1, <1>2, <1>3, PTL DEF Spec
=============================================================================
