------------------------------- MODULE RecRaw -------------------------------
(***************************************************************************)
(* Records in memory and in transit (src/libnf.c): lnf_rec_init and        *)
(* lnf_rec_free, set, clear and copy, and the raw form, a list of entries  *)
(* (field, size, bytes) that lnf_rec_get_raw makes of one record and       *)
(* lnf_rec_set_raw makes another of, e.g. on the other side of a ring.     *)
(***************************************************************************)
EXTENDS Fields, FiniteSets, FiniteSetsExt

CONSTANTS
  SetFields,  \* the fields the program sets, one part or several
  Values,     \* the values it sets them to
  FileExts,   \* the sets of extension bits of records in a file
  BufSizes,   \* sizes of the buffers for the raw form
  MaxSets     \* bound on the number of fields set

ASSUME RecRawAssumption ==
  /\ SetFields \subseteq Fields
  /\ Values \subseteq [lo : Nat, hi : Nat]
  /\ MaxSets \in Nat
  /\ BufSizes \subseteq Nat

VARIABLES
  src,     \* the record the program works on
  dst,     \* the record at the other end
  raw,     \* the buffer: what get_raw answered, its entries, bytes used
  sent,    \* the record as it was when dst was made from it
  how,     \* how dst was made
  sets,    \* fields set so far
  pieces   \* of src: what lnf_rec_init has obtained so far, and what came of it

rawvars == <<src, dst, raw, sent, how, sets, pieces>>
-----------------------------------------------------------------------------
(***************************************************************************)
(* lnf_rec_init obtains its memory piece by piece and calls lnf_rec_free   *)
(* when one is refused.  The exporter and the sampler are asked for        *)
(* together; field_data stands for the array and its elements.             *)
(***************************************************************************)

Order == <<"rec", "master_record", "extensions_arr", "exporter", "sampler", "bits", "field_data">>

NoPieces == [got |-> {}, next |-> 1, state |-> "init", freed |-> {}]

\* What may be refused and is still asked for nothing more: not the exporter
FailsAt(i) == Order[i] # "exporter"

\* mutant of RecFree: the sampler is forgotten
RecFreeNoSampler(got) ==
  (got \ {"sampler"}) \cup (IF "extensions_arr" \in got /\ "bits" \notin got THEN {"unset bits"} ELSE {})

\* lnf_rec_free: bit_array_release frees the bits through extensions_arr,
\* whatever is in there.
RecFree(got) ==
  got \cup (IF "extensions_arr" \in got /\ "bits" \notin got THEN {"unset bits"} ELSE {})

\* bit_array_init leaves a null pointer when it is refused the bits.
FreeOnFailure(i, got) == RecFree(got) \ (IF Order[i] = "bits" THEN {"unset bits"} ELSE {})

RecInitStep ==
  /\ pieces.state = "init"
  /\ LET i == pieces.next
         got == pieces.got \cup {Order[i]} IN
     pieces' = [pieces EXCEPT !.got = got, !.next = i + 1,
                              !.state = IF i = Len(Order) THEN "ready" ELSE "init"]
  /\ UNCHANGED <<src, dst, raw, sent, how, sets>>

RecInitFail ==
  /\ pieces.state = "init"
  /\ FailsAt(pieces.next)
  /\ \E got \in IF Order[pieces.next] = "sampler"
                THEN {pieces.got, (pieces.got \ {"exporter"}) \cup {"sampler"}, pieces.got \ {"exporter"}}
                ELSE {pieces.got} :
       pieces' = [pieces EXCEPT !.got = got, !.state = "failed", !.freed = FreeOnFailure(pieces.next, got)]
  /\ UNCHANGED <<src, dst, raw, sent, how, sets>>

\* lnf_rec_clear
RecClear(rec) == EmptyRec
-----------------------------------------------------------------------------
(***************************************************************************)
(* The raw form                                                            *)
(***************************************************************************)

RawHeader == 4       \* lnf_rec_raw_t
WideHeader == 8      \* mutant of EntryHeader: an int each for field and size
EntryHeader == 4     \* lnf_rec_raw_entry_t

FieldSize(f) == SizeOf[lnf_fields_def[f].type]

Readable(rec) == {f \in Fields : FOk(rec, f)}

RawSize(rec) ==
  RawHeader + FoldSet(LAMBDA f, n : n + EntryHeader + FieldSize(f), 0, Readable(rec))

Entry(rec, f) == [field |-> f, data |-> FGet(rec, f)]

NoRaw == [status |-> "none", entries |-> <<>>, size |-> 0]

\* The fields that are set, in the order of their numbers
WithField(rec, entries, f) == IF FOk(rec, f) THEN Append(entries, Entry(rec, f)) ELSE entries

EntriesOf(rec) ==
  LET walk[i \in 0 .. Len(FieldOrder)] ==
        IF i = 0 THEN <<>> ELSE WithField(rec, walk[i - 1], FieldOrder[i])
  IN walk[Len(FieldOrder)]

\* lnf_rec_get_raw.  A buffer that is too small is written behind before its
\* size is tested; here such a call only fails.
GetRaw(rec, size) ==
  IF RawSize(rec) > size THEN [NoRaw EXCEPT !.status = "LNF_ERR_NOMEM"]
  ELSE [status |-> "LNF_OK", size |-> RawSize(rec), entries |-> EntriesOf(rec)]

\* lnf_rec_set_raw copies every entry to the same buffer: of an entry of one
\* or two bytes the rest is that of the entry before.  The setter of the
\* field takes as many bytes as it needs, which for PAIR_IF are more.
Narrow(f) == FieldSize(f) <= 2

\* mutant of Overlay: the buffer keeps the upper bytes of the entry before
OverlayShort(buf, e) == [e.data EXCEPT ![1].hi = buf[1].hi]
Overlay(buf, e) == IF Narrow(e.field) THEN [e.data EXCEPT ![1].hi = buf[1].hi] ELSE e.data
Taken(func, buf) == IF func \in Slots /\ Narrow(func) THEN [buf EXCEPT ![1].hi = 0] ELSE buf

SetEntry(rec, f, buf) ==
  IF lnf_fields_def[f].func \in CalcFuncs THEN rec
  ELSE FSet(rec, f, Taken(lnf_fields_def[f].func, buf))

TakeEntry(at, e) ==
  LET buf == IF lnf_fields_def[e.field].func \in CalcFuncs THEN <<Zero>> ELSE Overlay(at.buf, e)
  IN [rec |-> SetEntry(at.rec, e.field, buf), buf |-> buf]

SetRaw(rec, entries) ==
  LET walk[i \in 0 .. Len(entries)] ==
        IF i = 0 THEN [rec |-> RecClear(rec), buf |-> <<Zero>>] ELSE TakeEntry(walk[i - 1], entries[i])
  IN walk[Len(entries)].rec
-----------------------------------------------------------------------------
(***************************************************************************)
(* Actions                                                                 *)
(***************************************************************************)

\* A record a program has used before: lnf_rec_set_raw and lnf_rec_copy must
\* not leave anything of it.
Leftover == FSet(FSet(FSet(EmptyRec, "INGRESS_ACE_ID", <<[lo |-> 8, hi |-> 8]>>),
                      "SAMPLER_ID", <<[lo |-> 8, hi |-> 8]>>), "SRCADDR", <<[lo |-> 8, hi |-> 8]>>)

RawInit ==
  /\ src = EmptyRec /\ dst = Leftover /\ sent = EmptyRec /\ how = "leftover"
  /\ raw = NoRaw /\ sets = 0 /\ pieces = NoPieces

Ready == pieces.state = "ready"

Fit(f, v) == IF Narrow(f) THEN [v EXCEPT !.hi = 0] ELSE v
Inputs(f) == IF f = "INET_FAMILY" THEN {AF_INET, AF_INET6} ELSE {Fit(f, v) : v \in Values}

RecFset(f, v) ==
  /\ Ready /\ sets < MaxSets
  /\ src' = FSet(src, f, [i \in DOMAIN Parts(f) |-> Fit(Parts(f)[i], v)])
  /\ sets' = sets + 1
  /\ UNCHANGED <<dst, raw, sent, how, pieces>>

\* lnf_read: a record of a file, with the extensions of its map
MapBits(exts) == exts \cup {"map_ref"}

RecRead(exts, v) ==
  /\ Ready /\ sets < MaxSets
  /\ LET there == {s \in Slots : Access[s].bits = {} \/ Access[s].bits \cap exts # {}} IN
     src' = [val |-> [s \in Slots |-> IF s \in there THEN Fit(s, v) ELSE RecClear(src).val[s]],
             bits |-> MapBits(exts),
             v6 |-> IF V4Compat(v) THEN {} ELSE UNION {Access[s].flag : s \in there}]
  /\ sets' = sets + 1
  /\ UNCHANGED <<dst, raw, sent, how, pieces>>

RecGetRaw(size) ==
  /\ Ready
  /\ raw' = GetRaw(src, size)
  /\ sent' = src
  /\ how' = "leftover" /\ dst' = Leftover
  /\ UNCHANGED <<src, sets, pieces>>

\* A buffer that was cut short is refused before dst is touched.
RecSetRaw(size) ==
  /\ raw.status = "LNF_OK"
  /\ how = "leftover"
  /\ IF raw.size > size THEN how' = "refused" /\ UNCHANGED dst
     ELSE how' = "raw" /\ dst' = SetRaw(dst, raw.entries)
  /\ UNCHANGED <<src, raw, sent, sets, pieces>>

\* lnf_rec_copy: the exporter's version is not copied.
CopyOf(from) == [from EXCEPT !.val["EXPORTER_VERSION"] = EmptyRec.val["EXPORTER_VERSION"]]

RecCopy ==
  /\ Ready
  /\ dst' = CopyOf(src) /\ sent' = src
  /\ how' = "copy"
  /\ raw' = NoRaw
  /\ UNCHANGED <<src, sets, pieces>>

RawNext ==
  \/ RecInitStep \/ RecInitFail
  \/ \E f \in SetFields : \E v \in Inputs(f) : RecFset(f, v)
  \/ \E exts \in FileExts, v \in Values : RecRead(exts, v)
  \/ \E size \in BufSizes : RecGetRaw(size)
  \/ \E size \in BufSizes : RecSetRaw(size)
  \/ RecCopy

\* The program sets fields and reads records of files; its heaps come with Records.
RawSpec == RawInit /\ [][RawNext]_rawvars
-----------------------------------------------------------------------------
(***************************************************************************)
(* Properties                                                              *)
(***************************************************************************)

\* lnf_rec_init that fails gives back all it got, and the memory the bit array
\* never had is freed exactly when the exporter or the sampler was refused.
InitReleases ==
  pieces.state = "failed" =>
    /\ pieces.got \subseteq pieces.freed
    /\ "unset bits" \in pieces.freed <=> "extensions_arr" \in pieces.got /\ Order[pieces.next] = "sampler"

Same(a, b, f) == FOk(b, f) /\ FGet(b, f) = FGet(a, f)

\* What goes through the raw form differently: the family is that of the last
\* address set, the interface's upper bytes are those of what comes before
\* PAIR_IF in the buffer.
Altered == {f \in Fields : lnf_fields_def[f].func \in {"INET_FAMILY", "INPUT"}}

\* Every other field that is set in the record arrives, with its value.
FieldsArrive == \A f \in Readable(sent) \ Altered : Same(sent, dst, f)

\* The record is one of the family its source address looks like, whatever
\* the family of the record was.
FamilyFollowsSource == FGet(dst, "INET_FAMILY") = <<AF_INET>> <=> V4Compat(sent.val["SRCADDR"])

\* A copy answers every question as the original does, but for the exporter's
\* version.
CopyFaithful == /\ Readable(dst) = Readable(sent)
                /\ \A f \in Readable(sent) \ {"EXPORTER_VERSION"} : Same(sent, dst, f)

\* Nothing arrives that was not sent, least of all what dst held before: only
\* AGGR_FLOWS, which the basic record always carries, and the failures that go
\* with an exporter become set.
NothingInvented == Readable(dst) \ Readable(sent) \subseteq {"AGGR_FLOWS", "SEQUENCE_FAILURES"}

\* What was set in a record arrives, and nothing else, whichever way it goes,
\* whatever dst held before and in whatever order fields that share bits or
\* flags were set.
Arrives ==
  /\ how = "raw" => FieldsArrive /\ FamilyFollowsSource /\ NothingInvented
  /\ how = "copy" => CopyFaithful

\* The buffer of the recommended size, which is that of a ring's entries, is
\* enough for every record without a user name in which the program itself set
\* neither exporter nor sampler: that is, for every record of a file that has
\* no user name.
RecommendedSize ==
  raw.status = "LNF_ERR_NOMEM" =>
    FOk(sent, "USERNAME") \/ sent.bits \cap {"LNF_REC_EXPORTER", "LNF_REC_SAMPLER"} # {}

\* lnf_rec_set_raw is the opposite of lnf_rec_get_raw: the input interface
\* that is set in a record arrives.
InterfaceSurvives == how = "raw" /\ FOk(sent, "INPUT") => Same(sent, dst, "INPUT")
=============================================================================
