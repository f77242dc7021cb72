------------------------------ MODULE FlowTable ------------------------------
(***************************************************************************)
(* What a memory heap promises, whatever it is built from: it holds a bag  *)
(* of rows.  In aggregation mode a row that is put in is added to the row  *)
(* with the same key, in list mode it stays a row of its own.              *)
(***************************************************************************)
EXTENDS Integers, Sequences, BagsExt

CONSTANTS
  FlowRecs,     \* the records that may be written: [k1, k2, bytes, pkts]
  RawRecs       \* the same for rows taken over from another heap

VARIABLES
  aggregating,  \* FALSE in list mode
  pairing,      \* a record counts for "one" key, for "both", or once "ifequal"
  flows,        \* the rows, a bag of [key, bytes, pkts]
  answer        \* of the last write

vars == <<aggregating, pairing, flows, answer>>

\* the empty bag
NoFlows == [row \in {} |-> 0]

Row(key, rec) == [key |-> key, bytes |-> rec.bytes, pkts |-> rec.pkts]

Put(bag, new) ==
  LET same == {r \in DOMAIN bag : r.key = new.key} IN
  IF aggregating /\ same # {}
  THEN LET old == CHOOSE r \in same : TRUE IN
       BagAdd(BagRemove(bag, old),
              [new EXCEPT !.bytes = @ + old.bytes, !.pkts = @ + old.pkts])
  ELSE BagAdd(bag, new)

\* the first n of one or two keys
PutKeys(bag, keys, n, rec) ==
  CASE n = 0 -> bag
    [] n = 1 -> Put(bag, Row(keys[1], rec))
    [] n = 2 -> Put(Put(bag, Row(keys[1], rec)), Row(keys[2], rec))

Keys(rec) ==
  IF pairing = "both" \/ (pairing = "ifequal" /\ rec.k1 # rec.k2)
  THEN <<rec.k1, rec.k2>> ELSE <<rec.k1>>

Init ==
  /\ aggregating \in BOOLEAN
  /\ pairing \in {"one", "both", "ifequal"}
  /\ flows = NoFlows
  /\ answer = "LNF_OK"

\* All of the record counts, or the answer says that not all of it does.
Count(keys, rec) ==
  \E n \in 0 .. Len(keys) :
    /\ flows' = PutKeys(flows, keys, n, rec)
    /\ answer' = IF n = Len(keys) THEN "LNF_OK" ELSE "LNF_ERR_NOMEM"

Record == \E rec \in FlowRecs : Count(Keys(rec), rec)

RecordRaw == \E rec \in RawRecs : Count(<<rec.k1>>, rec)

Clear == flows' = NoFlows /\ UNCHANGED answer

Next == (Record \/ RecordRaw \/ Clear) /\ UNCHANGED <<aggregating, pairing>>

Spec == Init /\ [][Next]_vars
=============================================================================
