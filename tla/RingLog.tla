------------------------------ MODULE RingLog ------------------------------
(***************************************************************************)
(* What the ring buffer promises (include/libnf.h, group ringbuf), without *)
(* entries, locks or positions: writers append to one log, and every       *)
(* reader walks through it in order, skipping what it was too slow for.    *)
(***************************************************************************)
EXTENDS Naturals, Sequences

CONSTANTS Readers, Records, Garbled

VARIABLES
  log,        \* the records written, in order
  cursor,     \* per reader: the number of the last record it was given
  delivered   \* per reader: that record

vars == <<log, cursor, delivered>>

Init ==
  /\ log = << >>
  /\ cursor = [r \in Readers |-> 0]
  /\ delivered = [r \in Readers |-> Garbled]

Write ==
  /\ \E v \in Records : log' = Append(log, v)
  /\ UNCHANGED <<cursor, delivered>>

\* the next record for r: any one after its cursor
Read(r) ==
  \E s \in cursor[r] + 1 .. Len(log) :
    /\ cursor' = [cursor EXCEPT ![r] = s]
    /\ delivered' = [delivered EXCEPT ![r] = log[s]]
    /\ UNCHANGED log

Next == Write \/ \E r \in Readers : Read(r)

Spec == Init /\ [][Next]_vars
=============================================================================
