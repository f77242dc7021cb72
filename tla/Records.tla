------------------------------ MODULE Records -------------------------------
(***************************************************************************)
(* Records on their ways: a program sets the fields of a record or reads   *)
(* it from a file and sends it in the raw form (RecRaw); or it aggregates  *)
(* records in the rows of a heap (MemFields), reads a row into its record  *)
(* and sends that, as nfdumpp does when it writes to a ring.               *)
(***************************************************************************)
EXTENDS RecRaw, MemFields

CONSTANT MaxRead   \* bound: rows of at most so many calls of set-up are sent on

ASSUME MaxReadAssumption == MaxRead \in Nat

VARIABLE from      \* "set": src was set by the program; "row": read from the row

vars == <<rawvars, setupvars, from>>

Init == RawInit /\ SetupInit /\ from = "set"

\* lnf_mem_first_c and lnf_mem_read_c into the program's record
ReadOut ==
  /\ row # NoRow /\ Ready /\ from = "set"
  /\ adds <= MaxRead
  /\ src' = ReadRow(h, row)
  /\ from' = "row"
  /\ UNCHANGED <<dst, raw, sent, how, sets, pieces, setupvars>>

\* The row's record in the raw form, and what the receiver makes of it.
SendRow ==
  /\ from = "row"
  /\ \E size \in BufSizes : (raw = NoRaw /\ RecGetRaw(size)) \/ RecSetRaw(size)
  /\ UNCHANGED <<setupvars, from>>

\* In one behaviour the program does either: rows are filled with records of
\* Recs, whatever is set in src.
Next ==
  \/ adds = 0 /\ RawNext /\ UNCHANGED <<setupvars, from>>
  \/ SendRow
  \/ from = "set" /\ Ready /\ sets = 0 /\ how = "leftover" /\ raw = NoRaw
     /\ SetupNext /\ UNCHANGED <<rawvars, from>>
  \/ ReadOut

Spec == Init /\ [][Next]_vars
-----------------------------------------------------------------------------
(***************************************************************************)
(* Properties                                                              *)
(***************************************************************************)

\* A record read from a row and sent in the raw form still belongs to that row:
\* the receiver that aggregates by the same fields finds the same key.
KeySurvivesRaw ==
  from = "row" /\ how = "raw" /\ Apart /\ OwnKeys => FillBuf(h.key, dst, Pairset(h)) = row.key

\* So do the totals: a receiver that aggregates the same values starts with
\* what the row held.
TotalsSurviveRaw ==
  from = "row" /\ how = "raw" /\ Apart =>
    \A i \in DOMAIN h.val : LET n == h.val[i] IN
      IsData(row.val[i]) /\ n.type # "ADDR" /\ n.bits = 0 => Fetched(dst, n.field) = row.val[i]

\* What a row of one heap holds reaches another heap through a ring.
RowSurvivesRaw == KeySurvivesRaw /\ TotalsSurviveRaw
=============================================================================
