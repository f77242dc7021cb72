------------------------------ MODULE MCRingBuf -----------------------------
(* RingBuf for TLC: the sets of processes and records come from the .cfg. *)
EXTENDS RingBuf, TLC

\* Readers with the same blocking mode, and records, are interchangeable.
\* Used only in runs without temporal properties.
Symmetry == Permutations(Blocking) \cup Permutations(Readers \ Blocking) \cup Permutations(Records)
=============================================================================
