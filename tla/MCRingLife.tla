----------------------------- MODULE MCRingLife -----------------------------
(* RingLife for TLC: the processes come from the .cfg. *)
EXTENDS RingLife, TLC
=============================================================================
