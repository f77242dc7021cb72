----------------------------- MODULE MCMemMerge ----------------------------
(* MemMerge for TLC: the threads come from the .cfg. *)
EXTENDS MemMerge, TLC
=============================================================================
