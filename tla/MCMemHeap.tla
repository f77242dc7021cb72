------------------------------ MODULE MCMemHeap -----------------------------
(* MemHeap for TLC: the records and the ways to set the heap up. *)
EXTENDS MemHeap, TLC

Rec(k1, k2, bytes, pkts) == [k1 |-> k1, k2 |-> k2, bytes |-> bytes, pkts |-> pkts]

\* three keys in two buckets, so that one chain has two rows; totals whose
\* order differs from that of their bytes per packet
MCRecs == {Rec(0, 2, 6, 3), Rec(1, 1, 8, 2)}

MCRawRecs == {Rec(2, 0, 9, 1)}

\* sorted by a key, statistics about a pair of addresses, sorted by a
\* calculated field, a list of records
MCConfigs ==
  [list_mode : {FALSE}, statistics : {FALSE}, comp : {FALSE},
   field : {"port", "bpp"}, desc : BOOLEAN]
  \cup [list_mode : {FALSE}, statistics : {TRUE}, comp : {FALSE},
        field : {"addr"}, desc : BOOLEAN]
  \cup [list_mode : {FALSE}, statistics : {TRUE}, comp : {TRUE},
        field : {"none"}, desc : {FALSE}]
  \cup [list_mode : {TRUE}, statistics : {FALSE}, comp : {FALSE},
        field : {"bytes"}, desc : BOOLEAN]
=============================================================================
