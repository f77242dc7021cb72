------------------------------ MODULE MCNfFile ------------------------------
(* An instance of NfFile.  Two sets of extensions and one exporter; a file of   *)
(* another program with all that lnf_read_record knows and does not know, and   *)
(* one with an empty data block.                                                *)
EXTENDS NfFile

E(kind, id, exts, n) == [Entry(kind) EXCEPT !.id = id, !.exts = exts, !.n = n]

Odd ==
  << Block(1, <<E("record", 0, {"a"}, 90)>>),
     Block(2, <<E("record", 3, {"a"}, 91), E("map", 0, {"a"}, 0), E("record", 9, {"a"}, 92)>>),
     Block(3, <<>>), Block(0, <<>>),
     Block(2, <<E("unknown", 0, {}, 0), E("record", 0, {"a"}, 93), E("v0", 0, {}, 0), E("record", 0, {"a"}, 94)>>) >>

Hollow == << Block(2, <<>>) >>

L(recs, nfiles, writes, reads) == [recs |-> recs, files |-> nfiles, calls |-> [W |-> writes, R |-> reads]]
MCLimits == {L(3, 1, 2, 0), L(1, 2, 1, 1)}

MCExts == {{"a"}, {"b"}}
MCContents == {Odd, Hollow}
AllWriteFlags == {{"WRITE"}, {"APPEND"}, {"WRITE", "APPEND"}}
AllReadFlags == {{}, {"READ_LOOP"}}
=============================================================================
