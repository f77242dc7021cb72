------------------------------ MODULE MCPerlNf ------------------------------
(* PerlNf for TLC: three files and one to be written, and five kinds of objects. *)
EXTENDS PerlNf, TLC

Entry(a, n, e) == [bad |-> FALSE, croaks |-> FALSE, rec |-> [a |-> a, n |-> n, e |-> e]]
BadEntry == [bad |-> TRUE, croaks |-> FALSE, rec |-> Rec0]
Corrupt == [BadEntry EXCEPT !.croaks = TRUE]

MCDisk ==
  [f |-> <<Entry(1, 1, 1), Entry(0, 2, Undef)>>,
   g |-> <<Entry(3, 2, 1)>>,
   x |-> <<Entry(1, 1, 1), BadEntry, Corrupt>>]

Fld(name, bits) == [name |-> name, bits |-> bits]
Reader(files, filter, fields) ==
  [files |-> files, filter |-> filter, fields |-> fields, aggreg |-> FALSE, order |-> "none", out |-> Null]
Writer(out, fields) == [Reader(<<>>, "any", fields) EXCEPT !.out = out]

all == <<Fld("a", 2), Fld("n", 2), Fld("e", 2)>>
MCOptions == {
  Reader(<<"f", "g">>, "hit", all),
  Reader(<<"f", "out">>, "any", <<Fld("n", 2)>>),
  [Reader(<<"g", "f">>, "any", <<Fld("n", 2), Fld("a", 1)>>) EXCEPT !.aggreg = TRUE, !.order = "n"],
  [Reader(<<"f", "gone">>, "any", <<Fld("a", 2)>>) EXCEPT !.aggreg = TRUE],
  [Reader(<<"f">>, "any", <<Fld("a", 2), Fld("n", 2)>>) EXCEPT !.order = "n"],
  Writer("out", <<Fld("e", 2), Fld("a", 2)>>),
  [Reader(<<"x">>, "hit", <<Fld("a", 2), Fld("n", 2)>>) EXCEPT !.out = "out"],
  [Reader(<<"f">>, "broken", <<Fld("n", 2)>>) EXCEPT !.out = Denied] }

Symmetry == Permutations(Objects)

MCRows == {<<1, Invalid>>, <<Undef, 3>>, <<7>>}
=============================================================================
