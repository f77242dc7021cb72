----------------------------- MODULE MCNfdumpp ------------------------------
(* Nfdumpp for TLC: a small file system and the command lines. *)
EXTENDS Nfdumpp

Rec(hit, addr, port) == [bad |-> FALSE, hit |-> hit, srcaddr |-> addr, srcport |-> port]
Bad == [Rec(FALSE, 0, 1) EXCEPT !.bad = TRUE]

File(records) == [kind |-> "file", hidden |-> FALSE, names |-> <<>>, records |-> records]
Dir(names) == [kind |-> "dir", hidden |-> FALSE, names |-> names, records |-> <<>>]

\* d holds two files and a hidden one, e a directory and a dangling link
\* before a file, s something that is neither file nor directory.
MCPaths ==
  [f |-> File(<<Rec(TRUE, 0, 1), Rec(FALSE, 1, 1)>>),
   g |-> File(<<Rec(TRUE, 0, 2), Rec(TRUE, 1, 1)>>),
   h |-> [File(<<Rec(TRUE, 1, 2)>>) EXCEPT !.hidden = TRUE],
   x |-> File(<<Rec(TRUE, 0, 1), Bad>>),
   k |-> File(<<Rec(TRUE, 2, 2)>>),
   gone |-> [File(<<>>) EXCEPT !.kind = "missing"],
   s |-> [File(<<>>) EXCEPT !.kind = "socket"],
   d |-> Dir(<<"f", "h", "s", "g">>),
   e |-> Dir(<<"f", "gone", "g">>),
   n |-> Dir(<<"d">>)]

r(p) == [opt |-> "r", path |-> p]
R(p) == [opt |-> "R", path |-> p]
Key(base) == [base |-> base, last |-> "", bits |-> <<>>]
Net(base, last, bits) == [base |-> base, last |-> last, bits |-> bits]
A(tokens) == [opt |-> "A", tokens |-> tokens]
O(token) == [opt |-> "O", token |-> token]
n(k) == [opt |-> "n", n |-> k]
w == [opt |-> "w"]
fmt(x) == [opt |-> "o", fmt |-> x]
filt(x) == [opt |-> "filter", type |-> x]
threads(k) == [opt |-> "num-threads", n |-> k]

addr == Key("srcip")
port == Key("srcport")
MCCommandLines == {
  <<r("f"), r("g")>>,
  <<R("n"), filt("nfdump")>>,
  <<R("d"), w, filt("libnf"), n(1)>>,
  <<r("f"), fmt("nfdump")>>,
  <<r("f"), r("g"), fmt("shm")>>,
  <<R("d"), O(Key("bytes"))>>,
  <<R("d"), O(port), n(2), filt("libnf")>>,
  <<R("d"), A(<<addr>>), filt("nfdump")>>,
  <<R("d"), A(<<addr>>), O(port), n(1)>>,
  <<R("d"), A(<<addr>>), O(Key("bytes")), n(1), A(<<port>>), filt("libnf")>>,
  <<R("d"), A(<<Net("sourceIPv4Address", "", <<1>>), port>>), A(<<port>>), n(1)>>,
  <<r("f"), A(<<addr>>), O(port), A(<<addr>>), r("g")>>,
  <<r("f"), A(<<Net("srcip", "4", <<1, 2>>)>>), O(addr), r("k")>>,
  <<r("f"), A(<<Net("srcip", "6", <<1>>)>>), r("g")>>,
  <<r("f"), A(<<Net("srcip", "", <<3>>)>>)>>,
  <<r("f"), A(<<port, Net("icmpCodeIPv", "4", <<>>)>>)>>,
  <<r("f"), O(Key("nothing"))>>,
  <<r("x"), r("g"), filt("libnf")>>,
  <<R("e"), r("s")>>,
  <<r("f"), threads(0)>>,
  <<r("f"), threads(4), r("g")>>,
  <<r("f"), r("g"), threads(1)>>,
  <<r("k"), R("d"), A(<<Net("srcip", "", <<1>>)>>), threads(3), filt("libnf")>> }
=============================================================================
