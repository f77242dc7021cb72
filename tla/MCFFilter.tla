------------------------------ MODULE MCFFilter -----------------------------
(***************************************************************************)
(* FFilter for TLC: numbers of 12 bits for 64, units of 10, addresses of   *)
(* sixteen bits (an IPv4 address has four of them).                        *)
(***************************************************************************)
EXTENDS FFilter, TLC

Field(type, pair) == [type |-> type, pair |-> pair]
MCFieldDefs ==
  [srcport |-> Field("UINT16", <<>>), dstport |-> Field("UINT16", <<>>),
   port |-> Field("none", <<"srcport", "dstport">>),
   srcip |-> Field("ADDR", <<>>), dstip |-> Field("ADDR", <<>>),
   ip |-> Field("none", <<"srcip", "dstip">>),
   flags |-> Field("UINT8", <<>>), tcpflags |-> Field("UINT8", <<>>), bytes |-> Field("UINT64", <<>>),
   bpp |-> Field("DOUBLE", <<>>), mac |-> Field("MAC", <<>>), mpls |-> Field("MPLS", <<>>),
   inetfamily |-> Field("UINT32", <<>>), router |-> Field("STRING", <<>>)]
MCOptsFlags == {"flags"}
MCTcpFlags == {"flags", "tcpflags"}
MCDict == [srcport |-> (<<"http">> :> 80), dstport |-> (<<"http">> :> 80)]

Num(n) == [k |-> "num", n |-> n, neg |-> FALSE, unit |-> ""]
Unit(n, u) == [Num(n) EXCEPT !.unit = u]
Name(w) == [k |-> "name", word |-> w]
Bits(n) == [k |-> "bits", n |-> n]
Addr(fam, words, mask) == [k |-> "addr", fam |-> fam, words |-> words, mask |-> mask]
NoMask == [k |-> "none"]
Mac(last) == <<1, 2, 3, 4, 5, last>>

Text(name, oper, pairop, lit) == [name |-> name, oper |-> oper, pairop |-> pairop, lit |-> lit]

MCTexts ==
  {Text("port", "NOOP", "OR", Num(80)), Text("flags", "NOOP", "OR", Name(<<"S", "A">>)),
   Text("mac", "EXIST", "OR", NoLit)}

MCFirstTexts ==
  {Text("port", "EQ", "AND", Name(<<"http">>)), Text("srcport", "GT", "OR", Num(79)),
   Text("srcport", "EQ", "OR", Name(<<"ssh">>)), Text("port", "ISSET", "OR", Num(16))}
  \cup {Text("bytes", op, "OR", lit) : op \in {"EQ", "LT"}, lit \in
          {Num(30), Unit(3, "k"), Unit(5, "M"), Unit(3, "x"), [Num(3) EXCEPT !.neg = TRUE]}}
  \cup {Text("bytes", "EQ", "OR", lit) : lit \in {Num(5000), Unit(4, "G")}}
  \cup {Text("tcpflags", op, "OR", Name(<<"S", "A">>)) : op \in {"NOOP", "ISSET"}}
  \cup {Text("flags", "ISSET", "OR", Name(<<"X">>)), Text("flags", "EQ", "OR", Num(18)),
        Text("flags", "ISSET", "OR", Name(<<"Z">>))}
  \cup {Text("ip", "EQ", pairop, Addr(4, <<1, 0, 1, 1>>, mask)) :
          pairop \in {"OR", "AND"},
          mask \in {NoMask, Bits(3), [k |-> "full", fam |-> 4, words |-> <<1, 1, 0, 0>>]}}
  \cup {Text("srcip", "EQ", "OR", Addr(4, <<1, 0, 1, 1>>, mask)) :
          mask \in {NoMask, Bits(0), Bits(3), Bits(4), Bits(5)}}
  \cup {Text("srcip", "EQ", "OR", Addr(4, <<1, 0>>, mask)) : mask \in {NoMask, Bits(1), Bits(2), Bits(3)}}
  \cup {Text("srcip", "EQ", "OR", Addr(6, <<5, 6, 7, 8>>, mask)) :
          mask \in {NoMask, Bits(1), Bits(2), Bits(6), Bits(13), Bits(16), Bits(17),
                    [k |-> "full", fam |-> 6, words |-> <<15, 15, 8, 0>>]}}
  \cup {Text("srcip", "GT", "OR", Addr(4, <<1, 0, 1, 1>>, NoMask))}
  \cup {Text("mac", "EQ", "OR", [k |-> "mac", groups |-> g]) : g \in {Mac(6), Mac(256), <<1, 2>>}}
  \cup {Text("mpls", op, "OR", Num(n)) : op \in {"EQ", "LT"}, n \in {0, 7, 9, 16}}
  \cup {Text("bpp", op, "OR", lit) : op \in {"EQ", "GT"}, lit \in {Num(2), [Num(2) EXCEPT !.neg = TRUE], Unit(2, "k")}}
  \cup {Text("inet6", "EQ", "OR", Num(2)), Text("inet6", "EQ", "OR", Name(<<"x">>)),
        Text("inet", "EXIST", "OR", NoLit), Text("inet", "NOOP", "OR", NoLit), Text("router", "EQ", "OR", Num(1)), Text("nosuch", "EQ", "OR", Num(1)),
        Text("port", "EXIST", "AND", NoLit)}

MCLists == {<<Num(80), Num(81)>>, <<Num(1), Name(<<"http">>), Num(2)>>, <<Num(80), Name(<<"ssh">>), Num(3)>>}

Rec1 == [srcport |-> 80, dstport |-> 53, srcip |-> <<0, 0, 0, 11>>, dstip |-> <<0, 0, 0, 10>>,
         flags |-> 18, tcpflags |-> 18, bytes |-> 30, bpp |-> 2, inetfamily |-> 2, mac |-> Mac(6)]
Rec2 == [srcport |-> 16, dstport |-> 80, srcip |-> <<5, 6, 7, 8>>, dstip |-> <<5, 6, 7, 9>>,
         flags |-> 2, tcpflags |-> 2, bytes |-> 3000, inetfamily |-> 10,
         mpls |-> <<[label |-> 9, eos |-> FALSE], [label |-> 7, eos |-> TRUE], [label |-> 3, eos |-> FALSE]>>]
Rec3 == [srcport |-> 80, dstport |-> 80, srcip |-> <<0, 0, 0, 13>>, dstip |-> <<5, 6, 5, 0>>,
         flags |-> 255, tcpflags |-> 255, bytes |-> 500, bpp |-> 0, inetfamily |-> 2, mac |-> Mac(7)]
Rec4 == [srcip |-> <<4, 0, 0, 0>>, flags |-> 1, tcpflags |-> 1, bytes |-> 3]
MCRecords == {Rec1, Rec2, Rec3, Rec4}

\* Memory new to the process is zero: FFAT_ERR.
MCStale == {Err}
=============================================================================
