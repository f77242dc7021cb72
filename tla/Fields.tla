-------------------------------- MODULE Fields --------------------------------
(***************************************************************************)
(* The fields of a record (include/libnf.h, src/fields.c): the table       *)
(* lnf_fields_def and the functions that get and set a field in nfdump's   *)
(* master record.  A getter always delivers bytes; it answers LNF_OK only  *)
(* if one of the field's extension bits is set.  Fields share bits, flags  *)
(* and, as aliases, pairs and compound fields, the place of their value.   *)
(*                                                                         *)
(* A value is its bytes as far as fields of different width can mix them   *)
(* up, on a little endian host: lo is bytes 0-1, hi is the rest (of an     *)
(* address: lo its last 32 bits, hi what makes it an IPv6 address).        *)
(***************************************************************************)
EXTENDS Integers, Sequences, SequencesExt

\* LNF_FLD_*, in the order of their numbers (not defined in the table:
\* AGGR_FLOWS_ALIAS).
FieldOrder ==
  << "FIRST", "LAST", "RECEIVED", "DOCTETS", "DPKTS", "OUT_BYTES", "OUT_PKTS", "AGGR_FLOWS",
     "SRCPORT", "DSTPORT", "TCP_FLAGS", "SRCADDR", "DSTADDR", "IP_NEXTHOP", "SRC_MASK", "DST_MASK",
     "TOS", "DST_TOS", "SRCAS", "DSTAS", "BGPNEXTADJACENTAS", "BGPPREVADJACENTAS", "BGP_NEXTHOP",
     "PROT", "SRC_VLAN", "DST_VLAN", "IN_SRC_MAC", "OUT_SRC_MAC", "IN_DST_MAC", "OUT_DST_MAC",
     "MPLS_LABEL", "INPUT", "OUTPUT", "DIR", "FWD_STATUS", "IP_ROUTER", "ENGINE_TYPE", "ENGINE_ID",
     "EVENT_TIME", "CONN_ID", "ICMP_CODE", "ICMP_TYPE", "FW_XEVENT", "XLATE_SRC_IP", "XLATE_DST_IP",
     "XLATE_SRC_PORT", "XLATE_DST_PORT", "INGRESS_ACL_ID", "INGRESS_ACE_ID", "INGRESS_XACE_ID",
     "EGRESS_ACL_ID", "EGRESS_ACE_ID", "EGRESS_XACE_ID", "USERNAME", "INGRESS_VRFID", "EVENT_FLAG",
     "EGRESS_VRFID", "BLOCK_START", "BLOCK_END", "BLOCK_STEP", "BLOCK_SIZE", "CLIENT_NW_DELAY_USEC",
     "SERVER_NW_DELAY_USEC", "APPL_LATENCY_USEC", "FW_EVENT", "INGRESS_ACL", "EGRESS_ACL",
     "INET_FAMILY", "EXPORTER_IP", "EXPORTER_ID", "EXPORTER_VERSION", "SEQUENCE_FAILURES",
     "SAMPLER_MODE", "SAMPLER_INTERVAL", "SAMPLER_ID", "DPKTS_ALIAS", "OUT_PKTS_ALIAS",
     "IP_NEXTHOP_ALIAS", "IP_ROUTER_ALIAS", "ENGINE_TYPE_ALIAS", "ENGINE_ID_ALIAS",
     "ICMP_CODE_ALIAS", "ICMP_TYPE_ALIAS", "TCP_FLAGS_ALIAS", "SRCADDR_ALIAS", "DSTADDR_ALIAS",
     "CALC_DURATION", "CALC_BPS", "CALC_PPS", "CALC_BPP", "BREC1", "PAIR_PORT", "PAIR_ADDR",
     "PAIR_AS", "PAIR_IF", "PAIR_VLAN", "PAIR_ADDR_ALIAS" >>

Fields == Range(FieldOrder)

\* sizeof of the types
SizeOf ==
  [UINT8 |-> 1, UINT16 |-> 2, UINT32 |-> 4, UINT64 |-> 8, DOUBLE |-> 8, ADDR |-> 16, MAC |-> 6,
   STRING |-> 256, MPLS |-> 40, ACL |-> 12, BASIC_RECORD1 |-> 80]
-----------------------------------------------------------------------------
(***************************************************************************)
(* lnf_fields_def: type, default aggregation, the field whose functions    *)
(* get and set it, the fields it is calculated from, its pair.             *)
(***************************************************************************)

\* The rows of both: TLC's @@, with a definition that can be reasoned about.
f \uplus g == [x \in DOMAIN f \cup DOMAIN g |-> IF x \in DOMAIN f THEN f[x] ELSE g[x]]

Row(type, aggr, func) == [type |-> type, aggr |-> aggr, func |-> func, deps |-> <<>>, pair |-> <<>>]
Rows(type, aggr, names) == [f \in names |-> Row(type, aggr, f)]
Alias(type, aggr, alias, func) == [f \in {alias} |-> Row(type, aggr, func)]

CounterRows ==
     Rows("UINT64", "MIN", {"FIRST"}) \uplus Rows("UINT64", "MAX", {"LAST", "RECEIVED"})
  \uplus Rows("UINT64", "SUM", {"DOCTETS", "DPKTS", "OUT_BYTES", "OUT_PKTS", "AGGR_FLOWS"})
  \uplus Alias("UINT64", "SUM", "DPKTS_ALIAS", "DPKTS")
  \uplus Alias("UINT64", "SUM", "OUT_PKTS_ALIAS", "OUT_PKTS")

PortRows ==
     Rows("UINT16", "KEY", {"SRCPORT", "DSTPORT"})
  \uplus Rows("UINT8", "OR", {"TCP_FLAGS"}) \uplus Alias("UINT8", "OR", "TCP_FLAGS_ALIAS", "TCP_FLAGS")

AddrRows ==
     Rows("ADDR", "KEY", {"SRCADDR", "DSTADDR", "IP_NEXTHOP"})
  \uplus Alias("ADDR", "KEY", "SRCADDR_ALIAS", "SRCADDR")
  \uplus Alias("ADDR", "KEY", "DSTADDR_ALIAS", "DSTADDR")
  \uplus Alias("ADDR", "KEY", "IP_NEXTHOP_ALIAS", "IP_NEXTHOP")
  \uplus Rows("UINT8", "KEY", {"SRC_MASK", "DST_MASK", "TOS", "DST_TOS"})

RoutingRows ==
     Rows("UINT32", "KEY", {"SRCAS", "DSTAS", "BGPNEXTADJACENTAS", "BGPPREVADJACENTAS"})
  \uplus Rows("ADDR", "KEY", {"BGP_NEXTHOP"}) \uplus Rows("UINT8", "KEY", {"PROT"})

LinkRows ==
     Rows("UINT16", "KEY", {"SRC_VLAN", "DST_VLAN"})
  \uplus Rows("MAC", "KEY", {"IN_SRC_MAC", "OUT_SRC_MAC", "IN_DST_MAC", "OUT_DST_MAC"})
  \uplus Rows("MPLS", "KEY", {"MPLS_LABEL"})
  \uplus Rows("UINT32", "KEY", {"INPUT", "OUTPUT"}) \uplus Rows("UINT8", "KEY", {"DIR", "FWD_STATUS"})

RouterRows ==
     Rows("ADDR", "KEY", {"IP_ROUTER"}) \uplus Alias("ADDR", "KEY", "IP_ROUTER_ALIAS", "IP_ROUTER")
  \uplus Rows("UINT8", "KEY", {"ENGINE_TYPE", "ENGINE_ID"})
  \uplus Alias("UINT8", "KEY", "ENGINE_TYPE_ALIAS", "ENGINE_TYPE")
  \uplus Alias("UINT8", "KEY", "ENGINE_ID_ALIAS", "ENGINE_ID")

EventRows ==
     Rows("UINT64", "MIN", {"EVENT_TIME"}) \uplus Rows("UINT32", "KEY", {"CONN_ID"})
  \uplus Rows("UINT8", "KEY", {"ICMP_CODE", "ICMP_TYPE", "FW_EVENT"})
  \uplus Alias("UINT8", "KEY", "ICMP_CODE_ALIAS", "ICMP_CODE")
  \uplus Alias("UINT8", "KEY", "ICMP_TYPE_ALIAS", "ICMP_TYPE")
  \uplus Rows("UINT16", "KEY", {"FW_XEVENT", "XLATE_SRC_PORT", "XLATE_DST_PORT"})
  \uplus Rows("ADDR", "KEY", {"XLATE_SRC_IP", "XLATE_DST_IP"})

AclRows ==
     Rows("UINT32", "KEY", {"INGRESS_ACL_ID", "INGRESS_ACE_ID", "INGRESS_XACE_ID",
                            "EGRESS_ACL_ID", "EGRESS_ACE_ID", "EGRESS_XACE_ID"})
  \uplus Rows("ACL", "KEY", {"INGRESS_ACL", "EGRESS_ACL"}) \uplus Rows("STRING", "KEY", {"USERNAME"})

NelRows ==
     Rows("UINT32", "KEY", {"INGRESS_VRFID", "EGRESS_VRFID", "INET_FAMILY"})
  \uplus Rows("UINT8", "KEY", {"EVENT_FLAG"})
  \uplus Rows("UINT16", "KEY", {"BLOCK_START", "BLOCK_END", "BLOCK_STEP", "BLOCK_SIZE"})
  \uplus Rows("UINT64", "KEY", {"CLIENT_NW_DELAY_USEC", "SERVER_NW_DELAY_USEC", "APPL_LATENCY_USEC"})

SourceRows ==
     Rows("ADDR", "KEY", {"EXPORTER_IP"}) \uplus Rows("UINT16", "KEY", {"SAMPLER_MODE"})
  \uplus Rows("UINT32", "KEY", {"EXPORTER_ID", "EXPORTER_VERSION", "SAMPLER_INTERVAL", "SAMPLER_ID"})
  \uplus Rows("UINT32", "SUM", {"SEQUENCE_FAILURES"})

CalcRow(type, func, deps) == [Row(type, "SUM", func) EXCEPT !.deps = deps]

CalcRows ==
  [CALC_DURATION |-> CalcRow("UINT64", "CALC_DURATION", <<"FIRST", "LAST">>),
   CALC_BPS |-> CalcRow("DOUBLE", "CALC_BPS", <<"DOCTETS", "CALC_DURATION">>),
   CALC_PPS |-> CalcRow("DOUBLE", "CALC_PPS", <<"DPKTS", "CALC_DURATION">>),
   CALC_BPP |-> CalcRow("DOUBLE", "CALC_BPP", <<"DPKTS", "DOCTETS">>),
   BREC1 |-> Row("BASIC_RECORD1", "KEY", "BREC1")]

PairRow(type, func, first, second) == [Row(type, "KEY", func) EXCEPT !.pair = <<first, second>>]

PairRows ==
  [PAIR_PORT |-> PairRow("UINT16", "SRCPORT", "SRCPORT", "DSTPORT"),
   PAIR_ADDR |-> PairRow("ADDR", "SRCADDR", "SRCADDR", "DSTADDR"),
   PAIR_ADDR_ALIAS |-> PairRow("ADDR", "SRCADDR", "SRCADDR", "DSTADDR"),
   PAIR_AS |-> PairRow("UINT32", "SRCAS", "SRCAS", "DSTAS"),
   PAIR_IF |-> PairRow("UINT16", "INPUT", "SRCAS", "DSTAS"),
   PAIR_VLAN |-> PairRow("UINT16", "SRC_VLAN", "SRC_VLAN", "DST_VLAN")]

lnf_fields_def ==
  CounterRows \uplus PortRows \uplus AddrRows \uplus RoutingRows \uplus LinkRows \uplus RouterRows
    \uplus EventRows \uplus AclRows \uplus NelRows \uplus SourceRows \uplus CalcRows \uplus PairRows
-----------------------------------------------------------------------------
(***************************************************************************)
(* Getters and setters.  An accessor names the bits one of which makes the *)
(* getter answer LNF_OK (<<>>: it always does), the bit the setter sets    *)
(* for a value, which for addresses depends on the value, and the address  *)
(* flag of the master record the setter sets or clears.                    *)
(***************************************************************************)

Acc(bits, set4, set6, flag) == [bits |-> bits, set4 |-> set4, set6 |-> set6, flag |-> flag]
Always(names) == [f \in names |-> Acc({}, {}, {}, {})]
Under(bit, names) == [f \in names |-> Acc({bit}, {bit}, {bit}, {})]
\* two widths of the extension, of which the setter knows the larger
Either(large, small, names) == [f \in names |-> Acc({large, small}, {large}, {large}, {})]
AddrUnder(b4, b6, flag, names) == [f \in names |-> Acc({b4, b6}, {b4}, {b6}, flag)]

CounterAccess ==
     Always({"FIRST", "LAST", "DPKTS", "DOCTETS", "SRCPORT", "DSTPORT", "TCP_FLAGS"})
  \uplus Under("EX_RECEIVED", {"RECEIVED"}) \uplus Either("EX_OUT_PKG_8", "EX_OUT_PKG_4", {"OUT_PKTS"})
  \uplus Either("EX_OUT_BYTES_8", "EX_OUT_BYTES_4", {"OUT_BYTES"})
  \uplus Either("EX_AGGR_FLOWS_8", "EX_AGGR_FLOWS_4", {"AGGR_FLOWS"})

AddrAccess ==
     [f \in {"SRCADDR", "DSTADDR"} |-> Acc({}, {}, {}, {"FLAG_IPV6_ADDR"})]
  \uplus AddrUnder("EX_NEXT_HOP_v4", "EX_NEXT_HOP_v6", {"FLAG_IPV6_NH"}, {"IP_NEXTHOP"})
  \uplus Under("EX_MULIPLE", {"SRC_MASK", "DST_MASK", "DST_TOS"}) \uplus Always({"TOS"})

RoutingAccess ==
     Either("EX_AS_4", "EX_AS_2", {"SRCAS", "DSTAS"})
  \uplus Under("EX_BGPADJ", {"BGPNEXTADJACENTAS", "BGPPREVADJACENTAS"})
  \uplus AddrUnder("EX_NEXT_HOP_BGP_v4", "EX_NEXT_HOP_BGP_v6", {"FLAG_IPV6_NHB"}, {"BGP_NEXTHOP"})
  \uplus Always({"PROT"}) \uplus Under("EX_VLAN", {"SRC_VLAN", "DST_VLAN"})

LinkAccess ==
     Under("EX_MAC_1", {"IN_SRC_MAC", "OUT_DST_MAC"})
  \uplus Under("EX_MAC_2", {"OUT_SRC_MAC", "IN_DST_MAC"})
  \uplus Under("EX_MPLS", {"MPLS_LABEL"})
  \uplus Either("EX_IO_SNMP_4", "EX_IO_SNMP_2", {"INPUT", "OUTPUT"})
  \uplus Under("EX_MULIPLE", {"DIR"}) \uplus Always({"FWD_STATUS"})

EventAccess ==
     AddrUnder("EX_ROUTER_IP_v4", "EX_ROUTER_IP_v6", {"FLAG_IPV6_EXP"}, {"IP_ROUTER"})
  \uplus Under("EX_ROUTER_ID", {"ENGINE_TYPE", "ENGINE_ID"})
  \uplus Under("EX_NSEL_COMMON", {"EVENT_TIME", "CONN_ID", "ICMP_CODE", "ICMP_TYPE", "FW_XEVENT",
                                "FW_EVENT"})

AclAccess ==
     AddrUnder("EX_NSEL_XLATE_IP_v4", "EX_NSEL_XLATE_IP_v6", {}, {"XLATE_SRC_IP", "XLATE_DST_IP"})
  \uplus Under("EX_NSEL_XLATE_PORTS", {"XLATE_SRC_PORT", "XLATE_DST_PORT"})
  \uplus Under("EX_NSEL_ACL", {"INGRESS_ACL_ID", "INGRESS_ACE_ID", "INGRESS_XACE_ID",
                           "EGRESS_ACL_ID", "EGRESS_ACE_ID", "EGRESS_XACE_ID"})

\* USERNAME: hi stands for a name that needs the longer extension.
NelAccess ==
     AddrUnder("EX_NSEL_USER", "EX_NSEL_USER_MAX", {}, {"USERNAME"})
  \uplus Under("EX_NEL_COMMON", {"INGRESS_VRFID", "EVENT_FLAG", "EGRESS_VRFID"})
  \uplus Under("EX_PORT_BLOCK_ALLOC", {"BLOCK_START", "BLOCK_END", "BLOCK_STEP", "BLOCK_SIZE"})
  \uplus Under("EX_LATENCY", {"CLIENT_NW_DELAY_USEC", "SERVER_NW_DELAY_USEC", "APPL_LATENCY_USEC"})

\* LNF_REC_EXPORTER and LNF_REC_SAMPLER are kept with the bits.  Exporter
\* fields are there as well in any record that came from a file.
SourceAccess ==
     [f \in {"EXPORTER_IP", "EXPORTER_ID", "EXPORTER_VERSION"} |->
        Acc({"LNF_REC_EXPORTER", "map_ref"}, {"LNF_REC_EXPORTER"}, {"LNF_REC_EXPORTER"}, {})]
  \uplus Under("LNF_REC_EXPORTER", {"SEQUENCE_FAILURES"})
  \uplus Under("LNF_REC_SAMPLER", {"SAMPLER_MODE", "SAMPLER_INTERVAL", "SAMPLER_ID"})

Access == CounterAccess \uplus AddrAccess \uplus RoutingAccess \uplus LinkAccess \uplus EventAccess
            \uplus AclAccess \uplus NelAccess \uplus SourceAccess

Slots == DOMAIN Access
-----------------------------------------------------------------------------
Zero == [lo |-> 0, hi |-> 0]
AF_INET == [lo |-> 2, hi |-> 0]
AF_INET6 == [lo |-> 10, hi |-> 0]

\* IN6_IS_ADDR_V4COMPAT: the first 96 bits are zero and the rest is more than 1
V4Compat(v) == v.hi = 0 /\ v.lo > 1

\* A record: values, extension bits with the presence flags, the address flags.
EmptyRec == [val |-> [s \in Slots |-> IF s = "EXPORTER_VERSION" THEN [lo |-> 9, hi |-> 0] ELSE Zero],
             bits |-> {}, v6 |-> {}]

\* the compound fields INGRESS_ACL, EGRESS_ACL and BREC1, and what they consist of
Parts(func) ==
  CASE func = "INGRESS_ACL" -> <<"INGRESS_ACL_ID", "INGRESS_ACE_ID", "INGRESS_XACE_ID">>
    [] func = "EGRESS_ACL" -> <<"EGRESS_ACL_ID", "EGRESS_ACE_ID", "EGRESS_XACE_ID">>
    [] func = "BREC1" -> <<"FIRST", "LAST", "SRCADDR", "DSTADDR", "PROT", "SRCPORT", "DSTPORT",
                           "DOCTETS", "DPKTS", "AGGR_FLOWS">>
    [] OTHER -> <<func>>

CalcFuncs == {"CALC_DURATION", "CALC_BPS", "CALC_PPS", "CALC_BPP"}

Duration(rec) == rec.val["LAST"].lo - rec.val["FIRST"].lo

\* The calculated fields are LNF_ERR_NAN where they would divide by zero.
CalcOK(rec, func) ==
  CASE func = "CALC_DURATION" -> TRUE
    [] func = "CALC_BPP" -> rec.val["DPKTS"].lo > 0
    [] OTHER -> Duration(rec) > 0

CalcValue(rec, func) ==
  CASE func = "CALC_DURATION" -> <<"duration", Duration(rec)>>
    [] func = "CALC_BPS" -> <<"bps", rec.val["DOCTETS"], Duration(rec)>>
    [] func = "CALC_PPS" -> <<"pps", rec.val["DPKTS"], Duration(rec)>>
    [] func = "CALC_BPP" -> <<"bpp", rec.val["DOCTETS"], rec.val["DPKTS"]>>

\* BREC1 takes no notice of what the getters it calls return.
IsSet(rec, func) ==
  CASE func \in CalcFuncs -> CalcOK(rec, func)
    [] func \in {"BREC1", "INET_FAMILY"} -> TRUE
    [] OTHER -> LET bits == Access[Parts(func)[1]].bits IN bits = {} \/ bits \cap rec.bits # {}

\* What a getter delivers: the value of each part
Get(rec, func) ==
  CASE func \in CalcFuncs -> <<CalcValue(rec, func)>>
    [] func = "INET_FAMILY" -> <<IF "FLAG_IPV6_ADDR" \in rec.v6 THEN AF_INET6 ELSE AF_INET>>
    [] OTHER -> [i \in DOMAIN Parts(func) |-> rec.val[Parts(func)[i]]]

\* mutant of SetSlot: an address flag is never cleared
SetSlotSticky(rec, slot, v) ==
  LET a == Access[slot]
      six == IF slot = "USERNAME" THEN v.hi # 0 ELSE ~ V4Compat(v) IN
  [val |-> [rec.val EXCEPT ![slot] = v],
   bits |-> rec.bits \cup (IF six THEN a.set6 ELSE a.set4),
   v6 |-> IF six THEN rec.v6 \cup a.flag ELSE rec.v6]

SetSlot(rec, slot, v) ==
  LET a == Access[slot]
      six == IF slot = "USERNAME" THEN v.hi # 0 ELSE ~ V4Compat(v) IN
  [val |-> [rec.val EXCEPT ![slot] = v],
   bits |-> rec.bits \cup (IF six THEN a.set6 ELSE a.set4),
   v6 |-> IF six THEN rec.v6 \cup a.flag ELSE rec.v6 \ a.flag]

\* A setter: the parts in order; calculated fields cannot be set.
Set(rec, func, data) ==
  CASE func \in CalcFuncs -> rec
    [] func = "INET_FAMILY" ->
         [rec EXCEPT !.v6 = IF data[1] = AF_INET THEN @ \ {"FLAG_IPV6_ADDR"}
                            ELSE IF data[1] = AF_INET6 THEN @ \cup {"FLAG_IPV6_ADDR"} ELSE @]
    [] OTHER -> LET s[i \in 0 .. Len(data)] == IF i = 0 THEN rec
                                               ELSE SetSlot(s[i - 1], Parts(func)[i], data[i])
                IN s[Len(data)]

\* lnf_rec_fget and lnf_rec_fset
FOk(rec, f) == IsSet(rec, lnf_fields_def[f].func)
FGet(rec, f) == Get(rec, lnf_fields_def[f].func)
FSet(rec, f, data) == Set(rec, lnf_fields_def[f].func, data)
=============================================================================
