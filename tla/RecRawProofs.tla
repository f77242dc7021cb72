---------------------------- MODULE RecRawProofs ----------------------------
(***************************************************************************)
(* Proofs about records and the raw form (RecRaw): lnf_rec_init that fails *)
(* gives back what it got (InitReleases), and what was set in a record     *)
(* arrives through the raw form and by lnf_rec_copy (Arrives), for any     *)
(* fields, values, records of files and number of settings.                *)
(*                                                                         *)
(* The tables are reduced to what the proof uses of them, RowFits and      *)
(* AccessFits.  The walk of lnf_rec_set_raw keeps Toward: what has been    *)
(* written so far is as in the record that was sent, and no bit is set     *)
(* that does not belong to something sent.                                 *)
(***************************************************************************)
EXTENDS RecRaw, NatFacts, SequenceTheorems

-----------------------------------------------------------------------------
(***************************************************************************)
(* The tables                                                              *)
(***************************************************************************)

NarrowSlots ==
  {"SRCPORT", "DSTPORT", "TCP_FLAGS", "SRC_MASK", "DST_MASK", "TOS", "DST_TOS", "PROT",
   "SRC_VLAN", "DST_VLAN", "DIR", "FWD_STATUS", "ENGINE_TYPE", "ENGINE_ID", "ICMP_CODE",
   "ICMP_TYPE", "FW_EVENT", "FW_XEVENT", "XLATE_SRC_PORT", "XLATE_DST_PORT", "EVENT_FLAG",
   "BLOCK_START", "BLOCK_END", "BLOCK_STEP", "BLOCK_SIZE", "SAMPLER_MODE"}

WideSlots ==
  {"FIRST", "LAST", "DPKTS", "DOCTETS", "RECEIVED", "OUT_PKTS", "OUT_BYTES", "AGGR_FLOWS",
   "SRCADDR", "DSTADDR", "IP_NEXTHOP", "SRCAS", "DSTAS", "BGPNEXTADJACENTAS", "BGPPREVADJACENTAS",
   "BGP_NEXTHOP", "IN_SRC_MAC", "OUT_DST_MAC", "OUT_SRC_MAC", "IN_DST_MAC", "MPLS_LABEL",
   "INPUT", "OUTPUT", "IP_ROUTER", "EVENT_TIME", "CONN_ID", "XLATE_SRC_IP", "XLATE_DST_IP",
   "INGRESS_ACL_ID", "INGRESS_ACE_ID", "INGRESS_XACE_ID", "EGRESS_ACL_ID", "EGRESS_ACE_ID",
   "EGRESS_XACE_ID", "USERNAME", "INGRESS_VRFID", "EGRESS_VRFID", "CLIENT_NW_DELAY_USEC",
   "SERVER_NW_DELAY_USEC", "APPL_LATENCY_USEC", "EXPORTER_IP", "EXPORTER_ID", "EXPORTER_VERSION",
   "SEQUENCE_FAILURES", "SAMPLER_INTERVAL", "SAMPLER_ID"}

AllSlots == NarrowSlots \cup WideSlots
Compounds == {"INGRESS_ACL", "EGRESS_ACL", "BREC1"}

\* No alias and no pair has these.
Single == {"EXPORTER_VERSION", "AGGR_FLOWS", "SEQUENCE_FAILURES"}
NarrowTypes == {"UINT8", "UINT16"}

\* What the proof uses of a row of lnf_fields_def: its width is that of its
\* slot, but for PAIR_IF, and slots and compounds are fields of the same name.
RowFits(f, r) ==
  /\ \/ r.func \in NarrowSlots /\ r.type \in NarrowTypes
     \/ r.func \in WideSlots /\ r.type \in DOMAIN SizeOf \ NarrowTypes
     \/ r.func \in Compounds \cup CalcFuncs \cup {"INET_FAMILY"}
        /\ r.type \in DOMAIN SizeOf \ NarrowTypes
     \/ f = "PAIR_IF" /\ r.func = "INPUT" /\ r.type = "UINT16"
  /\ f \in AllSlots \cup Compounds \cup {"INET_FAMILY"} => f = r.func
  /\ r.func \in Single \cup Compounds => f = r.func
  /\ f = "PAIR_ADDR_ALIAS" => r.func = "SRCADDR"

\* A table all of whose rows fit, with the fields S
AllFit(t) == \A x \in DOMAIN t : RowFits(x, t[x])

Table(t, S) == AllFit(t) /\ DOMAIN t = S

\* Tables are put together row by row.
LEMMA UplusTable ==
  ASSUME NEW f, NEW g, NEW S, NEW T, Table(f, S), Table(g, T)
  PROVE  Table(f \uplus g, S \cup T)
BY DEF \uplus, AllFit, Table

LEMMA RowsFit ==
  ASSUME NEW type, NEW aggr, NEW names, \A x \in names : RowFits(x, Row(type, aggr, x))
  PROVE  Table(Rows(type, aggr, names), names)
BY DEF AllFit, Rows, Table

LEMMA AliasFits ==
  ASSUME NEW type, NEW aggr, NEW alias, NEW func, RowFits(alias, Row(type, aggr, func))
  PROVE  Table(Alias(type, aggr, alias, func), {alias})
BY DEF AllFit, Alias, Table

\* The tables fit, each with its fields.
LEMMA CounterRowsFit == Table(CounterRows,
    {"FIRST"} \cup {"LAST", "RECEIVED"} \cup {"DOCTETS", "DPKTS", "OUT_BYTES", "OUT_PKTS",
    "AGGR_FLOWS"} \cup {"DPKTS_ALIAS"} \cup {"OUT_PKTS_ALIAS"})
<1>1. Table(Rows("UINT64", "MIN", {"FIRST"}), {"FIRST"})
  <2>1. \A x \in {"FIRST"} : RowFits(x, Row("UINT64", "MIN", x))
    BY DEF RowFits, Row, NarrowSlots, WideSlots, AllSlots, Compounds, CalcFuncs, Single,
           NarrowTypes, SizeOf
  <2> QED
    BY <2>1, RowsFit
<1>2. Table(Rows("UINT64", "MAX", {"LAST", "RECEIVED"}), {"LAST", "RECEIVED"})
  <2>1. \A x \in {"LAST", "RECEIVED"} : RowFits(x, Row("UINT64", "MAX", x))
    BY DEF RowFits, Row, NarrowSlots, WideSlots, AllSlots, Compounds, CalcFuncs, Single,
           NarrowTypes, SizeOf
  <2> QED
    BY <2>1, RowsFit
<1>3. Table(Rows("UINT64", "SUM", {"DOCTETS", "DPKTS", "OUT_BYTES", "OUT_PKTS", "AGGR_FLOWS"}),
       {"DOCTETS", "DPKTS", "OUT_BYTES", "OUT_PKTS", "AGGR_FLOWS"})
  <2>1. \A x \in {"DOCTETS", "DPKTS", "OUT_BYTES", "OUT_PKTS", "AGGR_FLOWS"} : RowFits(x,
         Row("UINT64", "SUM", x))
    BY DEF RowFits, Row, NarrowSlots, WideSlots, AllSlots, Compounds, CalcFuncs, Single,
           NarrowTypes, SizeOf
  <2> QED
    BY <2>1, RowsFit
<1>4. Table(Alias("UINT64", "SUM", "DPKTS_ALIAS", "DPKTS"), {"DPKTS_ALIAS"})
  <2>1. RowFits("DPKTS_ALIAS", Row("UINT64", "SUM", "DPKTS"))
    BY DEF RowFits, Row, NarrowSlots, WideSlots, AllSlots, Compounds, CalcFuncs, Single,
           NarrowTypes, SizeOf
  <2> QED
    BY <2>1, AliasFits
<1>5. Table(Alias("UINT64", "SUM", "OUT_PKTS_ALIAS", "OUT_PKTS"), {"OUT_PKTS_ALIAS"})
  <2>1. RowFits("OUT_PKTS_ALIAS", Row("UINT64", "SUM", "OUT_PKTS"))
    BY DEF RowFits, Row, NarrowSlots, WideSlots, AllSlots, Compounds, CalcFuncs, Single,
           NarrowTypes, SizeOf
  <2> QED
    BY <2>1, AliasFits
<1> QED
  BY <1>1, <1>2, <1>3, <1>4, <1>5, UplusTable, Zenon DEF CounterRows

LEMMA PortRowsFit == Table(PortRows,
    {"SRCPORT", "DSTPORT"} \cup {"TCP_FLAGS"} \cup {"TCP_FLAGS_ALIAS"})
<1>1. Table(Rows("UINT16", "KEY", {"SRCPORT", "DSTPORT"}), {"SRCPORT", "DSTPORT"})
  <2>1. \A x \in {"SRCPORT", "DSTPORT"} : RowFits(x, Row("UINT16", "KEY", x))
    BY DEF RowFits, Row, NarrowSlots, WideSlots, AllSlots, Compounds, CalcFuncs, Single,
           NarrowTypes, SizeOf
  <2> QED
    BY <2>1, RowsFit
<1>2. Table(Rows("UINT8", "OR", {"TCP_FLAGS"}), {"TCP_FLAGS"})
  <2>1. \A x \in {"TCP_FLAGS"} : RowFits(x, Row("UINT8", "OR", x))
    BY DEF RowFits, Row, NarrowSlots, WideSlots, AllSlots, Compounds, CalcFuncs, Single,
           NarrowTypes, SizeOf
  <2> QED
    BY <2>1, RowsFit
<1>3. Table(Alias("UINT8", "OR", "TCP_FLAGS_ALIAS", "TCP_FLAGS"), {"TCP_FLAGS_ALIAS"})
  <2>1. RowFits("TCP_FLAGS_ALIAS", Row("UINT8", "OR", "TCP_FLAGS"))
    BY DEF RowFits, Row, NarrowSlots, WideSlots, AllSlots, Compounds, CalcFuncs, Single,
           NarrowTypes, SizeOf
  <2> QED
    BY <2>1, AliasFits
<1> QED
  BY <1>1, <1>2, <1>3, UplusTable, Zenon DEF PortRows

LEMMA AddrRowsFit == Table(AddrRows,
    {"SRCADDR", "DSTADDR", "IP_NEXTHOP"} \cup {"SRCADDR_ALIAS"} \cup {"DSTADDR_ALIAS"} \cup
    {"IP_NEXTHOP_ALIAS"} \cup {"SRC_MASK", "DST_MASK", "TOS", "DST_TOS"})
<1>1. Table(Rows("ADDR", "KEY", {"SRCADDR", "DSTADDR", "IP_NEXTHOP"}), {"SRCADDR", "DSTADDR",
       "IP_NEXTHOP"})
  <2>1. \A x \in {"SRCADDR", "DSTADDR", "IP_NEXTHOP"} : RowFits(x, Row("ADDR", "KEY", x))
    BY DEF RowFits, Row, NarrowSlots, WideSlots, AllSlots, Compounds, CalcFuncs, Single,
           NarrowTypes, SizeOf
  <2> QED
    BY <2>1, RowsFit
<1>2. Table(Alias("ADDR", "KEY", "SRCADDR_ALIAS", "SRCADDR"), {"SRCADDR_ALIAS"})
  <2>1. RowFits("SRCADDR_ALIAS", Row("ADDR", "KEY", "SRCADDR"))
    BY DEF RowFits, Row, NarrowSlots, WideSlots, AllSlots, Compounds, CalcFuncs, Single,
           NarrowTypes, SizeOf
  <2> QED
    BY <2>1, AliasFits
<1>3. Table(Alias("ADDR", "KEY", "DSTADDR_ALIAS", "DSTADDR"), {"DSTADDR_ALIAS"})
  <2>1. RowFits("DSTADDR_ALIAS", Row("ADDR", "KEY", "DSTADDR"))
    BY DEF RowFits, Row, NarrowSlots, WideSlots, AllSlots, Compounds, CalcFuncs, Single,
           NarrowTypes, SizeOf
  <2> QED
    BY <2>1, AliasFits
<1>4. Table(Alias("ADDR", "KEY", "IP_NEXTHOP_ALIAS", "IP_NEXTHOP"), {"IP_NEXTHOP_ALIAS"})
  <2>1. RowFits("IP_NEXTHOP_ALIAS", Row("ADDR", "KEY", "IP_NEXTHOP"))
    BY DEF RowFits, Row, NarrowSlots, WideSlots, AllSlots, Compounds, CalcFuncs, Single,
           NarrowTypes, SizeOf
  <2> QED
    BY <2>1, AliasFits
<1>5. Table(Rows("UINT8", "KEY", {"SRC_MASK", "DST_MASK", "TOS", "DST_TOS"}), {"SRC_MASK",
       "DST_MASK", "TOS", "DST_TOS"})
  <2>1. \A x \in {"SRC_MASK", "DST_MASK", "TOS", "DST_TOS"} : RowFits(x, Row("UINT8", "KEY", x))
    BY DEF RowFits, Row, NarrowSlots, WideSlots, AllSlots, Compounds, CalcFuncs, Single,
           NarrowTypes, SizeOf
  <2> QED
    BY <2>1, RowsFit
<1> QED
  BY <1>1, <1>2, <1>3, <1>4, <1>5, UplusTable, Zenon DEF AddrRows

LEMMA RoutingRowsFit == Table(RoutingRows,
    {"SRCAS", "DSTAS", "BGPNEXTADJACENTAS", "BGPPREVADJACENTAS"} \cup {"BGP_NEXTHOP"} \cup
    {"PROT"})
<1>1. Table(Rows("UINT32", "KEY", {"SRCAS", "DSTAS", "BGPNEXTADJACENTAS", "BGPPREVADJACENTAS"}),
       {"SRCAS", "DSTAS", "BGPNEXTADJACENTAS", "BGPPREVADJACENTAS"})
  <2>1. \A x \in {"SRCAS", "DSTAS", "BGPNEXTADJACENTAS", "BGPPREVADJACENTAS"} : RowFits(x,
         Row("UINT32", "KEY", x))
    BY DEF RowFits, Row, NarrowSlots, WideSlots, AllSlots, Compounds, CalcFuncs, Single,
           NarrowTypes, SizeOf
  <2> QED
    BY <2>1, RowsFit
<1>2. Table(Rows("ADDR", "KEY", {"BGP_NEXTHOP"}), {"BGP_NEXTHOP"})
  <2>1. \A x \in {"BGP_NEXTHOP"} : RowFits(x, Row("ADDR", "KEY", x))
    BY DEF RowFits, Row, NarrowSlots, WideSlots, AllSlots, Compounds, CalcFuncs, Single,
           NarrowTypes, SizeOf
  <2> QED
    BY <2>1, RowsFit
<1>3. Table(Rows("UINT8", "KEY", {"PROT"}), {"PROT"})
  <2>1. \A x \in {"PROT"} : RowFits(x, Row("UINT8", "KEY", x))
    BY DEF RowFits, Row, NarrowSlots, WideSlots, AllSlots, Compounds, CalcFuncs, Single,
           NarrowTypes, SizeOf
  <2> QED
    BY <2>1, RowsFit
<1> QED
  BY <1>1, <1>2, <1>3, UplusTable, Zenon DEF RoutingRows

LEMMA LinkRowsFit == Table(LinkRows,
    {"SRC_VLAN", "DST_VLAN"} \cup {"IN_SRC_MAC", "OUT_SRC_MAC", "IN_DST_MAC", "OUT_DST_MAC"}
    \cup {"MPLS_LABEL"} \cup {"INPUT", "OUTPUT"} \cup {"DIR", "FWD_STATUS"})
<1>1. Table(Rows("UINT16", "KEY", {"SRC_VLAN", "DST_VLAN"}), {"SRC_VLAN", "DST_VLAN"})
  <2>1. \A x \in {"SRC_VLAN", "DST_VLAN"} : RowFits(x, Row("UINT16", "KEY", x))
    BY DEF RowFits, Row, NarrowSlots, WideSlots, AllSlots, Compounds, CalcFuncs, Single,
           NarrowTypes, SizeOf
  <2> QED
    BY <2>1, RowsFit
<1>2. Table(Rows("MAC", "KEY", {"IN_SRC_MAC", "OUT_SRC_MAC", "IN_DST_MAC", "OUT_DST_MAC"}),
       {"IN_SRC_MAC", "OUT_SRC_MAC", "IN_DST_MAC", "OUT_DST_MAC"})
  <2>1. \A x \in {"IN_SRC_MAC", "OUT_SRC_MAC", "IN_DST_MAC", "OUT_DST_MAC"} : RowFits(x,
         Row("MAC", "KEY", x))
    BY DEF RowFits, Row, NarrowSlots, WideSlots, AllSlots, Compounds, CalcFuncs, Single,
           NarrowTypes, SizeOf
  <2> QED
    BY <2>1, RowsFit
<1>3. Table(Rows("MPLS", "KEY", {"MPLS_LABEL"}), {"MPLS_LABEL"})
  <2>1. \A x \in {"MPLS_LABEL"} : RowFits(x, Row("MPLS", "KEY", x))
    BY DEF RowFits, Row, NarrowSlots, WideSlots, AllSlots, Compounds, CalcFuncs, Single,
           NarrowTypes, SizeOf
  <2> QED
    BY <2>1, RowsFit
<1>4. Table(Rows("UINT32", "KEY", {"INPUT", "OUTPUT"}), {"INPUT", "OUTPUT"})
  <2>1. \A x \in {"INPUT", "OUTPUT"} : RowFits(x, Row("UINT32", "KEY", x))
    BY DEF RowFits, Row, NarrowSlots, WideSlots, AllSlots, Compounds, CalcFuncs, Single,
           NarrowTypes, SizeOf
  <2> QED
    BY <2>1, RowsFit
<1>5. Table(Rows("UINT8", "KEY", {"DIR", "FWD_STATUS"}), {"DIR", "FWD_STATUS"})
  <2>1. \A x \in {"DIR", "FWD_STATUS"} : RowFits(x, Row("UINT8", "KEY", x))
    BY DEF RowFits, Row, NarrowSlots, WideSlots, AllSlots, Compounds, CalcFuncs, Single,
           NarrowTypes, SizeOf
  <2> QED
    BY <2>1, RowsFit
<1> QED
  BY <1>1, <1>2, <1>3, <1>4, <1>5, UplusTable, Zenon DEF LinkRows

LEMMA RouterRowsFit == Table(RouterRows,
    {"IP_ROUTER"} \cup {"IP_ROUTER_ALIAS"} \cup {"ENGINE_TYPE", "ENGINE_ID"} \cup
    {"ENGINE_TYPE_ALIAS"} \cup {"ENGINE_ID_ALIAS"})
<1>1. Table(Rows("ADDR", "KEY", {"IP_ROUTER"}), {"IP_ROUTER"})
  <2>1. \A x \in {"IP_ROUTER"} : RowFits(x, Row("ADDR", "KEY", x))
    BY DEF RowFits, Row, NarrowSlots, WideSlots, AllSlots, Compounds, CalcFuncs, Single,
           NarrowTypes, SizeOf
  <2> QED
    BY <2>1, RowsFit
<1>2. Table(Alias("ADDR", "KEY", "IP_ROUTER_ALIAS", "IP_ROUTER"), {"IP_ROUTER_ALIAS"})
  <2>1. RowFits("IP_ROUTER_ALIAS", Row("ADDR", "KEY", "IP_ROUTER"))
    BY DEF RowFits, Row, NarrowSlots, WideSlots, AllSlots, Compounds, CalcFuncs, Single,
           NarrowTypes, SizeOf
  <2> QED
    BY <2>1, AliasFits
<1>3. Table(Rows("UINT8", "KEY", {"ENGINE_TYPE", "ENGINE_ID"}), {"ENGINE_TYPE", "ENGINE_ID"})
  <2>1. \A x \in {"ENGINE_TYPE", "ENGINE_ID"} : RowFits(x, Row("UINT8", "KEY", x))
    BY DEF RowFits, Row, NarrowSlots, WideSlots, AllSlots, Compounds, CalcFuncs, Single,
           NarrowTypes, SizeOf
  <2> QED
    BY <2>1, RowsFit
<1>4. Table(Alias("UINT8", "KEY", "ENGINE_TYPE_ALIAS", "ENGINE_TYPE"), {"ENGINE_TYPE_ALIAS"})
  <2>1. RowFits("ENGINE_TYPE_ALIAS", Row("UINT8", "KEY", "ENGINE_TYPE"))
    BY DEF RowFits, Row, NarrowSlots, WideSlots, AllSlots, Compounds, CalcFuncs, Single,
           NarrowTypes, SizeOf
  <2> QED
    BY <2>1, AliasFits
<1>5. Table(Alias("UINT8", "KEY", "ENGINE_ID_ALIAS", "ENGINE_ID"), {"ENGINE_ID_ALIAS"})
  <2>1. RowFits("ENGINE_ID_ALIAS", Row("UINT8", "KEY", "ENGINE_ID"))
    BY DEF RowFits, Row, NarrowSlots, WideSlots, AllSlots, Compounds, CalcFuncs, Single,
           NarrowTypes, SizeOf
  <2> QED
    BY <2>1, AliasFits
<1> QED
  BY <1>1, <1>2, <1>3, <1>4, <1>5, UplusTable, Zenon DEF RouterRows

LEMMA EventRowsFit == Table(EventRows,
    {"EVENT_TIME"} \cup {"CONN_ID"} \cup {"ICMP_CODE", "ICMP_TYPE", "FW_EVENT"} \cup
    {"ICMP_CODE_ALIAS"} \cup {"ICMP_TYPE_ALIAS"} \cup {"FW_XEVENT", "XLATE_SRC_PORT",
    "XLATE_DST_PORT"} \cup {"XLATE_SRC_IP", "XLATE_DST_IP"})
<1>1. Table(Rows("UINT64", "MIN", {"EVENT_TIME"}), {"EVENT_TIME"})
  <2>1. \A x \in {"EVENT_TIME"} : RowFits(x, Row("UINT64", "MIN", x))
    BY DEF RowFits, Row, NarrowSlots, WideSlots, AllSlots, Compounds, CalcFuncs, Single,
           NarrowTypes, SizeOf
  <2> QED
    BY <2>1, RowsFit
<1>2. Table(Rows("UINT32", "KEY", {"CONN_ID"}), {"CONN_ID"})
  <2>1. \A x \in {"CONN_ID"} : RowFits(x, Row("UINT32", "KEY", x))
    BY DEF RowFits, Row, NarrowSlots, WideSlots, AllSlots, Compounds, CalcFuncs, Single,
           NarrowTypes, SizeOf
  <2> QED
    BY <2>1, RowsFit
<1>3. Table(Rows("UINT8", "KEY", {"ICMP_CODE", "ICMP_TYPE", "FW_EVENT"}), {"ICMP_CODE",
       "ICMP_TYPE", "FW_EVENT"})
  <2>1. \A x \in {"ICMP_CODE", "ICMP_TYPE", "FW_EVENT"} : RowFits(x, Row("UINT8", "KEY", x))
    BY DEF RowFits, Row, NarrowSlots, WideSlots, AllSlots, Compounds, CalcFuncs, Single,
           NarrowTypes, SizeOf
  <2> QED
    BY <2>1, RowsFit
<1>4. Table(Alias("UINT8", "KEY", "ICMP_CODE_ALIAS", "ICMP_CODE"), {"ICMP_CODE_ALIAS"})
  <2>1. RowFits("ICMP_CODE_ALIAS", Row("UINT8", "KEY", "ICMP_CODE"))
    BY DEF RowFits, Row, NarrowSlots, WideSlots, AllSlots, Compounds, CalcFuncs, Single,
           NarrowTypes, SizeOf
  <2> QED
    BY <2>1, AliasFits
<1>5. Table(Alias("UINT8", "KEY", "ICMP_TYPE_ALIAS", "ICMP_TYPE"), {"ICMP_TYPE_ALIAS"})
  <2>1. RowFits("ICMP_TYPE_ALIAS", Row("UINT8", "KEY", "ICMP_TYPE"))
    BY DEF RowFits, Row, NarrowSlots, WideSlots, AllSlots, Compounds, CalcFuncs, Single,
           NarrowTypes, SizeOf
  <2> QED
    BY <2>1, AliasFits
<1>6. Table(Rows("UINT16", "KEY", {"FW_XEVENT", "XLATE_SRC_PORT", "XLATE_DST_PORT"}),
       {"FW_XEVENT", "XLATE_SRC_PORT", "XLATE_DST_PORT"})
  <2>1. \A x \in {"FW_XEVENT", "XLATE_SRC_PORT", "XLATE_DST_PORT"} : RowFits(x, Row("UINT16",
         "KEY", x))
    BY DEF RowFits, Row, NarrowSlots, WideSlots, AllSlots, Compounds, CalcFuncs, Single,
           NarrowTypes, SizeOf
  <2> QED
    BY <2>1, RowsFit
<1>7. Table(Rows("ADDR", "KEY", {"XLATE_SRC_IP", "XLATE_DST_IP"}), {"XLATE_SRC_IP", "XLATE_DST_IP"})
  <2>1. \A x \in {"XLATE_SRC_IP", "XLATE_DST_IP"} : RowFits(x, Row("ADDR", "KEY", x))
    BY DEF RowFits, Row, NarrowSlots, WideSlots, AllSlots, Compounds, CalcFuncs, Single,
           NarrowTypes, SizeOf
  <2> QED
    BY <2>1, RowsFit
<1> QED
  BY <1>1, <1>2, <1>3, <1>4, <1>5, <1>6, <1>7, UplusTable, Zenon DEF EventRows

LEMMA AclRowsFit == Table(AclRows,
    {"INGRESS_ACL_ID", "INGRESS_ACE_ID", "INGRESS_XACE_ID", "EGRESS_ACL_ID", "EGRESS_ACE_ID",
    "EGRESS_XACE_ID"} \cup {"INGRESS_ACL", "EGRESS_ACL"} \cup {"USERNAME"})
<1>1. Table(Rows("UINT32", "KEY", {"INGRESS_ACL_ID", "INGRESS_ACE_ID", "INGRESS_XACE_ID",
       "EGRESS_ACL_ID", "EGRESS_ACE_ID", "EGRESS_XACE_ID"}), {"INGRESS_ACL_ID", "INGRESS_ACE_ID",
       "INGRESS_XACE_ID", "EGRESS_ACL_ID", "EGRESS_ACE_ID", "EGRESS_XACE_ID"})
  <2>1. \A x \in {"INGRESS_ACL_ID", "INGRESS_ACE_ID", "INGRESS_XACE_ID", "EGRESS_ACL_ID",
         "EGRESS_ACE_ID", "EGRESS_XACE_ID"} : RowFits(x, Row("UINT32", "KEY", x))
    BY DEF RowFits, Row, NarrowSlots, WideSlots, AllSlots, Compounds, CalcFuncs, Single,
           NarrowTypes, SizeOf
  <2> QED
    BY <2>1, RowsFit
<1>2. Table(Rows("ACL", "KEY", {"INGRESS_ACL", "EGRESS_ACL"}), {"INGRESS_ACL", "EGRESS_ACL"})
  <2>1. \A x \in {"INGRESS_ACL", "EGRESS_ACL"} : RowFits(x, Row("ACL", "KEY", x))
    BY DEF RowFits, Row, NarrowSlots, WideSlots, AllSlots, Compounds, CalcFuncs, Single,
           NarrowTypes, SizeOf
  <2> QED
    BY <2>1, RowsFit
<1>3. Table(Rows("STRING", "KEY", {"USERNAME"}), {"USERNAME"})
  <2>1. \A x \in {"USERNAME"} : RowFits(x, Row("STRING", "KEY", x))
    BY DEF RowFits, Row, NarrowSlots, WideSlots, AllSlots, Compounds, CalcFuncs, Single,
           NarrowTypes, SizeOf
  <2> QED
    BY <2>1, RowsFit
<1> QED
  BY <1>1, <1>2, <1>3, UplusTable, Zenon DEF AclRows

LEMMA NelRowsFit == Table(NelRows,
    {"INGRESS_VRFID", "EGRESS_VRFID", "INET_FAMILY"} \cup {"EVENT_FLAG"} \cup {"BLOCK_START",
    "BLOCK_END", "BLOCK_STEP", "BLOCK_SIZE"} \cup {"CLIENT_NW_DELAY_USEC",
    "SERVER_NW_DELAY_USEC", "APPL_LATENCY_USEC"})
<1>1. Table(Rows("UINT32", "KEY", {"INGRESS_VRFID", "EGRESS_VRFID", "INET_FAMILY"}),
       {"INGRESS_VRFID", "EGRESS_VRFID", "INET_FAMILY"})
  <2>1. \A x \in {"INGRESS_VRFID", "EGRESS_VRFID", "INET_FAMILY"} : RowFits(x, Row("UINT32",
         "KEY", x))
    BY DEF RowFits, Row, NarrowSlots, WideSlots, AllSlots, Compounds, CalcFuncs, Single,
           NarrowTypes, SizeOf
  <2> QED
    BY <2>1, RowsFit
<1>2. Table(Rows("UINT8", "KEY", {"EVENT_FLAG"}), {"EVENT_FLAG"})
  <2>1. \A x \in {"EVENT_FLAG"} : RowFits(x, Row("UINT8", "KEY", x))
    BY DEF RowFits, Row, NarrowSlots, WideSlots, AllSlots, Compounds, CalcFuncs, Single,
           NarrowTypes, SizeOf
  <2> QED
    BY <2>1, RowsFit
<1>3. Table(Rows("UINT16", "KEY", {"BLOCK_START", "BLOCK_END", "BLOCK_STEP", "BLOCK_SIZE"}),
       {"BLOCK_START", "BLOCK_END", "BLOCK_STEP", "BLOCK_SIZE"})
  <2>1. \A x \in {"BLOCK_START", "BLOCK_END", "BLOCK_STEP", "BLOCK_SIZE"} : RowFits(x,
         Row("UINT16", "KEY", x))
    BY DEF RowFits, Row, NarrowSlots, WideSlots, AllSlots, Compounds, CalcFuncs, Single,
           NarrowTypes, SizeOf
  <2> QED
    BY <2>1, RowsFit
<1>4. Table(Rows("UINT64", "KEY", {"CLIENT_NW_DELAY_USEC", "SERVER_NW_DELAY_USEC",
       "APPL_LATENCY_USEC"}), {"CLIENT_NW_DELAY_USEC", "SERVER_NW_DELAY_USEC",
       "APPL_LATENCY_USEC"})
  <2>1. \A x \in {"CLIENT_NW_DELAY_USEC", "SERVER_NW_DELAY_USEC", "APPL_LATENCY_USEC"} :
         RowFits(x, Row("UINT64", "KEY", x))
    BY DEF RowFits, Row, NarrowSlots, WideSlots, AllSlots, Compounds, CalcFuncs, Single,
           NarrowTypes, SizeOf
  <2> QED
    BY <2>1, RowsFit
<1> QED
  BY <1>1, <1>2, <1>3, <1>4, UplusTable, Zenon DEF NelRows

LEMMA SourceRowsFit == Table(SourceRows,
    {"EXPORTER_IP"} \cup {"SAMPLER_MODE"} \cup {"EXPORTER_ID", "EXPORTER_VERSION",
    "SAMPLER_INTERVAL", "SAMPLER_ID"} \cup {"SEQUENCE_FAILURES"})
<1>1. Table(Rows("ADDR", "KEY", {"EXPORTER_IP"}), {"EXPORTER_IP"})
  <2>1. \A x \in {"EXPORTER_IP"} : RowFits(x, Row("ADDR", "KEY", x))
    BY DEF RowFits, Row, NarrowSlots, WideSlots, AllSlots, Compounds, CalcFuncs, Single,
           NarrowTypes, SizeOf
  <2> QED
    BY <2>1, RowsFit
<1>2. Table(Rows("UINT16", "KEY", {"SAMPLER_MODE"}), {"SAMPLER_MODE"})
  <2>1. \A x \in {"SAMPLER_MODE"} : RowFits(x, Row("UINT16", "KEY", x))
    BY DEF RowFits, Row, NarrowSlots, WideSlots, AllSlots, Compounds, CalcFuncs, Single,
           NarrowTypes, SizeOf
  <2> QED
    BY <2>1, RowsFit
<1>3. Table(Rows("UINT32", "KEY", {"EXPORTER_ID", "EXPORTER_VERSION", "SAMPLER_INTERVAL",
       "SAMPLER_ID"}), {"EXPORTER_ID", "EXPORTER_VERSION", "SAMPLER_INTERVAL", "SAMPLER_ID"})
  <2>1. \A x \in {"EXPORTER_ID", "EXPORTER_VERSION", "SAMPLER_INTERVAL", "SAMPLER_ID"} :
         RowFits(x, Row("UINT32", "KEY", x))
    BY DEF RowFits, Row, NarrowSlots, WideSlots, AllSlots, Compounds, CalcFuncs, Single,
           NarrowTypes, SizeOf
  <2> QED
    BY <2>1, RowsFit
<1>4. Table(Rows("UINT32", "SUM", {"SEQUENCE_FAILURES"}), {"SEQUENCE_FAILURES"})
  <2>1. \A x \in {"SEQUENCE_FAILURES"} : RowFits(x, Row("UINT32", "SUM", x))
    BY DEF RowFits, Row, NarrowSlots, WideSlots, AllSlots, Compounds, CalcFuncs, Single,
           NarrowTypes, SizeOf
  <2> QED
    BY <2>1, RowsFit
<1> QED
  BY <1>1, <1>2, <1>3, <1>4, UplusTable, Zenon DEF SourceRows
LEMMA CalcRowsFit == Table(CalcRows, {"CALC_DURATION", "CALC_BPS", "CALC_PPS", "CALC_BPP", "BREC1"})
<1>1. RowFits("CALC_DURATION", CalcRows["CALC_DURATION"])
  BY DEF RowFits, Row, NarrowSlots, WideSlots, AllSlots, Compounds, CalcFuncs, Single,
           NarrowTypes, SizeOf, CalcRow, CalcRows
<1>2. RowFits("CALC_BPS", CalcRows["CALC_BPS"])
  BY DEF RowFits, Row, NarrowSlots, WideSlots, AllSlots, Compounds, CalcFuncs, Single,
           NarrowTypes, SizeOf, CalcRow, CalcRows
<1>3. RowFits("CALC_PPS", CalcRows["CALC_PPS"])
  BY DEF RowFits, Row, NarrowSlots, WideSlots, AllSlots, Compounds, CalcFuncs, Single,
           NarrowTypes, SizeOf, CalcRow, CalcRows
<1>4. RowFits("CALC_BPP", CalcRows["CALC_BPP"])
  BY DEF RowFits, Row, NarrowSlots, WideSlots, AllSlots, Compounds, CalcFuncs, Single,
           NarrowTypes, SizeOf, CalcRow, CalcRows
<1>5. RowFits("BREC1", CalcRows["BREC1"])
  BY DEF RowFits, Row, NarrowSlots, WideSlots, AllSlots, Compounds, CalcFuncs, Single,
           NarrowTypes, SizeOf, CalcRow, CalcRows
<1>6. DOMAIN CalcRows = {"CALC_DURATION", "CALC_BPS", "CALC_PPS", "CALC_BPP", "BREC1"}
  BY DEF CalcRows
<1> QED
  BY <1>1, <1>2, <1>3, <1>4, <1>5, <1>6 DEF Table, AllFit

LEMMA PairRowsFit ==
  Table(PairRows, {"PAIR_PORT", "PAIR_ADDR", "PAIR_ADDR_ALIAS", "PAIR_AS", "PAIR_IF", "PAIR_VLAN"})
<1>1. RowFits("PAIR_PORT", PairRows["PAIR_PORT"])
  BY DEF RowFits, Row, NarrowSlots, WideSlots, AllSlots, Compounds, CalcFuncs, Single,
           NarrowTypes, SizeOf, PairRow, PairRows
<1>2. RowFits("PAIR_ADDR", PairRows["PAIR_ADDR"])
  BY DEF RowFits, Row, NarrowSlots, WideSlots, AllSlots, Compounds, CalcFuncs, Single,
           NarrowTypes, SizeOf, PairRow, PairRows
<1>3. RowFits("PAIR_ADDR_ALIAS", PairRows["PAIR_ADDR_ALIAS"])
  BY DEF RowFits, Row, NarrowSlots, WideSlots, AllSlots, Compounds, CalcFuncs, Single,
           NarrowTypes, SizeOf, PairRow, PairRows
<1>4. RowFits("PAIR_AS", PairRows["PAIR_AS"])
  BY DEF RowFits, Row, NarrowSlots, WideSlots, AllSlots, Compounds, CalcFuncs, Single,
           NarrowTypes, SizeOf, PairRow, PairRows
<1>5. RowFits("PAIR_IF", PairRows["PAIR_IF"])
  BY DEF RowFits, Row, NarrowSlots, WideSlots, AllSlots, Compounds, CalcFuncs, Single,
           NarrowTypes, SizeOf, PairRow, PairRows
<1>6. RowFits("PAIR_VLAN", PairRows["PAIR_VLAN"])
  BY DEF RowFits, Row, NarrowSlots, WideSlots, AllSlots, Compounds, CalcFuncs, Single,
           NarrowTypes, SizeOf, PairRow, PairRows
<1>7. DOMAIN PairRows = {"PAIR_PORT", "PAIR_ADDR", "PAIR_ADDR_ALIAS", "PAIR_AS", "PAIR_IF",
      "PAIR_VLAN"}
  BY DEF PairRows
<1> QED
  BY <1>1, <1>2, <1>3, <1>4, <1>5, <1>6, <1>7 DEF Table, AllFit

\* Every row of the table fits.
LEMMA DefFits ==
  /\ AllFit(lnf_fields_def)
  /\ DOMAIN lnf_fields_def =
       DOMAIN CounterRows \cup DOMAIN PortRows \cup DOMAIN AddrRows \cup DOMAIN RoutingRows \cup
       DOMAIN LinkRows \cup DOMAIN RouterRows \cup DOMAIN EventRows \cup DOMAIN AclRows \cup
       DOMAIN NelRows \cup DOMAIN SourceRows \cup DOMAIN CalcRows \cup DOMAIN PairRows
<1>1. Table(CounterRows, DOMAIN CounterRows)
  BY CounterRowsFit, Zenon DEF Table
<1>2. Table(PortRows, DOMAIN PortRows)
  BY PortRowsFit, Zenon DEF Table
<1>3. Table(AddrRows, DOMAIN AddrRows)
  BY AddrRowsFit, Zenon DEF Table
<1>4. Table(RoutingRows, DOMAIN RoutingRows)
  BY RoutingRowsFit, Zenon DEF Table
<1>5. Table(LinkRows, DOMAIN LinkRows)
  BY LinkRowsFit, Zenon DEF Table
<1>6. Table(RouterRows, DOMAIN RouterRows)
  BY RouterRowsFit, Zenon DEF Table
<1>7. Table(EventRows, DOMAIN EventRows)
  BY EventRowsFit, Zenon DEF Table
<1>8. Table(AclRows, DOMAIN AclRows)
  BY AclRowsFit, Zenon DEF Table
<1>9. Table(NelRows, DOMAIN NelRows)
  BY NelRowsFit, Zenon DEF Table
<1>10. Table(SourceRows, DOMAIN SourceRows)
  BY SourceRowsFit, Zenon DEF Table
<1>11. Table(CalcRows, DOMAIN CalcRows)
  BY CalcRowsFit, Zenon DEF Table
<1>12. Table(PairRows, DOMAIN PairRows)
  BY PairRowsFit, Zenon DEF Table
<1>13. Table(CounterRows \uplus PortRows \uplus AddrRows \uplus RoutingRows,
       DOMAIN CounterRows \cup DOMAIN PortRows \cup DOMAIN AddrRows \cup DOMAIN RoutingRows)
  BY <1>1, <1>2, <1>3, <1>4, UplusTable, Zenon
<1>14. Table(CounterRows \uplus PortRows \uplus AddrRows \uplus RoutingRows \uplus
       LinkRows \uplus RouterRows \uplus EventRows \uplus AclRows,
       DOMAIN CounterRows \cup DOMAIN PortRows \cup DOMAIN AddrRows \cup DOMAIN RoutingRows \cup
       DOMAIN LinkRows \cup DOMAIN RouterRows \cup DOMAIN EventRows \cup DOMAIN AclRows)
  BY <1>5, <1>6, <1>7, <1>8, <1>13, UplusTable, Zenon
<1>15. Table(CounterRows \uplus PortRows \uplus AddrRows \uplus RoutingRows \uplus
       LinkRows \uplus RouterRows \uplus EventRows \uplus AclRows \uplus
       NelRows \uplus SourceRows \uplus CalcRows \uplus PairRows,
       DOMAIN CounterRows \cup DOMAIN PortRows \cup DOMAIN AddrRows \cup DOMAIN RoutingRows \cup
       DOMAIN LinkRows \cup DOMAIN RouterRows \cup DOMAIN EventRows \cup DOMAIN AclRows \cup
       DOMAIN NelRows \cup DOMAIN SourceRows \cup DOMAIN CalcRows \cup DOMAIN PairRows)
  BY <1>9, <1>10, <1>11, <1>12, <1>14, UplusTable, Zenon
<1> QED
  BY <1>15, Zenon DEF Table, lnf_fields_def

\* The fields by their numbers
LEMMA FieldNumbers ==
  /\ DOMAIN FieldOrder = 1 .. 97 /\ Len(FieldOrder) = 97
  /\ FieldOrder[1] = "FIRST" /\ FieldOrder[2] = "LAST"
  /\ FieldOrder[3] = "RECEIVED" /\ FieldOrder[4] = "DOCTETS"
  /\ FieldOrder[5] = "DPKTS" /\ FieldOrder[6] = "OUT_BYTES"
  /\ FieldOrder[7] = "OUT_PKTS" /\ FieldOrder[8] = "AGGR_FLOWS"
  /\ FieldOrder[9] = "SRCPORT" /\ FieldOrder[10] = "DSTPORT"
  /\ FieldOrder[11] = "TCP_FLAGS" /\ FieldOrder[12] = "SRCADDR"
  /\ FieldOrder[13] = "DSTADDR" /\ FieldOrder[14] = "IP_NEXTHOP"
  /\ FieldOrder[15] = "SRC_MASK" /\ FieldOrder[16] = "DST_MASK"
  /\ FieldOrder[17] = "TOS" /\ FieldOrder[18] = "DST_TOS"
  /\ FieldOrder[19] = "SRCAS" /\ FieldOrder[20] = "DSTAS"
  /\ FieldOrder[21] = "BGPNEXTADJACENTAS" /\ FieldOrder[22] = "BGPPREVADJACENTAS"
  /\ FieldOrder[23] = "BGP_NEXTHOP" /\ FieldOrder[24] = "PROT"
  /\ FieldOrder[25] = "SRC_VLAN" /\ FieldOrder[26] = "DST_VLAN"
  /\ FieldOrder[27] = "IN_SRC_MAC" /\ FieldOrder[28] = "OUT_SRC_MAC"
  /\ FieldOrder[29] = "IN_DST_MAC" /\ FieldOrder[30] = "OUT_DST_MAC"
  /\ FieldOrder[31] = "MPLS_LABEL" /\ FieldOrder[32] = "INPUT"
  /\ FieldOrder[33] = "OUTPUT" /\ FieldOrder[34] = "DIR"
  /\ FieldOrder[35] = "FWD_STATUS" /\ FieldOrder[36] = "IP_ROUTER"
  /\ FieldOrder[37] = "ENGINE_TYPE" /\ FieldOrder[38] = "ENGINE_ID"
  /\ FieldOrder[39] = "EVENT_TIME" /\ FieldOrder[40] = "CONN_ID"
  /\ FieldOrder[41] = "ICMP_CODE" /\ FieldOrder[42] = "ICMP_TYPE"
  /\ FieldOrder[43] = "FW_XEVENT" /\ FieldOrder[44] = "XLATE_SRC_IP"
  /\ FieldOrder[45] = "XLATE_DST_IP" /\ FieldOrder[46] = "XLATE_SRC_PORT"
  /\ FieldOrder[47] = "XLATE_DST_PORT" /\ FieldOrder[48] = "INGRESS_ACL_ID"
  /\ FieldOrder[49] = "INGRESS_ACE_ID" /\ FieldOrder[50] = "INGRESS_XACE_ID"
  /\ FieldOrder[51] = "EGRESS_ACL_ID" /\ FieldOrder[52] = "EGRESS_ACE_ID"
  /\ FieldOrder[53] = "EGRESS_XACE_ID" /\ FieldOrder[54] = "USERNAME"
  /\ FieldOrder[55] = "INGRESS_VRFID" /\ FieldOrder[56] = "EVENT_FLAG"
  /\ FieldOrder[57] = "EGRESS_VRFID" /\ FieldOrder[58] = "BLOCK_START"
  /\ FieldOrder[59] = "BLOCK_END" /\ FieldOrder[60] = "BLOCK_STEP"
  /\ FieldOrder[61] = "BLOCK_SIZE" /\ FieldOrder[62] = "CLIENT_NW_DELAY_USEC"
  /\ FieldOrder[63] = "SERVER_NW_DELAY_USEC" /\ FieldOrder[64] = "APPL_LATENCY_USEC"
  /\ FieldOrder[65] = "FW_EVENT" /\ FieldOrder[66] = "INGRESS_ACL"
  /\ FieldOrder[67] = "EGRESS_ACL" /\ FieldOrder[68] = "INET_FAMILY"
  /\ FieldOrder[69] = "EXPORTER_IP" /\ FieldOrder[70] = "EXPORTER_ID"
  /\ FieldOrder[71] = "EXPORTER_VERSION" /\ FieldOrder[72] = "SEQUENCE_FAILURES"
  /\ FieldOrder[73] = "SAMPLER_MODE" /\ FieldOrder[74] = "SAMPLER_INTERVAL"
  /\ FieldOrder[75] = "SAMPLER_ID" /\ FieldOrder[76] = "DPKTS_ALIAS"
  /\ FieldOrder[77] = "OUT_PKTS_ALIAS" /\ FieldOrder[78] = "IP_NEXTHOP_ALIAS"
  /\ FieldOrder[79] = "IP_ROUTER_ALIAS" /\ FieldOrder[80] = "ENGINE_TYPE_ALIAS"
  /\ FieldOrder[81] = "ENGINE_ID_ALIAS" /\ FieldOrder[82] = "ICMP_CODE_ALIAS"
  /\ FieldOrder[83] = "ICMP_TYPE_ALIAS" /\ FieldOrder[84] = "TCP_FLAGS_ALIAS"
  /\ FieldOrder[85] = "SRCADDR_ALIAS" /\ FieldOrder[86] = "DSTADDR_ALIAS"
  /\ FieldOrder[87] = "CALC_DURATION" /\ FieldOrder[88] = "CALC_BPS"
  /\ FieldOrder[89] = "CALC_PPS" /\ FieldOrder[90] = "CALC_BPP"
  /\ FieldOrder[91] = "BREC1" /\ FieldOrder[92] = "PAIR_PORT"
  /\ FieldOrder[93] = "PAIR_ADDR" /\ FieldOrder[94] = "PAIR_AS"
  /\ FieldOrder[95] = "PAIR_IF" /\ FieldOrder[96] = "PAIR_VLAN"
  /\ FieldOrder[97] = "PAIR_ADDR_ALIAS"
BY DEF FieldOrder

\* Fields are what the 97 numbers name.
LEMMA FieldsIndexed == Fields = {FieldOrder[i] : i \in 1 .. 97}
BY FieldNumbers DEF Fields, Range

\* Every field is defined.
LEMMA FieldsDefined == Fields \subseteq DOMAIN lnf_fields_def
<1> DEFINE D == DOMAIN lnf_fields_def
<1>1. /\ "FIRST" \in D /\ "LAST" \in D
      /\ "RECEIVED" \in D /\ "DOCTETS" \in D
      /\ "DPKTS" \in D /\ "OUT_BYTES" \in D
      /\ "OUT_PKTS" \in D /\ "AGGR_FLOWS" \in D
  BY DefFits, CounterRowsFit DEF Table
<1>2. /\ "SRCPORT" \in D /\ "DSTPORT" \in D
      /\ "TCP_FLAGS" \in D /\ "SRCADDR" \in D
      /\ "DSTADDR" \in D /\ "IP_NEXTHOP" \in D
      /\ "SRC_MASK" \in D /\ "DST_MASK" \in D
  BY DefFits, PortRowsFit, AddrRowsFit DEF Table
<1>3. /\ "TOS" \in D /\ "DST_TOS" \in D
      /\ "SRCAS" \in D /\ "DSTAS" \in D
      /\ "BGPNEXTADJACENTAS" \in D /\ "BGPPREVADJACENTAS" \in D
      /\ "BGP_NEXTHOP" \in D /\ "PROT" \in D
  BY DefFits, AddrRowsFit, RoutingRowsFit DEF Table
<1>4. /\ "SRC_VLAN" \in D /\ "DST_VLAN" \in D
      /\ "IN_SRC_MAC" \in D /\ "OUT_SRC_MAC" \in D
      /\ "IN_DST_MAC" \in D /\ "OUT_DST_MAC" \in D
      /\ "MPLS_LABEL" \in D /\ "INPUT" \in D
  BY DefFits, LinkRowsFit DEF Table
<1>5. /\ "OUTPUT" \in D /\ "DIR" \in D
      /\ "FWD_STATUS" \in D /\ "IP_ROUTER" \in D
      /\ "ENGINE_TYPE" \in D /\ "ENGINE_ID" \in D
      /\ "EVENT_TIME" \in D /\ "CONN_ID" \in D
  BY DefFits, LinkRowsFit, RouterRowsFit, EventRowsFit DEF Table
<1>6. /\ "ICMP_CODE" \in D /\ "ICMP_TYPE" \in D
      /\ "FW_XEVENT" \in D /\ "XLATE_SRC_IP" \in D
      /\ "XLATE_DST_IP" \in D /\ "XLATE_SRC_PORT" \in D
      /\ "XLATE_DST_PORT" \in D /\ "INGRESS_ACL_ID" \in D
  BY DefFits, EventRowsFit, AclRowsFit DEF Table
<1>7. /\ "INGRESS_ACE_ID" \in D /\ "INGRESS_XACE_ID" \in D
      /\ "EGRESS_ACL_ID" \in D /\ "EGRESS_ACE_ID" \in D
      /\ "EGRESS_XACE_ID" \in D /\ "USERNAME" \in D
      /\ "INGRESS_VRFID" \in D /\ "EVENT_FLAG" \in D
  BY DefFits, AclRowsFit, NelRowsFit DEF Table
<1>8. /\ "EGRESS_VRFID" \in D /\ "BLOCK_START" \in D
      /\ "BLOCK_END" \in D /\ "BLOCK_STEP" \in D
      /\ "BLOCK_SIZE" \in D /\ "CLIENT_NW_DELAY_USEC" \in D
      /\ "SERVER_NW_DELAY_USEC" \in D /\ "APPL_LATENCY_USEC" \in D
  BY DefFits, NelRowsFit DEF Table
<1>9. /\ "FW_EVENT" \in D /\ "INGRESS_ACL" \in D
      /\ "EGRESS_ACL" \in D /\ "INET_FAMILY" \in D
      /\ "EXPORTER_IP" \in D /\ "EXPORTER_ID" \in D
      /\ "EXPORTER_VERSION" \in D /\ "SEQUENCE_FAILURES" \in D
  BY DefFits, EventRowsFit, AclRowsFit, NelRowsFit, SourceRowsFit DEF Table
<1>10. /\ "SAMPLER_MODE" \in D /\ "SAMPLER_INTERVAL" \in D
       /\ "SAMPLER_ID" \in D /\ "DPKTS_ALIAS" \in D
       /\ "OUT_PKTS_ALIAS" \in D /\ "IP_NEXTHOP_ALIAS" \in D
       /\ "IP_ROUTER_ALIAS" \in D /\ "ENGINE_TYPE_ALIAS" \in D
  BY DefFits, CounterRowsFit, AddrRowsFit, RouterRowsFit, SourceRowsFit DEF Table
<1>11. /\ "ENGINE_ID_ALIAS" \in D /\ "ICMP_CODE_ALIAS" \in D
       /\ "ICMP_TYPE_ALIAS" \in D /\ "TCP_FLAGS_ALIAS" \in D
       /\ "SRCADDR_ALIAS" \in D /\ "DSTADDR_ALIAS" \in D
       /\ "CALC_DURATION" \in D /\ "CALC_BPS" \in D
  BY DefFits, PortRowsFit, AddrRowsFit, RouterRowsFit, EventRowsFit, CalcRowsFit DEF Table
<1>12. /\ "CALC_PPS" \in D /\ "CALC_BPP" \in D
       /\ "BREC1" \in D /\ "PAIR_PORT" \in D
       /\ "PAIR_ADDR" \in D /\ "PAIR_AS" \in D
       /\ "PAIR_IF" \in D /\ "PAIR_VLAN" \in D
  BY DefFits, CalcRowsFit, PairRowsFit DEF Table
<1>13. /\ "PAIR_ADDR_ALIAS" \in D
  BY DefFits, PairRowsFit DEF Table
<1> HIDE DEF D
<1>14. \A i \in 1 .. 97 : FieldOrder[i] \in D
  BY FieldNumbers, <1>1, <1>2, <1>3, <1>4, <1>5, <1>6, <1>7, <1>8, <1>9, <1>10, <1>11, <1>12, <1>13
<1> QED
  BY <1>14, FieldsIndexed DEF D

\* Slots and compounds are fields.
LEMMA SlotsAreFields == AllSlots \cup Compounds \subseteq Fields
<1>1. /\ "FIRST" \in Fields /\ "LAST" \in Fields
      /\ "RECEIVED" \in Fields /\ "DOCTETS" \in Fields
      /\ "DPKTS" \in Fields /\ "OUT_BYTES" \in Fields
      /\ "OUT_PKTS" \in Fields /\ "AGGR_FLOWS" \in Fields
  BY FieldNumbers, FieldsIndexed
<1>2. /\ "SRCPORT" \in Fields /\ "DSTPORT" \in Fields
      /\ "TCP_FLAGS" \in Fields /\ "SRCADDR" \in Fields
      /\ "DSTADDR" \in Fields /\ "IP_NEXTHOP" \in Fields
      /\ "SRC_MASK" \in Fields /\ "DST_MASK" \in Fields
  BY FieldNumbers, FieldsIndexed
<1>3. /\ "TOS" \in Fields /\ "DST_TOS" \in Fields
      /\ "SRCAS" \in Fields /\ "DSTAS" \in Fields
      /\ "BGPNEXTADJACENTAS" \in Fields /\ "BGPPREVADJACENTAS" \in Fields
      /\ "BGP_NEXTHOP" \in Fields /\ "PROT" \in Fields
  BY FieldNumbers, FieldsIndexed
<1>4. /\ "SRC_VLAN" \in Fields /\ "DST_VLAN" \in Fields
      /\ "IN_SRC_MAC" \in Fields /\ "OUT_SRC_MAC" \in Fields
      /\ "IN_DST_MAC" \in Fields /\ "OUT_DST_MAC" \in Fields
      /\ "MPLS_LABEL" \in Fields /\ "INPUT" \in Fields
  BY FieldNumbers, FieldsIndexed
<1>5. /\ "OUTPUT" \in Fields /\ "DIR" \in Fields
      /\ "FWD_STATUS" \in Fields /\ "IP_ROUTER" \in Fields
      /\ "ENGINE_TYPE" \in Fields /\ "ENGINE_ID" \in Fields
      /\ "EVENT_TIME" \in Fields /\ "CONN_ID" \in Fields
  BY FieldNumbers, FieldsIndexed
<1>6. /\ "ICMP_CODE" \in Fields /\ "ICMP_TYPE" \in Fields
      /\ "FW_XEVENT" \in Fields /\ "XLATE_SRC_IP" \in Fields
      /\ "XLATE_DST_IP" \in Fields /\ "XLATE_SRC_PORT" \in Fields
      /\ "XLATE_DST_PORT" \in Fields /\ "INGRESS_ACL_ID" \in Fields
  BY FieldNumbers, FieldsIndexed
<1>7. /\ "INGRESS_ACE_ID" \in Fields /\ "INGRESS_XACE_ID" \in Fields
      /\ "EGRESS_ACL_ID" \in Fields /\ "EGRESS_ACE_ID" \in Fields
      /\ "EGRESS_XACE_ID" \in Fields /\ "USERNAME" \in Fields
      /\ "INGRESS_VRFID" \in Fields /\ "EVENT_FLAG" \in Fields
  BY FieldNumbers, FieldsIndexed
<1>8. /\ "EGRESS_VRFID" \in Fields /\ "BLOCK_START" \in Fields
      /\ "BLOCK_END" \in Fields /\ "BLOCK_STEP" \in Fields
      /\ "BLOCK_SIZE" \in Fields /\ "CLIENT_NW_DELAY_USEC" \in Fields
      /\ "SERVER_NW_DELAY_USEC" \in Fields /\ "APPL_LATENCY_USEC" \in Fields
  BY FieldNumbers, FieldsIndexed
<1>9. /\ "FW_EVENT" \in Fields /\ "INGRESS_ACL" \in Fields
      /\ "EGRESS_ACL" \in Fields /\ "INET_FAMILY" \in Fields
      /\ "EXPORTER_IP" \in Fields /\ "EXPORTER_ID" \in Fields
      /\ "EXPORTER_VERSION" \in Fields /\ "SEQUENCE_FAILURES" \in Fields
  BY FieldNumbers, FieldsIndexed
<1>10. /\ "SAMPLER_MODE" \in Fields /\ "SAMPLER_INTERVAL" \in Fields
       /\ "SAMPLER_ID" \in Fields /\ "DPKTS_ALIAS" \in Fields
       /\ "OUT_PKTS_ALIAS" \in Fields /\ "IP_NEXTHOP_ALIAS" \in Fields
       /\ "IP_ROUTER_ALIAS" \in Fields /\ "ENGINE_TYPE_ALIAS" \in Fields
  BY FieldNumbers, FieldsIndexed
<1>11. /\ "ENGINE_ID_ALIAS" \in Fields /\ "ICMP_CODE_ALIAS" \in Fields
       /\ "ICMP_TYPE_ALIAS" \in Fields /\ "TCP_FLAGS_ALIAS" \in Fields
       /\ "SRCADDR_ALIAS" \in Fields /\ "DSTADDR_ALIAS" \in Fields
       /\ "CALC_DURATION" \in Fields /\ "CALC_BPS" \in Fields
  BY FieldNumbers, FieldsIndexed
<1>12. /\ "CALC_PPS" \in Fields /\ "CALC_BPP" \in Fields
       /\ "BREC1" \in Fields /\ "PAIR_PORT" \in Fields
       /\ "PAIR_ADDR" \in Fields /\ "PAIR_AS" \in Fields
       /\ "PAIR_IF" \in Fields /\ "PAIR_VLAN" \in Fields
  BY FieldNumbers, FieldsIndexed
<1>13. /\ "PAIR_ADDR_ALIAS" \in Fields
  BY FieldNumbers, FieldsIndexed
<1> QED
  BY <1>1, <1>2, <1>3, <1>4, <1>5, <1>6, <1>7, <1>8, <1>9, <1>10, <1>11, <1>12, <1>13 DEF
     AllSlots, NarrowSlots, WideSlots, Compounds
\* A bit and, where there are two widths or families, the other one
BitPairs ==
  {{"EX_OUT_PKG_8", "EX_OUT_PKG_4"}, {"EX_OUT_BYTES_8", "EX_OUT_BYTES_4"},
   {"EX_AGGR_FLOWS_8", "EX_AGGR_FLOWS_4"}, {"EX_NEXT_HOP_v4", "EX_NEXT_HOP_v6"},
   {"EX_AS_4", "EX_AS_2"}, {"EX_NEXT_HOP_BGP_v4", "EX_NEXT_HOP_BGP_v6"},
   {"EX_IO_SNMP_4", "EX_IO_SNMP_2"}, {"EX_ROUTER_IP_v4", "EX_ROUTER_IP_v6"},
   {"EX_NSEL_XLATE_IP_v4", "EX_NSEL_XLATE_IP_v6"}, {"EX_NSEL_USER", "EX_NSEL_USER_MAX"},
   {"LNF_REC_EXPORTER", "map_ref"}}

\* Slots that are always set, and those of the access control lists.
Basics == {"FIRST", "LAST", "DPKTS", "DOCTETS", "SRCPORT", "DSTPORT", "SRCADDR", "DSTADDR", "PROT"}
Acls == {"INGRESS_ACL_ID", "INGRESS_ACE_ID", "INGRESS_XACE_ID",
         "EGRESS_ACL_ID", "EGRESS_ACE_ID", "EGRESS_XACE_ID"}

\* What the proof uses of an accessor: the setter sets bits the getter looks
\* at, and slots that share a bit have the same bits, but for
\* SEQUENCE_FAILURES, which has one of the exporter's.
AccessFits(s, a) ==
  /\ a.set4 \cup a.set6 \subseteq a.bits
  /\ a.bits # {} => a.set4 # {} /\ a.set6 # {}
  /\ \/ a.bits \in BitPairs
     \/ \A b \in a.bits : /\ a.bits = {b}
                          /\ (\A p \in BitPairs : b \notin p) \/ s = "SEQUENCE_FAILURES"
  /\ s \in Basics => a.bits = {}
  /\ s \in Acls => a.bits = {"EX_NSEL_ACL"}
  /\ s = "SRCADDR" => a.flag = {"FLAG_IPV6_ADDR"}
  /\ "EX_AGGR_FLOWS_8" \in a.bits => s = "AGGR_FLOWS"
  /\ s = "AGGR_FLOWS" => a.set4 = {"EX_AGGR_FLOWS_8"} /\ a.set6 = {"EX_AGGR_FLOWS_8"}

\* The accessors of the slots S
Accessors(t, S) == (\A x \in DOMAIN t : AccessFits(x, t[x])) /\ DOMAIN t = S

\* So are the tables of accessors.
LEMMA UplusAccessors ==
  ASSUME NEW f, NEW g, NEW S, NEW T, Accessors(f, S), Accessors(g, T)
  PROVE  Accessors(f \uplus g, S \cup T)
BY DEF \uplus, Accessors

LEMMA AlwaysFits ==
  ASSUME NEW names, \A x \in names : AccessFits(x, Acc({}, {}, {}, {}))
  PROVE  Accessors(Always(names), names)
BY DEF Accessors, Always

LEMMA UnderFits ==
  ASSUME NEW bit, NEW names, \A x \in names : AccessFits(x, Acc({bit}, {bit}, {bit}, {}))
  PROVE  Accessors(Under(bit, names), names)
BY DEF Accessors, Under

LEMMA EitherFits ==
  ASSUME NEW large, NEW small, NEW names,
         \A x \in names : AccessFits(x, Acc({large, small}, {large}, {large}, {}))
  PROVE  Accessors(Either(large, small, names), names)
BY DEF Accessors, Either

LEMMA AddrUnderFits ==
  ASSUME NEW b4, NEW b6, NEW flag, NEW names,
         \A x \in names : AccessFits(x, Acc({b4, b6}, {b4}, {b6}, flag))
  PROVE  Accessors(AddrUnder(b4, b6, flag, names), names)
BY DEF Accessors, AddrUnder

\* The accessors fit, each table with its slots.
LEMMA CounterAccessFits == Accessors(CounterAccess,
    {"FIRST", "LAST", "DPKTS", "DOCTETS", "SRCPORT", "DSTPORT", "TCP_FLAGS"} \cup {"RECEIVED"}
    \cup {"OUT_PKTS"} \cup {"OUT_BYTES"} \cup {"AGGR_FLOWS"})
<1>1. Accessors(Always({"FIRST", "LAST", "DPKTS", "DOCTETS", "SRCPORT", "DSTPORT", "TCP_FLAGS"}),
      {"FIRST", "LAST", "DPKTS", "DOCTETS", "SRCPORT", "DSTPORT", "TCP_FLAGS"})
  <2>1. \A x \in {"FIRST", "LAST", "DPKTS", "DOCTETS", "SRCPORT", "DSTPORT", "TCP_FLAGS"} :
        AccessFits(x, Acc({}, {}, {}, {}))
    BY DEF AccessFits, Acc, BitPairs, Basics, Acls
  <2> QED
    BY <2>1, AlwaysFits
<1>2. Accessors(Under("EX_RECEIVED", {"RECEIVED"}), {"RECEIVED"})
  <2>1. \A x \in {"RECEIVED"} : AccessFits(x, Acc({"EX_RECEIVED"}, {"EX_RECEIVED"},
        {"EX_RECEIVED"}, {}))
    BY DEF AccessFits, Acc, BitPairs, Basics, Acls
  <2> QED
    BY <2>1, UnderFits
<1>3. Accessors(Either("EX_OUT_PKG_8", "EX_OUT_PKG_4", {"OUT_PKTS"}), {"OUT_PKTS"})
  <2>1. \A x \in {"OUT_PKTS"} : AccessFits(x, Acc({"EX_OUT_PKG_8", "EX_OUT_PKG_4"},
        {"EX_OUT_PKG_8"}, {"EX_OUT_PKG_8"}, {}))
    BY DEF AccessFits, Acc, BitPairs, Basics, Acls
  <2> QED
    BY <2>1, EitherFits
<1>4. Accessors(Either("EX_OUT_BYTES_8", "EX_OUT_BYTES_4", {"OUT_BYTES"}), {"OUT_BYTES"})
  <2>1. \A x \in {"OUT_BYTES"} : AccessFits(x, Acc({"EX_OUT_BYTES_8", "EX_OUT_BYTES_4"},
        {"EX_OUT_BYTES_8"}, {"EX_OUT_BYTES_8"}, {}))
    BY DEF AccessFits, Acc, BitPairs, Basics, Acls
  <2> QED
    BY <2>1, EitherFits
<1>5. Accessors(Either("EX_AGGR_FLOWS_8", "EX_AGGR_FLOWS_4", {"AGGR_FLOWS"}), {"AGGR_FLOWS"})
  <2>1. \A x \in {"AGGR_FLOWS"} : AccessFits(x, Acc({"EX_AGGR_FLOWS_8", "EX_AGGR_FLOWS_4"},
        {"EX_AGGR_FLOWS_8"}, {"EX_AGGR_FLOWS_8"}, {}))
    BY DEF AccessFits, Acc, BitPairs, Basics, Acls
  <2> QED
    BY <2>1, EitherFits
<1> QED
  BY <1>1, <1>2, <1>3, <1>4, <1>5, UplusAccessors, Zenon DEF CounterAccess

LEMMA AddrAccessFits == Accessors(AddrAccess,
    {"SRCADDR", "DSTADDR"} \cup {"IP_NEXTHOP"} \cup {"SRC_MASK", "DST_MASK", "DST_TOS"} \cup
    {"TOS"})
<1>1. Accessors([f \in {"SRCADDR", "DSTADDR"} |-> Acc({}, {}, {}, {"FLAG_IPV6_ADDR"})],
      {"SRCADDR", "DSTADDR"})
  <2>1. \A x \in {"SRCADDR", "DSTADDR"} : AccessFits(x, Acc({}, {}, {}, {"FLAG_IPV6_ADDR"}))
    BY DEF AccessFits, Acc, BitPairs, Basics, Acls
  <2> QED
    BY <2>1 DEF Accessors
<1>2. Accessors(AddrUnder("EX_NEXT_HOP_v4", "EX_NEXT_HOP_v6", {"FLAG_IPV6_NH"}, {"IP_NEXTHOP"}),
      {"IP_NEXTHOP"})
  <2>1. \A x \in {"IP_NEXTHOP"} : AccessFits(x, Acc({"EX_NEXT_HOP_v4", "EX_NEXT_HOP_v6"},
        {"EX_NEXT_HOP_v4"}, {"EX_NEXT_HOP_v6"}, {"FLAG_IPV6_NH"}))
    BY DEF AccessFits, Acc, BitPairs, Basics, Acls
  <2> QED
    BY <2>1, AddrUnderFits
<1>3. Accessors(Under("EX_MULIPLE", {"SRC_MASK", "DST_MASK", "DST_TOS"}), {"SRC_MASK", "DST_MASK",
      "DST_TOS"})
  <2>1. \A x \in {"SRC_MASK", "DST_MASK", "DST_TOS"} : AccessFits(x, Acc({"EX_MULIPLE"},
        {"EX_MULIPLE"}, {"EX_MULIPLE"}, {}))
    BY DEF AccessFits, Acc, BitPairs, Basics, Acls
  <2> QED
    BY <2>1, UnderFits
<1>4. Accessors(Always({"TOS"}), {"TOS"})
  <2>1. \A x \in {"TOS"} : AccessFits(x, Acc({}, {}, {}, {}))
    BY DEF AccessFits, Acc, BitPairs, Basics, Acls
  <2> QED
    BY <2>1, AlwaysFits
<1> QED
  BY <1>1, <1>2, <1>3, <1>4, UplusAccessors, Zenon DEF AddrAccess

LEMMA RoutingAccessFits == Accessors(RoutingAccess,
    {"SRCAS", "DSTAS"} \cup {"BGPNEXTADJACENTAS", "BGPPREVADJACENTAS"} \cup {"BGP_NEXTHOP"} \cup
    {"PROT"} \cup {"SRC_VLAN", "DST_VLAN"})
<1>1. Accessors(Either("EX_AS_4", "EX_AS_2", {"SRCAS", "DSTAS"}), {"SRCAS", "DSTAS"})
  <2>1. \A x \in {"SRCAS", "DSTAS"} : AccessFits(x, Acc({"EX_AS_4", "EX_AS_2"}, {"EX_AS_4"},
        {"EX_AS_4"}, {}))
    BY DEF AccessFits, Acc, BitPairs, Basics, Acls
  <2> QED
    BY <2>1, EitherFits
<1>2. Accessors(Under("EX_BGPADJ", {"BGPNEXTADJACENTAS", "BGPPREVADJACENTAS"}),
      {"BGPNEXTADJACENTAS", "BGPPREVADJACENTAS"})
  <2>1. \A x \in {"BGPNEXTADJACENTAS", "BGPPREVADJACENTAS"} : AccessFits(x, Acc({"EX_BGPADJ"},
        {"EX_BGPADJ"}, {"EX_BGPADJ"}, {}))
    BY DEF AccessFits, Acc, BitPairs, Basics, Acls
  <2> QED
    BY <2>1, UnderFits
<1>3. Accessors(AddrUnder("EX_NEXT_HOP_BGP_v4", "EX_NEXT_HOP_BGP_v6", {"FLAG_IPV6_NHB"},
      {"BGP_NEXTHOP"}), {"BGP_NEXTHOP"})
  <2>1. \A x \in {"BGP_NEXTHOP"} : AccessFits(x, Acc({"EX_NEXT_HOP_BGP_v4", "EX_NEXT_HOP_BGP_v6"},
        {"EX_NEXT_HOP_BGP_v4"}, {"EX_NEXT_HOP_BGP_v6"}, {"FLAG_IPV6_NHB"}))
    BY DEF AccessFits, Acc, BitPairs, Basics, Acls
  <2> QED
    BY <2>1, AddrUnderFits
<1>4. Accessors(Always({"PROT"}), {"PROT"})
  <2>1. \A x \in {"PROT"} : AccessFits(x, Acc({}, {}, {}, {}))
    BY DEF AccessFits, Acc, BitPairs, Basics, Acls
  <2> QED
    BY <2>1, AlwaysFits
<1>5. Accessors(Under("EX_VLAN", {"SRC_VLAN", "DST_VLAN"}), {"SRC_VLAN", "DST_VLAN"})
  <2>1. \A x \in {"SRC_VLAN", "DST_VLAN"} : AccessFits(x, Acc({"EX_VLAN"}, {"EX_VLAN"},
        {"EX_VLAN"}, {}))
    BY DEF AccessFits, Acc, BitPairs, Basics, Acls
  <2> QED
    BY <2>1, UnderFits
<1> QED
  BY <1>1, <1>2, <1>3, <1>4, <1>5, UplusAccessors, Zenon DEF RoutingAccess

LEMMA LinkAccessFits == Accessors(LinkAccess,
    {"IN_SRC_MAC", "OUT_DST_MAC"} \cup {"OUT_SRC_MAC", "IN_DST_MAC"} \cup {"MPLS_LABEL"} \cup
    {"INPUT", "OUTPUT"} \cup {"DIR"} \cup {"FWD_STATUS"})
<1>1. Accessors(Under("EX_MAC_1", {"IN_SRC_MAC", "OUT_DST_MAC"}), {"IN_SRC_MAC", "OUT_DST_MAC"})
  <2>1. \A x \in {"IN_SRC_MAC", "OUT_DST_MAC"} : AccessFits(x, Acc({"EX_MAC_1"}, {"EX_MAC_1"},
        {"EX_MAC_1"}, {}))
    BY DEF AccessFits, Acc, BitPairs, Basics, Acls
  <2> QED
    BY <2>1, UnderFits
<1>2. Accessors(Under("EX_MAC_2", {"OUT_SRC_MAC", "IN_DST_MAC"}), {"OUT_SRC_MAC", "IN_DST_MAC"})
  <2>1. \A x \in {"OUT_SRC_MAC", "IN_DST_MAC"} : AccessFits(x, Acc({"EX_MAC_2"}, {"EX_MAC_2"},
        {"EX_MAC_2"}, {}))
    BY DEF AccessFits, Acc, BitPairs, Basics, Acls
  <2> QED
    BY <2>1, UnderFits
<1>3. Accessors(Under("EX_MPLS", {"MPLS_LABEL"}), {"MPLS_LABEL"})
  <2>1. \A x \in {"MPLS_LABEL"} : AccessFits(x, Acc({"EX_MPLS"}, {"EX_MPLS"}, {"EX_MPLS"}, {}))
    BY DEF AccessFits, Acc, BitPairs, Basics, Acls
  <2> QED
    BY <2>1, UnderFits
<1>4. Accessors(Either("EX_IO_SNMP_4", "EX_IO_SNMP_2", {"INPUT", "OUTPUT"}), {"INPUT", "OUTPUT"})
  <2>1. \A x \in {"INPUT", "OUTPUT"} : AccessFits(x, Acc({"EX_IO_SNMP_4", "EX_IO_SNMP_2"},
        {"EX_IO_SNMP_4"}, {"EX_IO_SNMP_4"}, {}))
    BY DEF AccessFits, Acc, BitPairs, Basics, Acls
  <2> QED
    BY <2>1, EitherFits
<1>5. Accessors(Under("EX_MULIPLE", {"DIR"}), {"DIR"})
  <2>1. \A x \in {"DIR"} : AccessFits(x, Acc({"EX_MULIPLE"}, {"EX_MULIPLE"}, {"EX_MULIPLE"}, {}))
    BY DEF AccessFits, Acc, BitPairs, Basics, Acls
  <2> QED
    BY <2>1, UnderFits
<1>6. Accessors(Always({"FWD_STATUS"}), {"FWD_STATUS"})
  <2>1. \A x \in {"FWD_STATUS"} : AccessFits(x, Acc({}, {}, {}, {}))
    BY DEF AccessFits, Acc, BitPairs, Basics, Acls
  <2> QED
    BY <2>1, AlwaysFits
<1> QED
  BY <1>1, <1>2, <1>3, <1>4, <1>5, <1>6, UplusAccessors, Zenon DEF LinkAccess

LEMMA EventAccessFits == Accessors(EventAccess,
    {"IP_ROUTER"} \cup {"ENGINE_TYPE", "ENGINE_ID"} \cup {"EVENT_TIME", "CONN_ID", "ICMP_CODE",
    "ICMP_TYPE", "FW_XEVENT", "FW_EVENT"})
<1>1. Accessors(AddrUnder("EX_ROUTER_IP_v4", "EX_ROUTER_IP_v6", {"FLAG_IPV6_EXP"}, {"IP_ROUTER"}),
      {"IP_ROUTER"})
  <2>1. \A x \in {"IP_ROUTER"} : AccessFits(x, Acc({"EX_ROUTER_IP_v4", "EX_ROUTER_IP_v6"},
        {"EX_ROUTER_IP_v4"}, {"EX_ROUTER_IP_v6"}, {"FLAG_IPV6_EXP"}))
    BY DEF AccessFits, Acc, BitPairs, Basics, Acls
  <2> QED
    BY <2>1, AddrUnderFits
<1>2. Accessors(Under("EX_ROUTER_ID", {"ENGINE_TYPE", "ENGINE_ID"}), {"ENGINE_TYPE", "ENGINE_ID"})
  <2>1. \A x \in {"ENGINE_TYPE", "ENGINE_ID"} : AccessFits(x, Acc({"EX_ROUTER_ID"},
        {"EX_ROUTER_ID"}, {"EX_ROUTER_ID"}, {}))
    BY DEF AccessFits, Acc, BitPairs, Basics, Acls
  <2> QED
    BY <2>1, UnderFits
<1>3. Accessors(Under("EX_NSEL_COMMON", {"EVENT_TIME", "CONN_ID", "ICMP_CODE", "ICMP_TYPE",
      "FW_XEVENT", "FW_EVENT"}), {"EVENT_TIME", "CONN_ID", "ICMP_CODE", "ICMP_TYPE", "FW_XEVENT",
      "FW_EVENT"})
  <2>1. \A x \in {"EVENT_TIME", "CONN_ID", "ICMP_CODE", "ICMP_TYPE", "FW_XEVENT", "FW_EVENT"} :
        AccessFits(x, Acc({"EX_NSEL_COMMON"}, {"EX_NSEL_COMMON"}, {"EX_NSEL_COMMON"}, {}))
    BY DEF AccessFits, Acc, BitPairs, Basics, Acls
  <2> QED
    BY <2>1, UnderFits
<1> QED
  BY <1>1, <1>2, <1>3, UplusAccessors, Zenon DEF EventAccess

LEMMA AclAccessFits == Accessors(AclAccess,
    {"XLATE_SRC_IP", "XLATE_DST_IP"} \cup {"XLATE_SRC_PORT", "XLATE_DST_PORT"} \cup
    {"INGRESS_ACL_ID", "INGRESS_ACE_ID", "INGRESS_XACE_ID", "EGRESS_ACL_ID", "EGRESS_ACE_ID",
    "EGRESS_XACE_ID"})
<1>1. Accessors(AddrUnder("EX_NSEL_XLATE_IP_v4", "EX_NSEL_XLATE_IP_v6", {}, {"XLATE_SRC_IP",
      "XLATE_DST_IP"}), {"XLATE_SRC_IP", "XLATE_DST_IP"})
  <2>1. \A x \in {"XLATE_SRC_IP", "XLATE_DST_IP"} : AccessFits(x, Acc({"EX_NSEL_XLATE_IP_v4",
        "EX_NSEL_XLATE_IP_v6"}, {"EX_NSEL_XLATE_IP_v4"}, {"EX_NSEL_XLATE_IP_v6"}, {}))
    BY DEF AccessFits, Acc, BitPairs, Basics, Acls
  <2> QED
    BY <2>1, AddrUnderFits
<1>2. Accessors(Under("EX_NSEL_XLATE_PORTS", {"XLATE_SRC_PORT", "XLATE_DST_PORT"}),
      {"XLATE_SRC_PORT", "XLATE_DST_PORT"})
  <2>1. \A x \in {"XLATE_SRC_PORT", "XLATE_DST_PORT"} : AccessFits(x, Acc({"EX_NSEL_XLATE_PORTS"},
        {"EX_NSEL_XLATE_PORTS"}, {"EX_NSEL_XLATE_PORTS"}, {}))
    BY DEF AccessFits, Acc, BitPairs, Basics, Acls
  <2> QED
    BY <2>1, UnderFits
<1>3. Accessors(Under("EX_NSEL_ACL", {"INGRESS_ACL_ID", "INGRESS_ACE_ID", "INGRESS_XACE_ID",
      "EGRESS_ACL_ID", "EGRESS_ACE_ID", "EGRESS_XACE_ID"}), {"INGRESS_ACL_ID", "INGRESS_ACE_ID",
      "INGRESS_XACE_ID", "EGRESS_ACL_ID", "EGRESS_ACE_ID", "EGRESS_XACE_ID"})
  <2>1. \A x \in {"INGRESS_ACL_ID", "INGRESS_ACE_ID", "INGRESS_XACE_ID", "EGRESS_ACL_ID",
        "EGRESS_ACE_ID", "EGRESS_XACE_ID"} : AccessFits(x, Acc({"EX_NSEL_ACL"}, {"EX_NSEL_ACL"},
        {"EX_NSEL_ACL"}, {}))
    BY DEF AccessFits, Acc, BitPairs, Basics, Acls
  <2> QED
    BY <2>1, UnderFits
<1> QED
  BY <1>1, <1>2, <1>3, UplusAccessors, Zenon DEF AclAccess

LEMMA NelAccessFits == Accessors(NelAccess,
    {"USERNAME"} \cup {"INGRESS_VRFID", "EVENT_FLAG", "EGRESS_VRFID"} \cup {"BLOCK_START",
    "BLOCK_END", "BLOCK_STEP", "BLOCK_SIZE"} \cup {"CLIENT_NW_DELAY_USEC",
    "SERVER_NW_DELAY_USEC", "APPL_LATENCY_USEC"})
<1>1. Accessors(AddrUnder("EX_NSEL_USER", "EX_NSEL_USER_MAX", {}, {"USERNAME"}), {"USERNAME"})
  <2>1. \A x \in {"USERNAME"} : AccessFits(x, Acc({"EX_NSEL_USER", "EX_NSEL_USER_MAX"},
        {"EX_NSEL_USER"}, {"EX_NSEL_USER_MAX"}, {}))
    BY DEF AccessFits, Acc, BitPairs, Basics, Acls
  <2> QED
    BY <2>1, AddrUnderFits
<1>2. Accessors(Under("EX_NEL_COMMON", {"INGRESS_VRFID", "EVENT_FLAG", "EGRESS_VRFID"}),
      {"INGRESS_VRFID", "EVENT_FLAG", "EGRESS_VRFID"})
  <2>1. \A x \in {"INGRESS_VRFID", "EVENT_FLAG", "EGRESS_VRFID"} : AccessFits(x,
        Acc({"EX_NEL_COMMON"}, {"EX_NEL_COMMON"}, {"EX_NEL_COMMON"}, {}))
    BY DEF AccessFits, Acc, BitPairs, Basics, Acls
  <2> QED
    BY <2>1, UnderFits
<1>3. Accessors(Under("EX_PORT_BLOCK_ALLOC", {"BLOCK_START", "BLOCK_END", "BLOCK_STEP",
      "BLOCK_SIZE"}), {"BLOCK_START", "BLOCK_END", "BLOCK_STEP", "BLOCK_SIZE"})
  <2>1. \A x \in {"BLOCK_START", "BLOCK_END", "BLOCK_STEP", "BLOCK_SIZE"} : AccessFits(x,
        Acc({"EX_PORT_BLOCK_ALLOC"}, {"EX_PORT_BLOCK_ALLOC"}, {"EX_PORT_BLOCK_ALLOC"}, {}))
    BY DEF AccessFits, Acc, BitPairs, Basics, Acls
  <2> QED
    BY <2>1, UnderFits
<1>4. Accessors(Under("EX_LATENCY", {"CLIENT_NW_DELAY_USEC", "SERVER_NW_DELAY_USEC",
      "APPL_LATENCY_USEC"}), {"CLIENT_NW_DELAY_USEC", "SERVER_NW_DELAY_USEC", "APPL_LATENCY_USEC"})
  <2>1. \A x \in {"CLIENT_NW_DELAY_USEC", "SERVER_NW_DELAY_USEC", "APPL_LATENCY_USEC"} :
        AccessFits(x, Acc({"EX_LATENCY"}, {"EX_LATENCY"}, {"EX_LATENCY"}, {}))
    BY DEF AccessFits, Acc, BitPairs, Basics, Acls
  <2> QED
    BY <2>1, UnderFits
<1> QED
  BY <1>1, <1>2, <1>3, <1>4, UplusAccessors, Zenon DEF NelAccess

LEMMA SourceAccessFits == Accessors(SourceAccess,
    {"EXPORTER_IP", "EXPORTER_ID", "EXPORTER_VERSION"} \cup {"SEQUENCE_FAILURES"} \cup
    {"SAMPLER_MODE", "SAMPLER_INTERVAL", "SAMPLER_ID"})
<1>1. Accessors([f \in {"EXPORTER_IP", "EXPORTER_ID", "EXPORTER_VERSION"} |->
      Acc({"LNF_REC_EXPORTER", "map_ref"}, {"LNF_REC_EXPORTER"}, {"LNF_REC_EXPORTER"}, {})],
      {"EXPORTER_IP", "EXPORTER_ID", "EXPORTER_VERSION"})
  <2>1. \A x \in {"EXPORTER_IP", "EXPORTER_ID", "EXPORTER_VERSION"} : AccessFits(x,
        Acc({"LNF_REC_EXPORTER", "map_ref"}, {"LNF_REC_EXPORTER"}, {"LNF_REC_EXPORTER"}, {}))
    BY DEF AccessFits, Acc, BitPairs, Basics, Acls
  <2> QED
    BY <2>1 DEF Accessors
<1>2. Accessors(Under("LNF_REC_EXPORTER", {"SEQUENCE_FAILURES"}), {"SEQUENCE_FAILURES"})
  <2>1. \A x \in {"SEQUENCE_FAILURES"} : AccessFits(x, Acc({"LNF_REC_EXPORTER"},
        {"LNF_REC_EXPORTER"}, {"LNF_REC_EXPORTER"}, {}))
    BY DEF AccessFits, Acc, BitPairs, Basics, Acls
  <2> QED
    BY <2>1, UnderFits
<1>3. Accessors(Under("LNF_REC_SAMPLER", {"SAMPLER_MODE", "SAMPLER_INTERVAL", "SAMPLER_ID"}),
      {"SAMPLER_MODE", "SAMPLER_INTERVAL", "SAMPLER_ID"})
  <2>1. \A x \in {"SAMPLER_MODE", "SAMPLER_INTERVAL", "SAMPLER_ID"} : AccessFits(x,
        Acc({"LNF_REC_SAMPLER"}, {"LNF_REC_SAMPLER"}, {"LNF_REC_SAMPLER"}, {}))
    BY DEF AccessFits, Acc, BitPairs, Basics, Acls
  <2> QED
    BY <2>1, UnderFits
<1> QED
  BY <1>1, <1>2, <1>3, UplusAccessors, Zenon DEF SourceAccess

\* The slots, and what they have in common.
LEMMA AccessorsFit ==
  /\ Slots = AllSlots
  /\ \A s \in Slots : AccessFits(s, Access[s])
<1>1. Accessors(CounterAccess, DOMAIN CounterAccess)
  BY CounterAccessFits, Zenon DEF Accessors
<1>2. Accessors(AddrAccess, DOMAIN AddrAccess)
  BY AddrAccessFits, Zenon DEF Accessors
<1>3. Accessors(RoutingAccess, DOMAIN RoutingAccess)
  BY RoutingAccessFits, Zenon DEF Accessors
<1>4. Accessors(LinkAccess, DOMAIN LinkAccess)
  BY LinkAccessFits, Zenon DEF Accessors
<1>5. Accessors(EventAccess, DOMAIN EventAccess)
  BY EventAccessFits, Zenon DEF Accessors
<1>6. Accessors(AclAccess, DOMAIN AclAccess)
  BY AclAccessFits, Zenon DEF Accessors
<1>7. Accessors(NelAccess, DOMAIN NelAccess)
  BY NelAccessFits, Zenon DEF Accessors
<1>8. Accessors(SourceAccess, DOMAIN SourceAccess)
  BY SourceAccessFits, Zenon DEF Accessors
<1>9. Accessors(CounterAccess \uplus AddrAccess \uplus RoutingAccess \uplus LinkAccess,
       DOMAIN CounterAccess \cup DOMAIN AddrAccess \cup DOMAIN RoutingAccess \cup DOMAIN LinkAccess)
  BY <1>1, <1>2, <1>3, <1>4, UplusAccessors, Zenon
<1>10. Accessors(CounterAccess \uplus AddrAccess \uplus RoutingAccess \uplus LinkAccess \uplus
       EventAccess \uplus AclAccess \uplus NelAccess \uplus SourceAccess,
       DOMAIN CounterAccess \cup DOMAIN AddrAccess \cup DOMAIN RoutingAccess \cup DOMAIN
       LinkAccess \cup
       DOMAIN EventAccess \cup DOMAIN AclAccess \cup DOMAIN NelAccess \cup DOMAIN SourceAccess)
  BY <1>5, <1>6, <1>7, <1>8, <1>9, UplusAccessors, Zenon
<1>11. Slots = AllSlots
  <2>1. Slots = DOMAIN CounterAccess \cup DOMAIN AddrAccess \cup DOMAIN RoutingAccess \cup DOMAIN
        LinkAccess \cup
       DOMAIN EventAccess \cup DOMAIN AclAccess \cup DOMAIN NelAccess \cup DOMAIN SourceAccess
    BY <1>10, Zenon DEF Accessors, Access, Slots
  <2>2. AllSlots \subseteq Slots
    BY <2>1, CounterAccessFits, AddrAccessFits, RoutingAccessFits, LinkAccessFits,
       EventAccessFits, AclAccessFits, NelAccessFits, SourceAccessFits
    DEF Accessors, AllSlots, NarrowSlots, WideSlots
  <2>3. DOMAIN CounterAccess \subseteq AllSlots
    BY CounterAccessFits DEF Accessors, AllSlots, NarrowSlots, WideSlots
  <2>4. DOMAIN AddrAccess \subseteq AllSlots
    BY AddrAccessFits DEF Accessors, AllSlots, NarrowSlots, WideSlots
  <2>5. DOMAIN RoutingAccess \subseteq AllSlots
    BY RoutingAccessFits DEF Accessors, AllSlots, NarrowSlots, WideSlots
  <2>6. DOMAIN LinkAccess \subseteq AllSlots
    BY LinkAccessFits DEF Accessors, AllSlots, NarrowSlots, WideSlots
  <2>7. DOMAIN EventAccess \subseteq AllSlots
    BY EventAccessFits DEF Accessors, AllSlots, NarrowSlots, WideSlots
  <2>8. DOMAIN AclAccess \subseteq AllSlots
    BY AclAccessFits DEF Accessors, AllSlots, NarrowSlots, WideSlots
  <2>9. DOMAIN NelAccess \subseteq AllSlots
    BY NelAccessFits DEF Accessors, AllSlots, NarrowSlots, WideSlots
  <2>10. DOMAIN SourceAccess \subseteq AllSlots
    BY SourceAccessFits DEF Accessors, AllSlots, NarrowSlots, WideSlots
  <2> QED
    BY <2>1, <2>2, <2>3, <2>4, <2>5, <2>6, <2>7, <2>8, <2>9, <2>10, Zenon
<1> QED
  BY <1>10, <1>11, Zenon DEF Accessors, Access, Slots
-----------------------------------------------------------------------------
(***************************************************************************)
(* Records                                                                 *)
(***************************************************************************)

\* Values and records
Val == [lo : Nat, hi : Nat]
AllBits == (UNION {Access[s].bits : s \in Slots}) \cup (UNION FileExts) \cup {"map_ref"}
AllFlags == (UNION {Access[s].flag : s \in Slots}) \cup {"FLAG_IPV6_ADDR"}
Rec == [val : [Slots -> Val], bits : SUBSET AllBits, v6 : SUBSET AllFlags]

\* The values of narrow fields fit.
Fits(s, v) == s \in NarrowSlots => v.hi = 0
Proper == {r \in Rec : \A s \in Slots : Fits(s, r.val[s])}

\* The slot's getter answers LNF_OK.
SlotOk(rec, s) == Access[s].bits = {} \/ Access[s].bits \cap rec.bits # {}

\* A record is proper when it is new.
LEMMA EmptyProper == EmptyRec \in Proper
<1>1. Zero \in Val /\ Zero.hi = 0
  BY DEF Zero, Val
<1>2. [lo |-> 9, hi |-> 0] \in Val
  BY DEF Val
<1> QED
  BY <1>1, <1>2 DEF EmptyRec, Proper, Rec, Fits

\* What SetSlot does.
LEMMA SetSlotDoes ==
  ASSUME NEW rec \in Rec, NEW s \in Slots, NEW v \in Val
  PROVE  /\ SetSlot(rec, s, v) \in Rec
         /\ SetSlot(rec, s, v).val = [rec.val EXCEPT ![s] = v]
         /\ rec.bits \subseteq SetSlot(rec, s, v).bits
         /\ SetSlot(rec, s, v).bits \subseteq rec.bits \cup Access[s].set4 \cup Access[s].set6
         /\ SlotOk(SetSlot(rec, s, v), s)
         /\ s = "SRCADDR" => ("FLAG_IPV6_ADDR" \in SetSlot(rec, s, v).v6 <=> ~ V4Compat(v))
<1> DEFINE a == Access[s]
           six == IF s = "USERNAME" THEN v.hi # 0 ELSE ~ V4Compat(v)
           r == SetSlot(rec, s, v)
<1>1. AccessFits(s, a)
  BY AccessorsFit
<1>2. a.bits \subseteq AllBits /\ a.flag \subseteq AllFlags
  BY DEF AllBits, AllFlags
<1>3. a.set4 \cup a.set6 \subseteq a.bits /\ (a.bits # {} => a.set4 # {} /\ a.set6 # {})
  BY <1>1 DEF AccessFits
<1>4. s = "SRCADDR" => a.flag = {"FLAG_IPV6_ADDR"}
  BY <1>1 DEF AccessFits
<1>5. r = [val |-> [rec.val EXCEPT ![s] = v],
           bits |-> rec.bits \cup (IF six THEN a.set6 ELSE a.set4),
           v6 |-> IF six THEN rec.v6 \cup a.flag ELSE rec.v6 \ a.flag]
  BY DEF SetSlot
<1> HIDE DEF a, six, r
<1>6. r \in Rec
  <2>1. [rec.val EXCEPT ![s] = v] \in [Slots -> Val]
    BY DEF Rec
  <2>2. rec.bits \cup (IF six THEN a.set6 ELSE a.set4) \in SUBSET AllBits
    BY <1>2, <1>3 DEF Rec
  <2>3. (IF six THEN rec.v6 \cup a.flag ELSE rec.v6 \ a.flag) \in SUBSET AllFlags
    BY <1>2 DEF Rec
  <2> QED
    BY <1>5, <2>1, <2>2, <2>3 DEF Rec
<1>7. a.bits = {} \/ a.bits \cap r.bits # {}
  <2>1. r.bits = rec.bits \cup (IF six THEN a.set6 ELSE a.set4)
    BY <1>5
  <2> QED
    BY <2>1, <1>3
<1>8. s = "SRCADDR" => ("FLAG_IPV6_ADDR" \in r.v6 <=> ~ V4Compat(v))
  <2> SUFFICES ASSUME s = "SRCADDR" PROVE "FLAG_IPV6_ADDR" \in r.v6 <=> ~ V4Compat(v)
    OBVIOUS
  <2>1. six <=> ~ V4Compat(v)
    BY DEF six
  <2>2. r.v6 = IF six THEN rec.v6 \cup a.flag ELSE rec.v6 \ a.flag
    BY <1>5
  <2> QED
    BY <1>4, <2>1, <2>2
<1>9. r.val = [rec.val EXCEPT ![s] = v] /\ rec.bits \subseteq r.bits
      /\ r.bits \subseteq rec.bits \cup a.set4 \cup a.set6
  BY <1>5
<1> QED
  BY <1>6, <1>7, <1>8, <1>9 DEF SlotOk, a, r

\* The parts of a slot or compound
LEMMA PartsOf ==
  /\ \A s \in AllSlots : Parts(s) = <<s>>
  /\ Parts("INGRESS_ACL") = <<"INGRESS_ACL_ID", "INGRESS_ACE_ID", "INGRESS_XACE_ID">>
  /\ Parts("EGRESS_ACL") = <<"EGRESS_ACL_ID", "EGRESS_ACE_ID", "EGRESS_XACE_ID">>
  /\ Parts("BREC1") = <<"FIRST", "LAST", "SRCADDR", "DSTADDR", "PROT", "SRCPORT", "DSTPORT",
                        "DOCTETS", "DPKTS", "AGGR_FLOWS">>
<1>1. \A s \in AllSlots : s \notin {"INGRESS_ACL", "EGRESS_ACL", "BREC1"}
  BY DEF AllSlots, NarrowSlots, WideSlots
<1> QED
  BY <1>1 DEF Parts

\* Parts are slots, and there is one at least.
LEMMA PartsAre ==
  ASSUME NEW func \in AllSlots \cup Compounds
  PROVE  Parts(func) \in Seq(AllSlots) /\ Parts(func) # <<>>
         /\ func \notin CalcFuncs \cup {"INET_FAMILY"}
<1>1. func \notin CalcFuncs \cup {"INET_FAMILY"}
  BY DEF AllSlots, NarrowSlots, WideSlots, Compounds, CalcFuncs
<1>2. CASE func \in AllSlots
  <2>1. Parts(func) = <<func>>
    BY <1>2, PartsOf, Zenon
  <2> QED
    BY <1>1, <1>2, <2>1
<1>3. CASE func = "INGRESS_ACL"
  <2>1. /\ "INGRESS_ACL_ID" \in AllSlots /\ "INGRESS_ACE_ID" \in AllSlots /\ "INGRESS_XACE_ID" \in
         AllSlots
    BY DEF AllSlots, NarrowSlots, WideSlots
  <2>2. Parts(func) = <<"INGRESS_ACL_ID", "INGRESS_ACE_ID", "INGRESS_XACE_ID">>
    BY <1>3, PartsOf, Zenon
  <2>3. Parts(func) \in Seq(AllSlots)
    BY <2>1, <2>2
  <2>4. Parts(func) # <<>>
    BY <2>2
  <2> QED
    BY <1>1, <2>3, <2>4, Zenon
<1>4. CASE func = "EGRESS_ACL"
  <2>1. /\ "EGRESS_ACL_ID" \in AllSlots /\ "EGRESS_ACE_ID" \in AllSlots /\ "EGRESS_XACE_ID" \in
         AllSlots
    BY DEF AllSlots, NarrowSlots, WideSlots
  <2>2. Parts(func) = <<"EGRESS_ACL_ID", "EGRESS_ACE_ID", "EGRESS_XACE_ID">>
    BY <1>4, PartsOf, Zenon
  <2>3. Parts(func) \in Seq(AllSlots)
    BY <2>1, <2>2
  <2>4. Parts(func) # <<>>
    BY <2>2
  <2> QED
    BY <1>1, <2>3, <2>4, Zenon
<1>5. CASE func = "BREC1"
  <2>1. /\ "FIRST" \in AllSlots /\ "LAST" \in AllSlots /\ "SRCADDR" \in AllSlots
        /\ "DSTADDR" \in AllSlots /\ "PROT" \in AllSlots /\ "SRCPORT" \in AllSlots
        /\ "DSTPORT" \in AllSlots /\ "DOCTETS" \in AllSlots /\ "DPKTS" \in AllSlots
        /\ "AGGR_FLOWS" \in AllSlots
    BY DEF AllSlots, NarrowSlots, WideSlots
  <2>2. Parts(func) = <<"FIRST", "LAST", "SRCADDR", "DSTADDR", "PROT",
                       "SRCPORT", "DSTPORT", "DOCTETS", "DPKTS", "AGGR_FLOWS">>
    BY <1>5, PartsOf, Zenon
  <2>3. Parts(func) \in Seq(AllSlots)
    BY <2>1, <2>2
  <2>4. Parts(func) # <<>>
    BY <2>2
  <2> QED
    BY <1>1, <2>3, <2>4, Zenon
<1> QED
  BY <1>2, <1>3, <1>4, <1>5 DEF Compounds

\* A setter goes from one set of records to the next, part by part.
LEMMA SetWalk ==
  ASSUME NEW rec, NEW func \in AllSlots \cup Compounds, NEW data \in Seq(Val),
         NEW M, rec \in M[0],
         \A i \in 1 .. Len(data) : \A r \in M[i - 1] : SetSlot(r, Parts(func)[i], data[i]) \in M[i]
  PROVE  Set(rec, func, data) \in M[Len(data)]
<1> DEFINE n == Len(data)
           Step(i, r) == SetSlot(r, Parts(func)[i], data[i])
           D == [k \in 0 .. n |-> [r \in M[k - 1] |-> Step(k, r)]]
           G(g) == g = [i \in 0 .. n |-> IF i = 0 THEN rec ELSE Step(i, g[i - 1])]
           f == CHOOSE g : G(g)
<1>1. n \in Nat
  OBVIOUS
<1>2. \A k \in 1 .. n : \A r \in M[k - 1] : Step(k, r) \in M[k]
  OBVIOUS
<1>3. Set(rec, func, data) = f[n]
  <2>1. func \notin CalcFuncs /\ func # "INET_FAMILY"
    BY PartsAre
  <2> QED
    BY <2>1 DEF Set
<1> HIDE DEF n, Step, D
<1>4. \E g : G(g)
  <2>1. \A k \in 1 .. n : \A r \in M[k - 1] : D[k][r] = Step(k, r) /\ D[k][r] \in M[k]
    BY <1>1, <1>2 DEF D
  <2>2. PICK g : RecursionIn(g, n, rec, D, M)
    BY <1>1, <2>1, RecursionTyped
  <2>3. /\ g = [k \in 0 .. n |-> g[k]] /\ g[0] = rec
        /\ \A k \in 1 .. n : g[k - 1] \in M[k - 1] /\ g[k] = D[k][g[k - 1]]
    BY <2>2 DEF RecursionIn
  <2>4. \A k \in 0 .. n : g[k] = IF k = 0 THEN rec ELSE Step(k, g[k - 1])
    <3> TAKE k \in 0 .. n
    <3>1. k = 0 \/ k \in 1 .. n
      BY <1>1
    <3> QED
      BY <2>1, <2>3, <3>1
  <2>5. G(g)
    BY <2>3, <2>4
  <2> HIDE DEF G
  <2> QED
    BY <2>5
<1>5. G(f)
  BY <1>4
<1> HIDE DEF f
<1>6. f[0] \in M[0]
  BY <1>1, <1>5
<1>7. \A k \in 1 .. n : f[k - 1] \in M[k - 1] => f[k] \in M[k]
  BY <1>1, <1>2, <1>5
<1>8. f[n] \in M[n]
  <2> HIDE DEF G
  <2>1. \A k \in 0 .. n : f[k] \in M[k]
    BY <1>1, <1>6, <1>7, StepByStep
  <2> QED
    BY <1>1, <2>1
<1> QED
  BY <1>3, <1>8 DEF n

\* What the proofs use of a field.
LEMMA FieldFits ==
  ASSUME NEW f \in Fields
  PROVE  RowFits(f, lnf_fields_def[f])
BY DefFits, FieldsDefined DEF AllFit

\* Of which kind a field is, and which fields no other is an alias of.
LEMMA Widths ==
  ASSUME NEW f \in Fields
  PROVE  /\ lnf_fields_def[f].func \in AllSlots \cup Compounds \cup CalcFuncs \cup {"INET_FAMILY"}
         /\ lnf_fields_def[f].func \in NarrowSlots => Narrow(f)
         /\ lnf_fields_def[f].func \notin NarrowSlots =>
              ~ Narrow(f) \/ (f = "PAIR_IF" /\ lnf_fields_def[f].func = "INPUT")
         /\ f \in AllSlots \cup Compounds \cup {"INET_FAMILY"} => lnf_fields_def[f].func = f
         /\ lnf_fields_def[f].func \in Single \cup Compounds => lnf_fields_def[f].func = f
         /\ f = "PAIR_ADDR_ALIAS" => lnf_fields_def[f].func = "SRCADDR"
<1> DEFINE r == lnf_fields_def[f]
<1>1. RowFits(f, r)
  BY FieldFits
<1>2. \A t \in DOMAIN SizeOf : SizeOf[t] <= 2 <=> t \in NarrowTypes
  BY DEF SizeOf, NarrowTypes
<1>3. "INPUT" \in WideSlots /\ "UINT16" \in NarrowTypes /\ NarrowTypes \subseteq DOMAIN SizeOf
  BY DEF WideSlots, NarrowTypes, SizeOf
<1>4. Narrow(f) <=> SizeOf[r.type] <= 2
  BY DEF Narrow, FieldSize
<1>5. \A s \in NarrowSlots : s \notin WideSlots \cup Compounds \cup CalcFuncs \cup {"INET_FAMILY"}
  BY DEF NarrowSlots, WideSlots, Compounds, CalcFuncs
<1> HIDE DEF r
<1>6. r.func \in AllSlots \cup Compounds \cup CalcFuncs \cup {"INET_FAMILY"}
  BY <1>1, <1>3 DEF RowFits, AllSlots
<1>7. r.func \in NarrowSlots => Narrow(f)
  BY <1>1, <1>2, <1>3, <1>4, <1>5 DEF RowFits
<1>8. r.func \notin NarrowSlots => ~ Narrow(f) \/ (f = "PAIR_IF" /\ r.func = "INPUT")
  BY <1>1, <1>2, <1>3, <1>4 DEF RowFits
<1> QED
  BY <1>1, <1>6, <1>7, <1>8 DEF RowFits, r

\* A slot is a field, as narrow as the slot.
LEMMA NarrowSlot ==
  ASSUME NEW s \in AllSlots
  PROVE  s \in Slots /\ s \in Fields /\ (Narrow(s) <=> s \in NarrowSlots)
<1>1. s \in Slots /\ s \in Fields
  BY AccessorsFit, SlotsAreFields
<1>2. lnf_fields_def[s].func = s
  BY <1>1, Widths
<1>3. s # "PAIR_IF"
  BY DEF AllSlots, NarrowSlots, WideSlots
<1> QED
  BY <1>1, <1>2, <1>3, Widths

\* A calculated field is not set.
LEMMA SetNone ==
  ASSUME NEW rec, NEW func \in CalcFuncs, NEW data
  PROVE  Set(rec, func, data) = rec
<1>1. func # "INET_FAMILY"
  BY DEF CalcFuncs
<1> QED
  BY <1>1 DEF Set

\* The family is a flag: values and bits stay.
LEMMA SetFamily ==
  ASSUME NEW rec \in Rec, NEW data
  PROVE  /\ Set(rec, "INET_FAMILY", data) \in Rec
         /\ Set(rec, "INET_FAMILY", data).val = rec.val
         /\ Set(rec, "INET_FAMILY", data).bits = rec.bits
<1> DEFINE six == IF data[1] = AF_INET THEN rec.v6 \ {"FLAG_IPV6_ADDR"}
                  ELSE IF data[1] = AF_INET6 THEN rec.v6 \cup {"FLAG_IPV6_ADDR"} ELSE rec.v6
<1>1. rec.v6 \in SUBSET AllFlags /\ "FLAG_IPV6_ADDR" \in AllFlags
  BY DEF Rec, AllFlags
<1>2. six \in SUBSET AllFlags
  BY <1>1
<1>3. "INET_FAMILY" \notin CalcFuncs
  BY DEF CalcFuncs
<1>4. Set(rec, "INET_FAMILY", data) = [rec EXCEPT !.v6 = six]
  BY <1>3 DEF Set
<1> HIDE DEF six
<1> QED
  BY <1>2, <1>4 DEF Rec

\* The setter of a single slot
LEMMA SetOne ==
  ASSUME NEW rec \in Rec, NEW s \in AllSlots, NEW data \in Seq(Val), Len(data) = 1
  PROVE  Set(rec, s, data) = SetSlot(rec, s, data[1])
<1> DEFINE M == [i \in 0 .. 1 |-> IF i = 0 THEN {rec} ELSE {SetSlot(rec, s, data[1])}]
<1>1. M[0] = {rec} /\ M[1] = {SetSlot(rec, s, data[1])}
  OBVIOUS
<1>2. Parts(s) = <<s>>
  BY PartsOf, Zenon
<1>3. Parts(s)[1] = s
  BY <1>2
<1> HIDE DEF M
<1>4. ASSUME NEW i \in 1 .. Len(data), NEW r \in M[i - 1]
      PROVE  SetSlot(r, Parts(s)[i], data[i]) \in M[i]
  <2>1. i = 1 /\ i - 1 = 0
    OBVIOUS
  <2>2. r = rec
    BY <1>1, <2>1
  <2> QED
    BY <1>1, <1>3, <2>1, <2>2
<1>5. Set(rec, s, data) \in M[Len(data)]
  BY <1>1, <1>4, SetWalk
<1> QED
  BY <1>1, <1>5

\* A setter of fitting values leaves a proper record.
LEMMA FSetProper ==
  ASSUME NEW rec \in Proper, NEW f \in Fields, NEW data,
         lnf_fields_def[f].func \in AllSlots \cup Compounds =>
           /\ data \in Seq(Val) /\ Len(data) = Len(Parts(lnf_fields_def[f].func))
           /\ \A i \in 1 .. Len(data) : Fits(Parts(lnf_fields_def[f].func)[i], data[i])
  PROVE  FSet(rec, f, data) \in Proper
<1> DEFINE func == lnf_fields_def[f].func
<1>1. CASE func \in CalcFuncs
  BY <1>1, SetNone DEF FSet
<1>2. CASE func = "INET_FAMILY"
  <2>1. rec \in Rec /\ FSet(rec, f, data) = Set(rec, "INET_FAMILY", data)
    BY <1>2 DEF Proper, FSet
  <2>2. FSet(rec, f, data) \in Rec /\ FSet(rec, f, data).val = rec.val
    BY <2>1, SetFamily
  <2> QED
    BY <2>2 DEF Proper
<1>3. CASE func \in AllSlots \cup Compounds
  <2> DEFINE n == Len(data)
             M == [i \in 0 .. n |-> Proper]
  <2>1. data \in Seq(Val) /\ n \in Nat /\ n = Len(Parts(func))
        /\ \A i \in 1 .. n : Fits(Parts(func)[i], data[i])
    BY <1>3
  <2>2. ASSUME NEW i \in 1 .. n, NEW r \in M[i - 1]
        PROVE  SetSlot(r, Parts(func)[i], data[i]) \in M[i]
    <3>1. r \in Proper
      BY <2>1
    <3>2. Parts(func)[i] \in Slots /\ data[i] \in Val
      BY <1>3, <2>1, PartsAre, AccessorsFit
    <3>3. SetSlot(r, Parts(func)[i], data[i]) \in Proper
      <4>1. r \in Rec /\ \A s \in Slots : Fits(s, r.val[s])
        BY <3>1 DEF Proper
      <4>2. Fits(Parts(func)[i], data[i])
        BY <2>1
      <4> DEFINE s == Parts(func)[i]
                 v == data[i]
                 q == SetSlot(r, s, v)
      <4> HIDE DEF s, v
      <4>7. s \in Slots /\ v \in Val
        BY <3>2 DEF s, v
      <4>3. q \in Rec /\ q.val = [r.val EXCEPT ![s] = v]
        BY <4>1, <4>7, SetSlotDoes
      <4>4. r.val \in [Slots -> Val]
        BY <4>1 DEF Rec
      <4> HIDE DEF q
      <4>5. \A t \in Slots : q.val[t] = IF t = s THEN v ELSE r.val[t]
        BY <4>7, <4>3, <4>4
      <4>6. q \in Proper
        BY <4>1, <4>2, <4>3, <4>5 DEF Proper, s, v
      <4> QED
        BY <4>6 DEF q, s, v
    <3> QED
      BY <2>1, <3>3
  <2>3. rec \in M[0]
    BY <2>1
  <2>4. Set(rec, func, data) \in M[n]
    <3> HIDE DEF M, func
    <3> QED
      BY <1>3, <2>1, <2>2, <2>3, SetWalk
  <2>5. Set(rec, func, data) \in Proper
    BY <2>1, <2>4
  <2> QED
    BY <2>5 DEF FSet
<1> QED
  BY <1>1, <1>2, <1>3, Widths
-----------------------------------------------------------------------------
(***************************************************************************)
(* On the way through the raw form                                         *)
(***************************************************************************)

\* The slots the raw form of e writes: AGGR_FLOWS with BREC1, set or not.
SentSlots(e) == {s \in AllSlots : SlotOk(e, s)} \cup {"AGGR_FLOWS"}

\* The bits that setting them sets.
SetBits(e) == UNION {Access[s].set4 \cup Access[s].set6 : s \in SentSlots(e)}

\* Records in which the slots W are as in e, but for INPUT, and in which only
\* bits of what e has are set.
Toward(e, W) ==
  {r \in Rec : /\ \A s \in W : SlotOk(r, s) /\ (s # "INPUT" => r.val[s] = e.val[s])
               /\ r.bits \subseteq SetBits(e)}

\* One more slot is as it was sent.
LEMMA SetSlotToward ==
  ASSUME NEW e \in Rec, NEW W \in SUBSET AllSlots, NEW r \in Toward(e, W),
         NEW s \in SentSlots(e), NEW v \in Val, s = "INPUT" \/ v = e.val[s]
  PROVE  SetSlot(r, s, v) \in Toward(e, W \cup {s})
<1> DEFINE q == SetSlot(r, s, v)
<1>1. s \in Slots /\ r \in Rec
  BY AccessorsFit DEF SentSlots, AllSlots, WideSlots, Toward
<1>2. q \in Rec /\ q.val = [r.val EXCEPT ![s] = v] /\ r.bits \subseteq q.bits
      /\ q.bits \subseteq r.bits \cup Access[s].set4 \cup Access[s].set6 /\ SlotOk(q, s)
  BY <1>1, SetSlotDoes
<1> HIDE DEF q
<1>3. \A t \in W : SlotOk(q, t)
  BY <1>2 DEF Toward, SlotOk
<1>4. q.bits \subseteq SetBits(e)
  BY <1>2 DEF Toward, SetBits
<1>5. \A t \in W \cup {s} : t # "INPUT" => q.val[t] = e.val[t]
  <2>1. W \subseteq Slots /\ r.val \in [Slots -> Val]
    BY <1>1, AccessorsFit DEF Rec
  <2>2. \A t \in Slots : q.val[t] = IF t = s THEN v ELSE r.val[t]
    BY <1>1, <1>2, <2>1
  <2>3. \A t \in W : t # "INPUT" => r.val[t] = e.val[t]
    BY DEF Toward
  <2> QED
    BY <1>1, <2>1, <2>2, <2>3
<1>6. q \in Toward(e, W \cup {s})
  BY <1>2, <1>3, <1>4, <1>5 DEF Toward
<1> QED
  BY <1>6 DEF q

\* ... and of the parts P the first i
PartWay(e, W, P, i) == Toward(e, W \cup {P[j] : j \in 1 .. i})

\* The slots a field's setter writes
SlotsOf(f) ==
  LET func == lnf_fields_def[f].func
  IN IF func \in AllSlots \cup Compounds THEN {Parts(func)[i] : i \in 1 .. Len(Parts(func))} ELSE {}

\* A setter that is given what was sent brings its field on the way.
LEMMA SetToward ==
  ASSUME NEW e \in Rec, NEW W \in SUBSET AllSlots, NEW r \in Toward(e, W),
         NEW func \in AllSlots \cup Compounds, NEW data \in Seq(Val), Len(data) = Len(Parts(func)),
         \A i \in 1 .. Len(data) : /\ Parts(func)[i] \in SentSlots(e)
                                   /\ Parts(func)[i] = "INPUT" \/ data[i] = e.val[Parts(func)[i]]
  PROVE  Set(r, func, data) \in Toward(e, W \cup {Parts(func)[i] : i \in 1 .. Len(Parts(func))})
<1> DEFINE n == Len(data)
           P == Parts(func)
           M == [i \in 0 .. n |-> PartWay(e, W, P, i)]
<1>1. n \in Nat /\ n = Len(P) /\ P \in Seq(AllSlots)
  BY PartsAre
<1>2. r \in M[0]
  <2>1. W \cup {P[j] : j \in 1 .. 0} = W
    OBVIOUS
  <2>2. r \in PartWay(e, W, P, 0)
    BY <2>1 DEF PartWay
  <2> QED
    BY <1>1, <2>2
<1>3. ASSUME NEW i \in 1 .. n, NEW q \in M[i - 1] PROVE SetSlot(q, P[i], data[i]) \in M[i]
  <2> DEFINE U == W \cup {P[j] : j \in 1 .. i - 1}
  <2>1. q \in Toward(e, U) /\ U \in SUBSET AllSlots
    <3>1. i - 1 \in 0 .. n /\ \A j \in 1 .. i - 1 : j \in 1 .. Len(P)
      BY <1>1
    <3>2. q \in Toward(e, U)
      <4>1. q \in PartWay(e, W, P, i - 1)
        BY <3>1
      <4> QED
        BY <4>1 DEF PartWay
    <3>3. \A j \in 1 .. i - 1 : P[j] \in AllSlots
      BY <1>1, <3>1
    <3> HIDE DEF P
    <3> QED
      BY <3>2, <3>3
  <2>2. W \cup {P[j] : j \in 1 .. i} = U \cup {P[i]}
    <3>1. \A j \in 1 .. i : j \in 1 .. i - 1 \/ j = i
      BY <1>1
    <3>2. i \in 1 .. i /\ \A j \in 1 .. i - 1 : j \in 1 .. i
      BY <1>1
    <3> HIDE DEF P
    <3> QED
      BY <3>1, <3>2
  <2>3. P[i] \in SentSlots(e) /\ data[i] \in Val /\ (P[i] = "INPUT" \/ data[i] = e.val[P[i]])
    BY <1>1
  <2> HIDE DEF U, P
  <2>4. SetSlot(q, P[i], data[i]) \in Toward(e, U \cup {P[i]})
    BY <2>1, <2>3, SetSlotToward
  <2>5. SetSlot(q, P[i], data[i]) \in PartWay(e, W, P, i)
    BY <2>2, <2>4 DEF PartWay
  <2> QED
    BY <1>1, <2>5
<1>4. Set(r, func, data) \in M[n]
  <2> HIDE DEF M
  <2> QED
    BY <1>2, <1>3, SetWalk
<1>5. Set(r, func, data) \in PartWay(e, W, P, n)
  BY <1>1, <1>4
<1> QED
  BY <1>1, <1>5 DEF PartWay

\* A getter delivers a value for each part.
LEMMA GetDelivers ==
  ASSUME NEW e \in Rec, NEW func \in AllSlots \cup Compounds
  PROVE  /\ Get(e, func) \in Seq(Val) /\ Len(Get(e, func)) = Len(Parts(func))
         /\ \A i \in 1 .. Len(Parts(func)) : Get(e, func)[i] = e.val[Parts(func)[i]]
<1> DEFINE P == Parts(func)
<1>1. P \in Seq(AllSlots) /\ func \notin CalcFuncs /\ func # "INET_FAMILY"
  BY PartsAre
<1>2. Get(e, func) = [i \in DOMAIN P |-> e.val[P[i]]]
  BY <1>1 DEF Get
<1> HIDE DEF P
<1>3. \A i \in DOMAIN P : e.val[P[i]] \in Val
  BY <1>1, AccessorsFit DEF Rec
<1>4. DOMAIN P = 1 .. Len(P) /\ Len(P) \in Nat
  BY <1>1
<1> QED
  BY <1>2, <1>3, <1>4 DEF P

\* A field that is set belongs to what is sent, with all its parts.
LEMMA ReadableSent ==
  ASSUME NEW e \in Rec, NEW func \in AllSlots \cup Compounds, IsSet(e, func)
  PROVE  \A i \in 1 .. Len(Parts(func)) : Parts(func)[i] \in SentSlots(e)
<1>1. func \notin CalcFuncs /\ func # "INET_FAMILY"
  BY PartsAre
<1>2. func # "BREC1" => SlotOk(e, Parts(func)[1])
  BY <1>1 DEF IsSet, SlotOk
<1>3. CASE func \in AllSlots
  <2>1. func # "BREC1"
    BY <1>3 DEF AllSlots, NarrowSlots, WideSlots
  <2>2. Parts(func) = <<func>>
    BY <1>3, PartsOf, Zenon
  <2>3. SlotOk(e, func)
    BY <1>2, <2>1, <2>2
  <2> QED
    BY <1>3, <2>2, <2>3 DEF SentSlots
<1>4. ASSUME NEW s \in Acls, NEW t \in Acls, SlotOk(e, s) PROVE t \in SentSlots(e)
  <2>1. s \in AllSlots /\ t \in AllSlots
    BY DEF Acls, AllSlots, WideSlots
  <2>2. Access[s].bits = {"EX_NSEL_ACL"} /\ Access[t].bits = {"EX_NSEL_ACL"}
    BY <2>1, AccessorsFit DEF AccessFits
  <2> QED
    BY <1>4, <2>1, <2>2 DEF SlotOk, SentSlots
<1>5. CASE func = "INGRESS_ACL"
  <2>1. Parts(func) = <<"INGRESS_ACL_ID", "INGRESS_ACE_ID", "INGRESS_XACE_ID">>
    BY <1>5, PartsOf, Zenon
  <2>2. "INGRESS_ACL_ID" \in Acls /\ "INGRESS_ACE_ID" \in Acls /\ "INGRESS_XACE_ID" \in Acls
    BY DEF Acls
  <2>3. SlotOk(e, "INGRESS_ACL_ID")
    BY <1>2, <1>5, <2>1
  <2>4. "INGRESS_ACL_ID" \in SentSlots(e) /\ "INGRESS_ACE_ID" \in SentSlots(e)
        /\ "INGRESS_XACE_ID" \in SentSlots(e)
    BY <1>4, <2>2, <2>3
  <2> QED
    BY <2>1, <2>4
<1>6. CASE func = "EGRESS_ACL"
  <2>1. Parts(func) = <<"EGRESS_ACL_ID", "EGRESS_ACE_ID", "EGRESS_XACE_ID">>
    BY <1>6, PartsOf, Zenon
  <2>2. "EGRESS_ACL_ID" \in Acls /\ "EGRESS_ACE_ID" \in Acls /\ "EGRESS_XACE_ID" \in Acls
    BY DEF Acls
  <2>3. SlotOk(e, "EGRESS_ACL_ID")
    BY <1>2, <1>6, <2>1
  <2>4. "EGRESS_ACL_ID" \in SentSlots(e) /\ "EGRESS_ACE_ID" \in SentSlots(e)
        /\ "EGRESS_XACE_ID" \in SentSlots(e)
    BY <1>4, <2>2, <2>3
  <2> QED
    BY <2>1, <2>4
<1>7. CASE func = "BREC1"
  <2>1. Parts(func) = <<"FIRST", "LAST", "SRCADDR", "DSTADDR", "PROT", "SRCPORT", "DSTPORT",
                        "DOCTETS", "DPKTS", "AGGR_FLOWS">>
    BY <1>7, PartsOf, Zenon
  <2>2. \A s \in Basics : s \in SentSlots(e)
    <3>1. \A s \in Basics : s \in AllSlots
      BY DEF Basics, AllSlots, NarrowSlots, WideSlots
    <3> QED
      BY <3>1, AccessorsFit DEF AccessFits, SlotOk, SentSlots
  <2>3. /\ "FIRST" \in SentSlots(e) /\ "LAST" \in SentSlots(e) /\ "SRCADDR" \in SentSlots(e)
        /\ "DSTADDR" \in SentSlots(e) /\ "PROT" \in SentSlots(e) /\ "SRCPORT" \in SentSlots(e)
        /\ "DSTPORT" \in SentSlots(e) /\ "DOCTETS" \in SentSlots(e) /\ "DPKTS" \in SentSlots(e)
    BY <2>2 DEF Basics
  <2>4. "AGGR_FLOWS" \in SentSlots(e)
    BY DEF SentSlots
  <2> QED
    BY <2>1, <2>3, <2>4
<1> QED
  BY <1>3, <1>5, <1>6, <1>7 DEF Compounds

\* What is in the buffer of lnf_rec_set_raw: a value at least.
Bufs == {b \in Seq(Val) : Len(b) >= 1}

\* What overwriting the upper bytes does to a buffer.
LEMMA UpperBytes ==
  ASSUME NEW b \in Bufs, NEW x \in Nat
  PROVE  /\ [b EXCEPT ![1].hi = x] \in Bufs /\ Len([b EXCEPT ![1].hi = x]) = Len(b)
         /\ [b EXCEPT ![1].hi = x][1] = [lo |-> b[1].lo, hi |-> x]
<1>1. b \in Seq(Val) /\ Len(b) \in Nat /\ Len(b) >= 1 /\ b[1] \in Val
  BY DEF Bufs
<1>2. [b[1] EXCEPT !.hi = x] = [lo |-> b[1].lo, hi |-> x] /\ [b[1] EXCEPT !.hi = x] \in Val
  BY <1>1 DEF Val
<1> DEFINE c == [b EXCEPT ![1] = [b[1] EXCEPT !.hi = x]]
<1>3. c = [b EXCEPT ![1].hi = x]
  OBVIOUS
<1>4. c \in Seq(Val) /\ Len(c) = Len(b) /\ c[1] = [b[1] EXCEPT !.hi = x]
  BY <1>1, <1>2
<1> HIDE DEF c
<1> QED
  BY <1>1, <1>2, <1>3, <1>4 DEF Bufs

\* The setter gets the value that was sent, whatever the entry before left in
\* the buffer, but for the input interface.
LEMMA TakenRight ==
  ASSUME NEW e \in Proper, NEW f \in Fields, NEW old \in Bufs,
         lnf_fields_def[f].func \in AllSlots \cup Compounds
  PROVE  LET func == lnf_fields_def[f].func
             buf == Overlay(old, Entry(e, f))
             data == Taken(func, buf)
         IN /\ buf \in Bufs /\ data \in Seq(Val) /\ Len(data) = Len(Parts(func))
            /\ \A i \in 1 .. Len(data) : Parts(func)[i] = "INPUT" \/ data[i] = e.val[Parts(func)[i]]
<1> DEFINE func == lnf_fields_def[f].func
           g == Get(e, func)
           buf == Overlay(old, Entry(e, f))
           data == Taken(func, buf)
           P == Parts(func)
<1>1. e \in Rec /\ func \in AllSlots \cup Compounds
  BY DEF Proper
<1>2. g \in Seq(Val) /\ Len(g) = Len(P) /\ \A i \in 1 .. Len(P) : g[i] = e.val[P[i]]
  BY <1>1, GetDelivers
<1>3. P \in Seq(AllSlots) /\ P # <<>>
  BY PartsAre
<1>4. g \in Bufs
  BY <1>2, <1>3 DEF Bufs
<1>5. buf = IF Narrow(f) THEN [g EXCEPT ![1].hi = old[1].hi] ELSE g
  BY DEF Overlay, Entry, FGet
<1>6. data = IF func \in Slots /\ Narrow(func) THEN [buf EXCEPT ![1].hi = 0] ELSE buf
  BY DEF Taken
<1>7. old[1].hi \in Nat
  <2>1. old[1] \in Val
    BY DEF Bufs
  <2> QED
    BY <2>1 DEF Val
<1>8. func \in AllSlots => P = <<func>>
  BY PartsOf
<1>9. buf \in Bufs /\ Len(buf) = Len(g) /\ (Narrow(f) => buf[1].lo = g[1].lo)
  <2>1. Narrow(f) => buf \in Bufs /\ Len(buf) = Len(g) /\ buf[1] = [lo |-> g[1].lo, hi |->
         old[1].hi]
    BY <1>4, <1>5, <1>7, UpperBytes
  <2>2. ~ Narrow(f) => buf \in Bufs /\ Len(buf) = Len(g)
    BY <1>4, <1>5
  <2> QED
    BY <2>1, <2>2
<1>10. func \notin NarrowSlots => ~ Narrow(f) \/ func = "INPUT"
  BY Widths
<1>11. func \in NarrowSlots => Narrow(f)
  BY Widths
<1>12. func \in AllSlots => func \in Slots /\ (Narrow(func) <=> func \in NarrowSlots)
  BY NarrowSlot
<1>13. func \notin AllSlots => func \notin Slots
  BY AccessorsFit
<1>14. func \in NarrowSlots => g[1].hi = 0 /\ func \in AllSlots
  <2> SUFFICES ASSUME func \in NarrowSlots PROVE g[1].hi = 0 /\ func \in AllSlots
    OBVIOUS
  <2>1. func \in AllSlots
    BY DEF AllSlots
  <2>2. g[1] = e.val[func]
    <3> HIDE DEF P, g
    <3> QED
      BY <1>2, <1>8, <2>1
  <2>3. Fits(func, e.val[func])
    BY <2>1, <1>12 DEF Proper
  <2> QED
    BY <2>1, <2>2, <2>3 DEF Fits
<1> HIDE DEF g, buf, data, P, func
<1>15. CASE func \in NarrowSlots
  <2>1. data = [buf EXCEPT ![1].hi = 0] /\ P = <<func>>
    BY <1>6, <1>8, <1>12, <1>14, <1>15
  <2>2. data \in Bufs /\ Len(data) = Len(buf) /\ data[1] = [lo |-> buf[1].lo, hi |-> 0]
    BY <1>9, <2>1, UpperBytes
  <2>3. g[1] \in Val
    BY <1>4 DEF Bufs
  <2>4. data[1] = g[1]
    BY <1>9, <1>11, <1>14, <1>15, <2>2, <2>3 DEF Val
  <2>5. Len(P) = 1 /\ g[1] = e.val[P[1]]
    BY <1>2, <2>1
  <2>6. \A i \in 1 .. Len(data) : data[i] = e.val[P[i]]
    BY <1>2, <1>9, <2>2, <2>4, <2>5
  <2> QED
    BY <1>2, <1>9, <2>2, <2>6 DEF Bufs, func, buf, data, P
<1>16. CASE func = "INPUT"
  <2>1. "INPUT" \in AllSlots /\ "INPUT" \notin NarrowSlots
    BY DEF AllSlots, NarrowSlots, WideSlots
  <2>2. data = buf /\ P = <<"INPUT">>
    BY <1>6, <1>8, <1>12, <1>16, <2>1
  <2>3. Len(P) = 1 /\ P[1] = "INPUT"
    BY <2>2
  <2>4. \A i \in 1 .. Len(data) : P[i] = "INPUT"
    <3>1. Len(data) = 1
      BY <1>2, <1>9, <2>2, <2>3
    <3> QED
      BY <2>3, <3>1
  <2> QED
    BY <1>2, <1>9, <2>2, <2>4 DEF Bufs, func, buf, data, P
<1>17. CASE func \notin NarrowSlots /\ func # "INPUT"
  <2>1. buf = g
    BY <1>5, <1>10, <1>17
  <2>2. data = buf
    BY <1>6, <1>12, <1>13, <1>17
  <2> QED
    BY <1>2, <1>9, <2>1, <2>2 DEF Bufs, func, buf, data, P
<1> QED
  BY <1>15, <1>16, <1>17

\* What an entry does to a record on its way, and to the buffer.
LEMMA EntryTaken ==
  ASSUME NEW e \in Proper, NEW f \in Readable(e), NEW W \in SUBSET AllSlots,
         NEW at \in [rec : Toward(e, W), buf : Bufs]
  PROVE  /\ TakeEntry(at, Entry(e, f)) \in [rec : Toward(e, W \cup SlotsOf(f)), buf : Bufs]
         /\ lnf_fields_def[f].func = "SRCADDR" =>
              ("FLAG_IPV6_ADDR" \in TakeEntry(at, Entry(e, f)).rec.v6 <=> ~
                     V4Compat(e.val["SRCADDR"]))
<1> DEFINE func == lnf_fields_def[f].func
           ent == Entry(e, f)
           buf == IF func \in CalcFuncs THEN <<Zero>> ELSE Overlay(at.buf, ent)
           rec == SetEntry(at.rec, f, buf)
<1>1. f \in Fields /\ IsSet(e, func) /\ e \in Rec
  BY DEF Readable, FOk, Proper
<1>2. ent.field = f /\ TakeEntry(at, ent) = [rec |-> rec, buf |-> buf]
  BY DEF TakeEntry, Entry
<1>3. at.rec \in Toward(e, W) /\ at.buf \in Bufs /\ at.rec \in Rec
  BY DEF Toward
<1>4. CASE func \in CalcFuncs
  <2>1. rec = at.rec /\ buf = <<Zero>>
    BY <1>4 DEF SetEntry
  <2>2. <<Zero>> \in Bufs
    BY DEF Bufs, Zero, Val
  <2>3. SlotsOf(f) = {} /\ func # "SRCADDR"
    BY <1>4, PartsAre DEF SlotsOf, CalcFuncs
  <2>4. W \cup SlotsOf(f) = W
    BY <2>3
  <2> QED
    BY <1>2, <1>3, <2>1, <2>2, <2>3, <2>4
<1>5. CASE func = "INET_FAMILY"
  <2>1. func \notin CalcFuncs /\ func \notin AllSlots /\ func # "SRCADDR"
    BY <1>5 DEF CalcFuncs, AllSlots, NarrowSlots, WideSlots
  <2>2. SlotsOf(f) = {}
    BY <1>5, PartsAre DEF SlotsOf
  <2>3. ~ Narrow(f)
    <3>1. func \notin NarrowSlots /\ func # "INPUT"
      BY <1>5 DEF NarrowSlots
    <3> QED
      BY <1>1, <3>1, Widths
  <2>4. buf \in Bufs
    <3>1. buf = Get(e, func)
      BY <2>1, <2>3 DEF Overlay, Entry, FGet
    <3>2. Get(e, func) \in {<<AF_INET>>, <<AF_INET6>>}
      BY <1>5, <2>1 DEF Get
    <3>3. <<AF_INET>> \in Bufs /\ <<AF_INET6>> \in Bufs
      BY DEF AF_INET, AF_INET6, Bufs, Val
    <3> QED
      BY <3>1, <3>2, <3>3
  <2>5. rec = FSet(at.rec, f, buf)
    <3>1. Taken(func, buf) = buf
      BY <2>1, AccessorsFit DEF Taken
    <3> HIDE DEF buf
    <3> QED
      BY <2>1, <3>1 DEF SetEntry
  <2>6. rec \in Rec /\ rec.val = at.rec.val /\ rec.bits = at.rec.bits
    <3> HIDE DEF rec, buf
    <3>1. rec = Set(at.rec, "INET_FAMILY", buf)
      BY <1>5, <2>5 DEF FSet
    <3> QED
      BY <1>3, <3>1, SetFamily
  <2>7. rec \in Toward(e, W)
    <3> HIDE DEF rec
    <3> QED
      BY <1>3, <2>6 DEF Toward, SlotOk
  <2>8. W \cup SlotsOf(f) = W
    BY <2>2
  <2> HIDE DEF rec, buf
  <2>9. [rec |-> rec, buf |-> buf] \in [rec : Toward(e, W \cup SlotsOf(f)), buf : Bufs]
    BY <2>4, <2>7, <2>8
  <2> QED
    BY <1>2, <2>1, <2>9
<1>6. CASE func \in AllSlots \cup Compounds
  <2> DEFINE data == Taken(func, buf)
             P == Parts(func)
  <2>1. func \notin CalcFuncs
    BY <1>6, PartsAre
  <2>2. buf = Overlay(at.buf, Entry(e, f))
    BY <2>1
  <2>3. /\ buf \in Bufs /\ data \in Seq(Val) /\ Len(data) = Len(P)
        /\ \A i \in 1 .. Len(data) : P[i] = "INPUT" \/ data[i] = e.val[P[i]]
    BY <1>1, <1>3, <1>6, <2>2, TakenRight
  <2>4. \A i \in 1 .. Len(P) : P[i] \in SentSlots(e)
    BY <1>1, <1>6, ReadableSent
  <2>5. rec = Set(at.rec, func, data)
    BY <2>1 DEF SetEntry, FSet
  <2>6. SlotsOf(f) = {P[i] : i \in 1 .. Len(P)}
    BY <1>6 DEF SlotsOf
  <2> HIDE DEF rec, data, buf, func, P, ent
  <2>7. rec \in Toward(e, W \cup SlotsOf(f))
    BY <1>1, <1>3, <1>6, <2>3, <2>4, <2>5, <2>6, SetToward DEF P
  <2>8. ASSUME func = "SRCADDR" PROVE "FLAG_IPV6_ADDR" \in rec.v6 <=> ~ V4Compat(e.val["SRCADDR"])
    <3>1. "SRCADDR" \in AllSlots /\ "SRCADDR" \in Slots
      BY AccessorsFit DEF AllSlots, WideSlots
    <3>2. P = <<"SRCADDR">>
      BY <2>8, <3>1, PartsOf DEF P
    <3>5. Len(P) = 1 /\ P[1] = "SRCADDR"
      BY <3>2
    <3>6. Len(data) = 1
      BY <2>3, <3>5
    <3>3. Len(data) = 1 /\ data[1] = e.val["SRCADDR"] /\ data[1] \in Val
      <4>1. 1 \in 1 .. Len(data) /\ P[1] # "INPUT"
        BY <3>5, <3>6
      <4>2. data[1] = e.val["SRCADDR"]
        BY <2>3, <3>5, <4>1
      <4> QED
        BY <2>3, <3>6, <4>1, <4>2
    <3>4. rec = SetSlot(at.rec, "SRCADDR", data[1])
      BY <1>3, <2>3, <2>5, <2>8, <3>1, <3>3, SetOne
    <3> QED
      BY <1>3, <3>1, <3>3, <3>4, SetSlotDoes
  <2> QED
    BY <1>2, <2>3, <2>7, <2>8 DEF func, ent
<1> QED
  BY <1>1, <1>4, <1>5, <1>6, Widths

\* The entries of the raw form of e
EntrySet(e) == {Entry(e, f) : f \in Readable(e)}

\* The entries of the first i fields
Listed(e, i) ==
  {l \in Seq(EntrySet(e)) :
     /\ \A j \in 1 .. i : FOk(e, FieldOrder[j]) => \E k \in 1 .. Len(l) : l[k] = Entry(e,
            FieldOrder[j])
     /\ i # 0 /\ FOk(e, FieldOrder[i]) => Len(l) >= 1 /\ l[Len(l)] = Entry(e, FieldOrder[i])}

\* A field that is set is listed after those before it.
LEMMA FieldListed ==
  ASSUME NEW e, NEW i \in 1 .. 97, NEW l \in Listed(e, i - 1)
  PROVE  WithField(e, l, FieldOrder[i]) \in Listed(e, i)
<1> DEFINE f == FieldOrder[i]
           q == WithField(e, l, f)
<1>1. f \in Fields
  BY FieldsIndexed
<1>2. l \in Seq(EntrySet(e)) /\ Len(l) \in Nat
      /\ \A j \in 1 .. i - 1 : FOk(e, FieldOrder[j]) =>
           \E k \in 1 .. Len(l) : l[k] = Entry(e, FieldOrder[j])
  BY DEF Listed
<1>3. \A j \in 1 .. i : j \in 1 .. i - 1 \/ j = i
  OBVIOUS
<1>4. CASE FOk(e, f)
  <2>1. Entry(e, f) \in EntrySet(e)
    BY <1>1, <1>4 DEF EntrySet, Readable
  <2>2. q = Append(l, Entry(e, f))
    BY <1>4 DEF WithField
  <2>3. /\ q \in Seq(EntrySet(e)) /\ Len(q) = Len(l) + 1 /\ q[Len(l) + 1] = Entry(e, f)
        /\ \A k \in 1 .. Len(l) : q[k] = l[k]
    <3> HIDE DEF q
    <3> QED
      BY <1>2, <2>1, <2>2
  <2> HIDE DEF q
  <2>4. \A j \in 1 .. i : FOk(e, FieldOrder[j]) => \E k \in 1 .. Len(q) : q[k] = Entry(e,
         FieldOrder[j])
    <3> SUFFICES ASSUME NEW j \in 1 .. i, FOk(e, FieldOrder[j])
                 PROVE  \E k \in 1 .. Len(q) : q[k] = Entry(e, FieldOrder[j])
      OBVIOUS
    <3>1. CASE j = i
      BY <1>2, <2>3, <3>1
    <3>2. CASE j \in 1 .. i - 1
      <4>1. PICK k \in 1 .. Len(l) : l[k] = Entry(e, FieldOrder[j])
        BY <1>2, <3>2
      <4>2. k \in 1 .. Len(q) /\ q[k] = l[k]
        BY <1>2, <2>3
      <4> QED
        BY <4>1, <4>2
    <3> QED
      BY <1>3, <3>1, <3>2
  <2>5. Len(q) >= 1 /\ q[Len(q)] = Entry(e, f)
    BY <1>2, <2>3
  <2>6. q \in Listed(e, i)
    BY <2>3, <2>4, <2>5 DEF Listed
  <2> QED
    BY <2>6 DEF q
<1>5. CASE ~ FOk(e, f)
  <2>1. q = l
    BY <1>5 DEF WithField
  <2> HIDE DEF q
  <2>2. \A j \in 1 .. i : FOk(e, FieldOrder[j]) => \E k \in 1 .. Len(q) : q[k] = Entry(e,
         FieldOrder[j])
    BY <1>2, <1>3, <1>5, <2>1
  <2>3. q \in Listed(e, i)
    BY <1>2, <1>5, <2>1, <2>2 DEF Listed
  <2> QED
    BY <2>3 DEF q
<1> QED
  BY <1>4, <1>5

\* lnf_rec_get_raw lists every field that is set.
LEMMA EntriesListed ==
  ASSUME NEW e
  PROVE  EntriesOf(e) \in Listed(e, 97)
<1> DEFINE n == Len(FieldOrder)
           M == [i \in 0 .. 97 |-> Listed(e, i)]
           Step(i, l) == WithField(e, l, FieldOrder[i])
           D == [i \in 0 .. 97 |-> [l \in M[i - 1] |-> Step(i, l)]]
           G(g) == g = [i \in 0 .. n |-> IF i = 0 THEN <<>> ELSE Step(i, g[i - 1])]
           f == CHOOSE g : G(g)
<1>1. n = 97
  BY FieldNumbers
<1>2. EntriesOf(e) = f[n]
  BY DEF EntriesOf
<1>3. <<>> \in M[0]
  BY DEF Listed
<1>4. \A k \in 1 .. 97 : \A l \in M[k - 1] : Step(k, l) \in M[k]
  <2> SUFFICES ASSUME NEW k \in 1 .. 97, NEW l \in M[k - 1] PROVE Step(k, l) \in M[k]
    OBVIOUS
  <2>1. k - 1 \in 0 .. 97 /\ k \in 0 .. 97
    OBVIOUS
  <2>2. l \in Listed(e, k - 1)
    BY <2>1
  <2>3. Step(k, l) \in Listed(e, k)
    BY <2>2, FieldListed
  <2> QED
    BY <2>1, <2>3
<1>5. \A k \in 1 .. 97 : \A l \in M[k - 1] : D[k][l] = Step(k, l) /\ D[k][l] \in M[k]
  <2>1. \A k \in 1 .. 97 : k \in 0 .. 97
    OBVIOUS
  <2> HIDE DEF M, Step
  <2> QED
    BY <1>4, <2>1
<1>6. M[97] = Listed(e, 97)
  OBVIOUS
<1> HIDE DEF n, M, Step, D
<1>7. \E g : G(g)
  <2>1. PICK g : RecursionIn(g, 97, <<>>, D, M)
    BY <1>3, <1>5, RecursionTyped
  <2>2. /\ g = [k \in 0 .. 97 |-> g[k]] /\ g[0] = <<>>
        /\ \A k \in 1 .. 97 : g[k - 1] \in M[k - 1] /\ g[k] = D[k][g[k - 1]]
    BY <2>1 DEF RecursionIn
  <2>3. \A k \in 0 .. 97 : g[k] = IF k = 0 THEN <<>> ELSE Step(k, g[k - 1])
    <3> TAKE k \in 0 .. 97
    <3>1. k = 0 \/ k \in 1 .. 97
      OBVIOUS
    <3> QED
      BY <1>5, <2>2, <3>1
  <2>4. G(g)
    BY <1>1, <2>2, <2>3
  <2> HIDE DEF G
  <2> QED
    BY <2>4
<1>8. G(f)
  BY <1>7
<1> HIDE DEF f
<1>9. f[0] \in M[0]
  BY <1>1, <1>3, <1>8
<1>10. \A k \in 1 .. 97 : f[k - 1] \in M[k - 1] => f[k] \in M[k]
  <2>1. \A k \in 1 .. 97 : k \in 0 .. 97 /\ k # 0
    OBVIOUS
  <2>2. \A k \in 1 .. 97 : f[k] = Step(k, f[k - 1])
    BY <1>1, <1>8, <2>1
  <2> HIDE DEF G
  <2> QED
    BY <1>4, <2>2
<1>11. f[97] \in M[97]
  <2> HIDE DEF G
  <2>1. \A k \in 0 .. 97 : f[k] \in M[k]
    BY <1>9, <1>10, StepByStep
  <2> QED
    BY <2>1
<1> QED
  BY <1>1, <1>2, <1>6, <1>11

\* Slots the entries before and with the k-th one write
Written(entries, k) == UNION {SlotsOf(entries[j].field) : j \in 1 .. k}

\* What the k-th entry adds to the slots that are written.
LEMMA WrittenSlots ==
  ASSUME NEW e, NEW l \in Seq(EntrySet(e)), NEW k \in 0 .. Len(l)
  PROVE  /\ Written(l, k) \in SUBSET AllSlots
         /\ k # 0 => Written(l, k) = Written(l, k - 1) \cup SlotsOf(l[k].field)
         /\ k = 0 => Written(l, k) = {}
<1>1. ASSUME NEW f PROVE SlotsOf(f) \subseteq AllSlots
  <2> DEFINE func == lnf_fields_def[f].func
  <2>1. CASE func \in AllSlots \cup Compounds
    <3>1. Parts(func) \in Seq(AllSlots)
      BY <2>1, PartsAre
    <3>2. \A i \in 1 .. Len(Parts(func)) : Parts(func)[i] \in AllSlots
      BY <3>1
    <3> QED
      BY <2>1, <3>2 DEF SlotsOf
  <2>2. CASE func \notin AllSlots \cup Compounds
    BY <2>2 DEF SlotsOf
  <2> QED
    BY <2>1, <2>2
<1>2. \A j \in 1 .. k : j \in 1 .. k - 1 \/ j = k
  OBVIOUS
<1>3. \A j \in 1 .. k - 1 : j \in 1 .. k
  OBVIOUS
<1>4. k # 0 => k \in 1 .. k
  OBVIOUS
<1> QED
  BY <1>1, <1>2, <1>3, <1>4 DEF Written

\* What comes out at the other end.
LEMMA RoundTrip ==
  ASSUME NEW e \in Proper, NEW x
  PROVE  LET d == SetRaw(x, EntriesOf(e))
         IN /\ d \in Toward(e, SentSlots(e))
            /\ "FLAG_IPV6_ADDR" \in d.v6 <=> ~ V4Compat(e.val["SRCADDR"])
<1> DEFINE l == EntriesOf(e)
           n == Len(l)
           a == [rec |-> RecClear(x), buf |-> <<Zero>>]
           Step(i, at) == TakeEntry(at, l[i])
           M == [i \in 0 .. n |-> [rec : Toward(e, Written(l, i)), buf : Bufs]]
           D == [i \in 0 .. n |-> [at \in M[i - 1] |-> Step(i, at)]]
           G(g) == g = [i \in 0 .. n |-> IF i = 0 THEN a ELSE Step(i, g[i - 1])]
           f == CHOOSE g : G(g)
<1>1. l \in Listed(e, 97)
  BY EntriesListed
<1>2. l \in Seq(EntrySet(e)) /\ n \in Nat
  BY <1>1 DEF Listed
<1>3. SetRaw(x, l) = f[n].rec
  BY DEF SetRaw
<1>4. a \in M[0]
  <2>1. EmptyRec \in Toward(e, {})
    <3>1. EmptyRec \in Rec /\ EmptyRec.bits = {}
      BY EmptyProper DEF Proper, EmptyRec
    <3> QED
      BY <3>1 DEF Toward
  <2>2. <<Zero>> \in Bufs
    BY DEF Bufs, Zero, Val
  <2>3. Written(l, 0) = {} /\ 0 \in 0 .. n
    BY <1>2, WrittenSlots
  <2> HIDE DEF l, n
  <2>4. a \in [rec : Toward(e, Written(l, 0)), buf : Bufs]
    BY <2>1, <2>2, <2>3 DEF RecClear
  <2> QED
    BY <2>3, <2>4
<1>5. ASSUME NEW k \in 1 .. n, NEW at \in M[k - 1]
      PROVE  /\ Step(k, at) \in M[k]
             /\ l[k] = Entry(e, "PAIR_ADDR_ALIAS") =>
                  ("FLAG_IPV6_ADDR" \in Step(k, at).rec.v6 <=> ~ V4Compat(e.val["SRCADDR"]))
  <2>1. k - 1 \in 0 .. n /\ k \in 0 .. n /\ k # 0
    BY <1>2
  <2>2. at \in [rec : Toward(e, Written(l, k - 1)), buf : Bufs]
    BY <2>1
  <2>3. PICK h \in Readable(e) : l[k] = Entry(e, h)
    BY <1>2 DEF EntrySet
  <2>4. l[k].field = h
    BY <2>3 DEF Entry
  <2>5. Written(l, k - 1) \in SUBSET AllSlots /\ Written(l, k) = Written(l, k - 1) \cup SlotsOf(h)
    BY <1>2, <2>1, <2>4, WrittenSlots
  <2> HIDE DEF l, n
  <2>6. /\ Step(k, at) \in [rec : Toward(e, Written(l, k)), buf : Bufs]
        /\ lnf_fields_def[h].func = "SRCADDR" =>
             ("FLAG_IPV6_ADDR" \in Step(k, at).rec.v6 <=> ~ V4Compat(e.val["SRCADDR"]))
    BY <2>2, <2>3, <2>5, EntryTaken
  <2>7. l[k] = Entry(e, "PAIR_ADDR_ALIAS") => lnf_fields_def[h].func = "SRCADDR"
    <3>1. l[k] = Entry(e, "PAIR_ADDR_ALIAS") => h = "PAIR_ADDR_ALIAS"
      BY <2>4 DEF Entry
    <3>2. h \in Fields
      BY DEF Readable
    <3> QED
      BY <3>1, <3>2, Widths
  <2> QED
    BY <2>1, <2>6, <2>7
<1>6. \A i \in 0 .. n : M[i] = [rec : Toward(e, Written(l, i)), buf : Bufs]
  OBVIOUS
<1>7. \A k \in 1 .. n : \A at \in M[k - 1] : D[k][at] = Step(k, at) /\ D[k][at] \in M[k]
  <2>1. \A k \in 1 .. n : k \in 0 .. n
    BY <1>2
  <2> HIDE DEF M, Step, n
  <2> QED
    BY <1>5, <2>1
<1> HIDE DEF a, l, n, M, Step, D
<1>8. \E g : G(g)
  <2>1. PICK g : RecursionIn(g, n, a, D, M)
    BY <1>2, <1>4, <1>7, RecursionTyped
  <2>2. /\ g = [k \in 0 .. n |-> g[k]] /\ g[0] = a
        /\ \A k \in 1 .. n : g[k - 1] \in M[k - 1] /\ g[k] = D[k][g[k - 1]]
    BY <2>1 DEF RecursionIn
  <2>3. \A k \in 0 .. n : g[k] = IF k = 0 THEN a ELSE Step(k, g[k - 1])
    <3> TAKE k \in 0 .. n
    <3>1. k = 0 \/ k \in 1 .. n
      BY <1>2
    <3> QED
      BY <1>7, <2>2, <3>1
  <2>4. G(g)
    BY <2>2, <2>3
  <2> HIDE DEF G
  <2> QED
    BY <2>4
<1>9. G(f)
  BY <1>8
<1> HIDE DEF f
<1>10. f[0] \in M[0]
  BY <1>2, <1>4, <1>9
<1>11. \A k \in 1 .. n : f[k - 1] \in M[k - 1] => f[k] \in M[k]
  BY <1>2, <1>5, <1>9
<1>12. \A k \in 0 .. n : f[k] \in M[k]
  <2> HIDE DEF G
  <2> QED
    BY <1>2, <1>10, <1>11, StepByStep
\* The last entry is that of the last field, which is always set.
<1>13. n >= 1 /\ l[n] = Entry(e, "PAIR_ADDR_ALIAS")
  <2>1. FieldOrder[97] = "PAIR_ADDR_ALIAS" /\ "PAIR_ADDR_ALIAS" \in Fields
    BY FieldNumbers, FieldsIndexed
  <2>2. FOk(e, "PAIR_ADDR_ALIAS")
    <3>1. lnf_fields_def["PAIR_ADDR_ALIAS"].func = "SRCADDR"
      BY <2>1, Widths
    <3>2. "SRCADDR" \in AllSlots /\ "SRCADDR" \in Basics
      BY DEF AllSlots, WideSlots, Basics
    <3>3. "SRCADDR" \in Slots /\ Access["SRCADDR"].bits = {}
      BY <3>2, AccessorsFit DEF AccessFits
    <3>4. Parts("SRCADDR") = <<"SRCADDR">>
      BY <3>2, PartsOf, Zenon
    <3>5. Parts("SRCADDR")[1] = "SRCADDR"
      BY <3>4
    <3>6. "SRCADDR" \notin CalcFuncs
      BY DEF CalcFuncs
    <3>7. IsSet(e, "SRCADDR")
      BY <3>3, <3>5, <3>6 DEF IsSet
    <3> QED
      BY <3>1, <3>7 DEF FOk
  <2> QED
    BY <1>1, <2>1, <2>2 DEF Listed, n
<1>14. f[n] = Step(n, f[n - 1]) /\ n \in 1 .. n /\ n - 1 \in 0 .. n /\ n \in 0 .. n
  BY <1>2, <1>9, <1>13
<1>15. "FLAG_IPV6_ADDR" \in f[n].rec.v6 <=> ~ V4Compat(e.val["SRCADDR"])
  <2>1. f[n - 1] \in M[n - 1]
    BY <1>12, <1>14
  <2>2. "FLAG_IPV6_ADDR" \in Step(n, f[n - 1]).rec.v6 <=> ~ V4Compat(e.val["SRCADDR"])
    BY <1>5, <1>13, <1>14, <2>1
  <2> QED
    BY <1>14, <2>2
<1>16. f[n].rec \in Toward(e, Written(l, n))
  <2> HIDE DEF G
  <2>1. f[n] \in M[n]
    BY <1>12, <1>14
  <2>2. f[n] \in [rec : Toward(e, Written(l, n)), buf : Bufs]
    BY <1>6, <1>14, <2>1
  <2> QED
    BY <2>2
<1>17. SentSlots(e) \subseteq Written(l, n)
  <2>1. ASSUME NEW s \in AllSlots, SlotOk(e, s) PROVE s \in Written(l, n)
    <3>1. s \in Fields /\ lnf_fields_def[s].func = s
      BY <2>1, NarrowSlot, Widths
    <3>2. PICK j \in 1 .. 97 : FieldOrder[j] = s
      BY <3>1, FieldsIndexed
    <3>3. Parts(s) = <<s>>
      BY <2>1, PartsOf, Zenon
    <3>4. FOk(e, s)
      <4>1. s \notin CalcFuncs /\ s # "INET_FAMILY" /\ s # "BREC1"
        BY DEF AllSlots, NarrowSlots, WideSlots, CalcFuncs
      <4>2. Parts(s)[1] = s
        BY <3>3
      <4>3. IsSet(e, s)
        BY <2>1, <4>1, <4>2 DEF IsSet, SlotOk
      <4> QED
        BY <3>1, <4>3 DEF FOk
    <3>5. PICK k \in 1 .. n : l[k] = Entry(e, s)
      BY <1>1, <3>2, <3>4 DEF Listed, n
    <3>6. l[k].field = s
      BY <3>5 DEF Entry
    <3>7. SlotsOf(s) = {Parts(s)[i] : i \in 1 .. Len(Parts(s))}
      BY <2>1, <3>1 DEF SlotsOf
    <3>8. s \in SlotsOf(s)
      <4>1. Len(Parts(s)) = 1 /\ Parts(s)[1] = s
        BY <3>3
      <4> QED
        BY <3>7, <4>1
    <3> QED
      BY <3>6, <3>8 DEF Written
  <2>2. "AGGR_FLOWS" \in Written(l, n)
    <3>1. "BREC1" \in Compounds /\ "BREC1" \in Fields
      BY SlotsAreFields DEF Compounds
    <3>2. lnf_fields_def["BREC1"].func = "BREC1"
      BY <3>1, Widths
    <3>3. PICK j \in 1 .. 97 : FieldOrder[j] = "BREC1"
      BY <3>1, FieldsIndexed
    <3>4. FOk(e, "BREC1")
      BY <3>2 DEF FOk, IsSet, CalcFuncs
    <3>5. PICK k \in 1 .. n : l[k] = Entry(e, "BREC1")
      BY <1>1, <3>3, <3>4 DEF Listed, n
    <3>6. l[k].field = "BREC1"
      BY <3>5 DEF Entry
    <3>7. SlotsOf("BREC1") = {Parts("BREC1")[i] : i \in 1 .. Len(Parts("BREC1"))}
      BY <3>1, <3>2 DEF SlotsOf
    <3>8. "AGGR_FLOWS" \in SlotsOf("BREC1")
      <4>1. Len(Parts("BREC1")) = 10 /\ Parts("BREC1")[10] = "AGGR_FLOWS"
        BY PartsOf
      <4> QED
        BY <3>7, <4>1
    <3> QED
      BY <3>6, <3>8 DEF Written
  <2> QED
    BY <2>1, <2>2 DEF SentSlots
<1>18. f[n].rec \in Toward(e, SentSlots(e))
  BY <1>16, <1>17 DEF Toward
<1> QED
  BY <1>3, <1>15, <1>18 DEF l
-----------------------------------------------------------------------------
(***************************************************************************)
(* What arrives                                                            *)
(***************************************************************************)

\* What a record answers for a calculated field depends on what the basic
\* record carries.
LEMMA CalcSame ==
  ASSUME NEW a, NEW b, NEW func \in CalcFuncs, \A s \in Basics : a.val[s] = b.val[s]
  PROVE  IsSet(a, func) = IsSet(b, func) /\ Get(a, func) = Get(b, func)
<1>1. /\ a.val["FIRST"] = b.val["FIRST"] /\ a.val["LAST"] = b.val["LAST"]
      /\ a.val["DPKTS"] = b.val["DPKTS"] /\ a.val["DOCTETS"] = b.val["DOCTETS"]
  BY DEF Basics
<1>2. Duration(a) = Duration(b)
  BY <1>1 DEF Duration
<1>3. CalcOK(a, func) = CalcOK(b, func)
  BY <1>1, <1>2, Zenon DEF CalcOK
<1>4. CalcValue(a, func) = CalcValue(b, func)
  BY <1>1, <1>2, Zenon DEF CalcValue
<1>5. func \notin {"BREC1", "INET_FAMILY"}
  BY DEF CalcFuncs
<1>6. IsSet(a, func) = CalcOK(a, func) /\ IsSet(b, func) = CalcOK(b, func)
  BY <1>5, Zenon DEF IsSet
<1>7. Get(a, func) = <<CalcValue(a, func)>> /\ Get(b, func) = <<CalcValue(b, func)>>
  BY <1>5 DEF Get
<1> QED
  BY <1>3, <1>4, <1>6, <1>7

\* The parts of compound fields are none of the slots that need their own treatment.
LEMMA PartsPlain ==
  ASSUME NEW func \in AllSlots \cup Compounds, NEW i \in 1 .. Len(Parts(func)),
         Parts(func)[i] \in {"INPUT", "EXPORTER_VERSION", "SEQUENCE_FAILURES"}
  PROVE  func = Parts(func)[i]
<1>1. CASE func \in AllSlots
  <2>1. Parts(func) = <<func>>
    BY <1>1, PartsOf, Zenon
  <2> QED
    BY <2>1
<1>2. CASE func = "INGRESS_ACL"
  <2>1. Parts(func) = <<"INGRESS_ACL_ID", "INGRESS_ACE_ID", "INGRESS_XACE_ID">>
    BY <1>2, PartsOf, Zenon
  <2> QED
    BY <2>1
<1>3. CASE func = "EGRESS_ACL"
  <2>1. Parts(func) = <<"EGRESS_ACL_ID", "EGRESS_ACE_ID", "EGRESS_XACE_ID">>
    BY <1>3, PartsOf, Zenon
  <2> QED
    BY <2>1
<1>4. CASE func = "BREC1"
  <2>1. Parts(func) = <<"FIRST", "LAST", "SRCADDR", "DSTADDR", "PROT", "SRCPORT", "DSTPORT",
                        "DOCTETS", "DPKTS", "AGGR_FLOWS">>
    BY <1>4, PartsOf, Zenon
  <2> QED
    BY <2>1
<1> QED
  BY <1>1, <1>2, <1>3, <1>4 DEF Compounds

\* A field that is one slot, or a list of an access control entry, is set when
\* its first slot is.
LEMMA FirstPart ==
  ASSUME NEW r, NEW func \in AllSlots \cup Compounds, func # "BREC1"
  PROVE  /\ IsSet(r, func) <=> SlotOk(r, Parts(func)[1])
         /\ Parts(func)[1] \in AllSlots
         /\ Parts(func)[1] \in {"AGGR_FLOWS", "SEQUENCE_FAILURES"} => func = Parts(func)[1]
<1>1. func \notin CalcFuncs /\ func # "INET_FAMILY"
  BY PartsAre
<1>2. IsSet(r, func) <=> SlotOk(r, Parts(func)[1])
  BY <1>1 DEF IsSet, SlotOk
<1>3. Parts(func)[1] \in AllSlots /\ 1 \in 1 .. Len(Parts(func))
  BY PartsAre
<1>4. Parts(func)[1] = "AGGR_FLOWS" => func = Parts(func)[1]
  <2>1. CASE func \in AllSlots
    <3>1. Parts(func) = <<func>>
      BY <2>1, PartsOf, Zenon
    <3> QED
      BY <3>1
  <2>2. CASE func = "INGRESS_ACL"
    <3>1. Parts(func) = <<"INGRESS_ACL_ID", "INGRESS_ACE_ID", "INGRESS_XACE_ID">>
      BY <2>2, PartsOf, Zenon
    <3> QED
      BY <3>1
  <2>3. CASE func = "EGRESS_ACL"
    <3>1. Parts(func) = <<"EGRESS_ACL_ID", "EGRESS_ACE_ID", "EGRESS_XACE_ID">>
      BY <2>3, PartsOf, Zenon
    <3> QED
      BY <3>1
  <2> QED
    BY <2>1, <2>2, <2>3 DEF Compounds
<1>5. Parts(func)[1] = "SEQUENCE_FAILURES" => func = Parts(func)[1]
  BY <1>3, PartsPlain
<1> QED
  BY <1>2, <1>3, <1>4, <1>5

\* The basic slots are always sent.
LEMMA BasicsSent ==
  ASSUME NEW e
  PROVE  \A s \in Basics : s \in SentSlots(e) /\ s \in AllSlots /\ s # "INPUT"
<1>1. \A s \in Basics : s \in AllSlots /\ s # "INPUT"
  BY DEF Basics, AllSlots, NarrowSlots, WideSlots
<1>2. \A s \in Basics : Access[s].bits = {}
  BY <1>1, AccessorsFit DEF AccessFits
<1> QED
  BY <1>1, <1>2 DEF SentSlots, SlotOk

\* Every field that was set arrives with its value ...
LEMMA FieldArrives ==
  ASSUME NEW e \in Rec, NEW d \in Toward(e, SentSlots(e)), NEW f \in Readable(e) \ Altered
  PROVE  Same(e, d, f)
<1> DEFINE func == lnf_fields_def[f].func
           P == Parts(func)
<1>1. f \in Fields /\ IsSet(e, func) /\ func \notin {"INET_FAMILY", "INPUT"} /\ d \in Rec
  BY DEF Readable, FOk, Altered, Toward
<1>2. \A s \in SentSlots(e) : SlotOk(d, s) /\ (s # "INPUT" => d.val[s] = e.val[s])
  BY DEF Toward
<1>3. CASE func \in CalcFuncs
  <2>1. \A s \in Basics : d.val[s] = e.val[s]
    BY <1>2, BasicsSent
  <2>2. IsSet(d, func) = IsSet(e, func) /\ Get(d, func) = Get(e, func)
    BY <1>3, <2>1, CalcSame
  <2> QED
    BY <1>1, <2>2 DEF Same, FOk, FGet
<1>4. CASE func \in AllSlots \cup Compounds
  <2>1. P \in Seq(AllSlots) /\ P # <<>> /\ func \notin CalcFuncs
    BY <1>4, PartsAre
  <2>2. \A i \in 1 .. Len(P) : P[i] \in SentSlots(e)
    BY <1>1, <1>4, ReadableSent
  <2>3. \A i \in 1 .. Len(P) : P[i] # "INPUT"
    BY <1>1, <1>4, PartsPlain
  <2>4. IsSet(d, func)
    <3>1. CASE func = "BREC1"
      BY <3>1, <2>1 DEF IsSet
    <3>2. CASE func # "BREC1"
      <4>1. 1 \in 1 .. Len(P)
        BY <2>1
      <4>2. SlotOk(d, P[1])
        BY <1>2, <2>2, <4>1
      <4> QED
        BY <1>4, <3>2, <4>2, FirstPart
    <3> QED
      BY <3>1, <3>2
  <2>5. Get(d, func) = Get(e, func)
    <3>1. /\ Get(d, func) = [i \in DOMAIN P |-> d.val[P[i]]]
          /\ Get(e, func) = [i \in DOMAIN P |-> e.val[P[i]]]
      BY <1>1, <2>1 DEF Get
    <3>2. DOMAIN P = 1 .. Len(P)
      BY <2>1
    <3>3. \A i \in DOMAIN P : d.val[P[i]] = e.val[P[i]]
      BY <1>2, <2>2, <2>3, <3>2
    <3> HIDE DEF P, func
    <3> QED
      BY <3>1, <3>3
  <2> QED
    BY <2>4, <2>5 DEF Same, FOk, FGet
<1> QED
  BY <1>1, <1>3, <1>4, Widths

\* Slots that share a bit: all bits of the one are bits of the other.
LEMMA Sharing ==
  ASSUME NEW s \in AllSlots, NEW u \in AllSlots, s # "SEQUENCE_FAILURES",
         NEW b, b \in Access[s].bits, b \in Access[u].bits
  PROVE  Access[u].bits \subseteq Access[s].bits
<1>1. AccessFits(s, Access[s]) /\ AccessFits(u, Access[u])
  BY AccessorsFit
<1>2. \A p, q \in BitPairs : b \in p /\ b \in q => p = q
  BY DEF BitPairs
<1>3. \/ Access[s].bits \in BitPairs
      \/ Access[s].bits = {b} /\ \A p \in BitPairs : b \notin p
  BY <1>1 DEF AccessFits
<1>4. Access[u].bits \in BitPairs \/ Access[u].bits = {b}
  BY <1>1 DEF AccessFits
<1> QED
  BY <1>2, <1>3, <1>4

\* ... and no other, but for the two that are named.
LEMMA NoneInvented ==
  ASSUME NEW e \in Rec, NEW d \in Toward(e, SentSlots(e)), NEW f \in Readable(d),
         f \notin {"AGGR_FLOWS", "SEQUENCE_FAILURES"}
  PROVE  f \in Readable(e)
<1> DEFINE func == lnf_fields_def[f].func
<1>1. f \in Fields /\ IsSet(d, func)
  BY DEF Readable, FOk
<1>2. \A s \in SentSlots(e) : s # "INPUT" => d.val[s] = e.val[s]
  BY DEF Toward
<1>3. IsSet(e, func)
  <2>1. CASE func \in CalcFuncs
    <3>1. \A s \in Basics : d.val[s] = e.val[s]
      BY <1>2, BasicsSent
    <3>2. IsSet(d, func) = IsSet(e, func)
      BY <2>1, <3>1, CalcSame
    <3> QED
      BY <1>1, <3>2
  <2>2. CASE func \in {"INET_FAMILY", "BREC1"}
    BY <2>2 DEF IsSet, CalcFuncs
  <2>3. CASE func \in AllSlots \cup Compounds /\ func # "BREC1"
    <3> DEFINE s == Parts(func)[1]
    <3>1. s \in AllSlots /\ SlotOk(d, s)
      BY <1>1, <2>3, FirstPart
    <3>2. s \notin {"AGGR_FLOWS", "SEQUENCE_FAILURES"}
      <4>1. func \in {"AGGR_FLOWS", "SEQUENCE_FAILURES"} => f = func
        BY <1>1, Widths DEF Single
      <4>2. s \in {"AGGR_FLOWS", "SEQUENCE_FAILURES"} => func = s
        BY <2>3, FirstPart
      <4> HIDE DEF s, func
      <4> QED
        BY <4>1, <4>2
    <3>3. IsSet(e, func) <=> SlotOk(e, s)
      BY <2>3, FirstPart
    <3> HIDE DEF s, func
    <3>4. SlotOk(e, s)
      <4>1. CASE Access[s].bits = {}
        BY <4>1 DEF SlotOk
      <4>2. CASE Access[s].bits \cap d.bits # {}
        <5>1. PICK b \in Access[s].bits : b \in SetBits(e)
          BY <4>2 DEF Toward
        <5>2. PICK u \in SentSlots(e) : b \in Access[u].set4 \cup Access[u].set6
          BY <5>1 DEF SetBits
        <5>3. u \in AllSlots
          BY <5>2 DEF SentSlots, AllSlots, WideSlots
        <5>4. b \in Access[u].bits
          BY <5>2, <5>3, AccessorsFit DEF AccessFits
        <5>5. Access[u].bits \subseteq Access[s].bits
          BY <3>1, <3>2, <5>1, <5>3, <5>4, Sharing
        <5>6. SlotOk(e, u)
          <6>1. u # "AGGR_FLOWS"
            <7> SUFFICES ASSUME u = "AGGR_FLOWS" PROVE FALSE
              OBVIOUS
            <7>1. b = "EX_AGGR_FLOWS_8"
              BY <5>2, <5>3, AccessorsFit DEF AccessFits
            <7>2. s = "AGGR_FLOWS"
              BY <3>1, <5>1, <7>1, AccessorsFit DEF AccessFits
            <7> QED
              BY <3>2, <7>2
          <6> QED
            BY <5>2, <6>1 DEF SentSlots
        <5> QED
          BY <5>4, <5>5, <5>6 DEF SlotOk
      <4> QED
        BY <3>1, <4>1, <4>2 DEF SlotOk
    <3> QED
      BY <3>3, <3>4
  <2> QED
    BY <1>1, <2>1, <2>2, <2>3, Widths DEF Compounds
<1> QED
  BY <1>1, <1>3 DEF Readable, FOk

\* A copy answers as the original, but for the exporter's version.
LEMMA CopyAnswers ==
  ASSUME NEW e \in Rec
  PROVE  /\ Readable(CopyOf(e)) = Readable(e)
         /\ \A f \in Readable(e) \ {"EXPORTER_VERSION"} : Same(e, CopyOf(e), f)
<1> DEFINE d == CopyOf(e)
<1>1. d.bits = e.bits /\ d.v6 = e.v6
      /\ \A s \in Slots : s # "EXPORTER_VERSION" => d.val[s] = e.val[s]
  BY DEF CopyOf, Rec
<1> HIDE DEF d
<1>2. \A s \in Basics : d.val[s] = e.val[s]
  <2>1. \A s \in Basics : s \in Slots /\ s # "EXPORTER_VERSION"
    <3>1. \A s \in Basics : s \in AllSlots /\ s # "EXPORTER_VERSION"
      BY DEF Basics, AllSlots, NarrowSlots, WideSlots
    <3> QED
      BY <3>1, AccessorsFit
  <2> QED
    BY <1>1, <2>1
<1>3. ASSUME NEW f \in Fields
      PROVE  /\ FOk(d, f) <=> FOk(e, f)
             /\ f # "EXPORTER_VERSION" => FGet(d, f) = FGet(e, f)
  <2> DEFINE func == lnf_fields_def[f].func
             P == Parts(func)
  <2>1. CASE func \in CalcFuncs
    <3>1. IsSet(d, func) = IsSet(e, func) /\ Get(d, func) = Get(e, func)
      BY <1>2, <2>1, CalcSame
    <3> QED
      BY <3>1 DEF FOk, FGet
  <2>2. CASE func = "INET_FAMILY"
    BY <1>1, <2>2 DEF FOk, FGet, IsSet, Get, CalcFuncs
  <2>3. CASE func \in AllSlots \cup Compounds
    <3>1. P \in Seq(AllSlots) /\ func \notin CalcFuncs /\ func # "INET_FAMILY"
      BY <2>3, PartsAre
    <3>2. IsSet(d, func) <=> IsSet(e, func)
      BY <1>1, <3>1 DEF IsSet
    <3>3. ASSUME f # "EXPORTER_VERSION" PROVE Get(d, func) = Get(e, func)
      <4>1. /\ Get(d, func) = [i \in DOMAIN P |-> d.val[P[i]]]
            /\ Get(e, func) = [i \in DOMAIN P |-> e.val[P[i]]]
        BY <3>1 DEF Get
      <4>2. DOMAIN P = 1 .. Len(P)
        BY <3>1
      <4>3. func # "EXPORTER_VERSION"
        BY <3>3, Widths DEF Single
      <4>4. \A i \in 1 .. Len(P) : P[i] # "EXPORTER_VERSION"
        BY <2>3, <4>3, PartsPlain
      <4>5. \A i \in 1 .. Len(P) : P[i] \in Slots
        BY <3>1, AccessorsFit
      <4> HIDE DEF P, func
      <4>6. \A i \in DOMAIN P : d.val[P[i]] = e.val[P[i]]
        BY <1>1, <4>2, <4>4, <4>5
      <4> QED
        BY <4>1, <4>6
    <3> QED
      BY <3>2, <3>3 DEF FOk, FGet
  <2> QED
    BY <2>1, <2>2, <2>3, Widths
<1>4. Readable(d) = Readable(e)
  BY <1>3 DEF Readable
<1>5. \A f \in Readable(e) \ {"EXPORTER_VERSION"} : Same(e, d, f)
  BY <1>3 DEF Readable, Same
<1> QED
  BY <1>4, <1>5 DEF d
-----------------------------------------------------------------------------
(***************************************************************************)
(* The invariant                                                           *)
(***************************************************************************)

\* What lnf_rec_init asks for
PieceSet == {"rec", "master_record", "extensions_arr", "exporter", "sampler", "bits", "field_data"}

PiecesType ==
  pieces \in [got : SUBSET PieceSet, next : 1 .. 8, state : {"init", "ready", "failed"},
              freed : SUBSET (PieceSet \cup {"unset bits"})]

\* Until one is refused the pieces come in their order.
PiecesInOrder ==
  pieces.state = "init" => pieces.next \in 1 .. 7 /\ pieces.got = {Order[j] : j \in 1 ..
         pieces.next - 1}

\* The raw form is that of the record as it was, and dst what it makes of it.
SentOn ==
  /\ src \in Proper
  /\ raw.status = "LNF_OK" => sent \in Proper /\ raw.entries = EntriesOf(sent)
  /\ how = "raw" => sent \in Proper /\ dst = SetRaw(EmptyRec, EntriesOf(sent))
  /\ how = "copy" => sent \in Proper /\ dst = CopyOf(sent)

\* The inductive invariant
RawInv == PiecesType /\ PiecesInOrder /\ InitReleases /\ SentOn

\* Where in the order the pieces stand that matter.
LEMMA OrderIs ==
  /\ Len(Order) = 7
  /\ \A j \in 1 .. 7 : Order[j] \in PieceSet
  /\ \A j \in 1 .. 7 : /\ Order[j] = "extensions_arr" <=> j = 3
                       /\ Order[j] = "exporter" <=> j = 4
                       /\ Order[j] = "sampler" <=> j = 5
                       /\ Order[j] = "bits" <=> j = 6
BY DEF Order, PieceSet

\* One more piece is there.
LEMMA InitStep ==
  ASSUME PiecesType, PiecesInOrder, RecInitStep
  PROVE  PiecesType' /\ PiecesInOrder' /\ InitReleases'
<1> DEFINE i == pieces.next
<1>1. /\ pieces.state = "init" /\ i \in 1 .. 7 /\ pieces.got = {Order[j] : j \in 1 .. i - 1}
      /\ pieces.got \subseteq PieceSet /\ pieces.freed \subseteq PieceSet \cup {"unset bits"}
  BY DEF RecInitStep, PiecesInOrder, PiecesType
<1>2. pieces' = [got |-> pieces.got \cup {Order[i]}, next |-> i + 1,
                 state |-> IF i = 7 THEN "ready" ELSE "init", freed |-> pieces.freed]
  BY OrderIs DEF RecInitStep, PiecesType
<1> HIDE DEF i
<1>0. i \in Nat /\ 1 <= i /\ i <= 7
  <2>1. i \in 1 .. 7
    BY <1>1
  <2> QED
    BY <2>1
<1>3. PiecesType'
  <2>1. i + 1 \in 1 .. 8
    BY <1>0
  <2>2. (IF i = 7 THEN "ready" ELSE "init") \in {"init", "ready", "failed"}
    OBVIOUS
  <2>3. pieces.got \cup {Order[i]} \subseteq PieceSet
    BY <1>1, OrderIs
  <2> QED
    BY <1>1, <1>2, <2>1, <2>2, <2>3 DEF PiecesType
<1>4. PiecesInOrder'
  <2> SUFFICES ASSUME i # 7
               PROVE  i + 1 \in 1 .. 7 /\ pieces'.got = {Order[j] : j \in 1 .. (i + 1) - 1}
    BY <1>2 DEF PiecesInOrder
  <2>1. (i + 1) - 1 = i /\ i + 1 \in 1 .. 7 /\ i \in 1 .. i
    BY <1>0
  <2>2. \A j : j \in 1 .. i <=> j \in 1 .. i - 1 \/ j = i
    BY <1>0
  <2>3. {Order[j] : j \in 1 .. i} = {Order[j] : j \in 1 .. i - 1} \cup {Order[i]}
    BY <2>2
  <2> QED
    BY <1>1, <1>2, <2>1, <2>3
<1>5. InitReleases'
  BY <1>2 DEF InitReleases
<1> QED
  BY <1>3, <1>4, <1>5

\* A piece is refused: up to extensions_arr there is nothing to take the bits from,
\* and later than the sampler they are there, or null.
LEMMA InitFail ==
  ASSUME PiecesType, PiecesInOrder, RecInitFail
  PROVE  PiecesType' /\ PiecesInOrder' /\ InitReleases'
<1> DEFINE i == pieces.next
<1>1. /\ pieces.state = "init" /\ i \in 1 .. 7 /\ pieces.got = {Order[j] : j \in 1 .. i - 1}
      /\ pieces.got \subseteq PieceSet /\ i # 4
  BY OrderIs DEF RecInitFail, PiecesInOrder, PiecesType, FailsAt
<1>2. PICK got \in IF Order[i] = "sampler"
                   THEN {pieces.got, (pieces.got \ {"exporter"}) \cup {"sampler"}, pieces.got \
                          {"exporter"}}
                   ELSE {pieces.got} :
        pieces' = [pieces EXCEPT !.got = got, !.state = "failed", !.freed = FreeOnFailure(i, got)]
  BY DEF RecInitFail
<1>3. pieces' = [got |-> got, next |-> i, state |-> "failed", freed |-> FreeOnFailure(i, got)]
  BY <1>2 DEF PiecesType
<1> HIDE DEF i
<1>0. i \in Nat /\ 1 <= i /\ i <= 7
  <2>1. i \in 1 .. 7
    BY <1>1
  <2> QED
    BY <2>1
<1>4. got \subseteq PieceSet
  BY <1>1, <1>2 DEF PieceSet
<1>5. "unset bits" \notin PieceSet
  BY DEF PieceSet
\* What is there when a piece is refused.
<1>6. /\ "extensions_arr" \in got <=> i > 3
      /\ "bits" \in got <=> i > 6
  <2>1. "extensions_arr" \in pieces.got <=> i > 3
    <3>1. "extensions_arr" \in pieces.got => i > 3
      <4> SUFFICES ASSUME "extensions_arr" \in pieces.got PROVE i > 3
        OBVIOUS
      <4>1. PICK j \in 1 .. i - 1 : Order[j] = "extensions_arr"
        BY <1>1
      <4> QED
        BY <1>1, <4>1, OrderIs
    <3>2. i > 3 => 3 \in 1 .. i - 1 /\ Order[3] = "extensions_arr"
      BY <1>1, OrderIs
    <3> QED
      BY <1>1, <3>1, <3>2
  <2>2. "bits" \in pieces.got <=> i > 6
    <3>1. "bits" \in pieces.got => i > 6
      <4> SUFFICES ASSUME "bits" \in pieces.got PROVE i > 6
        OBVIOUS
      <4>1. PICK j \in 1 .. i - 1 : Order[j] = "bits"
        BY <1>1
      <4> QED
        BY <1>1, <4>1, OrderIs
    <3>2. i > 6 => 6 \in 1 .. i - 1 /\ Order[6] = "bits"
      BY <1>1, OrderIs
    <3> QED
      BY <1>1, <3>1, <3>2
  <2> QED
    BY <1>2, <2>1, <2>2
<1>7. /\ got \subseteq FreeOnFailure(i, got)
      /\ FreeOnFailure(i, got) \subseteq PieceSet \cup {"unset bits"}
      /\ "unset bits" \in FreeOnFailure(i, got) <=>
           "extensions_arr" \in got /\ "bits" \notin got /\ Order[i] # "bits"
  BY <1>4, <1>5 DEF FreeOnFailure, RecFree
<1>8. "unset bits" \in FreeOnFailure(i, got) <=> "extensions_arr" \in got /\ Order[i] = "sampler"
  <2>1. (i > 3 /\ ~ (i > 6) /\ i # 6) <=> (i > 3 /\ i = 5)
    BY <1>0, <1>1
  <2>2. (Order[i] = "bits" <=> i = 6) /\ (Order[i] = "sampler" <=> i = 5)
    BY <1>1, OrderIs
  <2> QED
    BY <1>6, <1>7, <2>1, <2>2, Zenon
<1>9. PiecesType'
  <2>1. i \in 1 .. 8
    BY <1>0
  <2> QED
    BY <1>3, <1>4, <1>7, <2>1 DEF PiecesType
<1>10. PiecesInOrder'
  BY <1>3 DEF PiecesInOrder
<1>11. InitReleases'
  BY <1>3, <1>7, <1>8 DEF InitReleases
<1> QED
  BY <1>9, <1>10, <1>11

\* What the setters are given fits.
LEMMA FitProper ==
  ASSUME NEW s \in AllSlots, NEW v \in Val
  PROVE  Fit(s, v) \in Val /\ Fits(s, Fit(s, v))
<1>1. Narrow(s) <=> s \in NarrowSlots
  BY NarrowSlot
<1> QED
  BY <1>1 DEF Fit, Fits, Val

\* A field is set to a value its parts can hold.
LEMMA SrcSet ==
  ASSUME src \in Proper, NEW f \in SetFields, NEW v \in Inputs(f), RecFset(f, v)
  PROVE  src' \in Proper
<1> DEFINE func == lnf_fields_def[f].func
           data == [i \in DOMAIN Parts(f) |-> Fit(Parts(f)[i], v)]
<1>1. f \in Fields
  BY RecRawAssumption
<1>2. v \in Val
  <2>1. AF_INET \in Val /\ AF_INET6 \in Val
    BY DEF AF_INET, AF_INET6, Val
  <2>2. \A w \in Values : Fit(f, w) \in Val
    BY RecRawAssumption DEF Fit, Val
  <2> QED
    BY <2>1, <2>2 DEF Inputs
<1>3. src' = FSet(src, f, data)
  BY DEF RecFset
<1>4. ASSUME func \in AllSlots \cup Compounds
      PROVE  /\ data \in Seq(Val) /\ Len(data) = Len(Parts(func))
             /\ \A i \in 1 .. Len(data) : Fits(Parts(func)[i], data[i])
  <2>1. CASE f \in AllSlots \cup Compounds
    <3>1. func = f
      BY <1>1, <2>1, Widths
    <3>2. Parts(f) \in Seq(AllSlots)
      BY <2>1, PartsAre
    <3>3. DOMAIN Parts(f) = 1 .. Len(Parts(f)) /\ Len(Parts(f)) \in Nat
      BY <3>2
    <3>4. \A i \in 1 .. Len(Parts(f)) : Fit(Parts(f)[i], v) \in Val /\ Fits(Parts(f)[i],
           Fit(Parts(f)[i], v))
      BY <1>2, <3>2, FitProper
    <3>5. data = [i \in 1 .. Len(Parts(f)) |-> Fit(Parts(f)[i], v)]
      BY <3>3
    <3> HIDE DEF data
    <3>6. data \in Seq(Val) /\ Len(data) = Len(Parts(f))
      BY <3>3, <3>4, <3>5
    <3> QED
      BY <3>1, <3>4, <3>5, <3>6
  <2>2. CASE f \notin AllSlots \cup Compounds
    <3>1. func \in AllSlots
      BY <1>1, <1>4, <2>2, Widths
    <3>2. Parts(f) = <<f>>
      BY <2>2 DEF Parts, Compounds
    <3>3. Parts(func) = <<func>>
      BY <3>1, PartsOf, Zenon
    <3>4. data = <<Fit(f, v)>>
      <4> DEFINE P == Parts(f)
      <4>1. DOMAIN P = {1} /\ P[1] = f
        BY <3>2
      <4> HIDE DEF P
      <4>2. [i \in DOMAIN P |-> Fit(P[i], v)] = [i \in {1} |-> Fit(f, v)]
        BY <4>1
      <4>3. <<Fit(f, v)>> = [i \in {1} |-> Fit(f, v)]
        OBVIOUS
      <4> QED
        BY <4>2, <4>3 DEF P
    <3>5. Fit(f, v) \in Val /\ (Narrow(f) => Fit(f, v).hi = 0)
      BY <1>2 DEF Fit, Val
    <3>6. func \in NarrowSlots => Narrow(f)
      BY <1>1, Widths
    <3>7. Fits(func, Fit(f, v))
      BY <3>5, <3>6 DEF Fits
    <3> HIDE DEF data, func
    <3>8. data \in Seq(Val) /\ Len(data) = 1 /\ data[1] = Fit(f, v)
      BY <3>4, <3>5
    <3>9. Len(Parts(func)) = 1 /\ Parts(func)[1] = func
      BY <3>3
    <3> QED
      BY <3>7, <3>8, <3>9
  <2> QED
    BY <2>1, <2>2
<1> HIDE DEF data
<1> QED
  BY <1>1, <1>3, <1>4, FSetProper

\* A record read from a file is proper, whatever extensions it has.
LEMMA SrcRead ==
  ASSUME NEW exts \in FileExts, NEW v \in Values, RecRead(exts, v)
  PROVE  src' \in Proper
<1> DEFINE there == {s \in Slots : Access[s].bits = {} \/ Access[s].bits \cap exts # {}}
           val == [s \in Slots |-> IF s \in there THEN Fit(s, v) ELSE EmptyRec.val[s]]
           v6 == IF V4Compat(v) THEN {} ELSE UNION {Access[s].flag : s \in there}
<1>1. src' = [val |-> val, bits |-> MapBits(exts), v6 |-> v6]
  BY DEF RecRead, RecClear
<1>2. \A s \in Slots : Fit(s, v) \in Val /\ Fits(s, Fit(s, v))
  BY RecRawAssumption, AccessorsFit, FitProper DEF Val
<1>3. \A s \in Slots : EmptyRec.val[s] \in Val /\ Fits(s, EmptyRec.val[s])
  BY EmptyProper DEF Proper, Rec
<1>4. \A s \in Slots : val[s] \in Val /\ Fits(s, val[s])
  BY <1>2, <1>3
<1>5. val \in [Slots -> Val]
  BY <1>4
<1>6. MapBits(exts) \in SUBSET AllBits
  BY DEF MapBits, AllBits
<1>7. v6 \in SUBSET AllFlags
  BY DEF AllFlags
<1> HIDE DEF val, v6
<1> QED
  BY <1>1, <1>4, <1>5, <1>6, <1>7 DEF Proper, Rec

\* The invariant holds at the beginning,
LEMMA RawInvInit ==
  ASSUME RawInit
  PROVE  RawInv
<1>1. pieces = [got |-> {}, next |-> 1, state |-> "init", freed |-> {}]
  BY DEF RawInit, NoPieces
<1>2. PiecesType /\ InitReleases
  BY <1>1 DEF PiecesType, InitReleases
<1>3. PiecesInOrder
  <2>1. {Order[j] : j \in 1 .. 1 - 1} = {}
    OBVIOUS
  <2> QED
    BY <1>1, <2>1 DEF PiecesInOrder
<1>4. SentOn
  BY EmptyProper DEF RawInit, SentOn, NoRaw
<1> QED
  BY <1>2, <1>3, <1>4 DEF RawInv

\* is kept by every step,
LEMMA RawInvNext ==
  ASSUME RawInv, [RawNext]_rawvars
  PROVE  RawInv'
<1> USE DEF RawInv
<1>1. ASSUME UNCHANGED pieces PROVE PiecesType' /\ PiecesInOrder' /\ InitReleases'
  BY <1>1 DEF PiecesType, PiecesInOrder, InitReleases
<1>2. CASE RecInitStep
  <2>1. SentOn'
    BY <1>2 DEF RecInitStep, SentOn
  <2> QED
    BY <1>2, <2>1, InitStep
<1>3. CASE RecInitFail
  <2>1. SentOn'
    BY <1>3 DEF RecInitFail, SentOn
  <2> QED
    BY <1>3, <2>1, InitFail
<1>4. ASSUME NEW f \in SetFields, NEW v \in Inputs(f), RecFset(f, v) PROVE RawInv'
  <2>1. src' \in Proper
    BY <1>4, SrcSet DEF SentOn
  <2>2. SentOn'
    BY <1>4, <2>1 DEF RecFset, SentOn
  <2> QED
    BY <1>1, <1>4, <2>2 DEF RecFset
<1>5. ASSUME NEW exts \in FileExts, NEW v \in Values, RecRead(exts, v) PROVE RawInv'
  <2>1. src' \in Proper
    BY <1>5, SrcRead
  <2>2. SentOn'
    BY <1>5, <2>1 DEF RecRead, SentOn
  <2> QED
    BY <1>1, <1>5, <2>2 DEF RecRead
<1>6. ASSUME NEW size \in BufSizes, RecGetRaw(size) PROVE RawInv'
  <2>1. /\ raw' = GetRaw(src, size) /\ sent' = src /\ src' = src /\ how' = "leftover"
        /\ pieces' = pieces
    BY <1>6 DEF RecGetRaw
  <2>2. raw'.status = "LNF_OK" => raw'.entries = EntriesOf(src)
    BY <2>1 DEF GetRaw, NoRaw
  <2>3. SentOn'
    BY <2>1, <2>2 DEF SentOn
  <2> QED
    BY <1>1, <2>1, <2>3
<1>7. ASSUME NEW size \in BufSizes, RecSetRaw(size) PROVE RawInv'
  <2>1. raw.status = "LNF_OK" /\ UNCHANGED <<src, raw, sent, pieces>>
        /\ (how' = "refused" \/ (how' = "raw" /\ dst' = SetRaw(dst, raw.entries)))
    BY <1>7 DEF RecSetRaw
  <2>2. SetRaw(dst, raw.entries) = SetRaw(EmptyRec, raw.entries)
    BY DEF SetRaw, RecClear
  <2>3. SentOn'
    BY <2>1, <2>2 DEF SentOn
  <2> QED
    BY <1>1, <2>1, <2>3
<1>8. CASE RecCopy
  <2>1. SentOn'
    BY <1>8 DEF RecCopy, SentOn, NoRaw
  <2> QED
    BY <1>1, <1>8, <2>1 DEF RecCopy
<1>9. CASE UNCHANGED rawvars
  <2>1. SentOn'
    BY <1>9 DEF rawvars, SentOn
  <2> QED
    BY <1>1, <1>9, <2>1 DEF rawvars
<1> QED
  BY <1>2, <1>3, <1>4, <1>5, <1>6, <1>7, <1>8, <1>9 DEF RawNext

\* and so holds always.
LEMMA RawInvAlways == RawSpec => []RawInv
<1>1. RawInit => RawInv
  BY RawInvInit
<1>2. RawInv /\ [RawNext]_rawvars => RawInv'
  BY RawInvNext
<1> QED
  BY <1>1, <1>2, PTL DEF RawSpec

\* lnf_rec_init that fails at any of its pieces gives back those it got.
THEOREM RawInitReleases == RawSpec => []InitReleases
<1>1. RawInv => InitReleases
  BY DEF RawInv
<1> QED
  BY <1>1, RawInvAlways, PTL

\* What was set in a record arrives through lnf_rec_get_raw and
\* lnf_rec_set_raw, and by lnf_rec_copy, with nothing added, whatever fields of
\* whatever values were set in whatever order and number, or read from a file
\* with whatever extensions.
THEOREM RawArrives == RawSpec => []Arrives
<1>1. ASSUME RawInv PROVE Arrives
  <2>1. ASSUME how = "raw" PROVE FieldsArrive /\ FamilyFollowsSource /\ NothingInvented
    <3>1. sent \in Proper /\ sent \in Rec /\ dst = SetRaw(EmptyRec, EntriesOf(sent))
      BY <1>1, <2>1 DEF RawInv, SentOn, Proper
    <3>2. /\ dst \in Toward(sent, SentSlots(sent))
          /\ "FLAG_IPV6_ADDR" \in dst.v6 <=> ~ V4Compat(sent.val["SRCADDR"])
      BY <3>1, RoundTrip
    <3>3. FieldsArrive
      BY <3>1, <3>2, FieldArrives DEF FieldsArrive
    <3>4. NothingInvented
      BY <3>1, <3>2, NoneInvented DEF NothingInvented
    <3>5. FamilyFollowsSource
      <4>1. "INET_FAMILY" \in Fields
        BY FieldNumbers, FieldsIndexed
      <4>2. lnf_fields_def["INET_FAMILY"].func = "INET_FAMILY"
        BY <4>1, Widths
      <4>3. FGet(dst, "INET_FAMILY") = <<IF "FLAG_IPV6_ADDR" \in dst.v6 THEN AF_INET6 ELSE AF_INET>>
        BY <4>2 DEF FGet, Get, CalcFuncs
      <4>4. AF_INET.lo = 2 /\ AF_INET6.lo = 10
        BY DEF AF_INET, AF_INET6
      <4>5. <<AF_INET6>> # <<AF_INET>>
        BY <4>4
      <4> QED
        BY <3>2, <4>3, <4>5 DEF FamilyFollowsSource
    <3> QED
      BY <3>3, <3>4, <3>5
  <2>2. ASSUME how = "copy" PROVE CopyFaithful
    <3>1. sent \in Rec /\ dst = CopyOf(sent)
      BY <1>1, <2>2 DEF RawInv, SentOn, Proper
    <3> QED
      BY <3>1, CopyAnswers DEF CopyFaithful
  <2> QED
    BY <2>1, <2>2 DEF Arrives
<1> QED
  BY <1>1, RawInvAlways, PTL
=============================================================================
