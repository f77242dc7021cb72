------------------------------ MODULE MCRecords -----------------------------
(* An instance of Records.  Raw form: fields that share bits, flags or bytes   *)
(* with others.  Rows: keys of every kind, calculated fields, fields added     *)
(* twice, as key and as value, and with another aggregation.                   *)
EXTENDS Records

V(lo, hi) == [lo |-> lo, hi |-> hi]

MCFields == {"SRCADDR", "DSTADDR", "SRCAS", "INPUT", "AGGR_FLOWS", "INET_FAMILY", "EXPORTER_ID",
             "SAMPLER_ID", "EGRESS_ACL", "BREC1", "USERNAME"}
MCValues == {V(5, 0), V(3, 7)}
AllBits == UNION {Access[s].bits : s \in Slots} \ {"map_ref", "LNF_REC_EXPORTER", "LNF_REC_SAMPLER"}
MCExts == {{}, {"EX_AS_2", "EX_IO_SNMP_4", "EX_MULIPLE"}, {"EX_ROUTER_IP_v4", "EX_OUT_BYTES_8"}, AllBits,
           AllBits \ {"EX_NSEL_USER", "EX_NSEL_USER_MAX"}}
MCSizes == {1024, 4096}

A(field, aggr, sort, bits, bits6) ==
  [field |-> field, aggr |-> aggr, sort |-> sort, bits |-> bits, bits6 |-> bits6]

MCAdds ==
  {A("SRCADDR", "NONE", "NONE", 30, 64), A("SRCPORT", "NONE", "NONE", 0, 0),
   A("PAIR_PORT", "NONE", "ASC", 0, 0), A("PAIR_PORT", "MAX", "NONE", 0, 0),
   A("FIRST", "NONE", "NONE", 1, 0), A("FIRST", "NONE", "NONE", 0, 0),
   A("DOCTETS", "NONE", "DESC", 0, 0), A("USERNAME", "NONE", "NONE", 0, 0),
   A("CALC_BPS", "NONE", "DESC", 0, 0), A("CALC_BPP", "NONE", "ASC", 0, 0),
   A("CALC_DURATION", "KEY", "NONE", 0, 0)}

Rec(addr, flags, first, last, bytes, pkts) ==
  FoldLeft(LAMBDA r, p : FSet(r, p[1], <<p[2]>>), EmptyRec,
           << <<"SRCADDR", addr>>, <<"SRCPORT", V(1, 0)>>, <<"DSTPORT", V(2, 0)>>, <<"TCP_FLAGS", V(flags, 0)>>,
              <<"FIRST", V(first, 0)>>, <<"LAST", V(last, 0)>>, <<"DOCTETS", V(bytes, 0)>>,
              <<"DPKTS", V(pkts, 0)>>, <<"AGGR_FLOWS", V(1, 0)>> >>)

MCRecs == {Rec(V(5, 0), 1, 1500, 4000, 10, 2), Rec(V(6, 0), 2, 1200, 1500, 7, 0),
           Rec(V(3, 7), 2, 2000, 2000, 8, 1)}
=============================================================================
