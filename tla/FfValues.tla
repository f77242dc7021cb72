------------------------------ MODULE FfValues ------------------------------
(***************************************************************************)
(* The values of the flow filter (src/ffilter/ffilter.c, fcore.c) and      *)
(* libnf's callbacks for it (src/lnf_filter.c): how a literal of the       *)
(* expression becomes the value of a leaf, which opcode the leaf gets, and *)
(* how the opcode compares the value with the data of a record.            *)
(*                                                                         *)
(* A literal is what the scanner sees in it, not its characters:           *)
(*   [k |-> "num", n, neg, unit]  digits, a sign, what follows them;       *)
(*   [k |-> "name", word]         letters (for flags one by one);          *)
(*   [k |-> "mac", groups]        the numbers of a MAC address;            *)
(*   [k |-> "addr", fam, words, mask]  an address, IPv4 as 1 to 4 octets,  *)
(*        IPv6 as four words, with a mask: none, a number of bits, or      *)
(*        another address.                                                 *)
(* Types that lnf_ff_lookup_func never yields (signed, string, timestamp,  *)
(* network order, the options of MPLS) are left out.                       *)
(***************************************************************************)
EXTENDS Integers, Sequences, FiniteSets, Bitwise

CONSTANTS
  FieldDefs,   \* the fields: name -> [type |-> LNF type, pair |-> <<>> or <<a, b>>]
  OptsFlags,   \* the names of LNF_FLD_TCP_FLAGS: lnf_ff_lookup_func gives it FF_OPTS_FLAGS
  TcpFlags,    \* these and the names of LNF_FLD_TCP_FLAGS_ALIAS
  Dict,        \* the literals of protocols and ports: field -> [word -> number]
  Wide,        \* 2^64
  Factor,      \* FF_SCALING_FACTOR
  OctetBits    \* 8; an address has four words of four octets

ASSUME FlagsAssumption == OptsFlags \subseteq TcpFlags
ASSUME ScaleAssumption == Wide \in Nat \ {0} /\ Factor \in Nat \ {0} /\ OctetBits \in Nat \ {0}

WordBits == 4 * OctetBits
Ones == 2 ^ WordBits - 1
Fail == [ok |-> FALSE]
Done(v) == [ok |-> TRUE, val |-> v]
-----------------------------------------------------------------------------
(***************************************************************************)
(* lnf_ff_lookup_func: the field, or pair of fields, behind a name         *)
(***************************************************************************)
Families == [inet |-> 2, ipv4 |-> 2, inet6 |-> 10, ipv6 |-> 10]

TypeOf == [UINT8 |-> "UINT8", UINT16 |-> "UINT16", UINT32 |-> "UINT32", UINT64 |-> "UINT64",
           DOUBLE |-> "DOUBLE", ADDR |-> "ADDR", MAC |-> "MAC", MPLS |-> "MPLS"]

Lookup(name) ==
  LET const == name \in DOMAIN Families
      field == IF const THEN "inetfamily" ELSE name
  IN IF field \notin DOMAIN FieldDefs THEN Fail
     ELSE LET def == FieldDefs[field]
              ids == IF def.pair = <<>> THEN <<field>> ELSE def.pair
              type == FieldDefs[ids[1]].type
          IN IF type \notin DOMAIN TypeOf THEN Fail
             ELSE [ok |-> TRUE, ids |-> ids, type |-> TypeOf[type],
                   flags |-> field \in OptsFlags, const |-> const,
                   literal |-> [k |-> "num", n |-> IF const THEN Families[name] ELSE 0,
                                neg |-> FALSE, unit |-> ""]]
-----------------------------------------------------------------------------
(***************************************************************************)
(* Numbers                                                                 *)
(***************************************************************************)
\* get_unit: 0 for anything but one of the three letters
UnitFactor(unit) ==
  CASE unit = "k" -> Factor
    [] unit = "M" -> Factor * Factor
    [] unit = "G" -> Factor * Factor * Factor
    [] OTHER -> 0

Overflows(n, mult) == (((n * mult) % Wide) \div mult) # n

\* str_to_uint64 with ff_strtoull: a minus sign, too many digits, something
\* behind the number that is no unit, and a product that wraps are errors.
StrToUint(lit) ==
  IF lit.k # "num" \/ lit.neg \/ lit.n >= Wide THEN Fail
  ELSE IF lit.unit = "" THEN Done(lit.n)
  ELSE LET mult == UnitFactor(lit.unit) IN
       IF mult = 0 \/ Overflows(lit.n, mult) THEN Fail ELSE Done((lit.n * mult) % Wide)

\* str_to_real: strtod knows no units
StrToReal(lit) ==
  IF lit.k # "num" \/ lit.unit # "" THEN Fail ELSE Done(IF lit.neg THEN - lit.n ELSE lit.n)

\* str_to_mac: six numbers of one byte
StrToMac(lit) ==
  IF lit.k # "mac" \/ Len(lit.groups) # 6 \/ \E i \in 1 .. Len(lit.groups) : lit.groups[i] > 255
  THEN Fail ELSE Done(lit.groups)

\* lnf_rval_map_func: letters of TCP flags (X for all those before it), or
\* the name of a protocol or a port.
TcpCtlBits == <<"F", "S", "R", "P", "A", "U", "E", "C", "N", "X">>

RvalMap(field, lit) ==
  IF lit.k # "name" THEN Fail
  ELSE IF field \in TcpFlags
  THEN LET bit(c) == (CHOOSE i \in 1 .. 10 : TcpCtlBits[i] = c) - 1
           val[i \in 0 .. Len(lit.word)] ==
             IF i = 0 THEN 0
             ELSE IF lit.word[i] = "X" THEN 2 ^ bit("X") - 1
             ELSE val[i - 1] | 2 ^ bit(lit.word[i])
       IN IF Len(lit.word) > 9 \/ \E i \in 1 .. Len(lit.word) : \A j \in 1 .. 10 : lit.word[i] # TcpCtlBits[j]
          THEN Fail ELSE Done(val[Len(lit.word)])
  ELSE IF field \in DOMAIN Dict /\ lit.word \in DOMAIN Dict[field] THEN Done(Dict[field][lit.word])
  ELSE Fail
-----------------------------------------------------------------------------
(***************************************************************************)
(* Addresses                                                               *)
(***************************************************************************)
\* mutant of NetMask: the partial word counts from the other side
NetMaskLow(bits) ==
  [w \in 1 .. 4 |-> IF w <= bits \div WordBits THEN Ones
                    ELSE IF w = (bits \div WordBits) + 1 THEN 2 ^ (bits % WordBits) - 1 ELSE 0]

\* int_to_netmask, for at most four words of bits
NetMask(bits) ==
  [w \in 1 .. 4 |-> IF w <= bits \div WordBits THEN Ones
                    ELSE IF w = (bits \div WordBits) + 1
                    THEN Ones - (2 ^ (WordBits - (bits % WordBits)) - 1)
                    ELSE 0]

\* unwrap_ip: the octets the mask needs must be there, the others become 0.
\* An IPv6 address counts as one octet: it is padded too, and spoilt by it.
Octets(lit) == IF lit.fam = 4 THEN Len(lit.words) ELSE 1
NeededOctets(bits) == (bits \div OctetBits) + (IF bits % OctetBits > 0 THEN 1 ELSE 0)
Padded(words) == [i \in 1 .. 4 |-> IF i <= Len(words) THEN words[i] ELSE 0]
Unwraps(lit) == lit.mask.k = "bits" /\ Octets(lit) >= NeededOctets(lit.mask.n)

\* inet_pton for IPv4: the octets in one word
Word(octets) == ((octets[1] * 2 ^ OctetBits + octets[2]) * 2 ^ OctetBits + octets[3]) * 2 ^ OctetBits + octets[4]

And4(a, b) == [w \in 1 .. 4 |-> a[w] & b[w]]

\* str_to_addr: [ver, ip, mask], with an IPv4 address in the last word
StrToAddr(lit) ==
  IF lit.k # "addr" \/ (lit.mask.k = "bits" /\ lit.mask.n > 4 * WordBits) THEN Fail
  ELSE
  LET m == lit.mask
      mask == CASE m.k = "none" -> [w \in 1 .. 4 |-> Ones]
                [] m.k = "bits" -> NetMask(m.n)
                [] m.k = "full" -> IF m.fam = 4 THEN <<Word(m.words), 0, 0, 0>> ELSE m.words
      maskver == CASE m.k = "none" -> 0
                   [] m.k = "bits" -> IF Unwraps(lit) THEN 4 ELSE 6
                   [] m.k = "full" -> m.fam
      octets == IF Unwraps(lit) THEN Padded(lit.words) ELSE lit.words
      four == lit.fam = 4 /\ Len(octets) = 4 /\ (m.k = "bits" => m.n <= WordBits) /\ maskver # 6
      six == lit.fam = 6 /\ ~ Unwraps(lit)
      mask4 == <<0, 0, 0, mask[1]>>
  IN IF four THEN Done([ver |-> 4, mask |-> mask4, ip |-> And4(<<0, 0, 0, Word(octets)>>, mask4)])
     ELSE IF six THEN Done([ver |-> 6, mask |-> mask, ip |-> And4(lit.words, mask)])
     ELSE Fail
-----------------------------------------------------------------------------
(***************************************************************************)
(* ff_type_cast, ff_validate, ff_negate                                    *)
(***************************************************************************)
Unsigned == {"UINT8", "UINT16", "UINT32", "UINT64"}

\* str_to_uint for 32 bits: as many as a word of an address has
StrToWord(lit) == IF StrToUint(lit).ok /\ StrToUint(lit).val > Ones THEN Fail ELSE StrToUint(lit)

\* A number that str_to_uint64 refuses is looked up as a name.
Cast(type, field, lit) ==
  CASE type \in Unsigned -> IF StrToUint(lit).ok THEN StrToUint(lit) ELSE RvalMap(field, lit)
    [] type = "MPLS" -> StrToWord(lit)
    [] type = "DOUBLE" -> StrToReal(lit)
    [] type = "ADDR" -> StrToAddr(lit)
    [] type = "MAC" -> StrToMac(lit)

Zero4 == <<0, 0, 0, 0>>
Err == <<"ERR">>

\* An address whose mask is empty is compared as a whole, any other one as a
\* prefix.  An MPLS field without options: any label, and only for equality.
OpCode(type, oper, val) ==
  CASE type \in Unsigned /\ oper \in {"EQ", "LT", "GT", "ISSET"} -> <<oper, "UI">>
    [] type = "DOUBLE" /\ oper \in {"EQ", "LT", "GT"} -> <<oper, "RE">>
    [] type = "MAC" /\ oper = "EQ" -> <<"EQ", "MAC">>
    [] type = "ADDR" /\ oper = "EQ" /\ val.mask = Zero4 -> <<"EQ", IF val.ver = 4 THEN "AD4" ELSE "AD6">>
    [] type = "ADDR" /\ oper = "EQ" /\ val.mask # Zero4 -> <<"EQ", "ADP">>
    [] type = "MPLS" /\ oper = "EQ" -> <<"EQ", "ML">>
    [] OTHER -> Err

\* ff_negate: the test for bits has a test for their absence
Negate(opcode) ==
  CASE opcode = <<"ISSET", "UI">> -> <<"ISNSET", "UI">>
    [] opcode = <<"ISNSET", "UI">> -> <<"ISSET", "UI">>
    [] OTHER -> Err
-----------------------------------------------------------------------------
(***************************************************************************)
(* ff_oper_eval_V2, on the data of a whole field (lnf_ff_data_func leaves  *)
(* the size of the buffer as it is: an address always has four words)      *)
(***************************************************************************)
Compare(op, data, val) ==
  CASE op = "EQ" -> data = val
    [] op = "GT" -> data > val
    [] op = "LT" -> data < val

\* all the bits of the value, or none of them
BitTest(op, data, val) == IF op = "ISSET" THEN (data & val) = val ELSE (data & val) = 0

IsV4(ip) == ip[1] = 0 /\ ip[2] = 0 /\ ip[3] = 0

\* FFAT_EQ_AD4, FFAT_EQ_AD6: the whole address
ExactEval(ip, net) == IF net.ver = 4 THEN IsV4(ip) /\ ip[4] = net.ip[4] ELSE ip = net.ip

\* FFAT_EQ_ADP
PrefixEval(ip, net) ==
  /\ ~ (net.ver = 6 /\ IsV4(ip))
  /\ And4(ip, net.mask) = net.ip
  /\ ~ (net.ver = 4 /\ ~ IsV4(ip))

\* FFAT_EQ_ML: the labels up to the bottom of the stack
LabelEval(labels, val) ==
  \E x \in 1 .. Len(labels) : labels[x].label = val /\ \A y \in 1 .. x - 1 : ~ labels[y].eos

OperEval(opcode, data, val) ==
  LET bool(b) == IF b THEN 1 ELSE 0
      op == opcode[1]
      kind == opcode[Len(opcode)]
  IN CASE kind = "UI" /\ op \in {"ISSET", "ISNSET"} -> bool(BitTest(op, data, val))
       [] kind \in {"UI", "RE", "MAC"} /\ op \in {"EQ", "GT", "LT"} -> bool(Compare(op, data, val))
       [] kind \in {"AD4", "AD6"} -> bool(ExactEval(data, val))
       [] kind = "ADP" -> bool(PrefixEval(data, val))
       [] kind = "ML" -> bool(LabelEval(data, val))
       [] OTHER -> -1

\* the zero that stands for data a record does not have
Zero(type) ==
  CASE type = "ADDR" -> Zero4
    [] type = "MAC" -> <<0, 0, 0, 0, 0, 0>>
    [] type = "MPLS" -> <<[label |-> 0, eos |-> FALSE], [label |-> 0, eos |-> FALSE]>>
    [] OTHER -> 0
=============================================================================
