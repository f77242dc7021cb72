------------------------------ MODULE FFilter -------------------------------
(***************************************************************************)
(* The flow filter of libnf: lnf_filter_init_v2, lnf_filter_match and      *)
(* lnf_filter_free over src/ffilter.  The parser (ffilter_gram.y) reduces  *)
(* the expression from the inside out; every reduction is an action here,  *)
(* so any expression is some sequence of them.  A reduction allocates and  *)
(* links nodes of the tree; what the text means is kept beside each        *)
(* subtree, for the properties.                                            *)
(*                                                                         *)
(* The heap is part of the model: ff_new_node leaves the opcode of a node  *)
(* as malloc finds it, and errors free what was built.  malloc gives the   *)
(* lowest free address and may fail.                                       *)
(***************************************************************************)
EXTENDS FfValues

CONSTANTS
  Texts,       \* the comparisons an expression may hold
  FirstTexts,  \* bound: those that are tried as the first leaf only
  Lists,       \* the values of "in [ ... ]", each a sequence of literals
  ListFields,  \* bound: the fields "in" is tried with
  Records,     \* the records: functions from field names to data
  Stale,       \* the opcodes memory may hold that was never a node
  Faults,      \* the calls of malloc that may fail
  MaxNodes,    \* bound: nodes
  MaxDepth,    \* bound: operators in an expression
  MaxFilters   \* bound: filters compiled one after the other

ASSUME FaultsInCode == Faults \subseteq {"node", "value", "copy", "branch"}

NULL == 0
Addresses == 1 .. MaxNodes
NoLit == [k |-> "empty"]

VARIABLES
  heap,    \* [node, live, vlive, bad]: contents; allocated nodes and values;
           \*   whether something was freed twice or used after its free
  stack,   \* the parser's stack: [node, mean, ops]
  list,    \* the list of values being built, last one first: [node, lits]
  root, mean,   \* filter->root and what it stands for
  status,  \* "parsing", "ready", "error", "freed"
  filters  \* compiled so far

vars == <<heap, stack, list, root, mean, status, filters>>
-----------------------------------------------------------------------------
(***************************************************************************)
(* What an expression means                                                *)
(***************************************************************************)
Number(lit) == IF lit.unit = "" THEN lit.n ELSE lit.n * UnitFactor(lit.unit)
Whole(words) == ((words[1] * 2 ^ WordBits + words[2]) * 2 ^ WordBits + words[3]) * 2 ^ WordBits + words[4]

\* An address matches the addresses of its family that begin like it.
InPrefix(ip, lit) ==
  LET four == lit.fam = 4
      net == IF four THEN Word(Padded(lit.words)) ELSE Whole(lit.words)
      addr == IF four THEN ip[4] ELSE Whole(ip)
      width == IF four THEN WordBits ELSE 4 * WordBits
      bits == IF lit.mask.k = "bits" THEN lit.mask.n ELSE width
      full == IF four THEN Word(lit.mask.words) ELSE Whole(lit.mask.words)
  IN /\ four = IsV4(ip)
     /\ IF lit.mask.k = "full" THEN (addr & full) = (net & full)
        ELSE addr \div (2 ^ (width - bits)) = net \div (2 ^ (width - bits))

\* One field of a record against one literal.
Satisfies(type, field, oper, lit, data) ==
  LET v == IF lit.k = "num" THEN (IF lit.neg THEN - Number(lit) ELSE Number(lit)) ELSE RvalMap(field, lit).val IN
  CASE type = "ADDR" -> InPrefix(data, lit)
    [] type = "MAC" -> data = lit.groups
    [] type = "MPLS" -> LabelEval(data, v)
    [] oper = "EQ" -> data = v
    [] oper = "GT" -> data > v
    [] oper = "LT" -> data < v
    [] oper = "ISSET" -> (data & v) = v
    [] oper = "ISNSET" -> (data & v) = 0

DataOf(rec, field, type) == IF field \in DOMAIN rec THEN rec[field] ELSE Zero(type)

RECURSIVE Holds(_, _)
Holds(e, rec) ==
  CASE e.k = "any" -> TRUE
    [] e.k = "none" -> FALSE
    [] e.k = "not" -> ~ Holds(e.a, rec)
    [] e.k = "and" -> Holds(e.a, rec) /\ Holds(e.b, rec)
    [] e.k = "or" -> Holds(e.a, rec) \/ Holds(e.b, rec)
    [] e.k = "leaf" ->
         LET one(f) == IF e.oper = "EXIST" THEN f \in DOMAIN rec
                       ELSE \E lit \in e.lits : Satisfies(e.type, f, e.oper, lit, DataOf(rec, f, e.type))
         IN IF e.both THEN \A f \in e.ids : one(f) ELSE \E f \in e.ids : one(f)

\* Flags are excluded, not negated: "not flags SA" is met when neither is set
\* (ffilter.h: FF_OP_ISNSET, "for flags exclusion").
Negated(e) ==
  IF e.k = "leaf" /\ Cardinality(e.ids) = 1 /\ e.oper \in {"ISSET", "ISNSET"}
  THEN [e EXCEPT !.oper = IF @ = "ISSET" THEN "ISNSET" ELSE "ISSET"]
  ELSE [k |-> "not", a |-> e]

\* What the code leaves to chance or is known to do differently: a list, or a
\* stack of labels, against data that is missing (the buffer of ff_eval_node
\* is cleared over vsize bytes: none of a list, two labels of a stack); an
\* address with an empty mask, which is compared as a whole.
RECURSIVE Settled(_, _)
Settled(e, rec) ==
  CASE e.k \in {"any", "none"} -> TRUE
    [] e.k = "not" -> Settled(e.a, rec)
    [] e.k \in {"and", "or"} -> Settled(e.a, rec) /\ Settled(e.b, rec)
    [] e.k = "leaf" ->
         /\ (e.inlist \/ e.type = "MPLS") /\ e.oper # "EXIST" => e.ids \subseteq DOMAIN rec
         /\ \A lit \in e.lits : e.type = "ADDR" => ~ (lit.mask.k = "bits" /\ lit.mask.n = 0)
-----------------------------------------------------------------------------
(***************************************************************************)
(* Memory                                                                  *)
(***************************************************************************)
Free(h) == {a \in Addresses : a \notin h.live}
Lowest(h) == CHOOSE a \in Free(h) : \A b \in Free(h) : a <= b

\* malloc of a node and the assignments of ff_new_node: the opcode stays.
Put(h, a, oper, left, right) ==
  [h EXCEPT !.live = @ \cup {a},
            !.node[a] = [@ EXCEPT !.oper = oper, !.left = left, !.right = right,
                                  !.vsize = FALSE, !.type = "none"]]

\* a value of its own for node a
PutValue(h, a, val) ==
  [h EXCEPT !.vlive = @ \cup {a}, !.node[a].value = a, !.node[a].vsize = TRUE, !.node[a].val = val]

\* ff_free_node
RECURSIVE FreeNode(_, _)
FreeNode(h, a) ==
  IF a = NULL THEN h
  ELSE IF a \notin h.live THEN [h EXCEPT !.bad = TRUE]
  ELSE LET n == h.node[a]
           g == FreeNode(FreeNode(h, n.left), n.right)
       IN [g EXCEPT !.live = @ \ {a},
                    !.vlive = IF n.vsize THEN @ \ {n.value} ELSE @,
                    !.bad = @ \/ a \notin g.live \/ (n.vsize /\ n.value \notin g.vlive)]

Result(h, a) == [heap |-> h, node |-> a]

\* mutant of CopyOf: the copy shares the value of the original
CopyShared(h, a, b, right) == [h EXCEPT !.live = @ \cup {b}, !.node[b] = [h.node[a] EXCEPT !.right = right]]

\* node a copied to b, with a value of its own
CopyOf(h, a, b, right) ==
  LET g == [h EXCEPT !.live = @ \cup {b}, !.node[b] = [h.node[a] EXCEPT !.right = right]]
  IN IF h.node[a].vsize THEN PutValue(g, b, h.node[a].val) ELSE g

\* ff_duplicate_node: what hangs on the node first (only lists do, to the right)
RECURSIVE Duplicate(_, _)
Duplicate(h, a) ==
  LET r == IF h.node[a].right = NULL THEN Result(h, NULL) ELSE Duplicate(h, h.node[a].right)
      b == Lowest(r.heap)
  IN Result(CopyOf(r.heap, a, b, r.node), b)
-----------------------------------------------------------------------------
(***************************************************************************)
(* ff_new_leaf.  Its results: the heap and the node, NULL on failure.      *)
(***************************************************************************)
Default(oper, flags) == IF oper # "NOOP" THEN oper ELSE IF flags THEN "ISSET" ELSE "EQ"

\* ff_type_validate: the value and the opcode of node a
Validates(type, field, oper, lit, fail) ==
  /\ lit # NoLit /\ fail # "value"
  /\ Cast(type, field, lit).ok
  /\ OpCode(type, oper, Cast(type, field, lit).val) # Err

Validated(h, a, type, field, oper, lit) ==
  LET v == Cast(type, field, lit).val
  IN [PutValue(h, a, v) EXCEPT !.node[a].opcode = OpCode(type, oper, v), !.node[a].type = type]

\* ff_transform_mval: the items of the list one after the other, until one
\* fails; that one is left without a value.
RECURSIVE Transform(_, _, _, _, _)
Transform(h, item, type, field, fail) ==
  IF item = NULL THEN [heap |-> h, ok |-> TRUE]
  ELSE LET lit == h.node[item].val
           g == [h EXCEPT !.node[item].field = field, !.node[item].type = type,
                          !.node[item].vsize = FALSE, !.vlive = @ \ {item}]
       IN IF Validates(type, field, "EQ", lit, fail)
          THEN Transform(Validated(g, item, type, field, "EQ", lit), h.node[item].right, type, field, fail)
          ELSE [heap |-> g, ok |-> FALSE]

\* ff_branch_node for a pair of fields, then the rest of ff_new_leaf: when a
\* copy or the new root cannot be allocated both free the leaf, and the leaf
\* is returned all the same.
Branch(h, a, ids, pairop, fail) ==
  IF Len(ids) = 1 THEN Result(h, a)
  ELSE IF fail = "copy" THEN Result(FreeNode(FreeNode(h, a), a), a)
  ELSE LET d == Duplicate(h, a)
           b == d.node
           g == [d.heap EXCEPT !.node[b].field = ids[2]]
       IN IF fail = "branch" THEN Result(FreeNode(FreeNode(FreeNode(g, a), b), a), a)
          ELSE LET c == Lowest(g) IN Result(Put(g, c, pairop, a, b), c)

\* t: the text of the comparison; items: the list of an "in", or NULL
NewLeaf(h, t, items, fail) ==
  LET lv == Lookup(t.name)
      a == Lowest(h)
      oper == Default(t.oper, lv.flags)
      field == lv.ids[1]
      g == [Put(h, a, oper, NULL, items) EXCEPT !.node[a].field = field, !.node[a].type = lv.type]
      tr == Transform(g, items, lv.type, field, fail)
      valued == [ok |-> TRUE, heap |->
        IF Validates(lv.type, field, oper, t.lit, fail)
        THEN Validated(g, a, lv.type, field, oper, t.lit)
        ELSE IF oper = "EXIST" THEN g
        ELSE Validated(g, a, lv.type, field, oper, lv.literal)]
      has == \/ Validates(lv.type, field, oper, t.lit, fail)
             \/ oper = "EXIST"
             \/ lv.const /\ Validates(lv.type, field, oper, lv.literal, fail)
      leaf == IF oper = "IN" THEN tr ELSE valued
  IN IF ~ lv.ok \/ fail = "node" THEN Result(h, NULL)
     ELSE IF oper = "IN" /\ ~ tr.ok THEN Result(FreeNode(tr.heap, a), NULL)
     ELSE IF oper # "IN" /\ ~ has THEN Result(FreeNode(g, a), NULL)
     ELSE Branch(leaf.heap, a, lv.ids, t.pairop, fail)

\* the meaning of that leaf: a constant field falls back on its own literal
LeafMean(t, lits) ==
  LET lv == Lookup(t.name)
      oper == Default(t.oper, lv.flags)
      ok(l) == Validates(lv.type, lv.ids[1], oper, l, "none")
  IN [k |-> "leaf", ids |-> {lv.ids[i] : i \in 1 .. Len(lv.ids)}, both |-> t.pairop = "AND",
      type |-> lv.type, inlist |-> oper = "IN", oper |-> IF oper = "IN" THEN "EQ" ELSE oper,
      lits |-> IF oper = "IN" THEN lits
               ELSE IF oper = "EXIST" THEN {}
               ELSE {IF ok(t.lit) THEN t.lit ELSE lv.literal}]
-----------------------------------------------------------------------------
(***************************************************************************)
(* The parser: one action per reduction of ffilter_gram.y                  *)
(***************************************************************************)
Init ==
  /\ \E c \in Stale :
       heap = [node |-> [a \in Addresses |-> [field |-> "", value |-> 0, vsize |-> FALSE, val |-> 0,
                          type |-> "none", oper |-> "none", opcode |-> c, left |-> NULL, right |-> NULL]],
               live |-> {}, vlive |-> {}, bad |-> FALSE]
  /\ stack = <<>> /\ list = <<>> /\ root = NULL /\ mean = [k |-> "none"]
  /\ status = "parsing" /\ filters = 0

Room(n) == Cardinality(Free(heap)) >= n

\* YYABORT: what is on the stack is forgotten; lnf_filter_init_v2 frees the
\* filter, whose root is not set.
Abort(h) ==
  /\ status' = "error" /\ heap' = h /\ stack' = <<>> /\ list' = <<>>
  /\ UNCHANGED <<root, mean, filters>>

Push(rest, h, n, e, ops) ==
  /\ stack' = Append(rest, [node |-> n, mean |-> e, ops |-> ops])
  /\ heap' = h
  /\ list' = <<>>
  /\ UNCHANGED <<root, mean, status, filters>>

Failures == {"none"} \cup Faults
Parsing == status = "parsing"
Top(i) == stack[Len(stack) + 1 - i]
Below(n) == SubSeq(stack, 1, Len(stack) - n)

\* expr: EXIST field | field cmp value | IDENT
Comparison(t, fail) ==
  /\ Parsing /\ list = <<>> /\ Room(3)
  /\ Len(stack) < 2
  /\ t \in Texts \/ stack = <<>>
  /\ LET r == NewLeaf(heap, t, NULL, fail) IN
     IF r.node = NULL THEN Abort(r.heap) ELSE Push(stack, r.heap, r.node, LeafMean(t, {}), 0)

\* list: one value in front of those behind it
ListItem(lits, fail) ==
  /\ Parsing /\ Room(4) /\ Len(stack) < 2
  /\ LET done == IF list = <<>> THEN 0 ELSE Len(list[1].lits)
         a == Lowest(heap)
         lit == lits[Len(lits) - done]
         g == PutValue(Put(heap, a, "EQ", NULL, IF done = 0 THEN NULL ELSE list[1].node), a, lit)
     IN /\ done < Len(lits)
        /\ done > 0 => list[1].lits = SubSeq(lits, Len(lits) - done + 1, Len(lits))
        /\ IF fail = "node" \/ fail = "value" THEN Abort(heap)
           ELSE /\ heap' = g
                /\ list' = <<[node |-> a, lits |-> SubSeq(lits, Len(lits) - done, Len(lits))]>>
                /\ UNCHANGED <<stack, root, mean, status, filters>>

\* expr: field IN list
InList(name, fail) ==
  /\ Parsing /\ list # <<>> /\ list[1].lits \in Lists /\ Room(3 + Len(list[1].lits))
  /\ LET t == [name |-> name, oper |-> "IN", pairop |-> "OR", lit |-> NoLit]
         r == NewLeaf(heap, t, list[1].node, fail)
     IN IF r.node = NULL THEN Abort(r.heap)
        ELSE Push(stack, r.heap, r.node, LeafMean(t, {list[1].lits[i] : i \in 1 .. Len(list[1].lits)}), 0)

\* expr: ANY
AnyRecord(fail) ==
  /\ Parsing /\ list = <<>> /\ Room(1) /\ Len(stack) < 2
  /\ IF fail = "node" THEN Abort(heap)
     ELSE Push(stack, Put(heap, Lowest(heap), "YES", NULL, NULL), Lowest(heap), [k |-> "any"], 0)

\* expr: NOT expr.  A test that has a negative takes it, with no new node;
\* the opcode is read also where ff_new_node left it as it was.
Negation(fail) ==
  /\ Parsing /\ list = <<>> /\ Len(stack) > 0 /\ Room(1)
  /\ Top(1).ops < MaxDepth
  /\ LET e == Top(1)
         neg == Negate(heap.node[e.node].opcode)
         a == Lowest(heap)
     IN IF neg # Err
        THEN Push(Below(1), [heap EXCEPT !.node[e.node].opcode = neg], e.node, Negated(e.mean), e.ops + 1)
        ELSE IF fail = "node" THEN Abort(heap)
        ELSE Push(Below(1), Put(heap, a, "NOT", NULL, e.node), a, Negated(e.mean), e.ops + 1)

\* expr: expr AND expr | expr OR expr
Connect(oper, fail) ==
  /\ Parsing /\ list = <<>> /\ Len(stack) > 1 /\ Room(1)
  /\ Top(1).ops + Top(2).ops < MaxDepth
  /\ LET l == Top(2)
         r == Top(1)
         a == Lowest(heap)
         e == [k |-> IF oper = "AND" THEN "and" ELSE "or", a |-> l.mean, b |-> r.mean]
     IN IF fail = "node" THEN Abort(heap)
        ELSE Push(Below(2), Put(heap, a, oper, l.node, r.node), a, e, l.ops + r.ops + 1)

\* filter: expr | (nothing)
Accept ==
  /\ Parsing /\ list = <<>> /\ Len(stack) < 2
  /\ IF stack = <<>> THEN root' = NULL /\ mean' = [k |-> "none"]
     ELSE root' = stack[1].node /\ mean' = stack[1].mean
  /\ status' = "ready" /\ stack' = <<>>
  /\ UNCHANGED <<heap, list, filters>>

\* The text goes on in no way the grammar knows.
SyntaxError == Parsing /\ Abort(heap)

\* lnf_filter_free, ff_free
FreeFilter ==
  /\ status = "ready"
  /\ heap' = FreeNode(heap, root) /\ root' = NULL /\ status' = "freed"
  /\ mean' = [k |-> "none"]
  /\ UNCHANGED <<stack, list, filters>>

\* The next lnf_filter_init_v2 of the process finds the memory as it is.
Again ==
  /\ status \in {"freed", "error"} /\ filters + 1 < MaxFilters
  /\ filters' = filters + 1 /\ status' = "parsing"
  /\ UNCHANGED <<heap, stack, list, root, mean>>

Next ==
  \/ \E fail \in Failures :
       \/ \E t \in Texts \cup FirstTexts : Comparison(t, fail)
       \/ \E lits \in Lists : ListItem(lits, fail)
       \/ \E name \in ListFields : InList(name, fail)
       \/ AnyRecord(fail) \/ Negation(fail)
       \/ \E oper \in {"AND", "OR"} : Connect(oper, fail)
  \/ Accept \/ SyntaxError \/ FreeFilter

\* one filter in memory new to the process, and filters one after the other
Spec == Init /\ [][Next]_vars
SpecAgain == Init /\ [][Next \/ Again]_vars
-----------------------------------------------------------------------------
(***************************************************************************)
(* ff_eval_node: -1 error, 0 no, 1 yes                                     *)
(***************************************************************************)
B(b) == IF b THEN 1 ELSE 0

RECURSIVE EvalList(_, _)
EvalList(data, a) ==
  IF a = NULL THEN 0
  ELSE LET res == OperEval(heap.node[a].opcode, data, heap.node[a].val)
       IN IF res > 0 THEN res ELSE EvalList(data, heap.node[a].right)

\* The value of a list node is the head of its list; the head is evaluated as
\* a node first, and that result is not used.
RECURSIVE EvalNode(_, _)
EvalNode(a, rec) ==
  IF a = NULL THEN -1
  ELSE
  LET n == heap.node[a]
      data == DataOf(rec, n.field, n.type)
      exist == n.field \in DOMAIN rec
      left == EvalNode(n.left, rec)
      right == EvalNode(n.right, rec)
  IN CASE n.oper = "YES" -> 1
       [] n.oper = "NOT" -> B((IF n.left # NULL THEN left ELSE right) <= 0)
       [] n.oper = "OR" -> B(left > 0 \/ right > 0)
       [] n.oper = "AND" -> B(left > 0 /\ right > 0)
       [] n.oper = "EXIST" -> B(exist)
       [] n.oper = "IN" -> EvalList(data, n.right)
       [] OTHER -> OperEval(n.opcode, data, n.val)

\* lnf_filter_match
Match(rec) == EvalNode(root, rec) > 0
-----------------------------------------------------------------------------
(***************************************************************************)
(* Properties                                                              *)
(***************************************************************************)

\* A record is matched exactly when the expression says so, whatever the tree
\* was rewritten to: units, masks and names became numbers, pairs of fields
\* became two leaves, a negation went into the opcode or got a node, data
\* that is missing counts as zero.  (Except where Settled says otherwise.)
EvalAgrees ==
  status = "ready" => \A rec \in Records : Settled(mean, rec) => (Match(rec) <=> Holds(mean, rec))

\* ffilter/README.md: NOT "stands for unary logical nagation of expression".
NegationNegates ==
  status = "ready" /\ mean.k = "not" =>
    \A rec \in Records : Settled(mean, rec) => (Match(rec) <=> ~ Holds(mean.a, rec))

RECURSIVE Tree(_)
Tree(a) == IF a = NULL THEN {} ELSE {a} \cup Tree(heap.node[a].left) \cup Tree(heap.node[a].right)

\* Every node and value is freed once and not used afterwards, also when a
\* value cannot be converted half way through a list or memory runs out; a
\* filter that compiled keeps no memory but its tree.  (Trees under
\* construction are forgotten on errors, and not covered: the failures of
\* malloc in ff_branch_node, after which the leaf is freed twice.)
HeapSound ==
  /\ ~ heap.bad
  /\ status = "ready" /\ filters = 0 =>
       /\ heap.live = Tree(root)
       /\ heap.vlive = {a \in Tree(root) : heap.node[a].vsize}
  /\ status = "freed" /\ filters = 0 => heap.live = {} /\ heap.vlive = {}
=============================================================================
