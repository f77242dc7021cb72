------------------------------- MODULE ListSort ------------------------------
(***************************************************************************)
(* list_sort (src/list_sort.c): a bottom-up merge sort of a linked list.   *)
(* A list is a sequence.  before is the callback as a relation: the pairs  *)
(* <<x, y>> for which x, the head of the left run, comes before y, the     *)
(* head of the right one.  It need not be an order.                        *)
(***************************************************************************)
EXTENDS Integers, Sequences

\* The next element of the merged list comes from p if q is empty or the
\* callback says so of the two heads, and otherwise from q.
FromP(s, before) ==
  s.p # <<>> /\ (s.q = <<>> \/ <<Head(s.p), Head(s.q)>> \in before)

Taken(s, before) ==
  IF FromP(s, before)
  THEN [p |-> Tail(s.p), q |-> s.q, out |-> Append(s.out, Head(s.p))]
  ELSE [p |-> s.p, q |-> Tail(s.q), out |-> Append(s.out, Head(s.q))]

\* Two neighbouring runs become one, element by element.
Merged(left, right, before) ==
  LET len == Len(left) + Len(right)
      state[k \in 0 .. len] ==
        IF k = 0 THEN [p |-> left, q |-> right, out |-> <<>>]
                 ELSE Taken(state[k - 1], before)
  IN  state[len].out

\* The n-th stretch of insize elements; the last one may be shorter.
Run(list, insize, n) ==
  SubSeq(list, (n - 1) * insize + 1, IF n * insize < Len(list) THEN n * insize ELSE Len(list))

\* nmerges: pairs of runs, counting a last one without a partner
Merges(len, insize) == (len + 2 * insize - 1) \div (2 * insize)

\* one merge: the n-th pair of runs goes behind what was merged before it
MergedRuns(merged, n, list, insize, before) ==
  merged \o Merged(Run(list, insize, 2 * n - 1), Run(list, insize, 2 * n), before)

\* one round of the outer loop
Pass(list, insize, before) ==
  LET merged[n \in 0 .. Merges(Len(list), insize)] ==
        IF n = 0 THEN <<>> ELSE MergedRuns(merged[n - 1], n, list, insize, before)
  IN  merged[Merges(Len(list), insize)]

\* mutant of LastPass: two merges are taken for the last one
LastPassAtTwo(len, insize) == Merges(len, insize) <= 2

\* The loop ends after a round with one merge.
LastPass(len, insize) == Merges(len, insize) <= 1

\* The next round, if there is one, merges runs twice the size.
Round(s, before) ==
  IF s.finished THEN s
  ELSE [list     |-> Pass(s.list, s.insize, before),
        insize   |-> 2 * s.insize,
        finished |-> LastPass(Len(s.list), s.insize)]

\* A list of n elements needs no more than n rounds.
ListSorted(list, before) ==
  LET round[k \in 0 .. Len(list)] ==
        IF k = 0 THEN [list |-> list, insize |-> 1, finished |-> FALSE]
                 ELSE Round(round[k - 1], before)
  IN  round[Len(list)].list
=============================================================================
