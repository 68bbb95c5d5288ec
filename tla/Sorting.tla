-------------------------------- MODULE Sorting --------------------------------
(***************************************************************************)
(* std::sort and the sets that iterate in ascending order.  SetToSortSeq   *)
(* of SequencesExt comes to the same sequence, but by an operator of TLC   *)
(* that has no definition to reason from.                                  *)
(***************************************************************************)
EXTENDS Naturals, FiniteSets

\* The elements of S by their ranks 0, 1, 2, ...
Ranked(S, rank) == [i \in 1 .. Cardinality(S) |-> CHOOSE x \in S : rank[x] = i - 1]

\* The elements of S one after the other, where before is a strict total order
\* on them: each has as many before it as are less.
Sorted(S, before(_, _)) == Ranked(S, [x \in S |-> Cardinality({y \in S : before(y, x)})])

Ascending(S) == Sorted(S, <)
===============================================================================
