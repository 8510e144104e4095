------------------------------ MODULE Sorting ------------------------------
(***************************************************************************)
(* Python's sorted and list.sort: equal elements keep their order.         *)
(***************************************************************************)
EXTENDS Integers, Sequences, FiniteSets

(* The sequence itself; TLC evaluates its elements once.                   *)
Evaluated(s) == SubSeq(s, 1, Len(s))

Before(s, less(_, _), i, j) == less(s[i], s[j]) \/ (~less(s[j], s[i]) /\ i < j)

Rank(s, less(_, _)) ==
  [i \in DOMAIN s |-> 1 + Cardinality({j \in DOMAIN s : Before(s, less, j, i)})]

Ranked(rank, r) == CHOOSE i \in DOMAIN rank : rank[i] = r

StableSort(list, less(_, _)) ==
  LET s == Evaluated(list)
      rank == Evaluated(Rank(s, less))
  IN Evaluated([r \in DOMAIN s |-> s[Ranked(rank, r)]])

(* sorted of a set of numbers.                                             *)
Ascending(S) ==
  [r \in 1 .. Cardinality(S) |-> CHOOSE x \in S : Cardinality({y \in S : y < x}) = r - 1]
=============================================================================
