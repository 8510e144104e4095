-------------------------- MODULE SeqlenBalancing --------------------------
(***************************************************************************)
(* seqlen_balancing.py: the Karmarkar-Karp partition of sequences by their *)
(* workload, the micro-batches of a dynamic batch and the way back to the  *)
(* original order.  Indices count from 1.                                  *)
(***************************************************************************)
EXTENDS Sorting, SequencesExt, FiniteSetsExt

Workload(seqlen) == 24576 * seqlen + seqlen * seqlen

CeilDiv(a, b) == (a + b - 1) \div b

Slice(s, first, step) == [i \in 1 .. CeilDiv(Len(s) - first + 1, step) |-> s[first + (i - 1) * step]]
Odd(s)  == Slice(s, 1, 2)      \* s[::2]
Even(s) == Slice(s, 2, 2)      \* s[1::2]

Sum(load, indices) ==
  LET sum[n \in 0 .. Len(indices)] == IF n = 0 THEN 0 ELSE sum[n - 1] + load[indices[n]]
  IN sum[Len(indices)]

-----------------------------------------------------------------------------
(* karmarkar_karp.  A set has its sum and its items, in the order they     *)
(* were merged; a state is a sequence of sets in decreasing order.         *)
SetOf(load, items) == [sum |-> Sum(load, items), items |-> items]

Joined(s, t) == [sum |-> s.sum + t.sum, items |-> s.items \o t.items]

SetLess(s, t) ==
  \/ s.sum < t.sum
  \/ s.sum = t.sum /\ Len(s.items) < Len(t.items)
  \/ /\ s.sum = t.sum /\ Len(s.items) = Len(t.items)
     /\ \E i \in DOMAIN s.items : /\ s.items[i] < t.items[i]
                                  /\ \A j \in 1 .. i - 1 : s.items[j] = t.items[j]

Decreasing(sets) == StableSort(sets, LAMBDA s, t : SetLess(t, s))

Spread(state) == Head(state).sum - Last(state).sum

Merge(state, other) ==
  Decreasing([i \in DOMAIN state |-> Joined(state[i], other[Len(state) + 1 - i])])

(* What the heap pops first: the largest spread, then the largest set.     *)
Popped(states) ==
  CHOOSE s \in states : \A t \in states \ {s} :
    \/ Spread(s) > Spread(t)
    \/ Spread(s) = Spread(t) /\ SetLess(Head(t), Head(s))

MergeTwo(states) ==
  LET state0 == Popped(states)
      state1 == Popped(states \ {state0})
  IN (states \ {state0, state1}) \cup {Merge(state0, state1)}

(* Items by increasing load: one to a state, or k of them, one to a set.   *)
Sorted(load) ==
  StableSort([i \in DOMAIN load |-> i], LAMBDA i, j : load[i] < load[j])

State(load, group, k) ==
  Decreasing([i \in 1 .. k |-> SetOf(load, IF i <= Len(group) THEN <<group[i]>> ELSE <<>>)])

FirstStatesOfOne(load, items, k, equal_size) ==   \* mutant: equal_size is forgotten
  {State(load, <<items[n]>>, k) : n \in 1 .. Len(items)}

FirstStates(load, items, k, equal_size) ==
  LET size == IF equal_size THEN k ELSE 1
  IN {State(load, SubSeq(items, size * (n - 1) + 1, size * n), k) : n \in 1 .. Len(items) \div size}

KarmarkarKarp(load, k, equal_size) ==
  LET first == FirstStates(load, Sorted(load), k, equal_size)
      heap[n \in 0 .. Cardinality(first) - 1] == IF n = 0 THEN first ELSE MergeTwo(heap[n - 1])
  IN CHOOSE state \in heap[Cardinality(first) - 1] : TRUE

(* get_seqlen_balanced_partitions, with the assertions it makes.           *)
IsPartition(partitions, n, k) ==
  /\ Len(partitions) = k
  /\ \A p \in DOMAIN partitions : partitions[p] # <<>>
  /\ UNION {ToSet(partitions[p]) : p \in DOMAIN partitions} = 1 .. n

BalancedPartitions(load, k, equal_size) ==
  LET sets == KarmarkarKarp(load, k, equal_size)
  IN [p \in 1 .. k |-> StableSort(sets[p].items, <)]

-----------------------------------------------------------------------------
(* rearrange_micro_batches.  The ranks of the process group take the       *)
(* largest number of micro-batches any of them asks for.                   *)
NumMicroBatches(lens, max_token_len) ==
  LET total == Sum(lens, [i \in DOMAIN lens |-> i])
      wanted == CeilDiv(total, max_token_len)
  IN IF wanted < Len(lens) THEN wanted ELSE Len(lens)

(* Larger micro-batches in the middle.                                     *)
MiddleOut(load, partitions) ==
  LET first(p) == p[1]
      larger(p, q) == \/ Sum(load, p) > Sum(load, q)
                      \/ Sum(load, p) = Sum(load, q) /\ first(p) > first(q)
      ordered == StableSort(partitions, larger)
  IN Reverse(Odd(ordered)) \o Even(ordered)

MicroBatches(lens, num_micro_batches) ==
  LET load == [i \in DOMAIN lens |-> Workload(lens[i])]
  IN MiddleOut(load, BalancedPartitions(load, num_micro_batches, FALSE))

(* data.split(micro_batch_size).                                           *)
Split(n, size) ==
  [m \in 1 .. CeilDiv(n, size) |->
     [i \in 1 .. Min({size, n - size * (m - 1)}) |-> size * (m - 1) + i]]

(* get_reverse_idx and restore_dynamic_batch.                              *)
ReverseIdx(indices) == [j \in DOMAIN indices |-> CHOOSE i \in DOMAIN indices : indices[i] = j]

RestoreUnreversed(data, batch_idx_list) ==   \* mutant: indexed by the map itself
  LET indices == FlattenSeq(batch_idx_list) IN [j \in DOMAIN data |-> data[indices[j]]]

Restore(data, batch_idx_list) ==
  LET reverse == ReverseIdx(FlattenSeq(batch_idx_list))
  IN [j \in DOMAIN data |-> data[reverse[j]]]
=============================================================================
