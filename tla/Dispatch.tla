------------------------------ MODULE Dispatch ------------------------------
(***************************************************************************)
(* How the single controller sends the rows of a batch to the ranks of a   *)
(* worker group and puts their answers together: padding, _balance_batch,  *)
(* chunks, dispatch over a device mesh, dynamic micro-batches on each      *)
(* rank, collection and unpadding (protocol.py, decorator.py, ray/base.py, *)
(* ppo/ray_trainer.py, dp_actor.py).  A batch is a sequence of rows.       *)
(***************************************************************************)
EXTENDS SeqlenBalancing

(* pad_dataproto_to_divisor repeats the batch from its beginning, auto     *)
(* padding repeats its last row; both are cut off the answer.              *)
PadSize(n, divisor) == IF n % divisor = 0 THEN 0 ELSE divisor - (n % divisor)

Padded(rows, divisor, candidate) ==
  rows \o [i \in 1 .. PadSize(Len(rows), divisor) |->
             IF candidate = "first" THEN rows[((i - 1) % Len(rows)) + 1] ELSE Last(rows)]

Unpadded(rows, pad_size) == SubSeq(rows, 1, Len(rows) - pad_size)

(* chunk, once the size of the batch is a multiple.                        *)
Chunk(rows, chunks) ==
  LET size == Len(rows) \div chunks
  IN [c \in 1 .. chunks |-> SubSeq(rows, size * (c - 1) + 1, size * c)]

(* _balance_batch: the order that puts rows of about the same load on each *)
(* rank, the smaller ones at both ends.                                    *)
BalancedOrder(lens, world_size) ==
  LET load == [i \in DOMAIN lens |-> Workload(lens[i])]
      lighter(i, j) == load[i] < load[j] \/ (load[i] = load[j] /\ i < j)
      ordered(p) == LET s == StableSort(p, lighter) IN Odd(s) \o Reverse(Even(s))
      partitions == BalancedPartitions(load, world_size, TRUE)
  IN FlattenSeq([p \in DOMAIN partitions |-> ordered(partitions[p])])

-----------------------------------------------------------------------------
(* A mesh gives every rank of the worker group, from 0, its place in the   *)
(* data parallel dimension and whether its answer is collected: the first  *)
(* rank of each sequence or tensor parallel group, of the last stage.      *)
FsdpMesh(dp, sp) ==
  [dp_rank |-> [r \in 0 .. dp * sp - 1 |-> r \div sp],
   collects |-> {r \in 0 .. dp * sp - 1 : r % sp = 0}]

MegatronMesh(pp, dp, tp) ==
  [dp_rank |-> [r \in 0 .. pp * dp * tp - 1 |-> (r \div tp) % dp],
   collects |-> {r \in 0 .. pp * dp * tp - 1 : r % tp = 0 /\ r \div (tp * dp) = pp - 1}]

DpSize(mesh) == Max({mesh.dp_rank[r] : r \in DOMAIN mesh.dp_rank}) + 1

(* dispatch_nd_compute and collect_nd_compute.                             *)
Dispatched(mesh, chunks) == [r \in DOMAIN mesh.dp_rank |-> chunks[mesh.dp_rank[r] + 1]]

Collected(mesh, output) ==
  LET ranks == Ascending(mesh.collects)
  IN FlattenSeq([i \in DOMAIN ranks |-> output[ranks[i]]])

-----------------------------------------------------------------------------
(* compute_log_prob on a rank: rows are [id, len], and the answer to a row *)
(* is its id.  Dynamic batches take as many micro-batches as the rank that *)
(* wants most.                                                             *)
Lens(rows) == [i \in DOMAIN rows |-> rows[i].len]
Ids(rows) == [i \in DOMAIN rows |-> rows[i].id]

Batching(rows, number, use) ==
  IF use.use_dynamic_bsz THEN MicroBatches(Lens(rows), number)
  ELSE Split(Len(rows), use.micro_batch_size)

ComputeLogProb(rows, number, use) ==
  LET batch_idx_list == Batching(rows, number, use)
      answers == FlattenSeq([m \in DOMAIN batch_idx_list |->
                               [i \in DOMAIN batch_idx_list[m] |-> rows[batch_idx_list[m][i]].id]])
  IN IF use.use_dynamic_bsz THEN Restore(answers, batch_idx_list) ELSE answers

(* A call of a method of the worker group.                                 *)
Call(rows, mesh, use) ==
  LET padded == Padded(rows, DpSize(mesh), use.candidate)
      inputs == Dispatched(mesh, Chunk(padded, DpSize(mesh)))
      number == Max({NumMicroBatches(Lens(inputs[r]), use.max_token_len) : r \in DOMAIN inputs})
      output == [r \in DOMAIN inputs |-> ComputeLogProb(inputs[r], number, use)]
  IN Unpadded(Collected(mesh, output), PadSize(Len(rows), DpSize(mesh)))
=============================================================================
