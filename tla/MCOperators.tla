----------------------------- MODULE MCOperators -----------------------------
(***************************************************************************)
(* The pure algorithms against reference definitions, over bounded inputs: *)
(* a question is chosen, the code answers it, and an invariant relates the *)
(* two.                                                                    *)
(***************************************************************************)
EXTENDS SedSft, Dispatch, PolicyGradient

CONSTANT LossAggModes          \* values of loss_agg_mode under study

VARIABLES question, answer

NoAnswer == <<>>
SeqsUpto(S, n) == UNION {[1 .. m -> S] : m \in 1 .. n}

Encodings ==
  [kind : {"labels"},
   messages : SeqsUpto([role : {"user", "assistant"}, length : {1, 2}], 4),
   preamble : {0, 1}, limit : {3, 6, 100}]

Positions == {[k \in {2, 10} |-> IF k = 2 THEN p ELSE p + q] : p \in {20, 50, 90}, q \in {0, 5}}
Thresholds ==
  [kind : {"threshold"}, positions : SeqsUpto(Positions, 4), top_k : {2, 10, None},
   cumsum_ratio : {30, 70}]

Uses ==
  [use_dynamic_bsz : {TRUE}, max_token_len : {3, 4, 6}, micro_batch_size : {1},
   candidate : {"first", "last"}]
  \cup [use_dynamic_bsz : {FALSE}, max_token_len : {3}, micro_batch_size : {1, 2},
        candidate : {"first"}]

Calls ==
  {q \in [kind : {"call"}, lens : SeqsUpto(1 .. 3, 4) \cup [1 .. 6 -> {1, 3}],
          mesh : {FsdpMesh(2, 2), FsdpMesh(3, 1), MegatronMesh(2, 2, 2)},
          balance : BOOLEAN, use : Uses] :
     q.balance => Len(q.lens) % Cardinality(DOMAIN q.mesh.dp_rank) = 0}

Partitions ==
  {q \in [kind : {"partition"}, lens : SeqsUpto(1 .. 4, 5) \cup [1 .. 6 -> {1, 2, 4}], k : 1 .. 4,
          equal_size : BOOLEAN] :
     q.k <= Len(q.lens) /\ (q.equal_size => Len(q.lens) % q.k = 0)}

Credits ==
  UNION {[kind : {"credit"}, rewards : [1 .. n -> {0, 1}], values : [1 .. n -> {0, 2}],
          mask : [1 .. n -> {0, 1}]] : n \in 1 .. 4}

Updates ==
  {q \in [kind : {"update"}, tokens : SeqsUpto(1 .. 3, 4), mode : LossAggModes, use : Uses,
          mini_batch_size : {3, 4}] :
     /\ Len(q.tokens) <= q.mini_batch_size
     /\ ~q.use.use_dynamic_bsz => q.mini_batch_size % q.use.micro_batch_size = 0}

Init ==
  /\ answer = NoAnswer
  /\ \/ question \in Encodings \/ question \in Thresholds \/ question \in Calls
     \/ question \in Partitions \/ question \in Credits \/ question \in Updates

Asked(kind) == answer = NoAnswer /\ question.kind = kind /\ UNCHANGED question
Answered(kind) == answer # NoAnswer /\ question.kind = kind

-----------------------------------------------------------------------------
Gamma == 2
Lam == 3

Power(base, n) ==
  LET power[m \in 0 .. n] == IF m = 0 THEN 1 ELSE base * power[m - 1] IN power[n]

Load(lens) == [i \in DOMAIN lens |-> Workload(lens[i])]
RowsOf(lens) == [i \in DOMAIN lens |-> [id |-> i, len |-> lens[i]]]
RowsSent(q) ==
  IF q.balance
  THEN LET order == BalancedOrder(q.lens, Cardinality(DOMAIN q.mesh.dp_rank))
       IN [i \in DOMAIN order |-> RowsOf(q.lens)[order[i]]]
  ELSE RowsOf(q.lens)

EncodeExample ==
  /\ Asked("labels")
  /\ answer' = Labels(question.messages, question.preamble, question.limit)

ComputeThreshold ==
  /\ Asked("threshold")
  /\ answer' = <<CumsumThreshold(question.positions, question.top_k, question.cumsum_ratio)>>

CallWorkers ==
  /\ Asked("call")
  /\ answer' = Call(RowsSent(question), question.mesh, question.use)

Partition ==
  /\ Asked("partition")
  /\ answer' = BalancedPartitions(Load(question.lens), question.k, question.equal_size)

AssignCredit ==
  /\ Asked("credit")
  /\ answer' = <<Gae(question.rewards, question.values, question.mask, Gamma, Lam),
                 ReinforcePlusPlus(question.rewards, question.mask, Gamma)>>

UpdatePolicy ==
  /\ Asked("update")
  /\ answer' = TokenWeights(question.mode, question.tokens,
                            [i \in DOMAIN question.tokens |-> question.tokens[i]],
                            question.mini_batch_size, question.use)

Next == EncodeExample \/ ComputeThreshold \/ CallWorkers \/ Partition \/ AssignCredit \/ UpdatePolicy

Spec == Init /\ [][Next]_<<question, answer>>

-----------------------------------------------------------------------------
(* Docstring of encode_sft_example: non-assistant turns are masked, the    *)
(* prompt that opens an answer with them.  Bodies and ends of the          *)
(* assistant's turns keep their labels, wherever the truncation falls.     *)
LabelsOfAssistant == Answered("labels") =>
  LET messages == question.messages
      input_ids == Template(messages, question.preamble, question.limit, FALSE)
      says(i) == messages[i].role = "assistant"
      learned(token) ==
        CASE token[2] = "preamble" -> says(1)
          [] token[2] = "header" -> says(token[1]) /\ (token[1] = 1 \/ says(token[1] - 1))
          [] OTHER -> says(token[1])
  IN answer = [t \in DOMAIN input_ids |-> IF learned(input_ids[t]) THEN input_ids[t] ELSE Ignored]

(* Docstring of compute_cumsum_threshold: cumsum_ratio is the percentile.  *)
(* When top_k is given, that share of the validation set is confident      *)
(* enough to go without the extra term, ties aside; when it is not, the    *)
(* threshold is of the top 10, the loss looks at the top 2, and at most    *)
(* that share goes without.  A share of less than one position is the      *)
(* exception: the code takes the smallest sum, as for the share of all.    *)
Share(positions, k) == IF k = 0 THEN Len(positions) ELSE k
Without(positions, top_k, threshold) ==
  {i \in DOMAIN positions : ~Encouraged(positions[i], top_k, threshold)}
Above(positions, top_k, threshold) ==
  {i \in Without(positions, top_k, threshold) :
     positions[i][IF top_k = None THEN 2 ELSE top_k] > threshold}

ThresholdPercentile == Answered("threshold") =>
  LET positions == question.positions
      k == Share(positions, CumsumK(positions, question.cumsum_ratio))
  IN /\ Cardinality(Above(positions, question.top_k, answer[1])) < k
     /\ question.top_k # None => Cardinality(Without(positions, question.top_k, answer[1])) >= k

(* Every row gets its own answer, in the order the rows were sent, however *)
(* they were padded, balanced, spread over the mesh and batched.           *)
AnswerInOrder == Answered("call") => answer = Ids(RowsSent(question))

(* Docstring of get_seqlen_balanced_partitions: k partitions, none empty,  *)
(* each index in one of them, of equal size if asked; no two differ by     *)
(* more than the largest workload.                                         *)
PartitionsBalanced == Answered("partition") =>
  LET load == Load(question.lens)
      size(p) == Len(answer[p])
  IN /\ IsPartition(answer, Len(load), question.k)
     /\ \A p, q \in DOMAIN answer : p # q => ToSet(answer[p]) \cap ToSet(answer[q]) = {}
     /\ \A p \in DOMAIN answer : IsInjective(answer[p])
     /\ question.equal_size => \A p, q \in DOMAIN answer : size(p) = size(q)
     /\ \A p, q \in DOMAIN answer :
          Sum(load, answer[p]) - Sum(load, answer[q]) <= Max({load[i] : i \in DOMAIN load})

(* GAE is that of the response without its observations.  REINFORCE++      *)
(* discounts what follows in the same turn, and nothing of a later one.    *)
CreditAssigned == Answered("credit") =>
  LET own == {t \in DOMAIN question.mask : question.mask[t] = 1}
      after(t) == {u \in own : u > t}
      value(t) == question.values[t]
      next(t) == IF after(t) = {} THEN 0 ELSE value(Min(after(t)))
      delta(t) == question.rewards[t] + Gamma * next(t) - value(t)
      steps(t, u) == Cardinality({w \in own : t <= w /\ w < u})
      turn(t) == {u \in after(t) \cup {t} : t .. u \subseteq own}
  IN \A t \in own :
       /\ answer[1][t] = SumFunction([u \in after(t) \cup {t} |->
                                        Power(Gamma * Lam, steps(t, u)) * delta(u)])
       /\ answer[2][t] = SumFunction([u \in turn(t) |-> Power(Gamma, u - t) * question.rewards[u]])

(* docs/algo/ppo.md: the size of micro-batches "should not change          *)
(* algorithmic/convergence behavior".  A token weighs in the gradient what *)
(* it would weigh in a single micro-batch, times the share of a full       *)
(* mini-batch that there is: a row counts for as much in a short           *)
(* mini-batch.  The exception is a last mini-batch that is no multiple of  *)
(* micro_batch_size.  Every response has a token.                          *)
Uncut == [i \in DOMAIN question.tokens |-> i]
Multiple == Len(question.tokens) % question.use.micro_batch_size = 0

MicroBatchesNeutral == Answered("update") /\ (question.use.use_dynamic_bsz \/ Multiple) =>
  \A i \in DOMAIN answer :
    SameFraction(answer[i], Times(Fraction(Len(question.tokens), question.mini_batch_size),
                                  InLoss(question.mode, question.tokens, Uncut, i)))
=============================================================================
