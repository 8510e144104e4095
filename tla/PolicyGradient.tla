--------------------------- MODULE PolicyGradient ---------------------------
(***************************************************************************)
(* From rewards to gradients: what a token is credited with (core_algos.py,*)
(* before whitening) and what it weighs in the gradient of its mini-batch  *)
(* (agg_loss and DataParallelPPOActor.update_policy).  A response is a     *)
(* sequence of tokens; its mask is 0 on observations and on padding.       *)
(***************************************************************************)
EXTENDS SeqlenBalancing

Select(mask, a, b) == a * mask + (1 - mask) * b

(* compute_gae_advantage_return, from the last token back; after the last  *)
(* token are the initial values.                                           *)
GaeUnmasked(rewards, values, mask, gamma, lam) ==   \* mutant: values of observations count
  LET n == Len(rewards)
      from[t \in 1 .. n + 1] ==
        IF t > n THEN [nextvalues |-> 0, lastgaelam |-> 0]
        ELSE LET delta == rewards[t] + gamma * from[t + 1].nextvalues - values[t]
             IN [nextvalues |-> values[t],
                 lastgaelam |-> Select(mask[t], delta + gamma * lam * from[t + 1].lastgaelam,
                                       from[t + 1].lastgaelam)]
  IN [t \in 1 .. n |-> from[t].lastgaelam]

Gae(rewards, values, mask, gamma, lam) ==
  LET n == Len(rewards)
      from[t \in 1 .. n + 1] ==
        IF t > n THEN [nextvalues |-> 0, lastgaelam |-> 0]
        ELSE LET delta == rewards[t] + gamma * from[t + 1].nextvalues - values[t]
             IN [nextvalues |-> Select(mask[t], values[t], from[t + 1].nextvalues),
                 lastgaelam |-> Select(mask[t], delta + gamma * lam * from[t + 1].lastgaelam,
                                       from[t + 1].lastgaelam)]
  IN [t \in 1 .. n |-> from[t].lastgaelam]

(* compute_reinforce_plus_plus_outcome_advantage: the returns; what was    *)
(* accumulated is reset by a masked token.                                 *)
ReinforcePlusPlus(rewards, mask, gamma) ==
  LET n == Len(rewards)
      from[t \in 1 .. n] ==
        rewards[t] + (IF t = n THEN 0 ELSE gamma * from[t + 1] * mask[t + 1])
  IN [t \in 1 .. n |-> from[t]]

-----------------------------------------------------------------------------
(* agg_loss: what a token of row i weighs, as a fraction, in the loss of   *)
(* the rows of a micro-batch.  tokens[i] of its response are not masked.   *)
Fraction(num, den) == [num |-> num, den |-> den]
Times(a, b) == Fraction(a.num * b.num, a.den * b.den)
SameFraction(a, b) == a.num * b.den = b.num * a.den

InLoss(loss_agg_mode, tokens, micro_batch, i) ==
  LET rows == Cardinality({m \in DOMAIN micro_batch : tokens[micro_batch[m]] > 0})
  IN CASE loss_agg_mode = "token-mean" -> Fraction(1, Sum(tokens, micro_batch))
       [] loss_agg_mode = "seq-mean-token-sum" -> Fraction(1, rows)
       [] loss_agg_mode = "seq-mean-token-mean" -> Fraction(1, tokens[i] * rows)

(* update_policy: the micro-batches of a mini-batch and loss_scale_factor.  *)
(* mini_batch_size is config.ppo_mini_batch_size, which the last mini-batch *)
(* of data.split may fall short of.                                        *)
MicroBatchesOf(lens, use) ==
  IF use.use_dynamic_bsz THEN MicroBatches(lens, NumMicroBatches(lens, use.max_token_len))
  ELSE Split(Len(lens), use.micro_batch_size)

LossScaleFactorFixed(mini_batch_size, micro_batch, use) ==   \* mutant: as if all were as large
  Fraction(1, IF use.use_dynamic_bsz THEN mini_batch_size
              ELSE mini_batch_size \div use.micro_batch_size)

LossScaleFactor(mini_batch_size, micro_batch, use) ==
  IF use.use_dynamic_bsz THEN Fraction(Len(micro_batch), mini_batch_size)
  ELSE Fraction(1, mini_batch_size \div use.micro_batch_size)

TokenWeights(loss_agg_mode, tokens, lens, mini_batch_size, use) ==
  LET micro_batches == MicroBatchesOf(lens, use)
      of(i) == CHOOSE m \in DOMAIN micro_batches : Contains(micro_batches[m], i)
  IN [i \in DOMAIN tokens |->
        Times(LossScaleFactor(mini_batch_size, micro_batches[of(i)], use),
              InLoss(loss_agg_mode, tokens, micro_batches[of(i)], i))]
=============================================================================
