------------------------------- MODULE SedSft -------------------------------
(***************************************************************************)
(* Supervised fine-tuning with SED, the pure parts: which tokens of a      *)
(* conversation keep their label (preprocess_data.py), and which of them   *)
(* get the extra entropy term, by a threshold computed once from a         *)
(* validation set (train.py) and used by the loss (sft_trainer_v2.py).     *)
(***************************************************************************)
EXTENDS Sorting, SequencesExt, FiniteSetsExt

None == 0                      \* an option that is not given
Ignored == <<0, "ignored">>    \* -100

-----------------------------------------------------------------------------
(* The chat template, in the tokenizer: an optional preamble, then every   *)
(* message as a header, a body and an end.  A token is the place of its    *)
(* message and its part.  The generation prompt is the header of the       *)
(* assistant turn that comes next.                                         *)
Tokens(message, place) ==
  <<<<place, "header">>>> \o [i \in 1 .. message.length |-> <<place, "body">>] \o <<<<place, "end">>>>

Truncated(tokens, limit) == IF limit < Len(tokens) THEN SubSeq(tokens, 1, limit) ELSE tokens

Template(messages, preamble, limit, add_generation_prompt) ==
  Truncated(
    [i \in 1 .. preamble |-> <<0, "preamble">>]
    \o FlattenSeq([i \in 1 .. Len(messages) |-> Tokens(messages[i], i)])
    \o (IF add_generation_prompt THEN <<<<Len(messages) + 1, "header">>>> ELSE <<>>),
    limit)

(* encode_sft_example masks message by message, from the length of the     *)
(* conversation before it to its length with it.                           *)
Upto(messages, i) == SubSeq(messages, 1, i)

PromptFollows(messages, i) == i < Len(messages) /\ messages[i + 1].role = "assistant"

MessageStart(messages, preamble, limit, i) ==
  IF i = 1 THEN 0 ELSE Len(Template(Upto(messages, i - 1), preamble, limit, FALSE))

MessageEndUnprompted(messages, preamble, limit, i) ==   \* mutant: no generation prompt
  Len(Template(Upto(messages, i), preamble, limit, FALSE))

MessageEnd(messages, preamble, limit, i) ==
  Len(Template(Upto(messages, i), preamble, limit, PromptFollows(messages, i)))

Labels(messages, preamble, limit) ==
  LET input_ids == Template(messages, preamble, limit, FALSE)
      turns == {i \in DOMAIN messages : messages[i].role # "assistant"}
      reached(i) == \A j \in turns : j < i => MessageEnd(messages, preamble, limit, j) < limit
      masked(t) == \E i \in turns : /\ reached(i)
                                    /\ MessageStart(messages, preamble, limit, i) < t
                                    /\ t <= MessageEnd(messages, preamble, limit, i)
  IN [t \in DOMAIN input_ids |-> IF masked(t) THEN Ignored ELSE input_ids[t]]

-----------------------------------------------------------------------------
(* compute_cumsum_threshold.  A position of the validation set has the     *)
(* probability of its most likely tokens, in per cent: topk[k] is the sum  *)
(* over the k most likely.                                                 *)
Sums(positions, k) ==
  StableSort([i \in DOMAIN positions |-> positions[i][k]], <)

FromTheStart(s, k) == s[IF k = 0 THEN 1 ELSE k]   \* mutant: the other end of the list

(* sorted(...)[-k], where [-0] is the first.                               *)
FromTheEnd(s, k) == IF k = 0 THEN s[1] ELSE s[Len(s) - k + 1]

CumsumK(positions, cumsum_ratio) == (cumsum_ratio * Len(positions)) \div 100

Threshold(positions, k, cumsum_ratio) ==
  FromTheEnd(Sums(positions, k), CumsumK(positions, cumsum_ratio))

(* train.main, for a loss named after cumsum_ratio; a threshold that is    *)
(* given is kept.                                                          *)
CumsumThreshold(positions, top_k, cumsum_ratio) ==
  Threshold(positions, IF top_k = None THEN 10 ELSE top_k, cumsum_ratio)

(* SEDLoss.forward with what compute_loss passes: correct_pred_loss_mask,  *)
(* the tokens that get the extra term.                                     *)
Encouraged(position, top_k, cumsum_threshold) ==
  position[IF top_k = None THEN 2 ELSE top_k] < cumsum_threshold
=============================================================================
