----------------------------- MODULE PPOTrainer -----------------------------
(***************************************************************************)
(* RayPPOTrainer.fit on the hybrid engine: the batch that the driver       *)
(* assembles from the answers of the workers, column by column, and the    *)
(* order in which it calls them.                                           *)
(*                                                                         *)
(* A column remembers the rows it has (one per prompt, one per response,   *)
(* or responses reordered by _balance_batch), the rollout it was computed  *)
(* for ("sample", "baseline" or the "prompt" alone) and the weights that   *)
(* computed it.                                                            *)
(***************************************************************************)
EXTENDS HybridEngine, FiniteSets

CONSTANTS Configs,             \* configurations under study
          TotalSteps,          \* total_training_steps
          CriticWarmup,        \* trainer.critic_warmup
          Resumed              \* versions the job may resume from

ASSUME PPOAssumption ==
  /\ TotalSteps \in Nat \ {0} /\ CriticWarmup \in Nat /\ Resumed \subseteq Nat
  /\ Configs \subseteq
       [mode : {"sync", "async"}, free_cache_engine : BOOLEAN, lora : BOOLEAN,
        dummy : BOOLEAN,               \* load_format = dummy
        sleep_level : {1, 2}, offload : BOOLEAN,
        adv_estimator : {"gae", "grpo", "remax"}, balance_batch : BOOLEAN,
        use_rm : BOOLEAN, use_reference_policy : BOOLEAN,
        use_kl_in_reward : BOOLEAN, calculate_log_probs : BOOLEAN, bypass : BOOLEAN,
        multi_turn : BOOLEAN]

VARIABLES
  pc,                \* what fit does next
  busy,              \* the worker method under way, or "none"
  side,              \* "trainer" or "rollout" mode
  global_steps,
  batch,             \* columns by key
  answer,            \* columns of the last generation
  kept,              \* gen_batch_output while the baseline is generated
  reward             \* reward_tensor, maybe of a task launched aside

driver == <<pc, busy, side, global_steps, batch, answer, kept, reward>>
vars == <<config, worker, driver>>

Column(of, by, rows) == [of |-> of, by |-> by, rows |-> rows]
NoColumn == Column("none", Weights(Dummy, 0), "none")
Nothing == <<>>                        \* no columns
Only(key, column) == [k \in {key} |-> column]
Unite(b, c) == [k \in DOMAIN b \cup DOMAIN c |-> IF k \in DOMAIN b THEN b[k] ELSE c[k]]
With(b, key, column) == Unite(Only(key, column), b)
Drop(b, keys) == [k \in DOMAIN b \ keys |-> b[k]]
Critic == Weights(0, 0)                \* whose weights a critic or a rule uses

UsesCritic == config.adv_estimator = "gae"
SwitchesContext == config.mode = "sync" \/ config.free_cache_engine

(* DataProto.union asserts that common columns are equal.                  *)
Conflict(b, c) == \E k \in DOMAIN b \cap DOMAIN c : b[k] # c[k]

-----------------------------------------------------------------------------
Init ==
  /\ config \in Configs
  /\ Build
  /\ pc = "init" /\ busy = "none" /\ side = "rollout" /\ global_steps = 0
  /\ batch = Nothing /\ answer = Nothing /\ kept = Nothing /\ reward = NoColumn

(* The first switch to trainer mode: in _build_rollout, or by the          *)
(* AgentLoopManager if it frees the cache; then fit loads the checkpoint.  *)
FirstTrainerMode ==
  /\ pc = "init"
  /\ IF SwitchesContext THEN TrainerMode ELSE UNCHANGED worker
  /\ pc' = "load" /\ side' = "trainer"
  /\ UNCHANGED <<config, busy, global_steps, batch, answer, kept, reward>>

LoadCheckpoint ==
  /\ pc = "load"
  /\ \/ \E v \in Resumed : Restore(v) /\ UNCHANGED <<engine, awake, prefix, base_sync_done>>
     \/ OffloadActor /\ UNCHANGED <<actor, random>>
  /\ pc' = "gen" /\ global_steps' = 1
  /\ batch' = Only("uid", Column("prompt", Critic, "prompt"))
  /\ UNCHANGED <<config, busy, side, answer, kept, reward>>

-----------------------------------------------------------------------------
(* generate_sequences of the worker group or of the AgentLoopManager.      *)
Generating == pc \in {"gen", "gen_max", "validate"} /\ busy = "none"

Wake ==
  /\ Generating /\ side = "trainer" /\ answer = Nothing /\ SwitchesContext
  /\ RolloutMode
  /\ side' = "rollout"
  /\ UNCHANGED <<config, pc, busy, global_steps, batch, answer, kept, reward>>

Rows == IF pc = "gen" THEN "response" ELSE "prompt"
Rollout == IF pc = "gen" THEN "sample" ELSE "baseline"

(* Agent loops also return response_mask and non-tensor columns, such as   *)
(* the number of turns, that tell a rollout from another only in           *)
(* conversations of several turns.                                         *)
Answers(turns) ==
  LET column == Column(Rollout, engine, Rows)
      keys == {"responses"}
              \cup (IF config.calculate_log_probs THEN {"rollout_log_probs"} ELSE {})
              \cup (IF config.mode = "async" THEN {"response_mask", "__num_turns__"} ELSE {})
  IN [k \in keys |-> IF k = "__num_turns__" THEN turns ELSE column]

Generate ==
  /\ Generating /\ answer = Nothing /\ (SwitchesContext => side = "rollout")
  /\ EngineGenerates
  /\ \E of \in {"prompt"} \cup (IF config.multi_turn THEN {Rollout} ELSE {}) :
       answer' = Answers(Column(of, Critic, Rows))
  /\ UNCHANGED <<config, pc, busy, side, global_steps, batch, kept, reward>>

Sleep ==
  /\ Generating /\ answer # Nothing /\ side = "rollout"
  /\ TrainerMode
  /\ side' = "trainer"
  /\ UNCHANGED <<config, pc, busy, global_steps, batch, answer, kept, reward>>

Answered == Generating /\ answer # Nothing /\ side = "trainer"

Arranged(b, rows) == [k \in DOMAIN b |-> Column(b[k].of, b[k].by, rows)]
Repeat(b) == Arranged(b, "response")
Reorder(b) == Arranged(b, "balanced")
Masked(b) == IF "response_mask" \in DOMAIN b THEN b
             ELSE With(b, "response_mask", b["responses"])

(* repeat, union, response_mask and _balance_batch.                        *)
AssembleUnmatched(b, output) ==   \* mutant: the prompts are reordered before the union
  /\ kept' = Nothing
  /\ batch' = Masked(Unite(IF config.balance_batch THEN Reorder(Repeat(b)) ELSE Repeat(b), output))
  /\ pc' = "reward"

Assemble(b, output) ==
  /\ kept' = Nothing
  /\ \/ /\ Conflict(Repeat(b), output)
        /\ pc' = "failed" /\ UNCHANGED batch
     \/ /\ ~Conflict(Repeat(b), output)
        /\ LET whole == Masked(Unite(Repeat(b), output))
           IN batch' = IF config.balance_batch THEN Reorder(whole) ELSE whole
        /\ pc' = "reward"

Collect ==
  /\ Answered /\ pc = "gen"
  /\ \/ /\ config.adv_estimator = "remax"
        /\ kept' = answer /\ pc' = "gen_max"
        /\ UNCHANGED batch
     \/ /\ config.adv_estimator # "remax"
        /\ Assemble(batch, answer)
  /\ answer' = Nothing
  /\ UNCHANGED <<config, worker, busy, side, global_steps, reward>>

(* REMAX scores a greedy baseline in the batch and pops it again, the      *)
(* tensors only.                                                           *)
NonTensors == {"uid", "__num_turns__"}
Popped(b, output) == Drop(b, DOMAIN output \ NonTensors)

CollectBaseline ==
  /\ Answered /\ pc = "gen_max"
  /\ Assemble(With(Popped(Unite(batch, answer), answer), "reward_baselines", answer["responses"]), kept)
  /\ answer' = Nothing
  /\ UNCHANGED <<config, worker, busy, side, global_steps, reward>>

-----------------------------------------------------------------------------
(* What the driver does next, and what it adds to the batch.               *)
Same == UNCHANGED <<config, side, global_steps, answer, kept>>

Scores(b) == Column(b["responses"].of, Critic, b["responses"].rows)

Reward ==   \* compute_rm_score, then compute_reward or its task
  /\ pc = "reward"
  /\ batch' = IF config.use_rm THEN With(batch, "rm_scores", Scores(batch)) ELSE batch
  /\ reward' = Scores(batch')
  /\ pc' = "old_log_prob"
  /\ UNCHANGED <<worker, busy>> /\ Same

Bypass ==   \* maybe_apply_rollout_correction
  /\ pc = "old_log_prob" /\ config.bypass
  /\ \/ /\ "rollout_log_probs" \in DOMAIN batch
        /\ batch' = With(batch, "old_log_probs", batch["rollout_log_probs"])
        /\ pc' = "ref"
     \/ /\ "rollout_log_probs" \notin DOMAIN batch
        /\ pc' = "failed" /\ UNCHANGED batch
  /\ UNCHANGED <<worker, busy, reward>> /\ Same

(* A method of the actor worker: it loads the parameters, runs, and        *)
(* offloads them.  With LoRA the actor without its adapter is the          *)
(* reference.                                                              *)
RunsActor ==
  \/ pc = "old_log_prob" /\ ~config.bypass
  \/ pc = "ref" /\ config.use_reference_policy /\ config.lora
  \/ pc = "update_actor" /\ CriticWarmup <= global_steps
  \/ pc = "save"

Begin ==
  /\ RunsActor /\ busy = "none"
  /\ LoadActor
  /\ busy' = pc
  /\ UNCHANGED <<pc, batch, reward>> /\ Same

Answer(key, by) == With(batch, key, Column(batch["responses"].of, by, batch["responses"].rows))

OldLogProb ==
  /\ busy = "old_log_prob" /\ busy' = "none"
  /\ Forward
  /\ batch' = Answer("old_log_probs", actor) /\ pc' = "ref"
  /\ UNCHANGED reward /\ Same

RefInActor ==
  /\ busy = "ref" /\ busy' = "none"
  /\ Forward
  /\ batch' = Answer("ref_log_prob", [actor EXCEPT !.adapter = 0]) /\ pc' = "values"
  /\ UNCHANGED reward /\ Same

Ref ==   \* a reference of its own, or none
  /\ pc = "ref" /\ ~(config.use_reference_policy /\ config.lora)
  /\ batch' = IF config.use_reference_policy THEN Answer("ref_log_prob", Weights(0, 0)) ELSE batch
  /\ pc' = "values"
  /\ UNCHANGED <<worker, busy, reward>> /\ Same

Values ==
  /\ pc = "values"
  /\ batch' = IF UsesCritic THEN Answer("values", Critic) ELSE batch
  /\ pc' = "adv"
  /\ UNCHANGED <<worker, busy, reward>> /\ Same

(* token_level_scores, apply_kl_penalty and compute_advantage.             *)
AdvantageReads ==
  {"response_mask", "token_level_rewards"}
  \cup CASE config.adv_estimator = "gae" -> {"values"}
         [] config.adv_estimator = "grpo" -> {"uid"}
         [] OTHER -> {"uid", "reward_baselines"}

Penalized(b) == IF config.use_kl_in_reward
                THEN {"old_log_probs", "ref_log_prob", "response_mask"} ELSE {}

Advantage ==
  /\ pc = "adv"
  /\ LET scored == With(With(batch, "token_level_scores", reward), "token_level_rewards", reward)
     IN IF Penalized(scored) \cup AdvantageReads \subseteq DOMAIN scored
        THEN batch' = With(scored, "advantages", reward) /\ pc' = "update_actor"
        ELSE UNCHANGED batch /\ pc' = "failed"
  /\ UNCHANGED <<worker, busy, reward>> /\ Same

UpdateActor ==   \* update_critic changes nothing modelled here
  /\ \/ busy = "update_actor" /\ UpdatePolicy
     \/ pc = "update_actor" /\ global_steps < CriticWarmup /\ UNCHANGED worker
  /\ busy' = "none"
  /\ pc' \in {"validate", "save", "next"}
  /\ UNCHANGED <<batch, reward>> /\ Same

Validated ==   \* _validate: the answers are scored and dropped
  /\ Answered /\ pc = "validate"
  /\ answer' = Nothing /\ pc' \in {"save", "next"}
  /\ UNCHANGED <<config, worker, busy, side, global_steps, batch, kept, reward>>

Save ==
  /\ busy = "save" /\ busy' = "none"
  /\ Forward
  /\ pc' = "next"
  /\ UNCHANGED <<batch, reward>> /\ Same

NextStep ==
  /\ pc = "next"
  /\ \/ /\ global_steps < TotalSteps
        /\ global_steps' = global_steps + 1 /\ pc' = "gen"
        /\ batch' = Only("uid", Column("prompt", Critic, "prompt"))
     \/ /\ global_steps >= TotalSteps
        /\ pc' = "done" /\ UNCHANGED <<global_steps, batch>>
  /\ reward' = NoColumn
  /\ UNCHANGED <<config, worker, busy, side, answer, kept>>

Stopped == pc \in {"done", "failed"} /\ UNCHANGED vars

Next ==
  \/ FirstTrainerMode \/ LoadCheckpoint
  \/ Wake \/ Generate \/ Sleep \/ Collect \/ CollectBaseline \/ Validated
  \/ Reward \/ Bypass \/ Begin \/ OldLogProb \/ RefInActor \/ Ref \/ Values \/ Advantage
  \/ UpdateActor \/ Save \/ NextStep \/ Stopped

Spec == Init /\ [][Next]_vars

-----------------------------------------------------------------------------
RandomState == [stream : {"torch", "gen", "engine"}, draws : Nat]

(* Weights, modes, random states and places of fit; the columns of a batch *)
(* are the subject of TrainsOnPolicy.                                      *)
TypeOK ==
  /\ config \in Configs
  /\ actor \in [base : Nat, adapter : Nat] /\ engine \in [base : Nat \cup {Dummy}, adapter : Nat]
  /\ on_gpu \in BOOLEAN /\ awake \subseteq Memory /\ base_sync_done \in BOOLEAN
  /\ {rng, gen_random_states, torch_random_states} \subseteq [Ranks -> RandomState]
  /\ pc \in {"init", "load", "gen", "gen_max", "reward", "old_log_prob", "ref", "values", "adv",
             "update_actor", "validate", "save", "next", "done", "failed"}
  /\ busy \in {"none", "old_log_prob", "ref", "update_actor", "save"}
  /\ side \in {"trainer", "rollout"} /\ global_steps \in 0 .. TotalSteps

(* Every rollout, of a step, a baseline or a validation, comes from the    *)
(* weights the actor has at that moment, whatever the engine lost or kept  *)
(* while it slept, after a resume too; and no block of the prefix cache    *)
(* was computed by other weights.                                          *)
Rolling == Generating /\ answer = Nothing /\ (SwitchesContext => side = "rollout")
RolloutIsCurrent == Rolling => engine = actor /\ awake = Memory /\ prefix \subseteq {engine}

(* The ranks of a tensor-parallel group sample alike, however training     *)
(* moved their random states, and training never sees the states of        *)
(* generation.                                                             *)
SampleAlike ==
  /\ Rolling => \A r, s \in Ranks : rng[r] = rng[s]
  /\ busy = "update_actor" => \A r \in Ranks : rng[r].stream = "torch"

(* What update_actor trains on: columns of the same rows and rollout, and  *)
(* old log-probabilities of the weights that rolled out, which are the     *)
(* weights about to be updated.                                            *)
TrainsOnPolicy == pc = "update_actor" =>
  /\ \A j, k \in DOMAIN batch : batch[j].rows = batch[k].rows
  /\ \A k \in DOMAIN batch \ {"uid", "reward_baselines", "__num_turns__"} : batch[k].of = "sample"
  /\ batch["responses"].by = actor /\ batch["old_log_probs"].by = actor
=============================================================================
