---------------------------- MODULE MCPPOTrainer ----------------------------
(* The configurations under study: every engine with the default batch,    *)
(* and every batch with the default engines.                               *)
EXTENDS PPOTrainer

Default ==
  [mode |-> "sync", free_cache_engine |-> TRUE, lora |-> FALSE, dummy |-> TRUE, sleep_level |-> 2,
   offload |-> TRUE, adv_estimator |-> "grpo", balance_batch |-> TRUE,
   use_rm |-> FALSE, use_reference_policy |-> TRUE,
   use_kl_in_reward |-> FALSE, calculate_log_probs |-> TRUE, bypass |-> FALSE, multi_turn |-> FALSE]

(* LoRA requires load_format = safetensors (docs/advance/ppo_lora.rst);    *)
(* an engine that keeps its cache is left out: it keeps its weights too.   *)
Engines ==
  {[Default EXCEPT !.mode = m, !.lora = l, !.dummy = ~l, !.sleep_level = s, !.offload = o] :
     m \in {"sync", "async"}, l \in BOOLEAN, s \in {1, 2}, o \in BOOLEAN}

Batches ==
  {[Default EXCEPT !.mode = m, !.adv_estimator = a, !.balance_batch = b, !.use_rm = r,
                   !.use_kl_in_reward = k, !.calculate_log_probs = c, !.bypass = y,
                   !.multi_turn = t /\ m = "async"] :
     m \in {"sync", "async"}, a \in {"gae", "grpo", "remax"}, b \in BOOLEAN, r \in BOOLEAN,
     k \in BOOLEAN, c \in BOOLEAN, y \in BOOLEAN, t \in BOOLEAN}

MCConfigs == Engines \cup Batches
=============================================================================
