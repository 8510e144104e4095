---------------------------- MODULE HybridEngine ----------------------------
(***************************************************************************)
(* The hybrid engine of ActorRolloutRefWorker: one process holds the FSDP  *)
(* actor and the vLLM engine and switches between trainer mode and rollout *)
(* mode.  The module has the state of a tensor-parallel group of workers   *)
(* and one operator per method; the driver that calls them is PPOTrainer.  *)
(*                                                                         *)
(* Weights are a pair: the version of the base weights and that of the     *)
(* LoRA adapter.  Without LoRA only the base is trained, with it only the  *)
(* adapter.  Adapter 0 is a fresh one, which changes nothing.              *)
(***************************************************************************)
EXTENDS Integers

CONSTANT Ranks                 \* ranks of a tensor-parallel group

VARIABLES
  config,                      \* the configuration, chosen once
  actor,                       \* weights of actor_module_fsdp
  on_gpu,                      \* the parameters of the actor are on the GPU
  engine,                      \* weights of the rollout engine
  awake,                       \* what of the engine holds GPU memory
  prefix,                      \* weights the KV blocks of the prefix cache come from
  base_sync_done,
  rng,                         \* rng[r]: random state of the device of rank r
  gen_random_states, torch_random_states

policy == <<actor, on_gpu>>
random == <<rng, gen_random_states, torch_random_states>>
worker == <<policy, engine, awake, prefix, base_sync_done, random>>

Weights(base, adapter) == [base |-> base, adapter |-> adapter]
Dummy == -1                    \* random or destroyed base weights
Memory == {"weights", "kv_cache"}

(* A random state: the stream it belongs to and the draws made from it.    *)
Stream(name) == [stream |-> name, draws |-> 0]
Draw(state, n) == [state EXCEPT !.draws = @ + n]

(* init_model and _build_rollout up to the switch to trainer mode; vLLM    *)
(* seeds the device when it is built.                                      *)
Build ==
  /\ actor = Weights(0, 0) /\ on_gpu = ~config.offload
  /\ engine = Weights(IF config.dummy THEN Dummy ELSE 0, 0)
  /\ awake = Memory /\ prefix = {} /\ base_sync_done = ~config.dummy
  /\ torch_random_states = [r \in Ranks |-> Stream("torch")]
  /\ gen_random_states = [r \in Ranks |-> Stream("gen")]
  /\ rng = [r \in Ranks |-> Stream("engine")]

PushedWithoutBase ==   \* mutant: sleep level 2 does not send the base again
  IF ~config.lora THEN [engine EXCEPT !.base = actor.base]
  ELSE [base    |-> IF ~base_sync_done THEN actor.base ELSE engine.base,
        adapter |-> IF base_sync_done THEN actor.adapter ELSE engine.adapter]

(* What update_weights leaves in the engine.  With LoRA the first call may *)
(* send the base without the adapter; sleep level 2 destroys the base, so  *)
(* it is sent again along with the adapter.                                *)
Pushed ==
  IF ~config.lora THEN [engine EXCEPT !.base = actor.base]
  ELSE [base    |-> IF config.sleep_level = 2 \/ ~base_sync_done
                    THEN actor.base ELSE engine.base,
        adapter |-> IF base_sync_done THEN actor.adapter ELSE engine.adapter]

RolloutModeUnseeded ==   \* mutant: generation draws from the states of training
  /\ engine' = Pushed
  /\ on_gpu' = (on_gpu /\ ~config.offload)
  /\ awake' = IF config.free_cache_engine THEN Memory ELSE awake
  /\ base_sync_done' = TRUE
  /\ torch_random_states' = rng
  /\ UNCHANGED <<actor, prefix, rng, gen_random_states>>

RolloutMode ==
  /\ engine' = Pushed
  /\ on_gpu' = (on_gpu /\ ~config.offload)
  /\ awake' = IF config.free_cache_engine THEN Memory ELSE awake
  /\ base_sync_done' = TRUE
  /\ torch_random_states' = rng /\ rng' = gen_random_states
  /\ UNCHANGED <<actor, prefix, gen_random_states>>

(* trainer_mode: release() empties the prefix cache and puts the engine to *)
(* sleep.                                                                  *)
TrainerMode ==
  /\ IF config.free_cache_engine
     THEN /\ awake' = {} /\ prefix' = {}
          /\ engine' = [engine EXCEPT !.base = IF config.sleep_level = 2 THEN Dummy ELSE @]
     ELSE UNCHANGED <<awake, prefix, engine>>
  /\ gen_random_states' = rng /\ rng' = torch_random_states
  /\ UNCHANGED <<policy, base_sync_done, torch_random_states>>

(* The ranks of the group draw alike as long as their states are alike.    *)
EngineGenerates ==
  /\ prefix' = prefix \cup {engine}
  /\ rng' = [r \in Ranks |-> Draw(rng[r], 1)]
  /\ UNCHANGED <<policy, engine, awake, base_sync_done, gen_random_states, torch_random_states>>

(* The start and the end of every method that runs the actor.              *)
LoadActor ==
  /\ on_gpu' = TRUE
  /\ UNCHANGED <<actor, engine, awake, prefix, base_sync_done, random>>

OffloadActor ==
  /\ on_gpu' = ~config.offload
  /\ UNCHANGED <<engine, awake, prefix, base_sync_done>>

Forward == OffloadActor /\ UNCHANGED <<actor, random>>

Trained == IF config.lora THEN [actor EXCEPT !.adapter = @ + 1] ELSE [actor EXCEPT !.base = @ + 1]

(* update_policy: ranks may draw differently (dropout on different data).  *)
UpdatePolicy ==
  /\ OffloadActor
  /\ actor' = Trained
  /\ \E n \in [Ranks -> 0 .. 1] : rng' = [r \in Ranks |-> Draw(rng[r], n[r])]
  /\ UNCHANGED <<gen_random_states, torch_random_states>>

(* load_checkpoint: the trained part of the actor and the random state of  *)
(* the device, but not the state kept for generation.                      *)
Restore(version) ==
  /\ OffloadActor
  /\ actor' = IF config.lora THEN [actor EXCEPT !.adapter = version]
              ELSE [actor EXCEPT !.base = version]
  /\ \E n \in [Ranks -> 0 .. 1] : rng' = [r \in Ranks |-> Draw(Stream("torch"), n[r])]
  /\ UNCHANGED <<gen_random_states, torch_random_states>>
=============================================================================
