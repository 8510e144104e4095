-------------------------- MODULE PPOTrainer_proofs --------------------------
(***************************************************************************)
(* Proofs about the hybrid engine under RayPPOTrainer.fit, for any ranks,  *)
(* steps and resumed version, when the engine frees its cache and LoRA is  *)
(* loaded with real base weights.                                          *)
(***************************************************************************)
EXTENDS PPOTrainer, TLAPS

(* free_cache_engine is the default, and docs/advance/ppo_lora.rst asks    *)
(* for load_format = safetensors; without either, PPO on this engine rolls *)
(* out with weights that are not the actor's.                              *)
Supported == \A c \in Configs : c.free_cache_engine /\ (c.lora => ~c.dummy)

(* Where the driver is when the engine is in rollout mode, and when a      *)
(* method of the actor is under way.                                       *)
Mode ==
  /\ pc = "init" => side = "rollout"
  /\ side = "rollout" => pc \in {"init", "gen", "gen_max", "validate"} /\ busy = "none"
  /\ busy # "none" => pc = busy /\ RunsActor

(* With LoRA the base never changes, without it there is no adapter; the   *)
(* engine has the actor's weights in rollout mode, and what it keeps in    *)
(* trainer mode is what rollout mode will not send again.                  *)
InStep ==
  /\ IF config.lora THEN actor.base = 0 /\ base_sync_done ELSE actor.adapter = 0 /\ engine.adapter = 0
  /\ config.lora /\ (config.sleep_level = 1 \/ pc = "init") => engine.base = 0
  /\ side = "trainer" \/ pc = "init" => prefix = {}
  /\ side = "rollout" /\ pc # "init" => engine = actor /\ awake = Memory /\ prefix \subseteq {engine}

(* The states that are not in use are those of the other mode.             *)
Streams ==
  /\ side = "trainer" => /\ \A r, s \in Ranks : gen_random_states[r] = gen_random_states[s]
                         /\ \A r \in Ranks : rng[r].stream = "torch"
  /\ side = "rollout" => /\ \A r, s \in Ranks : rng[r] = rng[s]
                         /\ \A r \in Ranks : torch_random_states[r].stream = "torch"

Inv == TypeOK /\ Mode /\ InStep /\ Streams

-----------------------------------------------------------------------------
(* The methods of the worker that keep it in trainer mode.                 *)
Trainer == side = "trainer" /\ side' = side /\ config' = config

LEMMA ActorRuns ==
  ASSUME Supported, Inv, Trainer, pc # "init", pc' # "init",
         \/ LoadActor \/ Forward \/ UpdatePolicy \/ UNCHANGED worker
         \/ \E v \in Resumed : Restore(v) /\ UNCHANGED <<engine, awake, prefix, base_sync_done>>
         \/ (OffloadActor /\ UNCHANGED <<actor, random>>)
  PROVE  /\ InStep' /\ Streams'
         /\ actor' \in [base : Nat, adapter : Nat] /\ engine' = engine
         /\ on_gpu' \in BOOLEAN /\ awake' = awake /\ base_sync_done' = base_sync_done
         /\ {rng', gen_random_states', torch_random_states'} \subseteq [Ranks -> RandomState]
<1>0. /\ config \in Configs /\ config' = config /\ side = "trainer" /\ side' = "trainer"
      /\ actor \in [base : Nat, adapter : Nat] /\ engine \in [base : Nat \cup {Dummy}, adapter : Nat]
      /\ rng \in [Ranks -> RandomState] /\ gen_random_states \in [Ranks -> RandomState]
      /\ torch_random_states \in [Ranks -> RandomState] /\ on_gpu \in BOOLEAN
      /\ config.offload \in BOOLEAN /\ config.lora \in BOOLEAN
  BY PPOAssumption DEF Inv, TypeOK, Trainer
<1>1. ASSUME NEW state \in RandomState, NEW n \in 0 .. 1
      PROVE  Draw(state, n) \in RandomState /\ Draw(state, n).stream = state.stream
  BY DEF Draw, RandomState
<1>2. Stream("torch") \in RandomState /\ Stream("torch").stream = "torch"
  BY DEF Stream, RandomState
<1>3. /\ UNCHANGED <<engine, awake, prefix, base_sync_done, gen_random_states, torch_random_states>>
      /\ on_gpu' \in BOOLEAN
  BY <1>0 DEF LoadActor, Forward, UpdatePolicy, Restore, OffloadActor, worker, policy, random
<1>5. /\ actor' \in [base : Nat, adapter : Nat]
      /\ config.lora => actor'.base = actor.base
      /\ ~config.lora => actor'.adapter = actor.adapter
  <2>1. CASE LoadActor \/ Forward \/ (OffloadActor /\ UNCHANGED <<actor, random>>) \/ UNCHANGED worker
    BY <1>0, <2>1 DEF LoadActor, Forward, worker, policy
  <2>2. CASE UpdatePolicy
    BY <1>0, <2>2 DEF UpdatePolicy, Trained
  <2>3. ASSUME NEW v \in Resumed, Restore(v)
      PROVE  /\ actor' \in [base : Nat, adapter : Nat]
             /\ config.lora => actor'.base = actor.base
             /\ ~config.lora => actor'.adapter = actor.adapter
    BY <1>0, <2>3, PPOAssumption DEF Restore
  <2> QED BY <2>1, <2>2, <2>3
<1>6. rng' \in [Ranks -> RandomState] /\ \A r \in Ranks : rng'[r].stream = "torch"
  <2>0. \A r \in Ranks : rng[r].stream = "torch"
    BY <1>0 DEF Inv, Streams
  <2>1. CASE LoadActor \/ Forward \/ (OffloadActor /\ UNCHANGED <<actor, random>>) \/ UNCHANGED worker
    BY <1>0, <2>0, <2>1 DEF LoadActor, Forward, worker, random
  <2>2. CASE UpdatePolicy
    BY <1>0, <1>1, <2>0, <2>2 DEF UpdatePolicy
  <2>3. ASSUME NEW v \in Resumed, Restore(v)
      PROVE  rng' \in [Ranks -> RandomState] /\ \A r \in Ranks : rng'[r].stream = "torch"
    BY <1>0, <1>1, <1>2, <2>3 DEF Restore
  <2> QED BY <2>1, <2>2, <2>3
<1>7. InStep'
  BY <1>0, <1>3, <1>5 DEF Inv, InStep
<1>8. Streams'
  BY <1>0, <1>3, <1>6 DEF Inv, Streams
<1> QED BY <1>0, <1>3, <1>5, <1>6, <1>7, <1>8
-----------------------------------------------------------------------------
LEMMA ConfigFacts ==
  ASSUME Supported, Inv
  PROVE  /\ config.free_cache_engine /\ (config.lora => ~config.dummy) /\ SwitchesContext
         /\ config.lora \in BOOLEAN /\ config.sleep_level \in {1, 2} /\ config.offload \in BOOLEAN
BY PPOAssumption DEF Supported, Inv, TypeOK, SwitchesContext

LEMMA InitInv == Supported => (Init => Inv)
<1> SUFFICES ASSUME Supported, Init PROVE Inv
  OBVIOUS
<1>1. /\ config \in Configs /\ config.offload \in BOOLEAN /\ config.lora \in BOOLEAN
      /\ config.dummy \in BOOLEAN /\ (config.lora => ~config.dummy)
  BY PPOAssumption DEF Init, Supported
<1>2. \A name \in {"torch", "gen", "engine"} :
        Stream(name) \in RandomState /\ Stream(name).stream = name
  BY DEF Stream, RandomState
<1>3. /\ actor = [base |-> 0, adapter |-> 0] /\ on_gpu \in BOOLEAN
      /\ engine = [base |-> IF config.dummy THEN Dummy ELSE 0, adapter |-> 0]
      /\ awake = Memory /\ prefix = {} /\ base_sync_done = ~config.dummy
  BY <1>1 DEF Init, Build, Weights
<1>4. /\ torch_random_states = [r \in Ranks |-> Stream("torch")]
      /\ gen_random_states = [r \in Ranks |-> Stream("gen")]
      /\ rng = [r \in Ranks |-> Stream("engine")]
      /\ pc = "init" /\ busy = "none" /\ side = "rollout" /\ global_steps = 0
  BY DEF Init, Build
<1>5. TypeOK
  BY <1>1, <1>2, <1>3, <1>4, PPOAssumption DEF TypeOK
<1>6. InStep
  BY <1>1, <1>3, <1>4 DEF InStep
<1> QED BY <1>2, <1>4, <1>5, <1>6 DEF Inv, Mode, Streams

(* The engine is put to sleep.                                             *)
LEMMA EngineSleeps ==
  ASSUME Supported, Inv, TrainerMode, config' = config, side' = "trainer", side = "rollout",
         pc' # "init"
  PROVE  /\ InStep' /\ Streams'
         /\ actor' = actor /\ engine' \in [base : Nat \cup {Dummy}, adapter : Nat]
         /\ on_gpu' = on_gpu /\ awake' = {} /\ base_sync_done' = base_sync_done
         /\ {rng', gen_random_states', torch_random_states'} \subseteq [Ranks -> RandomState]
<1>0. /\ config.free_cache_engine /\ config.lora \in BOOLEAN /\ config.sleep_level \in {1, 2}
      /\ config' = config
  BY ConfigFacts
<1>1. /\ actor \in [base : Nat, adapter : Nat] /\ engine \in [base : Nat \cup {Dummy}, adapter : Nat]
      /\ rng \in [Ranks -> RandomState] /\ torch_random_states \in [Ranks -> RandomState]
  BY DEF Inv, TypeOK
<1>2. /\ UNCHANGED <<actor, on_gpu, base_sync_done, torch_random_states>>
      /\ awake' = {} /\ prefix' = {}
      /\ engine' = [engine EXCEPT !.base = IF config.sleep_level = 2 THEN Dummy ELSE engine.base]
      /\ gen_random_states' = rng /\ rng' = torch_random_states
  BY <1>0 DEF TrainerMode, policy
<1>3. /\ engine' \in [base : Nat \cup {Dummy}, adapter : Nat]
      /\ engine'.adapter = engine.adapter
      /\ config.sleep_level = 1 => engine'.base = engine.base
  BY <1>0, <1>1, <1>2
<1>4. Streams'
  BY <1>2 DEF Inv, Streams
<1>5. InStep'
  BY <1>0, <1>2, <1>3 DEF Inv, InStep
<1> QED BY <1>1, <1>2, <1>3, <1>4, <1>5

(* The engine is woken with the weights of the actor.                      *)
LEMMA EngineWakes ==
  ASSUME Supported, Inv, RolloutMode, config' = config, side = "trainer", side' = "rollout",
         pc # "init"
  PROVE  /\ InStep' /\ Streams'
         /\ actor' = actor /\ engine' = actor
         /\ on_gpu' \in BOOLEAN /\ awake' = Memory /\ base_sync_done' = TRUE
         /\ {rng', gen_random_states', torch_random_states'} \subseteq [Ranks -> RandomState]
<1>0. /\ config.free_cache_engine /\ config.lora \in BOOLEAN /\ config.sleep_level \in {1, 2}
      /\ config' = config /\ config.offload \in BOOLEAN
  BY ConfigFacts
<1>1. /\ actor \in [base : Nat, adapter : Nat] /\ engine \in [base : Nat \cup {Dummy}, adapter : Nat]
      /\ rng \in [Ranks -> RandomState] /\ gen_random_states \in [Ranks -> RandomState]
      /\ on_gpu \in BOOLEAN
  BY DEF Inv, TypeOK
<1>2. /\ UNCHANGED <<actor, prefix, gen_random_states>> /\ engine' = Pushed
      /\ awake' = Memory /\ base_sync_done' = TRUE /\ on_gpu' \in BOOLEAN
      /\ torch_random_states' = rng /\ rng' = gen_random_states
  BY <1>0, <1>1 DEF RolloutMode
<1>3. Pushed = actor
  <2>1. CASE config.lora
    BY <1>0, <1>1, <2>1 DEF Inv, InStep, Pushed
  <2>2. CASE ~config.lora
    BY <1>0, <1>1, <2>2 DEF Inv, InStep, Pushed
  <2> QED BY <2>1, <2>2
<1>4. Streams'
  BY <1>2 DEF Inv, Streams
<1>5. prefix = {}
  BY DEF Inv, InStep
<1>6. InStep'
  BY <1>0, <1>2, <1>3, <1>5 DEF Inv, InStep
<1> QED BY <1>1, <1>2, <1>3, <1>4, <1>6

LEMMA NextInv == Supported => (Inv /\ [Next]_vars => Inv')
<1> SUFFICES ASSUME Supported, Inv, [Next]_vars PROVE Inv'
  OBVIOUS
<1>0. SwitchesContext /\ TypeOK /\ Mode
  BY ConfigFacts DEF Inv
<1> DEFINE Places == {"init", "load", "gen", "gen_max", "reward", "old_log_prob", "ref", "values",
                      "adv", "update_actor", "validate", "save", "next", "done", "failed"}
           Kept == UNCHANGED worker
                   \/ LoadActor \/ Forward \/ UpdatePolicy
                   \/ (\E v \in Resumed : Restore(v) /\ UNCHANGED <<engine, awake, prefix, base_sync_done>>)
                   \/ (OffloadActor /\ UNCHANGED <<actor, random>>)
(* Every step in trainer mode.                                             *)
<1>1. ASSUME Trainer, pc # "init", pc' \in Places \ {"init"}, Kept, global_steps' \in 0 .. TotalSteps,
             busy' \in {"none", "old_log_prob", "ref", "update_actor", "save"},
             busy' # "none" => pc' = busy' /\ RunsActor'
      PROVE  Inv'
  <2>1. /\ InStep' /\ Streams'
        /\ actor' \in [base : Nat, adapter : Nat] /\ engine' = engine
        /\ on_gpu' \in BOOLEAN /\ awake' = awake /\ base_sync_done' = base_sync_done
        /\ {rng', gen_random_states', torch_random_states'} \subseteq [Ranks -> RandomState]
    BY <1>1, ActorRuns
  <2>2. TypeOK'
    BY <1>0, <1>1, <2>1 DEF TypeOK, Trainer
  <2>3. Mode'
    BY <1>1 DEF Mode, Trainer
  <2> QED BY <2>1, <2>2, <2>3 DEF Inv
<1>2. CASE FirstTrainerMode
  <2>1. /\ TrainerMode /\ config' = config /\ side' = "trainer" /\ side = "rollout" /\ pc' = "load"
        /\ busy' = busy /\ global_steps' = global_steps /\ busy = "none"
    BY <1>0, <1>2 DEF FirstTrainerMode, Mode
  <2> QED BY <1>0, <2>1, EngineSleeps DEF Inv, TypeOK, Mode
<1>3. CASE LoadCheckpoint
  <2>1. /\ Trainer /\ pc = "load" /\ pc' = "gen" /\ Kept /\ global_steps' = 1 /\ busy' = busy
        /\ busy = "none"
    BY <1>0, <1>3 DEF LoadCheckpoint, Mode, TypeOK, Trainer
  <2> QED BY <1>0, <1>1, <2>1, PPOAssumption DEF TypeOK
<1>4. CASE Wake
  <2>1. /\ RolloutMode /\ config' = config /\ side = "trainer" /\ side' = "rollout"
        /\ pc' = pc /\ busy' = busy /\ global_steps' = global_steps /\ busy = "none"
        /\ pc \in {"gen", "gen_max", "validate"}
    BY <1>4 DEF Wake, Generating
  <2> QED BY <1>0, <2>1, EngineWakes DEF Inv, TypeOK, Mode
<1>5. CASE Generate
  <2>1. /\ EngineGenerates /\ UNCHANGED <<config, pc, busy, side, global_steps>>
        /\ side = "rollout" /\ pc # "init"
    BY <1>0, <1>5 DEF Generate, Generating
  <2>2. /\ UNCHANGED <<actor, on_gpu, engine, awake, base_sync_done, gen_random_states,
                       torch_random_states>>
        /\ prefix' = prefix \cup {engine} /\ rng' = [r \in Ranks |-> Draw(rng[r], 1)]
    BY <2>1 DEF EngineGenerates, policy
  <2>3. rng' \in [Ranks -> RandomState]
    <3>1. \A state \in RandomState : Draw(state, 1) \in RandomState
      BY DEF Draw, RandomState
    <3>2. rng \in [Ranks -> RandomState]
      BY <1>0 DEF TypeOK
    <3> QED BY <2>2, <3>1, <3>2
  <2>4. TypeOK'
    BY <1>0, <2>1, <2>2, <2>3 DEF TypeOK
  <2>5. InStep'
    BY <2>1, <2>2 DEF Inv, InStep
  <2>6. Streams'
    BY <2>1, <2>2 DEF Inv, Streams
  <2> QED BY <1>0, <2>1, <2>4, <2>5, <2>6 DEF Inv, Mode
<1>6. CASE Sleep
  <2>1. /\ TrainerMode /\ config' = config /\ side' = "trainer" /\ side = "rollout"
        /\ pc' = pc /\ busy' = busy /\ global_steps' = global_steps /\ pc # "init"
    BY <1>6 DEF Sleep, Generating
  <2> QED BY <1>0, <2>1, EngineSleeps DEF Inv, TypeOK, Mode
<1>7. CASE Collect \/ CollectBaseline \/ Validated
  <2>1. /\ Trainer /\ UNCHANGED worker /\ pc # "init" /\ pc' \in Places \ {"init"}
        /\ busy' = busy /\ busy = "none" /\ global_steps' = global_steps
    BY <1>7 DEF Collect, CollectBaseline, Validated, Answered, Generating, Assemble, Trainer
  <2> QED BY <1>0, <1>1, <2>1 DEF TypeOK
<1>8. CASE Reward \/ Bypass \/ Ref \/ Values \/ Advantage
  <2>1. /\ UNCHANGED <<worker, config, side, global_steps, busy>> /\ pc' \in Places \ {"init"}
        /\ pc \in {"reward", "old_log_prob", "ref", "values", "adv"}
        /\ pc = "old_log_prob" => config.bypass
        /\ pc = "ref" => ~(config.use_reference_policy /\ config.lora)
    BY <1>8 DEF Reward, Bypass, Ref, Values, Advantage, Same
  <2>2. busy = "none"
    BY <1>0, <2>1 DEF Mode, RunsActor
  <2> QED BY <1>0, <1>1, <2>1, <2>2 DEF TypeOK, Mode, Trainer
<1>9. CASE Begin
  <2>1. /\ LoadActor /\ UNCHANGED <<config, side, global_steps, pc>> /\ busy' = pc
        /\ pc \in {"old_log_prob", "ref", "update_actor", "save"} /\ RunsActor'
    BY <1>9 DEF Begin, RunsActor, Same
  <2> QED BY <1>0, <1>1, <2>1 DEF TypeOK, Mode, Trainer
<1>10. CASE OldLogProb \/ RefInActor \/ Save
  <2>1. /\ Forward /\ UNCHANGED <<config, side, global_steps>> /\ busy # "none" /\ busy' = "none"
        /\ pc' \in Places \ {"init"}
    BY <1>10 DEF OldLogProb, RefInActor, Save, Same
  <2> QED BY <1>0, <1>1, <2>1 DEF TypeOK, Mode, Trainer
<1>11. CASE UpdateActor
  <2>1. /\ UpdatePolicy \/ UNCHANGED worker
        /\ UNCHANGED <<config, side, global_steps>> /\ busy' = "none"
        /\ pc' \in Places \ {"init"} /\ pc = "update_actor"
    BY <1>0, <1>11 DEF UpdateActor, Same, Mode
  <2> QED BY <1>0, <1>1, <2>1 DEF TypeOK, Mode, Trainer
<1>12. CASE NextStep
  <2>1. /\ UNCHANGED <<config, worker, side, busy>> /\ pc = "next"
        /\ pc' \in Places \ {"init"}
        /\ global_steps' = global_steps \/ (global_steps' = global_steps + 1 /\ global_steps < TotalSteps)
    BY <1>12 DEF NextStep
  <2>2. busy = "none" /\ side = "trainer" /\ global_steps' \in 0 .. TotalSteps
    BY <1>0, <2>1, PPOAssumption DEF Mode, TypeOK
  <2> QED BY <1>1, <2>1, <2>2 DEF Trainer
<1>13. CASE Stopped \/ UNCHANGED vars
  <2>1. UNCHANGED vars
    BY <1>13 DEF Stopped
  <2>2. TypeOK' /\ Mode'
    BY <1>0, <2>1 DEF vars, worker, driver, policy, random, TypeOK, Mode, RunsActor
  <2>3. InStep' /\ Streams'
    BY <2>1 DEF vars, worker, driver, policy, random, Inv, InStep, Streams
  <2> QED BY <2>2, <2>3 DEF Inv
<1> QED BY <1>2, <1>3, <1>4, <1>5, <1>6, <1>7, <1>8, <1>9, <1>10, <1>11, <1>12, <1>13 DEF Next

(* Weights, modes and random states keep their types.                      *)
THEOREM TypeCorrect ==
  ASSUME Supported
  PROVE  Spec => []TypeOK
<1>1. Init => Inv
  BY InitInv
<1>2. Inv /\ [Next]_vars => Inv'
  BY NextInv
<1>3. Inv => TypeOK
  BY DEF Inv
<1> QED BY <1>1, <1>2, <1>3, PTL DEF Spec

(* Every rollout is made by the actor's weights of that moment, after any  *)
(* sleep, any number of updates and a resume, with or without LoRA.        *)
THEOREM CurrentRollouts ==
  ASSUME Supported
  PROVE  Spec => []RolloutIsCurrent
<1>1. Init => Inv
  BY InitInv
<1>2. Inv /\ [Next]_vars => Inv'
  BY NextInv
<1>3. Inv => RolloutIsCurrent
  BY ConfigFacts DEF Inv, InStep, Mode, RolloutIsCurrent, Rolling, Generating
<1> QED BY <1>1, <1>2, <1>3, PTL DEF Spec

(* The ranks of a tensor-parallel group sample alike, and training draws   *)
(* from the random states of training.                                     *)
THEOREM RanksAlike ==
  ASSUME Supported
  PROVE  Spec => []SampleAlike
<1>1. Init => Inv
  BY InitInv
<1>2. Inv /\ [Next]_vars => Inv'
  BY NextInv
<1>3. Inv => SampleAlike
  BY ConfigFacts DEF Inv, Streams, Mode, SampleAlike, Rolling, Generating, TypeOK
<1> QED BY <1>1, <1>2, <1>3, PTL DEF Spec

-----------------------------------------------------------------------------
(* What the batch is made of, by the place of the driver: what it asks     *)
(* for, what a rollout returns, and what training adds.                    *)
Orders == {"prompt", "response", "balanced"}
Columns == [of : {"prompt", "sample", "baseline"}, by : [base : Int, adapter : Int], rows : Orders]
Aside == {"uid", "reward_baselines", "__num_turns__"}
ByPolicy == {"responses", "rollout_log_probs", "old_log_probs"}

Prompts(b) == DOMAIN b \subseteq Aside /\ \A k \in DOMAIN b : b[k] \in Columns

Returned(out) ==
  /\ "responses" \in DOMAIN out
  /\ DOMAIN out \subseteq {"responses", "rollout_log_probs", "response_mask", "__num_turns__"}
  /\ \A k \in DOMAIN out : out[k] \in Columns

SampledOut(out) ==
  /\ Returned(out)
  /\ \A k \in DOMAIN out : out[k].rows = "response"
  /\ \A k \in DOMAIN out \ Aside : out[k].of = "sample" /\ out[k].by = actor

Assembled(b) ==
  /\ "responses" \in DOMAIN b
  /\ \A k \in DOMAIN b : b[k] \in Columns /\ b[k].rows = b["responses"].rows
  /\ \A k \in DOMAIN b \ Aside : b[k].of = "sample"
  /\ \A k \in DOMAIN b \cap ByPolicy : b[k].by = actor

Fits(column, b) ==
  column \in Columns /\ column.of = "sample" /\ column.rows = b["responses"].rows

Training == {"reward", "old_log_prob", "ref", "values", "adv", "update_actor"}

Assembly ==
  /\ answer # Nothing => pc \in {"gen", "gen_max", "validate"}
  /\ pc \in {"gen", "gen_max"} => Prompts(batch)
  /\ pc = "gen" /\ answer # Nothing => SampledOut(answer)
  /\ pc = "gen_max" => SampledOut(kept) /\ (answer # Nothing => Returned(answer))
  /\ pc \in Training => Assembled(batch)
  /\ pc \in Training \ {"reward"} => Fits(reward, batch)
  /\ pc \in Training \ {"reward", "old_log_prob"} => "old_log_probs" \in DOMAIN batch

-----------------------------------------------------------------------------
LEMMA UnionFacts ==
  ASSUME NEW b, NEW c
  PROVE  /\ DOMAIN Unite(b, c) = DOMAIN b \cup DOMAIN c
         /\ \A k \in DOMAIN b : Unite(b, c)[k] = b[k]
         /\ \A k \in DOMAIN c \ DOMAIN b : Unite(b, c)[k] = c[k]
BY DEF Unite

(* An added column leaves an assembled batch assembled.                    *)
LEMMA Added ==
  ASSUME NEW b, Assembled(b), NEW key, key \notin Aside, NEW column,
         Fits(column, b), key \in ByPolicy => column.by = actor,
         key # "responses"
  PROVE  /\ Assembled(With(b, key, column)) /\ With(b, key, column)["responses"] = b["responses"]
         /\ {key} \cup DOMAIN b \subseteq DOMAIN With(b, key, column)
<1> DEFINE w == With(b, key, column)
<1>1. /\ DOMAIN w = {key} \cup DOMAIN b
      /\ w[key] = column
      /\ \A k \in DOMAIN b \ {key} : w[k] = b[k]
  BY DEF With, Only, Unite
<1> HIDE DEF w
<1>2. w["responses"] = b["responses"] /\ "responses" \in DOMAIN w
  BY <1>1 DEF Assembled
<1>3. ASSUME NEW k \in DOMAIN w
      PROVE  /\ w[k] \in Columns /\ w[k].rows = b["responses"].rows
             /\ k \notin Aside => w[k].of = "sample"
             /\ k \in ByPolicy => w[k].by = actor
  <2>1. CASE k = key
    BY <1>1, <2>1 DEF Fits
  <2>2. CASE k # key
    BY <1>1, <1>3, <2>2 DEF Assembled
  <2> QED BY <2>1, <2>2
<1>4. Assembled(w)
  BY <1>2, <1>3 DEF Assembled
<1>5. {key} \cup DOMAIN b \subseteq DOMAIN w
  BY <1>1
<1> QED BY <1>2, <1>4, <1>5 DEF w

(* In particular one computed after the old log-probabilities.             *)
LEMMA AddedLater ==
  ASSUME NEW b, Assembled(b), "old_log_probs" \in DOMAIN b,
         NEW key, key \notin Aside \cup ByPolicy, key # "responses",
         NEW column, Fits(column, b), NEW scores, Fits(scores, b)
  PROVE  LET w == With(b, key, column)
         IN Assembled(w) /\ Fits(scores, w) /\ "old_log_probs" \in DOMAIN w
<1> DEFINE w == With(b, key, column)
<1>1. Assembled(w) /\ w["responses"] = b["responses"] /\ {key} \cup DOMAIN b \subseteq DOMAIN w
  BY Added
<1> HIDE DEF w
<1>2. Assembled(w) /\ Fits(scores, w) /\ "old_log_probs" \in DOMAIN w
  BY <1>1 DEF Fits
<1> QED BY <1>2 DEF w

(* Rows are repeated and reordered, the rest of a column stays.            *)
LEMMA RowsChange ==
  ASSUME NEW b, \A k \in DOMAIN b : b[k] \in Columns
  PROVE  /\ DOMAIN Repeat(b) = DOMAIN b /\ DOMAIN Reorder(b) = DOMAIN b
         /\ \A k \in DOMAIN b :
              /\ Repeat(b)[k] \in Columns /\ Repeat(b)[k].rows = "response"
              /\ Reorder(b)[k] \in Columns /\ Reorder(b)[k].rows = "balanced"
              /\ Reorder(b)[k].of = b[k].of /\ Reorder(b)[k].by = b[k].by
<1>1. ASSUME NEW rows \in Orders
      PROVE  /\ DOMAIN Arranged(b, rows) = DOMAIN b
             /\ \A k \in DOMAIN b :
                  /\ Arranged(b, rows)[k] \in Columns /\ Arranged(b, rows)[k].rows = rows
                  /\ Arranged(b, rows)[k].of = b[k].of /\ Arranged(b, rows)[k].by = b[k].by
  <2>1. \A c \in Columns : /\ Column(c.of, c.by, rows) \in Columns
                           /\ Column(c.of, c.by, rows).rows = rows
                           /\ Column(c.of, c.by, rows).of = c.of
                           /\ Column(c.of, c.by, rows).by = c.by
    BY DEF Column, Columns
  <2> QED BY <2>1 DEF Arranged
<1>2. "response" \in Orders /\ "balanced" \in Orders
  BY DEF Orders
<1> QED BY <1>1, <1>2, Zenon DEF Repeat, Reorder

LEMMA Balanced ==
  ASSUME NEW b, Assembled(b)
  PROVE  Assembled(Reorder(b))
BY RowsChange DEF Assembled

LEMMA AssembleFacts ==
  ASSUME NEW b, NEW out, Prompts(b), SampledOut(out), Assemble(b, out), pc' \in Training,
         actor' = actor
  PROVE  pc' = "reward" /\ Assembled(batch')
<1> DEFINE united == Unite(Repeat(b), out)
<1>1. /\ pc' = "reward"
      /\ batch' = IF config.balance_batch THEN Reorder(Masked(united)) ELSE Masked(united)
  BY DEF Assemble, Training
<1>2. /\ DOMAIN Repeat(b) = DOMAIN b
      /\ \A k \in DOMAIN b : Repeat(b)[k] \in Columns /\ Repeat(b)[k].rows = "response"
  BY RowsChange DEF Prompts
<1>3. /\ DOMAIN united = DOMAIN Repeat(b) \cup DOMAIN out
      /\ \A k \in DOMAIN Repeat(b) : united[k] = Repeat(b)[k]
      /\ \A k \in DOMAIN out \ DOMAIN Repeat(b) : united[k] = out[k]
  BY UnionFacts
<1>4. united["responses"] = out["responses"]
  BY <1>2, <1>3 DEF Prompts, SampledOut, Returned, Aside
<1> HIDE DEF united
<1>5. Assembled(united)
  BY <1>2, <1>3, <1>4 DEF Prompts, SampledOut, Returned, Assembled, Aside, ByPolicy
<1>6. Assembled(Masked(united))
  <2>1. Fits(united["responses"], united)
    BY <1>5 DEF Assembled, Fits, Aside
  <2>2. Assembled(With(united, "response_mask", united["responses"]))
    <3>1. /\ "response_mask" \notin Aside
          /\ "response_mask" \notin ByPolicy /\ "response_mask" # "responses"
      BY DEF Aside, ByPolicy
    <3> QED BY <1>5, <2>1, <3>1, Added, Zenon
  <2> QED BY <1>5, <2>2 DEF Masked
<1> QED BY <1>1, <1>6, Balanced

(* The baseline leaves only columns that tell prompts apart.               *)
LEMMA BaselineFacts ==
  ASSUME NEW b, NEW out, Prompts(b), Returned(out)
  PROVE  Prompts(With(Popped(Unite(b, out), out), "reward_baselines", out["responses"]))
<1> DEFINE popped == Popped(Unite(b, out), out)
           scored == With(popped, "reward_baselines", out["responses"])
<1>1. /\ DOMAIN Unite(b, out) = DOMAIN b \cup DOMAIN out
      /\ \A k \in DOMAIN Unite(b, out) : Unite(b, out)[k] \in Columns
  BY UnionFacts DEF Prompts, Returned
<1>2. /\ DOMAIN popped = DOMAIN Unite(b, out) \ (DOMAIN out \ NonTensors)
      /\ \A k \in DOMAIN popped : popped[k] = Unite(b, out)[k]
  BY DEF Popped, Drop
<1> HIDE DEF popped
<1>3. DOMAIN popped \subseteq Aside /\ \A k \in DOMAIN popped : popped[k] \in Columns
  BY <1>1, <1>2 DEF Prompts, Aside, NonTensors
<1>4. /\ DOMAIN scored = {"reward_baselines"} \cup DOMAIN popped
      /\ scored["reward_baselines"] = out["responses"]
      /\ \A k \in DOMAIN popped \ {"reward_baselines"} : scored[k] = popped[k]
  BY DEF With, Only, Unite
<1> HIDE DEF scored
<1>5. Prompts(scored)
  BY <1>3, <1>4 DEF Prompts, Returned, Aside
<1> QED BY <1>5 DEF scored, popped

LEMMA GeneratedFacts ==
  ASSUME Supported, Inv, Assembly, Generate
  PROVE  /\ pc = "gen" => SampledOut(answer')
         /\ pc = "gen_max" => Returned(answer')
<1>1. /\ engine = actor /\ actor \in [base : Int, adapter : Int]
      /\ Critic \in [base : Int, adapter : Int]
  BY ConfigFacts DEF Generate, Generating, Inv, InStep, TypeOK, Critic, Weights
<1>2. PICK of \in {"prompt", Rollout} : answer' = Answers(Column(of, Critic, Rows))
  BY DEF Generate
<1> DEFINE column == Column(Rollout, engine, Rows)
           turns == Column(of, Critic, Rows)
<1>3. /\ "responses" \in DOMAIN answer'
      /\ DOMAIN answer' \subseteq {"responses", "rollout_log_probs", "response_mask", "__num_turns__"}
      /\ \A k \in DOMAIN answer' : answer'[k] = IF k = "__num_turns__" THEN turns ELSE column
  BY <1>2 DEF Answers
<1>4. /\ column \in Columns /\ turns \in Columns
      /\ column.rows = Rows /\ turns.rows = Rows
      /\ column.of = Rollout /\ column.by = actor
  BY <1>1, <1>2 DEF Column, Columns, Orders, Rollout, Rows
<1> HIDE DEF column, turns
<1>5. Returned(answer')
  BY <1>3, <1>4 DEF Returned
<1>6. ASSUME pc = "gen" PROVE SampledOut(answer') /\ actor' = actor
  BY <1>3, <1>4, <1>5, <1>6 DEF SampledOut, Aside, Rows, Rollout, Generate, EngineGenerates, policy
<1> QED BY <1>5, <1>6

LEMMA AssemblyInit == Init => Assembly
BY DEF Init, Assembly, Training, Nothing

(* Columns computed for the responses of a batch fit it.                   *)
LEMMA ColumnFits ==
  ASSUME NEW b, Assembled(b), NEW by \in [base : Int, adapter : Int]
  PROVE  LET column == Column(b["responses"].of, by, b["responses"].rows)
         IN Fits(column, b) /\ column.by = by
BY DEF Assembled, Fits, Column, Columns, Aside

LEMMA ScoresFit ==
  ASSUME NEW b, Assembled(b)
  PROVE  Fits(Scores(b), b)
<1>1. Critic \in [base : Int, adapter : Int]
  BY DEF Critic, Weights
<1> QED BY <1>1, ColumnFits DEF Scores

(* Steps after the assembly, until the update.                             *)
LEMMA Continues ==
  ASSUME Assembly, pc \in Training, actor' = actor, answer' = answer,
         pc' \in Training \cup {"failed"},
         pc' \in Training =>
           /\ Assembled(batch')
           /\ pc' # "reward" => Fits(reward', batch')
           /\ pc' \notin {"reward", "old_log_prob"} => "old_log_probs" \in DOMAIN batch'
  PROVE  Assembly'
<1>1. answer' = Nothing
  BY DEF Assembly, Training
<1>2. pc' \in Training => Assembled(batch)'
  BY DEF Assembled
<1>3. pc' \notin {"gen", "gen_max"}
  BY DEF Training
<1> QED BY <1>1, <1>2, <1>3 DEF Assembly, Fits

LEMMA AssemblyNext == Supported /\ Inv /\ Assembly /\ [Next]_vars => Assembly'
<1> SUFFICES ASSUME Supported, Inv, Assembly, [Next]_vars PROVE Assembly'
  OBVIOUS
<1>0. /\ SwitchesContext /\ Mode
      /\ actor \in [base : Nat, adapter : Nat] /\ Critic \in [base : Int, adapter : Int]
  BY ConfigFacts DEF Inv, TypeOK, Critic, Weights
<1>1. CASE FirstTrainerMode \/ Validated \/ Save
  <2>1. /\ pc' \in {"load", "save", "next"}
        /\ pc # "validate" => answer = Nothing /\ answer' = answer
        /\ pc = "validate" => answer' = Nothing
    BY <1>0, <1>1 DEF FirstTrainerMode, Validated, Save, Same, Assembly, Mode
  <2> QED BY <2>1 DEF Assembly, Training
<1>2. CASE LoadCheckpoint \/ NextStep
  <2>1. /\ answer' = answer /\ answer = Nothing
        /\ \/ pc' = "gen" /\ batch' = Only("uid", Column("prompt", Critic, "prompt"))
           \/ pc' = "done"
    BY <1>2 DEF LoadCheckpoint, NextStep, Assembly
  <2>2. Column("prompt", Critic, "prompt") \in Columns
    BY <1>0 DEF Column, Columns, Orders
  <2>3. Prompts(Only("uid", Column("prompt", Critic, "prompt")))
    BY <2>2 DEF Prompts, Only, Aside
  <2> QED BY <2>1, <2>3 DEF Assembly, Training, Prompts
<1>3. CASE Wake \/ Sleep
  <2>1. UNCHANGED <<pc, batch, answer, kept, reward, actor>> /\ pc \in {"gen", "gen_max", "validate"}
    BY <1>3 DEF Wake, Sleep, Generating, RolloutMode, TrainerMode, policy
  <2> QED BY <2>1 DEF Assembly, Training, SampledOut, Returned, Prompts
<1>4. CASE Generate
  <2>1. UNCHANGED <<pc, batch, kept, reward, actor>> /\ pc \in {"gen", "gen_max", "validate"}
    BY <1>4 DEF Generate, Generating, EngineGenerates, policy
  <2> QED BY <1>4, <2>1, GeneratedFacts DEF Assembly, Training, SampledOut, Returned, Prompts
<1>5. CASE Collect
  <2>1. answer # Nothing /\ pc = "gen" /\ answer' = Nothing /\ actor' = actor
    BY <1>5 DEF Collect, Answered, worker, policy
  <2>2. CASE kept' = answer /\ pc' = "gen_max" /\ UNCHANGED batch
    BY <2>1, <2>2 DEF Assembly, Training, SampledOut, Returned, Prompts
  <2>3. CASE Assemble(batch, answer)
    <3>1. pc' \in {"reward", "failed"}
      BY <2>3 DEF Assemble
    <3>2. pc' = "reward" => Assembled(batch')
      BY <2>1, <2>3, AssembleFacts DEF Assembly, Training
    <3> QED BY <2>1, <3>1, <3>2 DEF Assembly, Training, Assembled
  <2> QED BY <1>5, <2>2, <2>3 DEF Collect
<1>6. CASE CollectBaseline
  <2> DEFINE scored == With(Popped(Unite(batch, answer), answer), "reward_baselines", answer["responses"])
  <2>1. /\ answer # Nothing /\ pc = "gen_max" /\ answer' = Nothing /\ actor' = actor
        /\ Assemble(scored, kept)
    BY <1>6 DEF CollectBaseline, Answered, worker, policy
  <2>2. Prompts(scored)
    BY <2>1, BaselineFacts DEF Assembly
  <2> HIDE DEF scored
  <2>3. pc' \in {"reward", "failed"}
    BY <2>1 DEF Assemble
  <2>4. pc' = "reward" => Assembled(batch')
    BY <2>1, <2>2, AssembleFacts DEF Assembly, Training
  <2> QED BY <2>1, <2>3, <2>4 DEF Assembly, Training, Assembled
<1>7. CASE Reward
  <2>1. /\ pc = "reward" /\ pc' = "old_log_prob" /\ answer' = answer /\ actor' = actor
        /\ batch' = IF config.use_rm THEN With(batch, "rm_scores", Scores(batch)) ELSE batch
        /\ reward' = Scores(batch')
    BY <1>7 DEF Reward, Same, worker, policy
  <2>2. Assembled(batch)
    BY <2>1 DEF Assembly, Training
  <2>3. Fits(Scores(batch), batch)
    BY <2>2, ScoresFit
  <2>4. Assembled(batch')
    <3>1. "rm_scores" \notin Aside \cup ByPolicy /\ "rm_scores" # "responses"
      BY DEF Aside, ByPolicy
    <3> QED BY <2>1, <2>2, <2>3, <3>1, Added
  <2>5. Fits(reward', batch')
    BY <2>1, <2>4, ScoresFit
  <2> QED BY <2>1, <2>4, <2>5, Continues DEF Training
<1>8. CASE Bypass \/ OldLogProb
  <2>1. /\ pc = "old_log_prob" /\ answer' = answer /\ actor' = actor /\ reward' = reward
        /\ pc' \in {"ref", "failed"}
        /\ pc' = "ref" =>
             \E column : /\ batch' = With(batch, "old_log_probs", column)
                        /\ \/ "rollout_log_probs" \in DOMAIN batch /\ column = batch["rollout_log_probs"]
                           \/ column = Column(batch["responses"].of, actor, batch["responses"].rows)
    BY <1>0, <1>8 DEF Bypass, OldLogProb, Forward, Answer, Mode, Same, worker, policy
  <2>2. Assembled(batch) /\ Fits(reward, batch)
    BY <2>1 DEF Assembly, Training
  <2>3. ASSUME pc' = "ref"
        PROVE  Assembled(batch') /\ Fits(reward, batch') /\ "old_log_probs" \in DOMAIN batch'
    <3>1. PICK column : /\ batch' = With(batch, "old_log_probs", column)
                        /\ \/ "rollout_log_probs" \in DOMAIN batch /\ column = batch["rollout_log_probs"]
                           \/ column = Column(batch["responses"].of, actor, batch["responses"].rows)
      BY <2>1, <2>3
    <3>2. Fits(column, batch) /\ column.by = actor
      <4>1. CASE "rollout_log_probs" \in DOMAIN batch /\ column = batch["rollout_log_probs"]
        BY <2>2, <4>1 DEF Assembled, Fits, Aside, ByPolicy
      <4>2. CASE column = Column(batch["responses"].of, actor, batch["responses"].rows)
        BY <1>0, <2>2, <4>2, ColumnFits
      <4> QED BY <3>1, <4>1, <4>2
    <3>3. "old_log_probs" \notin Aside /\ "old_log_probs" # "responses"
      BY DEF Aside
    <3>4. /\ Assembled(batch') /\ batch'["responses"] = batch["responses"]
          /\ {"old_log_probs"} \cup DOMAIN batch \subseteq DOMAIN batch'
      BY <2>2, <3>1, <3>2, <3>3, Added
    <3> QED BY <2>2, <3>4 DEF Fits
  <2> QED BY <2>1, <2>3, Continues DEF Training
<1>9. CASE RefInActor \/ Ref \/ Values
  <2>1. /\ pc \in {"ref", "values"} /\ pc' \in {"values", "adv"}
        /\ answer' = answer /\ actor' = actor /\ reward' = reward
        /\ \/ batch' = batch
           \/ \E key \in {"ref_log_prob", "values"}, by \in [base : Int, adapter : Int] :
                batch' = With(batch, key, Column(batch["responses"].of, by, batch["responses"].rows))
    <3>1. [actor EXCEPT !.adapter = 0] \in [base : Int, adapter : Int]
          /\ Weights(0, 0) \in [base : Int, adapter : Int]
      BY <1>0 DEF Weights
    <3> QED BY <1>0, <1>9, <3>1 DEF RefInActor, Ref, Values, Forward, Answer, Mode, Same, worker, policy
  <2>2. Assembled(batch) /\ Fits(reward, batch) /\ "old_log_probs" \in DOMAIN batch
    BY <2>1 DEF Assembly, Training
  <2>3. ASSUME NEW key \in {"ref_log_prob", "values"}, NEW by \in [base : Int, adapter : Int],
               batch' = With(batch, key, Column(batch["responses"].of, by, batch["responses"].rows))
        PROVE  Assembled(batch') /\ Fits(reward, batch') /\ "old_log_probs" \in DOMAIN batch'
    <3>1. Fits(Column(batch["responses"].of, by, batch["responses"].rows), batch)
      BY <2>2, ColumnFits
    <3>2. key \notin Aside \cup ByPolicy /\ key # "responses"
      BY DEF Aside, ByPolicy
    <3> QED BY <2>2, <2>3, <3>1, <3>2, AddedLater
  <2> QED BY <2>1, <2>2, <2>3, Continues DEF Training
<1>10. CASE Advantage
  <2> DEFINE scored == With(batch, "token_level_scores", reward)
             rewarded == With(scored, "token_level_rewards", reward)
  <2>1. /\ pc = "adv" /\ pc' \in {"update_actor", "failed"}
        /\ answer' = answer /\ actor' = actor /\ reward' = reward
        /\ pc' = "update_actor" => batch' = With(rewarded, "advantages", reward)
    BY <1>10 DEF Advantage, Same, worker, policy
  <2>2. Assembled(batch) /\ Fits(reward, batch) /\ "old_log_probs" \in DOMAIN batch
    BY <2>1 DEF Assembly, Training
  <2>3. \A key \in {"token_level_scores", "token_level_rewards", "advantages"} :
          key \notin Aside \cup ByPolicy /\ key # "responses"
    BY DEF Aside, ByPolicy
  <2>4. /\ Assembled(scored) /\ Fits(reward, scored) /\ "old_log_probs" \in DOMAIN scored
    BY <2>2, <2>3, AddedLater
  <2> HIDE DEF scored
  <2>5. /\ Assembled(rewarded) /\ Fits(reward, rewarded) /\ "old_log_probs" \in DOMAIN rewarded
    BY <2>3, <2>4, AddedLater
  <2> HIDE DEF rewarded
  <2>6. ASSUME pc' = "update_actor"
        PROVE  Assembled(batch') /\ Fits(reward, batch') /\ "old_log_probs" \in DOMAIN batch'
    BY <2>1, <2>3, <2>5, <2>6, AddedLater
  <2> QED BY <2>1, <2>6, Continues DEF Training
<1>11. CASE Begin \/ Stopped \/ UNCHANGED vars
  <2>1. UNCHANGED <<pc, batch, answer, kept, reward, actor>>
    BY <1>11 DEF Begin, Stopped, vars, worker, policy, driver, LoadActor, Same
  <2> QED BY <2>1 DEF Assembly, Training, SampledOut, Returned, Prompts, Assembled, Fits
<1>12. CASE UpdateActor
  <2>1. pc = "update_actor" /\ pc' \in {"validate", "save", "next"} /\ answer' = answer
    BY <1>0, <1>12 DEF UpdateActor, Mode, Same
  <2> QED BY <2>1 DEF Assembly, Training
<1> QED BY <1>1, <1>2, <1>3, <1>4, <1>5, <1>6, <1>7, <1>8, <1>9, <1>10, <1>11, <1>12 DEF Next

(* update_actor trains on columns of the same rows and rollout, with       *)
(* log-probabilities of the weights it is about to update.                 *)
THEOREM UpdatesOnPolicy ==
  ASSUME Supported
  PROVE  Spec => []TrainsOnPolicy
<1>1. Init => Inv /\ Assembly
  BY InitInv, AssemblyInit
<1>2. Inv /\ Assembly /\ [Next]_vars => (Inv /\ Assembly)'
  BY NextInv, AssemblyNext
<1>3. Assembly => TrainsOnPolicy
  BY DEF Assembly, Assembled, Training, TrainsOnPolicy, Aside, ByPolicy
<1> QED BY <1>1, <1>2, <1>3, PTL DEF Spec
=============================================================================
