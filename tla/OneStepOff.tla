----------------------------- MODULE OneStepOff -----------------------------
(***************************************************************************)
(* OneStepOffRayTrainer: the rollout group generates the next batch while  *)
(* the actor group trains on the previous one.  The driver blocks on some  *)
(* calls to the rollout group and not on others; the group runs them in    *)
(* the order they were made.  Rewards may be computed by a task launched   *)
(* when a generation is asked for.  The job may crash and resume from its  *)
(* last checkpoint, which holds the step and the state of the dataloader.  *)
(***************************************************************************)
EXTENDS Integers, Sequences, FiniteSets, SequencesExt

CONSTANTS TotalSteps,          \* total_training_steps
          BatchesPerEpoch,     \* len(train_dataloader)
          TotalEpochs,         \* trainer.total_epochs
          Configs,             \* configurations under study
          MaxLaunches          \* bound: launches of the job

ASSUME OneStepAssumption ==
  /\ TotalSteps \in Nat \ {0} /\ BatchesPerEpoch \in Nat \ {0} /\ TotalEpochs \in Nat \ {0}
  /\ MaxLaunches \in Nat \ {0}
  /\ Configs \subseteq [balance_batch : BOOLEAN, launch_reward_fn_async : BOOLEAN]

VARIABLES
  config,
  job,               \* "down", "running", "finished" or "exhausted"
  launch,
  pc,                \* what the driver does next
  global_steps,
  actor,             \* updates behind the weights of the actor group
  rollout,           \* updates behind the weights of the rollout group
  calls,             \* calls the rollout group has not run yet, in order
  drawn,             \* batches drawn from the dataloader, since the first launch
  left,              \* batches left in the iterator of this launch
  next,              \* batch_data_future: batch, or NoBatch
  made,              \* made[b]: weights that generated batch b, or Pending
  rewarded,          \* batches whose reward task has answered
  batch,             \* the batch being trained on
  reward,            \* reward_tensor: batch and order of its rows
  trained,           \* batches trained on, in order, behind these weights
  resumes,           \* resumes behind these weights
  checkpoint         \* the last one

group   == <<rollout, calls, made, rewarded>>
loader  == <<drawn, left>>
lineage == <<trained, resumes>>
vars == <<config, job, launch, pc, global_steps, actor, group, loader, next, batch, reward,
          lineage, checkpoint>>

NoBatch == 0
Pending == -1
Batches == 1 .. BatchesPerEpoch * TotalEpochs * MaxLaunches
Rows == {"generated", "balanced"}
NoReward == [batch |-> NoBatch, rows |-> "generated"]

IsLastStep == global_steps >= TotalSteps

Init ==
  /\ config \in Configs
  /\ job = "down" /\ launch = 0 /\ pc = "init" /\ global_steps = 0 /\ actor = 0
  /\ rollout = 0 /\ calls = <<>> /\ made = [b \in Batches |-> Pending] /\ rewarded = {}
  /\ drawn = 0 /\ left = 0 /\ next = NoBatch /\ batch = NoBatch /\ reward = NoReward
  /\ trained = <<>> /\ resumes = 0
  /\ checkpoint = [step |-> 0, actor |-> 0, drawn |-> 0, rest |-> BatchesPerEpoch,
                   trained |-> <<>>, resumes |-> -1]

-----------------------------------------------------------------------------
(* init_workers synchronizes the initial weights; _load_checkpoint then    *)
(* restores the actor and the dataloader, whose first iterator ends with   *)
(* the epoch it was saved in, but epochs are counted from zero again.      *)
(* Validation before training is optional and comes before any further     *)
(* synchronization.                                                        *)
Launch ==
  /\ job = "down" /\ launch < MaxLaunches
  /\ job' = "running" /\ launch' = launch + 1
  /\ rollout' = 0 /\ calls' = <<>> /\ made' = [b \in Batches |-> Pending] /\ rewarded' = {}
  /\ actor' = checkpoint.actor /\ global_steps' = checkpoint.step + 1
  /\ drawn' = checkpoint.drawn
  /\ left' = BatchesPerEpoch * (TotalEpochs - 1) + checkpoint.rest
  /\ trained' = checkpoint.trained /\ resumes' = checkpoint.resumes + 1
  /\ next' = NoBatch /\ batch' = NoBatch /\ reward' = NoReward
  /\ pc' \in {"val_before_train", "prime"}
  /\ UNCHANGED <<config, checkpoint>>

Crash ==
  /\ job = "running" /\ launch < MaxLaunches
  /\ job' = "down"
  /\ UNCHANGED <<config, launch, pc, global_steps, actor, group, loader, next, batch, reward,
                 lineage, checkpoint>>

(* _async_gen_next_batch: a batch, the weights, then the generation.  An   *)
(* iterator that ends, or raises, gives no batch.                          *)
Asking == pc \in {"prime", "overlap"}
AfterAsking == IF pc = "prime" THEN "wait" ELSE "reward"

NoNextBatch ==
  /\ job = "running" /\ Asking /\ left = 0
  /\ next' = NoBatch /\ pc' = AfterAsking
  /\ UNCHANGED <<config, job, launch, global_steps, actor, group, loader, batch, reward,
                 lineage, checkpoint>>

AskSync ==   \* the driver waits for the call to end
  /\ job = "running" /\ Asking /\ left > 0
  /\ calls' = Append(calls, "sync")
  /\ drawn' = drawn + 1 /\ left' = left - 1
  /\ next' = drawn + 1
  /\ pc' = IF pc = "prime" THEN "prime_sync" ELSE "overlap_sync"
  /\ UNCHANGED <<config, job, launch, global_steps, actor, rollout, made, rewarded, batch, reward,
                 lineage, checkpoint>>

AskGenerate ==
  /\ job = "running" /\ pc \in {"prime_sync", "overlap_sync"} /\ ~Contains(calls, "sync")
  /\ calls' = Append(calls, "generate")
  /\ pc' = IF pc = "prime_sync" THEN "wait" ELSE "reward"
  /\ UNCHANGED <<config, job, launch, global_steps, actor, rollout, made, rewarded, loader, next,
                 batch, reward, lineage, checkpoint>>

-----------------------------------------------------------------------------
(* The rollout group and the reward tasks, beside the driver.              *)
Served(kind) == job = "running" /\ calls # <<>> /\ Head(calls) = kind /\ calls' = Tail(calls)

SyncBehind ==   \* mutant: the weights of the update before are sent
  /\ Served("sync")
  /\ rollout' = IF actor > 0 THEN actor - 1 ELSE 0
  /\ UNCHANGED <<config, job, launch, pc, global_steps, actor, made, rewarded, loader, next, batch,
                 reward, lineage, checkpoint>>

Sync ==
  /\ Served("sync")
  /\ rollout' = actor
  /\ UNCHANGED <<config, job, launch, pc, global_steps, actor, made, rewarded, loader, next, batch,
                 reward, lineage, checkpoint>>

Generate ==
  /\ Served("generate")
  /\ made' = [made EXCEPT ![next] = rollout]
  /\ UNCHANGED <<config, job, launch, pc, global_steps, actor, rollout, rewarded, loader, next,
                 batch, reward, lineage, checkpoint>>

Evaluate ==
  /\ Served("validate")
  /\ UNCHANGED <<config, job, launch, pc, global_steps, actor, rollout, made, rewarded, loader,
                 next, batch, reward, lineage, checkpoint>>

LaunchRewardOfNext(b) ==   \* mutant: the batch is read once the task runs
  /\ job = "running" /\ config.launch_reward_fn_async /\ made[b] # Pending
  /\ b = next /\ b \notin rewarded
  /\ rewarded' = rewarded \cup {b}
  /\ UNCHANGED <<config, job, launch, pc, global_steps, actor, rollout, calls, made, loader, next,
                 batch, reward, lineage, checkpoint>>

LaunchReward(b) ==   \* _launch_individual_rewards, on the rows as generated
  /\ job = "running" /\ config.launch_reward_fn_async /\ made[b] # Pending
  /\ b \notin rewarded
  /\ rewarded' = rewarded \cup {b}
  /\ UNCHANGED <<config, job, launch, pc, global_steps, actor, rollout, calls, made, loader, next,
                 batch, reward, lineage, checkpoint>>

-----------------------------------------------------------------------------
(* The loop of fit.                                                        *)
Wait ==
  /\ job = "running" /\ pc = "wait"
  /\ \/ /\ next # NoBatch /\ made[next] # Pending
        /\ batch' = next
        /\ pc' = IF IsLastStep THEN "reward" ELSE "overlap"
        /\ UNCHANGED job
     \/ /\ next = NoBatch
        /\ job' = "exhausted"
        /\ UNCHANGED <<batch, pc>>
  /\ UNCHANGED <<config, launch, global_steps, actor, group, loader, next, reward, lineage,
                 checkpoint>>

RowsTrained == IF config.balance_batch THEN "balanced" ELSE "generated"

Reward ==   \* after _balance_batch
  /\ job = "running" /\ pc = "reward"
  /\ \/ /\ config.launch_reward_fn_async /\ batch \in rewarded
        /\ reward' = [batch |-> batch, rows |-> "generated"]
     \/ /\ ~config.launch_reward_fn_async
        /\ reward' = [batch |-> batch, rows |-> RowsTrained]
  /\ pc' = "update"
  /\ UNCHANGED <<config, job, launch, global_steps, actor, group, loader, next, batch, lineage,
                 checkpoint>>

Update ==
  /\ job = "running" /\ pc = "update"
  /\ actor' = actor + 1 /\ trained' = Append(trained, batch)
  /\ pc' \in {"validate", "save", "next"}
  /\ UNCHANGED <<config, job, launch, global_steps, group, loader, next, batch, reward, resumes,
                 checkpoint>>

Validate ==   \* queued behind the generation under way
  /\ job = "running" /\ pc \in {"val_before_train", "validate"}
  /\ calls' = Append(calls, "validate")
  /\ pc' = IF pc = "validate" THEN "validating" ELSE "validating_before"
  /\ UNCHANGED <<config, job, launch, global_steps, actor, rollout, made, rewarded, loader, next,
                 batch, reward, lineage, checkpoint>>

Validated ==   \* with trainer.val_only, fit returns after the first one
  /\ job = "running" /\ ~Contains(calls, "validate")
  /\ \/ pc = "validating" /\ pc' \in {"save", "next"} /\ UNCHANGED job
     \/ pc = "validating_before" /\ pc' = "prime" /\ job' \in {job, "finished"}
  /\ UNCHANGED <<config, launch, global_steps, actor, group, loader, next, batch, reward,
                 lineage, checkpoint>>

(* An iterator saved at the end of its epoch has nothing left; one that    *)
(* has ended starts over.                                                  *)
RestOfEpoch == IF next = NoBatch THEN BatchesPerEpoch ELSE left % BatchesPerEpoch

SaveAhead ==   \* mutant: the dataloader is saved one batch further
  /\ job = "running" /\ pc = "save"
  /\ checkpoint' = [step |-> global_steps, actor |-> actor, drawn |-> drawn + 1,
                    rest |-> RestOfEpoch, trained |-> trained, resumes |-> resumes]
  /\ pc' = "next"
  /\ UNCHANGED <<config, job, launch, global_steps, actor, group, loader, next, batch, reward, lineage>>

Save ==
  /\ job = "running" /\ pc = "save"
  /\ checkpoint' = [step |-> global_steps, actor |-> actor, drawn |-> drawn,
                    rest |-> RestOfEpoch, trained |-> trained, resumes |-> resumes]
  /\ pc' = "next"
  /\ UNCHANGED <<config, job, launch, global_steps, actor, group, loader, next, batch, reward, lineage>>

NextStep ==
  /\ job = "running" /\ pc = "next"
  /\ job' = IF IsLastStep THEN "finished" ELSE job
  /\ global_steps' = global_steps + 1
  /\ pc' = "wait"
  /\ UNCHANGED <<config, launch, actor, group, loader, next, batch, reward, lineage, checkpoint>>

Driver == \/ NoNextBatch \/ AskSync \/ AskGenerate \/ Wait \/ Reward \/ Update
          \/ Validate \/ Validated \/ Save \/ NextStep
RolloutGroup == Sync \/ Generate \/ Evaluate
RewardTasks == \E b \in Batches : LaunchReward(b)

Next == Launch \/ Crash \/ Driver \/ RolloutGroup \/ RewardTasks

(* The driver, the rollout group and the reward tasks run on; a job that   *)
(* went down is launched again.                                            *)
Spec == /\ Init /\ [][Next]_vars
        /\ WF_vars(Launch) /\ WF_vars(Driver) /\ WF_vars(RolloutGroup) /\ WF_vars(RewardTasks)

-----------------------------------------------------------------------------
(* The driver's place, the queue of calls and the futures have the shape   *)
(* fit gives them, and a checkpoint that of _save_checkpoint.              *)
TypeOK ==
  /\ config \in Configs
  /\ job \in {"down", "running", "finished", "exhausted"} /\ launch \in 0 .. MaxLaunches
  /\ pc \in {"init", "val_before_train", "validating_before", "prime", "prime_sync", "wait",
             "overlap", "overlap_sync", "reward", "update", "validate", "validating", "save", "next"}
  /\ global_steps \in Nat /\ actor \in Nat /\ rollout \in Nat
  /\ calls \in Seq({"sync", "generate", "validate"}) /\ drawn \in Nat /\ left \in Nat
  /\ next \in Batches \cup {NoBatch} /\ batch \in Batches \cup {NoBatch}
  /\ made \in [Batches -> Nat \cup {Pending}] /\ rewarded \subseteq Batches
  /\ reward \in [batch : Batches \cup {NoBatch}, rows : Rows]
  /\ trained \in Seq(Batches) /\ resumes \in Nat
  /\ checkpoint \in [step : Nat, actor : Nat, drawn : Nat, rest : 0 .. BatchesPerEpoch,
                     trained : Seq(Batches), resumes : Nat \cup {-1}]

(* README: generation and training keep a one-step-off policy.  A batch is *)
(* trained on by the weights that generated it or by the next ones.  A     *)
(* validation during training measures the actor one update late, two when *)
(* no batch follows, for which weights would have been sent; the one       *)
(* before training measures the initial weights, whatever checkpoint was   *)
(* loaded.  Weights are never sent while the rollout group generates.      *)
OneStepLag == job = "running" =>
  /\ Contains(calls, "sync") => calls = <<"sync">>
  /\ pc = "update" => actor - made[batch] \in {0, 1}
  /\ pc = "validating_before" => rollout = 0
  /\ pc = "validating" =>
       actor - rollout \in (IF IsLastStep \/ next = NoBatch THEN {1, 2} ELSE {1})

(* Batches are trained on in order and at most once behind any weights;    *)
(* every resume skips the one batch that was generated ahead, and a job    *)
(* that runs out of data has trained on all the others.                    *)
SkipsOnlyOnResume ==
  /\ \A i \in 1 .. Len(trained) - 1 : trained[i] < trained[i + 1]
  /\ trained # <<>> => Last(trained) - Len(trained) <= resumes
  /\ job = "exhausted" => drawn - Len(trained) <= resumes

(* The driver never waits forever for the rollout group or for a reward.   *)
JobEnds == <>(job \in {"finished", "exhausted"})
=============================================================================
