----------------------------- MODULE AsyncState -----------------------------
(***************************************************************************)
(* State shared by the parts of the fully asynchronous policy              *)
(* (recipe/fully_async_policy): the rollouter and its coroutines, the      *)
(* inference servers, the message queue, the trainer and the parameter     *)
(* synchronizer.  Each part has a module of its own that EXTENDS this one. *)
(*                                                                         *)
(* The rollouter is one asyncio event loop.  A coroutine runs until it     *)
(* really suspends: on a contended lock, a condition, an empty queue, a    *)
(* task or a remote call.  _should_pause_generation calls the message      *)
(* queue with a blocking ray.get, so it does not suspend.                  *)
(***************************************************************************)
EXTENDS Integers, Sequences, FiniteSets, SequencesExt

CONSTANTS
  TotalSamples,   \* total_rollout_steps: samples fed to the rollouter
  Required,       \* required_samples: samples of one training step
  Trigger,        \* trigger_parameter_sync_step
  MaxRequired,    \* max_required_samples, also the size of the queue
  MaxConcurrent,  \* max_concurrent_samples
  PendingSize,    \* maxsize of pending_queue
  Partial,        \* async_training.partial_rollout
  TestFreq,       \* rollout.test_freq
  ValBeforeTrain, \* trainer.val_before_train
  MaxFailures     \* bound: how many rollouts may end with an exception

(* set_max_required_samples computes int(Required * (1 + threshold) *      *)
(* Trigger) with threshold >= 0, and max_concurrent_samples is at most it. *)
ASSUME ConfigAssumption ==
  /\ {TotalSamples, Required, Trigger, MaxConcurrent, PendingSize}
       \subseteq Nat \ {0}
  /\ MaxRequired \in Nat /\ MaxRequired >= Required * Trigger
  /\ MaxConcurrent <= MaxRequired
  /\ {TestFreq, MaxFailures} \subseteq Nat
  /\ {Partial, ValBeforeTrain} \subseteq BOOLEAN

Samples == 1 .. TotalSamples
Done == 0              \* the "DONE" marker of pending_queue
Sentinel == 0          \* the None that ends the message queue
Nobody == 0            \* no sample
NoVersion == -1        \* not submitted yet

VARIABLES
  \* ---- rollouter: flags and counters
  paused, running, trigger, staleness, rollVersion,
  \* ---- rollouter: queues and tasks
  fed,          \* samples the feeder has put, TotalSamples + 1 after "DONE"
  pending,      \* pending_queue
  cancelQ,      \* cancel_queue
  resultQ,      \* result_queue
  active,       \* active_tasks
  task,         \* how far the task of each sample is
  \* ---- rollouter: coroutines
  lockQ,        \* self.lock: its holder, then the waiters in order
  proc,         \* where _processor_worker is
  hot,          \* the processor runs: the event loop is not free
  woken,        \* the processor was notified on self.condition
  hand,         \* rollout_sample of the processor
  doneBound,    \* done_tasks of the processor has been assigned
  consumer,     \* the sample _consumer_worker is putting, or Nobody
  mainPc,       \* where _streaming_generation_main is
  monitor,      \* where _async_monitor_loop is
  \* ---- rollouter: remote calls in progress
  pausePc, updatePc, updateAcc, resumePc,
  \* ---- inference servers
  serverPaused, \* paused of the partial servers
  weights,      \* the version of the weights they hold
  loading,      \* weights are being received
  \* ---- message queue
  mq, valQ, mqDropped,
  \* ---- trainer and synchronizer
  trainer,      \* where fit is
  batch,        \* queue_samples
  localStep,    \* local_trigger_step
  version,      \* current_param_version of the trainer
  syncPc,       \* where sync_weights is
  final,        \* the sync in progress is the last one (validate=True)
  valData,      \* val_data
  \* ---- what happened, for the properties
  consumed,     \* samples handed to the trainer
  tag,          \* param_version each sample was submitted with
  failures,     \* samples whose rollout raised an exception
  logged        \* versions whose validation metrics were logged, in order

flagVars == <<paused, running, trigger, staleness, rollVersion>>
flowVars == <<fed, pending, cancelQ, resultQ, active, task>>
procVars == <<proc, hot, woken, hand, doneBound>>
corVars  == <<consumer, mainPc, monitor>>
callVars == <<pausePc, updatePc, updateAcc, resumePc>>
servVars == <<serverPaused, weights, loading>>
mqVars   == <<mq, valQ, mqDropped>>
trainVars == <<trainer, batch, localStep, version, final, valData>>
pastVars == <<consumed, tag, failures, logged>>

vars == <<flagVars, flowVars, lockQ, procVars, corVars, callVars, servVars,
          mqVars, trainVars, syncPc, pastVars>>

-----------------------------------------------------------------------------
(* self.lock is an asyncio.Lock: it is handed over in the order of the     *)
(* requests, and nobody overtakes a waiter.                                *)
Holds(c) == lockQ # <<>> /\ Head(lockQ) = c
CanEnter(c) == lockQ = <<>> \/ Holds(c)

Keep(c)  == lockQ' = IF lockQ = <<>> THEN <<c>> ELSE lockQ
Leave    == lockQ' = IF lockQ = <<>> THEN <<>> ELSE Tail(lockQ)
Enqueue(c) ==
  /\ lockQ # <<>> /\ ~Contains(lockQ, c)
  /\ lockQ' = Append(lockQ, c)

(* condition.notify_all(): the processor is the only one that waits.       *)
NotifyNobody == woken' = woken                                  \* mutant
NotifyAll == woken' = (woken \/ proc \in {"idleWait", "submitWait"})

(* _should_pause_generation.                                               *)
ShouldPauseIfFull == Len(mq) >= MaxRequired         \* mutant: one test only
ShouldPause == Len(mq) >= MaxRequired \/ staleness >= MaxRequired
=============================================================================
