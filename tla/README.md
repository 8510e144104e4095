# A verification project for SED-SFT / verl

TLA+ models of the stateful core of this repository and of its exact
algorithms, the TLC configurations that check them on small instances, and
proofs of their main properties that TLAPS checks for every value of the
constants.

## The system

The repository holds two programs.

* **SED fine-tuning** (`src/train.py`, `src/sft_trainer_v2.py`,
  `src/preprocess_data.py`, `src/utils/`): sequential tensor code around a
  library's trainer, and GPU kernels for its losses.
* **verl** (`src/verl/`): a reinforcement-learning framework of Ray actors: a
  driver process (`RayPPOTrainer` and its variants) calls worker groups, which
  hold the models; inference servers generate; agent loops call tools. Three
  trainers differ in how generation and training overlap: *hybrid* (the same
  processes alternate), *one-step-off* (two groups, one batch ahead) and *fully
  asynchronous* (a stream of samples through a queue).

### Inventory

| component | state | operations | interacts by | what must hold |
|---|---|---|---|---|
| `MessageQueue` (`message_queue.py`) | bounded deque, validation queue, `running`, counters; a lock and a condition | put, get (waits), clear, shutdown, validation put and get | remote calls, up to 20 at once on one event loop | newest samples, in order; counters add up; no consumer sleeps for nothing or for ever |
| `FullyAsyncRollouter` (`fully_async_rollouter.py`) | `paused`, `running`, `monitor_loop_trigger`; `staleness_samples`; three asyncio queues, `active_tasks`; a lock and a condition | feeder, processor, one task per sample, consumer, main coroutine, monitor loop; remote `pause`, `update_param_version`, `resume` | shared state on one event loop; awaited and *blocking* remote calls | no sample lost or doubled; a pause is quiet; nobody sleeps for ever; limited staleness |
| `FullyAsyncTrainer`, `ParameterSynchronizer` | `local_trigger_step`, `current_param_version`, batch; references to the last update | collect, train, synchronize, read validation records | blocking remote calls, two calls nobody waits for | samples not too old; validations reported; pause, broadcast, update, resume in this order |
| partial inference servers (`vllm_rollout/`, `agent_loop/`) | `paused`, requests with a cancel event, tokens so far | generate, cancel, resume; gluing of pieces | remote calls | tokens, log-probabilities and versions aligned; a cancel ends |
| PPO trainer (`verl/trainer/ppo/ray_trainer.py`) | the batch, `global_steps` | fit, validate, resume | calls to worker groups | a batch is made of columns that belong together |
| hybrid engine (`verl/workers/fsdp_workers.py`) | actor weights, engine weights, memory, prefix cache, random states | rollout_mode, trainer_mode, generate, update | methods on every rank | rollouts use the current weights; ranks of a group sample alike |
| checkpoints (`verl/utils/checkpoint/`, both drivers) | step folders, tracker file, rotation list | save, rotate, load | files, barriers | after a crash the tracker names a complete checkpoint |
| agent loops and the search tool (`verl/experimental/agent_loop/`, `verl/tools/search_tool.py`) | conversation states, masks, server loads, token bucket | choose a server, generate, call tools | remote calls, threads of actors | output aligned; load balanced; rate limit kept; every conversation ends |
| one-step-off trainer (`recipe/one_step_off_policy`) | future of the next batch, weights of two groups | generate ahead, synchronize, reward aside, save | futures; calls queued at the rollout group | at most one step off policy; batches in order |
| single controller, `DataProto`, dynamic batching | - | pad, split, dispatch, collect, balance | calls | every row gets its own answer |
| SED fine-tuning | - | label masking, threshold, token selection | - | masks and thresholds mean what is documented |
| PPO algorithms (`core_algos.py`) | - | advantages, loss aggregation | - | credit goes to the right tokens; micro-batching is neutral |
| other engines, reward scoring, kernels, other recipes, docs | tensors, strings | - | - | outside the reach of TLC |

`PROJECT.json` lists every component with what is modelled of it, and every
hazard, at its line.

Hard behaviours: a coroutine of the rollouter reads a flag, suspends and acts
on the old value; `asyncio.wait` replaces the set that `pause()` clears; updates
and resumptions that are requested but not awaited; a cancel that races the end
of a generation; a save of several ranks and several files that may crash
between any two of them; calls to a worker group that the driver awaits or does
not; one process that switches between two modes and keeps part of the state of
each; tool answers in any order behind a shared rate limiter.

## Modules

    DropOldestFifo   what the message queue promises
    MessageQueue     the actor, its condition variable, its clients
      MCMessageQueue, MessageQueue_proofs
    AsyncState       constants, variables, lock and condition of the pipeline
      Rollouter      FullyAsyncRollouter and its view of the servers
      Trainer        FullyAsyncTrainer and ParameterSynchronizer
        FullyAsync   Rollouter + Trainer: Init, Next, fairness, properties
          MCFullyAsync, FullyAsync_proofs
    SampleFlow       what the pipeline promises about its samples
    PartialRollout   servers, requests and tokens of interrupted generation
      PartialRollout_proofs
    HybridEngine     the methods of the hybrid engine
      PPOTrainer     the driver that calls them: fit
        MCPPOTrainer, PPOTrainer_proofs
    AtomicSnapshot   what checkpoints promise to a job
    Checkpoint       saves, rotation, crash and relaunch of both drivers
      Checkpoint_proofs
    AgentLoop        tool conversations, server choice, rate limiter
      MCAgentLoop, AgentLoop_proofs
    OneStepOff       the one-step-off trainer, with crash and relaunch
      MCOneStepOff, OneStepOff_proofs
    Sorting          sorted and list.sort, which are stable
    SedSft           label masks and threshold of SED fine-tuning
    SeqlenBalancing  Karmarkar-Karp partitions
      Dispatch       padding, meshes, micro-batches and their inverses
      PolicyGradient advantages and loss aggregation
        MCOperators  the algorithms against reference definitions
          Operators_proofs

**MessageQueue.**  All methods run under one asyncio lock and, except
`get_sample`, never suspend while they hold it, so each is one action;
`get_sample` is the call and, after `notify_all`, the retry (`GetSampleWoken`).
A client sends a call (`Call`) and waits for its reply; calls that were sent
are executed in any order.  A sample is its production number, so that order
and loss can be seen.

**Rollouter.**  One action per stretch of code between two real suspensions.

* `proc` says where `_processor_worker` is.  While `hot` is true it occupies the
  event loop, and every other coroutine's action is guarded by `~hot`.  This is
  how code such as "test `paused`, take a sample, check the limit" stays atomic
  exactly as far as it is in Python: `await` of an uncontended lock, a
  non-empty queue or a finished task does not suspend, and neither does
  `_should_pause_generation`, which blocks in `ray.get`.
* `lockQ` is `self.lock`: its first element is the holder, the others wait in
  order (asyncio locks are fair).  `woken` is the notification of the one
  coroutine that waits on `self.condition`.
* Ready coroutines are run in any order.  asyncio's order is one of these, so
  safety carries over.
* Three loops of the processor wait for tasks with the lock held (`drain`,
  `finish`, `limit`); they are one family of actions `LoopExit`, `LoopLocked`,
  `LoopReap`.
* `pause`, `update_param_version` and `resume` have a program counter each
  (`pausePc`, `updatePc`, `resumePc`) with a step per suspension.
  `resume`'s argument is the reference of the update; Ray resolves it, so it
  starts when the update is over.
* A task is `created`, `sent` (it has read its version), `gen` (a server works
  on it), `cut` (the answer says `is_cancel`), `done` or `failed`.  A server
  refuses while paused and interrupts what it finds; a generation that ends at
  the same time still counts as complete.

**Trainer.**  `fit` and `sync_weights` are sequential and block in each remote
call, so they have one location each (`trainer`, `syncPc`).  The training step
is one action: it has no effect on the pipeline.  The interval in which
`loading` is true is the broadcast of the weights.  The history variables
`consumed`, `tag`, `failures`, `logged` and `mqDropped` record what happened for
the properties; no guard reads them but the bound `MaxFailures`.

In the pipeline a sample's n responses are one, all servers share one `paused`
flag and the message queue is used atomically; `PartialRollout` and
`MessageQueue` open up these three.  The model begins after the initial
synchronization.  `ConfigAssumption` states what the configuration asserts.

**PartialRollout.**  A request is one response of a sample.  A server registers
it or, when paused, answers at once with nothing (`at` goes from `sent` to
`generating` or `returned`); a generation adds one token per step; the answer is
complete if the generation is over, whether or not `cancel_event` is set, and
otherwise cut if it is.  A token remembers its place and the version of the
weights that made it, so the gluing in `PartialSingleTurnAgentLoop` can be
checked: `response_ids`, `log_probs`, the mask, `param_version_start` and `_end`.
The task of a sample waits for all of its responses and goes back to the queue
if one was cut.  `sync` runs the cancellation server by server, the wait for the
tasks, the loading and the resumption.  A task starts when the rollouter is not
`paused`; the monitor loop, which decides, waits for the lock and acts
(`Monitor...`), may clear that flag during a synchronization, so a task can start
while weights are loaded.

**HybridEngine and PPOTrainer.**  Weights are a pair (base, LoRA adapter) of
version numbers; the engine has weights, the parts that hold memory, and the
prefix cache, of which the weights that filled it are remembered.  A random state
is a stream and a number of draws.  `rollout_mode`, `trainer_mode` and the others
are operators; `fit` calls them in its order with a configuration from a set.
The batch maps keys to columns, and a column remembers its rows, the rollout it
was computed for and the weights that computed it.  `union` fails when columns
of one name differ, as in `DataProto`.

**Checkpoint.**  Both users of `FSDPCheckpointManager` in one model, by `driver`.
Every rank goes through a save on its own between barriers (`pc[r]`): rotation,
folder, shard (torn, then written), data file (torn, then written), tracker
(truncated, then written for PPO; renamed into place for SFT).  Rank 0 of SFT
moves the tracker without waiting for the data files of the others.  A crash keeps
files only; `Launch` is `_load_checkpoint` with `resume_mode = "auto"`.  A version
is the step and the launch that made it.

**AgentLoop.**  `state` is the state machine's; a generation takes two actions
(sent to a server, answered), and each tool call of a turn goes through its own
phases, its search waiting in the one-thread acquire group for a token.  A token
of a response is its origin, `llm` or `obs`.  A search may answer, fail or raise;
an interaction may go on or end.

**OneStepOff.**  `calls` is the queue of the rollout group: the driver appends
`sync`, `generate`, `validate` and waits for some.  `made[b]` is the number of
updates behind the weights that generated batch `b`.  A launch sends the initial
weights, loads the checkpoint into the actor group only and may then validate.
A checkpoint holds the position of the dataloader, which is one batch ahead of
training.  An exception in the middle of an epoch, which `next()` swallows like
the end of the data, is not an action.

**SedSft, SeqlenBalancing, Dispatch, PolicyGradient** are operators; a token of
the chat template is its turn and part, a fraction a pair of integers, a row its
number and length.  They sort with `Sorting`, a stable sort by ranks; what the
code computes in a loop is a recursive function.  The mini-batch size is a
parameter of the weights of tokens, not the length of the mini-batch: the last
one may be shorter.  `MCOperators` asks each of them a bounded set of questions
and compares the answers with definitions taken from the docstrings.

## Runs

| run | instance | shows | states |
|---|---|---|---|
| `mq` | 3 clients, queue of 2, 3 puts, a validation record, every method | `SamplesConserved`, `MostRecentInOrder`, `NoLostWakeup`, `NoneOnlyWhenClosed`; the actor implements `DropOldestFifo`, fairness included | 182 184 |
| `async_stale` | 4 samples, `staleness_threshold` 1, two tasks, a feeder that blocks, validation after each synchronization, one rollout may fail | `PauseQuiesces`, `NoLostWakeup`, `StalenessCounts`, `StreamComplete`, `ValidationInOrder` | 2 536 972 |
| `async_sync` | 6 samples, threshold 0, two steps to a synchronization, one rollout may fail | `OnPolicy`, `Terminates` under fairness; the pipeline implements `SampleFlow` | 34 873 |
| `async_partial` | 3 samples, partial rollout, one rollout may fail | `SampleInOnePlace`, `SilentWhileLoading`, `StreamComplete` | 985 554 |
| `checkpoint` | both drivers, 2 ranks, 3 steps, `save_freq` 2, keep all or 2, 3 launches | `TrackedComplete`, `RotationBounds`, `StuckOnlyWhenTorn`; saves and relaunches implement `AtomicSnapshot` | 114 602 |
| `partial_rollout` | a sample of 2 responses, 2 servers, `response_length` 2 of at most 3 tokens, 2 synchronizations, a monitor that may undo a pause | `TokensAligned`, `VersionSpan`, `EndsOnce`, and `SyncEnds` under fairness | 954 871 |
| `agent_loop` | 2 conversations, 2 servers, 2 parallel calls, one search at a time, with and without interactions and turn limits | `OutputAligned`, `Balanced`, `RateLimited`, and `AllTerminate` under fairness | 135 932 |
| `ppo_trainer` | 2 ranks, 2 steps, from scratch or resumed; every engine with the default batch and every batch with the default engines | `RolloutIsCurrent`, `SampleAlike`, `TrainsOnPolicy` | 408 198 |
| `one_step_off` | 5 steps, 2 epochs of 2 batches, 3 launches, with and without validation before training | `OneStepLag`, `SkipsOnlyOnResume`, and `JobEnds` under fairness | 8 628 |
| `operators` | every question of `MCOperators` | `LabelsOfAssistant`, `ThresholdPercentile`, `AnswerInOrder`, `PartitionsBalanced`, `CreditAssigned`, `MicroBatchesNeutral` | 73 418 |
| `monitor_unpauses` | as `async_stale`, one task | `NoNewTasksWhileSyncing` is **violated** | - |
| `staleness_overrun` | as `async_stale`, a feeder one sample ahead, no validation | `StalenessThreshold` is **violated** | - |

Deadlock is checked for `ppo_trainer`, whose driver stops only in an explicit
end.  Elsewhere the system may stop: the pipeline, a conversation and a job end,
clients of the queue may stop calling, launches are bounded, and a question has
one answer.  Where it must not stop early, a liveness property says so.

### What the runs show

* *Samples.*  `SampleInOnePlace`: what the rollouter took is in one of nine
  places, none twice; it holds with pauses, interruptions and stale samples.
  `StreamComplete` says what has become of all samples when the trainer reads the
  final None.  Without partial rollout none is left in any queue or task, whatever
  pauses and failures came between; with it all that is left is in `cancel_queue`
  (disagreement 4).  After the exception of a failed rollout has ended the
  processor nothing is promised.
* *Staleness.*  `StalenessCounts`: the count on which the rollouter pauses itself
  is at most two short of the samples in flight; the sample the processor holds
  and the one the consumer is putting may both be missing after an update, and
  the run reaches two.  The documentation's bound on what one version generates
  (`StalenessThreshold`) is therefore overrun by one sample for thresholds above
  0 (run `staleness_overrun`), and kept with threshold 0, where the lag is 0 too
  and nothing is dropped (`OnPolicy`).  `ImplementsFlow`: at most
  `max_required_samples + 2` samples are in flight.
* *Pauses.*  `PauseQuiesces` holds at the end of `pause()` although a processor
  may have been about to submit; the broadcast that follows is quiet only with
  threshold 0 or, with partial rollout, on the servers (`SilentWhileLoading`).
* *Interrupted generation.*  However often a response is cut, its pieces are
  glued in order.  Its tokens are in the order of their versions and none is more
  than one version ahead of the claimed end; that one comes from tasks that start
  while weights are loaded (disagreement 5).  `log_probs` is the one list
  that is not cut to `response_length`, so `TokensAligned` asks for a prefix.
* *Checkpoints.*  The shards the tracker names, and the dataloader of rank 0, are
  whole at every moment, and the data files of all other ranks are from the last
  barrier of the save on (`TrackedComplete`).  A crash before that barrier may cut
  or lose the latter: a relaunch is stuck only for a cut one or for a PPO tracker
  that was truncated (`StuckOnlyWhenTorn`), and goes on with iterators that differ
  if one is missing (disagreement 13).  `max_ckpt_to_keep = 1` is left
  out: there a save first removes the tracked checkpoint, and a crash before the
  end of the save leaves nothing to resume from.
* *Hybrid engine.*  In the supported configurations (below) every rollout,
  baseline and validation comes from the actor's weights, also after sleep level
  2 and after a resume; and the columns `update_actor` receives belong together.
* *One step off.*  A batch is trained on by the weights that generated it or the
  next ones; validations during training lag by one update, or two when no batch
  follows; the one before training measures the initial weights, on a resume too
  (disagreement 12); each resume loses the one batch that was generated ahead.
* *SED threshold.*  With `--top_k` the share of the validation set that
  `cumsum_ratio` asks for goes without the extra term, ties aside; a share of less
  than one position acts as the share of all (disagreement 10).
* *Micro-batches.*  A token weighs what it would weigh in one micro-batch, scaled
  by the share of a full mini-batch that there is.  Two cases are left out, because
  they are false: token-mean (disagreement 2) and a last mini-batch that is no
  multiple of `micro_batch_size` (disagreement 3).
* *Agent loops.*  The limiter returns every token whatever a search does, lists
  stay aligned, and a response without interactions ends with a generated token.
  A conversation fails only when an interaction outgrows the model's length.

### Disagreements of code and documentation

Two have a run that exhibits them; the others are in `PROJECT.json` under
`findings` with the lines and the words they disagree with.

1. **The monitor undoes a pause** (run `monitor_unpauses`).
   `_async_monitor_loop` decides, waits for the lock and then clears `paused`
   without looking again (`fully_async_rollouter.py:566-570`), although `pause()`
   set it meanwhile.
2. **token-mean depends on the micro-batches** (`core_algos.py:772`).  The mean is
   taken within a micro-batch and scaled by its share of responses.  The run
   `operators` leaves this mode out.
3. **A short last mini-batch weighs its rows unevenly.**  The number of
   accumulation steps is computed from `ppo_mini_batch_size`
   (`dp_actor.py:400`): of 3 rows with mini-batch size 4 and micro-batch size 2
   the last weighs twice as much.
4. **Interrupted samples can be left behind.**  A pause after the processor took
   DONE puts them into `cancel_queue`, which nobody reads any more
   (`fully_async_rollouter.py:380-391`); the documentation says they continue.
5. **`param_version_end` may be a version too low** (`partial_single_turn_agent_loop.py:47`):
   a task that 1 lets start while weights are loaded notes the old version and is
   generated by the new one.
6. **A sample too many per version** (run `staleness_overrun`).
   `update_param_version` leaves out the sample the processor holds through the
   pause (`fully_async_rollouter.py:200`), so one more than `rollout_num` is
   generated before the next update.
7. An interrupted sample is counted twice after 1 (`fully_async_rollouter.py:200`),
   and with a small limit the rollouter stays paused.
8. A dead processor is not noticed while the feeder is blocked (476);
   `done_tasks` may be unbound (351) when `pause()` emptied `active_tasks` first.
9. The final validation is not read when an older record is unread
   (`fully_async_trainer.py:296`).
10. The SED threshold is not the percentile asked for in two cases: with `--top_k`
    absent it is one of other sums than those compared with it (`train.py:310`), and
    for a share of less than one position the smallest sum is taken where one above
    the largest is meant (`train.py:233`).
11. One-step-off rewards launched aside are not reordered by `_balance_batch`
    (`ray_trainer.py:494` of the recipe).  In the other combinations nothing moves
    rewards, so no property is about them.
12. The one-step-off validation before training generates with the initial weights
    when a checkpoint was loaded (427).
13. SFT data files of the ranks may differ after a crash
    (`checkpoint_handler.py:85`).
14. The PPO tracker is truncated in place, its comment says atomic.
15. `max_token_len` balances micro-batches but does not bound them.

Seen while modelling, and outside the configurations the runs use: the
asynchronous mode with `free_cache_engine = False` never pushes weights, and the
synchronous mode with it never resets the prefix cache; the first
`trainer_mode` overwrites `gen_random_states`; LoRA with dummy loading rolls out
once without the adapter; a finished PPO job that is launched again trains one
more step; REINFORCE++ resets at observations, so a reward never reaches the
turns before the last tool call; an exception inside the one-step-off
trainer's `next()` ends training silently.

### Bounds

* `mq`: the queue is full with 2 samples and a third drops one; with 3 clients
  two consumers wait while one produces or shuts down.  Clients are symmetric.
* Pipeline: two tasks run at a time and a third sample waits; in `async_sync` two
  samples more than may be in flight; `PendingSize` is
  smaller than the stream where the feeder must block and larger where it must
  not; each run sees at least two synchronizations and the last one; a later
  pause meets leftovers of the first one with 3 samples.  `MaxFailures` is 1 in
  the passing runs: the first failure ends the processor.
* `checkpoint`: two ranks are enough for one to be behind; with `save_freq` 2,
  ESI saves and 3 launches a launch makes a third save with two kept, so
  rotation happens within it, and the folders of a crashed launch are met again.
* `partial_rollout`: a response is cut twice, at its limit or before it; the two
  responses of a sample may be at different servers and ends.
* `agent_loop`: `MaxPiece` 2 and `ResponseLength` 3 make observations fall on,
  before and after the limit; two calls compete for one token in one
  conversation and across two; a cache of 1 evicts.
* `ppo_trainer`: two steps suffice for what the engine keeps from the step
  before to matter; `Resumed` stands for any version other than the initial one.
* `one_step_off`: 5 steps exceed the 4 batches of a launch, so a launch may run
  out of data; 3 launches see a resume of a resumed job.
* `operators`: up to 4 messages, 4 positions, 6 rows on meshes of up to 8
  workers, partitions of up to 6 items, responses of up to 4 tokens; mini-batches
  of 3 or 4 rows, the last one shorter, with micro-batches that divide it or not.

### Fairness

* Pipeline (`Spec`): the event loop runs each coroutine that stays ready, a
  remote call is answered, a generation and a training step end: weak fairness
  on each coroutine.
* `MessageQueue`: only the actor is fair; no client is obliged to call.
* `PartialRollout`: a synchronization that began, the requests and the tasks go
  on; nothing obliges the trainer to synchronize.
* `AgentLoop`: each conversation, each tool call and the release go on.  The
  acquire group is served in order, as a one-thread actor is, so weak fairness is
  enough.
* `OneStepOff`, `Checkpoint`: the driver, the group and the reward tasks run on,
  and a job that went down is launched again; no crash is obliged to happen, and
  the number of launches is bounded.

`PPOTrainer`, `MCOperators` and `SampleFlow` state safety only.

## Proofs

Each theorem holds for all values of the constants that satisfy the named
assumption of the module.  The shape is the same everywhere: an inductive
invariant that TLC agreed to, one lemma per action or family of actions, and a
theorem that combines them by PTL.  Every module but the last, which is about
operators, proves `TypeCorrect`.

`MessageQueue_proofs`
* `Conservation`: inductive as it stands; `KeptProperties` says what
  `put_sample` keeps of a full queue.
* `Order`: the queue is a gap-free run that ends with the newest number; `Tail`
  and `Append` keep such a run (`TailRecent`, `AppendRecent`).
* `Wakeup`: inductive with the type invariant: a put or a shutdown wakes *all*
  waiters, which is where `notify_all` is needed.
* `NoneMeansClosed`: an action property; it needs `Order`, because a sample's
  number is never 0, the value that stands for None.
* `FifoRefinement`: each action of the actor is one of `DropOldestFifo` or
  stutters.

`FullyAsync_proofs`
* `TypeCorrect` with `TypeInv`: that the processor holds a sample where it
  submits one (`HandHeld`), and that tasks are finitely many (`ActiveCount`).
* `Wakeup`: every step that clears `paused` notifies.
* `TasksTracked` with `TaskInv`: only `LoopReap` and `PauseGathers` take tasks
  out of `active_tasks`, and both only take ended ones.
* `Exclusion` with `LockInv`: whoever is inside a block that suspends is the
  head of `lockQ`; only the head leaves (`EnterStep`, `WaitStep`, `LeaveStep`).
* `PauseIsQuiet` with `QuietInv`, which joins the two: submission needs the lock,
  and between the gathering and the end of `pause()` the lock is taken.
* `SilentLoading` (partial rollout) with `SilentInv`: it adds the order of the
  synchronization (`SyncOrder`) and that the servers are paused from the
  cancellation to the resumption (`ServersKnow`), so that what the monitor loop
  lets through is refused.
* `ValidationOrdered` with `ValInv`: at most one record beside that of the update
  under way is unread (`FewRecords`), who is at which version between a
  synchronization and its update (`VersionsAgree`), and that logged, queued and
  coming records are in order (`RecordsInOrder`).

and on top of these
* `FlowInvariant` with `FlowInv`: the places of samples are disjoint
  (`PlaceInv`), no queue repeats one, and DONE and None are where the stream has
  ended.  One lemma for each way a sample moves (`Moves`, `Enters`, `Leaves`,
  which are about any family of disjoint sets) and one for each step of the code.
  `OnePlace` is a part of it.
* `CountsAll` with `CountInv`: it adds the sum under way (`ResetCounts`: while
  `update_param_version` computes it with the lock held nothing is submitted, so
  what it has not counted only gets fewer, but for one sample) and that a
  sample is asked for only with room for it (`GetsRoom`).
* `FlowRefined`: by `FlowInv` every step takes the next sample, lets one leave or
  leaves the flow alone; by `CountInv` the first has room.
* `StreamIsComplete` with `StreamInv`: DONE is the last that is taken, the main
  coroutine is through only when no task and no result is left, and None is the
  last of the message queue, so a trainer that stopped found it empty.  Without
  partial rollout nothing is ever interrupted (`Uninterrupted`).
* `SynchronousOnPolicy` and `SynchronousThreshold`, assuming `Synchronous`
  (`staleness_threshold = 0`: `max_required_samples` is what one version uses),
  with `OnPolicyInv`: what is in flight, was used of the version or has failed is
  within the count (`Budget`); so when a version is used up nothing is in flight
  until the count is set anew (`Dry`), and all that is in flight or in the batch
  is of the trainer's version (`TagsFlying`, `TagsUsed`).

`PartialRollout_proofs`
* `TypeCorrect` with `InBounds`: weights are ahead of the version, by one, only
  while they are loaded, when no server generates.
* `PiecesAligned`, `VersionsEnclosed`, `EndedOnce` with `Progress`, which says of
  each request, by its phase (`Fine`), that what it has so far is a sequence of
  tokens in its order by weights of its versions or the next one (`Sound`); the
  lemmas say what cutting and gluing keep.

`AgentLoop_proofs`
* `LimiterExact` with `Limited`: a call searches only within a tool turn, so a
  step that ends a turn takes no search away.
* `OutputIsAligned` with `Shape`: mask, origins and log-probabilities of a
  conversation agree at every position while it is written, and the last piece
  is generated where a conversation may end.
* `RequestsBalanced` with `RouteInv`: a request goes to a least loaded server,
  and as long as the cache has room for every conversation (`Roomy`) it holds
  exactly those that have asked, once each, with the server they are counted at
  (`Sticky`); a cache of distinct entries that lacks one is not full
  (`RoomInCache`), so nothing is evicted.

`OneStepOff_proofs`
* `TypeCorrect` with `DrawnInBounds`: a launch draws at most its epochs.
* `OrderedTraining` with `Flight` (at most the batch in training and the one
  ahead are under way, the last ones drawn) and `Order`.
* `OneStepBehind` with `Lag`: which calls wait at the rollout group, and how far
  its weights are behind, by the place of the driver; until the first batch is
  asked for they are the initial ones.

`PPOTrainer_proofs`, assuming `Supported`: the engine frees its cache, and LoRA
is loaded with real base weights
* `CurrentRollouts` with `Mode` (where the driver is when the engine is awake)
  and `InStep`: what the engine keeps while asleep is what waking it will not
  send again.
* `RanksAlike` with `Streams`: the states not in use are those of the other mode.
* `UpdatesOnPolicy` with `Assembly`: by the place of the driver, which columns the
  batch, the answers and the kept answers have, and that those of a batch in
  training are of the same rows and rollout (`Assembled`); `Added` says what a new
  column keeps, `AssembleFacts` that the union and the reordering leave one batch.
  The old log-probabilities are the actor's because the engine had its weights
  (`InStep`) and only `UpdateActor` and `LoadCheckpoint` change them.

`Checkpoint_proofs`, assuming `KeepsTracked`: not exactly one checkpoint is kept
* `TrackedIsComplete` and `StuckOnlyTorn`.  The invariant adds `Remembered` (the
  folders of a launch are in order and end with the tracked one, so that a
  rotation, which keeps at least one of two, never reaches it: `RotationFacts`),
  `Ranked` (what the barriers guarantee), `Written` (what a save has written when
  it reaches the tracker) and `Progress`.  For the data files of the other ranks
  `DataFilesInv` adds what each rank has written by its place in the save
  (`DataWritten`): behind the last barrier every rank has.
* `SnapshotRefinement`: `SetTracker` commits, a crash that cuts the tracker
  loses, a launch restores, `Train` trains, and every other step stutters because
  it leaves the files of the tracked checkpoint as they are (`Kept`).
* `RotationBounded` with `RotationInv`: what a launch has written is in the list
  it remembers, but for the folder it is writing, and that one is opened only
  when the list is shorter than the limit (`Bounded`).  It needs that the list
  never exceeds the limit, so that a rotation removes exactly the oldest
  (`RotatedList`), and that no shard is of a launch to come (`Aged`), so that a
  relaunch, which forgets the list, has written nothing yet.

`Operators_proofs`.  The algorithms' theorems are about inputs of any size; each
has a corollary (`...Invariant`) that the invariant of `MCOperators` holds, by
`QuestionInv`: the answer is what the code computes for the question.  Induction
is over sets of numbers: a set that holds 0 and the successor of each of its
elements holds the numbers (`Induction`, from `LeastNumber`).  It shows that a
recursive function exists and what it is at each argument.
* `LabelsAreOfAssistant`: where a message starts and ends in the tokens of the
  template (`StartsAndEnds`, from offsets that increase and cover,
  `FlattenParts`); the masked intervals are then exactly the tokens of the other
  roles (`Turns`, `MaskedWhere`), and truncation takes a prefix of both sides.
* `ThresholdIsPercentile`: a stable sort is a reordering that does not decrease
  (`SortNumbers`); so at most k - 1 elements exceed its k-th from the end and at
  least k reach it (`AtMost`, `AtLeast`); for k = 0 the index is that of k = n.
* `PartitionsAreBalanced`.  The heap of Karmarkar-Karp keeps `Apart`: its states
  hold disjoint indices, and each is a `Level`: its k sets divide what it holds,
  their sums differ by at most M, the largest load, their sizes are equal if
  asked, and either none is empty or none has two items; and they are in
  decreasing order (`Falling`).  A merge joins the largest set of one state with
  the smallest of the other; that crosswise sums differ by no more than one of
  the two states' do (`MergeLevels`) is where the order is needed.  In the last
  state no set is empty, because k sets of one item at most hold n >= k indices
  only if each has one (`NoneEmpty`).
* `MicroBatchesAreNeutral`: the micro-batches, dynamic or of a fixed size, cut
  the mini-batch (`MicroBatchesCover`, from `PartitionsAreBalanced` and from the
  slices of a split), so the share of a micro-batch and the mean within it
  cancel, and what is left is the share of a full mini-batch that the mini-batch
  is.  It assumes a mode that averages over sequences (disagreement 2) and, for
  micro-batches of a fixed size, that they divide the mini-batch (disagreement 3).
* `CallAnswersInOrder`: padding keeps the rows and makes their number a multiple
  (`PaddedIs`), a rank answers its chunk in order whatever its micro-batches,
  because `get_reverse_idx` inverts the flattened division (`RestoresOrder`), and
  one rank of each data parallel group, in the order of the ranks, gives the
  batch back (`CollectedInOrder`); for meshes whose groups begin in order, which
  both kinds of meshes are shown to be for all sizes.  `BalancedOrderReorders`: what
  `_balance_batch` sends is a reordering.
* `GaeSkipsObservations` and `ReturnsStayInTurn`: the loops run backwards
  (`BackwardExists`, `GaeIs`, `ReturnsAre`); from a token to the one before, an
  observation leaves the sum as it is and a token of the response adds its term
  and multiplies the others by one factor (`SumEnlarged`, `DecayedStep`,
  `TurnIs`).

Only model-checked: liveness (`Terminates`, `SyncEnds`, `AllTerminate`, `JobEnds`)
and the fairness part of `ImplementsFifo`, which are beyond the prover.  That the
limit of `SampleFlow` cannot be lowered by one is not shown by a run: it takes
six samples, more than the run with stale samples has.

## Not modelled, and the plan

Most of the repository's lines are tensor and floating-point code (losses, GPU
kernels, engines, model definitions, advantage estimators and policy losses
other than those of `PolicyGradient`), adapters of inference engines and tools,
string scoring of answers, configuration, launch scripts, metrics and logging,
and variants of the trainer for single papers (`recipe/`): nothing in them has
states for a model checker to interleave, or they repeat what is modelled.
Weight transfer is the interval it takes.

What could be added, in this order:

1. **Old log-probabilities of the asynchronous trainer**
   (`fully_async_policy/ray_trainer.py:370-390`): saved copies of the weights,
   swapped in and out by `local_trigger_step`, next to `Trainer`.
2. **Composition of `PartialRollout` with `Rollouter`**: the single `paused` flag
   and the task states of `Rollouter` as a refinement of the servers.
3. **Other managers of checkpoints** (Megatron's, whose rotation and tracker are
   the same) and copies to HDFS.
4. **SGLang's and the server mode of the rollouts**: sleep and wake with requests
   under way.
5. **Proofs**: a bound on the age of the samples the trainer uses when the
   threshold is above 0.
