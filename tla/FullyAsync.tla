----------------------------- MODULE FullyAsync -----------------------------
(***************************************************************************)
(* The fully asynchronous policy: rollouter, servers, message queue,       *)
(* trainer and synchronizer together (fully_async_main.py), from the       *)
(* moment the initial synchronization (version 0) is over and both fit()   *)
(* methods are started.                                                    *)
(***************************************************************************)
EXTENDS Rollouter, Trainer

Init ==
  /\ paused = FALSE /\ running = TRUE /\ trigger = TRUE
  /\ staleness = 0 /\ rollVersion = 0
  /\ fed = 0 /\ pending = <<>> /\ cancelQ = <<>> /\ resultQ = <<>>
  /\ active = {} /\ task = [s \in Samples |-> "none"]
  /\ lockQ = <<>>
  /\ proc = "check" /\ hot = FALSE /\ woken = FALSE /\ hand = Nobody
  /\ doneBound = FALSE
  /\ consumer = Nobody /\ mainPc = "run" /\ monitor = "top"
  /\ pausePc = "idle" /\ updatePc = "idle" /\ updateAcc = 0
  /\ resumePc = "idle"
  /\ serverPaused = FALSE /\ weights = 0 /\ loading = FALSE
  /\ mq = <<>> /\ mqDropped = {}
  /\ valQ = <<[ver |-> 0, metrics |-> ValBeforeTrain]>>
  /\ trainer = "start" /\ batch = <<>> /\ localStep = 1 /\ version = 0
  /\ final = FALSE /\ valData = "none" /\ syncPc = "idle"
  /\ consumed = {} /\ tag = [s \in Samples |-> NoVersion]
  /\ failures = {} /\ logged = <<>>

Task(s) == TaskStart(s) \/ ServerAnswers(s) \/ TaskEnd(s)
Consumer == ConsumerTakes \/ ConsumerPuts
Calls == Pause \/ Update \/ Resume

Next == \/ Feed \/ Processor \/ Consumer \/ Main \/ Monitor \/ Calls
        \/ Train \/ Sync
        \/ \E s \in Samples : Task(s)

Safe == Init /\ [][Next]_vars

(* A coroutine that stays ready is run, a remote call is answered, a       *)
(* generation ends and a training step ends.  Of pause, update and resume  *)
(* only one is under way at a time, and so it is with a task's steps.      *)
Fairness ==
  /\ WF_vars(Processor) /\ WF_vars(Feed) /\ WF_vars(Consumer)
  /\ WF_vars(Main) /\ WF_vars(Monitor) /\ WF_vars(Calls)
  /\ WF_vars(Train \/ Sync)
  /\ \A s \in Samples : WF_vars(Task(s))

Spec == Safe /\ Fairness

-----------------------------------------------------------------------------
(* Where samples are.                                                      *)
Real(S) == S \ {0}
Running == {s \in Samples : task[s] \in {"created", "sent", "gen", "cut"}}
Taken == {s \in Samples : s <= fed} \ ToSet(pending)
Gone == consumed \cup Real(mqDropped) \cup failures

(* The samples the rollouter took and the trainer did not receive yet.     *)
Outstanding == Real({hand} \cup {consumer} \cup ToSet(mq)) \cup Running
                 \cup ToSet(cancelQ) \cup ToSet(resultQ)

(* The state is of the declared shape.                                     *)
Coroutines == {"proc", "monitor", "main", "pause", "update", "resume"}
ProcPcs == {"check", "get", "exited", "crashed", "idleWait", "submitWait",
            "pause", "idle", "submit", "pauseLock", "idleLock", "submitLock",
            "drain", "finish", "limit", "drainLock", "finishLock",
            "limitLock", "drainWait", "finishWait", "limitWait"}
FlagsOK ==
  /\ paused \in BOOLEAN /\ running \in BOOLEAN /\ trigger \in BOOLEAN
  /\ staleness \in Nat /\ rollVersion \in Nat
FlowOK ==
  /\ fed \in 0 .. TotalSamples + 1 /\ pending \in Seq(Samples \cup {Done})
  /\ cancelQ \in Seq(Samples) /\ resultQ \in Seq(Samples)
  /\ active \subseteq Samples
  /\ task \in [Samples -> {"none", "created", "sent", "gen", "cut", "done", "failed"}]
ProcOK ==
  /\ proc \in ProcPcs /\ hot \in BOOLEAN /\ woken \in BOOLEAN
  /\ hand \in Samples \cup {Nobody} /\ doneBound \in BOOLEAN
CoroutinesOK ==
  /\ consumer \in Samples \cup {Nobody} /\ lockQ \in Seq(Coroutines)
  /\ mainPc \in {"run", "sentinel", "stop", "done"}
  /\ monitor \in {"top", "sleep", "unpause", "done"}
CallsOK ==
  /\ pausePc \in {"idle", "called", "cancel", "gather", "reset", "done"}
  /\ updatePc \in {"idle", "called", "size", "set", "putVal"} /\ updateAcc \in Nat
  /\ resumePc \in {"idle", "called", "servers"}
ServersOK == serverPaused \in BOOLEAN /\ weights \in Nat /\ loading \in BOOLEAN
QueueOK ==
  /\ mq \in Seq(Samples \cup {Sentinel}) /\ mqDropped \subseteq Samples \cup {Sentinel}
  /\ valQ \in Seq([ver : Nat, metrics : BOOLEAN])
TrainerOK ==
  /\ trainer \in {"start", "collect", "train", "step", "sync", "ending", "lastSync", "lastVal",
                  "done"}
  /\ batch \in Seq(Samples) /\ localStep \in 1 .. Trigger /\ version \in Nat
  /\ final \in BOOLEAN /\ valData \in {"none", "plain", "metrics"}
  /\ syncPc \in {"idle", "pausing", "loading"}
PastOK ==
  /\ consumed \subseteq Samples /\ failures \subseteq Samples
  /\ tag \in [Samples -> Nat \cup {NoVersion}] /\ logged \in Seq(Nat)

TypeOK ==
  /\ FlagsOK /\ FlowOK /\ ProcOK /\ CoroutinesOK /\ CallsOK /\ ServersOK /\ QueueOK
  /\ TrainerOK /\ PastOK

-----------------------------------------------------------------------------
(* Safety.                                                                 *)

(* Every sample that was taken is in exactly one place, and once: no       *)
(* hand-over between the queues, the tasks, the message queue and the      *)
(* trainer loses it or makes it twice, whatever is paused, cancelled,      *)
(* resumed or failing.                                                     *)
Place ==
  [hand |-> Real({hand}), task |-> Running, cancelled |-> ToSet(cancelQ),
   result |-> ToSet(resultQ), consumer |-> Real({consumer}),
   queue |-> Real(ToSet(mq)),
   used |-> consumed, dropped |-> Real(mqDropped), failed |-> failures]

SampleInOnePlace ==
  /\ Taken = Outstanding \cup Gone
  /\ LET place == Place
     IN  \A p, q \in DOMAIN place : p # q => place[p] \cap place[q] = {}
  /\ IsInjective(pending) /\ IsInjective(cancelQ)
  /\ IsInjective(resultQ) /\ IsInjective(mq)

(* The set that pause() gathers holds every running task, although the     *)
(* processor replaces it and pause() empties it.                           *)
RunningIsActive == Running \subseteq active

(* Each block that suspends with self.lock held is its holder, so no two   *)
(* of them are under way at once.                                          *)
CriticalSections ==
  /\ pausePc \in {"cancel", "gather", "reset"} => Holds("pause")
  /\ updatePc \in {"size", "set", "putVal"} => Holds("update")
  /\ resumePc = "servers" => Holds("resume")
  /\ proc \in {"drainWait", "finishWait", "limitWait"} => Holds("proc")

(* When pause() has gathered the tasks nothing is running: a processor     *)
(* that took a sample before the pause began does not submit it under it.  *)
PauseQuiesces == pausePc = "reset" => active = {} /\ Running = {}

(* No lost wakeup: the processor sleeps on the condition only while the    *)
(* rollouter is paused; whoever clears paused notifies it.                 *)
NoLostWakeup ==
  (proc \in {"idleWait", "submitWait"} /\ ~woken) => paused

(* The inference servers generate nothing while their weights are being    *)
(* replaced.                                                               *)
SilentWhileLoading == loading => \A s \in Samples : task[s] # "gen"

(* No task of any kind is under way while the weights are replaced.        *)
NoNewTasksWhileSyncing == syncPc = "loading" => Running = {}

(* The rollouter's count of samples that may get stale, on which the       *)
(* decision to pause rests, is at most two short of the samples that are   *)
(* in flight: update_param_version counts neither the one the processor    *)
(* holds while it waits to submit it nor the one the consumer is putting.  *)
StalenessCounts == Cardinality(Outstanding) <= staleness + 2

(* Of the documentation: between two updates at most max_required_samples, *)
(* less the stale ones left over, are generated.  So no more than          *)
(* max_required_samples that were submitted are ever in flight.            *)
StalenessThreshold == Cardinality(Outstanding \ {hand}) <= MaxRequired

(* With staleness_threshold = 0 training is synchronous: the trainer uses  *)
(* only samples of its current version, and the message queue, sized for   *)
(* it, never drops a sample.                                               *)
VersionsBehind(s) == version - tag[s]
Training == trainer \in {"collect", "train"}
OnPolicy ==
  /\ Training => \A s \in ToSet(batch) : VersionsBehind(s) = 0
  /\ mqDropped = {}

(* When the trainer reads the final None, each sample has reached it, was  *)
(* dropped or has failed, in whichever of the queues and tasks a pause, a  *)
(* failure or the end found it: unless the exception of a failed rollout   *)
(* has ended the processor.  With partial_rollout a pause may also leave   *)
(* some in cancel_queue for good, after the processor took DONE.           *)
StreamComplete ==
  (trainer = "ending" /\ proc # "crashed")
     => IF Partial THEN Samples = Gone \cup ToSet(cancelQ) ELSE Samples = Gone /\ cancelQ = <<>>

(* At most one validation record is unread when the next one is put, and   *)
(* validation metrics are logged in the order of their versions.           *)
ValidationInOrder ==
  /\ Len(valQ) <= 2
  /\ \A i, j \in 1 .. Len(logged) : i < j => logged[i] < logged[j]

(* The pipeline implements the flow of SampleFlow.  Two samples more than  *)
(* max_required_samples may be in flight: those StalenessCounts speaks of. *)
Flow == INSTANCE SampleFlow
          WITH Total <- TotalSamples, Limit <- MaxRequired + 2,
               QueueSize <- MaxRequired, started <- Cardinality(Taken),
               inFlight <- Outstanding, used <- consumed, failed <- failures,
               dropped <- Real(mqDropped)

ImplementsFlow == Flow!Spec

-----------------------------------------------------------------------------
(* Liveness.                                                               *)

(* The trainer gets its final None and both fit() methods return.          *)
Terminates ==
  <>(trainer = "done" /\ mainPc = "done" /\ monitor = "done")
=============================================================================
