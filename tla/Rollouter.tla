----------------------------- MODULE Rollouter ------------------------------
(***************************************************************************)
(* FullyAsyncRollouter (fully_async_rollouter.py): the coroutines that     *)
(* feed, submit, generate and publish samples, the monitor loop, and the   *)
(* remote methods pause, update_param_version and resume, all on one event *)
(* loop around one lock and condition.                                     *)
(***************************************************************************)
EXTENDS AsyncState

-----------------------------------------------------------------------------
(* _feed_samples runs until pending_queue is full, and ends with "DONE".   *)
Feed ==
  LET room == PendingSize - Len(pending)
      left == TotalSamples + 1 - fed
      n    == IF room < left THEN room ELSE left
  IN  /\ ~hot /\ n > 0
      /\ pending' = pending \o
           [i \in 1 .. n |-> IF fed + i > TotalSamples THEN Done ELSE fed + i]
      /\ fed' = fed + n
      /\ UNCHANGED <<flagVars, cancelQ, resultQ, active, task, lockQ, procVars,
                     corVars, callVars, servVars, mqVars, trainVars, syncPc,
                     pastVars>>

-----------------------------------------------------------------------------
(* _processor_worker.  Its blocks that take the lock are named after what  *)
(* they do: "pause" sets paused; "idle" waits for the end of a pause;      *)
(* "submit" creates the task; "drain", "finish" and "limit" are the loops  *)
(* that wait for tasks, on a pause, at the end, at the concurrency limit.  *)
(* Each has a location of its own while it waits for the lock, and each    *)
(* loop one while it waits for a task with the lock held.                  *)
Loops  == {"drain", "finish", "limit"}
AtLock == [pause |-> "pauseLock", idle |-> "idleLock", submit |-> "submitLock",
           drain |-> "drainLock", finish |-> "finishLock",
           limit |-> "limitLock"]
AtWait == [drain |-> "drainWait", finish |-> "finishWait",
           limit |-> "limitWait"]
After  == [drain |-> "idle", finish |-> "exited", limit |-> "submit"]

More(l) == IF l = "limit" THEN Cardinality(active) >= MaxConcurrent
                          ELSE active # {}

Ended(s) == task[s] \in {"done", "failed"}

(* Go on at location p without giving the event loop up, or suspend there. *)
GoOn(p)    == proc' = p /\ hot' = TRUE
Suspend(p) == proc' = p /\ hot' = FALSE

(* The processor reaches block p and has the lock at once, or got it now.  *)
Enter(p) == \/ proc = p /\ lockQ = <<>>
            \/ proc = AtLock[p] /\ Holds("proc")

ProcContended ==
  /\ \/ proc \in {"pause", "idle", "submit"}
     \/ proc \in Loops /\ More(proc)
  /\ Enqueue("proc")
  /\ Suspend(AtLock[proc])
  /\ UNCHANGED <<flagVars, flowVars, woken, hand, doneBound, corVars, callVars,
                 servVars, mqVars, trainVars, syncPc, pastVars>>

(* The head of the loop: pause, or take a sample, cancelled ones first.    *)
(* "DONE" counts as a sample that may get stale.                           *)
OneNotCounted == staleness                 \* mutant: not counted
OneMore == staleness + 1

TakePending ==
  /\ pending' = Tail(pending)
  /\ staleness' = OneMore
  /\ IF Head(pending) = Done
       THEN GoOn("finish") /\ UNCHANGED hand
       ELSE GoOn("limit") /\ hand' = Head(pending)
  /\ UNCHANGED <<paused, running, trigger, rollVersion, cancelQ>>

ProcCheck ==
  /\ proc = "check"
  /\ \/ /\ paused \/ ShouldPause
        /\ GoOn("pause")
        /\ UNCHANGED <<flagVars, pending, cancelQ, hand>>
     \/ /\ ~(paused \/ ShouldPause) /\ cancelQ # <<>>
        /\ hand' = Head(cancelQ)
        /\ cancelQ' = Tail(cancelQ)
        /\ GoOn("limit")
        /\ UNCHANGED <<flagVars, pending>>
     \/ /\ ~(paused \/ ShouldPause) /\ cancelQ = <<>> /\ pending # <<>>
        /\ TakePending
     \/ /\ ~(paused \/ ShouldPause) /\ cancelQ = <<>> /\ pending = <<>>
        /\ Suspend("get")
        /\ UNCHANGED <<flagVars, pending, cancelQ, hand>>
  /\ UNCHANGED <<fed, resultQ, active, task, lockQ, woken, doneBound, corVars,
                 callVars, servVars, mqVars, trainVars, syncPc, pastVars>>

(* pending_queue.get() returns after the pause flag was looked at.         *)
ProcGet ==
  /\ ~hot /\ proc = "get" /\ pending # <<>>
  /\ TakePending
  /\ UNCHANGED <<fed, resultQ, active, task, lockQ, woken, doneBound, corVars,
                 callVars, servVars, mqVars, trainVars, syncPc, pastVars>>

ProcPause ==
  /\ Enter("pause")
  /\ paused' = TRUE
  /\ Leave
  /\ GoOn("drain")
  /\ UNCHANGED <<running, trigger, staleness, rollVersion, flowVars, woken,
                 hand, doneBound, corVars, callVars, servVars, mqVars,
                 trainVars, syncPc, pastVars>>

(* The three loops that wait for tasks.                                    *)
LoopExit(l) ==
  /\ proc = l /\ ~More(l)
  /\ proc' = After[l] /\ hot' = (l # "finish")
  /\ UNCHANGED <<flagVars, flowVars, lockQ, woken, hand, doneBound, corVars,
                 callVars, servVars, mqVars, trainVars, syncPc, pastVars>>

(* With the lock: wait for the first task to end.  If pause() emptied      *)
(* active_tasks meanwhile, the done_tasks of the previous wait are awaited *)
(* once more, and reading them before any wait is an UnboundLocalError.    *)
LoopLocked(l) ==
  /\ Enter(l) /\ (proc = l => More(l))
  /\ \/ active # {} /\ Keep("proc") /\ Suspend(AtWait[l])
     \/ active = {} /\ doneBound /\ Leave /\ GoOn(l)
     \/ active = {} /\ ~doneBound /\ Leave /\ Suspend("crashed")
  /\ UNCHANGED <<flagVars, flowVars, woken, hand, doneBound, corVars, callVars,
                 servVars, mqVars, trainVars, syncPc, pastVars>>

(* asyncio.wait returns the tasks that ended and those that did not.       *)
StillPending == {s \in active : ~Ended(s)}

(* Tasks ended: they leave active_tasks; the exception of one ends the     *)
(* processor.                                                              *)
LoopReap(l) ==
  /\ ~hot /\ proc = AtWait[l]
  /\ \E s \in active : Ended(s)
  /\ active' = StillPending
  /\ doneBound' = TRUE
  /\ Leave
  /\ IF \E s \in active : task[s] = "failed" THEN Suspend("crashed")
                                             ELSE GoOn(l)
  /\ UNCHANGED <<flagVars, fed, pending, cancelQ, resultQ, task, woken, hand,
                 corVars, callVars, servVars, mqVars, trainVars, syncPc,
                 pastVars>>

ProcIdle ==
  /\ Enter("idle")
  /\ Leave
  /\ IF paused THEN Suspend("idleWait") ELSE GoOn("check")
  /\ UNCHANGED <<flagVars, flowVars, woken, hand, doneBound, corVars, callVars,
                 servVars, mqVars, trainVars, syncPc, pastVars>>

ProcSubmits ==
  /\ active' = active \cup {hand}
  /\ task' = [task EXCEPT ![hand] = "created"]
  /\ hand' = Nobody
  /\ GoOn("check")

ProcSubmitWaits ==
  /\ Suspend("submitWait")
  /\ UNCHANGED <<active, task, hand>>

ProcSubmit ==
  /\ Enter("submit")
  /\ Leave
  /\ \/ paused /\ ProcSubmitWaits
     \/ ~paused /\ ProcSubmits
  /\ UNCHANGED <<flagVars, fed, pending, cancelQ, resultQ, woken, doneBound,
                 corVars, callVars, servVars, mqVars, trainVars, syncPc,
                 pastVars>>

(* The processor was notified, and asks for the lock again.                *)
ProcWoken ==
  /\ ~hot /\ woken
  /\ woken' = FALSE
  /\ GoOn(IF proc = "idleWait" THEN "idle" ELSE "submit")
  /\ UNCHANGED <<flagVars, flowVars, lockQ, hand, doneBound, corVars, callVars,
                 servVars, mqVars, trainVars, syncPc, pastVars>>

Processor ==
  \/ ProcContended \/ ProcCheck \/ ProcGet \/ ProcPause \/ ProcIdle
  \/ ProcSubmit \/ ProcWoken
  \/ \E l \in Loops : LoopExit(l) \/ LoopLocked(l) \/ LoopReap(l)

-----------------------------------------------------------------------------
(* _process_single_sample_streaming.  "created": the coroutine has not run *)
(* yet.  "sent": it read current_param_version and sent the request.       *)
(* "gen": a server generates.  "cut": the server's answer says is_cancel.  *)
TaskStart(s) ==
  /\ ~hot /\ task[s] = "created"
  /\ task' = [task EXCEPT ![s] = "sent"]
  \* a resumed sample keeps the param_version_start of its first part
  /\ tag' = [tag EXCEPT ![s] = IF @ = NoVersion THEN rollVersion ELSE @]
  /\ UNCHANGED <<flagVars, fed, pending, cancelQ, resultQ, active, lockQ,
                 procVars, corVars, callVars, servVars, mqVars, trainVars,
                 syncPc, consumed, failures, logged>>

(* generate_for_partial refuses a request while the server is paused, and  *)
(* cancel() interrupts the requests it finds.                              *)
AcceptsAlways(s) == task[s] = "sent"                 \* mutant: no check
Accepts(s) == task[s] = "sent" /\ ~serverPaused

ServerAnswers(s) ==
  /\ \/ /\ Accepts(s)
        /\ task' = [task EXCEPT ![s] = "gen"]
     \/ /\ task[s] \in {"sent", "gen"} /\ serverPaused
        /\ task' = [task EXCEPT ![s] = "cut"]
  /\ UNCHANGED <<flagVars, fed, pending, cancelQ, resultQ, active, lockQ,
                 procVars, corVars, callVars, servVars, mqVars, trainVars,
                 syncPc, pastVars>>

Completes(s) ==
  /\ task[s] = "gen"
  /\ task' = [task EXCEPT ![s] = "done"]
  /\ resultQ' = Append(resultQ, s)
  /\ UNCHANGED <<cancelQ, failures>>

(* Mutant: is_cancel is not looked at and the sample is forgotten.         *)
IsInterruptedLost(s) ==
  /\ task[s] = "cut"
  /\ task' = [task EXCEPT ![s] = "done"]
  /\ UNCHANGED <<cancelQ, resultQ, failures>>

IsInterrupted(s) ==
  /\ task[s] = "cut"
  /\ task' = [task EXCEPT ![s] = "done"]
  /\ cancelQ' = Append(cancelQ, s)
  /\ UNCHANGED <<resultQ, failures>>

Fails(s) ==
  /\ task[s] = "gen" /\ Cardinality(failures) < MaxFailures
  /\ task' = [task EXCEPT ![s] = "failed"]
  /\ failures' = failures \cup {s}
  /\ UNCHANGED <<resultQ, cancelQ>>

TaskEnd(s) ==
  /\ ~hot
  /\ Completes(s) \/ IsInterrupted(s) \/ Fails(s)
  /\ UNCHANGED <<flagVars, fed, pending, active, lockQ, procVars, corVars,
                 callVars, servVars, mqVars, trainVars, syncPc, consumed, tag,
                 logged>>

-----------------------------------------------------------------------------
(* put_sample of the message queue, which drops its oldest sample when it  *)
(* is full (module MessageQueue).                                          *)
PutIntoQueue(x) ==
  /\ mq' = Append(IF Len(mq) >= MaxRequired THEN Tail(mq) ELSE mq, x)
  /\ mqDropped' = IF Len(mq) >= MaxRequired THEN mqDropped \cup {Head(mq)}
                                            ELSE mqDropped
  /\ UNCHANGED valQ

(* _consumer_worker takes a result; its put is a remote call.              *)
ConsumerTakes ==
  /\ ~hot /\ mainPc = "run" /\ consumer = Nobody /\ resultQ # <<>>
  /\ consumer' = Head(resultQ)
  /\ resultQ' = Tail(resultQ)
  /\ UNCHANGED <<flagVars, fed, pending, cancelQ, active, task, lockQ,
                 procVars, mainPc, monitor, callVars, servVars, mqVars,
                 trainVars, syncPc, pastVars>>

ConsumerPuts ==
  /\ consumer # Nobody
  /\ PutIntoQueue(consumer)
  /\ consumer' = Nobody
  /\ UNCHANGED <<flagVars, flowVars, lockQ, procVars, mainPc, monitor,
                 callVars, servVars, trainVars, syncPc, pastVars>>

(* _streaming_generation_main: when the feeder, the processor and          *)
(* result_queue.join() are through, or the processor raised an exception,  *)
(* it stops the consumer, sends None and clears running.                   *)
ThroughWhenEmpty ==                       \* mutant: empty(), not join()
  proc = "crashed" \/ (proc = "exited" /\ resultQ = <<>>)
ThroughUnlessFailed ==                    \* mutant: no except clause
  proc = "exited" /\ resultQ = <<>> /\ consumer = Nobody
Through ==
  \/ proc = "crashed"
  \/ proc = "exited" /\ resultQ = <<>> /\ consumer = Nobody

MainJoins ==
  /\ ~hot /\ mainPc = "run" /\ fed = TotalSamples + 1 /\ Through
  /\ mainPc' = "sentinel"
  /\ UNCHANGED <<flagVars, flowVars, lockQ, procVars, consumer, monitor,
                 callVars, servVars, mqVars, trainVars, syncPc, pastVars>>

MainFinishes ==
  /\ mainPc = "sentinel"
  /\ PutIntoQueue(Sentinel)
  /\ mainPc' = "stop"
  /\ UNCHANGED <<flagVars, flowVars, lockQ, procVars, consumer, monitor,
                 callVars, servVars, trainVars, syncPc, pastVars>>

MainStops ==
  /\ ~hot /\ mainPc = "stop"
  /\ \/ Enqueue("main") /\ UNCHANGED <<running, mainPc>>
     \/ CanEnter("main") /\ Leave /\ running' = FALSE /\ mainPc' = "done"
  /\ UNCHANGED <<paused, trigger, staleness, rollVersion, flowVars, procVars,
                 consumer, monitor, callVars, servVars, mqVars, trainVars,
                 syncPc, pastVars>>

Main == MainJoins \/ MainFinishes \/ MainStops

-----------------------------------------------------------------------------
(* _async_monitor_loop: look at running under the lock, sleep, and end the *)
(* pause if monitor_loop_trigger was set and there was room before it got  *)
(* the lock ("unpause" waits for it).                                      *)
MonitorTop ==
  /\ ~hot /\ monitor = "top"
  /\ \/ Enqueue("monitor") /\ UNCHANGED monitor
     \/ /\ CanEnter("monitor") /\ Leave
        /\ monitor' = IF running THEN "sleep" ELSE "done"
  /\ UNCHANGED <<flagVars, flowVars, procVars, consumer, mainPc, callVars,
                 servVars, mqVars, trainVars, syncPc, pastVars>>

Unpause ==
  /\ Leave
  /\ paused' = FALSE
  /\ NotifyAll
  /\ monitor' = "top"

MonitorWakes ==
  /\ ~hot /\ monitor = "sleep"
  /\ \/ /\ ~trigger \/ ShouldPause
        /\ monitor' = "top"
        /\ UNCHANGED <<paused, woken, lockQ>>
     \/ /\ trigger /\ ~ShouldPause /\ lockQ = <<>>
        /\ Unpause
     \/ /\ trigger /\ ~ShouldPause /\ Enqueue("monitor")
        /\ monitor' = "unpause"
        /\ UNCHANGED <<paused, woken>>
  /\ UNCHANGED <<running, trigger, staleness, rollVersion, flowVars, proc, hot,
                 hand, doneBound, consumer, mainPc, callVars, servVars, mqVars,
                 trainVars, syncPc, pastVars>>

MonitorUnpauses ==
  /\ ~hot /\ monitor = "unpause" /\ Holds("monitor")
  /\ Unpause
  /\ UNCHANGED <<running, trigger, staleness, rollVersion, flowVars, proc, hot,
                 hand, doneBound, consumer, mainPc, callVars, servVars, mqVars,
                 trainVars, syncPc, pastVars>>

Monitor == MonitorTop \/ MonitorWakes \/ MonitorUnpauses

-----------------------------------------------------------------------------
(* pause(): under the lock set paused, cancel the requests on the servers  *)
(* (partial rollout), gather the active tasks and forget them, reset the   *)
(* prefix cache, and last of all switch the monitor off.                   *)
PauseEnter ==
  /\ ~hot /\ pausePc = "called"
  /\ \/ Enqueue("pause") /\ UNCHANGED <<paused, pausePc>>
     \/ /\ CanEnter("pause") /\ Keep("pause")
        /\ paused' = TRUE
        /\ pausePc' = IF Partial THEN "cancel" ELSE "gather"
  /\ UNCHANGED <<running, trigger, staleness, rollVersion, flowVars, procVars,
                 corVars, updatePc, updateAcc, resumePc, servVars, mqVars,
                 trainVars, syncPc, pastVars>>

PauseCancels ==
  /\ pausePc = "cancel"
  /\ serverPaused' = TRUE
  /\ pausePc' = "gather"
  /\ UNCHANGED <<flagVars, flowVars, lockQ, procVars, corVars, updatePc,
                 updateAcc, resumePc, weights, loading, mqVars, trainVars,
                 syncPc, pastVars>>

GatheredNone == TRUE                      \* mutant: no gather
Gathered == \A s \in active : Ended(s)

PauseGathers ==
  /\ ~hot /\ pausePc = "gather" /\ Gathered
  /\ active' = {}
  /\ pausePc' = "reset"
  /\ UNCHANGED <<flagVars, fed, pending, cancelQ, resultQ, task, lockQ,
                 procVars, corVars, updatePc, updateAcc, resumePc, servVars,
                 mqVars, trainVars, syncPc, pastVars>>

PauseReturns ==
  /\ ~hot /\ pausePc = "reset"
  /\ trigger' = FALSE
  /\ Leave
  /\ pausePc' = "done"
  /\ UNCHANGED <<paused, running, staleness, rollVersion, flowVars, procVars,
                 corVars, updatePc, updateAcc, resumePc, servVars, mqVars,
                 trainVars, syncPc, pastVars>>

Pause == PauseEnter \/ PauseCancels \/ PauseGathers \/ PauseReturns

(* update_param_version(): the new count of stale samples is a sum whose   *)
(* last term is awaited from the message queue; then the validation, if it *)
(* is due, and its record.  The lock is held throughout.                   *)
NewVersion == weights

UpdateEnter ==
  /\ ~hot /\ updatePc = "called"
  /\ \/ Enqueue("update") /\ UNCHANGED <<rollVersion, updateAcc, updatePc>>
     \/ /\ CanEnter("update") /\ Keep("update")
        /\ rollVersion' = NewVersion
        /\ updateAcc' = Cardinality(active) + Len(resultQ) + Len(cancelQ)
        /\ updatePc' = "size"
  /\ UNCHANGED <<paused, running, trigger, staleness, flowVars, procVars,
                 corVars, pausePc, resumePc, servVars, mqVars, trainVars,
                 syncPc, pastVars>>

UpdateCounts ==
  /\ updatePc = "size"
  /\ updateAcc' = updateAcc + Len(mq)
  /\ updatePc' = "set"
  /\ UNCHANGED <<flagVars, flowVars, lockQ, procVars, corVars, pausePc,
                 resumePc, servVars, mqVars, trainVars, syncPc, pastVars>>

Reset == updateAcc

UpdateSets ==
  /\ ~hot /\ updatePc = "set"
  /\ staleness' = Reset
  /\ updateAcc' = 0
  /\ updatePc' = "putVal"
  /\ UNCHANGED <<paused, running, trigger, rollVersion, flowVars, lockQ,
                 procVars, corVars, pausePc, resumePc, servVars, mqVars,
                 trainVars, syncPc, pastVars>>

ValidationDue(v) == (TestFreq > 0 /\ v > 0 /\ v % TestFreq = 0) \/ final

UpdateReturns ==
  /\ ~hot /\ updatePc = "putVal"
  /\ valQ' = Append(valQ, [ver |-> rollVersion,
                           metrics |-> ValidationDue(rollVersion)])
  /\ Leave
  /\ updatePc' = "idle"
  /\ UNCHANGED <<flagVars, flowVars, procVars, corVars, pausePc, updateAcc,
                 resumePc, servVars, mq, mqDropped, trainVars, syncPc,
                 pastVars>>

Update == UpdateEnter \/ UpdateCounts \/ UpdateSets \/ UpdateReturns

(* resume(): its argument makes it wait for update_param_version to end.   *)
ResumeEnter ==
  /\ ~hot /\ resumePc = "called" /\ updatePc = "idle"
  /\ \/ Enqueue("resume") /\ UNCHANGED <<paused, trigger, woken, resumePc>>
     \/ /\ CanEnter("resume")
        /\ paused' = FALSE
        /\ trigger' = TRUE
        /\ NotifyAll
        /\ IF Partial THEN Keep("resume") /\ resumePc' = "servers"
                      ELSE Leave /\ resumePc' = "idle"
  /\ UNCHANGED <<running, staleness, rollVersion, flowVars, proc, hot, hand,
                 doneBound, corVars, pausePc, updatePc, updateAcc, servVars,
                 mqVars, trainVars, syncPc, pastVars>>

ResumeReturns ==
  /\ ~hot /\ resumePc = "servers"
  /\ serverPaused' = FALSE
  /\ Leave
  /\ resumePc' = "idle"
  /\ UNCHANGED <<flagVars, flowVars, procVars, corVars, pausePc, updatePc,
                 updateAcc, weights, loading, mqVars, trainVars, syncPc,
                 pastVars>>

Resume == ResumeEnter \/ ResumeReturns
=============================================================================
