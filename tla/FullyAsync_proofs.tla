-------------------------- MODULE FullyAsync_proofs --------------------------
(***************************************************************************)
(* Proofs about the fully asynchronous policy, for any number of samples,  *)
(* any bounds on queues and tasks, with and without partial rollout: its   *)
(* pauses and synchronizations first, then its samples, where they are,    *)
(* how many are in flight, how they leave the pipeline, that it implements *)
(* the flow of SampleFlow, and that with staleness_threshold = 0 training  *)
(* is on-policy.                                                           *)
(***************************************************************************)
EXTENDS FullyAsync, SequenceTheorems, FiniteSetTheorems, TLAPS

-----------------------------------------------------------------------------
(* The wakeup protocol: the processor sleeps on the condition only while   *)
(* the rollouter is paused.                                                *)
THEOREM Wakeup == Safe => []NoLostWakeup
<1>1. Init => NoLostWakeup
  BY DEF Init, NoLostWakeup
<1>2. NoLostWakeup /\ [Next]_vars => NoLostWakeup'
  <2> SUFFICES ASSUME NoLostWakeup, [Next]_vars PROVE NoLostWakeup'
    OBVIOUS
  <2> USE DEF NoLostWakeup, flagVars, flowVars, procVars, corVars, callVars,
              servVars, mqVars, trainVars, pastVars, rollouterVars
  <2>1. CASE Feed
    BY <2>1 DEF Feed
  <2>2. CASE Processor
    <3>1. CASE ProcContended
      BY <3>1 DEF ProcContended, Suspend, AtLock, Loops
    <3>2. CASE ProcCheck
      BY <3>2 DEF ProcCheck, TakePending, GoOn, Suspend
    <3>3. CASE ProcGet
      BY <3>3 DEF ProcGet, TakePending, GoOn
    <3>4. CASE ProcPause
      BY <3>4 DEF ProcPause, GoOn
    <3>5. CASE ProcIdle
      BY <3>5 DEF ProcIdle, GoOn, Suspend
    <3>6. CASE ProcSubmit
      BY <3>6 DEF ProcSubmit, ProcSubmits, ProcSubmitWaits, GoOn, Suspend
    <3>7. CASE ProcWoken
      BY <3>7 DEF ProcWoken, GoOn
    <3>8. ASSUME NEW l \in Loops, LoopExit(l) PROVE NoLostWakeup'
      BY <3>8 DEF LoopExit, Loops, After
    <3>9. ASSUME NEW l \in Loops, LoopLocked(l) PROVE NoLostWakeup'
      BY <3>9 DEF LoopLocked, Loops, AtWait, GoOn, Suspend
    <3>10. ASSUME NEW l \in Loops, LoopReap(l) PROVE NoLostWakeup'
      BY <3>10 DEF LoopReap, Loops, GoOn, Suspend
    <3> QED
      BY <2>2, <3>1, <3>2, <3>3, <3>4, <3>5, <3>6, <3>7, <3>8, <3>9, <3>10
         DEF Processor
  <2>3. CASE Consumer \/ Main
    BY <2>3 DEF Consumer, ConsumerTakes, ConsumerPuts, Main, MainJoins,
                MainFinishes, MainStops, PutIntoQueue
  <2>4. CASE Monitor
    BY <2>4 DEF Monitor, MonitorTop, MonitorWakes, MonitorUnpauses, Unpause,
                NotifyAll
  <2>5. CASE Pause \/ Update
    BY <2>5 DEF Pause, PauseEnter, PauseCancels, PauseGathers, PauseReturns,
                Update, UpdateEnter, UpdateCounts, UpdateSets, UpdateReturns
  <2>6. CASE Resume
    BY <2>6 DEF Resume, ResumeEnter, ResumeReturns, NotifyAll
  <2>7. CASE Train \/ Sync
    BY <2>7 DEF Train, TrainerGetsValidation, TrainerGetsSample,
                TrainerTrains, TrainerEnds, TrainerLogsLast,
                Sync, SyncStarts, SyncBroadcasts, SyncReturns
  <2>8. ASSUME NEW s \in Samples, Task(s) PROVE NoLostWakeup'
    BY <2>8 DEF Task, TaskStart, ServerAnswers, TaskEnd
  <2>9. CASE UNCHANGED vars
    BY <2>9 DEF vars
  <2> QED
    BY <2>1, <2>2, <2>3, <2>4, <2>5, <2>6, <2>7, <2>8, <2>9 DEF Next, Calls
<1> QED BY <1>1, <1>2, PTL DEF Safe

-----------------------------------------------------------------------------
(* The set of active tasks.                                                *)
TaskStates == {"none", "created", "sent", "gen", "cut", "done", "failed"}
TaskInv == task \in [Samples -> TaskStates] /\ RunningIsActive

(* Only these steps touch the tasks or the set that holds them.            *)
LEMMA TaskFrame ==
  ASSUME [Next]_vars
  PROVE  \/ UNCHANGED <<active, task>>
         \/ ProcSubmit /\ ProcSubmits
         \/ \E l \in Loops : LoopReap(l)
         \/ PauseGathers
         \/ \E s \in Samples : Task(s)
<1> USE DEF flagVars, flowVars, procVars, corVars, callVars, servVars, mqVars,
            trainVars, pastVars, rollouterVars
<1>1. CASE Feed
  BY <1>1 DEF Feed
<1>2. CASE Processor
  <2>1. CASE ProcContended \/ ProcCheck \/ ProcGet \/ ProcPause \/ ProcIdle
             \/ ProcWoken
    BY <2>1 DEF ProcContended, ProcCheck, ProcGet, ProcPause, ProcIdle,
                ProcWoken, TakePending
  <2>2. CASE ProcSubmit
    BY <2>2 DEF ProcSubmit, ProcSubmitWaits
  <2>3. ASSUME NEW l \in Loops, LoopExit(l) \/ LoopLocked(l)
        PROVE  UNCHANGED <<active, task>>
    BY <2>3 DEF LoopExit, LoopLocked
  <2> QED BY <1>2, <2>1, <2>2, <2>3 DEF Processor
<1>3. CASE Consumer \/ Main \/ Monitor
  BY <1>3 DEF Consumer, ConsumerTakes, ConsumerPuts, Main, MainJoins,
              MainFinishes, MainStops, Monitor, MonitorTop, MonitorWakes,
              MonitorUnpauses
<1>4. CASE Calls
  BY <1>4 DEF Calls, Pause, PauseEnter, PauseCancels, PauseReturns,
              Update, UpdateEnter, UpdateCounts, UpdateSets, UpdateReturns,
              Resume, ResumeEnter, ResumeReturns
<1>5. CASE Train \/ Sync
  BY <1>5 DEF Train, TrainerGetsValidation, TrainerGetsSample,
              TrainerTrains, TrainerEnds, TrainerLogsLast,
              Sync, SyncStarts, SyncBroadcasts, SyncReturns
<1>6. CASE UNCHANGED vars
  BY <1>6 DEF vars
<1> QED BY <1>1, <1>2, <1>3, <1>4, <1>5, <1>6 DEF Next

(* How the task of one sample may go on.                                   *)
LEMMA TaskStep ==
  ASSUME TaskInv, NEW s \in Samples, Task(s)
  PROVE  /\ active' = active
         /\ \E st \in TaskStates :
              /\ task' = [task EXCEPT ![s] = st]
              /\ task[s] \in {"created", "sent", "gen", "cut"}
<1>1. active' = active
  BY DEF Task, TaskStart, ServerAnswers, TaskEnd
<1>2. \E st \in TaskStates :
         /\ task' = [task EXCEPT ![s] = st]
         /\ task[s] \in {"created", "sent", "gen", "cut"}
  BY DEF Task, TaskStart, ServerAnswers, Accepts, TaskEnd, Completes,
         IsInterrupted, Fails, TaskStates
<1> QED BY <1>1, <1>2

LEMMA TaskInvStep ==
  TaskInv /\ [Next]_vars => TaskInv'
<1> SUFFICES ASSUME TaskInv, [Next]_vars PROVE TaskInv'
  OBVIOUS
<1> USE DEF TaskInv, RunningIsActive, Running
<1>1. CASE UNCHANGED <<active, task>>
  BY <1>1
<1>2. CASE ProcSubmits
  BY <1>2 DEF ProcSubmits, TaskStates
<1>3. ASSUME NEW l \in Loops, LoopReap(l) PROVE TaskInv'
  <2>1. active' = {s \in active : ~Ended(s)} /\ task' = task
    BY <1>3 DEF LoopReap, StillPending
  <2> QED BY <2>1 DEF Ended
<1>4. CASE PauseGathers
  <2>1. active' = {} /\ task' = task /\ \A s \in active : Ended(s)
    BY <1>4 DEF PauseGathers, Gathered
  <2> QED BY <2>1 DEF Ended
<1>5. ASSUME NEW s \in Samples, Task(s) PROVE TaskInv'
  <2>1. PICK st \in TaskStates : /\ task' = [task EXCEPT ![s] = st]
                                 /\ task[s] \in {"created", "sent", "gen", "cut"}
                                 /\ active' = active
    BY <1>5, TaskStep
  <2> QED BY <2>1
<1> QED BY <1>1, <1>2, <1>3, <1>4, <1>5, TaskFrame

(* The set that pause() gathers and that the processor waits for holds     *)
(* every running task: no rollout is lost sight of.                        *)
THEOREM TasksTracked == Safe => []RunningIsActive
<1>1. Init => TaskInv
  BY DEF Init, TaskInv, RunningIsActive, Running, TaskStates
<1>2. TaskInv => RunningIsActive
  BY DEF TaskInv
<1> QED BY <1>1, <1>2, TaskInvStep, PTL DEF Safe

-----------------------------------------------------------------------------
(* The lock.                                                               *)
LockInv == lockQ \in Seq(Coroutines) /\ CriticalSections

(* Asking for the lock leaves its holder alone.                            *)
LEMMA EnqueueLock ==
  ASSUME lockQ \in Seq(Coroutines), NEW c \in Coroutines, Enqueue(c)
  PROVE  /\ lockQ' \in Seq(Coroutines) /\ lockQ' # <<>>
         /\ Head(lockQ') = Head(lockQ)
<1>1. lockQ # <<>> /\ lockQ' = Append(lockQ, c)
  BY DEF Enqueue
<1>2. /\ lockQ' \in Seq(Coroutines) /\ Len(lockQ) \in Nat \ {0}
      /\ Len(lockQ') = Len(lockQ) + 1 /\ lockQ'[1] = lockQ[1]
  BY <1>1, AppendProperties, EmptySeq
<1>3. lockQ' # <<>>
  BY <1>2, EmptySeq
<1> QED BY <1>1, <1>2, <1>3, HeadTailProperties

(* Taking a free lock, or keeping it.                                      *)
LEMMA KeepLock ==
  ASSUME lockQ \in Seq(Coroutines), NEW c \in Coroutines, Keep(c)
  PROVE  /\ lockQ' \in Seq(Coroutines) /\ lockQ' # <<>>
         /\ lockQ = <<>> \/ Holds(c) => Head(lockQ') = c
         /\ lockQ # <<>> => lockQ' = lockQ
<1>1. CASE lockQ = <<>>
  <2>1. lockQ' = <<c>>
    BY <1>1 DEF Keep
  <2>2. <<c>> \in Seq(Coroutines) /\ Head(<<c>>) = c /\ <<c>> # <<>>
    OBVIOUS
  <2> QED BY <1>1, <2>1, <2>2
<1>2. CASE lockQ # <<>>
  BY <1>2 DEF Keep, Holds
<1> QED BY <1>1, <1>2

LEMMA LeaveLock ==
  ASSUME lockQ \in Seq(Coroutines), Leave
  PROVE  lockQ' \in Seq(Coroutines)
BY HeadTailProperties DEF Leave

(* c releases the lock: nobody is inside but c, which therefore must be    *)
(* outside afterwards, where everybody else was before.                    *)
Inside(c) ==
  \/ c = "pause" /\ pausePc \in {"cancel", "gather", "reset"}
  \/ c = "update" /\ updatePc \in {"size", "set", "putVal"}
  \/ c = "resume" /\ resumePc = "servers"
  \/ c = "proc" /\ proc \in {"drainWait", "finishWait", "limitWait"}

LEMMA InsideHolds ==
  CriticalSections <=> \A c \in Coroutines : Inside(c) => Holds(c)
BY DEF CriticalSections, Inside, Coroutines

(* A step that asks for the lock, and lets nobody in.                      *)
LEMMA WaitStep ==
  ASSUME LockInv, NEW c \in Coroutines, Enqueue(c) \/ UNCHANGED lockQ,
         \A d \in Coroutines : Inside(d)' => Inside(d)
  PROVE  LockInv'
<1>1. CASE UNCHANGED lockQ
  <2>1. lockQ' \in Seq(Coroutines)
    BY <1>1 DEF LockInv
  <2>2. \A d \in Coroutines : Inside(d)' => Holds(d)'
    BY <1>1, InsideHolds DEF LockInv, Holds
  <2>3. CriticalSections'
    BY <2>2 DEF CriticalSections, Inside, Coroutines
  <2> QED BY <2>1, <2>3 DEF LockInv
<1>2. CASE Enqueue(c)
  <2>1. /\ lockQ' \in Seq(Coroutines) /\ lockQ' # <<>>
        /\ Head(lockQ') = Head(lockQ)
    BY <1>2, EnqueueLock DEF LockInv
  <2>2. \A d \in Coroutines : Inside(d)' => Holds(d)'
    BY <2>1, InsideHolds DEF LockInv, Holds
  <2>3. CriticalSections'
    BY <2>2 DEF CriticalSections, Inside, Coroutines
  <2> QED BY <2>1, <2>3 DEF LockInv
<1> QED BY <1>1, <1>2

(* A step with which c enters, or stays.                                   *)
LEMMA EnterStep ==
  ASSUME LockInv, NEW c \in Coroutines, lockQ = <<>> \/ Holds(c), Keep(c),
         \A d \in Coroutines \ {c} : Inside(d)' => Inside(d)
  PROVE  LockInv'
<1>1. /\ lockQ' \in Seq(Coroutines) /\ lockQ' # <<>> /\ Head(lockQ') = c
  BY KeepLock DEF LockInv
<1>2. \A d \in Coroutines \ {c} : ~Inside(d)
  BY InsideHolds DEF LockInv, Holds
<1>3. \A d \in Coroutines : Inside(d)' => Holds(d)'
  BY <1>1, <1>2 DEF Holds
<1>4. CriticalSections'
  BY <1>3 DEF CriticalSections, Inside, Coroutines
<1> QED BY <1>1, <1>4 DEF LockInv

(* A step with which c leaves, or passes through.                          *)
LEMMA LeaveStep ==
  ASSUME LockInv, NEW c \in Coroutines, lockQ = <<>> \/ Holds(c), Leave,
         ~Inside(c)', \A d \in Coroutines \ {c} : Inside(d)' => Inside(d)
  PROVE  LockInv'
<1>1. lockQ' \in Seq(Coroutines)
  BY LeaveLock DEF LockInv
<1>2. \A d \in Coroutines \ {c} : ~Inside(d)
  BY InsideHolds DEF LockInv, Holds
<1>3. \A d \in Coroutines : ~Inside(d)'
  BY <1>2
<1>4. CriticalSections'
  BY <1>3 DEF CriticalSections, Inside, Coroutines
<1> QED BY <1>1, <1>4 DEF LockInv

LEMMA LockInvStep ==
  LockInv /\ [Next]_vars => LockInv'
<1> SUFFICES ASSUME LockInv, [Next]_vars PROVE LockInv'
  OBVIOUS
<1> DEFINE Others(c) == \A d \in Coroutines \ {c} : Inside(d)' => Inside(d)
           All == \A d \in Coroutines : Inside(d)' => Inside(d)
<1>c. {"proc", "monitor", "main", "pause", "update", "resume"}
         \subseteq Coroutines
  BY DEF Coroutines
<1>h. \A c \in Coroutines : Inside(c) => lockQ = <<>> \/ Holds(c)
  BY InsideHolds DEF LockInv
<1> USE DEF flagVars, flowVars, procVars, corVars, callVars, servVars, mqVars,
            trainVars, pastVars, rollouterVars
<1>1. CASE Feed \/ Consumer \/ UNCHANGED vars
  <2>1. UNCHANGED lockQ /\ All
    BY <1>1 DEF Feed, Consumer, ConsumerTakes, ConsumerPuts, vars, Inside
  <2> QED BY <1>c, <2>1, WaitStep
<1>2. CASE Processor
  <2>1. CASE ProcContended
    <3>1. Enqueue("proc") /\ All
      BY <2>1 DEF ProcContended, Suspend, AtLock, Loops, Inside
    <3> QED BY <1>c, <3>1, WaitStep
  <2>2. CASE ProcCheck \/ ProcGet \/ ProcWoken
    <3>1. UNCHANGED lockQ /\ All
      BY <2>2 DEF ProcCheck, ProcGet, ProcWoken, TakePending, GoOn, Suspend,
                  Inside
    <3> QED BY <1>c, <3>1, WaitStep
  <2>3. CASE ProcPause \/ ProcIdle \/ ProcSubmit
    <3>1. Leave /\ (lockQ = <<>> \/ Holds("proc"))
      BY <2>3 DEF ProcPause, ProcIdle, ProcSubmit, Enter
    <3>2. ~Inside("proc")' /\ Others("proc")
      BY <2>3 DEF ProcPause, ProcIdle, ProcSubmit, ProcSubmits,
                  ProcSubmitWaits, GoOn, Suspend, Inside
    <3> QED BY <1>c, <3>1, <3>2, LeaveStep
  <2>4. ASSUME NEW l \in Loops, LoopExit(l) PROVE LockInv'
    <3>1. UNCHANGED lockQ /\ All
      BY <2>4 DEF LoopExit, Loops, After, Inside
    <3> QED BY <1>c, <3>1, WaitStep
  <2>5. ASSUME NEW l \in Loops, LoopLocked(l) PROVE LockInv'
    <3>1. lockQ = <<>> \/ Holds("proc")
      BY <2>5 DEF LoopLocked, Enter
    <3>2. Others("proc")
      BY <2>5 DEF LoopLocked, Inside
    <3>3. CASE Keep("proc")
      BY <1>c, <3>1, <3>2, <3>3, EnterStep
    <3>4. CASE Leave /\ (proc' = l \/ proc' = "crashed")
      <4>1. ~Inside("proc")'
        BY <3>4 DEF Loops, Inside
      <4> QED BY <1>c, <3>1, <3>2, <3>4, <4>1, LeaveStep
    <3> QED BY <2>5, <3>3, <3>4 DEF LoopLocked, GoOn, Suspend
  <2>6. ASSUME NEW l \in Loops, LoopReap(l) PROVE LockInv'
    <3>1. Inside("proc")
      BY <2>6 DEF LoopReap, Loops, AtWait, Inside
    <3>2. ~Inside("proc")' /\ Others("proc") /\ Leave
      BY <2>6 DEF LoopReap, Loops, GoOn, Suspend, Inside
    <3> QED BY <1>c, <1>h, <3>1, <3>2, LeaveStep
  <2> QED
    BY <1>2, <2>1, <2>2, <2>3, <2>4, <2>5, <2>6 DEF Processor
<1>3. CASE Main
  <2>1. CASE MainJoins \/ MainFinishes
    <3>1. UNCHANGED lockQ /\ All
      BY <2>1 DEF MainJoins, MainFinishes, Inside
    <3> QED BY <1>c, <3>1, WaitStep
  <2>2. CASE MainStops
    <3>1. All /\ ~Inside("main")'
      BY <2>2 DEF MainStops, Inside
    <3>2. CASE Enqueue("main")
      BY <1>c, <3>1, <3>2, WaitStep
    <3>3. CASE CanEnter("main") /\ Leave
      BY <1>c, <3>1, <3>3, LeaveStep DEF CanEnter
    <3> QED BY <2>2, <3>2, <3>3 DEF MainStops
  <2> QED BY <1>3, <2>1, <2>2 DEF Main
<1>4. CASE Monitor
  <2>1. All /\ ~Inside("monitor")'
    BY <1>4 DEF Monitor, MonitorTop, MonitorWakes, MonitorUnpauses, Inside
  <2>2. \/ Enqueue("monitor") \/ UNCHANGED lockQ
        \/ Leave /\ (lockQ = <<>> \/ Holds("monitor"))
    BY <1>4 DEF Monitor, MonitorTop, MonitorWakes, MonitorUnpauses, Unpause,
                CanEnter
  <2> QED BY <1>c, <2>1, <2>2, WaitStep, LeaveStep
<1>5. CASE Pause
  <2>1. Others("pause")
    BY <1>5 DEF Pause, PauseEnter, PauseCancels, PauseGathers, PauseReturns,
                Inside
  <2>2. CASE PauseEnter
    <3>1. CASE Enqueue("pause") /\ UNCHANGED pausePc
      <4>1. All
        BY <2>1, <3>1 DEF Inside
      <4> QED BY <1>c, <3>1, <4>1, WaitStep
    <3>2. CASE CanEnter("pause") /\ Keep("pause")
      BY <1>c, <2>1, <3>2, EnterStep DEF CanEnter
    <3> QED BY <2>2, <3>1, <3>2 DEF PauseEnter
  <2>3. CASE PauseCancels \/ PauseGathers
    <3>1. UNCHANGED lockQ /\ All
      BY <2>3 DEF PauseCancels, PauseGathers, Inside
    <3> QED BY <1>c, <3>1, WaitStep
  <2>4. CASE PauseReturns
    <3>1. Inside("pause") /\ ~Inside("pause")' /\ Leave
      BY <2>4 DEF PauseReturns, Inside
    <3> QED BY <1>c, <1>h, <2>1, <3>1, LeaveStep
  <2> QED BY <1>5, <2>2, <2>3, <2>4 DEF Pause
<1>6. CASE Update
  <2>1. Others("update")
    BY <1>6 DEF Update, UpdateEnter, UpdateCounts, UpdateSets, UpdateReturns,
                Inside
  <2>2. CASE UpdateEnter
    <3>1. CASE Enqueue("update") /\ UNCHANGED updatePc
      <4>1. All
        BY <2>1, <3>1 DEF Inside
      <4> QED BY <1>c, <3>1, <4>1, WaitStep
    <3>2. CASE CanEnter("update") /\ Keep("update")
      BY <1>c, <2>1, <3>2, EnterStep DEF CanEnter
    <3> QED BY <2>2, <3>1, <3>2 DEF UpdateEnter
  <2>3. CASE UpdateCounts \/ UpdateSets
    <3>1. UNCHANGED lockQ /\ All
      BY <2>3 DEF UpdateCounts, UpdateSets, Inside
    <3> QED BY <1>c, <3>1, WaitStep
  <2>4. CASE UpdateReturns
    <3>1. Inside("update") /\ ~Inside("update")' /\ Leave
      BY <2>4 DEF UpdateReturns, Inside
    <3> QED BY <1>c, <1>h, <2>1, <3>1, LeaveStep
  <2> QED BY <1>6, <2>2, <2>3, <2>4 DEF Update
<1>7. CASE Resume
  <2>1. Others("resume")
    BY <1>7 DEF Resume, ResumeEnter, ResumeReturns, Inside
  <2>2. CASE ResumeEnter
    <3>1. CASE Enqueue("resume") /\ UNCHANGED resumePc
      <4>1. All
        BY <2>1, <3>1 DEF Inside
      <4> QED BY <1>c, <3>1, <4>1, WaitStep
    <3>2. CASE CanEnter("resume") /\ Keep("resume")
      BY <1>c, <2>1, <3>2, EnterStep DEF CanEnter
    <3>3. CASE CanEnter("resume") /\ Leave /\ resumePc' = "idle"
      <4>1. ~Inside("resume")'
        BY <3>3 DEF Inside
      <4> QED BY <1>c, <2>1, <3>3, <4>1, LeaveStep DEF CanEnter
    <3> QED BY <2>2, <3>1, <3>2, <3>3 DEF ResumeEnter
  <2>3. CASE ResumeReturns
    <3>1. Inside("resume") /\ ~Inside("resume")' /\ Leave
      BY <2>3 DEF ResumeReturns, Inside
    <3> QED BY <1>c, <1>h, <2>1, <3>1, LeaveStep
  <2> QED BY <1>7, <2>2, <2>3 DEF Resume
<1>8. CASE Train \/ Sync
  <2>1. UNCHANGED lockQ /\ All
    BY <1>8 DEF Train, TrainerGetsValidation, TrainerGetsSample,
                TrainerTrains, TrainerEnds, TrainerLogsLast,
                Sync, SyncStarts, SyncBroadcasts, SyncReturns, Inside
  <2> QED BY <1>c, <2>1, WaitStep
<1>9. ASSUME NEW s \in Samples, Task(s) PROVE LockInv'
  <2>1. UNCHANGED lockQ /\ All
    BY <1>9 DEF Task, TaskStart, ServerAnswers, TaskEnd, Inside
  <2> QED BY <1>c, <2>1, WaitStep
<1> QED
  BY <1>1, <1>2, <1>3, <1>4, <1>5, <1>6, <1>7, <1>8, <1>9 DEF Next, Calls

(* self.lock excludes: of the blocks that suspend with the lock held no    *)
(* two are under way at once.                                              *)
THEOREM Exclusion == Safe => []CriticalSections
<1>1. Init => LockInv
  BY EmptySeq DEF Init, LockInv, CriticalSections
<1>2. LockInv => CriticalSections
  BY DEF LockInv
<1> QED BY <1>1, <1>2, LockInvStep, PTL DEF Safe

-----------------------------------------------------------------------------
(* Types.  A sample is in the processor's hand from the moment it is taken *)
(* until it is submitted, and only a sleeping processor is notified.       *)
HandHeld ==
  /\ proc \in {"limit", "limitLock", "limitWait", "submit", "submitLock", "submitWait"}
       => hand # Nobody
  /\ woken => proc \in {"idleWait", "submitWait"}

TypeInv == TypeOK /\ HandHeld /\ LockInv

LEMMA ActiveCount == FlowOK => Cardinality(active) \in Nat
<1>1. TotalSamples \in Int /\ IsFiniteSet(1 .. TotalSamples)
  BY ConfigAssumption, FS_Interval
<1>2. FlowOK => IsFiniteSet(active)
  BY <1>1, FS_Subset DEF FlowOK, Samples
<1> QED BY <1>2, FS_CardinalityType

LEMMA TypeInvStep == TypeInv /\ [Next]_vars => TypeInv'
<1> SUFFICES ASSUME TypeInv, [Next]_vars PROVE TypeOK' /\ HandHeld'
  BY LockInvStep DEF TypeInv
<1>l. /\ FlagsOK /\ FlowOK /\ ProcOK /\ CoroutinesOK /\ CallsOK /\ ServersOK /\ QueueOK
      /\ TrainerOK /\ PastOK /\ HandHeld
      /\ lockQ' \in Seq(Coroutines)
  BY LockInvStep DEF TypeInv, TypeOK, LockInv
(* What a step leaves alone keeps its type.                                *)
<1>f. /\ UNCHANGED flagVars => FlagsOK'
      /\ UNCHANGED flowVars => FlowOK'
      /\ UNCHANGED procVars => ProcOK' /\ HandHeld'
      /\ UNCHANGED corVars => CoroutinesOK'
      /\ UNCHANGED callVars => CallsOK'
      /\ UNCHANGED servVars => ServersOK'
      /\ UNCHANGED mqVars => QueueOK'
      /\ UNCHANGED <<trainVars, syncPc>> => TrainerOK'
      /\ UNCHANGED pastVars => PastOK'
  <2>1. UNCHANGED flagVars => FlagsOK'
    BY <1>l DEF flagVars, FlagsOK
  <2>2. UNCHANGED flowVars => FlowOK'
    BY <1>l DEF flowVars, FlowOK
  <2>3. UNCHANGED procVars => ProcOK' /\ HandHeld'
    BY <1>l DEF procVars, ProcOK, HandHeld
  <2>4. UNCHANGED corVars => CoroutinesOK'
    BY <1>l DEF corVars, CoroutinesOK
  <2>5. UNCHANGED callVars => CallsOK'
    BY <1>l DEF callVars, CallsOK
  <2>6. UNCHANGED servVars => ServersOK'
    BY <1>l DEF servVars, ServersOK
  <2>7. UNCHANGED mqVars => QueueOK'
    BY <1>l DEF mqVars, QueueOK
  <2>8. UNCHANGED <<trainVars, syncPc>> => TrainerOK'
    BY <1>l DEF trainVars, TrainerOK
  <2>9. UNCHANGED pastVars => PastOK'
    BY <1>l DEF pastVars, PastOK
  <2> QED BY <2>1, <2>2, <2>3, <2>4, <2>5, <2>6, <2>7, <2>8, <2>9
<1>1. CASE Feed
  <2>1. FlowOK'
    <3> DEFINE room == PendingSize - Len(pending)
               left == TotalSamples + 1 - fed
               m == IF room < left THEN room ELSE left
               more == [i \in 1 .. m |-> IF fed + i > TotalSamples THEN Done ELSE fed + i]
    <3>1. /\ m > 0 /\ fed' = fed + m /\ pending' = pending \o more
          /\ UNCHANGED <<cancelQ, resultQ, active, task>>
      BY <1>1 DEF Feed
    <3>2. fed \in 0 .. TotalSamples + 1 /\ TotalSamples \in Nat \ {0} /\ PendingSize \in Nat
          /\ pending \in Seq(Samples \cup {Done})
      BY <1>l, ConfigAssumption DEF FlowOK
    <3>3. Len(pending) \in Nat
      BY <3>2, LenProperties
    <3>4. m \in Nat /\ fed + m <= TotalSamples + 1
      <4> HIDE DEF more
      <4> DEFINE k == Len(pending)
      <4>1. k \in Nat /\ m = IF PendingSize - k < left THEN PendingSize - k ELSE left
        BY <3>3
      <4> HIDE DEF k, m
      <4> QED BY <3>1, <3>2, <4>1
    <3> HIDE DEF m
    <3>5. \A i \in 1 .. m : (IF fed + i > TotalSamples THEN Done ELSE fed + i) \in Samples \cup {Done}
      BY <3>2, <3>4 DEF Samples
    <3>6. more \in Seq(Samples \cup {Done})
      BY <3>4, <3>5, IsASeq
    <3> HIDE DEF more
    <3>7. pending' \in Seq(Samples \cup {Done})
      BY <3>1, <3>2, <3>6, ConcatProperties
    <3>8. fed' \in 0 .. TotalSamples + 1
      BY <3>1, <3>2, <3>4
    <3> QED BY <1>l, <3>1, <3>7, <3>8 DEF FlowOK
  <2>2. UNCHANGED <<flagVars, procVars, corVars, callVars, servVars, mqVars, trainVars, syncPc, pastVars>>
    BY <1>1 DEF Feed
  <2> QED BY <1>f, <2>1, <2>2 DEF TypeOK
<1>2. CASE Processor
  <2>p. pending # <<>> => Head(pending) \in Samples \cup {Done} /\ Tail(pending) \in Seq(Samples \cup {Done})
    BY <1>l, HeadTailProperties DEF FlowOK
  <2>c. cancelQ # <<>> => Head(cancelQ) \in Samples /\ Tail(cancelQ) \in Seq(Samples)
    BY <1>l, HeadTailProperties DEF FlowOK
  <2>n. Nobody \notin Samples /\ Done \notin Samples
    BY DEF Nobody, Done, Samples
  <2>e. UNCHANGED <<corVars, callVars, servVars, mqVars, trainVars, syncPc, pastVars>>
    BY <1>2 DEF Processor, ProcContended, ProcCheck, ProcGet, ProcPause, ProcIdle, ProcSubmit,
                ProcWoken, LoopExit, LoopLocked, LoopReap
  <2> SUFFICES FlagsOK' /\ FlowOK' /\ ProcOK' /\ HandHeld'
    BY <1>f, <2>e DEF TypeOK
  <2>t. TakePending /\ pending # <<>>
          => /\ FlagsOK' /\ pending' \in Seq(Samples \cup {Done}) /\ cancelQ' = cancelQ
             /\ hand' \in Samples \cup {Nobody} /\ hot' \in BOOLEAN
             /\ proc' = "finish" \/ (proc' = "limit" /\ hand' \in Samples)
    <3> SUFFICES ASSUME TakePending, pending # <<>>
                 PROVE  /\ FlagsOK' /\ pending' \in Seq(Samples \cup {Done}) /\ cancelQ' = cancelQ
                        /\ hand' \in Samples \cup {Nobody} /\ hot' \in BOOLEAN
                        /\ proc' = "finish" \/ (proc' = "limit" /\ hand' \in Samples)
      OBVIOUS
    <3>1. FlagsOK' /\ pending' = Tail(pending) /\ cancelQ' = cancelQ
      BY <1>l DEF TakePending, OneMore, FlagsOK
    <3>2. /\ hot' = TRUE
          /\ \/ proc' = "finish" /\ hand' = hand
             \/ proc' = "limit" /\ hand' = Head(pending) /\ Head(pending) # Done
      BY DEF TakePending, GoOn
    <3> QED BY <1>l, <2>p, <3>1, <3>2 DEF ProcOK
  <2>1. CASE ProcContended
    <3>1. UNCHANGED <<flagVars, flowVars>>
      BY <2>1 DEF ProcContended
    <3>0. /\ proc \in {"pause", "idle", "submit", "drain", "finish", "limit"}
          /\ proc' = AtLock[proc] /\ hot' = FALSE /\ UNCHANGED <<woken, hand, doneBound>>
      BY <2>1 DEF ProcContended, Suspend, Loops
    <3>2. ProcOK' /\ HandHeld'
      <4>1. ~woken /\ (proc \in {"limit", "submit"} => hand # Nobody)
        BY <1>l, <3>0 DEF HandHeld
      <4>2. /\ proc' \in {"pauseLock", "idleLock", "submitLock", "drainLock", "finishLock",
                         "limitLock"}
            /\ proc' \in {"submitLock", "limitLock"} => proc \in {"limit", "submit"}
        BY <3>0 DEF AtLock
      <4> QED BY <1>l, <3>0, <4>1, <4>2 DEF ProcPcs, ProcOK, HandHeld
    <3> QED BY <1>f, <3>1, <3>2
  <2>2. CASE ProcCheck
    <3>0. proc = "check" /\ UNCHANGED <<fed, resultQ, active, task, woken, doneBound>>
      BY <2>2 DEF ProcCheck
    <3>1. CASE TakePending /\ pending # <<>>
      BY <1>l, <2>t, <2>n, <3>0, <3>1 DEF FlowOK, ProcOK, HandHeld, ProcPcs
    <3>2. CASE /\ UNCHANGED <<flagVars, pending, cancelQ, hand>>
               /\ proc' \in {"pause", "get"} /\ hot' \in BOOLEAN
      BY <1>l, <1>f, <3>0, <3>2 DEF FlowOK, ProcOK, HandHeld, ProcPcs
    <3>3. CASE /\ hand' = Head(cancelQ) /\ cancelQ' = Tail(cancelQ) /\ cancelQ # <<>>
               /\ proc' = "limit" /\ hot' = TRUE /\ UNCHANGED <<flagVars, pending>>
      <4>1. hand' \in Samples /\ cancelQ' \in Seq(Samples)
        BY <2>c, <3>3
      <4> QED BY <1>l, <1>f, <2>n, <3>0, <3>3, <4>1 DEF FlowOK, ProcOK, HandHeld, ProcPcs
    <3> QED BY <2>2, <3>1, <3>2, <3>3 DEF ProcCheck, GoOn, Suspend
  <2>3. CASE ProcGet
    <3>1. /\ TakePending /\ pending # <<>> /\ proc = "get"
          /\ UNCHANGED <<fed, resultQ, active, task, woken, doneBound>>
      BY <2>3 DEF ProcGet
    <3> QED BY <1>l, <2>t, <2>n, <3>1 DEF FlowOK, ProcOK, HandHeld, ProcPcs
  <2>4. CASE ProcPause
    <3>1. UNCHANGED flowVars
      BY <2>4 DEF ProcPause
    <3>2. FlagsOK'
      BY <1>l, <2>4 DEF ProcPause, FlagsOK
    <3>3. ProcOK' /\ HandHeld'
      BY <1>l, <2>4 DEF ProcPause, GoOn, Enter, AtLock, ProcPcs, ProcOK, HandHeld
    <3> QED BY <1>f, <3>1, <3>2, <3>3
  <2>5. CASE ProcIdle
    <3>1. UNCHANGED <<flagVars, flowVars>>
      BY <2>5 DEF ProcIdle
    <3>2. ProcOK' /\ HandHeld'
      BY <1>l, <2>5 DEF ProcIdle, GoOn, Suspend, Enter, AtLock, ProcPcs, ProcOK, HandHeld
    <3> QED BY <1>f, <3>1, <3>2
  <2>6. CASE ProcSubmit
    <3>1. /\ UNCHANGED <<flagVars, fed, pending, cancelQ, resultQ, woken, doneBound>>
          /\ proc \in {"submit", "submitLock"} /\ hand \in Samples
      BY <1>l, <2>6 DEF ProcSubmit, Enter, AtLock, HandHeld, ProcOK
    <3>2. CASE ProcSubmits
      <4>1. /\ active' \subseteq Samples
            /\ task' \in [Samples -> {"none", "created", "sent", "gen", "cut", "done", "failed"}]
        BY <1>l, <3>1, <3>2 DEF ProcSubmits, FlowOK
      <4>2. proc' = "check" /\ hot' = TRUE /\ hand' = Nobody
        BY <3>2 DEF ProcSubmits, GoOn
      <4> QED BY <1>l, <1>f, <3>1, <4>1, <4>2 DEF FlowOK, ProcOK, HandHeld, ProcPcs
    <3>3. CASE ProcSubmitWaits
      <4>1. proc' = "submitWait" /\ hot' = FALSE /\ UNCHANGED <<active, task, hand>>
        BY <3>3 DEF ProcSubmitWaits, Suspend
      <4> QED BY <1>l, <1>f, <3>1, <4>1 DEF FlowOK, ProcOK, HandHeld, ProcPcs
    <3> QED BY <2>6, <3>2, <3>3 DEF ProcSubmit
  <2>7. CASE ProcWoken
    <3>1. UNCHANGED <<flagVars, flowVars>>
      BY <2>7 DEF ProcWoken
    <3>2. ProcOK' /\ HandHeld'
      BY <1>l, <2>7 DEF ProcWoken, GoOn, ProcPcs, ProcOK, HandHeld
    <3> QED BY <1>f, <3>1, <3>2
  <2>8. ASSUME NEW l \in Loops, LoopExit(l) \/ LoopLocked(l)
        PROVE  FlagsOK' /\ FlowOK' /\ ProcOK' /\ HandHeld'
    <3>1. UNCHANGED <<flagVars, flowVars, woken, hand, doneBound>>
      BY <2>8 DEF LoopExit, LoopLocked
    <3>2. CASE LoopExit(l)
      <4>1. proc = l /\ proc' = After[l] /\ hot' \in BOOLEAN
        BY <3>2 DEF LoopExit
      <4> QED BY <1>l, <1>f, <3>1, <4>1 DEF Loops, After, ProcPcs, ProcOK, HandHeld
    <3>3. CASE LoopLocked(l)
      <4>1. proc \in {l, AtLock[l]} /\ proc' \in {AtWait[l], l, "crashed"} /\ hot' \in BOOLEAN
        BY <3>3 DEF LoopLocked, Enter, GoOn, Suspend
      <4> QED BY <1>l, <1>f, <3>1, <4>1 DEF Loops, AtLock, AtWait, ProcPcs, ProcOK, HandHeld
    <3> QED BY <2>8, <3>2, <3>3
  <2>9. ASSUME NEW l \in Loops, LoopReap(l)
        PROVE  FlagsOK' /\ FlowOK' /\ ProcOK' /\ HandHeld'
    <3>1. /\ UNCHANGED <<flagVars, fed, pending, cancelQ, resultQ, task, woken, hand>>
          /\ active' \subseteq active /\ doneBound' = TRUE
          /\ proc = AtWait[l] /\ proc' \in {l, "crashed"} /\ hot' \in BOOLEAN
      BY <2>9 DEF LoopReap, StillPending, GoOn, Suspend
    <3>2. FlowOK'
      BY <1>l, <3>1 DEF FlowOK
    <3>3. ProcOK' /\ HandHeld'
      BY <1>l, <3>1 DEF Loops, AtWait, ProcPcs, ProcOK, HandHeld
    <3> QED BY <1>f, <3>1, <3>2, <3>3
  <2> QED
    BY <1>2, <2>1, <2>2, <2>3, <2>4, <2>5, <2>6, <2>7, <2>8, <2>9 DEF Processor
<1>a. ASSUME NEW x \in Samples \cup {Sentinel}, PutIntoQueue(x) PROVE QueueOK'
  <2>0. mq \in Seq(Samples \cup {Sentinel}) /\ mqDropped \subseteq Samples \cup {Sentinel}
    BY <1>l DEF QueueOK
  <2>1. CASE Len(mq) >= MaxRequired
    <3>1. MaxRequired > 0
      BY ConfigAssumption DEF ConfigAssumption
    <3>2. mq # <<>>
      BY <2>1, <3>1, ConfigAssumption
    <3>3. Head(mq) \in Samples \cup {Sentinel} /\ Tail(mq) \in Seq(Samples \cup {Sentinel})
      BY <2>0, <3>2, HeadTailProperties
    <3>4. mq' = Append(Tail(mq), x) /\ mqDropped' = mqDropped \cup {Head(mq)} /\ valQ' = valQ
      BY <1>a, <2>1 DEF PutIntoQueue
    <3>5. Append(Tail(mq), x) \in Seq(Samples \cup {Sentinel})
      BY <3>3, AppendProperties
    <3> QED BY <1>l, <2>0, <3>3, <3>4, <3>5 DEF QueueOK
  <2>2. CASE ~(Len(mq) >= MaxRequired)
    <3>1. mq' = Append(mq, x) /\ UNCHANGED <<mqDropped, valQ>>
      BY <1>a, <2>2 DEF PutIntoQueue
    <3>2. Append(mq, x) \in Seq(Samples \cup {Sentinel})
      BY <2>0, AppendProperties
    <3> QED BY <1>l, <3>1, <3>2 DEF QueueOK
  <2> QED BY <2>1, <2>2
<1>n. NotifyAll => woken' \in BOOLEAN /\ (woken' => proc \in {"idleWait", "submitWait"})
  <2>1. woken \in BOOLEAN /\ (woken => proc \in {"idleWait", "submitWait"})
    BY <1>l DEF ProcOK, HandHeld
  <2> QED BY <2>1, Zenon DEF NotifyAll
<1>3. CASE Consumer
  <2>1. CASE ConsumerTakes
    <3>1. /\ resultQ # <<>> /\ resultQ' = Tail(resultQ) /\ consumer' = Head(resultQ)
          /\ UNCHANGED <<fed, pending, cancelQ, active, task, mainPc, monitor>>
          /\ UNCHANGED <<flagVars, procVars, callVars, servVars, mqVars, trainVars, syncPc, pastVars>>
      BY <2>1 DEF ConsumerTakes
    <3>2. resultQ' \in Seq(Samples) /\ consumer' \in Samples
      BY <1>l, <3>1, HeadTailProperties DEF FlowOK
    <3> QED BY <1>l, <1>f, <3>1, <3>2 DEF FlowOK, CoroutinesOK, TypeOK
  <2>2. CASE ConsumerPuts
    <3>1. /\ PutIntoQueue(consumer) /\ consumer # Nobody /\ consumer' = Nobody
          /\ UNCHANGED <<mainPc, monitor>>
          /\ UNCHANGED <<flagVars, flowVars, procVars, callVars, servVars, trainVars, syncPc, pastVars>>
      BY <2>2 DEF ConsumerPuts
    <3>2. QueueOK'
      BY <1>l, <1>a, <3>1 DEF CoroutinesOK
    <3> QED BY <1>l, <1>f, <3>1, <3>2 DEF CoroutinesOK, TypeOK
  <2> QED BY <1>3, <2>1, <2>2 DEF Consumer
<1>4. CASE Main
  <2>0. /\ UNCHANGED <<consumer, monitor>> /\ mainPc' \in {"run", "sentinel", "stop", "done"}
        /\ UNCHANGED <<flowVars, procVars, callVars, servVars, trainVars, syncPc, pastVars>>
    BY <1>l, <1>4 DEF Main, MainJoins, MainFinishes, MainStops, CoroutinesOK
  <2>1. FlagsOK'
    BY <1>l, <1>4 DEF Main, MainJoins, MainFinishes, MainStops, FlagsOK, flagVars
  <2>2. QueueOK'
    <3>1. CASE MainFinishes
      BY <1>a, <3>1 DEF MainFinishes
    <3> QED BY <1>4, <1>f, <3>1 DEF Main, MainJoins, MainStops
  <2> QED BY <1>l, <1>f, <2>0, <2>1, <2>2 DEF CoroutinesOK, TypeOK
<1>5. CASE Monitor
  <2>0. /\ UNCHANGED <<consumer, mainPc>> /\ monitor' \in {"top", "sleep", "unpause", "done"}
        /\ UNCHANGED <<flowVars, callVars, servVars, mqVars, trainVars, syncPc, pastVars>>
    BY <1>l, <1>5 DEF Monitor, MonitorTop, MonitorWakes, MonitorUnpauses, Unpause, CoroutinesOK
  <2>1. FlagsOK'
    BY <1>l, <1>5 DEF Monitor, MonitorTop, MonitorWakes, MonitorUnpauses, Unpause, FlagsOK, flagVars
  <2>2. UNCHANGED <<proc, hot, hand, doneBound>> /\ (NotifyAll \/ UNCHANGED woken)
    BY <1>5 DEF Monitor, MonitorTop, MonitorWakes, MonitorUnpauses, Unpause, procVars
  <2>3. ProcOK' /\ HandHeld'
    BY <1>l, <1>n, <2>2 DEF ProcOK, HandHeld
  <2> QED BY <1>l, <1>f, <2>0, <2>1, <2>3 DEF CoroutinesOK, TypeOK
<1>6. CASE Pause
  <2>0. UNCHANGED <<procVars, corVars, mqVars, trainVars, syncPc, pastVars>>
    BY <1>6 DEF Pause, PauseEnter, PauseCancels, PauseGathers, PauseReturns
  <2>1. FlagsOK'
    BY <1>l, <1>6 DEF Pause, PauseEnter, PauseCancels, PauseGathers, PauseReturns, FlagsOK, flagVars
  <2>2. FlowOK'
    <3>1. UNCHANGED flowVars \/ (active' = {} /\ UNCHANGED <<fed, pending, cancelQ, resultQ, task>>)
      BY <1>6 DEF Pause, PauseEnter, PauseCancels, PauseGathers, PauseReturns
    <3> QED BY <1>l, <1>f, <3>1 DEF FlowOK
  <2>3. CallsOK' /\ ServersOK'
    BY <1>l, <1>6 DEF Pause, PauseEnter, PauseCancels, PauseGathers, PauseReturns, CallsOK, ServersOK,
                      servVars
  <2> QED BY <1>l, <1>f, <2>0, <2>1, <2>2, <2>3 DEF CoroutinesOK, corVars, TypeOK
<1>7. CASE Update
  <2>0. /\ UNCHANGED <<procVars, corVars, flowVars, servVars, trainVars, syncPc, pastVars>>
        /\ UNCHANGED <<pausePc, resumePc>>
    BY <1>7 DEF Update, UpdateEnter, UpdateCounts, UpdateSets, UpdateReturns
  <2>1. Cardinality(active) \in Nat /\ Len(resultQ) \in Nat /\ Len(cancelQ) \in Nat /\ Len(mq) \in Nat
    BY <1>l, ActiveCount, LenProperties DEF FlowOK, QueueOK
  <2>2. FlagsOK' /\ CallsOK'
    <3>1. CASE UpdateEnter
      BY <1>l, <2>0, <2>1, <3>1 DEF UpdateEnter, NewVersion, FlagsOK, CallsOK, ServersOK
    <3>2. CASE UpdateCounts
      BY <1>l, <2>0, <2>1, <3>2 DEF UpdateCounts, FlagsOK, CallsOK, flagVars
    <3>3. CASE UpdateSets
      BY <1>l, <2>0, <3>3 DEF UpdateSets, Reset, FlagsOK, CallsOK
    <3>4. CASE UpdateReturns
      BY <1>l, <2>0, <3>4 DEF UpdateReturns, FlagsOK, CallsOK, flagVars
    <3> QED BY <1>7, <3>1, <3>2, <3>3, <3>4 DEF Update
  <2>3. QueueOK'
    <3>1. CASE UpdateReturns
      <4>1. ValidationDue(rollVersion) \in BOOLEAN
        BY <1>l DEF ValidationDue, TrainerOK
      <4> DEFINE record == [ver |-> rollVersion, metrics |-> ValidationDue(rollVersion)]
      <4>2. record \in [ver : Nat, metrics : BOOLEAN]
        BY <1>l, <4>1 DEF FlagsOK
      <4>3. valQ' = Append(valQ, record) /\ UNCHANGED <<mq, mqDropped>>
        BY <3>1 DEF UpdateReturns
      <4> HIDE DEF record
      <4>4. valQ' \in Seq([ver : Nat, metrics : BOOLEAN])
        BY <1>l, <4>2, <4>3, AppendProperties DEF QueueOK
      <4> QED BY <1>l, <4>3, <4>4 DEF QueueOK
    <3> QED BY <1>7, <1>f, <3>1 DEF Update, UpdateEnter, UpdateCounts, UpdateSets
  <2> QED BY <1>l, <1>f, <2>0, <2>2, <2>3 DEF CoroutinesOK, corVars, TypeOK
<1>8. CASE Resume
  <2>0. /\ UNCHANGED <<corVars, flowVars, mqVars, trainVars, syncPc, pastVars>>
        /\ UNCHANGED <<proc, hot, hand, doneBound>> /\ (NotifyAll \/ UNCHANGED woken)
    BY <1>8 DEF Resume, ResumeEnter, ResumeReturns, procVars
  <2>1. FlagsOK' /\ CallsOK' /\ ServersOK'
    <3>1. CASE ResumeEnter
      BY <1>l, <3>1 DEF ResumeEnter, FlagsOK, CallsOK, ServersOK, servVars
    <3>2. CASE ResumeReturns
      BY <1>l, <3>2 DEF ResumeReturns, FlagsOK, CallsOK, ServersOK, flagVars
    <3> QED BY <1>8, <3>1, <3>2 DEF Resume
  <2>2. ProcOK' /\ HandHeld'
    BY <1>l, <1>n, <2>0 DEF ProcOK, HandHeld
  <2> QED BY <1>l, <1>f, <2>0, <2>1, <2>2 DEF CoroutinesOK, corVars, TypeOK
<1>b. ASSUME GetValidate
      PROVE  /\ valQ' \in Seq([ver : Nat, metrics : BOOLEAN])
             /\ valData' \in {"none", "plain", "metrics"} /\ logged' \in Seq(Nat)
  <2>0. valQ \in Seq([ver : Nat, metrics : BOOLEAN]) /\ logged \in Seq(Nat)
    BY <1>l DEF QueueOK, PastOK
  <2>1. CASE valQ # <<>>
    <3>1. Head(valQ) \in [ver : Nat, metrics : BOOLEAN] /\ Tail(valQ) \in Seq([ver : Nat, metrics : BOOLEAN])
      BY <2>0, <2>1, HeadTailProperties
    <3>2. Append(logged, Head(valQ).ver) \in Seq(Nat)
      <4> DEFINE n == Head(valQ).ver
      <4>1. n \in Nat
        BY <3>1
      <4> HIDE DEF n
      <4>2. Append(logged, n) \in Seq(Nat)
        BY <2>0, <4>1, AppendProperties
      <4> QED BY <4>2 DEF n
    <3> QED BY <1>b, <2>0, <2>1, <3>1, <3>2 DEF GetValidate
  <2> QED BY <1>b, <2>0, <2>1 DEF GetValidate
<1>9. CASE Train
  <2>0. UNCHANGED <<flagVars, flowVars, procVars, corVars, callVars, servVars, syncPc>>
    BY <1>9 DEF Train, TrainerGetsValidation, TrainerGetsSample, TrainerTrains, TrainerEnds,
                TrainerLogsLast, rollouterVars
  <2> SUFFICES QueueOK' /\ TrainerOK' /\ PastOK'
    BY <1>l, <1>f, <2>0 DEF TypeOK, CoroutinesOK
  <2>1. CASE TrainerGetsValidation
    <3>1. /\ GetValidate /\ trainer' = "collect" /\ batch' = <<>>
          /\ UNCHANGED <<mq, mqDropped, localStep, version, final, consumed, tag, failures>>
      BY <2>1 DEF TrainerGetsValidation
    <3>2. batch' \in Seq(Samples)
      BY <3>1, EmptySeq
    <3> QED BY <1>l, <1>b, <2>0, <3>1, <3>2 DEF QueueOK, TrainerOK, PastOK
  <2>2. CASE TrainerGetsSample
    <3>0. /\ mq # <<>> /\ mq' = Tail(mq)
          /\ UNCHANGED <<valQ, mqDropped, localStep, version, final, valData, tag, failures, logged>>
      BY <2>2 DEF TrainerGetsSample
    <3>1. Head(mq) \in Samples \cup {Sentinel} /\ Tail(mq) \in Seq(Samples \cup {Sentinel})
      BY <1>l, <3>0, HeadTailProperties DEF QueueOK
    <3>2. CASE Head(mq) = Sentinel
      <4>1. trainer' = "ending" /\ UNCHANGED <<batch, consumed>>
        BY <2>2, <3>2 DEF TrainerGetsSample
      <4> QED BY <1>l, <2>0, <3>0, <3>1, <4>1 DEF QueueOK, TrainerOK, PastOK
    <3>3. CASE Head(mq) # Sentinel
      <4>1. /\ batch' = Append(batch, Head(mq)) /\ consumed' = consumed \cup {Head(mq)}
            /\ trainer' \in {"train", "collect"}
        BY <2>2, <3>3 DEF TrainerGetsSample
      <4>2. batch' \in Seq(Samples)
        BY <1>l, <3>1, <3>3, <4>1, AppendProperties DEF TrainerOK
      <4> QED BY <1>l, <2>0, <3>0, <3>1, <3>3, <4>1, <4>2 DEF QueueOK, TrainerOK, PastOK
    <3> QED BY <3>2, <3>3
  <2>3. CASE TrainerTrains \/ TrainerEnds
    <3>1. UNCHANGED <<mqVars, pastVars>> /\ UNCHANGED <<batch, final, valData>>
      BY <2>3 DEF TrainerTrains, TrainerEnds
    <3>2. Trigger \in Nat \ {0}
      BY ConfigAssumption
    <3>3. TrainerOK'
      BY <1>l, <2>0, <2>3, <3>1, <3>2 DEF TrainerTrains, TrainerEnds, SyncDue, TrainerOK
    <3> QED BY <1>f, <3>1, <3>3
  <2>4. CASE TrainerLogsLast
    <3>1. /\ GetValidate /\ trainer' = "done"
          /\ UNCHANGED <<mq, mqDropped, batch, localStep, version, final, consumed, tag, failures>>
      BY <2>4 DEF TrainerLogsLast
    <3> QED BY <1>l, <1>b, <2>0, <3>1 DEF QueueOK, TrainerOK, PastOK
  <2> QED BY <1>9, <2>1, <2>2, <2>3, <2>4 DEF Train
<1>10. CASE Sync
  <2>0. UNCHANGED <<flagVars, flowVars, procVars, corVars, mqVars, pastVars>>
    BY <1>10 DEF Sync, SyncStarts, SyncBroadcasts, SyncReturns, rollouterVars
  <2>1. CallsOK' /\ ServersOK' /\ TrainerOK'
    <3>1. CASE SyncStarts
      BY <1>l, <3>1 DEF SyncStarts, CallsOK, ServersOK, TrainerOK, servVars
    <3>2. CASE SyncBroadcasts
      BY <1>l, <3>2 DEF SyncBroadcasts, CallsOK, ServersOK, TrainerOK, trainVars
    <3>3. CASE SyncReturns
      BY <1>l, <3>3 DEF SyncReturns, CallsOK, ServersOK, TrainerOK
    <3> QED BY <1>10, <3>1, <3>2, <3>3 DEF Sync
  <2> QED BY <1>l, <1>f, <2>0, <2>1 DEF TypeOK, CoroutinesOK
<1>11. ASSUME NEW s \in Samples, Task(s) PROVE TypeOK' /\ HandHeld'
  <2>0. /\ UNCHANGED <<flagVars, procVars, corVars, callVars, servVars, mqVars, trainVars, syncPc>>
        /\ UNCHANGED <<fed, pending, active, consumed, logged>>
    BY <1>11 DEF Task, TaskStart, ServerAnswers, TaskEnd, pastVars
  <2>1. \E st \in {"sent", "gen", "cut", "done", "failed"} : task' = [task EXCEPT ![s] = st]
    BY <1>11 DEF Task, TaskStart, ServerAnswers, Accepts, TaskEnd, Completes, IsInterrupted, Fails
  <2>2. cancelQ' \in {cancelQ, Append(cancelQ, s)} /\ resultQ' \in {resultQ, Append(resultQ, s)}
    BY <1>11 DEF Task, TaskStart, ServerAnswers, TaskEnd, Completes, IsInterrupted, Fails
  <2>3. cancelQ' \in Seq(Samples) /\ resultQ' \in Seq(Samples)
    <3>1. \A q \in Seq(Samples) : Append(q, s) \in Seq(Samples)
      BY <1>11, AppendProperties
    <3>2. cancelQ \in Seq(Samples) /\ resultQ \in Seq(Samples)
      BY <1>l DEF FlowOK
    <3> QED BY <2>2, <3>1, <3>2
  <2>4. FlowOK'
    BY <1>l, <2>0, <2>1, <2>3 DEF FlowOK
  <2>5. PastOK'
    <3>1. failures' \subseteq failures \cup {s}
      BY <1>11 DEF Task, TaskStart, ServerAnswers, TaskEnd, Completes, IsInterrupted, Fails, pastVars
    <3>2. tag' \in [Samples -> Nat \cup {NoVersion}]
      BY <1>l, <1>11 DEF Task, TaskStart, ServerAnswers, TaskEnd, pastVars, PastOK, FlagsOK
    <3> QED BY <1>l, <2>0, <3>1, <3>2 DEF PastOK
  <2> QED BY <1>l, <1>f, <2>0, <2>4, <2>5 DEF TypeOK, CoroutinesOK
<1>12. CASE UNCHANGED vars
  BY <1>l, <1>f, <1>12 DEF vars, TypeOK, CoroutinesOK
<1> QED
  BY <1>1, <1>2, <1>3, <1>4, <1>5, <1>6, <1>7, <1>8, <1>9, <1>10, <1>11, <1>12 DEF Next, Calls

LEMMA TypeInvInit == Init => TypeInv
<1> SUFFICES ASSUME Init PROVE TypeInv
  OBVIOUS
<1>1. FlagsOK /\ ProcOK /\ CallsOK /\ ServersOK /\ HandHeld
  BY DEF Init, FlagsOK, ProcOK, CallsOK, ServersOK, HandHeld, ProcPcs
<1>2. FlowOK
  BY EmptySeq, ConfigAssumption DEF Init, FlowOK
<1>3. CoroutinesOK /\ LockInv
  BY EmptySeq DEF Init, CoroutinesOK, LockInv, CriticalSections
<1>4. QueueOK
  <2>1. valQ = <<[ver |-> 0, metrics |-> ValBeforeTrain]>> /\ mq = <<>> /\ mqDropped = {}
    BY DEF Init
  <2>2. [ver |-> 0, metrics |-> ValBeforeTrain] \in [ver : Nat, metrics : BOOLEAN]
    BY ConfigAssumption
  <2> QED BY <2>1, <2>2, EmptySeq DEF QueueOK
<1>5. TrainerOK
  <2>1. /\ trainer = "start" /\ batch = <<>> /\ localStep = 1 /\ version = 0
        /\ final = FALSE /\ valData = "none" /\ syncPc = "idle"
    BY DEF Init
  <2>2. 1 \in 1 .. Trigger
    BY ConfigAssumption
  <2> QED BY <2>1, <2>2, EmptySeq DEF TrainerOK
<1>6. PastOK
  BY EmptySeq DEF Init, PastOK
<1> QED BY <1>1, <1>2, <1>3, <1>4, <1>5, <1>6 DEF TypeInv, TypeOK

(* Queues, counters, coroutines, tasks and versions keep their types.      *)
THEOREM TypeCorrect == Safe => []TypeOK
<1>1. TypeInv => TypeOK
  BY DEF TypeInv
<1> QED BY <1>1, TypeInvInit, TypeInvStep, PTL DEF Safe

-----------------------------------------------------------------------------
(* pause().                                                                *)
QuietInv == TaskInv /\ LockInv /\ PauseQuiesces

LEMMA QuietInvStep ==
  QuietInv /\ [Next]_vars => QuietInv'
<1> SUFFICES ASSUME QuietInv, [Next]_vars, pausePc' = "reset"
             PROVE  active' = {}
  BY TaskInvStep, LockInvStep
     DEF QuietInv, PauseQuiesces, TaskInv, RunningIsActive
<1> USE DEF flagVars, flowVars, procVars, corVars, callVars, servVars, mqVars,
            trainVars, pastVars, rollouterVars
<1>1. CASE PauseGathers
  BY <1>1 DEF PauseGathers
<1>2. CASE ~PauseGathers
  <2>1. pausePc = "reset"
    <3>1. CASE Feed \/ Consumer \/ Main \/ Monitor \/ UNCHANGED vars
      BY <3>1 DEF Feed, Consumer, ConsumerTakes, ConsumerPuts, Main, MainJoins,
                  MainFinishes, MainStops, Monitor, MonitorTop, MonitorWakes,
                  MonitorUnpauses, vars
    <3>2. CASE ProcContended \/ ProcCheck \/ ProcGet \/ ProcPause
               \/ ProcIdle \/ ProcSubmit \/ ProcWoken
      BY <3>2 DEF ProcContended, ProcCheck, ProcGet, ProcPause, ProcIdle,
                  ProcSubmit, ProcWoken
    <3>3. ASSUME NEW l \in Loops,
                 LoopExit(l) \/ LoopLocked(l) \/ LoopReap(l)
          PROVE  pausePc = "reset"
      BY <3>3 DEF LoopExit, LoopLocked, LoopReap
    <3>4. CASE Calls
      BY <1>2, <3>4
         DEF Calls, Pause, PauseEnter, PauseCancels, PauseReturns, Update,
             UpdateEnter, UpdateCounts, UpdateSets, UpdateReturns, Resume,
             ResumeEnter, ResumeReturns
    <3>5. CASE Train \/ Sync
      BY <3>5 DEF Train, TrainerGetsValidation, TrainerGetsSample,
                  TrainerTrains, TrainerEnds, TrainerLogsLast,
                  Sync, SyncStarts, SyncBroadcasts, SyncReturns
    <3>6. ASSUME NEW s \in Samples, Task(s) PROVE pausePc = "reset"
      BY <3>6 DEF Task, TaskStart, ServerAnswers, TaskEnd
    <3> QED
      BY <3>1, <3>2, <3>3, <3>4, <3>5, <3>6 DEF Next, Processor
  <2>2. active = {} /\ Holds("pause")
    BY <2>1 DEF QuietInv, PauseQuiesces, LockInv, CriticalSections
  <2>3. ~ProcSubmit
    BY <2>2 DEF ProcSubmit, Enter, Holds, AtLock
  <2>4. ASSUME NEW l \in Loops, LoopReap(l) PROVE active' = {}
    BY <2>2, <2>4 DEF LoopReap, StillPending
  <2>5. ASSUME NEW s \in Samples, Task(s) PROVE active' = {}
    BY <2>2, <2>5 DEF Task, TaskStart, ServerAnswers, TaskEnd
  <2> QED BY <1>2, <2>2, <2>3, <2>4, <2>5, TaskFrame
<1> QED BY <1>1, <1>2

(* When pause() is about to return, no rollout is running: what the        *)
(* processor took before the pause it cannot submit under it.              *)
THEOREM PauseIsQuiet == Safe => []PauseQuiesces
<1>1. Init => QuietInv
  BY EmptySeq
     DEF Init, QuietInv, TaskInv, RunningIsActive, Running, TaskStates,
         LockInv, CriticalSections, PauseQuiesces
<1>2. QuietInv => PauseQuiesces
  BY DEF QuietInv
<1> QED BY <1>1, <1>2, QuietInvStep, PTL DEF Safe

-----------------------------------------------------------------------------
(* The order of a synchronization, and what the servers know of it.        *)
SyncOrder ==
  /\ syncPc \in {"idle", "pausing", "loading"}
  /\ syncPc = "pausing" <=> pausePc # "idle"
  /\ syncPc = "loading" <=> loading
  /\ syncPc # "idle" => resumePc = "idle"

ServersKnow ==
  Partial =>
    /\ pausePc \in {"gather", "reset", "done"} \/ loading => serverPaused
    /\ pausePc \in {"reset", "done"} \/ loading
         => \A s \in Samples : task[s] # "gen"

SilentInv == QuietInv /\ SyncOrder /\ ServersKnow

syncVars == <<syncPc, pausePc, resumePc, loading, serverPaused>>

(* Only the calls of the synchronizer and of the rollouter touch these.    *)
LEMMA SyncFrame ==
  ASSUME [Next]_vars
  PROVE  Pause \/ Resume \/ Sync \/ UNCHANGED syncVars
<1> USE DEF flagVars, flowVars, procVars, corVars, callVars, servVars, mqVars,
            trainVars, pastVars, rollouterVars, syncVars
<1>1. CASE Feed \/ Consumer \/ Main \/ Monitor \/ UNCHANGED vars
  BY <1>1 DEF Feed, Consumer, ConsumerTakes, ConsumerPuts, Main, MainJoins,
              MainFinishes, MainStops, Monitor, MonitorTop, MonitorWakes,
              MonitorUnpauses, vars
<1>2. CASE ProcContended \/ ProcCheck \/ ProcGet \/ ProcPause
           \/ ProcIdle \/ ProcSubmit \/ ProcWoken
  BY <1>2 DEF ProcContended, ProcCheck, ProcGet, ProcPause, ProcIdle,
              ProcSubmit, ProcWoken
<1>3. ASSUME NEW l \in Loops, LoopExit(l) \/ LoopLocked(l) \/ LoopReap(l)
      PROVE  UNCHANGED syncVars
  BY <1>3 DEF LoopExit, LoopLocked, LoopReap
<1>4. CASE Update
  BY <1>4 DEF Update, UpdateEnter, UpdateCounts, UpdateSets, UpdateReturns
<1>5. CASE Train
  BY <1>5 DEF Train, TrainerGetsValidation, TrainerGetsSample,
              TrainerTrains, TrainerEnds, TrainerLogsLast
<1>6. ASSUME NEW s \in Samples, Task(s) PROVE UNCHANGED syncVars
  BY <1>6 DEF Task, TaskStart, ServerAnswers, TaskEnd
<1> QED
  BY <1>1, <1>2, <1>3, <1>4, <1>5, <1>6 DEF Next, Processor, Calls

LEMMA SyncOrderStep ==
  SyncOrder /\ [Next]_vars => SyncOrder'
<1> SUFFICES ASSUME SyncOrder, [Next]_vars PROVE SyncOrder'
  OBVIOUS
<1> USE DEF SyncOrder, servVars, callVars
<1>1. CASE UNCHANGED syncVars
  BY <1>1 DEF syncVars
<1>2. CASE Pause
  BY <1>2 DEF Pause, PauseEnter, PauseCancels, PauseGathers, PauseReturns
<1>3. CASE Resume
  BY <1>3 DEF Resume, ResumeEnter, ResumeReturns
<1>4. CASE Sync
  BY <1>4 DEF Sync, SyncStarts, SyncBroadcasts, SyncReturns
<1> QED BY <1>1, <1>2, <1>3, <1>4, SyncFrame

LEMMA ServersKnowStep ==
  SilentInv /\ [Next]_vars => ServersKnow'
<1> SUFFICES ASSUME SilentInv, [Next]_vars, Partial PROVE ServersKnow'
  BY DEF ServersKnow
<1> USE DEF SilentInv, ServersKnow, servVars, callVars, flowVars
<1> DEFINE Silent == \A s \in Samples : task[s] # "gen"
<1>1. CASE UNCHANGED syncVars
  <2>1. ASSUME Silent, serverPaused PROVE Silent'
    <3>1. CASE UNCHANGED <<active, task>>
      BY <2>1, <3>1
    <3>2. CASE ProcSubmits
      BY <2>1, <3>2 DEF ProcSubmits, QuietInv, TaskInv
    <3>3. CASE PauseGathers
      BY <2>1, <3>3 DEF PauseGathers
    <3>4. ASSUME NEW l \in Loops, LoopReap(l) PROVE Silent'
      BY <2>1, <3>4 DEF LoopReap
    <3>5. ASSUME NEW s \in Samples, Task(s) PROVE Silent'
      <4>1. \E st \in TaskStates \ {"gen"} : task' = [task EXCEPT ![s] = st]
        BY <2>1, <3>5 DEF Task, TaskStart, ServerAnswers, Accepts, TaskEnd,
           Completes, IsInterrupted, Fails, TaskStates
      <4> QED BY <2>1, <4>1 DEF QuietInv, TaskInv
    <3> QED BY <3>1, <3>2, <3>3, <3>4, <3>5, TaskFrame
  <2> QED BY <1>1, <2>1 DEF syncVars
<1>2. CASE Pause
  <2>1. CASE PauseEnter
    BY <2>1 DEF PauseEnter, SyncOrder
  <2>2. CASE PauseCancels
    BY <2>2 DEF PauseCancels, SyncOrder
  <2>3. CASE PauseGathers
    <3>1. /\ active' = {} /\ task' = task /\ serverPaused' = serverPaused
          /\ pausePc = "gather" /\ pausePc' = "reset"
      BY <2>3 DEF PauseGathers
    <3>2. TaskInv'
      BY TaskInvStep DEF QuietInv
    <3>3. Silent'
      BY <3>1, <3>2 DEF TaskInv, RunningIsActive, Running
    <3> QED BY <3>1, <3>3
  <2>4. CASE PauseReturns
    BY <2>4 DEF PauseReturns
  <2> QED BY <1>2, <2>1, <2>2, <2>3, <2>4 DEF Pause
<1>3. CASE Resume
  BY <1>3 DEF Resume, ResumeEnter, ResumeReturns, SyncOrder
<1>4. CASE Sync
  BY <1>4 DEF Sync, SyncStarts, SyncBroadcasts, SyncReturns, SyncOrder,
              rollouterVars
<1> QED BY <1>1, <1>2, <1>3, <1>4, SyncFrame

(* With partial rollout the servers generate nothing while their weights   *)
(* are replaced: although the monitor may end the pause early and new      *)
(* tasks be submitted, a paused server refuses them.                       *)
THEOREM SilentLoading ==
  ASSUME Partial
  PROVE  Safe => []SilentWhileLoading
<1>1. Init => SilentInv
  BY EmptySeq
     DEF Init, SilentInv, QuietInv, TaskInv, RunningIsActive, Running,
         TaskStates, LockInv, CriticalSections, PauseQuiesces, SyncOrder,
         ServersKnow
<1>2. SilentInv /\ [Next]_vars => SilentInv'
  BY QuietInvStep, SyncOrderStep, ServersKnowStep DEF SilentInv
<1>3. SilentInv => SilentWhileLoading
  BY DEF SilentInv, ServersKnow, SilentWhileLoading
<1> QED BY <1>1, <1>2, <1>3, PTL DEF Safe

-----------------------------------------------------------------------------
(* Validation records.                                                     *)
(* Who moves the trainer and the synchronizer.                             *)
LEMMA TrainerFrame ==
  ASSUME [Next]_vars
  PROVE  Train \/ Sync \/ UNCHANGED <<trainVars, syncPc>>
<1> USE DEF flagVars, flowVars, procVars, corVars, callVars, servVars, mqVars,
            trainVars, pastVars, rollouterVars
<1>1. CASE Processor
  <2>1. CASE ProcContended \/ ProcPause \/ ProcIdle \/ ProcSubmit \/ ProcWoken
    BY <2>1 DEF ProcContended, ProcPause, ProcIdle, ProcSubmit, ProcWoken
  <2>2. CASE ProcCheck \/ ProcGet
    BY <2>2 DEF ProcCheck, ProcGet
  <2>3. ASSUME NEW l \in Loops, LoopExit(l) \/ LoopLocked(l) \/ LoopReap(l)
        PROVE  UNCHANGED <<trainVars, syncPc>>
    BY <2>3 DEF LoopExit, LoopLocked, LoopReap
  <2> QED BY <1>1, <2>1, <2>2, <2>3 DEF Processor
<1>2. CASE Feed \/ Consumer \/ Main \/ Monitor \/ UNCHANGED vars
  BY <1>2 DEF Feed, Consumer, ConsumerTakes, ConsumerPuts, Main, MainJoins, MainFinishes,
              MainStops, Monitor, MonitorTop, MonitorWakes, MonitorUnpauses, vars
<1>3. CASE Calls
  BY <1>3 DEF Calls, Pause, PauseEnter, PauseCancels, PauseGathers, PauseReturns,
              Update, UpdateEnter, UpdateCounts, UpdateSets, UpdateReturns,
              Resume, ResumeEnter, ResumeReturns
<1>4. ASSUME NEW s \in Samples, Task(s) PROVE UNCHANGED <<trainVars, syncPc>>
  BY <1>4 DEF Task, TaskStart, ServerAnswers, TaskEnd
<1> QED BY <1>1, <1>2, <1>3, <1>4 DEF Next

(* The records that are unread or about to be put: at most one while the    *)
(* trainer has not started a synchronization since it last read them.      *)
Unread == Len(valQ) + (IF updatePc = "idle" THEN 0 ELSE 1)

FewRecords ==
  /\ Unread <= 2
  /\ trainer \in {"start", "collect", "train", "sync", "ending", "lastSync"} => Unread <= 1

(* The versions of the trainer, of the servers and of the rollouter.       *)
VersionsAgree ==
  /\ syncPc # "idle" => updatePc = "idle" /\ trainer \in {"sync", "lastSync"}
  /\ version = IF trainer \in {"sync", "lastSync"} THEN weights + 1 ELSE weights
  /\ updatePc # "called" => rollVersion = weights
  /\ updatePc = "called" => rollVersion < weights

(* Records are put in order, each behind all that were put or logged.      *)
RecordsInOrder ==
  /\ \A i \in 1 .. Len(valQ) : /\ valQ[i].ver <= rollVersion
                               /\ updatePc # "idle" => valQ[i].ver < weights
  /\ \A j \in 1 .. Len(logged) : /\ logged[j] <= rollVersion
                                 /\ updatePc # "idle" => logged[j] < weights
  /\ \A i, j \in 1 .. Len(valQ) : i < j => valQ[i].ver < valQ[j].ver
  /\ \A i \in 1 .. Len(valQ), j \in 1 .. Len(logged) : logged[j] < valQ[i].ver
  /\ \A i, j \in 1 .. Len(logged) : i < j => logged[i] < logged[j]

ValInv == TypeInv /\ FewRecords /\ VersionsAgree /\ RecordsInOrder

valVars == <<valQ, updatePc, trainer, syncPc, version, weights, rollVersion, logged>>

LEMMA ValFrame ==
  ASSUME [Next]_vars
  PROVE  Update \/ Train \/ Sync \/ UNCHANGED valVars
<1> USE DEF flagVars, flowVars, procVars, corVars, callVars, servVars, mqVars,
            trainVars, pastVars, rollouterVars, valVars
<1>1. CASE Processor
  <2>1. CASE ProcContended \/ ProcPause \/ ProcIdle \/ ProcSubmit \/ ProcWoken
    BY <2>1 DEF ProcContended, ProcPause, ProcIdle, ProcSubmit, ProcWoken
  <2>2. CASE ProcCheck \/ ProcGet
    BY <2>2 DEF ProcCheck, ProcGet, TakePending
  <2>3. ASSUME NEW l \in Loops, LoopExit(l) \/ LoopLocked(l) \/ LoopReap(l)
        PROVE  UNCHANGED valVars
    BY <2>3 DEF LoopExit, LoopLocked, LoopReap
  <2> QED BY <1>1, <2>1, <2>2, <2>3 DEF Processor
<1>2. CASE Feed \/ Consumer \/ Main \/ Monitor \/ UNCHANGED vars
  BY <1>2 DEF Feed, Consumer, ConsumerTakes, ConsumerPuts, PutIntoQueue, Main, MainJoins,
              MainFinishes, MainStops, Monitor, MonitorTop, MonitorWakes, MonitorUnpauses, vars
<1>3. CASE Pause \/ Resume
  BY <1>3 DEF Pause, PauseEnter, PauseCancels, PauseGathers, PauseReturns,
              Resume, ResumeEnter, ResumeReturns
<1>4. ASSUME NEW s \in Samples, Task(s) PROVE UNCHANGED valVars
  BY <1>4 DEF Task, TaskStart, ServerAnswers, TaskEnd
<1> QED BY <1>1, <1>2, <1>3, <1>4 DEF Next, Calls

LEMMA ValTypes ==
  ASSUME TypeInv
  PROVE  /\ valQ \in Seq([ver : Nat, metrics : BOOLEAN]) /\ logged \in Seq(Nat)
         /\ Len(valQ) \in Nat /\ Len(logged) \in Nat
         /\ version \in Nat /\ weights \in Nat /\ rollVersion \in Nat
         /\ \A i \in 1 .. Len(valQ) : valQ[i].ver \in Nat
         /\ \A i \in 1 .. Len(logged) : logged[i] \in Nat
<1>1. /\ valQ \in Seq([ver : Nat, metrics : BOOLEAN]) /\ logged \in Seq(Nat)
      /\ version \in Nat /\ weights \in Nat /\ rollVersion \in Nat
  BY DEF TypeInv, TypeOK, QueueOK, PastOK, TrainerOK, ServersOK, FlagsOK
<1>2. /\ Len(valQ) \in Nat /\ Len(logged) \in Nat
      /\ \A i \in 1 .. Len(valQ) : valQ[i] \in [ver : Nat, metrics : BOOLEAN]
      /\ \A i \in 1 .. Len(logged) : logged[i] \in Nat
  BY <1>1, LenProperties
<1> QED BY <1>1, <1>2

(* get_validate removes the oldest record, and logs it if it has metrics.  *)
LEMMA GetValidateStep ==
  ASSUME TypeInv, RecordsInOrder, GetValidate, UNCHANGED <<rollVersion, weights, updatePc>>
  PROVE  /\ RecordsInOrder'
         /\ Len(valQ') = IF valQ = <<>> THEN 0 ELSE Len(valQ) - 1
<1>1. CASE valQ = <<>>
  <2>1. UNCHANGED <<valQ, logged>>
    BY <1>1 DEF GetValidate
  <2>2. Len(valQ) = 0
    BY <1>1
  <2> QED BY <1>1, <2>1, <2>2 DEF RecordsInOrder
<1>2. CASE valQ # <<>>
  <2> DEFINE h == Head(valQ).ver
  <2>1. /\ valQ' = Tail(valQ)
        /\ logged' = Append(logged, h) \/ logged' = logged
    BY <1>2 DEF GetValidate
  <2>2. /\ Len(valQ) \in Nat \ {0} /\ Len(logged) \in Nat
        /\ \A i \in 1 .. Len(valQ) : valQ[i].ver \in Nat
        /\ \A i \in 1 .. Len(logged) : logged[i] \in Nat
    BY <1>2, ValTypes, EmptySeq
  <2>3. /\ Len(valQ') = Len(valQ) - 1
        /\ \A i \in 1 .. Len(valQ') : valQ'[i] = valQ[i + 1]
        /\ h = valQ[1].ver
    BY <1>2, <2>1, ValTypes, HeadTailProperties
  <2>4. h \in Nat /\ 1 \in 1 .. Len(valQ)
    BY <2>2, <2>3
  <2> HIDE DEF h
  <2>5. \/ logged' = logged
        \/ /\ Len(logged') = Len(logged) + 1 /\ logged'[Len(logged) + 1] = h
           /\ \A j \in 1 .. Len(logged) : logged'[j] = logged[j]
    <3>1. CASE logged' = Append(logged, h)
      BY <2>4, <3>1, ValTypes, AppendProperties
    <3> QED BY <2>1, <3>1
  <2>6. \A i \in 1 .. Len(valQ') : i + 1 \in 1 .. Len(valQ) /\ 1 < i + 1
    BY <2>2, <2>3
  <2>7. \A j \in 1 .. Len(logged') : j \in 1 .. Len(logged) \/ j = Len(logged) + 1
    BY <2>2, <2>5
  <2>8. \A i \in 1 .. Len(valQ') : /\ valQ'[i].ver <= rollVersion'
                                   /\ updatePc' # "idle" => valQ'[i].ver < weights'
    BY <2>3, <2>6 DEF RecordsInOrder
  <2>9. \A j \in 1 .. Len(logged') : logged'[j] = h \/ (j \in 1 .. Len(logged)
                                                        /\ logged'[j] = logged[j])
    BY <2>2, <2>5, <2>7
  <2>10. \A j \in 1 .. Len(logged') : /\ logged'[j] <= rollVersion'
                                      /\ updatePc' # "idle" => logged'[j] < weights'
    BY <2>3, <2>4, <2>9 DEF RecordsInOrder
  <2>11. ASSUME NEW i \in 1 .. Len(valQ'), NEW j \in 1 .. Len(valQ'), i < j
         PROVE  valQ'[i].ver < valQ'[j].ver
    <3>1. i + 1 \in 1 .. Len(valQ) /\ j + 1 \in 1 .. Len(valQ) /\ i + 1 < j + 1
      BY <2>2, <2>3, <2>11
    <3>2. valQ[i + 1].ver < valQ[j + 1].ver
      BY <3>1 DEF RecordsInOrder
    <3> QED BY <2>3, <3>2
  <2>12. \A i \in 1 .. Len(valQ'), j \in 1 .. Len(logged') : logged'[j] < valQ'[i].ver
    BY <2>3, <2>4, <2>6, <2>9 DEF RecordsInOrder
  <2>13. \A i, j \in 1 .. Len(logged') : i < j => logged'[i] < logged'[j]
    BY <2>2, <2>3, <2>4, <2>5, <2>7 DEF RecordsInOrder
  <2> QED BY <1>2, <2>3, <2>8, <2>10, <2>11, <2>12, <2>13 DEF RecordsInOrder
<1> QED BY <1>1, <1>2

(* update_param_version puts its record behind the others.                 *)
LEMMA PutRecordStep ==
  ASSUME TypeInv, RecordsInOrder, VersionsAgree, UpdateReturns
  PROVE  RecordsInOrder' /\ Len(valQ') = Len(valQ) + 1
<1> DEFINE r == [ver |-> rollVersion, metrics |-> ValidationDue(rollVersion)]
<1>1. /\ updatePc = "putVal" /\ updatePc' = "idle" /\ valQ' = Append(valQ, r)
      /\ UNCHANGED <<rollVersion, weights, logged>>
  BY DEF UpdateReturns, flagVars, servVars, pastVars
<1>2. /\ valQ \in Seq([ver : Nat, metrics : BOOLEAN]) /\ Len(valQ) \in Nat
      /\ rollVersion = weights /\ weights \in Nat /\ Len(logged) \in Nat
      /\ \A i \in 1 .. Len(valQ) : valQ[i].ver \in Nat
  BY <1>1, ValTypes DEF VersionsAgree
<1>3. r \in [ver : Nat, metrics : BOOLEAN] /\ r.ver = rollVersion
  BY <1>2, ConfigAssumption DEF ValidationDue, TypeInv, TypeOK, TrainerOK
<1> HIDE DEF r
<1>4. /\ Len(valQ') = Len(valQ) + 1 /\ valQ'[Len(valQ) + 1] = r
      /\ \A i \in 1 .. Len(valQ) : valQ'[i] = valQ[i]
  BY <1>1, <1>2, <1>3, AppendProperties
<1>5. \A i \in 1 .. Len(valQ') : i \in 1 .. Len(valQ) \/ i = Len(valQ) + 1
  BY <1>2, <1>4
<1>6. \A i \in 1 .. Len(valQ) : valQ[i].ver < weights
  BY <1>1 DEF RecordsInOrder
<1>7. \A i \in 1 .. Len(valQ') : /\ valQ'[i].ver <= rollVersion'
                                 /\ updatePc' # "idle" => valQ'[i].ver < weights'
  BY <1>1, <1>2, <1>3, <1>4, <1>5 DEF RecordsInOrder
<1>8. ASSUME NEW i \in 1 .. Len(valQ'), NEW j \in 1 .. Len(valQ'), i < j
      PROVE  valQ'[i].ver < valQ'[j].ver
  <2>1. i \in 1 .. Len(valQ) /\ valQ'[i] = valQ[i]
    BY <1>2, <1>4, <1>5, <1>8
  <2>2. CASE j \in 1 .. Len(valQ)
    BY <1>4, <1>8, <2>1, <2>2 DEF RecordsInOrder
  <2>3. CASE j = Len(valQ) + 1
    BY <1>2, <1>3, <1>4, <1>6, <2>1, <2>3
  <2> QED BY <1>5, <2>2, <2>3
<1>9. \A i \in 1 .. Len(valQ'), j \in 1 .. Len(logged') : logged'[j] < valQ'[i].ver
  BY <1>1, <1>2, <1>3, <1>4, <1>5 DEF RecordsInOrder
<1> QED BY <1>1, <1>2, <1>4, <1>7, <1>8, <1>9 DEF RecordsInOrder

LEMMA ValInvStep == ValInv /\ [Next]_vars => ValInv'
<1> SUFFICES ASSUME ValInv, [Next]_vars PROVE FewRecords' /\ VersionsAgree' /\ RecordsInOrder'
  BY TypeInvStep DEF ValInv
<1>t. /\ TypeInv /\ FewRecords /\ VersionsAgree /\ RecordsInOrder
      /\ Len(valQ) \in Nat /\ version \in Nat /\ weights \in Nat /\ rollVersion \in Nat
      /\ \A i \in 1 .. Len(valQ) : valQ[i].ver \in Nat
      /\ \A i \in 1 .. Len(logged) : logged[i] \in Nat
  BY ValTypes DEF ValInv
<1>1. CASE UNCHANGED valVars
  BY <1>t, <1>1 DEF valVars, FewRecords, Unread, VersionsAgree, RecordsInOrder
<1>2. CASE UpdateEnter
  <2>1. /\ UNCHANGED <<valQ, trainer, syncPc, version, weights, logged>>
        /\ updatePc = "called"
        /\ \/ UNCHANGED <<updatePc, rollVersion>>
           \/ updatePc' = "size" /\ rollVersion' = weights
    BY <1>2 DEF UpdateEnter, NewVersion, mqVars, trainVars, servVars, pastVars
  <2>2. CASE UNCHANGED <<updatePc, rollVersion>>
    BY <1>1, <2>1, <2>2 DEF valVars
  <2>3. CASE updatePc' = "size" /\ rollVersion' = weights
    <3>1. FewRecords' /\ VersionsAgree'
      BY <1>t, <2>1, <2>3 DEF FewRecords, Unread, VersionsAgree
    <3>2. RecordsInOrder'
      BY <1>t, <2>1, <2>3 DEF RecordsInOrder
    <3> QED BY <3>1, <3>2
  <2> QED BY <2>1, <2>2, <2>3
<1>3. CASE UpdateCounts \/ UpdateSets
  <2>1. /\ UNCHANGED <<valQ, trainer, syncPc, version, weights, rollVersion, logged>>
        /\ updatePc \in {"size", "set"} /\ updatePc' \in {"set", "putVal"}
    BY <1>3 DEF UpdateCounts, UpdateSets, mqVars, trainVars, servVars, pastVars, flagVars
  <2>2. FewRecords' /\ VersionsAgree'
    BY <1>t, <2>1 DEF FewRecords, Unread, VersionsAgree
  <2>3. RecordsInOrder'
    BY <1>t, <2>1 DEF RecordsInOrder
  <2> QED BY <2>2, <2>3
<1>4. CASE UpdateReturns
  <2>1. /\ UNCHANGED <<trainer, syncPc, version, weights, rollVersion>>
        /\ updatePc = "putVal" /\ updatePc' = "idle"
    BY <1>4 DEF UpdateReturns, mqVars, trainVars, servVars, pastVars, flagVars
  <2>2. RecordsInOrder' /\ Len(valQ') = Len(valQ) + 1
    BY <1>t, <1>4, PutRecordStep
  <2>3. FewRecords' /\ VersionsAgree'
    BY <1>t, <2>1, <2>2 DEF FewRecords, Unread, VersionsAgree
  <2> QED BY <2>2, <2>3
<1>5. CASE TrainerGetsValidation \/ TrainerLogsLast
  <2>1. /\ GetValidate /\ UNCHANGED <<syncPc, version, weights, rollVersion, updatePc>>
        /\ \/ trainer \in {"start", "step"} /\ trainer' = "collect"
           \/ trainer = "lastVal" /\ trainer' = "done"
    BY <1>5 DEF TrainerGetsValidation, TrainerLogsLast, rollouterVars, flagVars, callVars, servVars
  <2>2. RecordsInOrder' /\ Len(valQ') = IF valQ = <<>> THEN 0 ELSE Len(valQ) - 1
    BY <1>t, <2>1, GetValidateStep
  <2>3. valQ = <<>> \/ Len(valQ) # 0
    BY <1>t, ValTypes, EmptySeq
  <2>4. Len(valQ') \in Nat /\ (Len(valQ') = 0 \/ Len(valQ') = Len(valQ) - 1)
    BY <1>t, <2>2, <2>3
  <2>5. VersionsAgree'
    BY <1>t, <2>1 DEF VersionsAgree
  <2>6. Unread' <= 1
    BY <1>t, <2>1, <2>4 DEF FewRecords, Unread
  <2>7. FewRecords'
    BY <1>t, <2>1, <2>4, <2>6 DEF FewRecords, Unread
  <2> QED BY <2>2, <2>5, <2>7
<1>6. CASE TrainerGetsSample \/ TrainerTrains \/ TrainerEnds
  <2>1. /\ UNCHANGED <<valQ, updatePc, syncPc, weights, rollVersion, logged>>
        /\ \/ trainer = "collect" /\ trainer' \in {"ending", "train", "collect"}
              /\ version' = version
           \/ trainer = "train" /\ trainer' = "step" /\ version' = version
           \/ trainer = "train" /\ trainer' = "sync" /\ version' = version + 1
           \/ trainer = "ending" /\ trainer' = "done" /\ version' = version
           \/ trainer = "ending" /\ trainer' = "lastSync" /\ version' = version + 1
    BY <1>6 DEF TrainerGetsSample, TrainerTrains, TrainerEnds, rollouterVars, flagVars, callVars,
                servVars, mqVars, pastVars
  <2>2. FewRecords'
    BY <1>t, <2>1 DEF FewRecords, Unread
  <2>3. VersionsAgree'
    BY <1>t, <2>1 DEF VersionsAgree
  <2>4. RecordsInOrder'
    BY <1>t, <2>1 DEF RecordsInOrder
  <2> QED BY <2>2, <2>3, <2>4
<1>7. CASE SyncStarts \/ SyncBroadcasts
  <2>1. /\ UNCHANGED <<valQ, updatePc, trainer, version, weights, rollVersion, logged>>
        /\ syncPc # "idle" \/ (trainer \in {"sync", "lastSync"} /\ updatePc = "idle")
    BY <1>7 DEF SyncStarts, SyncBroadcasts, rollouterVars, flagVars, mqVars, pastVars, servVars,
                trainVars
  <2>2. FewRecords' /\ VersionsAgree'
    BY <1>t, <2>1 DEF FewRecords, Unread, VersionsAgree
  <2>3. RecordsInOrder'
    BY <1>t, <2>1 DEF RecordsInOrder
  <2> QED BY <2>2, <2>3
<1>8. CASE SyncReturns
  <2>1. /\ UNCHANGED <<valQ, version, rollVersion, logged>>
        /\ syncPc = "loading" /\ syncPc' = "idle" /\ weights' = version /\ updatePc' = "called"
        /\ trainer' \in {"lastVal", "step"}
    BY <1>8 DEF SyncReturns, rollouterVars, flagVars, mqVars, pastVars
  <2>2. /\ updatePc = "idle" /\ trainer \in {"sync", "lastSync"}
        /\ version = weights + 1 /\ rollVersion = weights /\ Len(valQ) <= 1
    BY <1>t, <2>1 DEF VersionsAgree, FewRecords, Unread
  <2>3. FewRecords' /\ VersionsAgree'
    BY <1>t, <2>1, <2>2 DEF FewRecords, Unread, VersionsAgree
  <2>4. RecordsInOrder'
    BY <1>t, <2>1, <2>2 DEF RecordsInOrder
  <2> QED BY <2>3, <2>4
<1> QED BY <1>1, <1>2, <1>3, <1>4, <1>5, <1>6, <1>7, <1>8, ValFrame DEF Update, Train, Sync

LEMMA ValInvInit == Init => ValInv
<1> SUFFICES ASSUME Init PROVE ValInv
  OBVIOUS
<1> DEFINE r == [ver |-> 0, metrics |-> ValBeforeTrain]
<1>1. /\ valQ = <<r>> /\ updatePc = "idle" /\ trainer = "start" /\ syncPc = "idle"
      /\ version = 0 /\ weights = 0 /\ rollVersion = 0 /\ logged = <<>>
  BY DEF Init
<1>2. r.ver = 0 /\ <<r>>[1] = r /\ Len(<<r>>) = 1
  OBVIOUS
<1> HIDE DEF r
<1>3. Len(valQ) = 1 /\ valQ[1].ver = 0 /\ Len(logged) = 0
  BY <1>1, <1>2
<1>4. FewRecords /\ VersionsAgree
  <2>1. Unread = 1
    <3>1. Unread = Len(valQ)
      <4>1. Len(valQ) + 0 = Len(valQ)
        BY <1>3
      <4> QED BY <1>1, <4>1 DEF Unread
    <3> QED BY <1>3, <3>1
  <2> QED BY <1>1, <2>1 DEF FewRecords, VersionsAgree
<1>5. RecordsInOrder
  BY <1>1, <1>3 DEF RecordsInOrder
<1> QED BY <1>4, <1>5, TypeInvInit DEF ValInv

(* At most one validation record is unread when the next one is put, and   *)
(* metrics are logged in the order of their versions, although the update  *)
(* runs while the trainer goes on: FullyAsync's ValidationInOrder.         *)
THEOREM ValidationOrdered == Safe => []ValidationInOrder
<1>1. ValInv => ValidationInOrder
  <2> SUFFICES ASSUME ValInv PROVE ValidationInOrder
    OBVIOUS
  <2>1. Len(valQ) <= 2
    BY ValTypes DEF ValInv, FewRecords, Unread
  <2> QED BY <2>1 DEF ValInv, RecordsInOrder, ValidationInOrder
<1> QED BY <1>1, ValInvInit, ValInvStep, PTL DEF Safe

-----------------------------------------------------------------------------
(* Sequences, as sets and without repetitions.                             *)
LEMMA EmptyToSet == ToSet(<<>>) = {} /\ IsInjective(<<>>)
BY DEF ToSet, IsInjective

LEMMA AppendToSet ==
  ASSUME NEW S, NEW q \in Seq(S), NEW x \in S
  PROVE  /\ ToSet(Append(q, x)) = ToSet(q) \cup {x}
         /\ IsInjective(q) /\ x \notin ToSet(q) => IsInjective(Append(q, x))
<1> DEFINE r == Append(q, x)
<1>1. /\ Len(q) \in Nat /\ DOMAIN q = 1 .. Len(q)
      /\ r \in Seq(S) /\ Len(r) = Len(q) + 1
      /\ \A i \in 1 .. Len(q) : r[i] = q[i]
      /\ r[Len(q) + 1] = x
  BY AppendProperties, LenProperties
<1>2. DOMAIN r = 1 .. Len(q) + 1
  BY <1>1, LenProperties
<1> HIDE DEF r
<1>3. ToSet(r) = ToSet(q) \cup {x}
  BY <1>1, <1>2 DEF ToSet
<1>4. IsInjective(q) /\ x \notin ToSet(q) => IsInjective(r)
  BY <1>1, <1>2 DEF ToSet, IsInjective
<1> QED BY <1>3, <1>4 DEF r

LEMMA TailToSet ==
  ASSUME NEW S, NEW q \in Seq(S), q # <<>>
  PROVE  /\ ToSet(q) = {Head(q)} \cup ToSet(Tail(q))
         /\ IsInjective(q) => /\ IsInjective(Tail(q))
                              /\ Head(q) \notin ToSet(Tail(q))
                              /\ ToSet(Tail(q)) = ToSet(q) \ {Head(q)}
<1> DEFINE r == Tail(q)
<1>1. /\ Len(q) \in Nat \ {0} /\ DOMAIN q = 1 .. Len(q)
      /\ r \in Seq(S) /\ Len(r) = Len(q) - 1
      /\ \A i \in 1 .. Len(r) : r[i] = q[i + 1]
  BY HeadTailProperties, LenProperties, EmptySeq
<1>2. DOMAIN r = 1 .. Len(q) - 1
  BY <1>1, LenProperties
<1>3. Head(q) = q[1]
  OBVIOUS
<1> HIDE DEF r
<1>4. \A x \in ToSet(q) : x = q[1] \/ x \in ToSet(r)
  <2> SUFFICES ASSUME NEW i \in 1 .. Len(q), i # 1 PROVE q[i] \in ToSet(r)
    BY <1>1 DEF ToSet
  <2>1. i - 1 \in 1 .. Len(q) - 1 /\ r[i - 1] = q[i]
    BY <1>1
  <2> QED BY <1>2, <2>1 DEF ToSet
<1>5. \A x \in ToSet(r) : x \in ToSet(q)
  BY <1>1, <1>2 DEF ToSet
<1>6. q[1] \in ToSet(q)
  BY <1>1 DEF ToSet
<1>7. IsInjective(q) => IsInjective(r) /\ q[1] \notin ToSet(r)
  <2>1. \A i \in DOMAIN r : i + 1 \in DOMAIN q /\ i + 1 # 1 /\ r[i] = q[i + 1]
    BY <1>1, <1>2
  <2>2. 1 \in DOMAIN q /\ \A i \in DOMAIN r : i \in Int
    BY <1>1, <1>2
  <2> QED BY <2>1, <2>2 DEF ToSet, IsInjective
<1> QED BY <1>3, <1>4, <1>5, <1>6, <1>7 DEF r

LEMMA ConcatParts ==
  ASSUME NEW S, NEW q \in Seq(S), NEW r \in Seq(S)
  PROVE  /\ Len(q \o r) = Len(q) + Len(r)
         /\ \A i \in 1 .. Len(q) : (q \o r)[i] = q[i]
         /\ \A i \in Len(q) + 1 .. Len(q) + Len(r) : (q \o r)[i] = r[i - Len(q)]
<1> DEFINE t == q \o r
<1>1. /\ Len(t) = Len(q) + Len(r)
      /\ \A i \in 1 .. Len(q) + Len(r) : t[i] = IF i <= Len(q) THEN q[i] ELSE r[i - Len(q)]
  BY ConcatProperties
<1>2. Len(q) \in Nat /\ Len(r) \in Nat
  BY LenProperties
<1> HIDE DEF t
<1>3. \A i \in 1 .. Len(q) : t[i] = q[i]
  BY <1>1, <1>2
<1>4. \A i \in Len(q) + 1 .. Len(q) + Len(r) : t[i] = r[i - Len(q)]
  BY <1>1, <1>2
<1> QED BY <1>1, <1>3, <1>4 DEF t

LEMMA ToSetSize ==
  ASSUME NEW S, NEW q \in Seq(S)
  PROVE  /\ ToSet(q) \subseteq S /\ IsFiniteSet(ToSet(q))
         /\ Cardinality(ToSet(q)) \in Nat /\ Cardinality(ToSet(q)) <= Len(q)
         /\ IsInjective(q) => Cardinality(ToSet(q)) = Len(q)
<1>1. Len(q) \in Nat /\ DOMAIN q = 1 .. Len(q) /\ q \in [1 .. Len(q) -> S]
  BY LenProperties
<1>2. IsFiniteSet(1 .. Len(q)) /\ Cardinality(1 .. Len(q)) = Len(q)
  BY <1>1, FS_Interval
<1>3. q \in Surjection(1 .. Len(q), ToSet(q))
  BY <1>1 DEF Surjection, ToSet
<1>4. /\ IsFiniteSet(ToSet(q)) /\ Cardinality(ToSet(q)) <= Len(q)
      /\ Cardinality(ToSet(q)) = Len(q)
           <=> q \in Injection(1 .. Len(q), ToSet(q))
  BY <1>2, <1>3, FS_Surjection
<1>5. IsInjective(q) => q \in Injection(1 .. Len(q), ToSet(q))
  BY <1>3 DEF Injection, Surjection
<1>6. ToSet(q) \subseteq S
  BY <1>1 DEF ToSet
<1> QED BY <1>4, <1>5, <1>6, FS_CardinalityType

-----------------------------------------------------------------------------
(* Disjoint places, and elements that move between them.                   *)
Disjoint(f) == \A p, q \in DOMAIN f : p # q => f[p] \cap f[q] = {}

LEMMA Enters ==
  ASSUME NEW f, NEW g, Disjoint(f), DOMAIN g = DOMAIN f, NEW b \in DOMAIN f, NEW x,
         \A p \in DOMAIN f : x \notin f[p],
         g[b] = f[b] \cup {x}, \A p \in DOMAIN f \ {b} : g[p] = f[p]
  PROVE  Disjoint(g)
BY DEF Disjoint

LEMMA Moves ==
  ASSUME NEW f, NEW g, Disjoint(f), DOMAIN g = DOMAIN f,
         NEW a \in DOMAIN f, NEW b \in DOMAIN f, a # b, NEW x \in f[a],
         g[a] = f[a] \ {x}, g[b] = f[b] \cup {x},
         \A p \in DOMAIN f \ {a, b} : g[p] = f[p]
  PROVE  Disjoint(g)
BY DEF Disjoint

LEMMA MovesTwo ==
  ASSUME NEW f, NEW g, Disjoint(f), DOMAIN g = DOMAIN f,
         NEW a \in DOMAIN f, NEW b \in DOMAIN f, NEW c \in DOMAIN f,
         a # b, b # c, a # c, NEW x \in f[a], NEW y \in f[b],
         g[a] = f[a] \ {x}, g[b] = (f[b] \ {y}) \cup {x}, g[c] = f[c] \cup {y},
         \A p \in DOMAIN f \ {a, b, c} : g[p] = f[p]
  PROVE  Disjoint(g)
BY DEF Disjoint

-----------------------------------------------------------------------------
(* Which steps move samples.                                               *)
Takes ==
  /\ proc \in {"check", "get"} /\ pending # <<>> /\ TakePending
  /\ UNCHANGED <<fed, resultQ, active, task, lockQ, woken, doneBound, corVars, callVars, servVars,
                 mqVars, trainVars, syncPc, pastVars>>

Retakes ==
  /\ proc = "check" /\ cancelQ # <<>>
  /\ hand' = Head(cancelQ) /\ cancelQ' = Tail(cancelQ)
  /\ proc' = "limit"
  /\ UNCHANGED <<flagVars, pending, fed, resultQ, active, task, lockQ, woken, doneBound, corVars,
                 callVars, servVars, mqVars, trainVars, syncPc, pastVars>>

sampleVars == <<fed, pending, hand, Running, cancelQ, resultQ, consumer, mq, mqDropped, consumed,
                failures>>

LEMMA ProcTakes ==
  /\ ProcGet => Takes
  /\ ProcCheck => Takes \/ Retakes \/ UNCHANGED <<flowVars, hand>>
<1>1. ProcGet => Takes
  BY Zenon DEF ProcGet, Takes
<1>2. ProcCheck => Takes \/ Retakes \/ UNCHANGED <<flowVars, hand>>
  BY DEF ProcCheck, Takes, Retakes, GoOn, flagVars, flowVars
<1> QED BY <1>1, <1>2

LEMMA SampleFrame ==
  ASSUME TypeInv, [Next]_vars
  PROVE  \/ UNCHANGED sampleVars
         \/ Feed \/ Takes \/ Retakes
         \/ ProcSubmit /\ ProcSubmits
         \/ \E s \in Samples : TaskEnd(s)
         \/ ConsumerTakes \/ ConsumerPuts \/ MainFinishes \/ TrainerGetsSample
<1> USE DEF flagVars, flowVars, procVars, corVars, callVars, servVars, mqVars,
            trainVars, pastVars, rollouterVars, sampleVars
<1>1. ASSUME UNCHANGED <<fed, pending, hand, task, cancelQ, resultQ, consumer, mq, mqDropped,
                         consumed, failures>>
      PROVE  UNCHANGED sampleVars
  BY <1>1 DEF Running
<1>2. CASE Processor
  <2>1. CASE ProcContended \/ ProcPause \/ ProcIdle \/ ProcWoken
    BY <1>1, <2>1 DEF ProcContended, ProcPause, ProcIdle, ProcWoken
  <2>2. CASE ProcCheck
    <3>1. UNCHANGED <<corVars, mqVars, pastVars>>
      BY <2>2 DEF ProcCheck
    <3> QED BY <1>1, <2>2, <3>1, ProcTakes
  <2>3. CASE ProcGet
    BY <2>3, ProcTakes
  <2>4. CASE ProcSubmit
    BY <1>1, <2>4 DEF ProcSubmit, ProcSubmitWaits
  <2>5. ASSUME NEW l \in Loops, LoopExit(l) \/ LoopLocked(l) \/ LoopReap(l)
        PROVE  UNCHANGED sampleVars
    BY <1>1, <2>5 DEF LoopExit, LoopLocked, LoopReap
  <2> QED BY <1>2, <2>1, <2>2, <2>3, <2>4, <2>5 DEF Processor
<1>3. CASE Consumer \/ Main \/ Monitor
  BY <1>1, <1>3 DEF Consumer, Main, MainJoins, MainStops, Monitor, MonitorTop, MonitorWakes,
                    MonitorUnpauses
<1>4. CASE Calls
  BY <1>1, <1>4 DEF Calls, Pause, PauseEnter, PauseCancels, PauseGathers, PauseReturns,
                    Update, UpdateEnter, UpdateCounts, UpdateSets, UpdateReturns,
                    Resume, ResumeEnter, ResumeReturns
<1>5. CASE Train \/ Sync
  BY <1>1, <1>5 DEF Train, TrainerGetsValidation, TrainerTrains, TrainerEnds, TrainerLogsLast,
                    Sync, SyncStarts, SyncBroadcasts, SyncReturns
<1>6. ASSUME NEW s \in Samples, TaskStart(s) \/ ServerAnswers(s) PROVE UNCHANGED sampleVars
  <2>1. UNCHANGED <<fed, pending, hand, cancelQ, resultQ, consumer, mq, mqDropped, consumed,
                    failures>>
    BY <1>6 DEF TaskStart, ServerAnswers
  <2>2. Running' = Running
    <3>1. task \in [Samples -> {"none", "created", "sent", "gen", "cut", "done", "failed"}]
      BY DEF TypeInv, TypeOK, FlowOK
    <3>2. \E st \in {"sent", "gen", "cut"} : task' = [task EXCEPT ![s] = st]
      BY <1>6 DEF TaskStart, ServerAnswers, Accepts
    <3>3. task[s] \in {"created", "sent", "gen"}
      BY <1>6 DEF TaskStart, ServerAnswers, Accepts
    <3> QED BY <3>1, <3>2, <3>3 DEF Running
  <2> QED BY <2>1, <2>2
<1>7. CASE UNCHANGED vars
  BY <1>1, <1>7 DEF vars
<1> HIDE DEF sampleVars
<1> QED BY <1>2, <1>3, <1>4, <1>5, <1>6, <1>7, Zenon DEF Next, Task

(* Where the processor is, and what it holds.                              *)
LEMMA ProcFrame ==
  ASSUME [Next]_vars
  PROVE  Processor \/ UNCHANGED <<proc, hand>>
<1> USE DEF flagVars, flowVars, procVars, corVars, callVars, servVars, mqVars,
            trainVars, pastVars, rollouterVars
<1>1. CASE Feed \/ Consumer \/ Main \/ Monitor
  BY <1>1 DEF Feed, Consumer, ConsumerTakes, ConsumerPuts, Main, MainJoins, MainFinishes, MainStops,
              Monitor, MonitorTop, MonitorWakes, MonitorUnpauses
<1>2. CASE Calls
  BY <1>2 DEF Calls, Pause, PauseEnter, PauseCancels, PauseGathers, PauseReturns,
              Update, UpdateEnter, UpdateCounts, UpdateSets, UpdateReturns,
              Resume, ResumeEnter, ResumeReturns
<1>3. CASE Train \/ Sync
  BY <1>3 DEF Train, TrainerGetsValidation, TrainerGetsSample, TrainerTrains, TrainerEnds,
              TrainerLogsLast, Sync, SyncStarts, SyncBroadcasts, SyncReturns
<1>4. ASSUME NEW s \in Samples, Task(s) PROVE UNCHANGED <<proc, hand>>
  BY <1>4 DEF Task, TaskStart, ServerAnswers, TaskEnd
<1>5. CASE UNCHANGED vars
  BY <1>5 DEF vars
<1> QED BY <1>1, <1>2, <1>3, <1>4, <1>5 DEF Next

(* A processor that ended stays so.                                        *)
LEMMA ProcStays ==
  ASSUME [Next]_vars, proc \in {"exited", "crashed"}, HandHeld
  PROVE  UNCHANGED <<proc, hand>>
<1>1. ~(ProcContended \/ ProcPause \/ ProcIdle \/ ProcSubmit)
  BY DEF ProcContended, ProcPause, ProcIdle, ProcSubmit, Enter, AtLock, Loops
<1>2. ~(ProcWoken \/ ProcCheck \/ ProcGet)
  BY DEF ProcWoken, ProcCheck, ProcGet, HandHeld
<1>3. ASSUME NEW l \in Loops PROVE ~(LoopExit(l) \/ LoopLocked(l) \/ LoopReap(l))
  BY DEF Loops, LoopExit, LoopLocked, LoopReap, Enter, AtLock, AtWait
<1> QED BY <1>1, <1>2, <1>3, ProcFrame DEF Processor

Taking == {"limit", "limitLock", "limitWait", "submit", "submitLock", "submitWait"}
HandFree == hand # Nobody => proc \in Taking \cup {"crashed"}

LEMMA HandFreeStep ==
  ASSUME TypeInv, HandFree, [Next]_vars
  PROVE  HandFree'
<1> USE DEF HandFree, Taking, flowVars, procVars
<1>h. HandHeld
  BY DEF TypeInv
<1>1. CASE UNCHANGED <<proc, hand>>
  BY <1>1
<1>2. CASE ProcContended
  BY <1>2 DEF ProcContended, Suspend, AtLock, Loops
<1>3. CASE ProcCheck \/ ProcGet
  <2>1. CASE Takes
    BY <2>1 DEF Takes, TakePending, GoOn
  <2>2. CASE Retakes
    BY <2>2 DEF Retakes
  <2>3. CASE ProcCheck /\ UNCHANGED <<flowVars, hand>>
    BY <2>3 DEF ProcCheck
  <2> QED BY <1>3, <2>1, <2>2, <2>3, ProcTakes
<1>4. CASE ProcPause \/ ProcIdle \/ ProcWoken
  BY <1>h, <1>4 DEF ProcPause, ProcIdle, ProcWoken, GoOn, Suspend, Enter, AtLock, HandHeld
<1>5. CASE ProcSubmit
  BY <1>5 DEF ProcSubmit, ProcSubmits, ProcSubmitWaits, GoOn, Suspend
<1>6. ASSUME NEW l \in Loops, LoopExit(l) \/ LoopLocked(l) \/ LoopReap(l) PROVE HandFree'
  BY <1>6 DEF LoopExit, LoopLocked, LoopReap, Loops, Enter, AtLock, AtWait, After, GoOn, Suspend
<1> QED BY <1>1, <1>2, <1>3, <1>4, <1>5, <1>6, ProcFrame DEF Processor

(* Only the main coroutine moves itself.                                   *)
LEMMA MainMoves ==
  ASSUME [Next]_vars, mainPc' # mainPc
  PROVE  \/ mainPc = "run" /\ mainPc' = "sentinel" /\ MainJoins
         \/ mainPc = "sentinel" /\ mainPc' = "stop" /\ MainFinishes
         \/ mainPc = "stop" /\ mainPc' = "done"
<1> USE DEF flagVars, flowVars, procVars, corVars, callVars, servVars, mqVars,
            trainVars, pastVars, rollouterVars
<1>1. CASE Main
  BY <1>1 DEF Main, MainJoins, MainFinishes, MainStops
<1>2. CASE Feed \/ Consumer \/ Monitor
  BY <1>2 DEF Feed, Consumer, ConsumerTakes, ConsumerPuts, Monitor, MonitorTop,
              MonitorWakes, MonitorUnpauses
<1>3. CASE Processor
  <2>1. ~(ProcContended \/ ProcCheck \/ ProcGet \/ ProcPause \/ ProcIdle \/ ProcSubmit
          \/ ProcWoken)
    BY DEF ProcContended, ProcCheck, ProcGet, ProcPause, ProcIdle, ProcSubmit, ProcWoken
  <2>2. ASSUME NEW l \in Loops PROVE ~(LoopExit(l) \/ LoopLocked(l) \/ LoopReap(l))
    BY DEF LoopExit, LoopLocked, LoopReap
  <2> QED BY <1>3, <2>1, <2>2 DEF Processor
<1>4. CASE Calls
  BY <1>4 DEF Calls, Pause, PauseEnter, PauseCancels, PauseGathers, PauseReturns,
              Update, UpdateEnter, UpdateCounts, UpdateSets, UpdateReturns,
              Resume, ResumeEnter, ResumeReturns
<1>5. CASE Train \/ Sync
  BY <1>5 DEF Train, TrainerGetsValidation, TrainerGetsSample, TrainerTrains, TrainerEnds,
              TrainerLogsLast, Sync, SyncStarts, SyncBroadcasts, SyncReturns
<1>6. ASSUME NEW s \in Samples, Task(s) PROVE FALSE
  BY <1>6 DEF Task, TaskStart, ServerAnswers, TaskEnd
<1> QED BY <1>1, <1>2, <1>3, <1>4, <1>5, <1>6 DEF Next, vars

(* The main coroutine is beyond its gather only when the processor ended,  *)
(* and only then has it put its None.                                      *)
MainAfterProc == mainPc # "run" => proc \in {"exited", "crashed"}

LEMMA MainAfterProcStep ==
  ASSUME TypeInv, MainAfterProc, [Next]_vars
  PROVE  MainAfterProc'
<1>h. HandHeld
  BY DEF TypeInv
<1>1. CASE mainPc # "run"
  BY <1>h, <1>1, ProcStays DEF MainAfterProc
<1>2. CASE mainPc = "run" /\ mainPc' # "run"
  <2>1. MainJoins
    BY <1>2, MainMoves
  <2> QED BY <2>1 DEF MainJoins, Through, procVars, MainAfterProc
<1>3. CASE mainPc' = "run"
  BY <1>3 DEF MainAfterProc
<1> QED BY <1>1, <1>2, <1>3

(* pending_queue holds the samples that were fed last, in order, then      *)
(* "DONE".                                                                 *)
Left == fed - Len(pending)
PendingShape ==
  /\ Left >= 0
  /\ \A i \in 1 .. Len(pending) :
       pending[i] = IF Left + i > TotalSamples THEN Done ELSE Left + i

LEMMA PendingShapeStep ==
  ASSUME TypeInv, PendingShape, [Next]_vars
  PROVE  PendingShape'
<1>t. /\ fed \in 0 .. TotalSamples + 1 /\ pending \in Seq(Samples \cup {Done})
      /\ Len(pending) \in Nat /\ TotalSamples \in Nat \ {0}
  BY LenProperties, ConfigAssumption DEF TypeInv, TypeOK, FlowOK
<1>1. CASE UNCHANGED <<fed, pending>>
  BY <1>1 DEF PendingShape, Left
<1>2. CASE Feed
  <2> DEFINE room == PendingSize - Len(pending)
             left == TotalSamples + 1 - fed
             m == IF room < left THEN room ELSE left
             more == [i \in 1 .. m |-> IF fed + i > TotalSamples THEN Done ELSE fed + i]
  <2>1. m > 0 /\ fed' = fed + m /\ pending' = pending \o more
    BY <1>2 DEF Feed
  <2>2. m \in Nat /\ fed + m <= TotalSamples + 1
    <3>1. PendingSize \in Nat
      BY ConfigAssumption
    <3> HIDE DEF more
    <3> DEFINE k == Len(pending)
    <3>2. k \in Nat /\ m = IF PendingSize - k < left THEN PendingSize - k ELSE left
      BY <1>t
    <3> HIDE DEF k, m
    <3> QED BY <1>t, <2>1, <3>1, <3>2
  <2> HIDE DEF m
  <2>3. \A i \in 1 .. m : (IF fed + i > TotalSamples THEN Done ELSE fed + i) \in Samples \cup {Done}
    BY <1>t, <2>2 DEF Samples
  <2>4. more \in Seq(Samples \cup {Done})
    BY <2>2, <2>3, IsASeq
  <2>5. Len(more) = m /\ \A i \in 1 .. m : more[i] = IF fed + i > TotalSamples THEN Done ELSE fed + i
    BY <2>2, <2>4, LenProperties
  <2> HIDE DEF more
  <2>6. /\ Len(pending') = Len(pending) + m
        /\ \A i \in 1 .. Len(pending) : pending'[i] = pending[i]
        /\ \A i \in Len(pending) + 1 .. Len(pending) + m : pending'[i] = more[i - Len(pending)]
    BY <1>t, <2>1, <2>4, <2>5, ConcatParts
  <2>7. Left' = Left
    BY <1>t, <2>1, <2>2, <2>6 DEF Left
  <2>8. ASSUME NEW i \in Len(pending) + 1 .. Len(pending) + m
        PROVE  pending'[i] = IF Left + i > TotalSamples THEN Done ELSE Left + i
    <3>1. i - Len(pending) \in 1 .. m /\ fed + (i - Len(pending)) = Left + i
      BY <1>t, <2>2 DEF Left
    <3> QED BY <2>5, <2>6, <3>1
  <2>9. \A i \in 1 .. Len(pending) :
          pending'[i] = IF Left + i > TotalSamples THEN Done ELSE Left + i
    BY <2>6 DEF PendingShape
  <2> QED BY <1>t, <2>2, <2>6, <2>7, <2>8, <2>9 DEF PendingShape
<1>3. CASE Takes
  <2>1. pending # <<>> /\ pending' = Tail(pending) /\ fed' = fed
    BY <1>3 DEF Takes, TakePending
  <2>2. /\ Len(pending') = Len(pending) - 1
        /\ \A i \in 1 .. Len(pending') : pending'[i] = pending[i + 1]
    BY <1>t, <2>1, HeadTailProperties
  <2>3. Left' = Left + 1 /\ Left \in Int
    BY <1>t, <2>1, <2>2 DEF Left
  <2> QED BY <1>t, <2>2, <2>3 DEF PendingShape
<1>4. CASE Retakes \/ ProcSubmit \/ (\E s \in Samples : TaskEnd(s)) \/ ConsumerTakes
           \/ ConsumerPuts \/ MainFinishes \/ TrainerGetsSample
  BY <1>1, <1>4 DEF Retakes, ProcSubmit, TaskEnd, ConsumerTakes, ConsumerPuts, MainFinishes,
                    TrainerGetsSample, flowVars, rollouterVars
<1>5. CASE UNCHANGED sampleVars
  BY <1>1, <1>5 DEF sampleVars
<1> QED BY <1>2, <1>3, <1>4, <1>5, SampleFrame

(* The next sample is the one after those that were taken.                 *)
LEMMA TakenIs ==
  ASSUME TypeInv, PendingShape
  PROVE  /\ Left \in Int /\ Left <= TotalSamples + 1
         /\ Taken = {s \in Samples : s <= Left}
         /\ IsInjective(pending)
         /\ pending # <<>> => Head(pending) = IF Left + 1 > TotalSamples THEN Done ELSE Left + 1
<1>t. /\ fed \in 0 .. TotalSamples + 1 /\ pending \in Seq(Samples \cup {Done})
      /\ Len(pending) \in Nat /\ TotalSamples \in Nat \ {0} /\ DOMAIN pending = 1 .. Len(pending)
  BY LenProperties, ConfigAssumption DEF TypeInv, TypeOK, FlowOK
<1>1. Left \in Int /\ Left <= TotalSamples + 1 /\ Left >= 0 /\ fed = Left + Len(pending)
  BY <1>t DEF Left, PendingShape
<1>2. \A i \in 1 .. Len(pending) :
        pending[i] = IF Left + i > TotalSamples THEN Done ELSE Left + i
  BY DEF PendingShape
<1>3. ASSUME NEW s \in Samples
      PROVE  s \in ToSet(pending) <=> s > Left /\ s <= fed
  <2>1. ASSUME s > Left, s <= fed PROVE s \in ToSet(pending)
    <3>1. PICK i \in 1 .. Len(pending) : Left + i = s
      <4>1. s - Left \in 1 .. Len(pending) /\ Left + (s - Left) = s
        BY <1>t, <1>1, <1>3, <2>1 DEF Samples
      <4> QED BY <4>1
    <3>2. ~(Left + i > TotalSamples)
      BY <1>t, <1>3, <3>1 DEF Samples
    <3>3. pending[i] = Left + i
      BY <1>2, <3>2
    <3> QED BY <1>t, <3>1, <3>3 DEF ToSet
  <2>2. ASSUME NEW i \in 1 .. Len(pending), pending[i] = s PROVE s > Left /\ s <= fed
    BY <1>t, <1>1, <1>2, <1>3, <2>2 DEF Samples, Done
  <2> QED BY <1>t, <2>1, <2>2 DEF ToSet
<1>4. Taken = {s \in Samples : s <= Left}
  BY <1>t, <1>1, <1>3 DEF Taken, Samples
<1>5. IsInjective(pending)
  <2>1. ASSUME NEW i \in 1 .. Len(pending), NEW j \in 1 .. Len(pending), pending[i] = pending[j]
        PROVE  i = j
    <3>1. Left + i <= TotalSamples + 1 /\ Left + j <= TotalSamples + 1
      BY <1>t, <1>1
    <3>2. /\ pending[i] = IF Left + i > TotalSamples THEN Done ELSE Left + i
          /\ pending[j] = IF Left + j > TotalSamples THEN Done ELSE Left + j
      BY <1>2
    <3>3. Left + i # 0 /\ Left + j # 0
      BY <1>1
    <3>4. CASE Left + i > TotalSamples
      <4>1. pending[j] = 0
        BY <2>1, <3>2, <3>4 DEF Done
      <4>2. Left + j > TotalSamples
        BY <3>2, <3>3, <4>1
      <4> QED BY <1>t, <1>1, <3>1, <3>4, <4>2
    <3>5. CASE ~(Left + i > TotalSamples)
      <4>1. pending[j] = Left + i
        BY <2>1, <3>2, <3>5
      <4>2. ~(Left + j > TotalSamples) /\ Left + j = Left + i
        BY <3>2, <3>3, <4>1 DEF Done
      <4> QED BY <1>1, <4>2
    <3> QED BY <3>4, <3>5
  <2> QED BY <1>t, <2>1 DEF IsInjective
<1>6. pending # <<>> => Head(pending) = IF Left + 1 > TotalSamples THEN Done ELSE Left + 1
  <2>1. pending # <<>> => 1 \in 1 .. Len(pending) /\ Head(pending) = pending[1]
    BY <1>t, EmptySeq
  <2> QED BY <1>2, <2>1
<1> QED BY <1>1, <1>4, <1>5, <1>6

-----------------------------------------------------------------------------
(* Where the samples are: in disjoint places, and in each queue once.      *)
PlaceNames == {"hand", "task", "cancelled", "result", "consumer", "queue",
               "used", "dropped", "failed"}

(* None is put by the main coroutine after its gather, and only there.     *)
SentinelLate == Sentinel \in ToSet(mq) => mainPc \in {"stop", "done"}

PlaceInv ==
  /\ Disjoint(Place)
  /\ IsInjective(cancelQ) /\ IsInjective(resultQ) /\ IsInjective(mq)
  /\ Outstanding \cup Gone = {s \in Samples : s <= Left}
  /\ SentinelLate

FlowInv == TypeInv /\ HandFree /\ MainAfterProc /\ PendingShape /\ PlaceInv

LEMMA PlaceParts ==
  /\ DOMAIN Place = PlaceNames
  /\ Place["hand"] = Real({hand}) /\ Place["task"] = Running
  /\ Place["cancelled"] = ToSet(cancelQ) /\ Place["result"] = ToSet(resultQ)
  /\ Place["consumer"] = Real({consumer}) /\ Place["queue"] = Real(ToSet(mq))
  /\ Place["used"] = consumed /\ Place["dropped"] = Real(mqDropped)
  /\ Place["failed"] = failures
BY DEF Place, PlaceNames

LEMMA PlacePartsNext ==
  /\ DOMAIN Place' = PlaceNames
  /\ Place'["hand"] = Real({hand'}) /\ Place'["task"] = Running'
  /\ Place'["cancelled"] = ToSet(cancelQ') /\ Place'["result"] = ToSet(resultQ')
  /\ Place'["consumer"] = Real({consumer'}) /\ Place'["queue"] = Real(ToSet(mq'))
  /\ Place'["used"] = consumed' /\ Place'["dropped"] = Real(mqDropped')
  /\ Place'["failed"] = failures'
BY DEF Place, PlaceNames

(* The places of the samples that are in flight.                           *)
Flying == {"hand", "task", "cancelled", "result", "consumer", "queue"}

LEMMA OutstandingParts ==
  /\ Outstanding = UNION {Place[p] : p \in Flying}
  /\ Outstanding' = UNION {Place'[p] : p \in Flying}
<1>1. /\ Outstanding = Real({hand}) \cup Running \cup ToSet(cancelQ) \cup ToSet(resultQ)
                         \cup Real({consumer}) \cup Real(ToSet(mq))
      /\ Outstanding' = Real({hand'}) \cup Running' \cup ToSet(cancelQ') \cup ToSet(resultQ')
                         \cup Real({consumer'}) \cup Real(ToSet(mq'))
  BY DEF Outstanding, Real
<1>2. \A f : UNION {f[p] : p \in Flying}
               = f["hand"] \cup f["task"] \cup f["cancelled"] \cup f["result"]
                   \cup f["consumer"] \cup f["queue"]
  BY DEF Flying
<1> QED BY <1>1, <1>2, PlaceParts, PlacePartsNext

(* A sample moves from one place to another.                               *)
LEMMA PlaceMoves ==
  ASSUME Disjoint(Place), NEW a \in PlaceNames, NEW b \in PlaceNames, a # b, NEW x \in Place[a],
         Place'[a] = Place[a] \ {x}, Place'[b] = Place[b] \cup {x},
         \A p \in PlaceNames \ {a, b} : Place'[p] = Place[p]
  PROVE  /\ Disjoint(Place')
         /\ a \in Flying => x \in Outstanding
         /\ a \in Flying /\ b \in Flying => Outstanding' = Outstanding
         /\ a \in Flying /\ b \notin Flying => Outstanding' = Outstanding \ {x}
<1>1. DOMAIN Place = PlaceNames /\ DOMAIN Place' = PlaceNames
  BY PlaceParts, PlacePartsNext
<1>2. Disjoint(Place')
  BY <1>1, Moves
<1>3. Flying \subseteq PlaceNames
  BY DEF Flying, PlaceNames
<1>4. \A p \in PlaceNames \ {a} : x \notin Place[p]
  BY <1>1 DEF Disjoint
<1> QED BY <1>2, <1>3, <1>4, OutstandingParts

(* What a step does to the flow: nothing, or a sample leaves it.           *)
Stays == UNCHANGED <<Outstanding, Left, consumed, failures, Real(mqDropped)>>

Leaves(x) ==
  /\ x \in Outstanding /\ Outstanding' = Outstanding \ {x} /\ UNCHANGED Left
  /\ \/ consumed' = consumed \cup {x} /\ UNCHANGED <<failures, Real(mqDropped)>>
     \/ failures' = failures \cup {x} /\ UNCHANGED <<consumed, Real(mqDropped)>>
     \/ /\ Cardinality(Outstanding) >= MaxRequired
        /\ Real(mqDropped)' = Real(mqDropped) \cup {x} /\ UNCHANGED <<consumed, failures>>

(* What is left of PlaceInv when the places are accounted for.             *)
LEMMA PlaceInvNext ==
  ASSUME PlaceInv, Disjoint(Place'), Stays \/ \E x : Leaves(x),
         IsInjective(cancelQ'), IsInjective(resultQ'), IsInjective(mq'), SentinelLate'
  PROVE  PlaceInv'
<1>1. Gone = consumed \cup Real(mqDropped) \cup failures
  BY DEF Gone
<1>2. Gone' = consumed' \cup Real(mqDropped)' \cup failures'
  BY DEF Gone
<1>3. Outstanding' \cup Gone' = Outstanding \cup Gone /\ Left' = Left
  BY <1>1, <1>2 DEF Stays, Leaves
<1>4. Outstanding' \cup Gone' = {s \in Samples : s <= Left'}
  BY <1>3 DEF PlaceInv
<1> QED BY <1>4 DEF PlaceInv

(* What the steps that move no sample from place to place leave alone.     *)
LEMMA PlacesStay ==
  ASSUME PlaceInv, UNCHANGED sampleVars, mainPc \in {"stop", "done"} => mainPc' \in {"stop", "done"}
  PROVE  PlaceInv' /\ Stays
<1>1. UNCHANGED <<Place, Outstanding, Left, cancelQ, resultQ, mq, consumed, failures, mqDropped>>
  BY DEF sampleVars, Place, Outstanding, Left
<1>2. SentinelLate'
  BY <1>1 DEF PlaceInv, SentinelLate
<1>3. Disjoint(Place') /\ IsInjective(cancelQ') /\ IsInjective(resultQ') /\ IsInjective(mq')
  BY <1>1 DEF PlaceInv
<1>4. Stays
  BY <1>1 DEF Stays
<1> QED BY <1>2, <1>3, <1>4, PlaceInvNext

(* The processor takes a sample of cancel_queue again, ...                 *)
LEMMA RetakeStep ==
  ASSUME FlowInv, Retakes
  PROVE  PlaceInv' /\ Stays
<1> DEFINE h == Head(cancelQ)
<1>1. /\ hand' = h /\ cancelQ' = Tail(cancelQ) /\ cancelQ # <<>>
      /\ UNCHANGED <<fed, pending, task, resultQ, consumer, mq, mqDropped, consumed, failures, mainPc>>
  BY DEF Retakes, corVars, mqVars, pastVars
<1>2. cancelQ \in Seq(Samples) /\ IsInjective(cancelQ)
  BY DEF FlowInv, TypeInv, TypeOK, FlowOK, PlaceInv
<1>3. /\ h \in ToSet(cancelQ) /\ h \in Samples
      /\ ToSet(cancelQ') = ToSet(cancelQ) \ {h} /\ IsInjective(cancelQ')
  BY <1>1, <1>2, TailToSet, HeadTailProperties
<1>4. hand = Nobody
  BY DEF FlowInv, HandFree, Taking, Retakes
<1> HIDE DEF h
<1>5. h # 0 /\ Real({hand}) = {} /\ Real({h}) = {h}
  BY <1>3, <1>4 DEF Real, Nobody, Samples
<1>6. UNCHANGED <<Running, Left>>
  BY <1>1 DEF Running, Left
<1>7. h \in Place["cancelled"] /\ Place'["cancelled"] = Place["cancelled"] \ {h}
  BY <1>3, PlaceParts, PlacePartsNext
<1>8. Place'["hand"] = Place["hand"] \cup {h}
  BY <1>1, <1>5, PlaceParts, PlacePartsNext
<1>9. \A p \in PlaceNames \ {"cancelled", "hand"} : Place'[p] = Place[p]
  BY <1>1, <1>6, PlaceParts, PlacePartsNext DEF PlaceNames
<1>10. "cancelled" \in PlaceNames \cap Flying /\ "hand" \in PlaceNames \cap Flying
  BY DEF PlaceNames, Flying
<1>11. Disjoint(Place') /\ Outstanding' = Outstanding
  BY <1>7, <1>8, <1>9, <1>10, PlaceMoves DEF FlowInv, PlaceInv
<1>12. Stays
  BY <1>1, <1>6, <1>11 DEF Stays
<1>13. SentinelLate' /\ IsInjective(resultQ') /\ IsInjective(mq')
  BY <1>1 DEF FlowInv, PlaceInv, SentinelLate
<1> QED BY <1>3, <1>11, <1>12, <1>13, PlaceInvNext DEF FlowInv

(* ... creates the task of the sample it holds, ...                        *)
LEMMA SubmitStep ==
  ASSUME FlowInv, ProcSubmit, ProcSubmits
  PROVE  PlaceInv' /\ Stays
<1>1. /\ hand' = Nobody /\ task' = [task EXCEPT ![hand] = "created"]
      /\ UNCHANGED <<fed, pending, cancelQ, resultQ, consumer, mq, mqDropped, consumed, failures,
                     mainPc>>
  BY DEF ProcSubmit, ProcSubmits, corVars, mqVars, pastVars
<1>2. /\ hand \in Samples \cup {Nobody}
      /\ task \in [Samples -> {"none", "created", "sent", "gen", "cut", "done", "failed"}]
  BY DEF FlowInv, TypeInv, TypeOK, ProcOK, FlowOK
<1>3. hand \in Samples /\ hand # 0
  BY <1>2 DEF FlowInv, TypeInv, HandHeld, ProcSubmit, Enter, AtLock, Nobody, Samples
<1>4. Real({hand}) = {hand} /\ Real({hand'}) = {}
  BY <1>1, <1>3 DEF Real, Nobody
<1>5. Running' = Running \cup {hand} /\ UNCHANGED Left
  BY <1>1, <1>2, <1>3 DEF Running, Left
<1>6. hand \in Place["hand"] /\ Place'["hand"] = Place["hand"] \ {hand}
  BY <1>4, PlaceParts, PlacePartsNext
<1>7. Place'["task"] = Place["task"] \cup {hand}
  BY <1>5, PlaceParts, PlacePartsNext
<1>8. \A p \in PlaceNames \ {"hand", "task"} : Place'[p] = Place[p]
  BY <1>1, PlaceParts, PlacePartsNext DEF PlaceNames
<1>9. "hand" \in PlaceNames \cap Flying /\ "task" \in PlaceNames \cap Flying
  BY DEF PlaceNames, Flying
<1>10. Disjoint(Place') /\ Outstanding' = Outstanding
  BY <1>6, <1>7, <1>8, <1>9, PlaceMoves DEF FlowInv, PlaceInv
<1>11. Stays
  BY <1>1, <1>5, <1>10 DEF Stays
<1>12. SentinelLate' /\ IsInjective(cancelQ') /\ IsInjective(resultQ') /\ IsInjective(mq')
  BY <1>1 DEF FlowInv, PlaceInv, SentinelLate
<1> QED BY <1>10, <1>11, <1>12, PlaceInvNext DEF FlowInv

(* A task ends: its sample is finished, interrupted or has failed.         *)
LEMMA TaskEndStep ==
  ASSUME FlowInv, NEW s \in Samples, TaskEnd(s)
  PROVE  PlaceInv' /\ (Stays \/ Leaves(s))
<1>1. /\ UNCHANGED <<fed, pending, hand, consumer, mq, mqDropped, consumed, mainPc>>
      /\ task[s] \in {"gen", "cut"}
      /\ \E st \in {"done", "failed"} : task' = [task EXCEPT ![s] = st]
  BY DEF TaskEnd, Completes, IsInterrupted, Fails, procVars, corVars, mqVars
<1>2. /\ task \in [Samples -> {"none", "created", "sent", "gen", "cut", "done", "failed"}]
      /\ cancelQ \in Seq(Samples) /\ resultQ \in Seq(Samples)
      /\ IsInjective(cancelQ) /\ IsInjective(resultQ) /\ IsInjective(mq)
  BY DEF FlowInv, TypeInv, TypeOK, FlowOK, PlaceInv
<1>3. s \in Running /\ Running' = Running \ {s} /\ UNCHANGED Left
  BY <1>1, <1>2 DEF Running, Left
<1>4. s \in Place["task"] /\ Place'["task"] = Place["task"] \ {s}
  BY <1>3, PlaceParts, PlacePartsNext
<1>5. \A p \in PlaceNames \ {"task"} : s \notin Place[p]
  <2>1. "task" \in PlaceNames
    BY DEF PlaceNames
  <2> QED BY <1>4, <2>1, PlaceParts DEF FlowInv, PlaceInv, Disjoint
<1>6. s \notin ToSet(cancelQ) /\ s \notin ToSet(resultQ)
  BY <1>5, PlaceParts DEF PlaceNames
<1>7. {"task", "result", "cancelled", "failed"} \subseteq PlaceNames
      /\ {"task", "result", "cancelled"} \subseteq Flying /\ "failed" \notin Flying
  BY DEF PlaceNames, Flying
<1>8. SentinelLate' /\ IsInjective(mq')
  BY <1>1 DEF FlowInv, PlaceInv, SentinelLate
<1>9. CASE Completes(s)
  <2>1. resultQ' = Append(resultQ, s) /\ UNCHANGED <<cancelQ, failures>>
    BY <1>9 DEF Completes
  <2>2. ToSet(resultQ') = ToSet(resultQ) \cup {s} /\ IsInjective(resultQ')
    BY <1>2, <1>6, <2>1, AppendToSet
  <2>3. Place'["result"] = Place["result"] \cup {s}
    BY <2>2, PlaceParts, PlacePartsNext
  <2>4. \A p \in PlaceNames \ {"task", "result"} : Place'[p] = Place[p]
    BY <1>1, <2>1, PlaceParts, PlacePartsNext DEF PlaceNames
  <2>5. Disjoint(Place') /\ Outstanding' = Outstanding
    BY <1>4, <1>7, <2>3, <2>4, PlaceMoves DEF FlowInv, PlaceInv
  <2>6. Stays
    BY <1>1, <1>3, <2>1, <2>5 DEF Stays
  <2>7. IsInjective(cancelQ')
    BY <1>2, <2>1
  <2> QED BY <1>8, <2>2, <2>5, <2>6, <2>7, PlaceInvNext DEF FlowInv
<1>10. CASE IsInterrupted(s)
  <2>1. cancelQ' = Append(cancelQ, s) /\ UNCHANGED <<resultQ, failures>>
    BY <1>10 DEF IsInterrupted
  <2>2. ToSet(cancelQ') = ToSet(cancelQ) \cup {s} /\ IsInjective(cancelQ')
    BY <1>2, <1>6, <2>1, AppendToSet
  <2>3. Place'["cancelled"] = Place["cancelled"] \cup {s}
    BY <2>2, PlaceParts, PlacePartsNext
  <2>4. \A p \in PlaceNames \ {"task", "cancelled"} : Place'[p] = Place[p]
    BY <1>1, <2>1, PlaceParts, PlacePartsNext DEF PlaceNames
  <2>5. Disjoint(Place') /\ Outstanding' = Outstanding
    BY <1>4, <1>7, <2>3, <2>4, PlaceMoves DEF FlowInv, PlaceInv
  <2>6. Stays
    BY <1>1, <1>3, <2>1, <2>5 DEF Stays
  <2>7. IsInjective(resultQ')
    BY <1>2, <2>1
  <2> QED BY <1>8, <2>2, <2>5, <2>6, <2>7, PlaceInvNext DEF FlowInv
<1>11. CASE Fails(s)
  <2>1. failures' = failures \cup {s} /\ UNCHANGED <<cancelQ, resultQ>>
    BY <1>11 DEF Fails
  <2>2. Place'["failed"] = Place["failed"] \cup {s}
    BY <2>1, PlaceParts, PlacePartsNext
  <2>3. \A p \in PlaceNames \ {"task", "failed"} : Place'[p] = Place[p]
    BY <1>1, <2>1, PlaceParts, PlacePartsNext DEF PlaceNames
  <2>4. Disjoint(Place') /\ s \in Outstanding /\ Outstanding' = Outstanding \ {s}
    BY <1>4, <1>7, <2>2, <2>3, PlaceMoves DEF FlowInv, PlaceInv
  <2>5. Leaves(s)
    BY <1>1, <1>3, <2>1, <2>4 DEF Leaves
  <2>6. IsInjective(cancelQ') /\ IsInjective(resultQ')
    BY <1>2, <2>1
  <2> QED BY <1>8, <2>4, <2>5, <2>6, PlaceInvNext DEF FlowInv
<1> QED BY <1>9, <1>10, <1>11 DEF TaskEnd

(* The consumer takes a result.                                            *)
LEMMA ConsumerTakesStep ==
  ASSUME FlowInv, ConsumerTakes
  PROVE  PlaceInv' /\ Stays
<1> DEFINE h == Head(resultQ)
<1>1. /\ consumer = Nobody /\ consumer' = h /\ resultQ' = Tail(resultQ) /\ resultQ # <<>>
      /\ UNCHANGED <<fed, pending, task, hand, cancelQ, mq, mqDropped, consumed, failures, mainPc>>
  BY DEF ConsumerTakes, procVars, mqVars, pastVars
<1>2. resultQ \in Seq(Samples) /\ IsInjective(resultQ)
  BY DEF FlowInv, TypeInv, TypeOK, FlowOK, PlaceInv
<1>3. /\ h \in ToSet(resultQ) /\ h \in Samples
      /\ ToSet(resultQ') = ToSet(resultQ) \ {h} /\ IsInjective(resultQ')
  BY <1>1, <1>2, TailToSet, HeadTailProperties
<1> HIDE DEF h
<1>4. Real({consumer}) = {} /\ Real({h}) = {h}
  BY <1>1, <1>3 DEF Real, Nobody, Samples
<1>5. UNCHANGED <<Running, Left>>
  BY <1>1 DEF Running, Left
<1>6. h \in Place["result"] /\ Place'["result"] = Place["result"] \ {h}
  BY <1>3, PlaceParts, PlacePartsNext
<1>7. Place'["consumer"] = Place["consumer"] \cup {h}
  BY <1>1, <1>4, PlaceParts, PlacePartsNext
<1>8. \A p \in PlaceNames \ {"result", "consumer"} : Place'[p] = Place[p]
  BY <1>1, <1>5, PlaceParts, PlacePartsNext DEF PlaceNames
<1>9. "result" \in PlaceNames \cap Flying /\ "consumer" \in PlaceNames \cap Flying
  BY DEF PlaceNames, Flying
<1>10. Disjoint(Place') /\ Outstanding' = Outstanding
  BY <1>6, <1>7, <1>8, <1>9, PlaceMoves DEF FlowInv, PlaceInv
<1>11. Stays
  BY <1>1, <1>5, <1>10 DEF Stays
<1>12. SentinelLate' /\ IsInjective(cancelQ') /\ IsInjective(mq')
  BY <1>1 DEF FlowInv, PlaceInv, SentinelLate
<1> QED BY <1>3, <1>10, <1>11, <1>12, PlaceInvNext DEF FlowInv

(* The trainer takes a sample of the message queue, or None.               *)
LEMMA TrainerGetsStep ==
  ASSUME FlowInv, TrainerGetsSample
  PROVE  PlaceInv' /\ (Stays \/ Leaves(Head(mq)))
<1> DEFINE h == Head(mq)
<1>1. /\ mq # <<>> /\ mq' = Tail(mq)
      /\ UNCHANGED <<fed, pending, task, hand, cancelQ, resultQ, consumer, mqDropped, failures,
                     mainPc>>
      /\ h = Sentinel => consumed' = consumed
      /\ h # Sentinel => consumed' = consumed \cup {h}
  BY DEF TrainerGetsSample, rollouterVars, flowVars, procVars, corVars
<1>2. mq \in Seq(Samples \cup {Sentinel}) /\ IsInjective(mq)
  BY DEF FlowInv, TypeInv, TypeOK, QueueOK, PlaceInv
<1>3. /\ h \in ToSet(mq) /\ h \in Samples \cup {Sentinel}
      /\ ToSet(mq') = ToSet(mq) \ {h} /\ IsInjective(mq')
  BY <1>1, <1>2, TailToSet, HeadTailProperties
<1> HIDE DEF h
<1>4. UNCHANGED <<Running, Left>>
  BY <1>1 DEF Running, Left
<1>5. SentinelLate' /\ IsInjective(cancelQ') /\ IsInjective(resultQ')
  BY <1>1, <1>3 DEF FlowInv, PlaceInv, SentinelLate
<1>6. CASE h = Sentinel
  <2>1. Real(ToSet(mq')) = Real(ToSet(mq))
    BY <1>3, <1>6 DEF Real, Sentinel
  <2>2. UNCHANGED <<Place, Outstanding>>
    BY <1>1, <1>4, <1>6, <2>1 DEF Place, Outstanding, Real
  <2>3. Stays /\ Disjoint(Place')
    BY <1>1, <1>4, <1>6, <2>2 DEF Stays, FlowInv, PlaceInv
  <2> QED BY <1>3, <1>5, <2>3, PlaceInvNext DEF FlowInv
<1>7. CASE h # Sentinel
  <2>1. h \in Real(ToSet(mq)) /\ Real(ToSet(mq')) = Real(ToSet(mq)) \ {h}
    BY <1>3, <1>7 DEF Real, Sentinel
  <2>2. h \in Place["queue"] /\ Place'["queue"] = Place["queue"] \ {h}
    BY <2>1, PlaceParts, PlacePartsNext
  <2>3. Place'["used"] = Place["used"] \cup {h}
    BY <1>1, <1>7, PlaceParts, PlacePartsNext
  <2>4. \A p \in PlaceNames \ {"queue", "used"} : Place'[p] = Place[p]
    BY <1>1, <1>4, PlaceParts, PlacePartsNext DEF PlaceNames
  <2>5. /\ "queue" \in PlaceNames \cap Flying
        /\ "used" \in PlaceNames /\ "used" \notin Flying
    BY DEF PlaceNames, Flying
  <2>6. Disjoint(Place') /\ h \in Outstanding /\ Outstanding' = Outstanding \ {h}
    BY <2>2, <2>3, <2>4, <2>5, PlaceMoves DEF FlowInv, PlaceInv
  <2>7. Leaves(h)
    BY <1>1, <1>4, <1>7, <2>6 DEF Leaves
  <2> QED BY <1>3, <1>5, <2>6, <2>7, PlaceInvNext DEF FlowInv, h
<1> QED BY <1>6, <1>7

(* put_sample appends to the message queue, and drops the head of a full   *)
(* one.                                                                    *)
LEMMA QueueRoom == MaxRequired \in Nat \ {0}
<1>1. /\ Required \in Nat \ {0} /\ Trigger \in Nat \ {0}
      /\ MaxRequired \in Nat /\ MaxRequired >= Required * Trigger
  BY ConfigAssumption
<1>2. Required * Trigger \in Nat \ {0}
  BY <1>1
<1> QED BY <1>1, <1>2

LEMMA PutIntoSet ==
  ASSUME mq \in Seq(Samples \cup {Sentinel}), IsInjective(mq),
         NEW x \in Samples \cup {Sentinel}, x \notin ToSet(mq), PutIntoQueue(x)
  PROVE  /\ IsInjective(mq')
         /\ \/ ToSet(mq') = ToSet(mq) \cup {x} /\ mqDropped' = mqDropped
            \/ \E y \in ToSet(mq) : /\ Len(mq) >= MaxRequired
                                    /\ ToSet(mq') = (ToSet(mq) \ {y}) \cup {x}
                                    /\ mqDropped' = mqDropped \cup {y}
<1> DEFINE S == Samples \cup {Sentinel}
<1>1. CASE Len(mq) >= MaxRequired
  <2>1. mq' = Append(Tail(mq), x) /\ mqDropped' = mqDropped \cup {Head(mq)}
    BY <1>1 DEF PutIntoQueue
  <2>2. mq # <<>>
    BY <1>1, QueueRoom
  <2>3. /\ IsInjective(Tail(mq)) /\ Head(mq) \in ToSet(mq)
        /\ ToSet(Tail(mq)) = ToSet(mq) \ {Head(mq)}
    BY <2>2, TailToSet
  <2> DEFINE r == Tail(mq)
  <2>4. r \in Seq(S) /\ x \in S /\ x \notin ToSet(r)
    BY <2>2, <2>3, HeadTailProperties
  <2>5. ToSet(r) = ToSet(mq) \ {Head(mq)} /\ IsInjective(r) /\ mq' = Append(r, x)
    BY <2>1, <2>3
  <2> HIDE DEF r, S
  <2>6. ToSet(mq') = (ToSet(mq) \ {Head(mq)}) \cup {x} /\ IsInjective(mq')
    BY <2>4, <2>5, AppendToSet
  <2> QED BY <1>1, <2>1, <2>3, <2>6
<1>2. CASE ~(Len(mq) >= MaxRequired)
  <2>1. mq' = Append(mq, x) /\ mqDropped' = mqDropped
    BY <1>2 DEF PutIntoQueue
  <2>2. ToSet(mq') = ToSet(mq) \cup {x} /\ IsInjective(mq')
    BY <2>1, AppendToSet
  <2> QED BY <2>1, <2>2
<1> QED BY <1>1, <1>2

LEMMA UnionSize ==
  ASSUME NEW A, NEW B, IsFiniteSet(A), IsFiniteSet(B)
  PROVE  /\ IsFiniteSet(A \cup B) /\ Cardinality(A \cup B) \in Nat
         /\ Cardinality(A \cup B) <= Cardinality(A) + Cardinality(B)
<1>1. /\ IsFiniteSet(A \cup B) /\ IsFiniteSet(A \cap B)
      /\ Cardinality(A \cup B) = Cardinality(A) + Cardinality(B) - Cardinality(A \cap B)
  BY FS_Union, FS_Subset
<1>2. /\ Cardinality(A \cup B) \in Nat /\ Cardinality(A \cap B) \in Nat
      /\ Cardinality(A) \in Nat /\ Cardinality(B) \in Nat
  BY <1>1, FS_CardinalityType
<1> QED BY <1>1, <1>2

LEMMA OutstandingFinite ==
  TypeInv => /\ Outstanding \subseteq Samples /\ IsFiniteSet(Samples)
             /\ IsFiniteSet(Outstanding) /\ Cardinality(Outstanding) \in Nat
<1> SUFFICES ASSUME TypeInv
             PROVE  /\ Outstanding \subseteq Samples /\ IsFiniteSet(Samples)
                    /\ IsFiniteSet(Outstanding) /\ Cardinality(Outstanding) \in Nat
  OBVIOUS
<1>1. /\ hand \in Samples \cup {Nobody} /\ consumer \in Samples \cup {Nobody}
      /\ cancelQ \in Seq(Samples) /\ resultQ \in Seq(Samples) /\ mq \in Seq(Samples \cup {Sentinel})
  BY DEF TypeInv, TypeOK, ProcOK, CoroutinesOK, FlowOK, QueueOK
<1>2. /\ ToSet(cancelQ) \subseteq Samples /\ ToSet(resultQ) \subseteq Samples
      /\ ToSet(mq) \subseteq Samples \cup {Sentinel}
  BY <1>1, ToSetSize
<1>3. Outstanding \subseteq Samples
  BY <1>1, <1>2 DEF Outstanding, Real, Running, Nobody, Sentinel
<1>4. IsFiniteSet(Samples)
  BY ConfigAssumption, FS_Interval DEF Samples
<1> QED BY <1>3, <1>4, FS_Subset, FS_CardinalityType

(* What is in the message queue is in flight, and with a None in it so is  *)
(* what is put next.                                                       *)
LEMMA QueueFlies ==
  ASSUME FlowInv, Sentinel \in ToSet(mq) => consumer # Nobody
  PROVE  Len(mq) <= Cardinality(Outstanding)
<1>1. mq \in Seq(Samples \cup {Sentinel}) /\ IsInjective(mq)
  BY DEF FlowInv, TypeInv, TypeOK, QueueOK, PlaceInv
<1>2. IsFiniteSet(ToSet(mq)) /\ Cardinality(ToSet(mq)) = Len(mq) /\ Len(mq) \in Nat
  BY <1>1, ToSetSize, LenProperties
<1>3. IsFiniteSet(Outstanding)
  BY OutstandingFinite DEF FlowInv
<1>4. CASE Sentinel \notin ToSet(mq)
  <2>1. ToSet(mq) \subseteq Outstanding
    BY <1>4 DEF Outstanding, Real, Sentinel
  <2> QED BY <1>2, <1>3, <2>1, FS_Subset
<1>5. CASE Sentinel \in ToSet(mq)
  <2>1. consumer # Nobody
    BY <1>5
  <2>2. consumer \notin ToSet(mq)
    <3>1. Place["consumer"] \cap Place["queue"] = {}
      <4>1. {"consumer", "queue"} \subseteq DOMAIN Place
        BY PlaceParts DEF PlaceNames
      <4> QED BY <4>1 DEF FlowInv, PlaceInv, Disjoint
    <3> QED BY <2>1, <3>1, PlaceParts DEF Real, Nobody
  <2> DEFINE R == ToSet(mq) \ {Sentinel}
             Q == R \cup {consumer}
  <2>3. Cardinality(R) = Len(mq) - 1 /\ IsFiniteSet(R)
    BY <1>2, <1>5, FS_RemoveElement
  <2>4. Cardinality(Q) = Len(mq)
    <3>1. consumer \notin R
      BY <2>2
    <3> HIDE DEF R
    <3>2. Cardinality(Q) = Cardinality(R) + 1
      BY <2>3, <3>1, FS_AddElement
    <3> QED BY <1>2, <2>3, <3>2
  <2>5. Q \subseteq Outstanding
    BY <2>1 DEF Outstanding, Real, Sentinel, Nobody
  <2> HIDE DEF Q
  <2> QED BY <1>3, <2>4, <2>5, FS_Subset
<1> QED BY <1>4, <1>5

(* The consumer puts its sample into the message queue.                    *)
LEMMA ConsumerPutsStep ==
  ASSUME FlowInv, ConsumerPuts
  PROVE  PlaceInv' /\ (Stays \/ \E y \in Samples : Leaves(y))
<1>1. /\ consumer # Nobody /\ consumer' = Nobody /\ PutIntoQueue(consumer)
      /\ UNCHANGED <<fed, pending, task, hand, cancelQ, resultQ, consumed, failures, mainPc>>
  BY DEF ConsumerPuts, procVars, flowVars, pastVars
<1>2. /\ mq \in Seq(Samples \cup {Sentinel}) /\ IsInjective(mq)
      /\ consumer \in Samples /\ consumer # 0
  BY <1>1 DEF FlowInv, TypeInv, TypeOK, QueueOK, CoroutinesOK, PlaceInv, Nobody
<1>3. Real({consumer}) = {consumer} /\ Real({consumer'}) = {}
  BY <1>1, <1>2 DEF Real, Nobody
<1>4. UNCHANGED <<Running, Left>>
  BY <1>1 DEF Running, Left
<1>5. consumer \in Place["consumer"] /\ Place'["consumer"] = Place["consumer"] \ {consumer}
  BY <1>3, PlaceParts, PlacePartsNext
<1>6. /\ "consumer" \in PlaceNames \cap Flying /\ "queue" \in PlaceNames \cap Flying
      /\ "dropped" \in PlaceNames /\ "dropped" \notin Flying
  BY DEF PlaceNames, Flying
<1>7. consumer \notin ToSet(mq)
  BY <1>2, <1>5, <1>6, PlaceParts DEF FlowInv, PlaceInv, Disjoint, Real
<1>8. /\ IsInjective(mq')
      /\ \/ ToSet(mq') = ToSet(mq) \cup {consumer} /\ mqDropped' = mqDropped
         \/ \E y \in ToSet(mq) : /\ Len(mq) >= MaxRequired
                                 /\ ToSet(mq') = (ToSet(mq) \ {y}) \cup {consumer}
                                 /\ mqDropped' = mqDropped \cup {y}
  BY <1>1, <1>2, <1>7, PutIntoSet
<1>9. SentinelLate' /\ IsInjective(cancelQ') /\ IsInjective(resultQ')
  BY <1>1, <1>2, <1>8 DEF FlowInv, PlaceInv, SentinelLate, Sentinel
<1>10. CASE Real(ToSet(mq')) = Real(ToSet(mq)) \cup {consumer} /\ UNCHANGED Real(mqDropped)
  <2>1. Place'["queue"] = Place["queue"] \cup {consumer}
    BY <1>10, PlaceParts, PlacePartsNext
  <2>2. \A p \in PlaceNames \ {"consumer", "queue"} : Place'[p] = Place[p]
    BY <1>1, <1>4, <1>10, PlaceParts, PlacePartsNext DEF PlaceNames
  <2>3. Disjoint(Place') /\ Outstanding' = Outstanding
    BY <1>5, <1>6, <2>1, <2>2, PlaceMoves DEF FlowInv, PlaceInv
  <2>4. Stays
    BY <1>1, <1>4, <1>10, <2>3 DEF Stays
  <2> QED BY <1>8, <1>9, <2>3, <2>4, PlaceInvNext DEF FlowInv
<1>11. ASSUME NEW y \in ToSet(mq), y # 0, Len(mq) >= MaxRequired,
              ToSet(mq') = (ToSet(mq) \ {y}) \cup {consumer}, mqDropped' = mqDropped \cup {y}
       PROVE  PlaceInv' /\ \E z \in Samples : Leaves(z)
  <2>1. /\ y \in Real(ToSet(mq)) /\ Real(ToSet(mq')) = (Real(ToSet(mq)) \ {y}) \cup {consumer}
        /\ Real(mqDropped') = Real(mqDropped) \cup {y} /\ y # consumer
    BY <1>2, <1>7, <1>11 DEF Real
  <2>2. y \in Place["queue"] /\ Place'["queue"] = (Place["queue"] \ {y}) \cup {consumer}
    BY <2>1, PlaceParts, PlacePartsNext
  <2>3. Place'["dropped"] = Place["dropped"] \cup {y}
    BY <2>1, PlaceParts, PlacePartsNext
  <2>4. \A p \in PlaceNames \ {"consumer", "queue", "dropped"} : Place'[p] = Place[p]
    BY <1>1, <1>4, PlaceParts, PlacePartsNext DEF PlaceNames
  <2>5. Disjoint(Place')
    <3>1. DOMAIN Place = PlaceNames /\ DOMAIN Place' = PlaceNames /\ Disjoint(Place)
      BY PlaceParts, PlacePartsNext DEF FlowInv, PlaceInv
    <3> DEFINE f == Place
               g == Place'
               a == "consumer"
               b == "queue"
               c == "dropped"
    <3>2. /\ {a, b, c} \subseteq PlaceNames /\ a # b /\ b # c /\ a # c
          /\ consumer \in f[a] /\ g[a] = f[a] \ {consumer}
          /\ y \in f[b] /\ g[b] = (f[b] \ {y}) \cup {consumer} /\ g[c] = f[c] \cup {y}
          /\ \A p \in PlaceNames \ {a, b, c} : g[p] = f[p]
      BY <1>5, <1>6, <2>2, <2>3, <2>4
    <3>3. Disjoint(f) /\ DOMAIN f = PlaceNames /\ DOMAIN g = PlaceNames
      BY <3>1
    <3> HIDE DEF f, g, a, b, c
    <3>4. Disjoint(g)
      BY <3>2, <3>3, MovesTwo
    <3> QED BY <3>4 DEF g
  <2>6. \A p \in PlaceNames \ {"queue"} : y \notin Place[p]
    BY <1>6, <2>2, PlaceParts DEF FlowInv, PlaceInv, Disjoint
  <2>7. y \in Outstanding /\ Outstanding' = Outstanding \ {y}
    <3>1. Flying \subseteq PlaceNames
      BY DEF Flying, PlaceNames
    <3>2. y \in Outstanding
      BY <1>6, <2>2, OutstandingParts
    <3>3. consumer \in Outstanding
      BY <1>5, <1>6, OutstandingParts
    <3>4. \A p \in Flying : \A z : z \in Place'[p] => z \in Outstanding /\ z # y
      BY <1>5, <1>6, <2>1, <2>2, <2>4, <2>6, <3>1, <3>3, OutstandingParts
    <3>5. \A p \in Flying : \A z : z \in Place[p] /\ z # y => z \in Outstanding'
      <4> SUFFICES ASSUME NEW p \in Flying, NEW z \in Place[p], z # y
                   PROVE  z \in Outstanding'
        OBVIOUS
      <4>1. CASE z = consumer
        BY <1>6, <2>2, <4>1, OutstandingParts
      <4>2. CASE z # consumer
        <5>1. z \in Place'[p]
          BY <1>5, <2>2, <2>4, <3>1, <4>2 DEF Flying
        <5> QED BY <5>1, OutstandingParts
      <4> QED BY <4>1, <4>2
    <3> QED BY <3>2, <3>4, <3>5, OutstandingParts
  <2>8. Cardinality(Outstanding) >= MaxRequired
    <3>1. Len(mq) <= Cardinality(Outstanding)
      BY <1>1, QueueFlies
    <3> QED BY <1>2, <1>11, <3>1, QueueRoom, OutstandingFinite, LenProperties DEF FlowInv
  <2>9. Leaves(y)
    BY <1>1, <1>4, <2>1, <2>7, <2>8 DEF Leaves
  <2>10. y \in Samples
    BY <2>7, OutstandingFinite DEF FlowInv
  <2> QED BY <1>8, <1>9, <2>5, <2>9, <2>10, PlaceInvNext DEF FlowInv
<1>12. CASE \E y \in ToSet(mq) : /\ Len(mq) >= MaxRequired
                                 /\ ToSet(mq') = (ToSet(mq) \ {y}) \cup {consumer}
                                 /\ mqDropped' = mqDropped \cup {y}
  <2>1. PICK y \in ToSet(mq) : /\ Len(mq) >= MaxRequired
                               /\ ToSet(mq') = (ToSet(mq) \ {y}) \cup {consumer}
                               /\ mqDropped' = mqDropped \cup {y}
    BY <1>12
  <2>2. CASE y = 0
    BY <1>2, <1>10, <2>1, <2>2 DEF Real
  <2>3. CASE y # 0
    BY <1>11, <2>1, <2>3
  <2> QED BY <2>2, <2>3
<1>13. CASE ToSet(mq') = ToSet(mq) \cup {consumer} /\ mqDropped' = mqDropped
  BY <1>2, <1>10, <1>13 DEF Real
<1> QED BY <1>8, <1>12, <1>13

(* The main coroutine puts None, which may drop a sample.                  *)
LEMMA MainFinishesStep ==
  ASSUME FlowInv, MainFinishes
  PROVE  PlaceInv' /\ (Stays \/ \E y \in Samples : Leaves(y))
<1>1. /\ mainPc = "sentinel" /\ mainPc' = "stop" /\ PutIntoQueue(Sentinel)
      /\ UNCHANGED <<fed, pending, task, hand, cancelQ, resultQ, consumer, consumed, failures>>
  BY DEF MainFinishes, procVars, flowVars, pastVars
<1>2. mq \in Seq(Samples \cup {Sentinel}) /\ IsInjective(mq)
  BY DEF FlowInv, TypeInv, TypeOK, QueueOK, PlaceInv
<1>3. Sentinel \notin ToSet(mq)
  BY <1>1 DEF FlowInv, PlaceInv, SentinelLate
<1>4. UNCHANGED <<Running, Left>>
  BY <1>1 DEF Running, Left
<1>5. /\ IsInjective(mq')
      /\ \/ ToSet(mq') = ToSet(mq) \cup {Sentinel} /\ mqDropped' = mqDropped
         \/ \E y \in ToSet(mq) : /\ Len(mq) >= MaxRequired
                                 /\ ToSet(mq') = (ToSet(mq) \ {y}) \cup {Sentinel}
                                 /\ mqDropped' = mqDropped \cup {y}
  BY <1>1, <1>2, <1>3, PutIntoSet
<1>6. SentinelLate' /\ IsInjective(cancelQ') /\ IsInjective(resultQ')
  BY <1>1 DEF FlowInv, PlaceInv, SentinelLate
<1>7. CASE ToSet(mq') = ToSet(mq) \cup {Sentinel} /\ mqDropped' = mqDropped
  <2>1. Real(ToSet(mq')) = Real(ToSet(mq))
    BY <1>7 DEF Real, Sentinel
  <2>2. UNCHANGED <<Place, Outstanding>>
    BY <1>1, <1>4, <1>7, <2>1 DEF Place, Outstanding, Real
  <2>3. Stays /\ Disjoint(Place')
    BY <1>1, <1>4, <1>7, <2>2 DEF Stays, FlowInv, PlaceInv
  <2> QED BY <1>5, <1>6, <2>3, PlaceInvNext DEF FlowInv
<1>8. ASSUME NEW y \in ToSet(mq), Len(mq) >= MaxRequired,
             ToSet(mq') = (ToSet(mq) \ {y}) \cup {Sentinel}, mqDropped' = mqDropped \cup {y}
      PROVE  PlaceInv' /\ \E z \in Samples : Leaves(z)
  <2>1. /\ y \in Real(ToSet(mq)) /\ Real(ToSet(mq')) = Real(ToSet(mq)) \ {y}
        /\ Real(mqDropped') = Real(mqDropped) \cup {y}
    BY <1>3, <1>8 DEF Real, Sentinel
  <2>2. y \in Place["queue"] /\ Place'["queue"] = Place["queue"] \ {y}
    BY <2>1, PlaceParts, PlacePartsNext
  <2>3. Place'["dropped"] = Place["dropped"] \cup {y}
    BY <2>1, PlaceParts, PlacePartsNext
  <2>4. \A p \in PlaceNames \ {"queue", "dropped"} : Place'[p] = Place[p]
    BY <1>1, <1>4, PlaceParts, PlacePartsNext DEF PlaceNames
  <2>5. /\ "queue" \in PlaceNames \cap Flying
        /\ "dropped" \in PlaceNames /\ "dropped" \notin Flying
    BY DEF PlaceNames, Flying
  <2>6. Disjoint(Place') /\ y \in Outstanding /\ Outstanding' = Outstanding \ {y}
    BY <2>2, <2>3, <2>4, <2>5, PlaceMoves DEF FlowInv, PlaceInv
  <2>7. Cardinality(Outstanding) >= MaxRequired
    <3>1. Len(mq) <= Cardinality(Outstanding)
      BY <1>3, QueueFlies
    <3> QED BY <1>2, <1>8, <3>1, QueueRoom, OutstandingFinite, LenProperties DEF FlowInv
  <2>8. Leaves(y)
    BY <1>1, <1>4, <2>1, <2>6, <2>7 DEF Leaves
  <2>9. y \in Samples
    BY <2>6, OutstandingFinite DEF FlowInv
  <2> QED BY <1>5, <1>6, <2>6, <2>8, <2>9, PlaceInvNext DEF FlowInv
<1> QED BY <1>5, <1>7, <1>8

(* Feeding moves no sample.                                                *)
LEMMA FeedStep ==
  ASSUME FlowInv, Feed
  PROVE  PlaceInv' /\ Stays
<1>1. UNCHANGED <<task, hand, cancelQ, resultQ, consumer, mq, mqDropped, consumed, failures, mainPc>>
  BY DEF Feed, procVars, corVars, mqVars, pastVars
<1>2. UNCHANGED <<Running, Place, Outstanding>>
  BY <1>1 DEF Running, Place, Outstanding
<1>3. UNCHANGED Left
  <2> DEFINE room == PendingSize - Len(pending)
             left == TotalSamples + 1 - fed
             m == IF room < left THEN room ELSE left
             more == [i \in 1 .. m |-> IF fed + i > TotalSamples THEN Done ELSE fed + i]
  <2>1. m > 0 /\ fed' = fed + m /\ pending' = pending \o more
    BY DEF Feed
  <2>2. /\ fed \in 0 .. TotalSamples + 1 /\ pending \in Seq(Samples \cup {Done})
        /\ Len(pending) \in Nat /\ TotalSamples \in Nat \ {0} /\ PendingSize \in Nat \ {0}
    BY LenProperties, ConfigAssumption DEF FlowInv, TypeInv, TypeOK, FlowOK
  <2>3. m \in Nat /\ fed + m <= TotalSamples + 1
    <3> HIDE DEF more
    <3> DEFINE k == Len(pending)
    <3>1. k \in Nat /\ m = IF PendingSize - k < left THEN PendingSize - k ELSE left
      BY <2>2
    <3> HIDE DEF k, m
    <3> QED BY <2>1, <2>2, <3>1
  <2> HIDE DEF m
  <2>4. \A i \in 1 .. m : (IF fed + i > TotalSamples THEN Done ELSE fed + i) \in Samples \cup {Done}
    BY <2>2, <2>3 DEF Samples
  <2>5. more \in Seq(Samples \cup {Done})
    BY <2>3, <2>4, IsASeq
  <2>6. Len(more) = m
    BY <2>3, <2>5, LenProperties
  <2> HIDE DEF more
  <2>7. Len(pending') = Len(pending) + m
    BY <2>1, <2>2, <2>5, <2>6, ConcatParts
  <2> QED BY <2>1, <2>2, <2>3, <2>7 DEF Left
<1>4. Stays
  BY <1>1, <1>2, <1>3 DEF Stays
<1> QED BY <1>1, <1>2, <1>4, PlaceInvNext DEF FlowInv, PlaceInv, SentinelLate

(* A sample enters the flow: the next one of pending_queue.                *)
Starts ==
  /\ Left' = Left + 1 /\ Left + 1 \in Samples
  /\ Left + 1 \notin Outstanding \cup Gone
  /\ Outstanding' = Outstanding \cup {Left + 1} /\ hand' = Left + 1
  /\ UNCHANGED <<consumed, failures, Real(mqDropped)>>

(* "DONE" is taken.                                                        *)
TakesDone ==
  /\ Left' = Left + 1 /\ Left + 1 = TotalSamples + 1
  /\ UNCHANGED <<Outstanding, consumed, failures, Real(mqDropped)>>

LEMMA TakeStep ==
  ASSUME FlowInv, Takes
  PROVE  PlaceInv' /\ (Starts \/ TakesDone)
<1> DEFINE x == Left + 1
<1>1. /\ pending # <<>> /\ pending' = Tail(pending)
      /\ Head(pending) = Done => hand' = hand
      /\ Head(pending) # Done => hand' = Head(pending)
      /\ UNCHANGED <<fed, task, cancelQ, resultQ, consumer, mq, mqDropped, consumed, failures, mainPc>>
  BY DEF Takes, TakePending, corVars, mqVars, pastVars
<1>2. /\ Left \in Int /\ Left <= TotalSamples + 1
      /\ Head(pending) = IF x > TotalSamples THEN Done ELSE x
  BY <1>1, TakenIs DEF FlowInv
<1>3. /\ pending \in Seq(Samples \cup {Done}) /\ fed \in 0 .. TotalSamples + 1
      /\ TotalSamples \in Nat \ {0}
  BY ConfigAssumption DEF FlowInv, TypeInv, TypeOK, FlowOK
<1>4. Len(pending) \in Nat \ {0} /\ Len(pending') = Len(pending) - 1
  BY <1>1, <1>3, HeadTailProperties, LenProperties, EmptySeq
<1>5. Left' = x /\ Left >= 0 /\ x <= TotalSamples + 1
  BY <1>1, <1>3, <1>4 DEF Left, FlowInv, PendingShape
<1>6. hand = Nobody
  BY DEF FlowInv, HandFree, Taking, Takes
<1>7. UNCHANGED Running
  BY <1>1 DEF Running
<1>8. SentinelLate' /\ IsInjective(cancelQ') /\ IsInjective(resultQ') /\ IsInjective(mq')
  BY <1>1 DEF FlowInv, PlaceInv, SentinelLate
<1>9. Outstanding \cup Gone = {s \in Samples : s <= Left}
  BY DEF FlowInv, PlaceInv
<1>10. UNCHANGED Gone
  BY <1>1 DEF Gone
<1>11. CASE x > TotalSamples
  <2>1. hand' = hand
    BY <1>1, <1>2, <1>11
  <2>2. UNCHANGED <<Place, Outstanding>>
    BY <1>1, <1>7, <2>1 DEF Place, Outstanding
  <2>3. TakesDone
    BY <1>1, <1>3, <1>5, <1>2, <1>11, <2>2 DEF TakesDone
  <2>4. {s \in Samples : s <= Left'} = {s \in Samples : s <= Left}
    BY <1>2, <1>3, <1>5, <1>11 DEF Samples
  <2> QED BY <1>8, <1>9, <1>10, <2>2, <2>3, <2>4 DEF PlaceInv, FlowInv
<1>12. CASE x <= TotalSamples
  <2>1. x \in Samples /\ x # 0
    BY <1>2, <1>3, <1>5, <1>12 DEF Samples
  <2>2. hand' = x
    BY <1>1, <1>2, <1>3, <1>12, <2>1 DEF Done
  <2>3. Real({hand}) = {} /\ Real({hand'}) = {x}
    BY <1>6, <2>1, <2>2 DEF Real, Nobody
  <2>4. x \notin Outstanding \cup Gone
    BY <1>2, <1>9
  <2> HIDE DEF x
  <2>5. Outstanding' = Outstanding \cup {x}
    BY <1>1, <1>7, <2>3 DEF Outstanding, Real
  <2>6. Place'["hand"] = Place["hand"] \cup {x}
    BY <2>3, PlaceParts, PlacePartsNext
  <2>7. \A p \in PlaceNames \ {"hand"} : Place'[p] = Place[p]
    BY <1>1, <1>7, PlaceParts, PlacePartsNext DEF PlaceNames
  <2>8. \A p \in PlaceNames : x \notin Place[p]
    BY <2>4, OutstandingParts, PlaceParts DEF Flying, PlaceNames, Gone
  <2>9. "hand" \in PlaceNames /\ DOMAIN Place = PlaceNames /\ DOMAIN Place' = PlaceNames
    BY PlaceParts, PlacePartsNext DEF PlaceNames
  <2>10. Disjoint(Place')
    BY <2>6, <2>7, <2>8, <2>9, Enters DEF FlowInv, PlaceInv
  <2>11. {s \in Samples : s <= Left'} = {s \in Samples : s <= Left} \cup {x}
    BY <1>2, <1>3, <1>5, <2>1 DEF Samples, x
  <2>12. Starts
    BY <1>1, <1>5, <2>1, <2>2, <2>4, <2>5 DEF Starts, x
  <2> QED BY <1>8, <1>9, <1>10, <2>5, <2>10, <2>11, <2>12 DEF PlaceInv
<1> QED BY <1>2, <1>3, <1>11, <1>12

(* A step takes a sample, lets one leave, or changes nothing of the flow.  *)
LEMMA FlowStep ==
  ASSUME FlowInv, [Next]_vars
  PROVE  /\ PlaceInv'
         /\ \/ Stays
            \/ Takes /\ (Starts \/ TakesDone)
            \/ \E y \in Samples : Leaves(y)
<1>1. CASE UNCHANGED sampleVars
  <2>1. mainPc \in {"stop", "done"} => mainPc' \in {"stop", "done"}
    <3> SUFFICES ASSUME mainPc \in {"stop", "done"}, mainPc' # mainPc PROVE mainPc' = "done"
      OBVIOUS
    <3> QED BY MainMoves
  <2> QED BY <1>1, <2>1, PlacesStay DEF FlowInv
<1>2. CASE TrainerGetsSample
  <2>1. Leaves(Head(mq)) => Head(mq) \in Samples
    BY OutstandingFinite DEF Leaves, FlowInv
  <2> QED BY <1>2, <2>1, TrainerGetsStep
<1>3. CASE \E s \in Samples : TaskEnd(s)
  BY <1>3, TaskEndStep
<1>4. CASE Feed \/ Takes \/ Retakes \/ ConsumerTakes \/ ConsumerPuts \/ MainFinishes
  BY <1>4, FeedStep, TakeStep, RetakeStep, ConsumerTakesStep, ConsumerPutsStep, MainFinishesStep
<1>5. CASE ProcSubmit /\ ProcSubmits
  BY <1>5, SubmitStep
<1> QED BY <1>1, <1>2, <1>3, <1>4, <1>5, SampleFrame DEF FlowInv

LEMMA FlowInvStep == FlowInv /\ [Next]_vars => FlowInv'
BY FlowStep, TypeInvStep, HandFreeStep, MainAfterProcStep, PendingShapeStep DEF FlowInv

LEMMA FlowInvInit == Init => FlowInv /\ Outstanding = {} /\ Gone = {}
<1> SUFFICES ASSUME Init PROVE FlowInv /\ Outstanding = {} /\ Gone = {}
  OBVIOUS
<1>1. TypeInv
  BY TypeInvInit
<1>2. HandFree /\ MainAfterProc
  BY DEF Init, HandFree, MainAfterProc
<1>3. Len(pending) = 0 /\ Left = 0
  <2>1. fed = 0
    BY DEF Init
  <2>2. Len(pending) = 0
    BY DEF Init
  <2>3. fed - Len(pending) = 0
    BY <2>1, <2>2
  <2> QED BY <2>2, <2>3 DEF Left
<1>4. PendingShape
  BY <1>3 DEF PendingShape
<1>5. /\ Real({hand}) = {} /\ Running = {} /\ ToSet(cancelQ) = {} /\ ToSet(resultQ) = {}
      /\ Real({consumer}) = {} /\ ToSet(mq) = {} /\ Real(ToSet(mq)) = {}
      /\ consumed = {} /\ Real(mqDropped) = {} /\ failures = {}
      /\ IsInjective(cancelQ) /\ IsInjective(resultQ) /\ IsInjective(mq)
  BY EmptyToSet DEF Init, Real, Running, Nobody
<1>6. \A p \in PlaceNames : Place[p] = {}
  BY <1>5, PlaceParts DEF PlaceNames
<1>7. Disjoint(Place)
  BY <1>6, PlaceParts DEF Disjoint
<1>8. Outstanding = {} /\ Gone = {} /\ {s \in Samples : s <= Left} = {}
  <2>1. Outstanding = {}
    BY <1>6, OutstandingParts DEF Flying, PlaceNames
  <2> QED BY <1>3, <1>5, <2>1, ConfigAssumption DEF Gone, Samples
<1> QED BY <1>1, <1>2, <1>4, <1>5, <1>7, <1>8 DEF FlowInv, PlaceInv, SentinelLate

(* The handover of samples between the feeder, the processor, its tasks,   *)
(* the consumer, the message queue and the trainer keeps FlowInv, whatever *)
(* is paused, interrupted, resumed or failing.                             *)
THEOREM FlowInvariant == Safe => []FlowInv
BY FlowInvInit, FlowInvStep, PTL DEF Safe

(* Every sample that was taken is in exactly one place, and once, whatever *)
(* is paused, cancelled, resumed, dropped or failing: FullyAsync's         *)
(* SampleInOnePlace.                                                       *)
THEOREM OnePlace == Safe => []SampleInOnePlace
<1>1. FlowInv => SampleInOnePlace
  BY TakenIs DEF FlowInv, PlaceInv, Disjoint, SampleInOnePlace
<1> QED BY <1>1, FlowInvariant, PTL

-----------------------------------------------------------------------------
(* The count of samples that may get stale.                                *)

(* What leaves the processor's hand by a submission aside, and what leaves *)
(* the message queue.                                                      *)
LEMMA HandMoves ==
  ASSUME FlowInv, [Next]_vars
  PROVE  hand' = hand \/ hand = Nobody \/ (ProcSubmit /\ ProcSubmits)
<1>1. CASE Takes \/ Retakes
  BY <1>1 DEF FlowInv, HandFree, Taking, Takes, Retakes
<1>2. CASE UNCHANGED sampleVars
  BY <1>2 DEF sampleVars
<1>3. CASE Feed \/ (\E s \in Samples : TaskEnd(s)) \/ ConsumerTakes \/ ConsumerPuts
           \/ MainFinishes \/ TrainerGetsSample
  BY <1>3 DEF Feed, TaskEnd, ConsumerTakes, ConsumerPuts, MainFinishes, TrainerGetsSample,
              procVars, rollouterVars
<1> QED BY <1>1, <1>2, <1>3, SampleFrame DEF FlowInv

LEMMA FlyingNotUsed ==
  ASSUME PlaceInv', NEW y \in Outstanding'
  PROVE  y \notin consumed' /\ y \notin Real(mqDropped')
<1>1. PICK p \in Flying : y \in Place'[p]
  BY OutstandingParts
<1>2. /\ Flying \subseteq DOMAIN Place' /\ {"used", "dropped"} \subseteq DOMAIN Place'
      /\ p # "used" /\ p # "dropped"
  BY PlacePartsNext DEF Flying, PlaceNames
<1>3. \A q \in DOMAIN Place' : q # p => y \notin Place'[q]
  BY <1>1, <1>2 DEF PlaceInv, Disjoint
<1> QED BY <1>2, <1>3, PlacePartsNext

LEMMA QueueMoves ==
  ASSUME FlowInv, [Next]_vars, NEW y \in Outstanding', y \in ToSet(mq)
  PROVE  y \in ToSet(mq')
<1>1. PlaceInv'
  BY FlowStep
<1>2. y \notin consumed' /\ y \notin Real(mqDropped')
  BY <1>1, FlyingNotUsed
<1>3. y # 0
  <2>1. TypeInv'
    BY TypeInvStep DEF FlowInv
  <2>2. (Outstanding \subseteq Samples)'
    BY <2>1, OutstandingFinite, PTL
  <2> QED BY <2>2 DEF Samples
<1>4. mq \in Seq(Samples \cup {Sentinel})
  BY DEF FlowInv, TypeInv, TypeOK, QueueOK
<1>5. mq # <<>> => y = Head(mq) \/ y \in ToSet(Tail(mq))
  BY <1>4, TailToSet
<1>6. mq # <<>>
  BY EmptyToSet
<1>7. CASE TrainerGetsSample
  <2>1. mq' = Tail(mq) /\ (Head(mq) # Sentinel => Head(mq) \in consumed')
    BY <1>7 DEF TrainerGetsSample
  <2> QED BY <1>2, <1>3, <1>5, <1>6, <2>1 DEF Sentinel
<1>8. ASSUME NEW x \in Samples \cup {Sentinel}, PutIntoQueue(x) PROVE y \in ToSet(mq')
  <2>1. Tail(mq) \in Seq(Samples \cup {Sentinel})
    BY <1>4, <1>6, HeadTailProperties
  <2>2. CASE Len(mq) >= MaxRequired
    <3>1. mq' = Append(Tail(mq), x) /\ Head(mq) \in mqDropped'
      BY <1>8, <2>2 DEF PutIntoQueue
    <3> DEFINE r == Tail(mq)
    <3>2. y \in ToSet(r)
      BY <1>2, <1>3, <1>5, <1>6, <3>1 DEF Real
    <3>3. r \in Seq(Samples \cup {Sentinel}) /\ mq' = Append(r, x)
      BY <2>1, <3>1
    <3> HIDE DEF r
    <3> QED BY <3>2, <3>3, AppendToSet
  <2>3. CASE ~(Len(mq) >= MaxRequired)
    <3>1. mq' = Append(mq, x)
      BY <1>8, <2>3 DEF PutIntoQueue
    <3> QED BY <1>4, <3>1, AppendToSet
  <2> QED BY <2>2, <2>3
<1>9. CASE ConsumerPuts \/ MainFinishes
  <2>1. consumer \in Samples \cup {Sentinel}
    BY DEF FlowInv, TypeInv, TypeOK, CoroutinesOK, Nobody, Sentinel
  <2> QED BY <1>8, <1>9, <2>1 DEF ConsumerPuts, MainFinishes
<1>10. CASE UNCHANGED mq
  BY <1>10
<1>11. CASE Feed \/ Takes \/ Retakes \/ ProcSubmit \/ (\E s \in Samples : TaskEnd(s))
            \/ ConsumerTakes
  BY <1>10, <1>11 DEF Feed, Takes, Retakes, ProcSubmit, TaskEnd, ConsumerTakes, mqVars
<1>12. CASE UNCHANGED sampleVars
  BY <1>10, <1>12 DEF sampleVars
<1> QED BY <1>7, <1>9, <1>11, <1>12, SampleFrame DEF FlowInv

(* Who changes the count, and the sum update_param_version computes.       *)
countVars == <<staleness, updatePc, updateAcc>>

LEMMA CountFrame ==
  ASSUME [Next]_vars
  PROVE  \/ UNCHANGED countVars
         \/ Takes /\ staleness' = staleness + 1 /\ UNCHANGED <<updatePc, updateAcc>>
         \/ UpdateEnter \/ UpdateCounts \/ UpdateSets
         \/ updatePc' \in {"idle", "called"} /\ UNCHANGED staleness
<1> USE DEF flagVars, flowVars, procVars, corVars, callVars, servVars, mqVars,
            trainVars, pastVars, rollouterVars, countVars
<1>1. CASE Processor
  <2>1. CASE ProcContended \/ ProcPause \/ ProcIdle \/ ProcWoken \/ ProcSubmit
    BY <2>1 DEF ProcContended, ProcPause, ProcIdle, ProcWoken, ProcSubmit
  <2>2. CASE Takes
    BY <2>2 DEF Takes, TakePending, OneMore
  <2>3. CASE ProcCheck \/ ProcGet
    <3>1. ProcCheck => Takes \/ UNCHANGED <<flagVars, callVars>>
      BY DEF ProcCheck, Takes
    <3> QED BY <2>2, <2>3, <3>1, ProcTakes
  <2>4. ASSUME NEW l \in Loops, LoopExit(l) \/ LoopLocked(l) \/ LoopReap(l)
        PROVE  UNCHANGED countVars
    BY <2>4 DEF LoopExit, LoopLocked, LoopReap
  <2> QED BY <1>1, <2>1, <2>3, <2>4 DEF Processor
<1>2. CASE Feed \/ Consumer \/ Main \/ Monitor
  BY <1>2 DEF Feed, Consumer, ConsumerTakes, ConsumerPuts, Main, MainJoins, MainFinishes,
              MainStops, Monitor, MonitorTop, MonitorWakes, MonitorUnpauses
<1>3. CASE Calls
  BY <1>3 DEF Calls, Pause, PauseEnter, PauseCancels, PauseGathers, PauseReturns,
              Update, UpdateReturns, Resume, ResumeEnter, ResumeReturns
<1>4. CASE Train \/ Sync
  BY <1>4 DEF Train, TrainerGetsValidation, TrainerGetsSample, TrainerTrains, TrainerEnds,
              TrainerLogsLast, Sync, SyncStarts, SyncBroadcasts, SyncReturns
<1>5. ASSUME NEW s \in Samples, Task(s) PROVE UNCHANGED countVars
  BY <1>5 DEF Task, TaskStart, ServerAnswers, TaskEnd
<1>6. CASE UNCHANGED vars
  BY <1>6 DEF vars
<1> QED BY <1>1, <1>2, <1>3, <1>4, <1>5, <1>6 DEF Next

(* update_param_version sums up what is not in the message queue, then     *)
(* adds the queue: one sample that the consumer was putting may be missing *)
(* from the sum, and the one in the processor's hand always is.            *)
Summed ==
  IF updatePc = "size" THEN Outstanding \ ({hand} \cup ToSet(mq)) ELSE Outstanding \ {hand}
ResetCounts == updatePc \in {"size", "set"} => Cardinality(Summed) <= updateAcc + 1

(* The queue is asked for a sample only after the count allowed for it.    *)
GetsRoom == proc = "get" => Cardinality(Outstanding) <= MaxRequired + 1

CountInv == FlowInv /\ TaskInv /\ StalenessCounts /\ ResetCounts /\ GetsRoom

LEMMA OutstandingSteps ==
  ASSUME FlowInv, [Next]_vars
  PROVE  /\ IsFiniteSet(Outstanding) /\ IsFiniteSet(Outstanding')
         /\ Cardinality(Outstanding) \in Nat /\ Cardinality(Outstanding') \in Nat
         /\ \/ Outstanding' \subseteq Outstanding
               /\ Cardinality(Outstanding') <= Cardinality(Outstanding)
            \/ Takes /\ Starts /\ Cardinality(Outstanding') = Cardinality(Outstanding) + 1
<1>1. TypeInv /\ TypeInv'
  BY TypeInvStep DEF FlowInv
<1>2. IsFiniteSet(Outstanding)' /\ (Cardinality(Outstanding) \in Nat)'
  BY <1>1, OutstandingFinite, PTL
<1>3. IsFiniteSet(Outstanding) /\ Cardinality(Outstanding) \in Nat
  BY <1>1, OutstandingFinite
<1>4. ASSUME Outstanding' \subseteq Outstanding
      PROVE  Cardinality(Outstanding') <= Cardinality(Outstanding)
  BY <1>3, <1>4, FS_Subset
<1>5. CASE Stays \/ TakesDone \/ \E y \in Samples : Leaves(y)
  BY <1>2, <1>3, <1>4, <1>5 DEF Stays, TakesDone, Leaves
<1>6. CASE Takes /\ Starts
  <2>1. Left + 1 \notin Outstanding /\ Outstanding' = Outstanding \cup {Left + 1}
    BY <1>6 DEF Starts
  <2>2. Cardinality(Outstanding') = Cardinality(Outstanding) + 1
    BY <1>3, <2>1, FS_AddElement
  <2> QED BY <1>2, <1>3, <1>6, <2>2
<1> QED BY <1>5, <1>6, FlowStep

(* While update_param_version holds the lock nothing is submitted, and the *)
(* samples it has not counted only get fewer.                              *)
LEMMA SummedShrinks ==
  ASSUME CountInv, [Next]_vars, updatePc \in {"size", "set"}, updatePc' = updatePc
  PROVE  Summed' \subseteq Summed
<1>1. ~ProcSubmit
  <2>1. Holds("update")
    BY DEF CountInv, FlowInv, TypeInv, LockInv, CriticalSections
  <2> QED BY <2>1 DEF ProcSubmit, Enter, Holds
<1>2. hand' = hand \/ hand = Nobody
  BY <1>1, HandMoves DEF CountInv
<1>3. 0 \notin Outstanding
  BY OutstandingFinite DEF CountInv, FlowInv, Samples
<1>4. Outstanding' \ {hand'} \subseteq Outstanding \ {hand}
  <2>1. Outstanding' \subseteq Outstanding \/ Starts
    BY OutstandingSteps DEF CountInv
  <2> QED BY <1>2, <1>3, <2>1 DEF Starts, Nobody
<1>5. \A y \in Outstanding' : y \in ToSet(mq) => y \in ToSet(mq')
  BY QueueMoves DEF CountInv
<1> QED BY <1>4, <1>5 DEF Summed

LEMMA GetFrame ==
  ASSUME [Next]_vars, proc' = "get"
  PROVE  ~Takes /\ (proc = "get" \/ ~ShouldPause)
<1>1. ~Takes
  BY DEF Takes, TakePending, GoOn
<1> SUFFICES ASSUME Processor, proc # "get" PROVE ~ShouldPause
  BY <1>1, ProcFrame
<1>2. CASE ProcCheck
  BY <1>2 DEF ProcCheck, TakePending, GoOn
<1>3. ~(ProcContended \/ ProcPause \/ ProcIdle \/ ProcSubmit \/ ProcWoken \/ ProcGet)
  BY DEF ProcContended, ProcPause, ProcIdle, ProcSubmit, ProcSubmits, ProcSubmitWaits, ProcWoken,
         ProcGet, GoOn, Suspend, AtLock, Loops
<1>4. ASSUME NEW l \in Loops PROVE ~(LoopExit(l) \/ LoopLocked(l) \/ LoopReap(l))
  BY DEF Loops, LoopExit, LoopLocked, LoopReap, After, AtWait, GoOn, Suspend
<1> QED BY <1>2, <1>3, <1>4 DEF Processor

(* What update_param_version counts before it asks the message queue.      *)
LEMMA FirstSum ==
  ASSUME TypeInv, RunningIsActive
  PROVE  Cardinality(Outstanding \ ({hand} \cup ToSet(mq)))
           <= Cardinality(active) + Len(resultQ) + Len(cancelQ) + 1
<1>1. /\ cancelQ \in Seq(Samples) /\ resultQ \in Seq(Samples) /\ active \subseteq Samples
      /\ IsFiniteSet(active) /\ Cardinality(active) \in Nat
  <2>1. cancelQ \in Seq(Samples) /\ resultQ \in Seq(Samples) /\ active \subseteq Samples
    BY DEF TypeInv, TypeOK, FlowOK
  <2> QED BY <2>1, OutstandingFinite, FS_Subset, FS_CardinalityType
<1> DEFINE R == ToSet(resultQ)
           C == ToSet(cancelQ)
<1>2. /\ IsFiniteSet(R) /\ Cardinality(R) <= Len(resultQ) /\ Cardinality(R) \in Nat
      /\ IsFiniteSet(C) /\ Cardinality(C) <= Len(cancelQ) /\ Cardinality(C) \in Nat
      /\ Len(resultQ) \in Nat /\ Len(cancelQ) \in Nat
  BY <1>1, ToSetSize, LenProperties
<1>3. IsFiniteSet({consumer}) /\ Cardinality({consumer}) = 1
  BY FS_Singleton
<1>4. Outstanding \ ({hand} \cup ToSet(mq)) \subseteq ((active \cup R) \cup C) \cup {consumer}
  BY DEF Outstanding, Real, RunningIsActive
<1> HIDE DEF R, C
<1>5. /\ IsFiniteSet(active \cup R) /\ Cardinality(active \cup R) \in Nat
      /\ Cardinality(active \cup R) <= Cardinality(active) + Cardinality(R)
  BY <1>1, <1>2, UnionSize
<1>6. /\ IsFiniteSet((active \cup R) \cup C) /\ Cardinality((active \cup R) \cup C) \in Nat
      /\ Cardinality((active \cup R) \cup C) <= Cardinality(active \cup R) + Cardinality(C)
  BY <1>2, <1>5, UnionSize
<1> DEFINE all == ((active \cup R) \cup C) \cup {consumer}
<1>7. /\ IsFiniteSet(all) /\ Cardinality(all) \in Nat
      /\ Cardinality(all) <= Cardinality((active \cup R) \cup C) + 1
  BY <1>3, <1>6, UnionSize
<1>8. Cardinality(Outstanding \ ({hand} \cup ToSet(mq))) <= Cardinality(all)
  BY <1>4, <1>7, FS_Subset
<1>9. Cardinality(Outstanding \ ({hand} \cup ToSet(mq))) \in Nat
  BY <1>4, <1>7, FS_Subset, FS_CardinalityType
<1> HIDE DEF all
<1> QED BY <1>1, <1>2, <1>5, <1>6, <1>7, <1>8, <1>9

LEMMA CountInvStep == CountInv /\ [Next]_vars => CountInv'
<1> SUFFICES ASSUME CountInv, [Next]_vars
             PROVE  StalenessCounts' /\ ResetCounts' /\ GetsRoom'
  BY FlowInvStep, TaskInvStep DEF CountInv
<1> DEFINE out == Cardinality(Outstanding)
<1>1. /\ IsFiniteSet(Outstanding) /\ IsFiniteSet(Outstanding') /\ out \in Nat /\ out' \in Nat
      /\ \/ Outstanding' \subseteq Outstanding /\ out' <= out
         \/ Takes /\ Starts /\ out' = out + 1
  BY OutstandingSteps DEF CountInv
<1>2. /\ staleness \in Nat /\ updateAcc \in Nat /\ MaxRequired \in Nat
      /\ staleness' \in Nat /\ updateAcc' \in Nat
  <2>1. TypeInv /\ TypeInv'
    BY TypeInvStep DEF CountInv, FlowInv
  <2> QED BY <2>1, QueueRoom DEF TypeInv, TypeOK, FlagsOK, CallsOK
<1>3. out <= staleness + 2
  BY DEF CountInv, StalenessCounts
<1>4. IsFiniteSet(Summed) /\ Cardinality(Summed) \in Nat /\ IsFiniteSet(Summed')
      /\ Cardinality(Summed') \in Nat
  <2>1. Summed \subseteq Outstanding /\ Summed' \subseteq Outstanding'
    BY DEF Summed
  <2> QED BY <1>1, <2>1, FS_Subset, FS_CardinalityType
<1>5. Takes => staleness' = staleness + 1 /\ UNCHANGED <<updatePc, updateAcc>>
  BY DEF Takes, TakePending, OneMore, callVars
<1>6. updatePc = "set" => out <= updateAcc + 2
  <2>1. ASSUME updatePc = "set" PROVE out <= updateAcc + 2
    <3>1. Summed = Outstanding \ {hand} /\ Cardinality(Summed) <= updateAcc + 1
      BY <2>1 DEF Summed, CountInv, ResetCounts
    <3>2. IsFiniteSet({hand}) /\ Cardinality({hand}) = 1
      BY FS_Singleton
    <3>3. Cardinality(Summed \cup {hand}) \in Nat
          /\ Cardinality(Summed \cup {hand}) <= Cardinality(Summed) + 1
          /\ IsFiniteSet(Summed \cup {hand})
      BY <1>4, <3>2, UnionSize
    <3>4. Outstanding \subseteq Summed \cup {hand}
      BY <3>1
    <3>5. out <= Cardinality(Summed \cup {hand})
      BY <3>3, <3>4, FS_Subset
    <3> QED BY <1>1, <1>2, <1>4, <3>1, <3>3, <3>5
  <2> QED BY <2>1
<1>7. StalenessCounts'
  <2>1. CASE Takes
    BY <1>1, <1>2, <1>3, <1>5, <2>1 DEF StalenessCounts
  <2>2. CASE UpdateSets
    <3>1. updatePc = "set" /\ staleness' = updateAcc
      BY <2>2 DEF UpdateSets, Reset
    <3>2. ~Takes
      BY <2>2, <3>1, <1>5 DEF UpdateSets
    <3> QED BY <1>1, <1>2, <1>6, <3>1, <3>2 DEF StalenessCounts
  <2>3. CASE ~Takes /\ UNCHANGED staleness
    BY <1>1, <1>2, <1>3, <2>3 DEF StalenessCounts
  <2>4. UpdateEnter \/ UpdateCounts => UNCHANGED staleness
    BY DEF UpdateEnter, UpdateCounts, flagVars
  <2> QED BY <2>1, <2>2, <2>3, <2>4, CountFrame DEF countVars
<1>8. GetsRoom'
  <2> SUFFICES ASSUME proc' = "get" PROVE out' <= MaxRequired + 1
    BY DEF GetsRoom
  <2>1. out <= MaxRequired + 1
    <3>1. CASE proc = "get"
      BY <3>1 DEF CountInv, GetsRoom
    <3>2. CASE ~ShouldPause
      <4>1. ~(staleness >= MaxRequired)
        BY <3>2 DEF ShouldPause
      <4> QED BY <1>1, <1>2, <1>3, <4>1
    <3> QED BY <3>1, <3>2, GetFrame
  <2> QED BY <1>1, <1>2, <2>1, GetFrame
<1>9. ResetCounts'
  <2> SUFFICES ASSUME updatePc' \in {"size", "set"}
               PROVE  Cardinality(Summed') <= updateAcc' + 1
    BY DEF ResetCounts
  <2>1. CASE updatePc' = updatePc
    <3>1. updateAcc' = updateAcc
      BY <1>5, <2>1, CountFrame DEF UpdateEnter, UpdateCounts, UpdateSets, countVars
    <3>2. Cardinality(Summed') <= Cardinality(Summed)
      BY <1>4, <2>1, SummedShrinks, FS_Subset
    <3> QED BY <1>2, <1>4, <2>1, <3>1, <3>2 DEF CountInv, ResetCounts
  <2>2. CASE UpdateEnter
    <3>1. /\ updateAcc' = Cardinality(active) + Len(resultQ) + Len(cancelQ) /\ updatePc' = "size"
          /\ UNCHANGED <<flowVars, hand, consumer, mq>>
      BY <2>2 DEF UpdateEnter, procVars, corVars, mqVars
    <3>2. Summed' = Outstanding \ ({hand} \cup ToSet(mq))
      BY <3>1 DEF Summed, Outstanding, Running, flowVars
    <3> QED BY <3>1, <3>2, FirstSum DEF CountInv, FlowInv, TaskInv
  <2>3. CASE UpdateCounts
    <3>1. /\ updatePc = "size" /\ updatePc' = "set" /\ updateAcc' = updateAcc + Len(mq)
          /\ UNCHANGED <<flowVars, hand, consumer, mq>>
      BY <2>3 DEF UpdateCounts, procVars, corVars, mqVars
    <3>2. /\ Summed' = Outstanding \ {hand} /\ Summed = Outstanding \ ({hand} \cup ToSet(mq))
      BY <3>1 DEF Summed, Outstanding, Running, flowVars
    <3>3. /\ IsFiniteSet(ToSet(mq)) /\ Cardinality(ToSet(mq)) \in Nat
          /\ Cardinality(ToSet(mq)) <= Len(mq) /\ Len(mq) \in Nat
      BY ToSetSize, LenProperties DEF CountInv, FlowInv, TypeInv, TypeOK, QueueOK
    <3>4. /\ Cardinality(Summed \cup ToSet(mq)) <= Cardinality(Summed) + Cardinality(ToSet(mq))
          /\ Cardinality(Summed \cup ToSet(mq)) \in Nat /\ IsFiniteSet(Summed \cup ToSet(mq))
      BY <1>4, <3>3, UnionSize
    <3>5. Cardinality(Summed') <= Cardinality(Summed \cup ToSet(mq))
      <4>1. Summed' \subseteq Summed \cup ToSet(mq)
        BY <3>2
      <4> QED BY <3>4, <4>1, FS_Subset
    <3>6. Cardinality(Summed) <= updateAcc + 1
      BY <3>1 DEF CountInv, ResetCounts
    <3> QED BY <1>2, <1>4, <3>1, <3>3, <3>4, <3>5, <3>6
  <2> QED BY <2>1, <2>2, <2>3, <1>5, CountFrame DEF UpdateSets, countVars
<1> QED BY <1>7, <1>8, <1>9

LEMMA CountInvInit == Init => CountInv
<1> SUFFICES ASSUME Init PROVE CountInv
  OBVIOUS
<1>1. FlowInv /\ Cardinality(Outstanding) = 0
  BY FlowInvInit, FS_EmptySet
<1>2. TaskInv
  BY DEF Init, TaskInv, RunningIsActive, Running, TaskStates
<1>3. staleness = 0 /\ updatePc = "idle" /\ proc = "check"
  BY DEF Init
<1> QED BY <1>1, <1>2, <1>3 DEF CountInv, StalenessCounts, ResetCounts, GetsRoom

(* The count on which the rollouter's pauses rest is at most two short of  *)
(* the samples in flight, for any schedule of update_param_version against *)
(* the coroutines: FullyAsync's StalenessCounts.                           *)
THEOREM CountsAll == Safe => []StalenessCounts
<1>1. CountInv => StalenessCounts
  BY DEF CountInv
<1> QED BY <1>1, CountInvInit, CountInvStep, PTL DEF Safe

-----------------------------------------------------------------------------
(* The pipeline implements the flow of SampleFlow.                         *)
LEMMA UpToCount ==
  ASSUME NEW n \in Nat
  PROVE  Cardinality(1 .. n) = n
<1>1. 1 \in Int /\ n \in Int
  OBVIOUS
<1>2. Cardinality(1 .. n) = IF 1 > n THEN 0 ELSE n - 1 + 1
  BY <1>1, FS_Interval
<1> QED BY <1>2

LEMMA TakenCount ==
  FlowInv => Cardinality(Taken) = IF Left > TotalSamples THEN TotalSamples ELSE Left
<1> SUFFICES ASSUME FlowInv
             PROVE  Cardinality(Taken) = IF Left > TotalSamples THEN TotalSamples ELSE Left
  OBVIOUS
<1>1. /\ Left \in Nat /\ Left <= TotalSamples + 1 /\ TotalSamples \in Nat
      /\ Taken = {s \in Samples : s <= Left}
  BY TakenIs, ConfigAssumption DEF FlowInv, PendingShape
<1>2. CASE Left > TotalSamples
  <2>1. Taken = 1 .. TotalSamples
    BY <1>1, <1>2 DEF Samples
  <2> QED BY <1>1, <1>2, <2>1, UpToCount
<1>3. CASE ~(Left > TotalSamples)
  <2>1. Taken = 1 .. Left
    BY <1>1, <1>3 DEF Samples
  <2> QED BY <1>1, <1>3, <2>1, UpToCount
<1> QED BY <1>2, <1>3

(* At the head of its loop the processor takes a sample only with room for *)
(* it.                                                                     *)
LEMMA TakesRoom ==
  ASSUME TypeInv, [Next]_vars, Takes, proc # "get"
  PROVE  ~(staleness >= MaxRequired)
<1>1. proc = "check" /\ proc' \in {"limit", "finish"} /\ hot' = TRUE
  BY DEF Takes, TakePending, GoOn
<1>2. ProcCheck
  <2>0. proc = "check"
    BY <1>1
  <2>1. Processor
    BY <1>1, ProcFrame
  <2>2. ~(ProcContended \/ ProcPause \/ ProcIdle \/ ProcSubmit \/ ProcWoken \/ ProcGet)
    BY <1>1 DEF TypeInv, HandHeld, ProcContended, ProcPause, ProcIdle,
              ProcSubmit, ProcWoken, ProcGet, Enter, AtLock, Loops
  <2>3. ASSUME NEW l \in Loops PROVE ~(LoopExit(l) \/ LoopLocked(l) \/ LoopReap(l))
    <3>1. proc # l /\ proc # AtLock[l] /\ proc # AtWait[l]
      BY <2>0 DEF Loops, AtLock, AtWait
    <3> QED BY <3>1 DEF LoopExit, LoopLocked, LoopReap, Enter
  <2> QED BY <2>1, <2>2, <2>3 DEF Processor
<1> QED BY <1>1, <1>2 DEF ProcCheck, ShouldPause, GoOn, Suspend

LEMMA SameSize == \A S : Flow!Cardinality(S) = Cardinality(S)
BY DEF Flow!Cardinality, Cardinality

LEMMA FlowInitMaps == Init => Flow!Init
<1> SUFFICES ASSUME Init PROVE Flow!Init
  OBVIOUS
<1>1. FlowInv /\ Outstanding = {} /\ Gone = {}
  BY FlowInvInit
<1>2. Taken = {}
  BY <1>1, TakenIs DEF FlowInv, PlaceInv
<1>3. Cardinality(Taken) = 0
  BY <1>2, FS_EmptySet
<1> QED BY <1>1, <1>3 DEF Flow!Init, Gone

LEMMA FlowStepMaps ==
  ASSUME CountInv, [Next]_vars
  PROVE  [Flow!Next]_(Flow!vars)
<1> DEFINE started == Cardinality(Taken)
<1>1. FlowInv /\ FlowInv'
  BY FlowInvStep DEF CountInv
<1>2. /\ Left \in Int /\ Left >= 0 /\ Left <= TotalSamples + 1 /\ TotalSamples \in Nat \ {0}
      /\ started = IF Left > TotalSamples THEN TotalSamples ELSE Left
  BY <1>1, TakenIs, TakenCount, ConfigAssumption DEF FlowInv, PendingShape
<1>3. (started = IF Left > TotalSamples THEN TotalSamples ELSE Left)'
  BY <1>1, TakenCount, PTL
<1> HIDE DEF started
<1>4. CASE Stays
  <2>1. started' = started
    BY <1>2, <1>3, <1>4 DEF Stays
  <2> QED BY <1>4, <2>1 DEF Stays, Flow!vars, started
<1>5. CASE TakesDone
  <2>1. started' = started
    BY <1>2, <1>3, <1>5 DEF TakesDone
  <2> QED BY <1>5, <2>1 DEF TakesDone, Flow!vars, started
<1>6. CASE Takes /\ Starts
  <2>1. started = Left /\ started < TotalSamples /\ started' = started + 1
    BY <1>2, <1>3, <1>6 DEF Starts, Samples
  <2>2. Cardinality(Outstanding) < MaxRequired + 2
    <3>1. CASE proc = "get"
      BY <3>1, QueueRoom, OutstandingFinite DEF CountInv, FlowInv, GetsRoom
    <3>2. CASE proc # "get"
      <4>1. ~(staleness >= MaxRequired)
        BY <1>6, <3>2, TakesRoom DEF CountInv, FlowInv
      <4>2. staleness \in Nat
        BY DEF CountInv, FlowInv, TypeInv, TypeOK, FlagsOK
      <4> QED BY <4>1, <4>2, QueueRoom, OutstandingFinite
              DEF CountInv, FlowInv, StalenessCounts
    <3> QED BY <3>1, <3>2
  <2>3. Flow!Start
    BY <1>6, <2>1, <2>2, SameSize DEF Starts, Flow!Start, started, Real
  <2> QED BY <2>3 DEF Flow!Next
<1>7. ASSUME NEW y \in Samples, Leaves(y) PROVE [Flow!Next]_(Flow!vars)
  <2>1. started' = started
    BY <1>2, <1>3, <1>7 DEF Leaves
  <2>2. Flow!Use(y) \/ Flow!Fail(y) \/ Flow!Drop(y)
    BY <1>7, SameSize DEF Leaves, Flow!Use, Flow!Fail, Flow!Drop, Real
  <2>3. y \in Outstanding /\ Outstanding' = Outstanding \ {y}
    BY <1>7 DEF Leaves
  <2>4. Flow!Finish
    BY <2>1, <2>2, <2>3 DEF Flow!Finish, started
  <2> QED BY <2>4 DEF Flow!Next
<1> QED BY <1>1, <1>4, <1>5, <1>6, <1>7, FlowStep

(* Each sample is started in order, with at most max_required_samples + 1  *)
(* others in flight, and leaves once: used, failed, or dropped when a      *)
(* whole queue of samples is ahead of the trainer: FullyAsync's            *)
(* ImplementsFlow.                                                         *)
THEOREM FlowRefined == Safe => ImplementsFlow
<1>1. Safe => []CountInv
  BY CountInvInit, CountInvStep, PTL DEF Safe
<1>2. CountInv /\ [Next]_vars => [Flow!Next]_(Flow!vars)
  BY FlowStepMaps
<1> QED BY <1>1, <1>2, FlowInitMaps, PTL DEF Safe, ImplementsFlow, Flow!Spec

-----------------------------------------------------------------------------
(* The end of the stream.                                                  *)
AtFinish == {"finish", "finishLock", "finishWait", "exited"}
Over == trainer \in {"ending", "lastSync", "lastVal", "done"}

(* "DONE" is the last that is taken.                                       *)
AllTaken == proc \in AtFinish => pending = <<>> /\ fed = TotalSamples + 1

(* The processor exits when no task is left, and the main coroutine is     *)
(* through when no result is.                                              *)
NoneActive == proc = "exited" => active = {}
NoneFinished ==
  (mainPc # "run" /\ proc # "crashed")
     => proc = "exited" /\ resultQ = <<>> /\ consumer = Nobody

(* None is the last of the queue, and the trainer stops when it finds it.  *)
NoneLast == proc # "crashed" => \A i \in 1 .. Len(mq) : mq[i] = Sentinel => i = Len(mq)
OverLate == Over => mainPc \in {"stop", "done"}
OverEmpty == (Over /\ proc # "crashed") => mq = <<>>

SyncKind ==
  syncPc # "idle" => trainer \in {"sync", "lastSync"} /\ (final <=> trainer = "lastSync")

StreamInv ==
  /\ FlowInv /\ TaskInv /\ AllTaken /\ NoneActive /\ NoneFinished
  /\ NoneLast /\ OverLate /\ OverEmpty /\ SyncKind

LEMMA AllTakenStep ==
  ASSUME StreamInv, [Next]_vars
  PROVE  AllTaken'
<1> SUFFICES ASSUME proc' \in AtFinish PROVE pending' = <<>> /\ fed' = TotalSamples + 1
  BY DEF AllTaken
<1>1. /\ fed \in 0 .. TotalSamples + 1 /\ pending \in Seq(Samples \cup {Done})
      /\ Len(pending) \in Nat /\ TotalSamples \in Nat \ {0}
  BY LenProperties, ConfigAssumption DEF StreamInv, FlowInv, TypeInv, TypeOK, FlowOK
<1>2. CASE Takes
  <2>1. Head(pending) = Done /\ pending # <<>> /\ pending' = Tail(pending) /\ fed' = fed
    BY <1>2 DEF Takes, TakePending, GoOn, AtFinish
  <2>2. /\ Left \in Int /\ Left >= 0
        /\ Head(pending) = IF Left + 1 > TotalSamples THEN Done ELSE Left + 1
    BY <2>1, TakenIs DEF StreamInv, FlowInv, PendingShape
  <2>3. Left + 1 > TotalSamples /\ fed = Left + Len(pending) /\ Len(pending) # 0
    BY <1>1, <2>1, <2>2, EmptySeq DEF Done, Left
  <2>4. Len(pending) = 1 /\ fed = TotalSamples + 1
    <3> DEFINE k == Len(pending)
    <3>1. /\ k \in Nat \ {0} /\ fed = Left + k /\ fed \in 0 .. TotalSamples + 1
          /\ Left \in Int /\ TotalSamples \in Nat /\ Left + 1 > TotalSamples
      BY <1>1, <2>2, <2>3
    <3> HIDE DEF k
    <3>2. k = 1 /\ fed = TotalSamples + 1
      BY <3>1
    <3> QED BY <3>2 DEF k
  <2>5. Tail(pending) \in Seq(Samples \cup {Done}) /\ Len(Tail(pending)) = 0
    BY <1>1, <2>1, <2>4, HeadTailProperties
  <2>6. Tail(pending) = <<>>
    BY <2>5, EmptySeq
  <2> QED BY <2>1, <2>4, <2>6
<1>3. CASE ~Takes
  <2>1. proc \in AtFinish
    <3>1. CASE UNCHANGED proc
      BY <3>1
    <3>2. CASE ProcCheck \/ ProcGet
      <4>1. CASE ProcCheck
        BY <1>3, <4>1 DEF ProcCheck, Takes, AtFinish, GoOn, Suspend
      <4>2. CASE ProcGet
        BY <1>3, <4>2, ProcTakes
      <4> QED BY <3>2, <4>1, <4>2
    <3>3. CASE ProcContended \/ ProcPause \/ ProcIdle \/ ProcSubmit \/ ProcWoken
      BY <3>3 DEF ProcContended, ProcPause, ProcIdle, ProcSubmit, ProcSubmits, ProcSubmitWaits,
                  ProcWoken, GoOn, Suspend, AtLock, Loops, AtFinish
    <3>4. ASSUME NEW l \in Loops, LoopExit(l) \/ LoopLocked(l) \/ LoopReap(l)
          PROVE  proc \in AtFinish
      BY <3>4 DEF Loops, LoopExit, LoopLocked, LoopReap, After, AtWait, AtLock, Enter, GoOn,
                  Suspend, AtFinish
    <3> QED BY <3>1, <3>2, <3>3, <3>4, ProcFrame DEF Processor
  <2>2. pending = <<>> /\ fed = TotalSamples + 1
    BY <2>1 DEF StreamInv, AllTaken
  <2>3. ~Feed
    <3> DEFINE room == PendingSize - Len(pending)
               left == TotalSamples + 1 - fed
    <3>1. left = 0 /\ room \in Int
      BY <1>1, <2>2, ConfigAssumption
    <3> HIDE DEF room, left
    <3>2. ~((IF room < left THEN room ELSE left) > 0)
      BY <3>1
    <3> QED BY <3>2 DEF Feed, room, left
  <2>4. UNCHANGED <<fed, pending>>
    <3>1. CASE Retakes \/ ProcSubmit \/ (\E s \in Samples : TaskEnd(s)) \/ ConsumerTakes
               \/ ConsumerPuts \/ MainFinishes \/ TrainerGetsSample
      BY <3>1 DEF Retakes, ProcSubmit, TaskEnd, ConsumerTakes, ConsumerPuts, MainFinishes,
                  TrainerGetsSample, flowVars, rollouterVars
    <3>2. CASE UNCHANGED sampleVars
      BY <3>2 DEF sampleVars
    <3> QED BY <1>3, <2>3, <3>1, <3>2, SampleFrame DEF StreamInv, FlowInv
  <2> QED BY <2>2, <2>4
<1> QED BY <1>2, <1>3

LEMMA NoneActiveStep ==
  ASSUME StreamInv, [Next]_vars
  PROVE  NoneActive'
<1> SUFFICES ASSUME proc' = "exited" PROVE active' = {}
  BY DEF NoneActive
<1>1. CASE proc = "exited"
  <2>1. active = {}
    BY <1>1 DEF StreamInv, NoneActive
  <2>2. ~ProcSubmit
    BY <1>1 DEF ProcSubmit, Enter, AtLock
  <2>3. ASSUME NEW l \in Loops PROVE ~LoopReap(l)
    BY <1>1 DEF LoopReap, Loops, AtWait
  <2>4. ASSUME NEW s \in Samples, Task(s) PROVE UNCHANGED active
    BY <2>4, TaskStep DEF StreamInv
  <2> QED BY <2>1, <2>2, <2>3, <2>4, TaskFrame DEF PauseGathers
<1>2. CASE proc # "exited"
  <2>1. Processor
    BY <1>2, ProcFrame
  <2>2. ~(ProcContended \/ ProcCheck \/ ProcGet \/ ProcPause \/ ProcIdle \/ ProcSubmit
          \/ ProcWoken)
    BY DEF ProcContended, ProcCheck, ProcGet, TakePending, ProcPause, ProcIdle, ProcSubmit,
           ProcSubmits, ProcSubmitWaits, ProcWoken, GoOn, Suspend, AtLock, Loops
  <2>3. ASSUME NEW l \in Loops, LoopLocked(l) \/ LoopReap(l) PROVE FALSE
    BY <2>3 DEF Loops, LoopLocked, LoopReap, GoOn, Suspend, AtWait
  <2>4. ASSUME NEW l \in Loops, LoopExit(l) PROVE active' = {}
    BY <2>4 DEF Loops, LoopExit, After, More, flowVars
  <2> QED BY <2>1, <2>2, <2>3, <2>4 DEF Processor
<1> QED BY <1>1, <1>2

LEMMA NoneFinishedStep ==
  ASSUME StreamInv, [Next]_vars
  PROVE  NoneFinished'
<1>h. HandHeld
  BY DEF StreamInv, FlowInv, TypeInv
<1> SUFFICES ASSUME mainPc' # "run", proc' # "crashed"
             PROVE  proc' = "exited" /\ resultQ' = <<>> /\ consumer' = Nobody
  BY DEF NoneFinished
<1>1. CASE mainPc = "run"
  <2>1. MainJoins
    BY <1>1, MainMoves
  <2> QED BY <2>1 DEF MainJoins, Through, flowVars, procVars
<1>2. CASE mainPc # "run"
  <2>1. proc \in {"exited", "crashed"}
    BY <1>2 DEF StreamInv, FlowInv, MainAfterProc
  <2>2. UNCHANGED proc
    BY <1>h, <2>1, ProcStays
  <2>3. proc = "exited" /\ resultQ = <<>> /\ consumer = Nobody /\ Running = {}
    BY <1>2, <2>2 DEF StreamInv, NoneFinished, NoneActive, TaskInv, RunningIsActive
  <2>4. UNCHANGED <<resultQ, consumer>>
    <3>1. ASSUME NEW s \in Samples, TaskEnd(s) PROVE FALSE
      BY <2>3, <3>1 DEF TaskEnd, Completes, IsInterrupted, Fails, Running
    <3>2. CASE Feed \/ Takes \/ Retakes \/ ProcSubmit \/ ConsumerTakes \/ ConsumerPuts
               \/ MainFinishes \/ TrainerGetsSample
      BY <2>3, <3>2 DEF Feed, Takes, Retakes, ProcSubmit, ConsumerTakes, ConsumerPuts, MainFinishes,
                        TrainerGetsSample, flowVars, corVars, rollouterVars
    <3>3. CASE UNCHANGED sampleVars
      BY <3>3 DEF sampleVars
    <3> QED BY <3>1, <3>2, <3>3, SampleFrame DEF StreamInv, FlowInv
  <2> QED BY <2>2, <2>3, <2>4
<1> QED BY <1>1, <1>2

LEMMA SyncKindStep ==
  ASSUME StreamInv, [Next]_vars
  PROVE  SyncKind'
<1> USE DEF SyncKind, trainVars
<1>k. SyncKind
  BY DEF StreamInv
<1>1. CASE UNCHANGED <<trainVars, syncPc>>
  BY <1>k, <1>1
<1>2. CASE Sync
  BY <1>k, <1>2 DEF Sync, SyncStarts, SyncBroadcasts, SyncReturns
<1>3. CASE TrainerTrains \/ TrainerEnds \/ TrainerGetsValidation \/ TrainerGetsSample
           \/ TrainerLogsLast
  BY <1>k, <1>3 DEF TrainerTrains, TrainerEnds, TrainerGetsValidation, TrainerGetsSample,
                    TrainerLogsLast
<1> QED BY <1>1, <1>2, <1>3, TrainerFrame DEF Train

(* The trainer is over only once it read None.                             *)
LEMMA OverBegins ==
  ASSUME StreamInv, [Next]_vars, Over', ~Over
  PROVE  TrainerGetsSample /\ Head(mq) = Sentinel
<1> USE DEF Over, trainVars
<1>1. CASE UNCHANGED <<trainVars, syncPc>>
  BY <1>1
<1>2. CASE Sync
  BY <1>2 DEF Sync, SyncStarts, SyncBroadcasts, SyncReturns, StreamInv, SyncKind
<1>3. CASE TrainerTrains \/ TrainerEnds \/ TrainerGetsValidation \/ TrainerGetsSample
           \/ TrainerLogsLast
  BY <1>3 DEF TrainerTrains, TrainerEnds, TrainerGetsValidation, TrainerGetsSample,
              TrainerLogsLast
<1> QED BY <1>1, <1>2, <1>3, TrainerFrame DEF Train

LEMMA OverStays ==
  ASSUME StreamInv, [Next]_vars, Over
  PROVE  Over'
<1> USE DEF Over, trainVars
<1>1. CASE UNCHANGED <<trainVars, syncPc>>
  BY <1>1
<1>2. CASE Sync
  BY <1>2 DEF Sync, SyncStarts, SyncBroadcasts, SyncReturns, StreamInv, SyncKind
<1>3. CASE TrainerTrains \/ TrainerEnds \/ TrainerGetsValidation \/ TrainerGetsSample
           \/ TrainerLogsLast
  BY <1>3 DEF TrainerTrains, TrainerEnds, TrainerGetsValidation, TrainerGetsSample,
              TrainerLogsLast
<1> QED BY <1>1, <1>2, <1>3, TrainerFrame DEF Train

LEMMA QueueFrame ==
  ASSUME TypeInv, [Next]_vars
  PROVE  ConsumerPuts \/ MainFinishes \/ TrainerGetsSample \/ UNCHANGED mq
<1>1. CASE Feed \/ Takes \/ Retakes \/ ProcSubmit \/ (\E s \in Samples : TaskEnd(s))
           \/ ConsumerTakes
  BY <1>1 DEF Feed, Takes, Retakes, ProcSubmit, TaskEnd, ConsumerTakes, mqVars
<1>2. CASE UNCHANGED sampleVars
  BY <1>2 DEF sampleVars
<1> QED BY <1>1, <1>2, SampleFrame

LEMMA NotCrashedBefore ==
  ASSUME TypeInv, [Next]_vars, proc' # "crashed"
  PROVE  proc # "crashed"
BY ProcStays DEF TypeInv

(* What is put is put behind samples only.                                 *)
LEMMA PutBehind ==
  ASSUME StreamInv, [Next]_vars, proc # "crashed", ConsumerPuts \/ MainFinishes
  PROVE  Sentinel \notin ToSet(mq)
<1>1. CASE ConsumerPuts
  BY <1>1 DEF ConsumerPuts, StreamInv, NoneFinished, FlowInv, PlaceInv, SentinelLate
<1>2. CASE MainFinishes
  BY <1>2 DEF MainFinishes, StreamInv, FlowInv, PlaceInv, SentinelLate
<1> QED BY <1>1, <1>2

LEMMA NoneLastStep ==
  ASSUME StreamInv, [Next]_vars
  PROVE  NoneLast'
<1> SUFFICES ASSUME proc' # "crashed", NEW i \in 1 .. Len(mq'), mq'[i] = Sentinel
             PROVE  i = Len(mq')
  BY DEF NoneLast
<1>1. proc # "crashed" /\ TypeInv
  BY NotCrashedBefore DEF StreamInv, FlowInv
<1>2. /\ mq \in Seq(Samples \cup {Sentinel}) /\ Len(mq) \in Nat
      /\ \A j \in 1 .. Len(mq) : mq[j] = Sentinel => j = Len(mq)
  BY <1>1, LenProperties DEF TypeInv, TypeOK, QueueOK, StreamInv, NoneLast
<1>3. CASE UNCHANGED mq
  BY <1>2, <1>3
<1>4. CASE TrainerGetsSample
  <2>1. mq # <<>> /\ mq' = Tail(mq)
    BY <1>4 DEF TrainerGetsSample
  <2>2. Len(mq') = Len(mq) - 1 /\ mq'[i] = mq[i + 1]
    BY <1>2, <2>1, HeadTailProperties
  <2>3. i + 1 \in 1 .. Len(mq)
    BY <1>2, <2>2
  <2> QED BY <1>2, <2>2, <2>3
<1>5. CASE ConsumerPuts \/ MainFinishes
  <2>1. PICK x \in Samples \cup {Sentinel} : PutIntoQueue(x)
    <3>1. consumer \in Samples \cup {Sentinel}
      BY <1>1 DEF TypeInv, TypeOK, CoroutinesOK, Nobody, Sentinel
    <3> QED BY <1>5, <3>1 DEF ConsumerPuts, MainFinishes
  <2>2. Sentinel \notin ToSet(mq)
    BY <1>1, <1>5, PutBehind
  <2>3. ASSUME NEW q \in Seq(Samples \cup {Sentinel}), ToSet(q) \subseteq ToSet(mq),
               mq' = Append(q, x)
        PROVE  i = Len(mq')
    <3>1. /\ Len(q) \in Nat /\ DOMAIN q = 1 .. Len(q) /\ Len(mq') = Len(q) + 1
          /\ \A j \in 1 .. Len(q) : mq'[j] = q[j]
      BY <2>3, AppendProperties, LenProperties
    <3>2. \A j \in 1 .. Len(q) : q[j] # Sentinel
      BY <2>2, <2>3, <3>1 DEF ToSet
    <3> QED BY <3>1, <3>2
  <2>4. CASE Len(mq) >= MaxRequired
    <3>1. mq # <<>> /\ mq' = Append(Tail(mq), x)
      BY <2>1, <2>4, QueueRoom DEF PutIntoQueue
    <3>2. Tail(mq) \in Seq(Samples \cup {Sentinel}) /\ ToSet(Tail(mq)) \subseteq ToSet(mq)
      BY <1>2, <3>1, TailToSet, HeadTailProperties
    <3> DEFINE r == Tail(mq)
    <3>3. r \in Seq(Samples \cup {Sentinel}) /\ ToSet(r) \subseteq ToSet(mq) /\ mq' = Append(r, x)
      BY <3>1, <3>2
    <3> HIDE DEF r
    <3> QED BY <2>3, <3>3
  <2>5. CASE ~(Len(mq) >= MaxRequired)
    <3>1. mq' = Append(mq, x)
      BY <2>1, <2>5 DEF PutIntoQueue
    <3> QED BY <1>2, <2>3, <3>1
  <2> QED BY <2>4, <2>5
<1> QED BY <1>1, <1>3, <1>4, <1>5, QueueFrame

LEMMA OverLateStep ==
  ASSUME StreamInv, [Next]_vars
  PROVE  OverLate'
<1> SUFFICES ASSUME Over' PROVE mainPc' \in {"stop", "done"}
  BY DEF OverLate
<1>1. mainPc \in {"stop", "done"}
  <2>1. CASE Over
    BY <2>1 DEF StreamInv, OverLate
  <2>2. CASE ~Over
    <3>1. mq # <<>> /\ Head(mq) = Sentinel
      BY <2>2, OverBegins DEF TrainerGetsSample
    <3>2. Sentinel \in ToSet(mq)
      BY <3>1, TailToSet DEF StreamInv, FlowInv, TypeInv, TypeOK, QueueOK
    <3> QED BY <3>2 DEF StreamInv, FlowInv, PlaceInv, SentinelLate
  <2> QED BY <2>1, <2>2
<1> QED BY <1>1, MainMoves

LEMMA OverEmptyStep ==
  ASSUME StreamInv, [Next]_vars
  PROVE  OverEmpty'
<1> SUFFICES ASSUME Over', proc' # "crashed" PROVE mq' = <<>>
  BY DEF OverEmpty
<1>1. proc # "crashed" /\ TypeInv
  BY NotCrashedBefore DEF StreamInv, FlowInv
<1>2. mq \in Seq(Samples \cup {Sentinel}) /\ Len(mq) \in Nat
  BY <1>1, LenProperties DEF TypeInv, TypeOK, QueueOK
<1>3. CASE Over
  <2>1. mq = <<>> /\ mainPc \in {"stop", "done"} /\ consumer = Nobody
    BY <1>1, <1>3 DEF StreamInv, OverEmpty, OverLate, NoneFinished
  <2> QED BY <1>1, <2>1, QueueFrame DEF ConsumerPuts, MainFinishes, TrainerGetsSample
<1>4. CASE ~Over
  <2>1. mq # <<>> /\ mq' = Tail(mq) /\ Head(mq) = Sentinel
    BY <1>4, OverBegins DEF TrainerGetsSample
  <2>2. 1 \in 1 .. Len(mq) /\ mq[1] = Sentinel
    BY <1>2, <2>1, EmptySeq
  <2>3. Len(mq) = 1
    BY <1>1, <2>2 DEF StreamInv, NoneLast
  <2>4. Tail(mq) \in Seq(Samples \cup {Sentinel}) /\ Len(Tail(mq)) = 0
    BY <1>2, <2>1, <2>3, HeadTailProperties
  <2>5. Tail(mq) = <<>>
    BY <2>4, EmptySeq
  <2> QED BY <2>1, <2>5
<1> QED BY <1>3, <1>4

LEMMA StreamInvStep == StreamInv /\ [Next]_vars => StreamInv'
BY FlowInvStep, TaskInvStep, AllTakenStep, NoneActiveStep, NoneFinishedStep, NoneLastStep,
   OverLateStep, OverEmptyStep, SyncKindStep DEF StreamInv

LEMMA StreamInvInit == Init => StreamInv
<1> SUFFICES ASSUME Init PROVE StreamInv
  OBVIOUS
<1>1. FlowInv
  BY FlowInvInit
<1>2. TaskInv
  BY DEF Init, TaskInv, RunningIsActive, Running, TaskStates
<1>3. proc = "check" /\ mainPc = "run" /\ mq = <<>> /\ trainer = "start" /\ syncPc = "idle"
  BY DEF Init
<1>4. \A i \in 1 .. Len(mq) : FALSE
  BY <1>3
<1> QED BY <1>1, <1>2, <1>3, <1>4 DEF StreamInv, AllTaken, AtFinish, NoneActive, NoneFinished,
                                      NoneLast, Over, OverLate, OverEmpty, SyncKind

(* Without partial rollout no server pauses, so nothing is interrupted and *)
(* cancel_queue stays empty.                                               *)
Uninterrupted ==
  ~Partial => /\ pausePc # "cancel" /\ serverPaused = FALSE /\ cancelQ = <<>>
              /\ \A s \in Samples : task[s] # "cut"

LEMMA UninterruptedStep ==
  ASSUME TaskInv, Uninterrupted, [Next]_vars
  PROVE  Uninterrupted'
<1> SUFFICES ASSUME ~Partial PROVE Uninterrupted'
  BY DEF Uninterrupted
<1>0. /\ pausePc # "cancel" /\ serverPaused = FALSE /\ cancelQ = <<>>
      /\ \A s \in Samples : task[s] # "cut"
      /\ task \in [Samples -> TaskStates]
  BY DEF Uninterrupted, TaskInv
<1>1. pausePc' # "cancel" /\ serverPaused' = FALSE
  <2>1. CASE UNCHANGED syncVars
    BY <1>0, <2>1 DEF syncVars
  <2>2. CASE Pause
    BY <1>0, <2>2 DEF Pause, PauseEnter, PauseCancels, PauseGathers, PauseReturns, servVars
  <2>3. CASE Resume
    BY <1>0, <2>3 DEF Resume, ResumeEnter, ResumeReturns, servVars, callVars
  <2>4. CASE Sync
    BY <1>0, <2>4 DEF Sync, SyncStarts, SyncBroadcasts, SyncReturns, rollouterVars, callVars,
                      servVars
  <2> QED BY <2>1, <2>2, <2>3, <2>4, SyncFrame
<1>2. \A s \in Samples : task'[s] # "cut"
  <2>1. CASE UNCHANGED <<active, task>>
    BY <1>0, <2>1
  <2>2. CASE ProcSubmits
    BY <1>0, <2>2 DEF ProcSubmits
  <2>3. CASE PauseGathers \/ \E l \in Loops : LoopReap(l)
    BY <1>0, <2>3 DEF PauseGathers, LoopReap
  <2>4. ASSUME NEW s \in Samples, Task(s) PROVE \A r \in Samples : task'[r] # "cut"
    <3>1. \E st \in TaskStates \ {"cut"} : task' = [task EXCEPT ![s] = st]
      BY <1>0, <2>4 DEF Task, TaskStart, ServerAnswers, Accepts, TaskEnd, Completes,
                        IsInterrupted, Fails, TaskStates
    <3> QED BY <1>0, <3>1
  <2> QED BY <2>1, <2>2, <2>3, <2>4, TaskFrame
<1>3. cancelQ' = <<>>
  <2> USE DEF flagVars, flowVars, procVars, corVars, callVars, servVars, mqVars, trainVars,
              pastVars, rollouterVars
  <2>1. CASE Feed \/ Consumer \/ Main \/ Monitor \/ Train \/ Sync \/ UNCHANGED vars
    BY <1>0, <2>1 DEF Feed, Consumer, ConsumerTakes, ConsumerPuts, Main, MainJoins, MainFinishes,
       MainStops, Monitor, MonitorTop, MonitorWakes, MonitorUnpauses, Train, TrainerGetsValidation,
       TrainerGetsSample, TrainerTrains, TrainerEnds, TrainerLogsLast, Sync, SyncStarts,
       SyncBroadcasts, SyncReturns, vars
  <2>2. CASE ProcContended \/ ProcCheck \/ ProcGet \/ ProcPause \/ ProcIdle \/ ProcSubmit \/ ProcWoken
    BY <1>0, <2>2 DEF ProcContended, ProcCheck, ProcGet, ProcPause, ProcIdle, ProcSubmit, ProcWoken,
                      TakePending
  <2>3. ASSUME NEW l \in Loops, LoopExit(l) \/ LoopLocked(l) \/ LoopReap(l) PROVE cancelQ' = <<>>
    BY <1>0, <2>3 DEF LoopExit, LoopLocked, LoopReap
  <2>4. CASE Calls
    BY <1>0, <2>4 DEF Calls, Pause, PauseEnter, PauseCancels, PauseGathers, PauseReturns,
       Update, UpdateEnter, UpdateCounts, UpdateSets, UpdateReturns, Resume, ResumeEnter,
       ResumeReturns
  <2>5. ASSUME NEW s \in Samples, Task(s) PROVE cancelQ' = <<>>
    BY <1>0, <2>5 DEF Task, TaskStart, ServerAnswers, TaskEnd, Completes, IsInterrupted, Fails
  <2> QED BY <2>1, <2>2, <2>3, <2>4, <2>5 DEF Next, Processor
<1> QED BY <1>1, <1>2, <1>3 DEF Uninterrupted

(* When the trainer reads the final None, every sample was used, dropped   *)
(* or has failed; with partial rollout, or was left in cancel_queue:       *)
(* FullyAsync's StreamComplete.                                            *)
THEOREM StreamIsComplete == Safe => []StreamComplete
<1>1. StreamInv /\ Uninterrupted => StreamComplete
  <2> SUFFICES ASSUME StreamInv, Uninterrupted, trainer = "ending", proc # "crashed"
               PROVE  IF Partial THEN Samples = Gone \cup ToSet(cancelQ)
                      ELSE Samples = Gone /\ cancelQ = <<>>
    BY DEF StreamComplete
  <2>1. Over /\ mainPc \in {"stop", "done"} /\ mq = <<>>
    BY DEF Over, StreamInv, OverLate, OverEmpty
  <2>2. proc = "exited" /\ resultQ = <<>> /\ consumer = Nobody
    BY <2>1 DEF StreamInv, NoneFinished
  <2>3. Running = {} /\ hand = Nobody /\ pending = <<>> /\ fed = TotalSamples + 1
    BY <2>2 DEF StreamInv, NoneActive, AllTaken, AtFinish, TaskInv, RunningIsActive, FlowInv,
                HandFree, Taking
  <2>4. Outstanding = ToSet(cancelQ)
    <3>1. 0 \notin ToSet(cancelQ)
      <4>1. cancelQ \in Seq(Samples)
        BY DEF StreamInv, FlowInv, TypeInv, TypeOK, FlowOK
      <4>2. ToSet(cancelQ) \subseteq Samples
        BY <4>1, ToSetSize
      <4> QED BY <4>2 DEF Samples
    <3>2. ToSet(mq) = {} /\ ToSet(resultQ) = {}
      BY <2>1, <2>2, EmptyToSet
    <3> QED BY <2>2, <2>3, <3>1, <3>2 DEF Outstanding, Real, Nobody
  <2>5. \A s \in Samples : s <= Left
    <3>1. TotalSamples \in Nat /\ Len(pending) = 0
      BY <2>3, ConfigAssumption
    <3>2. Left = TotalSamples + 1
      <4>1. fed - Len(pending) = TotalSamples + 1
        <5>1. fed = TotalSamples + 1 /\ Len(pending) = 0
          BY <2>3, <3>1
        <5> QED BY <3>1, <5>1
      <4> QED BY <4>1 DEF Left
    <3> QED BY <3>1, <3>2 DEF Samples
  <2>6. Outstanding \cup Gone = Samples
    BY <2>5 DEF StreamInv, FlowInv, PlaceInv
  <2>7. ~Partial => cancelQ = <<>> /\ ToSet(cancelQ) = {}
    BY EmptyToSet DEF Uninterrupted
  <2> QED BY <2>4, <2>6, <2>7
<1>2. Init => Uninterrupted
  BY DEF Init, Uninterrupted
<1>3. StreamInv /\ Uninterrupted /\ [Next]_vars => Uninterrupted'
  BY UninterruptedStep DEF StreamInv
<1> QED BY <1>1, <1>2, <1>3, StreamInvInit, StreamInvStep, PTL DEF Safe

-----------------------------------------------------------------------------
(* staleness_threshold = 0: max_required_samples is what one version of    *)
(* the parameters uses.                                                    *)
Synchronous == MaxRequired = Required * Trigger

(* What the trainer used of the current version.                           *)
UsedNow == (localStep - 1) * Required + (IF Training THEN Len(batch) ELSE 0)

(* With staleness_threshold = 0 the count covers what is in flight, what   *)
(* was used and what has failed.                                           *)
Budget ==
  ~Over => /\ Cardinality(Outstanding) + UsedNow + Cardinality(failures) <= staleness
           /\ staleness <= MaxRequired
GetBudget == proc = "get" => staleness < MaxRequired

(* When the trainer has used a whole version nothing is in flight, and     *)
(* nothing is taken until update_param_version has set the count anew.     *)
Resetting == updatePc \in {"called", "size", "set"}
Dry ==
  ~Over => /\ trainer = "sync" \/ Resetting
                => /\ Outstanding = {} /\ failures = {}
                   /\ staleness = MaxRequired /\ UsedNow = 0
           /\ ~(trainer = "sync" /\ Resetting)
           /\ pausePc \in {"reset", "done"} \/ syncPc = "loading" \/ updatePc = "called"
                => active = {}
           /\ updatePc = "size" => updateAcc = 0
           /\ updatePc = "set" => updateAcc <= 1

(* A loop that waits for the lock finds no task only then, ...             *)
WaitsDry ==
  (~Over /\ proc \in {"drainLock", "finishLock", "limitLock"} /\ active = {}) => Outstanding = {}

(* ... and a processor that is through leaves room for None.               *)
FailedTasks == \A s \in Samples : task[s] = "failed" => s \in failures
EndRoom == proc \in AtFinish \cup {"crashed"} => Cardinality(Outstanding) < MaxRequired

BatchFits ==
  /\ trainer = "train" => Len(batch) = Required
  /\ trainer = "collect" => Len(batch) < Required

(* The versions of the samples.                                            *)
TagsNone == \A s \in Samples : s > Left => tag[s] = NoVersion
TagsStarted == \A s \in Samples : task[s] \in {"sent", "gen", "cut"} => tag[s] # NoVersion
TagsFlying == ~Over => \A s \in Outstanding : tag[s] \in {NoVersion, version}
TagsDone ==
  ~Over => \A s \in ToSet(resultQ) \cup Real(ToSet(mq)) \cup Real({consumer}) : tag[s] = version
TagsUsed == Training => \A s \in ToSet(batch) : tag[s] = version

OnPolicyInv ==
  /\ Budget /\ GetBudget /\ Dry /\ WaitsDry /\ FailedTasks /\ EndRoom /\ BatchFits
  /\ TagsNone /\ TagsStarted /\ TagsFlying /\ TagsDone /\ TagsUsed /\ mqDropped = {}

AllInv == StreamInv /\ ValInv /\ SyncOrder /\ OnPolicyInv

(* Arithmetic of a version's samples.                                      *)
LEMMA UsedFacts ==
  ASSUME TypeInv
  PROVE  /\ localStep \in 1 .. Trigger /\ Trigger \in Nat \ {0} /\ Required \in Nat \ {0}
         /\ (localStep - 1) * Required \in Nat
         /\ localStep * Required = (localStep - 1) * Required + Required
         /\ Synchronous => (Trigger - 1) * Required + Required = MaxRequired
         /\ batch \in Seq(Samples) /\ Len(batch) \in Nat
         /\ UsedNow = (localStep - 1) * Required + (IF Training THEN Len(batch) ELSE 0)
         /\ UsedNow \in Nat
<1>1. /\ localStep \in 1 .. Trigger /\ Trigger \in Nat \ {0} /\ Required \in Nat \ {0}
      /\ batch \in Seq(Samples) /\ Len(batch) \in Nat
  BY ConfigAssumption, LenProperties DEF TypeInv, TypeOK, TrainerOK
<1>2. (localStep - 1) * Required \in Nat
  BY <1>1
<1>3. localStep * Required = (localStep - 1) * Required + Required
  BY <1>1
<1>4. Synchronous => (Trigger - 1) * Required + Required = MaxRequired
  BY <1>1 DEF Synchronous
<1>5. UsedNow \in Nat
  <2> DEFINE before == (localStep - 1) * Required
             now == IF Training THEN Len(batch) ELSE 0
  <2>1. before \in Nat /\ now \in Nat
    BY <1>1, <1>2
  <2> HIDE DEF before, now
  <2>2. before + now \in Nat
    BY <2>1
  <2> QED BY <2>2 DEF UsedNow, before, now
<1> QED BY <1>1, <1>2, <1>3, <1>4, <1>5 DEF UsedNow

LEMMA UsedNat == TypeInv => UsedNow \in Nat
BY UsedFacts

LEMMA FailuresFinite ==
  TypeInv => IsFiniteSet(failures) /\ Cardinality(failures) \in Nat
BY OutstandingFinite, FS_Subset, FS_CardinalityType DEF TypeInv, TypeOK, PastOK

(* Not more are in flight or failed than before, unless one is taken.      *)
LEMMA FlightStep ==
  ASSUME FlowInv, [Next]_vars
  PROVE  /\ Cardinality(Outstanding) \in Nat /\ Cardinality(Outstanding') \in Nat
         /\ Cardinality(failures) \in Nat /\ Cardinality(failures') \in Nat
         /\ \/ Cardinality(Outstanding') + Cardinality(failures')
                 <= Cardinality(Outstanding) + Cardinality(failures)
            \/ /\ Takes /\ UNCHANGED failures
               /\ Cardinality(Outstanding') <= Cardinality(Outstanding) + 1
<1>1. TypeInv /\ TypeInv'
  BY TypeInvStep DEF FlowInv
<1>2. /\ IsFiniteSet(Outstanding) /\ Cardinality(Outstanding) \in Nat
      /\ Cardinality(Outstanding') \in Nat
  BY OutstandingSteps
<1>3. /\ IsFiniteSet(failures) /\ Cardinality(failures) \in Nat
      /\ (Cardinality(failures) \in Nat)'
  BY <1>1, FailuresFinite, PTL
<1>4. CASE Stays
  BY <1>2, <1>3, <1>4 DEF Stays
<1>5. CASE Takes /\ (Starts \/ TakesDone)
  <2>1. UNCHANGED failures
    BY <1>5 DEF Starts, TakesDone
  <2>2. Cardinality(Outstanding') <= Cardinality(Outstanding) + 1
    <3>1. CASE TakesDone
      BY <1>2, <3>1 DEF TakesDone
    <3>2. CASE Starts
      BY <1>2, <3>2, OutstandingSteps
    <3> QED BY <1>5, <3>1, <3>2
  <2> QED BY <1>2, <1>3, <1>5, <2>1, <2>2
<1>6. ASSUME NEW y \in Samples, Leaves(y)
      PROVE  Cardinality(Outstanding') + Cardinality(failures')
               <= Cardinality(Outstanding) + Cardinality(failures)
  <2>1. y \in Outstanding /\ Outstanding' = Outstanding \ {y}
    BY <1>6 DEF Leaves
  <2>2. Cardinality(Outstanding') = Cardinality(Outstanding) - 1
    BY <1>2, <2>1, FS_RemoveElement
  <2>3. Cardinality(failures') <= Cardinality(failures) + 1
    <3>1. CASE failures' = failures \cup {y}
      <4>1. Cardinality(failures \cup {y}) \in {Cardinality(failures), Cardinality(failures) + 1}
        BY <1>3, FS_AddElement
      <4> QED BY <1>3, <3>1, <4>1
    <3>2. CASE UNCHANGED failures
      BY <1>3, <3>2
    <3> QED BY <1>6, <3>1, <3>2 DEF Leaves
  <2> QED BY <1>2, <1>3, <2>2, <2>3
<1> QED BY <1>2, <1>3, <1>4, <1>5, <1>6, FlowStep

(* What the trainer uses comes out of what was in flight, and a version    *)
(* ends with Required * Trigger samples.                                   *)
LEMMA UsedStep ==
  ASSUME AllInv, [Next]_vars, ~Over'
  PROVE  /\ UsedNow' \in Nat
         /\ \/ UsedNow' = UsedNow
            \/ /\ TrainerGetsSample /\ UsedNow' = UsedNow + 1 /\ UNCHANGED <<staleness, failures>>
               /\ Cardinality(Outstanding') = Cardinality(Outstanding) - 1
               /\ Outstanding # {}
            \/ /\ TrainerTrains /\ trainer' = "sync" /\ UsedNow' = 0
               /\ Synchronous => UsedNow = MaxRequired
<1>1. FlowInv /\ TypeInv /\ TypeInv' /\ BatchFits
  BY TypeInvStep DEF AllInv, StreamInv, FlowInv, OnPolicyInv
<1>2. /\ localStep \in 1 .. Trigger /\ Trigger \in Nat \ {0} /\ Required \in Nat \ {0}
      /\ (localStep - 1) * Required \in Nat
      /\ localStep * Required = (localStep - 1) * Required + Required
      /\ Synchronous => (Trigger - 1) * Required + Required = MaxRequired
      /\ batch \in Seq(Samples) /\ Len(batch) \in Nat
      /\ UsedNow = (localStep - 1) * Required + (IF Training THEN Len(batch) ELSE 0)
      /\ UsedNow \in Nat
  BY <1>1, UsedFacts
<1>3. (UsedNow \in Nat)'
  BY <1>1, UsedNat, PTL
<1>4. UsedNow' = (localStep' - 1) * Required + (IF Training' THEN Len(batch') ELSE 0)
  BY DEF UsedNow
<1>5. CASE UNCHANGED <<trainVars, syncPc>>
  BY <1>3, <1>5 DEF UsedNow, Training, trainVars
<1>6. CASE Sync
  <2>1. UNCHANGED <<localStep, batch>> /\ ~Training /\ ~Training'
    BY <1>6 DEF Sync, SyncStarts, SyncBroadcasts, SyncReturns, Training, trainVars, AllInv, StreamInv,
                SyncKind
  <2> QED BY <1>2, <1>3, <1>4, <2>1
<1>7. CASE TrainerGetsValidation
  <2>1. ~Training /\ Training' /\ batch' = <<>> /\ localStep' = localStep
    BY <1>7 DEF TrainerGetsValidation, Training
  <2>2. Len(batch') = 0
    BY <2>1
  <2> QED BY <1>2, <1>3, <1>4, <2>1, <2>2
<1>8. CASE TrainerGetsSample
  <2> DEFINE h == Head(mq)
  <2>1. /\ h # Sentinel /\ batch' = Append(batch, h) /\ consumed' = consumed \cup {h}
        /\ Training /\ Training' /\ UNCHANGED <<localStep, staleness, failures>>
    BY <1>8 DEF TrainerGetsSample, Over, Training, rollouterVars, flagVars
  <2>2. h \in Samples /\ h \in ToSet(mq)
    <3>1. mq \in Seq(Samples \cup {Sentinel}) /\ mq # <<>>
      BY <1>1, <1>8 DEF TypeInv, TypeOK, QueueOK, TrainerGetsSample
    <3> QED BY <2>1, <3>1, TailToSet, HeadTailProperties
  <2> HIDE DEF h
  <2>3. Len(batch') = Len(batch) + 1
    BY <1>2, <2>1, <2>2, AppendProperties
  <2>4. Leaves(h) \/ Stays
    BY <1>1, <1>8, TrainerGetsStep DEF h
  <2>5. h \in Outstanding
    BY <2>1, <2>2 DEF Outstanding, Real, Sentinel
  <2>6. Outstanding' = Outstanding \ {h}
    <3>1. CASE Stays
      <4>1. h \in Outstanding' /\ h \in consumed'
        BY <2>1, <2>5, <3>1 DEF Stays
      <4>2. PlaceInv'
        BY <1>1, FlowStep
      <4>3. h \notin consumed'
        BY <4>1, <4>2, FlyingNotUsed
      <4> QED BY <4>1, <4>3
    <3>2. CASE Leaves(h)
      BY <3>2 DEF Leaves
    <3> QED BY <2>4, <3>1, <3>2
  <2>7. Cardinality(Outstanding') = Cardinality(Outstanding) - 1
    BY <1>1, <2>5, <2>6, OutstandingFinite, FS_RemoveElement
  <2>8. UsedNow' = UsedNow + 1
    BY <1>2, <1>4, <2>1, <2>3
  <2> QED BY <1>3, <1>8, <2>1, <2>5, <2>7, <2>8
<1>9. CASE TrainerTrains
  <2>1. trainer = "train" /\ Training /\ Len(batch) = Required
    BY <1>1, <1>9 DEF TrainerTrains, Training, BatchFits
  <2>2. CASE ~SyncDue
    <3>1. localStep' = localStep + 1 /\ ~Training'
      BY <1>9, <2>2 DEF TrainerTrains, Training
    <3>2. UsedNow' = localStep * Required
      <4>1. localStep' - 1 = localStep /\ localStep * Required \in Nat
        BY <1>2, <3>1
      <4> QED BY <1>4, <3>1, <4>1
    <3> QED BY <1>2, <1>3, <2>1, <3>2
  <2>3. CASE SyncDue
    <3>1. localStep' = 1 /\ ~Training' /\ trainer' = "sync"
      BY <1>9, <2>3 DEF TrainerTrains, Training
    <3>2. localStep = Trigger
      BY <1>2, <2>3 DEF SyncDue
    <3>3. UsedNow' = 0
      <4>1. (localStep' - 1) * Required = 0
        BY <1>2, <3>1
      <4> QED BY <1>4, <3>1, <4>1
    <3>4. Synchronous => UsedNow = MaxRequired
      BY <1>2, <2>1, <3>2
    <3> QED BY <1>3, <1>9, <3>1, <3>3, <3>4
  <2> QED BY <2>2, <2>3
<1>10. CASE TrainerEnds \/ TrainerLogsLast
  BY <1>10 DEF TrainerEnds, TrainerLogsLast, Over
<1> QED BY <1>5, <1>6, <1>7, <1>8, <1>9, <1>10, TrainerFrame DEF Train

(* A sample is taken only when the count leaves room for it.               *)
LEMMA TakesCount ==
  ASSUME TypeInv, GetBudget, [Next]_vars, Takes
  PROVE  staleness < MaxRequired /\ staleness' = staleness + 1
<1>1. staleness \in Nat /\ MaxRequired \in Nat
  BY QueueRoom DEF TypeInv, TypeOK, FlagsOK
<1>2. staleness' = staleness + 1
  BY DEF Takes, TakePending, OneMore
<1>3. CASE proc = "get"
  BY <1>2, <1>3 DEF GetBudget
<1>4. CASE proc # "get"
  BY <1>1, <1>2, <1>4, TakesRoom
<1> QED BY <1>3, <1>4

(* When the trainer has used a whole version nothing moves.                *)
LEMMA DryFacts ==
  ASSUME AllInv, [Next]_vars, ~Over, trainer = "sync" \/ Resetting
  PROVE  /\ Outstanding = {} /\ failures = {} /\ staleness = MaxRequired /\ UsedNow = 0
         /\ ~Takes /\ Outstanding' = {} /\ failures' = {} /\ proc # "get"
<1>1. FlowInv /\ TypeInv /\ TypeInv' /\ Dry /\ GetBudget
  BY TypeInvStep DEF AllInv, StreamInv, FlowInv, OnPolicyInv
<1>2. Outstanding = {} /\ failures = {} /\ staleness = MaxRequired /\ UsedNow = 0
  BY <1>1 DEF Dry
<1>3. MaxRequired \in Nat
  BY QueueRoom
<1>4. ~Takes /\ proc # "get"
  BY <1>1, <1>2, <1>3, TakesCount DEF GetBudget
<1>5. Cardinality(Outstanding) = 0 /\ Cardinality(failures) = 0
  BY <1>2, FS_EmptySet
<1>6. Cardinality(Outstanding') = 0 /\ Cardinality(failures') = 0
  BY <1>1, <1>4, <1>5, FlightStep
<1>7. IsFiniteSet(Outstanding') /\ (IsFiniteSet(failures))'
  BY <1>1, OutstandingSteps, FailuresFinite, PTL
<1>8. Outstanding' = {} /\ failures' = {}
  BY <1>6, <1>7, FS_EmptySet
<1> QED BY <1>2, <1>4, <1>8

LEMMA DryQueues ==
  ASSUME FlowInv, Outstanding = {}
  PROVE  /\ hand = Nobody /\ Running = {} /\ cancelQ = <<>> /\ resultQ = <<>> /\ consumer = Nobody
         /\ Len(mq) \in 0 .. 1
<1>1. /\ cancelQ \in Seq(Samples) /\ resultQ \in Seq(Samples) /\ mq \in Seq(Samples \cup {Sentinel})
      /\ IsInjective(mq)
  BY DEF FlowInv, TypeInv, TypeOK, FlowOK, QueueOK, PlaceInv
<1>2. /\ hand = Nobody /\ Running = {} /\ consumer = Nobody
      /\ ToSet(cancelQ) = {} /\ ToSet(resultQ) = {} /\ ToSet(mq) \subseteq {Sentinel}
  BY DEF Outstanding, Real, Nobody, Sentinel
<1>3. ASSUME NEW q \in Seq(Samples), ToSet(q) = {} PROVE q = <<>>
  <2>1. q # <<>> => Head(q) \in ToSet(q)
    BY TailToSet
  <2> QED BY <1>3, <2>1
<1>4. Len(mq) \in 0 .. 1
  <2>1. IsFiniteSet({Sentinel}) /\ Cardinality({Sentinel}) = 1
    BY FS_Singleton
  <2>2. Cardinality(ToSet(mq)) \in Nat /\ Cardinality(ToSet(mq)) = Len(mq)
    BY <1>1, ToSetSize
  <2>3. Cardinality(ToSet(mq)) <= 1
    BY <1>2, <2>1, FS_Subset
  <2> QED BY <2>2, <2>3
<1> QED BY <1>1, <1>2, <1>3, <1>4

LEMMA BudgetStep ==
  ASSUME AllInv, [Next]_vars, Synchronous
  PROVE  Budget'
<1> SUFFICES ASSUME ~Over'
             PROVE  /\ Cardinality(Outstanding') + UsedNow' + Cardinality(failures') <= staleness'
                    /\ staleness' <= MaxRequired
  BY DEF Budget
<1>1. /\ FlowInv /\ TypeInv /\ TypeInv' /\ GetBudget /\ ~Over
  BY TypeInvStep, OverStays DEF AllInv, StreamInv, FlowInv, OnPolicyInv
<1> DEFINE out == Cardinality(Outstanding)
           fail == Cardinality(failures)
           used == UsedNow
<1>2. /\ out \in Nat /\ out' \in Nat /\ fail \in Nat /\ fail' \in Nat
      /\ \/ out' + fail' <= out + fail
         \/ Takes /\ fail' = fail /\ out' <= out + 1
  BY <1>1, FlightStep
<1>3. /\ used \in Nat /\ used' \in Nat
      /\ \/ used' = used
         \/ /\ used' = used + 1 /\ UNCHANGED staleness /\ fail' = fail
            /\ out' = out - 1 /\ Outstanding # {}
         \/ used' = 0
  BY <1>1, UsedNat, UsedStep
<1>4. staleness \in Nat /\ staleness' \in Nat /\ MaxRequired \in Nat \ {0}
  BY <1>1, QueueRoom DEF TypeInv, TypeOK, FlagsOK
<1>5. out + used + fail <= staleness /\ staleness <= MaxRequired
  BY <1>1 DEF AllInv, OnPolicyInv, Budget
<1>6. CASE Takes
  <2>1. staleness < MaxRequired /\ staleness' = staleness + 1
    BY <1>1, <1>6, TakesCount
  <2> HIDE DEF out, fail, used
  <2> QED BY <1>2, <1>3, <1>4, <1>5, <2>1 DEF out, fail, used
<1>7. CASE UpdateSets
  <2>1. updatePc = "set" /\ staleness' = updateAcc
    BY <1>7 DEF UpdateSets, Reset
  <2>2. Outstanding = {} /\ used = 0 /\ Outstanding' = {} /\ failures' = {}
    BY <1>1, <2>1, DryFacts DEF Resetting
  <2>3. updateAcc <= 1
    BY <1>1, <2>1 DEF AllInv, OnPolicyInv, Dry
  <2>4. out' = 0 /\ fail' = 0 /\ used' = 0
    BY <1>3, <2>2, FS_EmptySet
  <2> HIDE DEF out, fail, used
  <2> QED BY <1>4, <2>1, <2>3, <2>4 DEF out, fail, used
<1>8. CASE ~Takes /\ UNCHANGED staleness
  <2> HIDE DEF out, fail, used
  <2> QED BY <1>2, <1>3, <1>4, <1>5, <1>8 DEF out, fail, used
<1>9. UpdateEnter \/ UpdateCounts => UNCHANGED staleness
  BY DEF UpdateEnter, UpdateCounts, flagVars
<1> QED BY <1>6, <1>7, <1>8, <1>9, CountFrame DEF countVars

(* When the trainer is over the processor is, too.                         *)
LEMMA OverEnded == StreamInv /\ Over => proc \in {"exited", "crashed"}
BY DEF StreamInv, OverLate, FlowInv, MainAfterProc

LEMMA GetBudgetStep ==
  ASSUME AllInv, [Next]_vars
  PROVE  GetBudget'
<1> SUFFICES ASSUME proc' = "get" PROVE staleness' < MaxRequired
  BY DEF GetBudget
<1>1. TypeInv /\ GetBudget /\ HandHeld
  BY DEF AllInv, StreamInv, FlowInv, OnPolicyInv, TypeInv
<1>2. ~Over
  BY <1>1, OverEnded, ProcStays DEF AllInv
<1>3. ~Takes /\ (proc = "get" \/ ~ShouldPause)
  BY GetFrame
<1>4. staleness \in Nat /\ MaxRequired \in Nat
  BY <1>1, QueueRoom DEF TypeInv, TypeOK, FlagsOK
<1>5. staleness < MaxRequired
  BY <1>1, <1>3, <1>4 DEF GetBudget, ShouldPause
<1>6. ~UpdateSets
  <2> SUFFICES ASSUME UpdateSets PROVE FALSE
    OBVIOUS
  <2>1. updatePc = "set"
    BY DEF UpdateSets
  <2>2. staleness = MaxRequired
    BY <1>2, <2>1, DryFacts DEF Resetting
  <2> QED BY <1>4, <1>5, <2>2
<1>7. UpdateEnter \/ UpdateCounts => UNCHANGED staleness
  BY DEF UpdateEnter, UpdateCounts, flagVars
<1> QED BY <1>3, <1>5, <1>6, <1>7, CountFrame DEF countVars

(* A synchronization begins after a training step, and the update is       *)
(* requested at its end.                                                   *)
LEMMA SyncBegins ==
  ASSUME [Next]_vars, SyncKind, ~Over, trainer' = "sync" \/ Resetting'
  PROVE  \/ trainer = "sync" \/ Resetting
         \/ TrainerTrains /\ trainer' = "sync" /\ UNCHANGED updatePc
<1>1. CASE trainer' = "sync" /\ trainer # "sync"
  <2>1. ~Sync
    BY <1>1 DEF Sync, SyncStarts, SyncBroadcasts, SyncReturns, trainVars
  <2>2. Train
    BY <1>1, <2>1, TrainerFrame DEF trainVars
  <2>3. TrainerTrains
    BY <1>1, <2>2 DEF Train, TrainerGetsValidation, TrainerGetsSample, TrainerEnds, TrainerLogsLast
  <2> QED BY <1>1, <2>3 DEF TrainerTrains, callVars
<1>2. CASE Resetting' /\ ~Resetting
  <2>1. ~Takes /\ ~UpdateEnter /\ ~UpdateCounts /\ ~UpdateSets
    BY <1>2 DEF Takes, callVars, UpdateEnter, UpdateCounts, UpdateSets, Resetting
  <2>2. updatePc' = "called" /\ updatePc # "called"
    BY <1>2, <2>1, CountFrame DEF Resetting, countVars
  <2>3. SyncReturns
    <3>1. ~Update
      BY <2>2 DEF Update, UpdateEnter, UpdateCounts, UpdateSets, UpdateReturns
    <3>2. ~Train
      BY <2>2 DEF Train, TrainerGetsValidation, TrainerGetsSample, TrainerTrains, TrainerEnds,
                  TrainerLogsLast, callVars
    <3>3. Sync
      BY <2>2, <3>1, <3>2, ValFrame DEF valVars
    <3> QED BY <2>2, <3>3 DEF Sync, SyncStarts, SyncBroadcasts
  <2> QED BY <2>3 DEF SyncReturns, SyncKind, Over
<1> QED BY <1>1, <1>2

(* The tasks a pause has gathered are forgotten, and none is new then.     *)
LEMMA StillNone ==
  ASSUME AllInv, [Next]_vars, ~Over, trainer = "sync" \/ Resetting, active = {}
  PROVE  active' = {}
<1>1. hand = Nobody /\ HandHeld /\ FlowInv /\ TaskInv
  BY DryFacts, DryQueues DEF AllInv, StreamInv, FlowInv, TypeInv
<1>2. ~ProcSubmit
  BY <1>1 DEF ProcSubmit, Enter, AtLock, HandHeld
<1>3. ASSUME NEW l \in Loops, LoopReap(l) PROVE active' = {}
  BY <1>3 DEF LoopReap
<1>4. ASSUME NEW s \in Samples, Task(s) PROVE active' = {}
  BY <1>1, <1>4, TaskStep
<1> QED BY <1>2, <1>3, <1>4, TaskFrame DEF PauseGathers

LEMMA DryStep ==
  ASSUME AllInv, [Next]_vars, Synchronous
  PROVE  Dry'
<1> SUFFICES ASSUME ~Over' PROVE Dry'
  BY DEF Dry
<1>1. /\ FlowInv /\ TypeInv /\ TypeInv' /\ ~Over /\ Dry /\ SyncKind /\ SyncOrder /\ Budget
      /\ SyncOrder' /\ VersionsAgree
  BY TypeInvStep, OverStays, SyncOrderStep DEF AllInv, StreamInv, FlowInv, OnPolicyInv, ValInv
<1>2. MaxRequired \in Nat \ {0} /\ staleness \in Nat /\ UsedNow \in Nat
  BY <1>1, QueueRoom, UsedNat DEF TypeInv, TypeOK, FlagsOK
<1>3. ASSUME trainer = "sync" \/ Resetting
      PROVE  Outstanding' = {} /\ failures' = {} /\ UsedNow' = 0 /\ ~Takes
             /\ staleness = MaxRequired
  BY <1>1, <1>3, DryFacts, UsedStep
<1>4. ASSUME TrainerTrains, trainer' = "sync"
      PROVE  /\ Outstanding' = {} /\ failures' = {} /\ UsedNow' = 0 /\ staleness' = MaxRequired
             /\ ~Resetting /\ ~Resetting'
  <2>1. /\ UNCHANGED <<rollouterVars, callVars, failures, mq>> /\ trainer = "train"
    BY <1>4 DEF TrainerTrains, pastVars, mqVars
  <2>2. Outstanding' = Outstanding /\ staleness' = staleness
    BY <2>1 DEF rollouterVars, flowVars, procVars, corVars, flagVars, Outstanding, Running
  <2>3. UsedNow = MaxRequired /\ UsedNow' = 0
    <3>1. UNCHANGED staleness
      BY <2>2
    <3>2. ~TrainerGetsSample
      BY <2>1 DEF TrainerGetsSample
    <3>3. UsedNow' = UsedNow => FALSE
      <4>1. SyncDue /\ localStep' = 1 /\ ~Training' /\ Training /\ batch' = batch
        BY <1>1, <1>4, <2>1 DEF TrainerTrains, Training
      <4>2. Len(batch) = Required /\ Required \in Nat \ {0}
        BY <1>1, <2>1, UsedFacts DEF AllInv, OnPolicyInv, BatchFits
      <4>3. UsedNow' = 0
        <5>1. UsedNow' = (localStep' - 1) * Required
          BY <1>1, <4>1, <4>2, UsedFacts DEF UsedNow
        <5> QED BY <4>1, <4>2, <5>1
      <4>4. UsedNow # 0
        <5> DEFINE before == (localStep - 1) * Required
        <5>1. before \in Nat /\ UsedNow = before + Required
          BY <1>1, <4>1, <4>2, UsedFacts
        <5> HIDE DEF before
        <5> QED BY <4>2, <5>1
      <4> QED BY <4>3, <4>4
    <3> QED BY <3>2, <3>3, UsedStep
  <2>4. Cardinality(Outstanding) = 0 /\ Cardinality(failures) = 0 /\ staleness = MaxRequired
    <3> DEFINE out == Cardinality(Outstanding)
               fail == Cardinality(failures)
    <3>1. out \in Nat /\ fail \in Nat /\ out + UsedNow + fail <= staleness /\ staleness <= MaxRequired
      BY <1>1, FlightStep DEF Budget
    <3> HIDE DEF out, fail
    <3>2. out = 0 /\ fail = 0 /\ staleness = MaxRequired
      BY <1>2, <2>3, <3>1
    <3> QED BY <3>2 DEF out, fail
  <2>5. Outstanding = {} /\ failures = {}
    BY <1>1, <2>4, OutstandingFinite, FailuresFinite, FS_EmptySet
  <2>6. ~Resetting /\ ~Resetting'
    BY <1>1, <1>2, <2>1, <2>3 DEF Dry, Resetting, callVars
  <2> QED BY <2>1, <2>2, <2>3, <2>4, <2>5, <2>6
<1>5. trainer' = "sync" \/ Resetting'
        => /\ Outstanding' = {} /\ failures' = {}
           /\ staleness' = MaxRequired /\ UsedNow' = 0
  <2> SUFFICES ASSUME trainer' = "sync" \/ Resetting'
               PROVE  /\ Outstanding' = {} /\ failures' = {}
                      /\ staleness' = MaxRequired /\ UsedNow' = 0
    OBVIOUS
  <2>1. CASE trainer = "sync" \/ Resetting
    <3>1. ~UpdateSets
      <4> SUFFICES ASSUME UpdateSets PROVE FALSE
        OBVIOUS
      <4>1. updatePc = "set" /\ updatePc' = "putVal" /\ trainer' = trainer
        BY DEF UpdateSets, trainVars
      <4>2. Resetting /\ ~Resetting'
        BY <4>1 DEF Resetting
      <4> QED BY <1>1, <4>1, <4>2 DEF Dry
    <3>2. UpdateEnter \/ UpdateCounts => UNCHANGED staleness
      BY DEF UpdateEnter, UpdateCounts, flagVars
    <3>3. UNCHANGED staleness
      BY <1>3, <2>1, <3>1, <3>2, CountFrame DEF countVars
    <3> QED BY <1>3, <2>1, <3>3
  <2>2. CASE TrainerTrains /\ trainer' = "sync"
    BY <1>4, <2>2
  <2> QED BY <1>1, <2>1, <2>2, SyncBegins
<1>6. ~(trainer' = "sync" /\ Resetting')
  <2> SUFFICES ASSUME trainer' = "sync", Resetting' PROVE FALSE
    OBVIOUS
  <2>1. ~(TrainerTrains /\ trainer' = "sync")
    BY <1>4
  <2>2. trainer = "sync" \/ Resetting
    BY <1>1, <2>1, SyncBegins
  <2>3. CASE trainer = "sync" /\ ~Resetting
    <3>1. ~Takes /\ ~UpdateEnter /\ ~UpdateCounts /\ ~UpdateSets
      BY <2>3 DEF Takes, callVars, UpdateEnter, UpdateCounts, UpdateSets, Resetting
    <3>2. updatePc' = "called" /\ updatePc # "called"
      BY <2>3, <3>1, CountFrame DEF Resetting, countVars
    <3>3. ~Update /\ ~Train
      BY <3>2 DEF Update, UpdateEnter, UpdateCounts, UpdateSets, UpdateReturns, Train,
                  TrainerGetsValidation, TrainerGetsSample, TrainerTrains, TrainerEnds,
                  TrainerLogsLast, callVars
    <3>4. SyncReturns
      BY <3>2, <3>3, ValFrame DEF valVars, Sync, SyncStarts, SyncBroadcasts
    <3> QED BY <3>4 DEF SyncReturns
  <2>4. CASE trainer # "sync" /\ Resetting
    <3>1. ~Sync /\ ~(TrainerTrains /\ trainer' = "sync")
      BY <2>1, <2>4 DEF Sync, SyncStarts, SyncBroadcasts, SyncReturns, trainVars
    <3>2. ~Train
      BY <2>4, <3>1 DEF Train, TrainerGetsValidation, TrainerGetsSample, TrainerEnds,
                        TrainerLogsLast
    <3> QED BY <2>4, <3>1, <3>2, TrainerFrame DEF trainVars
  <2> QED BY <1>1, <2>2, <2>3, <2>4 DEF Dry
<1>7. pausePc' \in {"reset", "done"} \/ syncPc' = "loading" \/ updatePc' = "called" => active' = {}
  <2> DEFINE gathered == pausePc \in {"reset", "done"} \/ syncPc = "loading" \/ updatePc = "called"
  <2>1. CASE gathered
    <3>1. trainer = "sync" \/ Resetting
      BY <1>1, <2>1 DEF SyncOrder, SyncKind, Over, Resetting
    <3> QED BY <1>1, <2>1, <3>1, StillNone DEF Dry
  <2>2. ASSUME ~gathered, gathered' PROVE PauseGathers
    <3>1. CASE updatePc' = "called" /\ updatePc # "called"
      <4>1. ~Update /\ ~Train
        BY <3>1 DEF Update, UpdateEnter, UpdateCounts, UpdateSets, UpdateReturns, Train,
                    TrainerGetsValidation, TrainerGetsSample, TrainerTrains, TrainerEnds,
                    TrainerLogsLast, callVars
      <4>2. SyncReturns
        BY <3>1, <4>1, ValFrame DEF valVars, Sync, SyncStarts, SyncBroadcasts
      <4> QED BY <2>2, <4>2 DEF SyncReturns
    <3>2. CASE Pause
      BY <2>2, <3>1, <3>2 DEF Pause, PauseEnter, PauseCancels, PauseReturns
    <3>3. CASE Sync
      BY <2>2, <3>1, <3>3 DEF Sync, SyncStarts, SyncBroadcasts, SyncReturns
    <3>4. CASE Resume
      BY <2>2, <3>1, <3>4 DEF Resume, ResumeEnter, ResumeReturns
    <3>5. CASE UNCHANGED syncVars
      BY <2>2, <3>1, <3>5 DEF syncVars
    <3> QED BY <3>2, <3>3, <3>4, <3>5, SyncFrame
  <2>3. PauseGathers => active' = {}
    BY DEF PauseGathers
  <2> QED BY <2>1, <2>2, <2>3
<1>8. /\ updatePc' = "size" => updateAcc' = 0
      /\ updatePc' = "set" => updateAcc' <= 1
  <2>1. CASE UpdateEnter /\ updatePc' # updatePc
    <3>1. /\ updatePc = "called" /\ updatePc' = "size"
          /\ updateAcc' = Cardinality(active) + Len(resultQ) + Len(cancelQ)
      BY <2>1 DEF UpdateEnter
    <3>2. Outstanding = {} /\ active = {}
      BY <1>1, <3>1, DryFacts DEF Dry, Resetting
    <3>3. Cardinality(active) = 0 /\ Len(resultQ) = 0 /\ Len(cancelQ) = 0
      BY <1>1, <3>2, DryQueues, FS_EmptySet
    <3> QED BY <3>1, <3>3
  <2>2. CASE UpdateCounts
    <3>1. updatePc = "size" /\ updatePc' = "set" /\ updateAcc' = updateAcc + Len(mq)
      BY <2>2 DEF UpdateCounts
    <3>2. Outstanding = {} /\ updateAcc = 0
      BY <1>1, <3>1, DryFacts DEF Dry, Resetting
    <3> QED BY <1>1, <3>1, <3>2, DryQueues
  <2>3. CASE UpdateSets
    BY <2>3 DEF UpdateSets
  <2>4. CASE UpdateEnter /\ updatePc' = updatePc
    BY <2>4 DEF UpdateEnter
  <2>5. CASE UNCHANGED <<updatePc, updateAcc>>
    BY <1>1, <2>5 DEF Dry
  <2>6. CASE updatePc' \in {"idle", "called"}
    BY <2>6
  <2> QED BY <2>1, <2>2, <2>3, <2>4, <2>5, <2>6, CountFrame DEF countVars
<1> QED BY <1>5, <1>6, <1>7, <1>8 DEF Dry

LEMMA NotTakenLess ==
  ASSUME FlowInv, [Next]_vars, ~Takes
  PROVE  Outstanding' \subseteq Outstanding /\ Cardinality(Outstanding') <= Cardinality(Outstanding)
BY OutstandingSteps

LEMMA MoreTasks ==
  ASSUME TypeInv, NEW l \in Loops, More(l)
  PROVE  active # {}
<1>1. MaxConcurrent \in Nat \ {0}
  BY ConfigAssumption
<1>2. active = {} => Cardinality(active) = 0
  BY FS_EmptySet
<1> QED BY <1>1, <1>2 DEF More, Loops

LEMMA WaitsDryStep ==
  ASSUME AllInv, [Next]_vars
  PROVE  WaitsDry'
<1> SUFFICES ASSUME ~Over', proc' \in {"drainLock", "finishLock", "limitLock"}, active' = {}
             PROVE  Outstanding' = {}
  BY DEF WaitsDry
<1>1. FlowInv /\ TypeInv /\ TaskInv /\ ~Over /\ SyncOrder /\ SyncKind /\ HandHeld
  BY OverStays DEF AllInv, StreamInv, FlowInv, TypeInv
<1>2. CASE UNCHANGED proc
  <2>1. ~Takes
    BY <1>2 DEF Takes
  <2>2. CASE active = {}
    <3>1. Outstanding = {}
      BY <1>1, <1>2, <2>2 DEF AllInv, OnPolicyInv, WaitsDry
    <3> QED BY <1>1, <2>1, <3>1, NotTakenLess
  <2>3. CASE active # {}
    <3>1. ~ProcSubmit
      BY <1>2 DEF ProcSubmit, Enter, AtLock
    <3>2. ASSUME NEW l \in Loops PROVE ~LoopReap(l)
      BY <1>2 DEF LoopReap, Loops, AtWait
    <3>3. ASSUME NEW s \in Samples, Task(s) PROVE FALSE
      BY <1>1, <2>3, <3>3, TaskStep
    <3>4. pausePc = "gather"
      BY <2>3, <3>1, <3>2, <3>3, TaskFrame DEF PauseGathers
    <3>5. trainer = "sync"
      BY <1>1, <3>4 DEF SyncOrder, SyncKind, Over
    <3> QED BY <1>1, <3>5, DryFacts
  <2> QED BY <2>2, <2>3
<1>3. CASE proc' # proc
  <2>1. CASE ProcContended
    <3>1. proc \in Loops /\ More(proc) /\ active' = active
      BY <2>1 DEF ProcContended, Suspend, AtLock, Loops, flowVars
    <3> QED BY <1>1, <3>1, MoreTasks
  <2>2. ~(ProcCheck \/ ProcGet \/ ProcPause \/ ProcIdle \/ ProcSubmit \/ ProcWoken)
    BY DEF ProcCheck, ProcGet, TakePending, ProcPause, ProcIdle, ProcSubmit, ProcSubmits,
           ProcSubmitWaits, ProcWoken, GoOn, Suspend
  <2>3. ASSUME NEW l \in Loops PROVE ~(LoopExit(l) \/ LoopLocked(l) \/ LoopReap(l))
    BY DEF Loops, LoopExit, LoopLocked, LoopReap, After, AtWait, GoOn, Suspend
  <2> QED BY <1>3, <2>1, <2>2, <2>3, ProcFrame DEF Processor
<1> QED BY <1>2, <1>3

LEMMA FailedTasksStep ==
  ASSUME AllInv, [Next]_vars
  PROVE  FailedTasks'
<1> SUFFICES ASSUME NEW s \in Samples, task'[s] = "failed" PROVE s \in failures'
  BY DEF FailedTasks
<1>1. /\ FlowInv /\ TaskInv /\ task \in [Samples -> TaskStates]
      /\ task[s] = "failed" => s \in failures
  BY DEF AllInv, StreamInv, OnPolicyInv, FailedTasks, TaskInv
<1>2. failures \subseteq failures'
  BY <1>1, FlowStep DEF Stays, Starts, TakesDone, Leaves
<1>3. CASE task[s] = "failed"
  BY <1>1, <1>2, <1>3
<1>4. CASE task[s] # "failed"
  <2>1. CASE ProcSubmit /\ ProcSubmits
    BY <1>1, <1>4, <2>1 DEF ProcSubmits
  <2>2. ASSUME NEW t \in Samples, Task(t) PROVE s \in failures'
    <3>1. CASE TaskStart(t) \/ ServerAnswers(t)
      BY <1>1, <1>4, <3>1 DEF TaskStart, ServerAnswers
    <3>2. CASE TaskEnd(t)
      BY <1>1, <1>4, <3>2 DEF TaskEnd, Completes, IsInterrupted, Fails
    <3> QED BY <2>2, <3>1, <3>2 DEF Task
  <2>3. (\E l \in Loops : LoopReap(l)) \/ PauseGathers => UNCHANGED task
    BY DEF LoopReap, PauseGathers
  <2> QED BY <1>4, <2>1, <2>2, <2>3, TaskFrame
<1> QED BY <1>3, <1>4

LEMMA EndRoomStep ==
  ASSUME AllInv, [Next]_vars
  PROVE  EndRoom'
<1> SUFFICES ASSUME proc' \in AtFinish \cup {"crashed"}
             PROVE  Cardinality(Outstanding') < MaxRequired
  BY DEF EndRoom
<1>1. FlowInv /\ TypeInv /\ TaskInv /\ GetBudget /\ HandHeld /\ StreamInv
  BY DEF AllInv, StreamInv, FlowInv, TypeInv, OnPolicyInv
<1> DEFINE out == Cardinality(Outstanding)
           fail == Cardinality(failures)
<1>2. /\ out \in Nat /\ out' \in Nat /\ fail \in Nat /\ staleness \in Nat
      /\ MaxRequired \in Nat \ {0}
  BY <1>1, QueueRoom, FlightStep DEF TypeInv, TypeOK, FlagsOK
<1>3. CASE proc \in AtFinish \cup {"crashed"}
  <2>1. ~Takes /\ out < MaxRequired
    BY <1>3 DEF Takes, AtFinish, AllInv, OnPolicyInv, EndRoom
  <2> QED BY <1>1, <1>2, <2>1, NotTakenLess
<1>4. CASE proc \notin AtFinish \cup {"crashed"}
  <2>1. ~Over
    BY <1>1, <1>4, OverEnded DEF AtFinish
  <2>2. out + UsedNow + fail <= staleness /\ staleness <= MaxRequired /\ UsedNow \in Nat
    BY <1>1, <2>1, UsedNat DEF AllInv, OnPolicyInv, Budget
  <2>3. CASE Takes
    <3>1. staleness < MaxRequired
      BY <1>1, <2>3, TakesCount
    <3>2. out < MaxRequired
      <4> HIDE DEF out, fail
      <4> QED BY <1>2, <2>2, <3>1
    <3>3. HandFree' /\ proc' = "finish"
      BY <1>1, <2>3, HandFreeStep DEF FlowInv, Takes, TakePending, GoOn, AtFinish
    <3>4. ~Starts
      <4>1. hand' = Nobody
        BY <3>3 DEF HandFree, Taking
      <4> QED BY <4>1 DEF Starts, Samples, Nobody
    <3>5. Outstanding' = Outstanding
      <4>1. (Starts \/ TakesDone)
        BY <1>1, <2>3, TakeStep
      <4> QED BY <3>4, <4>1 DEF TakesDone
    <3> QED BY <3>2, <3>5
  <2>4. CASE ~Takes
    <3>1. proc' # proc /\ Processor
      BY <1>4, ProcFrame
    <3>2. ~ProcCheck /\ ~ProcGet
      BY <2>4, ProcTakes DEF ProcCheck, Takes, GoOn, Suspend, AtFinish
    <3>3. ~(ProcContended \/ ProcPause \/ ProcIdle \/ ProcSubmit \/ ProcWoken)
      BY <1>4 DEF ProcContended, ProcPause, ProcIdle, ProcSubmit, ProcSubmits,
           ProcSubmitWaits, ProcWoken, GoOn, Suspend, AtFinish, AtLock, Loops
    <3>4. PICK l \in Loops : LoopExit(l) \/ LoopLocked(l) \/ LoopReap(l)
      BY <3>1, <3>2, <3>3 DEF Processor
    <3>5. CASE LoopExit(l)
      BY <1>4, <3>5 DEF LoopExit, After, Loops, AtFinish
    <3>6. CASE LoopLocked(l)
      <4>1. active = {} /\ Enter(l) /\ (proc = l => More(l))
        BY <1>4, <3>6 DEF LoopLocked, AtFinish, GoOn, Suspend, AtWait, AtLock, Enter, Loops
      <4>2. proc \in {"drainLock", "finishLock", "limitLock"}
        BY <1>1, <4>1, MoreTasks DEF Enter, AtLock, Loops
      <4>3. out = 0
        BY <2>1, <4>1, <4>2, FS_EmptySet DEF AllInv, OnPolicyInv, WaitsDry
      <4> QED BY <1>1, <1>2, <2>4, <4>3, NotTakenLess
    <3>7. CASE LoopReap(l)
      <4>1. PICK s \in active : task[s] = "failed"
        BY <1>4, <3>7 DEF LoopReap, AtFinish, GoOn, Suspend, AtWait, Loops
      <4>2. s \in failures
        BY <1>1, <4>1 DEF AllInv, OnPolicyInv, FailedTasks, TypeInv, TypeOK, FlowOK
      <4>3. fail # 0
        BY <1>1, <4>2, FailuresFinite, FS_EmptySet
      <4>4. out < MaxRequired
        <5> HIDE DEF out, fail
        <5> QED BY <1>2, <2>2, <4>3
      <4> QED BY <1>1, <1>2, <2>4, <4>4, NotTakenLess
    <3> QED BY <3>4, <3>5, <3>6, <3>7
  <2> QED BY <2>3, <2>4
<1> QED BY <1>3, <1>4

(* The message queue has room for whatever is put.                         *)
LEMMA QueueHasRoom ==
  ASSUME AllInv, ConsumerPuts \/ MainFinishes
  PROVE  Len(mq) < MaxRequired
<1>1. FlowInv /\ TypeInv /\ StreamInv /\ EndRoom
  BY DEF AllInv, StreamInv, FlowInv, OnPolicyInv
<1>2. /\ mq \in Seq(Samples \cup {Sentinel}) /\ Len(mq) \in Nat /\ IsInjective(mq)
      /\ IsFiniteSet(Outstanding) /\ Cardinality(Outstanding) \in Nat
      /\ MaxRequired \in Nat /\ Cardinality(failures) \in Nat /\ UsedNow \in Nat
      /\ staleness \in Nat
  BY <1>1, LenProperties, OutstandingFinite, QueueRoom, UsedNat, FailuresFinite
     DEF FlowInv, TypeInv, TypeOK, QueueOK, PlaceInv, FlagsOK
<1>3. CASE proc \in {"exited", "crashed"}
  <2>1. Sentinel \in ToSet(mq) => consumer # Nobody
    BY <1>1 DEF ConsumerPuts, MainFinishes, FlowInv, PlaceInv, SentinelLate
  <2>2. Cardinality(Outstanding) < MaxRequired
    BY <1>1, <1>3 DEF EndRoom, AtFinish
  <2>3. Len(mq) <= Cardinality(Outstanding)
    BY <1>1, <2>1, QueueFlies
  <2> QED BY <1>2, <2>2, <2>3
<1>4. CASE proc \notin {"exited", "crashed"}
  <2>1. mainPc = "run" /\ Sentinel \notin ToSet(mq) /\ ~Over
    BY <1>1, <1>4, OverEnded DEF FlowInv, MainAfterProc, PlaceInv, SentinelLate
  <2>2. consumer # Nobody
    BY <2>1 DEF ConsumerPuts, MainFinishes
  <2>3. consumer \in Outstanding /\ consumer \notin ToSet(mq)
    <3>1. consumer \in Place["consumer"]
      BY <2>2, PlaceParts DEF Real, Nobody
    <3>2. Place["consumer"] \cap Place["queue"] = {}
      BY <1>1, PlaceParts DEF FlowInv, PlaceInv, Disjoint, PlaceNames
    <3> QED BY <2>2, <3>1, <3>2, PlaceParts DEF Outstanding, Real, Nobody
  <2>4. ToSet(mq) \subseteq Outstanding \ {consumer}
    BY <1>2, <2>1, <2>3, ToSetSize DEF Outstanding, Real, Sentinel
  <2>5. Cardinality(ToSet(mq)) = Len(mq)
    BY <1>2, ToSetSize
  <2>6. /\ Cardinality(Outstanding \ {consumer}) = Cardinality(Outstanding) - 1
        /\ IsFiniteSet(Outstanding \ {consumer})
    BY <1>2, <2>3, FS_RemoveElement
  <2>7. Len(mq) <= Cardinality(Outstanding) - 1
    BY <2>4, <2>5, <2>6, FS_Subset
  <2>8. Cardinality(Outstanding) <= MaxRequired
    <3> DEFINE out == Cardinality(Outstanding)
               fail == Cardinality(failures)
    <3>1. out + UsedNow + fail <= staleness /\ staleness <= MaxRequired
      BY <2>1 DEF AllInv, OnPolicyInv, Budget
    <3> HIDE DEF out, fail
    <3>2. out <= MaxRequired
      BY <1>2, <3>1 DEF out, fail
    <3> QED BY <3>2 DEF out
  <2> QED BY <1>2, <2>7, <2>8
<1> QED BY <1>3, <1>4

LEMMA DropsNone ==
  ASSUME AllInv, [Next]_vars
  PROVE  mqDropped' = {}
<1>1. mqDropped = {} /\ TypeInv
  BY DEF AllInv, OnPolicyInv, StreamInv, FlowInv
<1>2. CASE ConsumerPuts \/ MainFinishes
  <2>1. Len(mq) < MaxRequired /\ Len(mq) \in Nat /\ MaxRequired \in Nat
    BY <1>1, <1>2, QueueHasRoom, QueueRoom, LenProperties DEF TypeInv, TypeOK, QueueOK
  <2>2. ~(Len(mq) >= MaxRequired)
    BY <2>1
  <2> QED BY <1>1, <1>2, <2>2 DEF ConsumerPuts, MainFinishes, PutIntoQueue
<1>3. CASE UNCHANGED sampleVars
  BY <1>1, <1>3 DEF sampleVars
<1>4. CASE Feed \/ Takes \/ Retakes \/ ProcSubmit \/ (\E s \in Samples : TaskEnd(s))
           \/ ConsumerTakes \/ TrainerGetsSample
  BY <1>1, <1>4 DEF Feed, Takes, Retakes, ProcSubmit, TaskEnd, ConsumerTakes, TrainerGetsSample,
                    mqVars
<1> QED BY <1>1, <1>2, <1>3, <1>4, SampleFrame

LEMMA BatchFitsStep ==
  ASSUME AllInv, [Next]_vars
  PROVE  BatchFits'
<1>1. TypeInv /\ BatchFits /\ Len(batch) \in Nat /\ Required \in Nat \ {0} /\ batch \in Seq(Samples)
  <2>1. TypeInv /\ BatchFits
    BY DEF AllInv, StreamInv, FlowInv, OnPolicyInv
  <2> QED BY <2>1, UsedFacts
<1> USE DEF BatchFits, trainVars
<1>2. CASE UNCHANGED <<trainVars, syncPc>>
  BY <1>1, <1>2
<1>3. CASE Sync
  BY <1>1, <1>3 DEF Sync, SyncStarts, SyncBroadcasts, SyncReturns
<1>4. CASE TrainerGetsValidation
  <2>1. trainer' = "collect" /\ batch' = <<>>
    BY <1>4 DEF TrainerGetsValidation
  <2>2. Len(batch') = 0
    BY <2>1
  <2> QED BY <1>1, <2>1, <2>2
<1>5. CASE TrainerGetsSample
  <2>1. CASE Head(mq) = Sentinel
    BY <1>5, <2>1 DEF TrainerGetsSample
  <2>2. CASE Head(mq) # Sentinel
    <3>1. /\ batch' = Append(batch, Head(mq)) /\ trainer = "collect" /\ mq # <<>>
          /\ trainer' = IF Len(batch) + 1 = Required THEN "train" ELSE "collect"
      BY <1>5, <2>2 DEF TrainerGetsSample
    <3>2. Head(mq) \in Samples
      <4>1. Head(mq) \in Samples \cup {Sentinel}
        BY <1>1, <3>1, HeadTailProperties DEF TypeInv, TypeOK, QueueOK
      <4> QED BY <2>2, <4>1
    <3>3. Len(batch') = Len(batch) + 1
      BY <1>1, <3>1, <3>2, AppendProperties
    <3> QED BY <1>1, <3>1, <3>3
  <2> QED BY <2>1, <2>2
<1>6. CASE TrainerTrains \/ TrainerEnds \/ TrainerLogsLast
  BY <1>6 DEF TrainerTrains, TrainerEnds, TrainerLogsLast
<1> QED BY <1>2, <1>3, <1>4, <1>5, <1>6, TrainerFrame DEF Train

(* A sample is tagged when its task starts, with the rollouter's version.  *)
LEMMA TagFrame ==
  ASSUME [Next]_vars
  PROVE  UNCHANGED tag \/ \E s \in Samples : TaskStart(s)
<1> USE DEF pastVars
<1>1. CASE Feed \/ Consumer \/ Main \/ Monitor \/ UNCHANGED vars
  BY <1>1 DEF Feed, Consumer, ConsumerTakes, ConsumerPuts, Main, MainJoins, MainFinishes,
              MainStops, Monitor, MonitorTop, MonitorWakes, MonitorUnpauses, vars
<1>2. CASE Processor
  <2>1. CASE ProcContended \/ ProcCheck \/ ProcGet \/ ProcPause \/ ProcIdle \/ ProcSubmit
             \/ ProcWoken
    BY <2>1 DEF ProcContended, ProcCheck, ProcGet, ProcPause, ProcIdle, ProcSubmit, ProcWoken
  <2>2. ASSUME NEW l \in Loops, LoopExit(l) \/ LoopLocked(l) \/ LoopReap(l)
        PROVE  UNCHANGED tag
    BY <2>2 DEF LoopExit, LoopLocked, LoopReap
  <2> QED BY <1>2, <2>1, <2>2 DEF Processor
<1>3. CASE Calls
  BY <1>3 DEF Calls, Pause, PauseEnter, PauseCancels, PauseGathers, PauseReturns,
              Update, UpdateEnter, UpdateCounts, UpdateSets, UpdateReturns,
              Resume, ResumeEnter, ResumeReturns
<1>4. CASE Train \/ Sync
  BY <1>4 DEF Train, TrainerGetsValidation, TrainerGetsSample, TrainerTrains, TrainerEnds,
              TrainerLogsLast, Sync, SyncStarts, SyncBroadcasts, SyncReturns
<1>5. ASSUME NEW s \in Samples, ServerAnswers(s) \/ TaskEnd(s) PROVE UNCHANGED tag
  BY <1>5 DEF ServerAnswers, TaskEnd
<1> QED BY <1>1, <1>2, <1>3, <1>4, <1>5 DEF Next, Task

(* What a step does to the tag of one sample.                              *)
LEMMA TagMoves ==
  ASSUME AllInv, [Next]_vars, NEW s \in Samples
  PROVE  \/ tag'[s] = tag[s]
         \/ /\ TaskStart(s) /\ s \in Outstanding /\ tag[s] = NoVersion
            /\ tag'[s] = rollVersion /\ rollVersion \in Nat
<1>1. TypeInv /\ tag \in [Samples -> Nat \cup {NoVersion}] /\ rollVersion \in Nat
  BY DEF AllInv, StreamInv, FlowInv, TypeInv, TypeOK, PastOK, FlagsOK
<1> SUFFICES ASSUME tag'[s] # tag[s]
             PROVE  /\ TaskStart(s) /\ s \in Outstanding /\ tag[s] = NoVersion
                    /\ tag'[s] = rollVersion
  BY <1>1
<1>2. PICK t \in Samples : TaskStart(t)
  BY TagFrame
<1>3. t = s /\ tag[s] = NoVersion /\ tag'[s] = rollVersion
  BY <1>1, <1>2 DEF TaskStart
<1>4. s \in Outstanding
  BY <1>2, <1>3 DEF TaskStart, Outstanding, Running
<1> QED BY <1>2, <1>3, <1>4

(* The trainer's version changes when nothing is in flight, or at the end. *)
LEMMA VersionMoves ==
  ASSUME AllInv, [Next]_vars, Synchronous, ~Over', version' # version
  PROVE  Outstanding' = {} /\ ~Training'
<1>1. ~Sync
  BY DEF Sync, SyncStarts, SyncBroadcasts, SyncReturns, trainVars
<1>2. TrainerTrains /\ trainer' = "sync"
  BY <1>1, TrainerFrame DEF trainVars, Train, TrainerGetsValidation, TrainerGetsSample,
                            TrainerTrains, TrainerEnds, TrainerLogsLast, Over
<1>3. Dry'
  BY DryStep
<1> QED BY <1>2, <1>3 DEF Dry, Training

LEMMA TagsNoneStep ==
  ASSUME AllInv, [Next]_vars
  PROVE  TagsNone'
<1> SUFFICES ASSUME NEW s \in Samples, s > Left' PROVE tag'[s] = NoVersion
  BY DEF TagsNone
<1>1. FlowInv /\ Left \in Int /\ Left' >= Left /\ Left' \in Int
  <2>1. FlowInv /\ Left \in Int
    BY TakenIs DEF AllInv, StreamInv, FlowInv
  <2>2. Left' = Left \/ Left' = Left + 1
    BY <2>1, FlowStep DEF Stays, Starts, TakesDone, Leaves
  <2> QED BY <2>1, <2>2
<1>2. s > Left
  BY <1>1 DEF Samples
<1>3. s \notin Outstanding
  <2>1. Outstanding \subseteq {x \in Samples : x <= Left}
    BY <1>1 DEF FlowInv, PlaceInv
  <2> QED BY <1>1, <1>2, <2>1 DEF Samples
<1>4. tag[s] = NoVersion
  BY <1>2 DEF AllInv, OnPolicyInv, TagsNone
<1> QED BY <1>3, <1>4, TagMoves

LEMMA TagsStartedStep ==
  ASSUME AllInv, [Next]_vars
  PROVE  TagsStarted'
<1> SUFFICES ASSUME NEW s \in Samples, task'[s] \in {"sent", "gen", "cut"}
             PROVE  tag'[s] # NoVersion
  BY DEF TagsStarted
<1>1. /\ TaskInv /\ task \in [Samples -> TaskStates] /\ tag \in [Samples -> Nat \cup {NoVersion}]
      /\ rollVersion \in Nat
      /\ task[s] \in {"sent", "gen", "cut"} => tag[s] # NoVersion
  BY DEF AllInv, StreamInv, FlowInv, TypeInv, TypeOK, PastOK, FlagsOK, TaskInv, OnPolicyInv,
         TagsStarted
<1>2. tag[s] # NoVersion => tag'[s] # NoVersion
  BY TagMoves
<1>3. CASE task[s] \in {"sent", "gen", "cut"}
  BY <1>1, <1>2, <1>3
<1>4. CASE task[s] \notin {"sent", "gen", "cut"}
  <2>1. ~(ProcSubmit /\ ProcSubmits)
    BY <1>1, <1>4 DEF ProcSubmits
  <2>2. (\E l \in Loops : LoopReap(l)) \/ PauseGathers => UNCHANGED task
    BY DEF LoopReap, PauseGathers
  <2>3. PICK t \in Samples : Task(t)
    BY <1>4, <2>1, <2>2, TaskFrame
  <2>4. CASE TaskStart(t)
    <3>1. t = s
      BY <1>1, <1>4, <2>4 DEF TaskStart
    <3>2. tag'[s] = IF tag[s] = NoVersion THEN rollVersion ELSE tag[s]
      BY <1>1, <2>4, <3>1 DEF TaskStart
    <3> QED BY <1>1, <3>2 DEF NoVersion
  <2>5. CASE ServerAnswers(t)
    BY <1>1, <1>4, <2>5 DEF ServerAnswers, Accepts
  <2>6. CASE TaskEnd(t)
    BY <1>1, <1>4, <2>6 DEF TaskEnd, Completes, IsInterrupted, Fails
  <2> QED BY <2>3, <2>4, <2>5, <2>6 DEF Task
<1> QED BY <1>3, <1>4

LEMMA TagsFlyingStep ==
  ASSUME AllInv, [Next]_vars, Synchronous
  PROVE  TagsFlying'
<1> SUFFICES ASSUME ~Over', NEW s \in Outstanding' PROVE tag'[s] \in {NoVersion, version'}
  BY DEF TagsFlying
<1>1. /\ FlowInv /\ TypeInv /\ TypeInv' /\ ~Over /\ VersionsAgree /\ Left \in Int
  BY TypeInvStep, OverStays, TakenIs DEF AllInv, StreamInv, FlowInv, ValInv
<1>2. version' = version
  BY <1>1, VersionMoves
<1>3. s \in Samples
  <2>1. (Outstanding \subseteq Samples)'
    BY <1>1, OutstandingFinite, PTL
  <2> QED BY <2>1 DEF Samples
<1>4. CASE s \in Outstanding
  <2>1. tag[s] \in {NoVersion, version}
    BY <1>1, <1>4 DEF AllInv, OnPolicyInv, TagsFlying
  <2>2. rollVersion = version
    <3>1. trainer # "sync" /\ ~Resetting
      BY <1>1, <1>4, DryFacts
    <3> QED BY <1>1, <3>1 DEF VersionsAgree, Resetting, Over
  <2> QED BY <1>2, <1>3, <2>1, <2>2, TagMoves
<1>5. CASE s \notin Outstanding
  <2>1. Takes /\ s = Left + 1
    BY <1>1, <1>5, FlowStep DEF Stays, Starts, TakesDone, Leaves
  <2>2. UNCHANGED tag
    BY <2>1 DEF Takes, pastVars
  <2>3. tag[s] = NoVersion
    BY <1>1, <1>3, <2>1 DEF AllInv, OnPolicyInv, TagsNone
  <2> QED BY <2>2, <2>3
<1> QED BY <1>4, <1>5

(* The samples whose generation is over, and which are not used yet.       *)
Finished == ToSet(resultQ) \cup Real(ToSet(mq)) \cup Real({consumer})

LEMMA PutGrows ==
  ASSUME mq \in Seq(Samples \cup {Sentinel}), NEW x \in Samples \cup {Sentinel}, PutIntoQueue(x)
  PROVE  ToSet(mq') \subseteq ToSet(mq) \cup {x}
<1>1. CASE Len(mq) >= MaxRequired
  <2>1. mq # <<>> /\ mq' = Append(Tail(mq), x)
    BY <1>1, QueueRoom DEF PutIntoQueue
  <2> DEFINE r == Tail(mq)
  <2>2. r \in Seq(Samples \cup {Sentinel}) /\ ToSet(r) \subseteq ToSet(mq) /\ mq' = Append(r, x)
    BY <2>1, TailToSet, HeadTailProperties
  <2> HIDE DEF r
  <2> QED BY <2>2, AppendToSet
<1>2. CASE ~(Len(mq) >= MaxRequired)
  BY <1>2, AppendToSet DEF PutIntoQueue
<1> QED BY <1>1, <1>2

LEMMA FinishedMoves ==
  ASSUME AllInv, [Next]_vars, NEW s \in Finished'
  PROVE  s \in Finished \/ (TaskEnd(s) /\ Completes(s) /\ s \in Samples)
<1>1. /\ mq \in Seq(Samples \cup {Sentinel}) /\ resultQ \in Seq(Samples)
      /\ consumer \in Samples \cup {Sentinel} /\ TypeInv
  BY DEF AllInv, StreamInv, FlowInv, TypeInv, TypeOK, FlowOK, QueueOK, CoroutinesOK, Nobody,
         Sentinel
<1>2. CASE Feed \/ Takes \/ Retakes \/ ProcSubmit
  <2>1. UNCHANGED <<resultQ, consumer, mq>>
    BY <1>2 DEF Feed, Takes, Retakes, ProcSubmit, corVars, mqVars
  <2> QED BY <2>1 DEF Finished
<1>3. ASSUME NEW t \in Samples, TaskEnd(t)
      PROVE  s \in Finished \/ (TaskEnd(s) /\ Completes(s) /\ s \in Samples)
  <2>1. UNCHANGED <<consumer, mq>>
    BY <1>3 DEF TaskEnd, corVars, mqVars
  <2>2. CASE Completes(t)
    <3>1. ToSet(resultQ') = ToSet(resultQ) \cup {t}
      BY <1>1, <2>2, AppendToSet DEF Completes
    <3> QED BY <1>3, <2>1, <2>2, <3>1 DEF Finished
  <2>3. CASE UNCHANGED resultQ
    BY <2>1, <2>3 DEF Finished
  <2> QED BY <1>3, <2>2, <2>3 DEF TaskEnd, IsInterrupted, Fails
<1>4. CASE ConsumerTakes
  <2>1. /\ resultQ # <<>> /\ resultQ' = Tail(resultQ) /\ consumer' = Head(resultQ)
        /\ UNCHANGED mq
    BY <1>4 DEF ConsumerTakes, mqVars
  <2>2. ToSet(resultQ) = {consumer'} \cup ToSet(resultQ')
    BY <1>1, <2>1, TailToSet
  <2> QED BY <2>1, <2>2 DEF Finished, Real
<1>5. CASE ConsumerPuts
  <2>1. PutIntoQueue(consumer) /\ consumer' = Nobody /\ UNCHANGED resultQ
    BY <1>5 DEF ConsumerPuts, flowVars
  <2>2. ToSet(mq') \subseteq ToSet(mq) \cup {consumer}
    BY <1>1, <2>1, PutGrows
  <2> QED BY <2>1, <2>2 DEF Finished, Real, Nobody
<1>6. CASE MainFinishes
  <2>1. PutIntoQueue(Sentinel) /\ UNCHANGED <<resultQ, consumer>>
    BY <1>6 DEF MainFinishes, flowVars
  <2>2. ToSet(mq') \subseteq ToSet(mq) \cup {Sentinel}
    BY <1>1, <2>1, PutGrows
  <2> QED BY <2>1, <2>2 DEF Finished, Real, Sentinel
<1>7. CASE TrainerGetsSample
  <2>1. mq # <<>> /\ mq' = Tail(mq) /\ UNCHANGED <<resultQ, consumer>>
    BY <1>7 DEF TrainerGetsSample, rollouterVars, flowVars, corVars
  <2>2. ToSet(mq') \subseteq ToSet(mq)
    BY <1>1, <2>1, TailToSet
  <2> QED BY <2>1, <2>2 DEF Finished, Real
<1>8. CASE UNCHANGED sampleVars
  BY <1>8 DEF sampleVars, Finished
<1> QED BY <1>1, <1>2, <1>3, <1>4, <1>5, <1>6, <1>7, <1>8, SampleFrame

LEMMA TagsDoneStep ==
  ASSUME AllInv, [Next]_vars, Synchronous
  PROVE  TagsDone'
<1> SUFFICES ASSUME ~Over', NEW s \in Finished' PROVE tag'[s] = version'
  BY DEF TagsDone, Finished
<1>1. /\ FlowInv /\ TypeInv /\ TypeInv' /\ ~Over
  BY TypeInvStep, OverStays DEF AllInv, StreamInv, FlowInv
<1>2. s \in Outstanding'
  BY DEF Finished, Outstanding, Real
<1>3. s \in Samples
  <2>1. (Outstanding \subseteq Samples)'
    BY <1>1, OutstandingFinite, PTL
  <2> QED BY <1>2, <2>1 DEF Samples
<1>4. version' = version /\ version \in Nat
  BY <1>1, <1>2, VersionMoves DEF TypeInv, TypeOK, TrainerOK
<1>5. tag[s] = version
  <2>1. CASE s \in Finished
    BY <1>1, <2>1 DEF AllInv, OnPolicyInv, TagsDone, Finished
  <2>2. CASE TaskEnd(s) /\ Completes(s)
    <3>1. task[s] = "gen"
      BY <2>2 DEF Completes
    <3>2. tag[s] # NoVersion
      BY <1>3, <3>1 DEF AllInv, OnPolicyInv, TagsStarted
    <3>3. s \in Outstanding
      BY <1>3, <3>1 DEF Outstanding, Running
    <3> QED BY <1>1, <3>2, <3>3 DEF AllInv, OnPolicyInv, TagsFlying
  <2> QED BY <2>1, <2>2, FinishedMoves
<1>6. tag'[s] = tag[s]
  BY <1>3, <1>4, <1>5, TagMoves DEF NoVersion
<1> QED BY <1>4, <1>5, <1>6

LEMMA TagsUsedStep ==
  ASSUME AllInv, [Next]_vars, Synchronous
  PROVE  TagsUsed'
<1> SUFFICES ASSUME Training', NEW s \in ToSet(batch') PROVE tag'[s] = version'
  BY DEF TagsUsed
<1>1. /\ TypeInv /\ TypeInv' /\ ~Over' /\ ~Over /\ TagsUsed
  BY TypeInvStep, OverStays DEF AllInv, StreamInv, FlowInv, OnPolicyInv, Over, Training
<1>2. version' = version /\ version \in Nat /\ batch \in Seq(Samples)
  BY <1>1, VersionMoves DEF TypeInv, TypeOK, TrainerOK
<1>3. CASE Training /\ s \in ToSet(batch)
  <2>1. tag[s] = version /\ s \in Samples
    BY <1>1, <1>2, <1>3, ToSetSize DEF TagsUsed
  <2>2. tag'[s] = tag[s]
    BY <1>2, <2>1, TagMoves DEF NoVersion
  <2> QED BY <1>2, <2>1, <2>2
<1>4. CASE TrainerGetsValidation
  <2>1. ToSet(batch') = {}
    BY <1>4, EmptyToSet DEF TrainerGetsValidation
  <2> QED BY <2>1
<1>5. CASE TrainerGetsSample
  <2> DEFINE h == Head(mq)
  <2>1. h # Sentinel /\ batch' = Append(batch, h) /\ Training /\ mq # <<>> /\ UNCHANGED tag
    BY <1>1, <1>5 DEF TrainerGetsSample, Over, Training
  <2>2. h \in Samples /\ h \in ToSet(mq)
    <3>1. mq \in Seq(Samples \cup {Sentinel})
      BY <1>1 DEF TypeInv, TypeOK, QueueOK
    <3> QED BY <2>1, <3>1, TailToSet, HeadTailProperties
  <2> HIDE DEF h
  <2>3. ToSet(batch') = ToSet(batch) \cup {h}
    BY <1>2, <2>1, <2>2, AppendToSet
  <2>4. tag[h] = version
    <3>1. h \in Real(ToSet(mq))
      BY <2>1, <2>2 DEF Real, Sentinel
    <3> QED BY <1>1, <3>1 DEF AllInv, OnPolicyInv, TagsDone
  <2> QED BY <1>2, <1>3, <2>1, <2>3, <2>4
<1>6. CASE TrainerTrains \/ TrainerEnds \/ TrainerLogsLast
  BY <1>6 DEF TrainerTrains, TrainerEnds, TrainerLogsLast, Training
<1>7. CASE Sync
  <2>1. Training /\ batch' = batch
    BY <1>7 DEF Sync, SyncStarts, SyncBroadcasts, SyncReturns, Training, trainVars
  <2> QED BY <1>3, <2>1
<1>8. CASE UNCHANGED <<trainVars, syncPc>>
  BY <1>3, <1>8 DEF trainVars, Training
<1> QED BY <1>4, <1>5, <1>6, <1>7, <1>8, TrainerFrame DEF Train

LEMMA AllInvStep == Synchronous /\ AllInv /\ [Next]_vars => AllInv'
<1> SUFFICES ASSUME Synchronous, AllInv, [Next]_vars PROVE AllInv'
  OBVIOUS
<1>1. StreamInv' /\ ValInv' /\ SyncOrder'
  BY StreamInvStep, ValInvStep, SyncOrderStep DEF AllInv
<1>2. OnPolicyInv'
  BY BudgetStep, GetBudgetStep, DryStep, WaitsDryStep, FailedTasksStep, EndRoomStep, BatchFitsStep,
     TagsNoneStep, TagsStartedStep, TagsFlyingStep, TagsDoneStep, TagsUsedStep, DropsNone
     DEF OnPolicyInv
<1> QED BY <1>1, <1>2 DEF AllInv

LEMMA AllInvInit == Init => AllInv
<1> SUFFICES ASSUME Init PROVE AllInv
  OBVIOUS
<1>1. StreamInv /\ ValInv /\ SyncOrder
  BY StreamInvInit, ValInvInit DEF Init, SyncOrder
<1>2. FlowInv /\ Outstanding = {} /\ Cardinality(Outstanding) = 0 /\ Left = 0
  <2>1. fed = 0 /\ Len(pending) = 0
    BY DEF Init
  <2>2. Left = 0
    BY <2>1 DEF Left
  <2> QED BY <2>2, FlowInvInit, FS_EmptySet
<1>3. Cardinality(failures) = 0 /\ failures = {}
  BY FS_EmptySet DEF Init
<1>4. UsedNow = 0
  <2>1. localStep = 1 /\ ~Training /\ Required \in Nat
    BY ConfigAssumption DEF Init, Training
  <2>2. (localStep - 1) * Required = 0
    BY <2>1
  <2> QED BY <2>1, <2>2 DEF UsedNow
<1>5. Budget /\ GetBudget /\ Dry /\ WaitsDry
  <2>1. /\ trainer = "start" /\ updatePc = "idle" /\ pausePc = "idle" /\ syncPc = "idle"
        /\ proc = "check" /\ staleness = 0
    BY DEF Init
  <2>2. Budget
    BY <1>2, <1>3, <1>4, <2>1, QueueRoom DEF Budget
  <2> QED BY <1>2, <2>1, <2>2 DEF GetBudget, Dry, Resetting, WaitsDry
<1>6. FailedTasks /\ TagsNone /\ TagsStarted
  BY DEF Init, FailedTasks, TagsNone, TagsStarted
<1>7. EndRoom /\ BatchFits /\ mqDropped = {} /\ TagsUsed
  BY DEF Init, EndRoom, AtFinish, BatchFits, TagsUsed, Training
<1>8. TagsFlying /\ TagsDone
  BY <1>2 DEF TagsFlying, TagsDone, Outstanding, Real
<1> QED BY <1>1, <1>5, <1>6, <1>7, <1>8 DEF AllInv, OnPolicyInv

(* With staleness_threshold = 0 the trainer uses samples of its current    *)
(* version only, whether or not rollouts are interrupted, and the message  *)
(* queue drops nothing: FullyAsync's OnPolicy.                             *)
THEOREM SynchronousOnPolicy ==
  ASSUME Synchronous
  PROVE  Safe => []OnPolicy
<1>1. AllInv => OnPolicy
  <2> SUFFICES ASSUME AllInv PROVE OnPolicy
    OBVIOUS
  <2>1. version \in Nat /\ TagsUsed /\ mqDropped = {}
    BY DEF AllInv, StreamInv, FlowInv, TypeInv, TypeOK, TrainerOK, OnPolicyInv
  <2>2. ASSUME Training, NEW s \in ToSet(batch) PROVE VersionsBehind(s) = 0
    BY <2>1, <2>2 DEF TagsUsed, VersionsBehind
  <2> QED BY <2>1, <2>2 DEF OnPolicy
<1>2. AllInv /\ [Next]_vars => AllInv'
  BY AllInvStep
<1> QED BY <1>1, <1>2, AllInvInit, PTL DEF Safe

(* With staleness_threshold = 0 the documented bound on what is generated  *)
(* between two updates holds, which it does not otherwise: FullyAsync's    *)
(* StalenessThreshold.                                                     *)
THEOREM SynchronousThreshold ==
  ASSUME Synchronous
  PROVE  Safe => []StalenessThreshold
<1>1. AllInv => StalenessThreshold
  <2> SUFFICES ASSUME AllInv PROVE Cardinality(Outstanding \ {hand}) <= MaxRequired
    BY DEF StalenessThreshold
  <2> DEFINE out == Cardinality(Outstanding)
             fail == Cardinality(failures)
  <2>1. TypeInv /\ StreamInv
    BY DEF AllInv, StreamInv, FlowInv
  <2>2. /\ IsFiniteSet(Outstanding) /\ out \in Nat /\ fail \in Nat /\ UsedNow \in Nat
        /\ staleness \in Nat /\ MaxRequired \in Nat
    BY <2>1, OutstandingFinite, FailuresFinite, UsedNat, QueueRoom DEF TypeInv, TypeOK, FlagsOK
  <2>3. Cardinality(Outstanding \ {hand}) \in Nat /\ Cardinality(Outstanding \ {hand}) <= out
    BY <2>2, FS_Subset, FS_CardinalityType
  <2>4. CASE Over
    BY <2>1, <2>2, <2>3, <2>4, OverEnded DEF AllInv, OnPolicyInv, EndRoom, AtFinish
  <2>5. CASE ~Over
    <3>1. out + UsedNow + fail <= staleness /\ staleness <= MaxRequired
      BY <2>5 DEF AllInv, OnPolicyInv, Budget
    <3> HIDE DEF out, fail
    <3>2. out <= MaxRequired
      BY <2>2, <3>1
    <3> QED BY <2>2, <2>3, <3>2
  <2> QED BY <2>4, <2>5
<1>2. AllInv /\ [Next]_vars => AllInv'
  BY AllInvStep
<1> QED BY <1>1, <1>2, AllInvInit, PTL DEF Safe
=============================================================================
