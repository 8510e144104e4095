---------------------------- MODULE MessageQueue ----------------------------
(***************************************************************************)
(* The MessageQueue actor of recipe/fully_async_policy/message_queue.py    *)
(* and the calls its clients make to it.                                   *)
(*                                                                         *)
(* The actor is one asyncio event loop.  Every method runs under _lock and *)
(* never suspends while it holds it, except get_sample, whose wait() on    *)
(* _consumer_condition gives the lock back.  Each method is therefore one  *)
(* atomic action, and get_sample is two: the call, and the resumption of a *)
(* waiter that notify_all woke.  A remote call that was sent but not yet   *)
(* executed may be overtaken by any other (max_concurrency=20).            *)
(*                                                                         *)
(* A sample is represented by its production number: the value that        *)
(* total_produced has when put_sample returns.  A validation record is     *)
(* represented in the same way.                                            *)
(***************************************************************************)
EXTENDS Integers, Sequences

CONSTANTS Clients,       \* the coroutines and processes that call the actor
          MaxQueueSize,  \* max_queue_size
          MaxPuts,       \* bound: how many samples are put
          MaxValidations, \* bound: how many validation records are put
          MaxVersion,    \* bound: the largest parameter version announced
          Requests       \* the methods the clients of the instance call

Ops == {"put", "get", "update", "clear", "shutdown", "putVal", "getVal"}

(* rollouter.get_max_queue_size() is max_required_samples, a product of    *)
(* factors that the configuration asserts to be positive.                  *)
ASSUME QueueAssumption == /\ MaxQueueSize \in Nat \ {0}
                          /\ MaxPuts \in Nat /\ MaxValidations \in Nat
                          /\ MaxVersion \in Nat
                          /\ Requests \subseteq Ops

VARIABLES
  queue,           \* self.queue, oldest sample first
  valQueue,        \* self.val_queue
  running,         \* self.running
  paramVersion,    \* self.current_param_version
  totalProduced,   \* self.total_produced
  totalConsumed,   \* self.total_consumed
  droppedSamples,  \* self.dropped_samples
  cleared,         \* how many samples clear_queue threw away
  valProduced,     \* how many validation records were put
  call,            \* the call each client is waiting for
  reply            \* what the client's last call returned

vars == <<queue, valQueue, running, paramVersion, totalProduced,
          totalConsumed, droppedSamples, cleared, valProduced, call, reply>>

(* "sent": not executed yet.  "wait": suspended in condition.wait().       *)
(* "woken": notified, about to look at the queue again.                    *)
Idle == [op |-> "none", st |-> "idle"]
Calls == [op : Ops, st : {"sent", "wait", "woken"}] \cup {Idle}

(* Replies are numbers: a sample, 0 for None, 1 or 0 for True or False.    *)
NoSample == 0
Truth(b) == IF b THEN 1 ELSE 0

Sent(c, op) == call[c] = [op |-> op, st |-> "sent"]
Waiting(c)  == call[c] = [op |-> "get", st |-> "wait"]
Getting(c)  == call[c] \in [op : {"get"}, st : {"sent", "wait", "woken"}]

-----------------------------------------------------------------------------
Init ==
  /\ queue = <<>> /\ valQueue = <<>>
  /\ running = TRUE
  /\ paramVersion = 0
  /\ totalProduced = 0 /\ totalConsumed = 0 /\ droppedSamples = 0
  /\ cleared = 0 /\ valProduced = 0
  /\ call = [c \in Clients |-> Idle]
  /\ reply = [c \in Clients |-> NoSample]

(* A client sends a request and awaits the answer before it sends another. *)
Call(c, op) ==
  /\ call[c] = Idle
  /\ call' = [call EXCEPT ![c] = [op |-> op, st |-> "sent"]]
  /\ reply' = [reply EXCEPT ![c] = NoSample]
  /\ UNCHANGED <<queue, valQueue, running, paramVersion, totalProduced,
                 totalConsumed, droppedSamples, cleared, valProduced>>

(* Mutant: condition.notify() in place of notify_all().                    *)
ReturnNotifyingOne(c, r, notify) ==
  /\ IF notify /\ \E d \in Clients \ {c} : Waiting(d)
       THEN \E d \in Clients \ {c} :
              /\ Waiting(d)
              /\ call' = [call EXCEPT ![c] = Idle, ![d].st = "woken"]
       ELSE call' = [call EXCEPT ![c] = Idle]
  /\ reply' = [reply EXCEPT ![c] = r]

(* c's call returns r; notify tells whether notify_all was called.         *)
Return(c, r, notify) ==
  /\ call' = [d \in Clients |->
                IF d = c THEN Idle
                ELSE IF notify /\ Waiting(d)
                     THEN [op |-> "get", st |-> "woken"]
                ELSE call[d]]
  /\ reply' = [reply EXCEPT ![c] = r]

(* put_sample: a full queue loses its oldest sample to the new one.        *)
Full == Len(queue) >= MaxQueueSize

KeptOldest == IF Full THEN SubSeq(queue, 1, Len(queue) - 1)
                      ELSE queue                  \* mutant: pop()
Kept == IF Full THEN Tail(queue) ELSE queue

DropsUncounted == 0                               \* mutant: not counted
Drops == IF Full THEN 1 ELSE 0

PutSample(c) ==
  /\ Sent(c, "put")
  /\ totalProduced < MaxPuts
  /\ queue' = Append(Kept, totalProduced + 1)
  /\ droppedSamples' = droppedSamples + Drops
  /\ totalProduced' = totalProduced + 1
  /\ Return(c, Truth(~Full), TRUE)
  /\ UNCHANGED <<valQueue, running, paramVersion, totalConsumed, cleared,
                 valProduced>>

(* The body of get_sample from the test of its while loop on: suspend,     *)
(* return None, or hand out the oldest sample.                             *)
GetSampleBody(c) ==
  \/ /\ queue = <<>> /\ running
     /\ call' = [call EXCEPT ![c] = [op |-> "get", st |-> "wait"]]
     /\ UNCHANGED <<queue, totalConsumed, reply>>
  \/ /\ queue = <<>> /\ ~running
     /\ Return(c, NoSample, FALSE)
     /\ UNCHANGED <<queue, totalConsumed>>
  \/ /\ queue # <<>>
     /\ queue' = Tail(queue)
     /\ totalConsumed' = totalConsumed + 1
     /\ Return(c, Head(queue), FALSE)

GetSample(c) ==
  /\ Sent(c, "get")
  /\ GetSampleBody(c)
  /\ UNCHANGED <<valQueue, running, paramVersion, totalProduced,
                 droppedSamples, cleared, valProduced>>

(* Mutant: "if" in place of "while" around condition.wait().               *)
GetSampleWokenOnce(c) ==
  /\ call[c] = [op |-> "get", st |-> "woken"]
  /\ IF queue # <<>>
       THEN GetSampleBody(c)
       ELSE Return(c, NoSample, FALSE) /\ UNCHANGED <<queue, totalConsumed>>
  /\ UNCHANGED <<valQueue, running, paramVersion, totalProduced,
                 droppedSamples, cleared, valProduced>>

GetSampleWoken(c) ==
  /\ call[c] = [op |-> "get", st |-> "woken"]
  /\ GetSampleBody(c)
  /\ UNCHANGED <<valQueue, running, paramVersion, totalProduced,
                 droppedSamples, cleared, valProduced>>

UpdateParamVersion(c) ==
  /\ Sent(c, "update")
  /\ \E v \in 0 .. MaxVersion : paramVersion' = v
  /\ Return(c, NoSample, FALSE)
  /\ UNCHANGED <<queue, valQueue, running, totalProduced, totalConsumed,
                 droppedSamples, cleared, valProduced>>

ClearQueue(c) ==
  /\ Sent(c, "clear")
  /\ queue' = <<>>
  /\ cleared' = cleared + Len(queue)
  /\ Return(c, NoSample, FALSE)
  /\ UNCHANGED <<valQueue, running, paramVersion, totalProduced,
                 totalConsumed, droppedSamples, valProduced>>

Shutdown(c) ==
  /\ Sent(c, "shutdown")
  /\ running' = FALSE
  /\ Return(c, NoSample, TRUE)
  /\ UNCHANGED <<queue, valQueue, paramVersion, totalProduced,
                 totalConsumed, droppedSamples, cleared, valProduced>>

PutValidate(c) ==
  /\ Sent(c, "putVal")
  /\ valProduced < MaxValidations
  /\ valQueue' = Append(valQueue, valProduced + 1)
  /\ valProduced' = valProduced + 1
  /\ Return(c, NoSample, FALSE)
  /\ UNCHANGED <<queue, running, paramVersion, totalProduced, totalConsumed,
                 droppedSamples, cleared>>

(* get_validate never waits: it returns None when there is no record.      *)
GetValidate(c) ==
  /\ Sent(c, "getVal")
  /\ \/ /\ valQueue = <<>>
        /\ Return(c, NoSample, FALSE)
        /\ UNCHANGED valQueue
     \/ /\ valQueue # <<>>
        /\ valQueue' = Tail(valQueue)
        /\ Return(c, Head(valQueue), FALSE)
  /\ UNCHANGED <<queue, running, paramVersion, totalProduced, totalConsumed,
                 droppedSamples, cleared, valProduced>>

Execute(c) ==
  \/ PutSample(c) \/ GetSample(c) \/ GetSampleWoken(c)
  \/ UpdateParamVersion(c) \/ ClearQueue(c) \/ Shutdown(c)
  \/ PutValidate(c) \/ GetValidate(c)

Next == \E c \in Clients : Execute(c) \/ \E op \in Requests : Call(c, op)

(* The event loop runs every coroutine that is ready; nothing obliges a    *)
(* client to call.                                                         *)
Fairness == \A c \in Clients : WF_vars(Execute(c))

Spec == Init /\ [][Next]_vars /\ Fairness

-----------------------------------------------------------------------------
(* The state is of the declared shape, and the deque never exceeds maxlen. *)
TypeOK ==
  /\ queue \in Seq(Nat) /\ Len(queue) <= MaxQueueSize
  /\ valQueue \in Seq(Nat)
  /\ running \in BOOLEAN
  /\ paramVersion \in 0 .. MaxVersion
  /\ totalProduced \in 0 .. MaxPuts
  /\ totalConsumed \in Nat /\ droppedSamples \in Nat
  /\ cleared \in Nat
  /\ valProduced \in 0 .. MaxValidations
  /\ call \in [Clients -> Calls]
  /\ reply \in [Clients -> Nat]

(* Every sample that was produced is in the queue, was consumed, was       *)
(* dropped by a put_sample on a full queue or was thrown away by           *)
(* clear_queue: the four counters of get_statistics add up.                *)
SamplesConserved ==
  totalProduced = totalConsumed + droppedSamples + cleared + Len(queue)

(* q ends with number n and has no gap.                                    *)
Recent(q, n) == \A i \in 1 .. Len(q) : q[i] = n - Len(q) + i

(* The queue holds exactly the most recent samples, oldest first: whatever *)
(* left it, left in production order.                                      *)
MostRecentInOrder ==
  Recent(queue, totalProduced) /\ Recent(valQueue, valProduced)

(* No lost wakeup: a consumer sleeps on the condition only while there is  *)
(* nothing to take and the queue is open, although clear_queue, other      *)
(* consumers and shutdown all run between its notification and its retry.  *)
NoLostWakeup ==
  (\E c \in Clients : Waiting(c)) => queue = <<>> /\ running

(* A consumer is told None only when the queue is closed: what was put     *)
(* before shutdown is still handed out.                                    *)
NoneOnlyWhenClosed ==
  [][\A c \in Clients :
       (Getting(c) /\ call'[c] = Idle /\ reply'[c] = NoSample)
         => ~running /\ queue = <<>>]_vars

(* The actor implements the queue of DropOldestFifo: its lock, condition,  *)
(* wakeups and retries are invisible to its clients, and as long as it has *)
(* a sample or is closed somebody who asks is served.                      *)
Fifo == INSTANCE DropOldestFifo
          WITH Capacity <- MaxQueueSize, items <- queue,
               made <- totalProduced, open <- running,
               asking <- {c \in Clients : Getting(c)}

ImplementsFifo == Fifo!Spec
=============================================================================
