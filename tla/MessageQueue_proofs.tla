------------------------- MODULE MessageQueue_proofs -------------------------
(***************************************************************************)
(* Proofs about the MessageQueue actor, for any clients, any size of the   *)
(* queue and any number of samples.                                        *)
(***************************************************************************)
EXTENDS MessageQueue, SequenceTheorems, TLAPS

USE QueueAssumption

-----------------------------------------------------------------------------
(* A queue without gaps has none after its oldest item was taken ...       *)
LEMMA TailRecent ==
  ASSUME NEW q \in Seq(Nat), NEW n \in Nat, q # <<>>
  PROVE  /\ Tail(q) \in Seq(Nat) /\ Len(Tail(q)) = Len(q) - 1
         /\ Head(q) \in Nat /\ Len(q) \in Nat \ {0}
         /\ Head(q) = q[1]
         /\ Recent(q, n) => Recent(Tail(q), n)
<1>1. /\ Tail(q) \in Seq(Nat) /\ Len(Tail(q)) = Len(q) - 1
      /\ Head(q) \in Nat /\ Len(q) \in Nat \ {0} /\ Head(q) = q[1]
      /\ \A i \in 1 .. Len(Tail(q)) : Tail(q)[i] = q[i + 1]
  BY HeadTailProperties, EmptySeq, LenProperties
<1>2. ASSUME Recent(q, n), NEW i \in 1 .. Len(Tail(q))
      PROVE  Tail(q)[i] = n - Len(Tail(q)) + i
  <2>1. i + 1 \in 1 .. Len(q)
    BY <1>1
  <2>2. q[i + 1] = n - Len(q) + (i + 1)
    BY <1>2, <2>1 DEF Recent
  <2> QED BY <1>1, <2>2
<1> QED BY <1>1, <1>2 DEF Recent

(* ... or the next one was put.                                            *)
LEMMA AppendRecent ==
  ASSUME NEW q \in Seq(Nat), NEW n \in Nat
  PROVE  /\ Append(q, n + 1) \in Seq(Nat)
         /\ Len(Append(q, n + 1)) = Len(q) + 1
         /\ Len(q) \in Nat
         /\ Recent(q, n) => Recent(Append(q, n + 1), n + 1)
<1>1. /\ Append(q, n + 1) \in Seq(Nat)
      /\ Len(Append(q, n + 1)) = Len(q) + 1 /\ Len(q) \in Nat
      /\ \A i \in 1 .. Len(q) : Append(q, n + 1)[i] = q[i]
      /\ Append(q, n + 1)[Len(q) + 1] = n + 1
  BY AppendProperties, LenProperties
<1>2. ASSUME Recent(q, n), NEW i \in 1 .. Len(q) + 1
      PROVE  Append(q, n + 1)[i] = n + 1 - (Len(q) + 1) + i
  <2>1. CASE i = Len(q) + 1
    BY <1>1, <2>1
  <2>2. CASE i \in 1 .. Len(q)
    <3>1. q[i] = n - Len(q) + i
      BY <1>2, <2>2 DEF Recent
    <3> QED BY <1>1, <2>2, <3>1
  <2> QED BY <1>1, <2>1, <2>2
<1> QED BY <1>1, <1>2 DEF Recent

(* What put_sample keeps leaves room for one sample more.                  *)
LEMMA KeptProperties ==
  ASSUME TypeOK
  PROVE  /\ Kept \in Seq(Nat) /\ Len(Kept) < MaxQueueSize
         /\ Len(Kept) = Len(queue) - Drops
         /\ Recent(queue, totalProduced) => Recent(Kept, totalProduced)
<1>1. queue \in Seq(Nat) /\ Len(queue) \in Nat /\ totalProduced \in Nat
  BY LenProperties DEF TypeOK
<1>2. CASE Full
  <2>1. queue # <<>>
    BY <1>1, <1>2, EmptySeq DEF Full
  <2> QED BY <1>1, <1>2, <2>1, TailRecent DEF Full, Kept, Drops, TypeOK
<1>3. CASE ~Full
  BY <1>1, <1>3 DEF Full, Kept, Drops, TypeOK
<1> QED BY <1>2, <1>3

-----------------------------------------------------------------------------
(* Returning to a client keeps the table of calls well formed.             *)
LEMMA ReturnType ==
  ASSUME TypeOK, NEW c \in Clients, NEW r \in Nat, NEW notify \in BOOLEAN,
         Return(c, r, notify)
  PROVE  call' \in [Clients -> Calls] /\ reply' \in [Clients -> Nat]
<1>1. \A d \in Clients : call'[d] \in Calls
  BY DEF TypeOK, Return, Calls, Idle, Ops, Waiting
<1>2. call' \in [Clients -> Calls]
  BY <1>1 DEF Return
<1> QED BY <1>2 DEF TypeOK, Return

(* What get_sample does to the queue is the same for a new and for a woken *)
(* consumer.                                                               *)
LEMMA GetSampleBodyType ==
  ASSUME TypeOK, NEW c \in Clients, GetSampleBody(c)
  PROVE  /\ queue' \in Seq(Nat) /\ Len(queue') <= MaxQueueSize
         /\ totalConsumed' \in Nat
         /\ call' \in [Clients -> Calls] /\ reply' \in [Clients -> Nat]
<1>1. CASE queue = <<>> /\ running
  <2>1. [op |-> "get", st |-> "wait"] \in Calls
    BY DEF Calls, Ops
  <2> QED BY <1>1, <2>1 DEF GetSampleBody, TypeOK
<1>2. CASE queue = <<>> /\ ~running
  BY <1>2, ReturnType DEF GetSampleBody, TypeOK, NoSample
<1>3. CASE queue # <<>>
  <2>1. Head(queue) \in Nat /\ Tail(queue) \in Seq(Nat)
        /\ Len(Tail(queue)) = Len(queue) - 1
    BY <1>3 DEF TypeOK
  <2>2. /\ Return(c, Head(queue), FALSE)
        /\ queue' = Tail(queue) /\ totalConsumed' = totalConsumed + 1
    BY <1>3 DEF GetSampleBody
  <2>3. call' \in [Clients -> Calls] /\ reply' \in [Clients -> Nat]
    BY <2>1, <2>2, ReturnType
  <2> QED BY <2>1, <2>2, <2>3 DEF TypeOK
<1> QED BY <1>1, <1>2, <1>3 DEF TypeOK

(* get_sample takes the oldest sample or changes nothing but the caller.   *)
LEMMA GetSampleQueue ==
  ASSUME NEW c \in Clients, GetSample(c) \/ GetSampleWoken(c)
  PROVE  /\ \/ queue # <<>> /\ queue' = Tail(queue)
                /\ totalConsumed' = totalConsumed + 1
            \/ UNCHANGED <<queue, totalConsumed>>
         /\ UNCHANGED <<valQueue, running, paramVersion, totalProduced,
                        droppedSamples, cleared, valProduced>>
BY DEF GetSample, GetSampleWoken, GetSampleBody

(* The queue never exceeds maxlen and every field keeps its type.          *)
THEOREM TypeCorrect == Spec => []TypeOK
<1>1. Init => TypeOK
  BY DEF Init, TypeOK, Calls, Idle, NoSample
<1>2. TypeOK /\ [Next]_vars => TypeOK'
  <2> SUFFICES ASSUME TypeOK, [Next]_vars PROVE TypeOK'
    OBVIOUS
  <2>1. ASSUME NEW c \in Clients, NEW op \in Requests, Call(c, op)
        PROVE  TypeOK'
    <3>1. [op |-> op, st |-> "sent"] \in Calls
      BY DEF Calls
    <3> QED BY <2>1, <3>1 DEF Call, TypeOK, NoSample
  <2>2. ASSUME NEW c \in Clients, PutSample(c) PROVE TypeOK'
    <3>1. totalProduced \in Nat
      BY DEF TypeOK
    <3>2. queue' \in Seq(Nat) /\ Len(queue') <= MaxQueueSize
      BY <2>2, <3>1, KeptProperties, AppendRecent DEF PutSample
    <3>3. Truth(~Full) \in Nat /\ Drops \in Nat
      BY DEF Truth, Drops
    <3>4. call' \in [Clients -> Calls] /\ reply' \in [Clients -> Nat]
      BY <2>2, <3>3, ReturnType DEF PutSample
    <3> QED BY <2>2, <3>2, <3>3, <3>4 DEF PutSample, TypeOK
  <2>3. ASSUME NEW c \in Clients, GetSample(c) PROVE TypeOK'
    BY <2>3, GetSampleBodyType DEF GetSample, TypeOK
  <2>4. ASSUME NEW c \in Clients, GetSampleWoken(c) PROVE TypeOK'
    BY <2>4, GetSampleBodyType DEF GetSampleWoken, TypeOK
  <2>5. ASSUME NEW c \in Clients, UpdateParamVersion(c) PROVE TypeOK'
    <3>1. Return(c, NoSample, FALSE)
      BY <2>5 DEF UpdateParamVersion
    <3>2. call' \in [Clients -> Calls] /\ reply' \in [Clients -> Nat]
      BY <3>1, ReturnType DEF NoSample
    <3> QED BY <2>5, <3>2 DEF UpdateParamVersion, TypeOK
  <2>6. ASSUME NEW c \in Clients, ClearQueue(c) PROVE TypeOK'
    <3>1. Return(c, NoSample, FALSE)
      BY <2>6 DEF ClearQueue
    <3>2. call' \in [Clients -> Calls] /\ reply' \in [Clients -> Nat]
      BY <3>1, ReturnType DEF NoSample
    <3> QED BY <2>6, <3>2 DEF ClearQueue, TypeOK
  <2>7. ASSUME NEW c \in Clients, Shutdown(c) PROVE TypeOK'
    <3>1. Return(c, NoSample, TRUE)
      BY <2>7 DEF Shutdown
    <3>2. call' \in [Clients -> Calls] /\ reply' \in [Clients -> Nat]
      BY <3>1, ReturnType DEF NoSample
    <3> QED BY <2>7, <3>2 DEF Shutdown, TypeOK
  <2>8. ASSUME NEW c \in Clients, PutValidate(c) PROVE TypeOK'
    <3>1. Return(c, NoSample, FALSE)
      BY <2>8 DEF PutValidate
    <3>2. call' \in [Clients -> Calls] /\ reply' \in [Clients -> Nat]
      BY <3>1, ReturnType DEF NoSample
    <3> QED BY <2>8, <3>2 DEF PutValidate, TypeOK
  <2>9. ASSUME NEW c \in Clients, GetValidate(c) PROVE TypeOK'
    <3>1. CASE valQueue = <<>>
      <4>1. Return(c, NoSample, FALSE) /\ UNCHANGED valQueue
        BY <2>9, <3>1 DEF GetValidate
      <4>2. call' \in [Clients -> Calls] /\ reply' \in [Clients -> Nat]
        BY <4>1, ReturnType DEF NoSample
      <4> QED BY <2>9, <4>1, <4>2 DEF GetValidate, TypeOK
    <3>2. CASE valQueue # <<>>
      <4>1. Return(c, Head(valQueue), FALSE) /\ valQueue' = Tail(valQueue)
        BY <2>9, <3>2 DEF GetValidate
      <4>2. Head(valQueue) \in Nat /\ Tail(valQueue) \in Seq(Nat)
        BY <3>2 DEF TypeOK
      <4>3. call' \in [Clients -> Calls] /\ reply' \in [Clients -> Nat]
        BY <4>1, <4>2, ReturnType
      <4> QED BY <2>9, <4>1, <4>2, <4>3 DEF GetValidate, TypeOK
    <3> QED BY <3>1, <3>2
  <2>10. CASE UNCHANGED vars
    BY <2>10 DEF vars, TypeOK
  <2> QED
    BY <2>1, <2>2, <2>3, <2>4, <2>5, <2>6, <2>7, <2>8, <2>9, <2>10
       DEF Next, Execute
<1> QED BY <1>1, <1>2, PTL DEF Spec

-----------------------------------------------------------------------------
(* Every sample is accounted for by one of the counters of get_statistics  *)
(* or is in the queue.                                                     *)
THEOREM Conservation == Spec => []SamplesConserved
<1>1. Init => SamplesConserved
  BY DEF Init, SamplesConserved
<1>2. TypeOK /\ SamplesConserved /\ [Next]_vars => SamplesConserved'
  <2> SUFFICES ASSUME TypeOK, SamplesConserved, [Next]_vars
               PROVE  SamplesConserved'
    OBVIOUS
  <2> USE DEF TypeOK, SamplesConserved
  <2>1. ASSUME NEW c \in Clients, NEW op \in Requests, Call(c, op)
        PROVE  SamplesConserved'
    BY <2>1 DEF Call
  <2>2. ASSUME NEW c \in Clients, PutSample(c) PROVE SamplesConserved'
    <3>1. Len(Append(Kept, totalProduced + 1)) = Len(Kept) + 1
      BY KeptProperties, AppendRecent
    <3>2. Drops \in Nat /\ Len(queue) \in Nat
      BY LenProperties DEF Drops
    <3>3. Len(Kept) = Len(queue) - Drops /\ Len(Kept) \in Nat
      BY KeptProperties, LenProperties
    <3>4. /\ queue' = Append(Kept, totalProduced + 1)
          /\ droppedSamples' = droppedSamples + Drops
          /\ totalProduced' = totalProduced + 1
          /\ UNCHANGED <<totalConsumed, cleared>>
      BY <2>2 DEF PutSample
    <3>5. /\ totalProduced \in Nat /\ totalConsumed \in Nat
          /\ droppedSamples \in Nat /\ cleared \in Nat
      OBVIOUS
    <3> HIDE DEF TypeOK
    <3> QED BY <3>1, <3>2, <3>3, <3>4, <3>5
  <2>3. ASSUME NEW c \in Clients, GetSample(c) \/ GetSampleWoken(c)
        PROVE  SamplesConserved'
    <3>1. CASE UNCHANGED <<queue, totalConsumed>>
      BY <2>3, <3>1, GetSampleQueue
    <3>2. CASE queue # <<>> /\ queue' = Tail(queue)
               /\ totalConsumed' = totalConsumed + 1
      <4>1. Len(Tail(queue)) = Len(queue) - 1 /\ Len(queue) \in Nat
        BY <3>2, TailRecent, 0 \in Nat
      <4>2. UNCHANGED <<totalProduced, droppedSamples, cleared>>
        BY <2>3, GetSampleQueue
      <4> QED BY <3>2, <4>1, <4>2
    <3> QED BY <2>3, <3>1, <3>2, GetSampleQueue
  <2>4. ASSUME NEW c \in Clients, ClearQueue(c) PROVE SamplesConserved'
    BY <2>4, LenProperties, EmptySeq DEF ClearQueue
  <2>5. ASSUME NEW c \in Clients,
               \/ UpdateParamVersion(c) \/ Shutdown(c)
               \/ PutValidate(c) \/ GetValidate(c)
        PROVE  SamplesConserved'
    BY <2>5 DEF UpdateParamVersion, Shutdown, PutValidate, GetValidate
  <2>6. CASE UNCHANGED vars
    BY <2>6 DEF vars
  <2> QED BY <2>1, <2>2, <2>3, <2>4, <2>5, <2>6 DEF Next, Execute
<1> QED BY <1>1, <1>2, TypeCorrect, PTL DEF Spec

(* The queue holds the most recent samples in production order, and so     *)
(* does the queue of validation records.                                   *)
THEOREM Order == Spec => []MostRecentInOrder
<1>1. Init => MostRecentInOrder
  BY EmptySeq DEF Init, MostRecentInOrder, Recent
<1>2. TypeOK /\ MostRecentInOrder /\ [Next]_vars => MostRecentInOrder'
  <2> SUFFICES ASSUME TypeOK, MostRecentInOrder, [Next]_vars
               PROVE  MostRecentInOrder'
    OBVIOUS
  <2> USE DEF TypeOK, MostRecentInOrder
  <2>1. ASSUME NEW c \in Clients, NEW op \in Requests, Call(c, op)
        PROVE  MostRecentInOrder'
    BY <2>1 DEF Call
  <2>2. ASSUME NEW c \in Clients, PutSample(c) PROVE MostRecentInOrder'
    BY <2>2, KeptProperties, AppendRecent DEF PutSample
  <2>3. ASSUME NEW c \in Clients, GetSample(c) \/ GetSampleWoken(c)
        PROVE  MostRecentInOrder'
    <3>1. CASE UNCHANGED <<queue, totalConsumed>>
      BY <2>3, <3>1, GetSampleQueue
    <3>2. CASE queue # <<>> /\ queue' = Tail(queue)
               /\ totalConsumed' = totalConsumed + 1
      BY <2>3, <3>2, GetSampleQueue, TailRecent
    <3> QED BY <2>3, <3>1, <3>2, GetSampleQueue
  <2>4. ASSUME NEW c \in Clients, ClearQueue(c) PROVE MostRecentInOrder'
    BY <2>4, EmptySeq DEF ClearQueue, Recent
  <2>5. ASSUME NEW c \in Clients, UpdateParamVersion(c) \/ Shutdown(c)
        PROVE  MostRecentInOrder'
    BY <2>5 DEF UpdateParamVersion, Shutdown
  <2>6. ASSUME NEW c \in Clients, PutValidate(c) PROVE MostRecentInOrder'
    BY <2>6, AppendRecent DEF PutValidate
  <2>7. ASSUME NEW c \in Clients, GetValidate(c) PROVE MostRecentInOrder'
    <3>1. /\ \/ valQueue # <<>> /\ valQueue' = Tail(valQueue)
             \/ UNCHANGED valQueue
          /\ UNCHANGED <<queue, totalProduced, valProduced>>
      BY <2>7 DEF GetValidate
    <3>2. CASE valQueue # <<>> /\ valQueue' = Tail(valQueue)
      BY <3>1, <3>2, TailRecent
    <3> QED BY <3>1, <3>2
  <2>8. CASE UNCHANGED vars
    BY <2>8 DEF vars
  <2> QED
    BY <2>1, <2>2, <2>3, <2>4, <2>5, <2>6, <2>7, <2>8 DEF Next, Execute
<1> QED BY <1>1, <1>2, TypeCorrect, PTL DEF Spec

-----------------------------------------------------------------------------
(* A client that waits after a call returned waited before it, is not the  *)
(* one that returned and was not notified.                                 *)
LEMMA ReturnWaiting ==
  ASSUME TypeOK, NEW c \in Clients, NEW r, NEW notify \in BOOLEAN,
         Return(c, r, notify),
         NEW d \in Clients, Waiting(d)'
  PROVE  d # c /\ Waiting(d) /\ ~notify
BY DEF TypeOK, Return, Waiting, Idle

(* No consumer sleeps while there is a sample or the queue is closed.      *)
THEOREM Wakeup == Spec => []NoLostWakeup
<1>1. Init => NoLostWakeup
  BY DEF Init, NoLostWakeup, Waiting, Idle
<1>2. TypeOK /\ NoLostWakeup /\ [Next]_vars => NoLostWakeup'
  <2> SUFFICES ASSUME TypeOK, NoLostWakeup, [Next]_vars,
                      NEW d \in Clients, Waiting(d)'
               PROVE  queue' = <<>> /\ running'
    BY DEF NoLostWakeup
  <2>1. Waiting(d) => queue = <<>> /\ running
    BY DEF NoLostWakeup
  <2>2. ASSUME NEW c \in Clients, NEW op \in Requests, Call(c, op)
        PROVE  queue' = <<>> /\ running'
    BY <2>1, <2>2 DEF Call, Waiting, TypeOK
  <2>3. ASSUME NEW c \in Clients, NEW r, Return(c, r, TRUE)
        PROVE  FALSE
    BY <2>3, ReturnWaiting
  <2>4. ASSUME NEW c \in Clients, NEW r, Return(c, r, FALSE)
        PROVE  queue = <<>> /\ running
    BY <2>1, <2>4, ReturnWaiting
  <2>5. ASSUME NEW c \in Clients, PutSample(c) \/ Shutdown(c)
        PROVE  queue' = <<>> /\ running'
    BY <2>3, <2>5 DEF PutSample, Shutdown
  <2>6. ASSUME NEW c \in Clients, GetSample(c) \/ GetSampleWoken(c)
        PROVE  queue' = <<>> /\ running'
    <3>1. GetSampleBody(c) /\ running' = running
      BY <2>6 DEF GetSample, GetSampleWoken
    <3>2. CASE queue = <<>> /\ running
      BY <3>1, <3>2 DEF GetSampleBody
    <3>3. CASE queue = <<>> /\ ~running
      BY <3>1, <3>3, <2>4 DEF GetSampleBody
    <3>4. CASE queue # <<>>
      BY <3>1, <3>4, <2>4 DEF GetSampleBody
    <3> QED BY <3>2, <3>3, <3>4 DEF TypeOK
  <2>7. ASSUME NEW c \in Clients,
               \/ UpdateParamVersion(c) \/ ClearQueue(c)
               \/ PutValidate(c) \/ GetValidate(c)
        PROVE  queue' = <<>> /\ running'
    <3>1. \/ Return(c, NoSample, FALSE)
          \/ Return(c, Head(valQueue), FALSE)
      BY <2>7 DEF UpdateParamVersion, ClearQueue, PutValidate, GetValidate
    <3>2. (queue' = queue \/ queue' = <<>>) /\ running' = running
      BY <2>7 DEF UpdateParamVersion, ClearQueue, PutValidate, GetValidate
    <3> QED BY <2>4, <3>1, <3>2
  <2>8. CASE UNCHANGED vars
    BY <2>1, <2>8 DEF vars, Waiting
  <2> QED BY <2>2, <2>5, <2>6, <2>7, <2>8 DEF Next, Execute
<1> QED BY <1>1, <1>2, TypeCorrect, PTL DEF Spec

-----------------------------------------------------------------------------
(* The client a call returns to gets its reply; whoever else is in         *)
(* get_sample stays in it.                                                 *)
LEMMA ReturnGetting ==
  ASSUME TypeOK, NEW c \in Clients, NEW r, NEW notify \in BOOLEAN,
         Return(c, r, notify)
  PROVE  /\ call'[c] = Idle /\ reply'[c] = r
         /\ \A d \in Clients \ {c} : Getting(d)' <=> Getting(d)
         /\ ~Getting(c)'
BY DEF TypeOK, Return, Getting, Waiting, Idle

(* Samples are numbered from 1, so that no sample is taken for None.       *)
LEMMA HeadIsASample ==
  ASSUME TypeOK, SamplesConserved, MostRecentInOrder, queue # <<>>
  PROVE  Head(queue) # NoSample
<1>1. Head(queue) = queue[1] /\ Len(queue) \in Nat \ {0}
  BY TailRecent, 0 \in Nat DEF TypeOK
<1>2. queue[1] = totalProduced - Len(queue) + 1
  BY <1>1 DEF MostRecentInOrder, Recent
<1>3. totalProduced >= Len(queue)
  BY <1>1 DEF TypeOK, SamplesConserved
<1> QED BY <1>1, <1>2, <1>3 DEF NoSample, TypeOK

(* What a step does for a client in get_sample, and who may do it: this    *)
(* lists the cases once for the action property and for the refinement.    *)
LEMMA GettingStep ==
  ASSUME TypeOK, NEW c \in Clients, GetSample(c) \/ GetSampleWoken(c)
  PROVE  /\ Getting(c)
         /\ \A d \in Clients \ {c} : Getting(d)' <=> Getting(d)
         /\ \/ Getting(c)' /\ UNCHANGED queue
            \/ /\ ~Getting(c)' /\ queue = <<>> /\ ~running
               /\ UNCHANGED queue
            \/ /\ ~Getting(c)' /\ queue # <<>> /\ queue' = Tail(queue)
               /\ reply'[c] = Head(queue)
<1>1. Getting(c)
  BY DEF GetSample, GetSampleWoken, Getting, Sent
<1>2. GetSampleBody(c)
  BY DEF GetSample, GetSampleWoken
<1>3. CASE queue = <<>> /\ running
  BY <1>1, <1>2, <1>3 DEF GetSampleBody, Getting, TypeOK
<1>4. CASE queue = <<>> /\ ~running
  <2>1. Return(c, NoSample, FALSE) /\ UNCHANGED queue
    BY <1>2, <1>4 DEF GetSampleBody
  <2> QED BY <1>1, <1>4, <2>1, ReturnGetting
<1>5. CASE queue # <<>>
  <2>1. Return(c, Head(queue), FALSE) /\ queue' = Tail(queue)
    BY <1>2, <1>5 DEF GetSampleBody
  <2> QED BY <1>1, <1>5, <2>1, ReturnGetting
<1> QED BY <1>3, <1>4, <1>5 DEF TypeOK

(* Methods other than get_sample leave everybody in get_sample who was.    *)
LEMMA OtherStep ==
  ASSUME TypeOK, NEW c \in Clients,
         \/ PutSample(c) \/ UpdateParamVersion(c) \/ ClearQueue(c)
         \/ Shutdown(c) \/ PutValidate(c) \/ GetValidate(c)
  PROVE  \A d \in Clients : Getting(d)' <=> Getting(d)
<1>1. ~Getting(c)
  <2>1. \/ Sent(c, "put") \/ Sent(c, "update") \/ Sent(c, "clear")
        \/ Sent(c, "shutdown") \/ Sent(c, "putVal") \/ Sent(c, "getVal")
    BY DEF PutSample, UpdateParamVersion, ClearQueue, Shutdown, PutValidate,
           GetValidate
  <2> QED BY <2>1 DEF Sent, Getting
<1>2. \/ Return(c, Truth(~Full), TRUE) \/ Return(c, NoSample, TRUE)
      \/ Return(c, NoSample, FALSE) \/ Return(c, Head(valQueue), FALSE)
  BY DEF PutSample, UpdateParamVersion, ClearQueue, Shutdown, PutValidate,
         GetValidate
<1>3. /\ \A d \in Clients \ {c} : Getting(d)' <=> Getting(d)
      /\ ~Getting(c)'
  BY <1>2, ReturnGetting
<1> QED BY <1>1, <1>3

LEMMA CallStep ==
  ASSUME TypeOK, NEW c \in Clients, NEW op \in Requests, Call(c, op)
  PROVE  /\ ~Getting(c) /\ (Getting(c)' <=> op = "get")
         /\ \A d \in Clients \ {c} : Getting(d)' <=> Getting(d)
BY DEF TypeOK, Call, Getting, Idle

(* A consumer that is told None is told so by a closed and empty queue:    *)
(* what was put before shutdown() is handed out.                           *)
THEOREM NoneMeansClosed == Spec => NoneOnlyWhenClosed
<1>1. TypeOK /\ SamplesConserved /\ MostRecentInOrder /\ [Next]_vars
        => [\A c \in Clients :
              (Getting(c) /\ call'[c] = Idle /\ reply'[c] = NoSample)
                => ~running /\ queue = <<>>]_vars
  <2> SUFFICES ASSUME TypeOK, SamplesConserved, MostRecentInOrder, Next,
                      NEW d \in Clients,
                      Getting(d), call'[d] = Idle, reply'[d] = NoSample
               PROVE  ~running /\ queue = <<>>
    OBVIOUS
  <2>1. Getting(d) /\ ~Getting(d)'
    BY DEF Getting, Idle
  <2>2. ASSUME NEW c \in Clients, NEW op \in Requests, Call(c, op)
        PROVE  FALSE
    BY <2>1, <2>2, CallStep
  <2>3. PICK c \in Clients : GetSample(c) \/ GetSampleWoken(c)
    BY <2>1, <2>2, OtherStep DEF Next, Execute
  <2>4. c = d
    BY <2>1, <2>3, GettingStep
  <2>5. reply'[d] # Head(queue) \/ queue = <<>>
    BY HeadIsASample
  <2> QED BY <2>1, <2>3, <2>4, <2>5, GettingStep
<1> QED
  BY <1>1, TypeCorrect, Conservation, Order, PTL DEF Spec, NoneOnlyWhenClosed

-----------------------------------------------------------------------------
(* The actor implements the safety part of DropOldestFifo: every step is   *)
(* one of the queue's, or invisible.  (That the queue serves, its liveness *)
(* part, is model-checked.)                                                *)
THEOREM FifoRefinement == Spec => Fifo!Safe
<1> DEFINE asking == {c \in Clients : Getting(c)}
<1>1. Init => Fifo!Init
  <2> SUFFICES ASSUME Init PROVE Fifo!Init
    OBVIOUS
  <2>1. asking = {}
    BY DEF Init, Getting, Idle
  <2> QED BY <2>1 DEF Init, Fifo!Init
<1>2. TypeOK /\ [Next]_vars => [Fifo!Next]_(Fifo!vars)
  <2> SUFFICES ASSUME TypeOK, [Next]_vars
               PROVE  Fifo!Next \/ UNCHANGED Fifo!vars
    OBVIOUS
  <2>1. ASSUME NEW c \in Clients, NEW op \in Requests, Call(c, op)
        PROVE  Fifo!Next \/ UNCHANGED Fifo!vars
    <3>1. UNCHANGED <<queue, totalProduced, running>>
      BY <2>1 DEF Call
    <3>2. CASE op = "get"
      <4>1. c \notin asking /\ asking' = asking \cup {c}
        BY <2>1, <3>2, CallStep
      <4>2. Fifo!Ask(c)
        BY <3>1, <4>1 DEF Fifo!Ask
      <4> QED BY <4>2 DEF Fifo!Next
    <3>3. CASE op # "get"
      <4>1. asking' = asking
        BY <2>1, <3>3, CallStep
      <4> QED BY <3>1, <4>1 DEF Fifo!vars
    <3> QED BY <3>2, <3>3
  <2>2. ASSUME NEW c \in Clients, GetSample(c) \/ GetSampleWoken(c)
        PROVE  Fifo!Next \/ UNCHANGED Fifo!vars
    <3>1. UNCHANGED <<totalProduced, running>>
      BY <2>2, GetSampleQueue
    <3>2. CASE Getting(c)' /\ UNCHANGED queue
      <4>1. asking' = asking
        BY <2>2, <3>2, GettingStep
      <4> QED BY <3>1, <3>2, <4>1 DEF Fifo!vars
    <3>3. CASE ~Getting(c)' /\ queue = <<>> /\ ~running /\ UNCHANGED queue
      <4>1. c \in asking /\ asking' = asking \ {c}
        BY <2>2, <3>3, GettingStep
      <4>2. Fifo!TurnAway(c)
        BY <3>1, <3>3, <4>1 DEF Fifo!TurnAway
      <4> QED BY <4>2 DEF Fifo!Next, Fifo!Serve
    <3>4. CASE ~Getting(c)' /\ queue # <<>> /\ queue' = Tail(queue)
      <4>1. c \in asking /\ asking' = asking \ {c}
        BY <2>2, <3>4, GettingStep
      <4>2. Fifo!Take(c)
        BY <3>1, <3>4, <4>1 DEF Fifo!Take
      <4> QED BY <4>2 DEF Fifo!Next, Fifo!Serve
    <3> QED BY <2>2, <3>2, <3>3, <3>4, GettingStep
  <2>3. ASSUME NEW c \in Clients,
               \/ PutSample(c) \/ UpdateParamVersion(c) \/ ClearQueue(c)
               \/ Shutdown(c) \/ PutValidate(c) \/ GetValidate(c)
        PROVE  Fifo!Next \/ UNCHANGED Fifo!vars
    <3>1. asking' = asking
      BY <2>3, OtherStep
    <3>2. CASE PutSample(c)
      <4>1. Len(queue) \in Nat /\ Len(queue) <= MaxQueueSize
        BY LenProperties DEF TypeOK
      <4>2. Full <=> Len(queue) = MaxQueueSize
        BY <4>1 DEF Full
      <4>3. /\ queue' = Append(Kept, totalProduced + 1)
            /\ totalProduced' = totalProduced + 1 /\ UNCHANGED running
        BY <3>2 DEF PutSample
      <4>4. Fifo!Put
        BY <3>1, <4>2, <4>3 DEF Fifo!Put, Kept
      <4> QED BY <4>4 DEF Fifo!Next
    <3>3. CASE ClearQueue(c)
      BY <3>1, <3>3 DEF ClearQueue, Fifo!Next, Fifo!Clear
    <3>4. CASE Shutdown(c)
      BY <3>1, <3>4 DEF Shutdown, Fifo!Next, Fifo!Close
    <3>5. CASE UpdateParamVersion(c) \/ PutValidate(c) \/ GetValidate(c)
      BY <3>1, <3>5
         DEF UpdateParamVersion, PutValidate, GetValidate, Fifo!vars
    <3> QED BY <2>3, <3>2, <3>3, <3>4, <3>5
  <2>4. CASE UNCHANGED vars
    BY <2>4 DEF vars, Fifo!vars, Getting
  <2> QED BY <2>1, <2>2, <2>3, <2>4 DEF Next, Execute
<1> QED BY <1>1, <1>2, TypeCorrect, PTL DEF Spec, Fifo!Safe
=============================================================================
