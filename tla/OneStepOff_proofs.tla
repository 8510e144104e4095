-------------------------- MODULE OneStepOff_proofs --------------------------
(***************************************************************************)
(* Proofs about OneStepOffRayTrainer, for any number of steps, batches,    *)
(* epochs and launches of the job, and any configurations.                 *)
(***************************************************************************)
EXTENDS OneStepOff, SequenceTheorems, TLAPS

USE OneStepAssumption DEF NoBatch, Pending

-----------------------------------------------------------------------------
(* The dataloader: every launch has at most total_epochs epochs to draw    *)
(* from, so that a batch has a place in Batches.                           *)
Epochs == BatchesPerEpoch * TotalEpochs
Capacity(n) == Epochs * n

InTraining == {"overlap", "overlap_sync", "reward", "update"}

DrawnInBounds ==
  /\ TypeOK
  /\ drawn + left <= Capacity(launch)
  /\ checkpoint.drawn <= Capacity(launch)
  /\ pc \in InTraining => batch # NoBatch

(* More launches have room for more batches.                               *)
LEMMA CapacityMonotonic ==
  ASSUME NEW x \in Nat, NEW y \in Nat, x <= y
  PROVE  Capacity(x) <= Capacity(y) /\ Capacity(x) \in Nat /\ Capacity(y) \in Nat
BY DEF Capacity, Epochs

(* Batches of one more launch.                                             *)
LEMMA OneMoreLaunch ==
  ASSUME NEW n \in Nat, NEW rest \in 0 .. BatchesPerEpoch
  PROVE  /\ Capacity(n) \in Nat /\ Capacity(n + 1) \in Nat
         /\ BatchesPerEpoch * (TotalEpochs - 1) + rest \in Nat
         /\ Capacity(n) + (BatchesPerEpoch * (TotalEpochs - 1) + rest) <= Capacity(n + 1)
<1>1. BatchesPerEpoch * (TotalEpochs - 1) = Epochs - BatchesPerEpoch
  BY DEF Epochs
<1>2. Epochs * (n + 1) = Epochs * n + Epochs /\ Epochs \in Nat /\ Epochs * n \in Nat
  BY DEF Epochs
<1>3. BatchesPerEpoch * (TotalEpochs - 1) \in Nat
  OBVIOUS
<1> QED BY <1>1, <1>2, <1>3 DEF Capacity

-----------------------------------------------------------------------------
USE DEF group, loader, lineage

LEMMA InitDrawn == Init => DrawnInBounds
<1>1. BatchesPerEpoch \in 0 .. BatchesPerEpoch /\ Capacity(0) \in Nat
  BY CapacityMonotonic
<1> QED BY <1>1 DEF Init, DrawnInBounds, TypeOK, NoReward, Rows, InTraining

LEMMA NextDrawn == DrawnInBounds /\ [Next]_vars => DrawnInBounds'
<1> SUFFICES ASSUME DrawnInBounds, [Next]_vars PROVE DrawnInBounds'
  OBVIOUS
<1>0. /\ launch \in Nat /\ launch <= MaxLaunches /\ MaxLaunches \in Nat
      /\ checkpoint.rest \in 0 .. BatchesPerEpoch /\ Capacity(launch) \in Nat
      /\ checkpoint.drawn \in Nat /\ checkpoint.drawn <= Capacity(launch)
      /\ drawn \in Nat /\ left \in Nat /\ drawn + left <= Capacity(launch)
  BY CapacityMonotonic DEF DrawnInBounds, TypeOK
<1> USE DEF DrawnInBounds, TypeOK, InTraining
<1>1. CASE Launch
  <2> DEFINE more == BatchesPerEpoch * (TotalEpochs - 1) + checkpoint.rest
  <2>1. /\ more \in Nat /\ Capacity(launch) \in Nat
        /\ Capacity(launch) + more <= Capacity(launch + 1) /\ Capacity(launch + 1) \in Nat
    BY <1>0, OneMoreLaunch, CapacityMonotonic
  <2>2. /\ left' = more /\ drawn' = checkpoint.drawn /\ launch' = launch + 1
        /\ launch < MaxLaunches /\ checkpoint' = checkpoint
    BY <1>1 DEF Launch
  <2> HIDE DEF more, DrawnInBounds
  <2>3. left' \in Nat /\ drawn' \in Nat /\ launch' \in 0 .. MaxLaunches
        /\ drawn' + left' <= Capacity(launch') /\ checkpoint'.drawn <= Capacity(launch')
    BY <1>0, <2>1, <2>2
  <2>4. /\ trained' \in Seq(Batches) /\ resumes' \in Nat
        /\ actor' \in Nat /\ global_steps' \in Nat
    <3>1. checkpoint \in [step : Nat, actor : Nat, drawn : Nat, rest : 0 .. BatchesPerEpoch,
                          trained : Seq(Batches), resumes : Nat \cup {-1}]
      BY DEF DrawnInBounds
    <3>2. /\ trained' = checkpoint.trained /\ resumes' = checkpoint.resumes + 1
          /\ actor' = checkpoint.actor /\ global_steps' = checkpoint.step + 1
      BY <1>1 DEF Launch
    <3> HIDE DEF TypeOK
    <3> QED BY <3>1, <3>2
  <2>5. TypeOK'
    <3>1. reward' \in [batch : Batches \cup {NoBatch}, rows : Rows]
      BY <1>1 DEF Launch, NoReward, Rows
    <3>2. /\ made' \in [Batches -> Nat \cup {Pending}] /\ rewarded' = {}
          /\ calls' = <<>> /\ rollout' = 0
      BY <1>1 DEF Launch
    <3> QED BY <1>1, <2>3, <2>4, <3>1, <3>2 DEF Launch, DrawnInBounds
  <2> QED BY <1>1, <2>3, <2>5 DEF Launch, DrawnInBounds
<1>2. CASE Crash
  BY <1>2 DEF Crash
<1>3. CASE NoNextBatch
  BY <1>3 DEF NoNextBatch, Asking, AfterAsking
<1>4. CASE AskSync
  <2>1. Capacity(launch) <= Capacity(MaxLaunches) /\ Capacity(launch) \in Nat
        /\ Capacity(MaxLaunches) \in Nat
    BY <1>0, CapacityMonotonic
  <2>2. Batches = 1 .. Capacity(MaxLaunches)
    BY DEF Batches, Capacity, Epochs
  <2>3. drawn + 1 \in Batches
    BY <1>4, <2>1, <2>2 DEF AskSync
  <2> QED BY <1>4, <2>3, AppendProperties DEF AskSync, Asking
<1>5. CASE AskGenerate
  BY <1>5 DEF AskGenerate
<1>6. CASE Sync
  BY <1>6, HeadTailProperties DEF Sync, Served
<1>16. CASE Evaluate
  BY <1>16, HeadTailProperties DEF Evaluate, Served
<1>7. CASE Generate
  BY <1>7, HeadTailProperties DEF Generate, Served
<1>8. CASE RewardTasks
  BY <1>8 DEF RewardTasks, LaunchReward
<1>9. CASE Wait
  BY <1>9 DEF Wait
<1>10. CASE Reward
  BY <1>10 DEF Reward, RowsTrained, Rows
<1>11. CASE Update
  BY <1>11 DEF Update
<1>12. CASE Validate
  BY <1>12, AppendProperties DEF Validate
<1>17. CASE Validated
  BY <1>17 DEF Validated
<1>13. CASE Save
  <2>1. RestOfEpoch \in 0 .. BatchesPerEpoch
    BY DEF RestOfEpoch
  <2>2. /\ checkpoint'.drawn = drawn
        /\ checkpoint' \in [step : Nat, actor : Nat, drawn : Nat, rest : 0 .. BatchesPerEpoch,
                            trained : Seq(Batches), resumes : Nat \cup {-1}]
    BY <1>13, <2>1 DEF Save
  <2>3. drawn <= Capacity(launch)
    BY <1>0
  <2>4. TypeOK'
    BY <1>13, <2>2 DEF Save
  <2> QED BY <1>13, <2>2, <2>3, <2>4 DEF Save
<1>14. CASE NextStep
  <2>1. /\ global_steps' = global_steps + 1 /\ pc' = "wait" /\ job' \in {"running", "finished"}
        /\ UNCHANGED <<config, launch, actor, rollout, calls, made, rewarded, drawn, left, next>>
        /\ UNCHANGED <<batch, reward, trained, resumes, checkpoint>>
    BY <1>14 DEF NextStep
  <2> QED BY <2>1
<1>15. CASE UNCHANGED vars
  BY <1>15 DEF vars
<1> QED BY <1>1, <1>2, <1>3, <1>4, <1>5, <1>6, <1>7, <1>8, <1>9, <1>10, <1>11, <1>12, <1>13,
          <1>14, <1>15, <1>16, <1>17 DEF Next, Driver, RolloutGroup

(* Batches, futures and checkpoints keep their types: no launch draws more *)
(* batches than its epochs hold, though it starts in the middle of one.    *)
THEOREM TypeCorrect == Spec => []TypeOK
<1>1. Spec => []DrawnInBounds
  BY InitDrawn, NextDrawn, PTL DEF Spec
<1>2. DrawnInBounds => TypeOK
  BY DEF DrawnInBounds
<1> QED BY <1>1, <1>2, PTL

(* The last step of the non-temporal argument, used by every theorem.      *)
LEMMA AlwaysDrawn == Spec => []DrawnInBounds
BY InitDrawn, NextDrawn, PTL DEF Spec

-----------------------------------------------------------------------------
(* The batches in flight: at most the one in training and the one ahead of *)
(* it, which are the last ones drawn.                                      *)
Beginning == {"val_before_train", "validating_before", "prime"}
InStep == {"reward", "update", "validate", "validating", "save", "next"}
Ahead == IF next # NoBatch /\ next # batch THEN 1 ELSE 0
Current == IF pc \in InTraining THEN 1 ELSE 0

Flight == job = "running" =>
  /\ pc # "init"
  /\ next # NoBatch => next = drawn
  /\ pc \in Beginning => next = NoBatch /\ batch = NoBatch
  /\ pc = "prime_sync" => next # NoBatch /\ batch = NoBatch
  /\ pc = "wait" /\ next # NoBatch => next # batch
  /\ pc = "overlap" => next = batch
  /\ pc = "overlap_sync" => next # NoBatch /\ next # batch
  /\ pc \in {"overlap", "overlap_sync"} => ~IsLastStep
  /\ pc \in InStep => (IF IsLastStep THEN next = batch ELSE next # batch)
  /\ pc \in InTraining => batch = drawn - Ahead

LEMMA NextFlight == DrawnInBounds /\ Flight /\ [Next]_vars => Flight'
<1> SUFFICES ASSUME DrawnInBounds, Flight, [Next]_vars PROVE Flight'
  OBVIOUS
<1>0. /\ drawn \in Nat /\ left \in Nat /\ global_steps \in Nat
      /\ pc \in InTraining => batch # NoBatch
      /\ next \in Nat /\ batch \in Nat
  BY DEF DrawnInBounds, TypeOK, Batches
<1> USE DEF Flight, Beginning, InStep, InTraining, Ahead, IsLastStep
<1>1. CASE Launch
  BY <1>1 DEF Launch
<1>2. CASE Crash
  BY <1>2 DEF Crash
<1>3. CASE NoNextBatch
  BY <1>0, <1>3 DEF NoNextBatch, Asking, AfterAsking
<1>4. CASE AskSync
  BY <1>0, <1>4 DEF AskSync, Asking
<1>5. CASE AskGenerate
  BY <1>0, <1>5 DEF AskGenerate
<1>6. CASE Sync \/ Generate \/ Evaluate
  BY <1>6 DEF Sync, Generate, Evaluate, Served
<1>7. CASE RewardTasks
  BY <1>7 DEF RewardTasks, LaunchReward
<1>8. CASE Wait
  BY <1>0, <1>8 DEF Wait
<1>9. CASE Reward
  BY <1>0, <1>9 DEF Reward
<1>10. CASE Update
  BY <1>0, <1>10 DEF Update
<1>11. CASE Validate \/ Validated
  BY <1>11 DEF Validate, Validated
<1>12. CASE Save
  BY <1>12 DEF Save
<1>13. CASE NextStep
  BY <1>0, <1>13 DEF NextStep
<1>14. CASE UNCHANGED vars
  BY <1>14 DEF vars
<1> QED BY <1>1, <1>2, <1>3, <1>4, <1>5, <1>6, <1>7, <1>8, <1>9, <1>10, <1>11, <1>12, <1>13,
          <1>14 DEF Next, Driver, RolloutGroup

LEMMA AlwaysFlight == Spec => [](DrawnInBounds /\ Flight)
<1>1. Init => Flight
  BY DEF Init, Flight
<1> QED BY <1>1, InitDrawn, NextDrawn, NextFlight, PTL DEF Spec

-----------------------------------------------------------------------------
(* Batches are trained on in order.                                        *)
Increasing(s) == \A i \in 1 .. Len(s) - 1 : s[i] < s[i + 1]
Below(s, n) == \A i \in 1 .. Len(s) : s[i] <= n
NotAhead(s, n) == s # <<>> => Last(s) - Len(s) <= n

Order ==
  /\ Increasing(trained) /\ NotAhead(trained, resumes)
  /\ job = "running" =>
       /\ drawn - (Ahead + Current) <= Len(trained) + resumes
       /\ Below(trained, drawn - (Ahead + Current))
  /\ job = "exhausted" => drawn - Len(trained) <= resumes
  /\ Increasing(checkpoint.trained) /\ NotAhead(checkpoint.trained, checkpoint.resumes + 1)
  /\ checkpoint.drawn <= Len(checkpoint.trained) + checkpoint.resumes + 1
  /\ Below(checkpoint.trained, checkpoint.drawn)

LEMMA AppendOrder ==
  ASSUME NEW s \in Seq(Nat), NEW b \in Nat, Increasing(s), Below(s, b - 1)
  PROVE  /\ Increasing(Append(s, b)) /\ Below(Append(s, b), b)
         /\ Len(Append(s, b)) = Len(s) + 1 /\ Len(s) \in Nat
         /\ Append(s, b) # <<>> /\ Last(Append(s, b)) = b
<1>1. /\ Append(s, b) \in Seq(Nat) /\ Len(Append(s, b)) = Len(s) + 1 /\ Len(s) \in Nat
      /\ \A i \in 1 .. Len(s) : Append(s, b)[i] = s[i] /\ s[i] \in Nat
      /\ Append(s, b)[Len(s) + 1] = b
  BY AppendProperties, LenProperties, ElementOfSeq
<1>2. ASSUME NEW i \in 1 .. Len(s) PROVE Append(s, b)[i] < Append(s, b)[i + 1]
  <2>1. CASE i = Len(s)
    BY <1>1, <2>1 DEF Below
  <2>2. CASE i # Len(s)
    <3>1. i \in 1 .. Len(s) - 1 /\ i + 1 \in 1 .. Len(s)
      BY <1>1, <2>2
    <3> QED BY <1>1, <3>1 DEF Increasing
  <2> QED BY <2>1, <2>2
<1>3. Increasing(Append(s, b))
  BY <1>1, <1>2 DEF Increasing
<1>4. Below(Append(s, b), b)
  BY <1>1 DEF Below
<1>5. Append(s, b) # <<>> /\ Last(Append(s, b)) = b
  BY <1>1, EmptySeq DEF Last
<1> QED BY <1>1, <1>3, <1>4, <1>5

LEMMA NextOrder == DrawnInBounds /\ Flight /\ Order /\ [Next]_vars => Order'
<1> SUFFICES ASSUME DrawnInBounds, Flight, Order, [Next]_vars PROVE Order'
  OBVIOUS
<1>0. /\ drawn \in Nat /\ left \in Nat /\ next \in Nat /\ batch \in Nat
      /\ pc \in InTraining => batch # NoBatch
      /\ trained \in Seq(Nat) /\ Len(trained) \in Nat /\ resumes \in Nat
      /\ job \in {"down", "running", "finished", "exhausted"}
      /\ checkpoint.drawn \in Nat /\ checkpoint.resumes \in Int
      /\ checkpoint.trained \in Seq(Nat) /\ Len(checkpoint.trained) \in Nat
  BY LenProperties DEF DrawnInBounds, TypeOK, Batches
<1> USE DEF Flight, Beginning, Order, InTraining, Ahead, Current, InStep
<1>1. CASE Launch
  <2>1. /\ job' = "running" /\ pc' \in Beginning /\ next' = NoBatch /\ drawn' = checkpoint.drawn
        /\ trained' = checkpoint.trained /\ resumes' = checkpoint.resumes + 1
        /\ checkpoint' = checkpoint
    BY <1>1 DEF Launch
  <2>2. Ahead' = 0 /\ Current' = 0
    BY <2>1
  <2>3. Below(trained', drawn') /\ drawn' <= Len(trained') + resumes'
    BY <1>0, <2>1
  <2> QED BY <1>0, <2>1, <2>2, <2>3
<1>2. CASE Crash
  BY <1>2 DEF Crash
<1>3. CASE NoNextBatch
  BY <1>0, <1>3 DEF NoNextBatch, Asking, AfterAsking
<1>4. CASE AskSync
  BY <1>0, <1>4 DEF AskSync, Asking
<1>5. CASE AskGenerate
  BY <1>0, <1>5 DEF AskGenerate
<1>6. CASE Sync \/ Generate \/ Evaluate
  BY <1>6 DEF Sync, Generate, Evaluate, Served
<1>7. CASE RewardTasks
  BY <1>7 DEF RewardTasks, LaunchReward
<1>8. CASE Wait
  BY <1>0, <1>8 DEF Wait
<1>9. CASE Reward
  BY <1>0, <1>9 DEF Reward
<1>10. CASE Update
  <2>1. /\ job = "running" /\ pc = "update" /\ trained' = Append(trained, batch)
        /\ pc' \in {"validate", "save", "next"} /\ job' = job
        /\ UNCHANGED <<drawn, next, batch, resumes, checkpoint>>
    BY <1>10 DEF Update
  <2>2. batch = drawn - Ahead /\ batch \in Nat /\ Current = 1 /\ Current' = 0 /\ Ahead' = Ahead
    BY <1>0, <2>1
  <2>3. /\ Below(trained, batch - 1)
        /\ drawn - (Ahead + 1) <= Len(trained) + resumes
    BY <1>0, <2>1, <2>2
  <2>4. /\ Increasing(trained') /\ Below(trained', batch)
        /\ Len(trained') = Len(trained) + 1 /\ Last(trained') = batch
    BY <1>0, <2>1, <2>3, AppendOrder
  <2>5. NotAhead(trained', resumes')
    BY <1>0, <2>1, <2>2, <2>3, <2>4 DEF NotAhead
  <2> QED BY <1>0, <2>1, <2>2, <2>3, <2>4, <2>5
<1>11. CASE Validate \/ Validated
  BY <1>11 DEF Validate, Validated
<1>12. CASE Save
  <2>1. /\ job = "running" /\ checkpoint'.drawn = drawn /\ checkpoint'.trained = trained
        /\ checkpoint'.resumes = resumes
        /\ UNCHANGED <<job, drawn, next, batch, trained, resumes>> /\ Current = 0 /\ Current' = 0
    BY <1>12 DEF Save
  <2>2. trained # <<>> => Last(trained) \in Int
    BY <1>0, EmptySeq, ElementOfSeq DEF Last
  <2>3. NotAhead(trained, resumes + 1)
    BY <1>0, <2>2 DEF NotAhead
  <2>4. Ahead \in 0 .. 1 /\ Ahead' = Ahead
    BY <2>1
  <2>5. Below(trained, drawn)
    <3>1. Below(trained, drawn - Ahead)
      BY <1>0, <2>1, <2>4
    <3>2. \A i \in 1 .. Len(trained) : trained[i] \in Nat
      BY <1>0, ElementOfSeq
    <3>3. ASSUME NEW i \in 1 .. Len(trained) PROVE trained[i] <= drawn
      <4> DEFINE t == trained[i]
                 a == Ahead
      <4>1. t <= drawn - a /\ t \in Nat /\ a \in 0 .. 1 /\ drawn \in Nat
        BY <1>0, <2>4, <3>1, <3>2 DEF Below
      <4> HIDE DEF t, a
      <4>2. t <= drawn
        BY <4>1
      <4> QED BY <4>2 DEF t
    <3> QED BY <3>3 DEF Below
  <2> QED BY <1>0, <2>1, <2>3, <2>4, <2>5
<1>13. CASE NextStep
  BY <1>0, <1>13 DEF NextStep
<1>14. CASE UNCHANGED vars
  BY <1>14 DEF vars
<1> QED BY <1>1, <1>2, <1>3, <1>4, <1>5, <1>6, <1>7, <1>8, <1>9, <1>10, <1>11, <1>12, <1>13,
          <1>14 DEF Next, Driver, RolloutGroup

(* No batch is trained on twice behind the same weights, however often the *)
(* job crashes, and a resume skips one batch, the one generated ahead.     *)
THEOREM OrderedTraining == Spec => []SkipsOnlyOnResume
<1>1. Init => Order
  BY DEF Init, Order, Increasing, NotAhead, Below
<1>2. DrawnInBounds /\ Order => SkipsOnlyOnResume
  BY DEF Order, SkipsOnlyOnResume, Increasing, NotAhead
<1> QED BY <1>1, <1>2, AlwaysFlight, NextOrder, PTL DEF Spec

-----------------------------------------------------------------------------
(* The calls that wait at the rollout group, by the place of the driver.   *)
Under == calls = <<"generate">> /\ made[next] = Pending
Over == calls = <<>> /\ made[next] = rollout
NothingAhead == IsLastStep \/ next = NoBatch

Lag == job = "running" =>
  /\ \A b \in Batches : b > drawn => made[b] = Pending
  /\ pc \in {"val_before_train", "prime", "overlap"} => calls = <<>>
  /\ pc = "validating_before" => calls \in {<<>>, <<"validate">>}
  /\ pc \in {"val_before_train", "validating_before"} => rollout = 0
  /\ pc \in {"prime_sync", "overlap_sync"} =>
       made[next] = Pending /\ (calls = <<"sync">> \/ (calls = <<>> /\ rollout = actor))
  /\ pc = "wait" => IF next = NoBatch THEN calls = <<>>
                    ELSE (Under \/ Over) /\ rollout \in {actor, actor - 1}
  /\ pc \in InTraining => made[batch] \in {actor, actor - 1}
  /\ pc = "overlap" => rollout \in {actor, actor - 1}
  /\ pc \in {"reward", "update"} =>
       IF NothingAhead THEN calls = <<>> /\ rollout \in {actor, actor - 1}
       ELSE (Under \/ Over) /\ rollout = actor
  /\ pc \in {"validate", "save", "next"} =>
       IF NothingAhead THEN calls = <<>> /\ rollout \in {actor - 1, actor - 2}
       ELSE (Under \/ Over) /\ rollout = actor - 1
  /\ pc = "validating" =>
       IF NothingAhead
       THEN calls \in {<<>>, <<"validate">>} /\ rollout \in {actor - 1, actor - 2}
       ELSE /\ rollout = actor - 1
            /\ \/ calls = <<"generate", "validate">> /\ made[next] = Pending
               \/ calls \in {<<>>, <<"validate">>} /\ made[next] = rollout

(* Queues of at most two calls.                                            *)
LEMMA CallFacts ==
  ASSUME NEW x \in {"sync", "generate", "validate"}, NEW y \in {"sync", "generate", "validate"}
  PROVE  /\ Append(<<>>, x) = <<x>> /\ Head(<<x>>) = x /\ Tail(<<x>>) = <<>> /\ <<x>> # <<>>
         /\ Append(<<x>>, y) = <<x, y>> /\ Head(<<x, y>>) = x /\ Tail(<<x, y>>) = <<y>>
         /\ ~Contains(<<>>, x) /\ (Contains(<<x>>, y) <=> x = y)
         /\ (Contains(<<x, y>>, "sync") <=> x = "sync" \/ y = "sync")
         /\ Contains(<<x, y>>, y)
<1>0. /\ Append(<<>>, x) = <<x>> /\ Append(<<>>, y) = <<y>>
      /\ Head(<<x>>) = x /\ <<x>> # <<>> /\ <<x>> \in Seq({x, y}) /\ <<>> \in Seq({x, y})
  OBVIOUS
<1>5. Tail(<<x>>) = <<>>
  BY <1>0, HeadTailAppend
<1>6. Append(<<x>>, y) = <<x, y>>
  <2>1. /\ <<x, y>> \in Seq({x, y}) /\ Len(<<x, y>>) = 2
        /\ <<x, y>>[1] = x /\ <<x, y>>[2] = y /\ <<x>>[1] = x /\ Len(<<x>>) = 1
    OBVIOUS
  <2>2. /\ Append(<<x>>, y) \in Seq({x, y}) /\ Len(Append(<<x>>, y)) = 2
        /\ Append(<<x>>, y)[1] = x /\ Append(<<x>>, y)[2] = y
    BY <1>0, <2>1, AppendProperties
  <2>3. \A i \in 1 .. 2 : Append(<<x>>, y)[i] = <<x, y>>[i]
    <3>1. \A i \in 1 .. 2 : i = 1 \/ i = 2
      OBVIOUS
    <3> QED BY <2>1, <2>2, <3>1
  <2> QED BY <2>1, <2>2, <2>3, SeqEqual
<1>7. Head(<<x, y>>) = x /\ Tail(<<x, y>>) = <<y>>
  BY <1>0, <1>5, <1>6, HeadTailAppend
<1>2. ~Contains(<<>>, x)
  BY DEF Contains
<1>3. Contains(<<x>>, y) <=> x = y
  <2>1. Len(<<x>>) = 1 /\ <<x>>[1] = x
    OBVIOUS
  <2> QED BY <2>1 DEF Contains
<1>4. ASSUME NEW z \in {"sync", "generate", "validate"}
      PROVE  Contains(<<x, y>>, z) <=> x = z \/ y = z
  <2>1. Len(<<x, y>>) = 2 /\ <<x, y>>[1] = x /\ <<x, y>>[2] = y
    OBVIOUS
  <2>2. \A i \in 1 .. 2 : i = 1 \/ i = 2
    OBVIOUS
  <2>3. 1 \in 1 .. 2 /\ 2 \in 1 .. 2
    OBVIOUS
  <2>4. Contains(<<x, y>>, z) <=> \E i \in 1 .. 2 : <<x, y>>[i] = z
    BY <2>1 DEF Contains
  <2> QED BY <2>1, <2>2, <2>3, <2>4
<1> QED BY <1>0, <1>5, <1>6, <1>7, <1>2, <1>3, <1>4

LEMMA NextLag == DrawnInBounds /\ Flight /\ Lag /\ [Next]_vars => Lag'
<1> SUFFICES ASSUME DrawnInBounds, Flight, Lag, [Next]_vars PROVE Lag'
  OBVIOUS
<1>0. /\ drawn \in Nat /\ left \in Nat /\ actor \in Nat /\ rollout \in Nat
      /\ next \in Batches \cup {NoBatch} /\ batch \in Batches \cup {NoBatch}
      /\ pc \in InTraining => batch # NoBatch
      /\ made \in [Batches -> Nat \cup {Pending}] /\ Batches \subseteq Nat /\ 0 \notin Batches
      /\ calls \in Seq({"sync", "generate", "validate"})
  BY DEF DrawnInBounds, TypeOK, Batches
<1> USE DEF Flight, Beginning, Lag, InTraining, InStep, NothingAhead, Under, Over, IsLastStep
<1>1. CASE Launch
  BY <1>1 DEF Launch
<1>2. CASE Crash
  BY <1>2 DEF Crash
<1>3. CASE NoNextBatch
  BY <1>0, <1>3 DEF NoNextBatch, Asking, AfterAsking
<1>4. CASE AskSync
  <2>1. drawn + 1 \in Batches
    BY <1>4, NextDrawn DEF Next, Driver, DrawnInBounds, TypeOK, AskSync
  <2>2. /\ job = "running" /\ job' = job /\ calls' = Append(calls, "sync") /\ calls = <<>>
        /\ next' = drawn + 1 /\ drawn' = drawn + 1 /\ drawn + 1 > drawn
        /\ pc \in {"prime", "overlap"}
        /\ pc' = IF pc = "prime" THEN "prime_sync" ELSE "overlap_sync"
        /\ UNCHANGED <<actor, rollout, made, batch, global_steps>>
    BY <1>0, <1>4 DEF AskSync, Asking
  <2>3. calls' = <<"sync">>
    BY <2>2, CallFacts
  <2>4. made[drawn + 1] = Pending
    BY <2>1, <2>2
  <2>5. \A b \in Batches : b > drawn' => made'[b] = Pending
    BY <1>0, <2>2
  <2>6. pc' \in InTraining => made'[batch'] \in {actor', actor' - 1}
    BY <2>2
  <2> QED BY <2>2, <2>3, <2>4, <2>5, <2>6
<1>5. CASE AskGenerate
  BY <1>0, <1>5, CallFacts DEF AskGenerate, Ahead
<1>6. CASE Sync
  BY <1>0, <1>6, CallFacts DEF Sync, Served
<1>7. CASE Generate
  <2>1. /\ job = "running" /\ calls # <<>> /\ Head(calls) = "generate" /\ calls' = Tail(calls)
        /\ made' = [made EXCEPT ![next] = rollout]
        /\ UNCHANGED <<job, pc, actor, rollout, drawn, next, batch, global_steps>>
    BY <1>7 DEF Generate, Served
  <2>2. /\ calls \in {<<"generate">>, <<"generate", "validate">>}
        /\ pc \in {"wait", "reward", "update", "validate", "validating", "save", "next"}
        /\ next # NoBatch /\ (pc # "wait" => ~NothingAhead)
    <3>1. /\ calls # <<"sync">> /\ calls # <<"validate">> /\ calls # <<>>
      BY <2>1, CallFacts
    <3>2. pc # "init"
      BY <2>1
    <3>3. pc \in {"wait", "reward", "update", "validate", "validating", "save", "next"}
      BY <2>1, <3>1, <1>0, <3>2 DEF DrawnInBounds, TypeOK
    <3> QED BY <2>1, <3>1, <3>3
  <2>3. calls' = (IF calls = <<"generate">> THEN <<>> ELSE <<"validate">>)
    BY <2>1, <2>2, CallFacts
  <2>4. next \in Batches /\ next = drawn /\ made'[next] = rollout
        /\ \A b \in Batches \ {next} : made'[b] = made[b]
    BY <1>0, <2>1, <2>2 DEF Ahead
  <2>5. pc \in InTraining => batch \in Batches \ {next}
    BY <1>0, <2>1, <2>2, <2>4 DEF Ahead
  <2>6. \A b \in Batches : b > drawn' => made'[b] = Pending
    BY <1>0, <2>1, <2>4
  <2>7. pc' \in InTraining => made'[batch'] \in {actor', actor' - 1}
    BY <2>1, <2>4, <2>5
  <2> QED BY <2>1, <2>2, <2>3, <2>4, <2>6, <2>7, CallFacts
<1>8. CASE Evaluate
  BY <1>0, <1>8, CallFacts DEF Evaluate, Served
<1>9. CASE RewardTasks
  BY <1>9 DEF RewardTasks, LaunchReward
<1>10. CASE Wait
  BY <1>0, <1>10 DEF Wait
<1>11. CASE Reward
  BY <1>0, <1>11 DEF Reward
<1>12. CASE Update
  BY <1>0, <1>12 DEF Update
<1>13. CASE Validate
  BY <1>0, <1>13, CallFacts DEF Validate
<1>14. CASE Validated
  BY <1>0, <1>14, CallFacts DEF Validated
<1>15. CASE Save
  BY <1>15 DEF Save
<1>16. CASE NextStep
  BY <1>0, <1>16 DEF NextStep
<1>17. CASE UNCHANGED vars
  BY <1>17 DEF vars
<1> QED BY <1>1, <1>2, <1>3, <1>4, <1>5, <1>6, <1>7, <1>8, <1>9, <1>10, <1>11, <1>12, <1>13,
          <1>14, <1>15, <1>16, <1>17 DEF Next, Driver, RolloutGroup

(* The policy that trains is the one that generated, or the next one; the  *)
(* rollout group is never sent weights while it generates.                 *)
THEOREM OneStepBehind == Spec => []OneStepLag
<1>1. Init => Lag
  BY DEF Init, Lag
<1>2. DrawnInBounds /\ Flight /\ Lag => OneStepLag
  <2> SUFFICES ASSUME DrawnInBounds, Flight, Lag, job = "running" PROVE OneStepLag
    BY DEF OneStepLag
  <2>1. actor \in Nat /\ rollout \in Nat
    BY DEF DrawnInBounds, TypeOK
  <2>2. Contains(calls, "sync") => calls = <<"sync">>
    BY CallFacts DEF Lag, Flight, Under, Over, InStep, DrawnInBounds, TypeOK, InTraining
  <2>3. pc = "update" => actor - made[batch] \in {0, 1}
    BY <2>1 DEF Lag, InTraining
  <2>4. pc = "validating" =>
          actor - rollout \in (IF IsLastStep \/ next = NoBatch THEN {1, 2} ELSE {1})
    BY <2>1 DEF Lag, NothingAhead
  <2>5. pc = "validating_before" => rollout = 0
    BY DEF Lag
  <2> QED BY <2>2, <2>3, <2>4, <2>5 DEF OneStepLag
<1> QED BY <1>1, <1>2, AlwaysFlight, NextLag, PTL DEF Spec

=============================================================================
