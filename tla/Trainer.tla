------------------------------ MODULE Trainer -------------------------------
(***************************************************************************)
(* FullyAsyncTrainer.fit (fully_async_trainer.py) and                      *)
(* ParameterSynchronizer.sync_weights (param_sync.py).  The trainer is     *)
(* sequential: it blocks in every remote call.                             *)
(***************************************************************************)
EXTENDS AsyncState

rollouterVars == <<flagVars, flowVars, lockQ, procVars, corVars>>

-----------------------------------------------------------------------------
(* Mutant: the newest record is read first.                                *)
GetValidateNewest ==
  \/ valQ = <<>> /\ valData' = "none" /\ UNCHANGED <<valQ, logged>>
  \/ /\ valQ # <<>>
     /\ valQ' = Front(valQ)
     /\ IF Last(valQ).metrics
          THEN valData' = "metrics" /\ logged' = Append(logged, Last(valQ).ver)
          ELSE valData' = "plain" /\ UNCHANGED logged

(* get_validate, and the logging of the metrics found.                     *)
GetValidate ==
  \/ /\ valQ = <<>>
     /\ valData' = "none"
     /\ UNCHANGED <<valQ, logged>>
  \/ /\ valQ # <<>>
     /\ valQ' = Tail(valQ)
     /\ IF Head(valQ).metrics
          THEN valData' = "metrics" /\ logged' = Append(logged, Head(valQ).ver)
          ELSE valData' = "plain" /\ UNCHANGED logged

(* Before the loop, and after each training step.                          *)
TrainerGetsValidation ==
  /\ trainer \in {"start", "step"}
  /\ GetValidate
  /\ trainer' = "collect"
  /\ batch' = <<>>
  /\ UNCHANGED <<rollouterVars, callVars, servVars, mq, mqDropped, localStep,
                 version, final, syncPc, consumed, tag, failures>>

(* _get_samples_from_queue: wait for a sample or the final None.           *)
TrainerGetsSample ==
  /\ trainer = "collect" /\ mq # <<>>
  /\ mq' = Tail(mq)
  /\ IF Head(mq) = Sentinel
       THEN trainer' = "ending" /\ UNCHANGED <<batch, consumed>>
       ELSE /\ batch' = Append(batch, Head(mq))
            /\ consumed' = consumed \cup {Head(mq)}
            /\ trainer' = IF Len(batch) + 1 = Required THEN "train"
                                                       ELSE "collect"
  /\ UNCHANGED <<rollouterVars, callVars, servVars, valQ, mqDropped, localStep,
                 version, final, valData, syncPc, tag, failures, logged>>

SyncDue == localStep >= Trigger

(* One training step, then _trigger_parameter_sync_after_step.             *)
TrainerTrains ==
  /\ trainer = "train"
  /\ IF ~SyncDue
       THEN /\ localStep' = localStep + 1
            /\ trainer' = "step"
            /\ UNCHANGED version
       ELSE /\ version' = version + 1
            /\ localStep' = 1
            /\ trainer' = "sync"
  /\ UNCHANGED <<rollouterVars, callVars, servVars, mqVars, batch, final,
                 valData, syncPc, pastVars>>

(* After the loop: a last sync with a validation, unless the last record   *)
(* that was read held metrics.                                             *)
TrainerEnds ==
  /\ trainer = "ending"
  /\ IF valData = "metrics"
       THEN trainer' = "done" /\ UNCHANGED <<version, localStep>>
       ELSE /\ version' = version + 1
            /\ localStep' = 1
            /\ trainer' = "lastSync"
  /\ UNCHANGED <<rollouterVars, callVars, servVars, mqVars, batch, final,
                 valData, syncPc, pastVars>>

TrainerLogsLast ==
  /\ trainer = "lastVal" /\ updatePc = "idle" /\ resumePc = "idle"
  /\ GetValidate
  /\ trainer' = "done"
  /\ UNCHANGED <<rollouterVars, callVars, servVars, mq, mqDropped, batch,
                 localStep, version, final, syncPc, consumed, tag, failures>>

Train == \/ TrainerGetsValidation \/ TrainerGetsSample \/ TrainerTrains
         \/ TrainerEnds \/ TrainerLogsLast

-----------------------------------------------------------------------------
(* wait_last_valid, then sync_weights: pause the rollouter, ...            *)
SyncStarts ==
  /\ trainer \in {"sync", "lastSync"} /\ syncPc = "idle"
  /\ updatePc = "idle" /\ resumePc = "idle"
  /\ syncPc' = "pausing"
  /\ pausePc' = "called"
  /\ final' = (trainer = "lastSync")
  /\ UNCHANGED <<rollouterVars, updatePc, updateAcc, resumePc, servVars,
                 mqVars, trainer, batch, localStep, version, valData, pastVars>>

(* ... send the weights to the inference servers, ...                      *)
SyncBroadcasts ==
  /\ syncPc = "pausing" /\ pausePc = "done"
  /\ pausePc' = "idle"
  /\ syncPc' = "loading"
  /\ loading' = TRUE
  /\ UNCHANGED <<rollouterVars, updatePc, updateAcc, resumePc, serverPaused,
                 weights, mqVars, trainVars, pastVars>>

(* ... and request, without waiting, the update and then the resumption.   *)
SyncReturns ==
  /\ syncPc = "loading"
  /\ loading' = FALSE
  /\ weights' = version
  /\ updatePc' = "called"
  /\ resumePc' = "called"
  /\ syncPc' = "idle"
  /\ trainer' = IF final THEN "lastVal" ELSE "step"
  /\ UNCHANGED <<rollouterVars, pausePc, updateAcc, serverPaused, mqVars,
                 batch, localStep, version, final, valData, pastVars>>

Sync == SyncStarts \/ SyncBroadcasts \/ SyncReturns
=============================================================================
