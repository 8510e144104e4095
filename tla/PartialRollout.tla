--------------------------- MODULE PartialRollout ---------------------------
(***************************************************************************)
(* Interrupted generation of the fully asynchronous trainer: the           *)
(* vLLMHttpServerForPartial servers, the PartialSingleTurnAgentLoop that    *)
(* glues the pieces of a response together, the rollouter's task for a     *)
(* sample, the synchronization that cancels, drains, loads the weights and *)
(* resumes, and the monitor loop that may end the rollouter's pause in the *)
(* middle of it.  A token remembers the weights that produced it, its      *)
(* place in the response and whether it ended the sequence.                *)
(***************************************************************************)
EXTENDS Integers, Sequences, FiniteSets, SequencesExt

CONSTANTS Samples,          \* samples of the run
          Copies,           \* rollout.n: responses of a sample
          Servers,          \* rollout servers
          ResponseLength,   \* rollout.response_length
          MaxResponse,      \* max_model_len minus the length of the prompt
          MaxVersion        \* bound: parameter synchronizations

ASSUME PartialAssumption ==
  /\ Servers # {} /\ Copies \in Nat \ {0} /\ ResponseLength \in Nat \ {0}
  /\ MaxResponse \in Nat /\ MaxResponse >= ResponseLength /\ MaxVersion \in Nat

VARIABLES
  sync,        \* "run", "cancel", "drain", "load", "updated" or "resume"
  halted,      \* paused of the rollouter
  unpausing,   \* the monitor decided to unpause and waits for the lock
  version,     \* current_param_version
  weights,     \* weights[v]: version of the weights of server v
  paused,      \* paused[v] of server v
  task,        \* task[s]: "queued", "running" or "finished"
  at,          \* at[q]: "idle", "sent", "generating" or "returned"
  server,      \* server[q]: the server that has the request
  event,       \* event[q]: cancel_event of the request is set
  req_output,  \* req_output[q]: tokens of this run so far
  output       \* output[q]: the FullyAsyncAgentLoopOutput, or NoOutput

rollouter == <<sync, halted, unpausing>>
vars == <<rollouter, version, weights, paused, task, at, server, event, req_output, output>>

Requests == Samples \X (1 .. Copies)
Of(s) == {q \in Requests : q[1] = s}

NoOutput == [response |-> <<>>, log_probs |-> <<>>, mask |-> 0, is_cancel |-> TRUE,
             start |-> -1, end |-> -1]
Started(q) == output[q] # NoOutput

Token(q, eos) ==
  [version |-> weights[server[q]], eos |-> eos,
   place |-> Len(output[q].response) + Len(req_output[q]) + 1]

(* The engine stops at the end of a sequence or when max_tokens, what the  *)
(* model length leaves after the prompt and the response so far, are out.  *)
Room(q) == Len(output[q].response) + Len(req_output[q]) < MaxResponse
Finished(q) == req_output[q] # <<>> /\ (Last(req_output[q]).eos \/ ~Room(q))

-----------------------------------------------------------------------------
Init ==
  /\ sync = "run" /\ halted = FALSE /\ unpausing = FALSE /\ version = 0
  /\ weights = [v \in Servers |-> 0] /\ paused = [v \in Servers |-> FALSE]
  /\ task = [s \in Samples |-> "queued"]
  /\ at = [q \in Requests |-> "idle"]
  /\ server \in [Requests -> {CHOOSE v \in Servers : TRUE}]
  /\ event = [q \in Requests |-> FALSE]
  /\ req_output = [q \in Requests |-> <<>>]
  /\ output = [q \in Requests |-> NoOutput]

(* _processor_worker starts a task with self.lock held and only while the  *)
(* rollouter is not paused, which may be in the middle of a                *)
(* synchronization; the task notes the version of that moment.  Responses  *)
(* that were not interrupted are returned as they are.                     *)
LockFree == sync \in {"run", "load", "updated"}

StartUnmarked(s) ==   \* mutant: a resumed response keeps its first param_version_end
  /\ task[s] = "queued" /\ LockFree /\ ~halted
  /\ task' = [task EXCEPT ![s] = "running"]
  /\ \E choice \in [Of(s) -> Servers] :
       server' = [q \in Requests |-> IF q[1] = s THEN choice[q] ELSE server[q]]
  /\ at' = [q \in Requests |-> IF q[1] # s THEN at[q]
                               ELSE IF output[q].is_cancel THEN "sent" ELSE "returned"]
  /\ output' = [q \in Requests |-> IF q[1] = s /\ ~Started(q)
                  THEN [output[q] EXCEPT !.end = version, !.start = version] ELSE output[q]]
  /\ UNCHANGED <<rollouter, version, weights, paused, event, req_output>>

Start(s) ==
  /\ task[s] = "queued" /\ LockFree /\ ~halted
  /\ task' = [task EXCEPT ![s] = "running"]
  /\ \E choice \in [Of(s) -> Servers] :
       server' = [q \in Requests |-> IF q[1] = s THEN choice[q] ELSE server[q]]
  /\ at' = [q \in Requests |-> IF q[1] # s THEN at[q]
                               ELSE IF output[q].is_cancel THEN "sent" ELSE "returned"]
  /\ output' = [q \in Requests |-> IF q[1] = s /\ output[q].is_cancel
                  THEN [output[q] EXCEPT !.end = version,
                                         !.start = IF Started(q) THEN output[q].start ELSE version]
                  ELSE output[q]]
  /\ UNCHANGED <<rollouter, version, weights, paused, event, req_output>>

(* generate_for_partial, up to the wait.                                   *)
RefuseLate(q) ==   \* mutant: a paused server answers once it is resumed
  /\ at[q] = "sent" /\ paused[server[q]] /\ sync = "resume"
  /\ at' = [at EXCEPT ![q] = "returned"]
  /\ UNCHANGED <<rollouter, version, weights, paused, task, server, event, req_output, output>>

Refuse(q) ==
  /\ at[q] = "sent" /\ paused[server[q]]
  /\ at' = [at EXCEPT ![q] = "returned"]
  /\ UNCHANGED <<rollouter, version, weights, paused, task, server, event, req_output, output>>

Accept(q) ==
  /\ at[q] = "sent" /\ ~paused[server[q]]
  /\ at' = [at EXCEPT ![q] = "generating"]
  /\ event' = [event EXCEPT ![q] = FALSE]
  /\ req_output' = [req_output EXCEPT ![q] = <<>>]
  /\ UNCHANGED <<rollouter, version, weights, paused, task, server, output>>

(* _generate_step: the engine yields one more token; it may still do so    *)
(* between the cancel and the moment the waiting coroutine runs again.     *)
Generate(q) ==
  /\ at[q] = "generating" /\ ~Finished(q)
  /\ \E eos \in BOOLEAN : req_output' = [req_output EXCEPT ![q] = Append(@, Token(q, eos))]
  /\ UNCHANGED <<rollouter, version, weights, paused, task, at, server, event, output>>

(* The rest of generate_for_partial and of PartialSingleTurnAgentLoop.run: *)
(* is_cancel says that the generation was not among the done tasks; the    *)
(* answer and the mask are cut to response_length, log_probs is not.       *)
IsCancelByEvent(q) == event[q]   \* mutant: a generation that ended meanwhile counts as cut
IsCancel(q) == ~Finished(q)
Cut(seq) == SubSeq(seq, 1, IF Len(seq) < ResponseLength THEN Len(seq) ELSE ResponseLength)

AnswerLast(q) ==   \* mutant: the log-probabilities of the last piece only
  /\ at[q] = "generating" /\ (event[q] \/ Finished(q))
  /\ LET response == output[q].response \o req_output[q]
     IN output' = [output EXCEPT
          ![q].response = Cut(response), ![q].mask = Len(Cut(response)),
          ![q].log_probs = req_output[q], ![q].is_cancel = IsCancel(q)]
  /\ at' = [at EXCEPT ![q] = "returned"]
  /\ req_output' = [req_output EXCEPT ![q] = <<>>]
  /\ UNCHANGED <<rollouter, version, weights, paused, task, server, event>>

Answer(q) ==
  /\ at[q] = "generating" /\ (event[q] \/ Finished(q))
  /\ LET response == output[q].response \o req_output[q]
     IN output' = [output EXCEPT
          ![q].response = Cut(response), ![q].mask = Len(Cut(response)),
          ![q].log_probs = @ \o req_output[q], ![q].is_cancel = IsCancel(q)]
  /\ at' = [at EXCEPT ![q] = "returned"]
  /\ req_output' = [req_output EXCEPT ![q] = <<>>]
  /\ UNCHANGED <<rollouter, version, weights, paused, task, server, event>>

(* _process_single_sample_streaming: one interrupted response sends the    *)
(* whole sample to the cancel queue.                                       *)
TaskDone(s) ==
  /\ task[s] = "running" /\ \A q \in Of(s) : at[q] = "returned"
  /\ task' = [task EXCEPT ![s] = IF \E q \in Of(s) : output[q].is_cancel
                                 THEN "queued" ELSE "finished"]
  /\ at' = [q \in Requests |-> IF q[1] = s THEN "idle" ELSE at[q]]
  /\ UNCHANGED <<rollouter, version, weights, paused, server, event, req_output, output>>

-----------------------------------------------------------------------------
(* FullyAsyncRollouter.pause, sync_weights, update_param_version, resume.  *)
(* pause() and resume() hold self.lock to their ends.                      *)
Pause ==
  /\ sync = "run" /\ version < MaxVersion
  /\ sync' = "cancel" /\ halted' = TRUE
  /\ UNCHANGED <<unpausing, version, weights, paused, task, at, server, event, req_output, output>>

(* _async_monitor_loop tests monitor_loop_trigger, which pause() clears at *)
(* its end, before it asks for the lock, and does not test it again.       *)
(* Outside of a pause its unpausing changes nothing.                       *)
MonitorDecides ==
  /\ sync \in {"cancel", "drain"} /\ ~unpausing
  /\ unpausing' = TRUE
  /\ UNCHANGED <<sync, halted, version, weights, paused, task, at, server, event, req_output,
                 output>>

MonitorUnpauses ==
  /\ unpausing /\ LockFree
  /\ halted' = FALSE /\ unpausing' = FALSE
  /\ UNCHANGED <<sync, version, weights, paused, task, at, server, event, req_output, output>>

Cancel(v) ==   \* one server, in any order with the others
  /\ sync = "cancel" /\ ~paused[v]
  /\ paused' = [paused EXCEPT ![v] = TRUE]
  /\ event' = [q \in Requests |-> event[q] \/ (server[q] = v /\ at[q] = "generating")]
  /\ UNCHANGED <<rollouter, version, weights, task, at, server, req_output, output>>

Goes(from, to) == sync = from /\ sync' = to /\ UNCHANGED unpausing

Cancelled ==
  /\ Goes("cancel", "drain") /\ \A v \in Servers : paused[v]
  /\ UNCHANGED <<halted, version, weights, paused, task, at, server, event, req_output, output>>

Drained ==   \* gather(*active_tasks); the lock is free for the monitor
  /\ Goes("drain", "load") /\ \A s \in Samples : task[s] # "running"
  /\ UNCHANGED <<halted, version, weights, paused, task, at, server, event, req_output, output>>

Load(v) ==   \* the broadcast reaches one server after another
  /\ sync = "load" /\ weights[v] = version
  /\ weights' = [weights EXCEPT ![v] = version + 1]
  /\ UNCHANGED <<rollouter, version, paused, task, at, server, event, req_output, output>>

Loaded ==   \* update_param_version gets the lock after a monitor that waits for it
  /\ Goes("load", "updated") /\ ~unpausing /\ \A v \in Servers : weights[v] = version + 1
  /\ version' = version + 1
  /\ UNCHANGED <<halted, weights, paused, task, at, server, event, req_output, output>>

Resuming ==   \* the tasks may go on, once resume() has let the lock go
  /\ Goes("updated", "resume")
  /\ halted' = FALSE
  /\ UNCHANGED <<version, weights, paused, task, at, server, event, req_output, output>>

Resume(v) ==
  /\ sync = "resume" /\ paused[v]
  /\ paused' = [paused EXCEPT ![v] = FALSE]
  /\ UNCHANGED <<rollouter, version, weights, task, at, server, event, req_output, output>>

Resumed ==
  /\ Goes("resume", "run") /\ \A v \in Servers : ~paused[v]
  /\ UNCHANGED <<halted, version, weights, paused, task, at, server, event, req_output, output>>

Monitor == MonitorDecides \/ MonitorUnpauses
Synchronize == \/ Cancelled \/ Drained \/ Loaded \/ Resuming \/ Resumed
               \/ \E v \in Servers : Cancel(v) \/ Load(v) \/ Resume(v)

Request(q) == Refuse(q) \/ Accept(q) \/ Generate(q) \/ Answer(q)
Sample(s) == Start(s) \/ TaskDone(s)

Next == \/ Pause \/ Synchronize \/ Monitor
        \/ \E q \in Requests : Request(q)
        \/ \E s \in Samples : Sample(s)

(* The event loops run every ready coroutine, and engines every request;   *)
(* nothing obliges the trainer to synchronize or the monitor to wake up.   *)
Spec == /\ Init /\ [][Next]_vars /\ WF_vars(Synchronize) /\ WF_vars(MonitorUnpauses)
        /\ \A q \in Requests : WF_vars(Request(q))
        /\ \A s \in Samples : WF_vars(Sample(s))

-----------------------------------------------------------------------------
Tokens == [version : 0 .. MaxVersion, eos : BOOLEAN, place : Nat]
Outputs == [response : Seq(Tokens), log_probs : Seq(Tokens), mask : Nat, is_cancel : BOOLEAN,
            start : -1 .. MaxVersion, end : -1 .. MaxVersion]

(* The stages of a synchronization, of a task and of a request, and the    *)
(* tokens of an answer, with the bound on versions.                        *)
TypeOK ==
  /\ sync \in {"run", "cancel", "drain", "load", "updated", "resume"}
  /\ halted \in BOOLEAN /\ unpausing \in BOOLEAN /\ version \in 0 .. MaxVersion
  /\ weights \in [Servers -> 0 .. MaxVersion] /\ paused \in [Servers -> BOOLEAN]
  /\ task \in [Samples -> {"queued", "running", "finished"}]
  /\ at \in [Requests -> {"idle", "sent", "generating", "returned"}]
  /\ server \in [Requests -> Servers] /\ event \in [Requests -> BOOLEAN]
  /\ req_output \in [Requests -> Seq(Tokens)] /\ output \in [Requests -> Outputs]

(* However often a response is interrupted, it is the sequence the engine  *)
(* produced, no token lost, repeated or swapped, cut to response_length,   *)
(* and the i-th log-probability is that of the i-th token.                 *)
TokensAligned == \A q \in Requests :
  LET o == output[q]
  IN /\ o.mask = Len(o.response) /\ o.mask <= ResponseLength
     /\ \A i \in DOMAIN o.response : o.response[i].place = i
     /\ IsPrefix(o.response, o.log_probs)

(* The versions a response claims, param_version_start and _end, enclose   *)
(* those of the weights that produced its tokens, but for one: a task that *)
(* started while weights were loaded may be generated by the next version. *)
(* However often a response is interrupted it is never two ahead of its    *)
(* claim, and its tokens are in the order of their versions.               *)
VersionSpan == \A q \in Requests :
  LET seq == output[q].response \o req_output[q]
  IN /\ \A i \in DOMAIN seq : output[q].start <= seq[i].version
                              /\ seq[i].version <= output[q].end + 1
     /\ \A i, j \in DOMAIN seq : i <= j => seq[i].version <= seq[j].version

(* A cancel that races the end of a generation: an ended response is never *)
(* generated further, a resumed one has room left, and a finished sample   *)
(* holds no interrupted response.                                          *)
EndsOnce == \A q \in Requests :
  /\ \A i \in DOMAIN output[q].response :
       output[q].response[i].eos => i = Len(output[q].response) /\ ~output[q].is_cancel
  /\ at[q] = "generating" => Len(output[q].response) < MaxResponse
  /\ task[q[1]] = "finished" => ~output[q].is_cancel

(* A synchronization that began ends, whichever requests were on their way *)
(* to a server when it was cancelled.                                      *)
SyncEnds == (sync # "run") ~> (sync = "run")
=============================================================================
