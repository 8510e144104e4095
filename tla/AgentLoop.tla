----------------------------- MODULE AgentLoop ------------------------------
(***************************************************************************)
(* Tool-calling conversations of one AgentLoopWorker: the state machine of *)
(* ToolAgentLoop, the AsyncLLMServerManager that picks a server for each   *)
(* generation, and the search tool behind its global rate limiter          *)
(* (SearchExecutionWorker and the TokenBucketWorker actor).                *)
(***************************************************************************)
EXTENDS Integers, Sequences, FiniteSets, SequencesExt, FiniteSetsExt

CONSTANTS Conversations,         \* agent loops, by request_id
          Servers,               \* LLM servers
          ResponseLength,        \* rollout.response_length
          MaxPiece,              \* bound: tokens of a generation or an observation
          MaxCalls,              \* bound: tool calls the model writes in a turn
          MaxParallelCalls,      \* multi_turn.max_parallel_calls
          MaxResponse,           \* max_model_len minus the length of the prompt
          RateLimit,             \* rate_limit of the token bucket
          Configs                \* multi-turn configurations under study

ASSUME AgentAssumption ==
  /\ IsFiniteSet(Conversations) /\ Servers # {}
  /\ {ResponseLength, MaxPiece, MaxParallelCalls, RateLimit} \subseteq Nat \ {0}
  /\ MaxCalls \in Nat /\ MaxResponse \in Nat /\ MaxResponse >= ResponseLength
  /\ Configs \subseteq [interactive : BOOLEAN,           \* interaction_config_path is given
                        max_assistant_turns : Nat,       \* 0 for None
                        max_user_turns : Nat,            \* 0 for None
                        max_cache_size : Nat \ {0}]      \* of the sticky sessions

VARIABLES
  config,           \* the configuration, chosen once
  state,            \* state[c]: the AgentState; "waiting" while a server generates
  response_mask,    \* response_mask[c]: 1 for generated tokens, 0 for observations
  tail,             \* tail[c]: origin of what was appended to prompt_ids
  logprobs,         \* response_logprobs[c], by origin
  assistant_turns, user_turns,
  calls,            \* calls[c][i]: phase of the i-th tool call of the turn
  server,           \* server[c]: the server of the last generation
  load,             \* load[v]: requests given to server v
  cache,            \* request_id_to_server, least recently used first
  tokens,           \* value of the semaphore
  acquires,         \* calls waiting in the one-thread acquire group
  releases,         \* release() calls under way
  out               \* out[c]: the AgentLoopOutput

conv  == <<response_mask, tail, logprobs, assistant_turns, user_turns>>
route == <<server, load, cache>>
limit == <<tokens, acquires, releases>>
vars  == <<config, state, conv, calls, route, limit, out>>

Slots == 1 .. MaxParallelCalls
NoCalls == [i \in Slots |-> "none"]
NoOut == [response |-> <<>>, mask |-> <<>>, logprobs |-> <<>>]

Fill(k, x) == [i \in 1 .. k |-> x]
Cut(seq) == SubSeq(seq, 1, Min({Len(seq), ResponseLength}))

Init ==
  /\ config \in Configs
  /\ state = [c \in Conversations |-> "PENDING"]
  /\ response_mask = [c \in Conversations |-> <<>>]
  /\ tail = [c \in Conversations |-> <<>>]
  /\ logprobs = [c \in Conversations |-> <<>>]
  /\ assistant_turns = [c \in Conversations |-> 0]
  /\ user_turns = [c \in Conversations |-> 0]
  /\ calls = [c \in Conversations |-> NoCalls]
  /\ server = [c \in Conversations |-> CHOOSE v \in Servers : TRUE]
  /\ load = [v \in Servers |-> 0] /\ cache = <<>>
  /\ tokens = RateLimit /\ acquires = <<>> /\ releases = 0
  /\ out = [c \in Conversations |-> NoOut]

-----------------------------------------------------------------------------
(* _choose_server: the cached server, or one with the least requests; the  *)
(* cache forgets the least recently used request when it is full.          *)
Cached(c) == \E i \in DOMAIN cache : cache[i][1] = c
AnyServer == Servers   \* mutant
LeastLoaded == {v \in Servers : \A w \in Servers : load[v] <= load[w]}

ChooseServer(c) ==
  \/ /\ \E i \in DOMAIN cache :
          /\ cache[i][1] = c
          /\ server' = [server EXCEPT ![c] = cache[i][2]]
          /\ cache' = Append(RemoveAt(cache, i), cache[i])
     /\ UNCHANGED load
  \/ /\ ~Cached(c)
     /\ \E v \in LeastLoaded :
          /\ server' = [server EXCEPT ![c] = v]
          /\ load' = [load EXCEPT ![v] = @ + 1]
          /\ cache' = Append(IF Len(cache) < config.max_cache_size THEN cache ELSE Tail(cache), <<c, v>>)

Pending(c) ==
  /\ state[c] = "PENDING"
  /\ state' = [state EXCEPT ![c] = "GENERATING"]
  /\ UNCHANGED <<config, conv, calls, route, limit, out>>

Ask(c) ==
  /\ state[c] = "GENERATING"
  /\ ChooseServer(c)
  /\ state' = [state EXCEPT ![c] = "waiting"]
  /\ UNCHANGED <<config, conv, calls, limit, out>>

(* What a state handler appends to the conversation, and its return to     *)
(* run(), which cuts the finished conversation to response_length.         *)
ExtendUnpadded(c, k, origin) ==   \* mutant: no log-probabilities for observations
  /\ tail' = [tail EXCEPT ![c] = @ \o Fill(k, origin)]
  /\ response_mask' = [response_mask EXCEPT ![c] = @ \o Fill(k, IF origin = "llm" THEN 1 ELSE 0)]
  /\ logprobs' = [logprobs EXCEPT ![c] = @ \o Fill(IF origin = "llm" THEN k ELSE 0, origin)]

Extend(c, k, origin) ==
  /\ tail' = [tail EXCEPT ![c] = @ \o Fill(k, origin)]
  /\ response_mask' = [response_mask EXCEPT ![c] = @ \o Fill(k, IF origin = "llm" THEN 1 ELSE 0)]
  /\ logprobs' = [logprobs EXCEPT ![c] = @ \o Fill(k, origin)]

Goto(c, next) ==
  /\ state' = [state EXCEPT ![c] = next]
  /\ out' = IF next # "TERMINATED" THEN out
            ELSE [out EXCEPT ![c] = [response |-> Cut(tail'[c]), mask |-> Cut(response_mask'[c]),
                                     logprobs |-> Cut(logprobs'[c])]]

LengthReached(c) == Len(response_mask'[c]) >= ResponseLength
TurnsReached(c) ==
  \/ config.max_assistant_turns > 0 /\ assistant_turns'[c] >= config.max_assistant_turns
  \/ config.max_user_turns > 0 /\ user_turns[c] >= config.max_user_turns

(* The server refuses a prompt that leaves no token of max_model_len: the  *)
(* exception ends the agent loop.                                          *)
Room(c) == MaxResponse - Len(response_mask[c])

Overflow(c) ==
  /\ state[c] = "waiting" /\ Room(c) < 1
  /\ state' = [state EXCEPT ![c] = "FAILED"]
  /\ UNCHANGED <<config, conv, calls, route, limit, out>>

(* The rest of _handle_generating_state, once the server has answered.     *)
Generated(c) ==
  /\ state[c] = "waiting"
  /\ \E k \in 1 .. Min({MaxPiece, Room(c)}) : Extend(c, k, "llm")
  /\ assistant_turns' = [assistant_turns EXCEPT ![c] = @ + 1]
  /\ \E n \in 0 .. MaxCalls :   \* tool calls found in the answer
       /\ calls' = [calls EXCEPT ![c] = [i \in Slots |->
            IF LengthReached(c) \/ TurnsReached(c) \/ i > n THEN "none" ELSE "parsing"]]
       /\ Goto(c, IF LengthReached(c) \/ TurnsReached(c) THEN "TERMINATED"
                  ELSE IF n > 0 THEN "PROCESSING_TOOLS"
                  ELSE IF config.interactive THEN "INTERACTING" ELSE "TERMINATED")
  /\ UNCHANGED <<config, user_turns, route, limit>>

(* _handle_processing_tools_state after gather(): an answer that would     *)
(* fill the response is dropped and ends the conversation.                 *)
ToolsDone(c) ==
  /\ state[c] = "PROCESSING_TOOLS"
  /\ \A i \in Slots : calls[c][i] \in {"none", "answered"}
  /\ calls' = [calls EXCEPT ![c] = NoCalls]
  /\ \E k \in 1 .. MaxPiece :
       \/ /\ Len(response_mask[c]) + k >= ResponseLength
          /\ UNCHANGED conv
          /\ Goto(c, "TERMINATED")
       \/ /\ Len(response_mask[c]) + k < ResponseLength
          /\ Extend(c, k, "obs")
          /\ user_turns' = [user_turns EXCEPT ![c] = @ + 1]
          /\ UNCHANGED assistant_turns
          /\ Goto(c, "GENERATING")
  /\ UNCHANGED <<config, route, limit>>

(* _handle_interacting_state: no look at the length.                       *)
Interact(c) ==
  /\ state[c] = "INTERACTING"
  /\ user_turns' = [user_turns EXCEPT ![c] = @ + 1]
  /\ \E k \in 1 .. MaxPiece : Extend(c, k, "obs")
  /\ \E should_terminate \in BOOLEAN :
       Goto(c, IF should_terminate THEN "TERMINATED" ELSE "GENERATING")
  /\ UNCHANGED <<config, assistant_turns, calls, route, limit>>

-----------------------------------------------------------------------------
(* _call_tool, SearchTool and SearchExecutionWorker.execute.               *)
At(c, i, phase) == state[c] = "PROCESSING_TOOLS" /\ calls[c][i] = phase
Move(c, i, phase) == calls' = [calls EXCEPT ![c][i] = phase]

Malformed(c, i) ==   \* unknown tool or bad arguments: answered with the error
  /\ At(c, i, "parsing") /\ Move(c, i, "answered")
  /\ UNCHANGED <<config, state, conv, route, limit, out>>

Create(c, i) ==
  /\ At(c, i, "parsing") /\ Move(c, i, "created")
  /\ UNCHANGED <<config, state, conv, route, limit, out>>

BadQuery(c, i) ==   \* execute() refuses an empty query list by itself
  /\ At(c, i, "created") /\ Move(c, i, "executed")
  /\ UNCHANGED <<config, state, conv, route, limit, out>>

Acquire(c, i) ==
  /\ At(c, i, "created") /\ Move(c, i, "acquiring")
  /\ acquires' = Append(acquires, <<c, i>>)
  /\ UNCHANGED <<config, state, conv, route, tokens, releases, out>>

Acquired(c, i) ==   \* the acquire group serves one call at a time
  /\ At(c, i, "acquiring") /\ acquires # <<>> /\ Head(acquires) = <<c, i>> /\ tokens > 0
  /\ Move(c, i, "searching")
  /\ acquires' = Tail(acquires) /\ tokens' = tokens - 1
  /\ UNCHANGED <<config, state, conv, route, releases, out>>

SearchedTwice(c, i) ==   \* mutant: released by the exit stack and once more
  /\ At(c, i, "searching") /\ Move(c, i, "executed")
  /\ releases' = releases + 2
  /\ UNCHANGED <<config, state, conv, route, tokens, acquires, out>>

SearchedKept(c, i) ==   \* mutant: a failed search keeps its token
  /\ At(c, i, "searching") /\ Move(c, i, "executed")
  /\ releases' \in {releases, releases + 1}
  /\ UNCHANGED <<config, state, conv, route, tokens, acquires, out>>

Searched(c, i) ==   \* done or failed: the exit stack sends the release
  /\ At(c, i, "searching") /\ Move(c, i, "executed")
  /\ releases' = releases + 1
  /\ UNCHANGED <<config, state, conv, route, tokens, acquires, out>>

Release(c, i) ==   \* tool.release in the finally clause
  /\ At(c, i, "executed") /\ Move(c, i, "answered")
  /\ UNCHANGED <<config, state, conv, route, limit, out>>

Released ==   \* TokenBucketWorker.release, in a concurrency group of its own
  /\ releases > 0
  /\ releases' = releases - 1 /\ tokens' = tokens + 1
  /\ UNCHANGED <<config, state, conv, calls, route, acquires, out>>

Call(c, i) ==
  \/ Malformed(c, i) \/ Create(c, i) \/ BadQuery(c, i) \/ Acquire(c, i)
  \/ Acquired(c, i) \/ Searched(c, i) \/ Release(c, i)

Handle(c) == Pending(c) \/ Ask(c) \/ Overflow(c) \/ Generated(c) \/ ToolsDone(c) \/ Interact(c)

Next == \/ Released
        \/ \E c \in Conversations : Handle(c) \/ \E i \in Slots : Call(c, i)

Spec == /\ Init /\ [][Next]_vars /\ WF_vars(Released)
        /\ \A c \in Conversations : WF_vars(Handle(c))
        /\ \A c \in Conversations, i \in Slots : WF_vars(Call(c, i))

-----------------------------------------------------------------------------
Origins == {"llm", "obs"}
Phases == {"none", "parsing", "created", "acquiring", "searching", "executed", "answered"}

(* The AgentState of a conversation, what it has appended, the phases of   *)
(* its tool calls and the counters of the router and of the rate limiter.  *)
TypeOK ==
  /\ config \in Configs
  /\ state \in [Conversations -> {"PENDING", "GENERATING", "waiting", "PROCESSING_TOOLS",
                                  "INTERACTING", "TERMINATED", "FAILED"}]
  /\ response_mask \in [Conversations -> Seq({0, 1})]
  /\ tail \in [Conversations -> Seq(Origins)] /\ logprobs \in [Conversations -> Seq(Origins)]
  /\ assistant_turns \in [Conversations -> Nat] /\ user_turns \in [Conversations -> Nat]
  /\ calls \in [Conversations -> [Slots -> Phases]]
  /\ load \in [Servers -> Nat] /\ tokens \in Nat /\ releases \in Nat
  /\ acquires \in Seq(Conversations \X Slots)

(* The output of a conversation fits, is never empty, and its mask and     *)
(* log-probabilities tell generated tokens from observations position by   *)
(* position.  Without interactions its last token is the model's, and no   *)
(* server ever has to refuse it.                                           *)
OutputAligned == \A c \in Conversations :
  /\ state[c] = "TERMINATED" =>
       LET o == out[c]
       IN /\ Len(o.response) \in 1 .. ResponseLength
          /\ Len(o.mask) = Len(o.response) /\ o.logprobs = o.response
          /\ \A i \in DOMAIN o.mask : o.mask[i] = 1 <=> o.response[i] = "llm"
          /\ ~config.interactive => o.response[Len(o.response)] = "llm"
  /\ state[c] = "FAILED" => config.interactive

(* Sessions stick to a server while the cache holds them, and servers are  *)
(* given equally many requests, each counted once at its server.           *)
Asked == {c \in Conversations : assistant_turns[c] > 0 \/ state[c] \in {"waiting", "FAILED"}}
Balanced ==
  /\ \A v, w \in Servers : load[v] <= load[w] + 1
  /\ config.max_cache_size >= Cardinality(Conversations) =>
       \A v \in Servers : load[v] = Cardinality({c \in Asked : server[c] = v})

(* The limiter never admits more than rate_limit searches, counting those  *)
(* whose release is still on its way, and gives back every token.          *)
Searching == {p \in Conversations \X Slots : calls[p[1]][p[2]] = "searching"}
RateLimited == Cardinality(Searching) + releases + tokens = RateLimit

(* Every conversation ends, although searches wait for each other.         *)
AllTerminate == <>(\A c \in Conversations : state[c] \in {"TERMINATED", "FAILED"})
=============================================================================
