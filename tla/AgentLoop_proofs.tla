-------------------------- MODULE AgentLoop_proofs ---------------------------
(***************************************************************************)
(* Proofs about the agent loop, for any number of conversations, servers   *)
(* and parallel calls, any rate limit and any multi-turn configuration.    *)
(***************************************************************************)
EXTENDS AgentLoop, SequenceTheorems, FiniteSetTheorems, TLAPS

-----------------------------------------------------------------------------
(* What Fill appends and what Cut keeps.                                   *)
LEMMA FillFacts ==
  ASSUME NEW k \in Nat, NEW S, NEW x \in S
  PROVE  /\ Fill(k, x) \in Seq(S) /\ Len(Fill(k, x)) = k
         /\ \A i \in 1 .. k : Fill(k, x)[i] = x
BY IsASeq DEF Fill

LEMMA MinFacts ==
  ASSUME NEW a \in Int, NEW b \in Int
  PROVE  Min({a, b}) = IF a <= b THEN a ELSE b
BY DEF Min

LEMMA CutFacts ==
  ASSUME NEW S, NEW seq \in Seq(S)
  PROVE  /\ Cut(seq) \in Seq(S)
         /\ Len(Cut(seq)) = IF Len(seq) <= ResponseLength THEN Len(seq) ELSE ResponseLength
         /\ \A i \in 1 .. Len(Cut(seq)) : Cut(seq)[i] = seq[i]
<1> DEFINE n == IF Len(seq) <= ResponseLength THEN Len(seq) ELSE ResponseLength
<1>1. n \in Nat /\ n <= Len(seq) /\ Cut(seq) = SubSeq(seq, 1, n)
  BY LenProperties, MinFacts, AgentAssumption DEF Cut
<1>2. \A i \in 1 .. n : seq[i] \in S
  BY <1>1, LenProperties, ElementOfSeq
<1> HIDE DEF n
<1>3. /\ SubSeq(seq, 1, n) \in Seq(S)
      /\ Len(SubSeq(seq, 1, n)) = n
      /\ \A i \in 1 .. n : SubSeq(seq, 1, n)[i] = seq[i]
  BY <1>1, <1>2, SubSeqProperties
<1> QED BY <1>1, <1>3 DEF n

LEMMA RoomFacts ==
  ASSUME TypeOK, NEW c \in Conversations
  PROVE  /\ Room(c) \in Int
         /\ \A k \in 1 .. Min({MaxPiece, Room(c)}) : k \in Nat /\ k >= 1
BY AgentAssumption, LenProperties, MinFacts DEF TypeOK, Room

(* The sequences of a conversation stay sequences.                         *)
LEMMA ExtendTypes ==
  ASSUME TypeOK, NEW c \in Conversations, NEW k \in Nat, NEW origin \in Origins,
         Extend(c, k, origin)
  PROVE  /\ response_mask' \in [Conversations -> Seq({0, 1})]
         /\ tail' \in [Conversations -> Seq(Origins)] /\ logprobs' \in [Conversations -> Seq(Origins)]
<1> DEFINE bit == IF origin = "llm" THEN 1 ELSE 0
<1>1. bit \in {0, 1}
  OBVIOUS
<1> HIDE DEF bit
<1>2. Fill(k, bit) \in Seq({0, 1}) /\ Fill(k, origin) \in Seq(Origins)
  BY <1>1, FillFacts
<1>3. /\ response_mask[c] \o Fill(k, bit) \in Seq({0, 1})
      /\ tail[c] \o Fill(k, origin) \in Seq(Origins)
      /\ logprobs[c] \o Fill(k, origin) \in Seq(Origins)
  BY <1>2, ConcatProperties DEF TypeOK
<1> QED BY <1>3 DEF TypeOK, Extend, bit

-----------------------------------------------------------------------------
(* Types.                                                                  *)
LEMMA NextTypes == TypeOK /\ [Next]_vars => TypeOK'
<1> SUFFICES ASSUME TypeOK, [Next]_vars PROVE TypeOK'
  OBVIOUS
<1>1. CASE Released
  BY <1>1 DEF Released, TypeOK, conv, route
<1>2. ASSUME NEW c \in Conversations, Pending(c) PROVE TypeOK'
  BY <1>2 DEF Pending, TypeOK, conv, route, limit
<1>3. ASSUME NEW c \in Conversations, Ask(c) PROVE TypeOK'
  <2>1. load' \in [Servers -> Nat]
    BY <1>3 DEF Ask, ChooseServer, LeastLoaded, TypeOK
  <2> QED BY <1>3, <2>1 DEF Ask, TypeOK, conv, limit
<1>4. ASSUME NEW c \in Conversations, Overflow(c) PROVE TypeOK'
  BY <1>4 DEF Overflow, TypeOK, conv, route, limit
<1>5. ASSUME NEW c \in Conversations, Generated(c) PROVE TypeOK'
  <2>1. /\ response_mask' \in [Conversations -> Seq({0, 1})]
        /\ tail' \in [Conversations -> Seq(Origins)] /\ logprobs' \in [Conversations -> Seq(Origins)]
    BY <1>5, RoomFacts, ExtendTypes DEF Generated, Origins
  <2>2. calls' \in [Conversations -> [Slots -> Phases]]
    BY <1>5 DEF Generated, TypeOK, Phases
  <2>3. state' \in [Conversations -> {"PENDING", "GENERATING", "waiting", "PROCESSING_TOOLS",
                                  "INTERACTING", "TERMINATED", "FAILED"}]
    BY <1>5 DEF Generated, Goto, TypeOK
  <2> QED BY <1>5, <2>1, <2>2, <2>3 DEF Generated, TypeOK, route, limit
<1>6. ASSUME NEW c \in Conversations, ToolsDone(c) PROVE TypeOK'
  <2>1. /\ response_mask' \in [Conversations -> Seq({0, 1})]
        /\ tail' \in [Conversations -> Seq(Origins)] /\ logprobs' \in [Conversations -> Seq(Origins)]
        /\ assistant_turns' \in [Conversations -> Nat] /\ user_turns' \in [Conversations -> Nat]
    <3>1. PICK k \in 1 .. MaxPiece :
            \/ UNCHANGED conv
            \/ /\ Extend(c, k, "obs") /\ UNCHANGED assistant_turns
               /\ user_turns' = [user_turns EXCEPT ![c] = @ + 1]
      BY <1>6 DEF ToolsDone
    <3>2. k \in Nat /\ "obs" \in Origins
      BY AgentAssumption DEF Origins
    <3>3. CASE UNCHANGED conv
      BY <3>3 DEF conv, TypeOK
    <3>4. CASE Extend(c, k, "obs") /\ UNCHANGED assistant_turns
               /\ user_turns' = [user_turns EXCEPT ![c] = @ + 1]
      BY <3>2, <3>4, ExtendTypes DEF TypeOK
    <3> QED BY <3>1, <3>3, <3>4
  <2>2. calls' \in [Conversations -> [Slots -> Phases]]
    BY <1>6 DEF ToolsDone, TypeOK, Phases, NoCalls
  <2>3. state' \in [Conversations -> {"PENDING", "GENERATING", "waiting", "PROCESSING_TOOLS",
                                  "INTERACTING", "TERMINATED", "FAILED"}]
    BY <1>6 DEF ToolsDone, Goto, TypeOK
  <2> QED BY <1>6, <2>1, <2>2, <2>3 DEF ToolsDone, TypeOK, route, limit
<1>7. ASSUME NEW c \in Conversations, Interact(c) PROVE TypeOK'
  <2>1. /\ response_mask' \in [Conversations -> Seq({0, 1})]
        /\ tail' \in [Conversations -> Seq(Origins)] /\ logprobs' \in [Conversations -> Seq(Origins)]
    BY <1>7, ExtendTypes, AgentAssumption DEF Interact, Origins
  <2>2. state' \in [Conversations -> {"PENDING", "GENERATING", "waiting", "PROCESSING_TOOLS",
                                  "INTERACTING", "TERMINATED", "FAILED"}]
    BY <1>7 DEF Interact, Goto, TypeOK
  <2>3. user_turns' \in [Conversations -> Nat]
    BY <1>7 DEF Interact, TypeOK
  <2>4. UNCHANGED <<config, assistant_turns, calls, load, tokens, releases, acquires>>
    BY <1>7 DEF Interact, route, limit
  <2> QED BY <2>1, <2>2, <2>3, <2>4 DEF TypeOK
<1>8. ASSUME NEW c \in Conversations, NEW i \in Slots, Call(c, i) PROVE TypeOK'
  <2>0. \A phase \in Phases : [calls EXCEPT ![c][i] = phase] \in [Conversations -> [Slots -> Phases]]
    BY DEF TypeOK
  <2> USE DEF Move, conv, route, limit, Phases
  <2>1. CASE Malformed(c, i) \/ Create(c, i) \/ BadQuery(c, i) \/ Release(c, i)
    BY <2>0, <2>1 DEF Malformed, Create, BadQuery, Release, TypeOK
  <2>2. CASE Acquire(c, i)
    <3>1. acquires' \in Seq(Conversations \X Slots)
      BY <2>2, AppendProperties DEF Acquire, TypeOK
    <3> QED BY <2>0, <2>2, <3>1 DEF Acquire, TypeOK
  <2>3. CASE Acquired(c, i)
    <3>1. acquires' \in Seq(Conversations \X Slots)
      BY <2>3, HeadTailProperties DEF Acquired, TypeOK
    <3>2. tokens' \in Nat
      BY <2>3 DEF Acquired, TypeOK
    <3> QED BY <2>0, <2>3, <3>1, <3>2 DEF Acquired, TypeOK
  <2>4. CASE Searched(c, i)
    BY <2>0, <2>4 DEF Searched, TypeOK
  <2> QED BY <1>8, <2>1, <2>2, <2>3, <2>4 DEF Call
<1>9. CASE UNCHANGED vars
  BY <1>9 DEF vars, TypeOK, conv, route, limit
<1> QED BY <1>1, <1>2, <1>3, <1>4, <1>5, <1>6, <1>7, <1>8, <1>9 DEF Next, Handle

LEMMA TypeInit == Init => TypeOK
<1> SUFFICES ASSUME Init PROVE TypeOK
  OBVIOUS
<1>1. /\ <<>> \in Seq({0, 1}) /\ <<>> \in Seq(Origins) /\ <<>> \in Seq(Conversations \X Slots)
  OBVIOUS
<1> QED BY <1>1, AgentAssumption DEF Init, TypeOK, NoCalls, Phases

(* States, masks, calls and counters keep their types, with any servers.   *)
THEOREM TypeCorrect == Spec => []TypeOK
BY TypeInit, NextTypes, PTL DEF Spec
-----------------------------------------------------------------------------
(* The tokens of the limiter: a call searches only within a tool turn.     *)
Idle == \A c \in Conversations, i \in Slots :
          calls[c][i] = "searching" => state[c] = "PROCESSING_TOOLS"

Limited == TypeOK /\ Idle /\ RateLimited

LEMMA SearchingFinite == TypeOK => IsFiniteSet(Searching) /\ Cardinality(Searching) \in Nat
<1>1. IsFiniteSet(Slots)
  BY AgentAssumption, FS_Interval DEF Slots
<1>2. IsFiniteSet(Conversations \X Slots)
  BY <1>1, AgentAssumption, FS_Product
<1>3. Searching \subseteq Conversations \X Slots
  BY DEF Searching
<1>4. IsFiniteSet(Searching)
  BY <1>2, <1>3, FS_Subset
<1> QED BY <1>4, FS_CardinalityType

(* A step that moves one call, not to or from a search, keeps the set.     *)
LEMMA OtherMove ==
  ASSUME TypeOK, NEW c \in Conversations, NEW i \in Slots, NEW phase \in Phases \ {"searching"},
         calls[c][i] # "searching", Move(c, i, phase)
  PROVE  Searching' = Searching
<1>1. ASSUME NEW p \in Conversations \X Slots
      PROVE  calls'[p[1]][p[2]] = "searching" <=> calls[p[1]][p[2]] = "searching"
  BY DEF Move, TypeOK
<1> QED BY <1>1 DEF Searching

LEMMA NextLimited == Limited /\ [Next]_vars => Limited'
<1> SUFFICES ASSUME Limited, [Next]_vars PROVE Limited'
  OBVIOUS
<1>0. TypeOK' /\ TypeOK
  BY NextTypes DEF Limited
<1>1. CASE Released
  <2>1. /\ UNCHANGED <<calls, state>> /\ Searching' = Searching
        /\ releases \in Nat /\ tokens \in Nat
        /\ releases' = releases - 1 /\ tokens' = tokens + 1
    BY <1>0, <1>1 DEF Released, TypeOK, Searching
  <2>2. Cardinality(Searching) \in Nat
    BY <1>0, SearchingFinite
  <2>3. RateLimited'
    BY <2>1, <2>2 DEF Limited, RateLimited
  <2> QED BY <1>0, <2>1, <2>3 DEF Limited, Idle
<1>2. ASSUME NEW c \in Conversations, Handle(c) PROVE Limited'
  <2>1. /\ UNCHANGED limit
        /\ \A d \in Conversations \ {c} : calls'[d] = calls[d] /\ state'[d] = state[d]
    <3>1. CASE Pending(c) \/ Ask(c) \/ Overflow(c) \/ Interact(c)
      BY <1>0, <3>1 DEF Pending, Ask, Overflow, Interact, Goto, TypeOK
    <3>2. CASE Generated(c)
      BY <1>0, <3>2 DEF Generated, Goto, TypeOK
    <3>3. CASE ToolsDone(c)
      BY <1>0, <3>3 DEF ToolsDone, Goto, TypeOK
    <3> QED BY <1>2, <3>1, <3>2, <3>3 DEF Handle
  <2>2. \A i \in Slots : calls[c][i] # "searching" /\ calls'[c][i] # "searching"
    <3>1. CASE Pending(c) \/ Ask(c) \/ Overflow(c) \/ Interact(c)
      BY <1>0, <3>1 DEF Pending, Ask, Overflow, Interact, Limited, Idle
    <3>2. CASE Generated(c)
      BY <1>0, <3>2 DEF Generated, Limited, Idle, TypeOK
    <3>3. CASE ToolsDone(c)
      BY <1>0, <3>3 DEF ToolsDone, NoCalls, TypeOK
    <3> QED BY <1>2, <3>1, <3>2, <3>3 DEF Handle
  <2>3. Searching' = Searching
    <3>1. ASSUME NEW p \in Conversations \X Slots
          PROVE  calls'[p[1]][p[2]] = "searching" <=> calls[p[1]][p[2]] = "searching"
      BY <2>1, <2>2
    <3> QED BY <3>1 DEF Searching
  <2> QED BY <1>0, <2>1, <2>2, <2>3 DEF Limited, Idle, RateLimited, limit
<1>3. ASSUME NEW c \in Conversations, NEW i \in Slots, Call(c, i) PROVE Limited'
  <2>0. /\ Cardinality(Searching) \in Nat /\ IsFiniteSet(Searching)
        /\ tokens \in Nat /\ releases \in Nat /\ RateLimit \in Nat
        /\ Cardinality(Searching) + releases + tokens = RateLimit
    BY <1>0, SearchingFinite, AgentAssumption DEF Limited, RateLimited, TypeOK
  <2>1. state' = state /\ state[c] = "PROCESSING_TOOLS" /\ \E phase \in Phases : Move(c, i, phase)
    BY <1>3 DEF Call, Malformed, Create, BadQuery, Acquire, Acquired, Searched, Release, At, Phases
  <2>2. Idle'
    BY <1>0, <2>1 DEF Limited, Idle, Move, TypeOK
  <2>3. CASE Malformed(c, i) \/ Create(c, i) \/ BadQuery(c, i) \/ Release(c, i) \/ Acquire(c, i)
    <3>1. /\ UNCHANGED <<tokens, releases>> /\ calls[c][i] # "searching"
          /\ \E phase \in Phases \ {"searching"} : Move(c, i, phase)
      BY <2>3 DEF Malformed, Create, BadQuery, Release, Acquire, At, Phases, limit
    <3>2. Searching' = Searching
      BY <1>0, <3>1, OtherMove
    <3> QED BY <1>0, <2>0, <2>2, <3>1, <3>2 DEF Limited, RateLimited
  <2>4. CASE Acquired(c, i)
    <3>1. /\ tokens' = tokens - 1 /\ releases' = releases /\ tokens > 0
          /\ Move(c, i, "searching") /\ calls[c][i] = "acquiring"
      BY <2>4 DEF Acquired, At
    <3>2. Searching' = Searching \cup {<<c, i>>} /\ <<c, i>> \notin Searching
      <4>1. ASSUME NEW d \in Conversations, NEW j \in Slots
            PROVE  calls'[d][j] = "searching" <=>
                     calls[d][j] = "searching" \/ (d = c /\ j = i)
        BY <1>0, <3>1 DEF Move, TypeOK
      <4>2. ASSUME NEW p \in Conversations \X Slots
            PROVE  p = <<c, i>> <=> p[1] = c /\ p[2] = i
        OBVIOUS
      <4> QED BY <3>1, <4>1, <4>2 DEF Searching
    <3>3. Cardinality(Searching') = Cardinality(Searching) + 1
      BY <2>0, <3>2, FS_AddElement
    <3> QED BY <1>0, <2>0, <2>2, <3>1, <3>3 DEF Limited, RateLimited
  <2>5. CASE Searched(c, i)
    <3>1. /\ tokens' = tokens /\ releases' = releases + 1
          /\ Move(c, i, "executed") /\ calls[c][i] = "searching"
      BY <2>5 DEF Searched, At
    <3>2. Searching' = Searching \ {<<c, i>>} /\ <<c, i>> \in Searching
      <4>1. ASSUME NEW d \in Conversations, NEW j \in Slots
            PROVE  calls'[d][j] = "searching" <=>
                     calls[d][j] = "searching" /\ ~(d = c /\ j = i)
        BY <1>0, <3>1 DEF Move, TypeOK
      <4>2. ASSUME NEW p \in Conversations \X Slots
            PROVE  p = <<c, i>> <=> p[1] = c /\ p[2] = i
        OBVIOUS
      <4> QED BY <3>1, <4>1, <4>2 DEF Searching
    <3>3. Cardinality(Searching') = Cardinality(Searching) - 1
      BY <2>0, <3>2, FS_RemoveElement
    <3> QED BY <1>0, <2>0, <2>2, <3>1, <3>3 DEF Limited, RateLimited
  <2> QED BY <1>3, <2>3, <2>4, <2>5 DEF Call
<1>4. CASE UNCHANGED vars
  BY <1>0, <1>4 DEF Limited, vars, limit, Idle, RateLimited, Searching
<1> QED BY <1>1, <1>2, <1>3, <1>4 DEF Next

(* However the calls of however many conversations interleave, at most     *)
(* rate_limit of them search at a time, and no token is lost or doubled.   *)
THEOREM LimiterExact == Spec => []RateLimited
<1>1. Init => Limited
  <2> SUFFICES ASSUME Init PROVE Idle /\ RateLimited
    BY TypeInit DEF Limited
  <2>1. Searching = {} /\ Idle
    BY DEF Init, NoCalls, Searching, Idle
  <2>2. tokens = RateLimit /\ releases = 0
    BY DEF Init
  <2> QED BY <2>1, <2>2, FS_EmptySet, AgentAssumption DEF RateLimited
<1>2. Limited => RateLimited
  BY DEF Limited
<1> QED BY <1>1, <1>2, NextLimited, PTL DEF Spec
-----------------------------------------------------------------------------
(* The mask, the origins and the log-probabilities of a conversation.      *)
Aligned(mask, seq, logs) ==
  /\ logs = seq /\ Len(mask) = Len(seq)
  /\ \A i \in 1 .. Len(seq) : mask[i] = 1 <=> seq[i] = "llm"

(* What OutputAligned says of one output.                                  *)
Good(o, interactive) ==
  /\ Len(o.response) \in 1 .. ResponseLength
  /\ Aligned(o.mask, o.response, o.logprobs)
  /\ ~interactive => o.response[Len(o.response)] = "llm"

InShape(c) ==
  /\ Aligned(response_mask[c], tail[c], logprobs[c])
  /\ state[c] \in {"PENDING", "GENERATING", "waiting", "PROCESSING_TOOLS"} /\ ~config.interactive
       => Len(tail[c]) < ResponseLength
  /\ state[c] \in {"PROCESSING_TOOLS", "INTERACTING"} => Len(tail[c]) > 0
  /\ state[c] = "PROCESSING_TOOLS" => tail[c][Len(tail[c])] = "llm"
  /\ state[c] \in {"INTERACTING", "FAILED"} => config.interactive
  /\ state[c] = "TERMINATED" => Good(out[c], config.interactive)

Shape == /\ TypeOK /\ \A c \in Conversations : InShape(c)
         /\ out \in [Conversations -> [response : Seq(Origins), mask : Seq({0, 1}),
                                       logprobs : Seq(Origins)]]

(* After seq, k times x.                                                   *)
Extended(seq, s, k, x) ==
  /\ Len(s) = Len(seq) + k
  /\ \A i \in 1 .. Len(seq) : s[i] = seq[i]
  /\ \A i \in Len(seq) + 1 .. Len(seq) + k : s[i] = x

LEMMA ConcatFill ==
  ASSUME NEW S, NEW seq \in Seq(S), NEW k \in Nat, NEW x \in S
  PROVE  seq \o Fill(k, x) \in Seq(S) /\ Extended(seq, seq \o Fill(k, x), k, x)
<1>1. /\ Fill(k, x) \in Seq(S) /\ Len(Fill(k, x)) = k /\ Len(seq) \in Nat
      /\ \A i \in 1 .. k : Fill(k, x)[i] = x
  BY FillFacts, LenProperties
<1>2. /\ seq \o Fill(k, x) \in Seq(S) /\ Len(seq \o Fill(k, x)) = Len(seq) + Len(Fill(k, x))
      /\ \A i \in 1 .. Len(seq) + Len(Fill(k, x)) :
           (seq \o Fill(k, x))[i] = IF i <= Len(seq) THEN seq[i] ELSE Fill(k, x)[i - Len(seq)]
  BY <1>1, ConcatProperties
<1>3. \A i \in Len(seq) + 1 .. Len(seq) + k : i - Len(seq) \in 1 .. k /\ i \in 1 .. Len(seq) + k
  BY <1>1
<1>4. \A i \in 1 .. Len(seq) : i \in 1 .. Len(seq) + k
  BY <1>1
<1> QED BY <1>1, <1>2, <1>3, <1>4 DEF Extended

LEMMA StaysAligned ==
  ASSUME NEW mask, NEW seq, NEW m, NEW s, NEW k \in Nat, NEW origin, NEW bit, Len(seq) \in Nat,
         Aligned(mask, seq, seq), bit = 1 <=> origin = "llm",
         Extended(seq, s, k, origin), Extended(mask, m, k, bit)
  PROVE  Aligned(m, s, s)
<1>1. Len(mask) = Len(seq) /\ \A i \in 1 .. Len(seq) : mask[i] = 1 <=> seq[i] = "llm"
  BY DEF Aligned
<1>2. ASSUME NEW i \in 1 .. Len(s) PROVE m[i] = 1 <=> s[i] = "llm"
  <2>1. CASE i \in 1 .. Len(seq)
    BY <1>1, <2>1 DEF Extended
  <2>2. CASE i \in Len(seq) + 1 .. Len(seq) + k
    <3>1. m[i] = bit /\ s[i] = origin
      BY <1>1, <2>2 DEF Extended
    <3> QED BY <3>1
  <2> QED BY <2>1, <2>2 DEF Extended
<1> QED BY <1>1, <1>2 DEF Aligned, Extended

LEMMA CutAligned ==
  ASSUME NEW mask \in Seq({0, 1}), NEW seq \in Seq(Origins), Aligned(mask, seq, seq)
  PROVE  Aligned(Cut(mask), Cut(seq), Cut(seq))
<1>1. /\ Len(Cut(mask)) = Len(Cut(seq)) /\ Len(Cut(seq)) <= Len(seq)
      /\ Len(Cut(seq)) \in Nat /\ Len(seq) \in Nat
  BY CutFacts, LenProperties, AgentAssumption DEF Aligned
<1>2. \A i \in 1 .. Len(Cut(seq)) : Cut(seq)[i] = seq[i] /\ Cut(mask)[i] = mask[i]
  BY <1>1, CutFacts
<1> QED BY <1>1, <1>2 DEF Aligned

(* The output of a conversation that ends with these sequences.            *)
LEMMA CutGood ==
  ASSUME NEW mask \in Seq({0, 1}), NEW seq \in Seq(Origins), Aligned(mask, seq, seq), Len(seq) > 0,
         NEW interactive \in BOOLEAN,
         ~interactive =>
           seq[IF Len(seq) <= ResponseLength THEN Len(seq) ELSE ResponseLength] = "llm",
         NEW o, o = [response |-> Cut(seq), mask |-> Cut(mask), logprobs |-> Cut(seq)]
  PROVE  Good(o, interactive)
<1>1. /\ Len(Cut(seq)) = IF Len(seq) <= ResponseLength THEN Len(seq) ELSE ResponseLength
      /\ Len(seq) \in Nat
      /\ \A i \in 1 .. Len(Cut(seq)) : Cut(seq)[i] = seq[i]
  BY CutFacts, LenProperties
<1>2. Len(Cut(seq)) \in 1 .. ResponseLength
  BY <1>1, AgentAssumption
<1>3. Cut(seq)[Len(Cut(seq))] = seq[Len(Cut(seq))]
  BY <1>1, <1>2
<1> QED BY <1>1, <1>2, <1>3, CutAligned DEF Good

(* A conversation that is extended, and one that is left alone.            *)
LEMMA ExtendShape ==
  ASSUME Shape, NEW c \in Conversations, NEW k \in Nat, NEW origin \in Origins,
         Extend(c, k, origin)
  PROVE  /\ Aligned(response_mask'[c], tail'[c], logprobs'[c])
         /\ response_mask'[c] \in Seq({0, 1}) /\ tail'[c] \in Seq(Origins)
         /\ logprobs'[c] = tail'[c]
         /\ Len(tail'[c]) = Len(tail[c]) + k /\ Len(tail[c]) \in Nat
         /\ Len(response_mask'[c]) = Len(tail'[c])
         /\ \A i \in Len(tail[c]) + 1 .. Len(tail[c]) + k : tail'[c][i] = origin
         /\ \A d \in Conversations \ {c} :
              UNCHANGED <<response_mask[d], tail[d], logprobs[d]>>
<1>1. /\ response_mask[c] \in Seq({0, 1}) /\ tail[c] \in Seq(Origins)
      /\ logprobs[c] = tail[c] /\ Aligned(response_mask[c], tail[c], tail[c])
  BY DEF Shape, TypeOK, InShape, Aligned
<1>2. /\ tail'[c] = tail[c] \o Fill(k, origin) /\ logprobs'[c] = tail'[c]
      /\ response_mask'[c] = response_mask[c] \o Fill(k, IF origin = "llm" THEN 1 ELSE 0)
      /\ \A d \in Conversations \ {c} :
           response_mask'[d] = response_mask[d] /\ tail'[d] = tail[d] /\ logprobs'[d] = logprobs[d]
  BY <1>1 DEF Extend, Shape, TypeOK
<1>4. Len(tail[c]) \in Nat
  BY <1>1, LenProperties
<1> DEFINE bit == IF origin = "llm" THEN 1 ELSE 0
<1>5. bit \in {0, 1} /\ (bit = 1 <=> origin = "llm")
  OBVIOUS
<1>6. response_mask'[c] = response_mask[c] \o Fill(k, bit)
  BY <1>2
<1> HIDE DEF bit
<1>7. tail'[c] \in Seq(Origins) /\ Extended(tail[c], tail'[c], k, origin)
  <2>1. LET s == tail[c] \o Fill(k, origin)
        IN s \in Seq(Origins) /\ Extended(tail[c], s, k, origin)
    BY <1>1, ConcatFill
  <2> QED BY <1>2, <2>1
<1>8. response_mask'[c] \in Seq({0, 1}) /\ Extended(response_mask[c], response_mask'[c], k, bit)
  <2>1. LET m == response_mask[c] \o Fill(k, bit)
        IN m \in Seq({0, 1}) /\ Extended(response_mask[c], m, k, bit)
    BY <1>1, <1>5, ConcatFill
  <2> QED BY <1>6, <2>1
<1>9. Aligned(response_mask'[c], tail'[c], tail'[c])
  BY <1>1, <1>4, <1>5, <1>7, <1>8, StaysAligned
<1> QED BY <1>2, <1>4, <1>7, <1>8, <1>9 DEF Aligned, Extended

LEMMA OthersShape ==
  ASSUME Shape, NEW d \in Conversations, config' = config,
         response_mask'[d] = response_mask[d], tail'[d] = tail[d], logprobs'[d] = logprobs[d],
         state'[d] = state[d], out'[d] = out[d]
  PROVE  InShape(d)'
<1>1. InShape(d)
  BY DEF Shape
<1>2. Aligned(response_mask[d], tail[d], logprobs[d])' <=> Aligned(response_mask[d], tail[d], logprobs[d])
  BY DEF Aligned
<1>3. Good(out[d], config.interactive)' <=> Good(out[d], config.interactive)
  BY DEF Good, Aligned
<1> QED BY <1>1, <1>2, <1>3 DEF InShape

LEMMA GotoOthers ==
  ASSUME Shape, NEW c \in Conversations, NEW next, Goto(c, next)
  PROVE  /\ \A d \in Conversations \ {c} : state'[d] = state[d] /\ out'[d] = out[d]
         /\ state'[c] = next
         /\ next = "TERMINATED" =>
              out'[c] = [response |-> Cut(tail'[c]), mask |-> Cut(response_mask'[c]),
                         logprobs |-> Cut(logprobs'[c])]
BY DEF Goto, Shape, TypeOK

LEMMA GotoOut ==
  ASSUME Shape, NEW c \in Conversations, NEW next, Goto(c, next),
         response_mask'[c] \in Seq({0, 1}), tail'[c] \in Seq(Origins), logprobs'[c] \in Seq(Origins)
  PROVE  out' \in [Conversations -> [response : Seq(Origins), mask : Seq({0, 1}),
                                    logprobs : Seq(Origins)]]
BY CutFacts DEF Goto, Shape

LEMMA NextShape == Shape /\ [Next]_vars => Shape'
<1> SUFFICES ASSUME Shape, [Next]_vars PROVE Shape'
  OBVIOUS
<1>0. TypeOK /\ TypeOK' /\ config \in Configs
  BY NextTypes DEF Shape, TypeOK
<1>1. ASSUME UNCHANGED <<config, state, conv, out>> PROVE Shape'
  BY <1>0, <1>1, OthersShape DEF Shape, conv
<1>2. CASE Released \/ UNCHANGED vars
  BY <1>1, <1>2 DEF Released, vars
<1>3. ASSUME NEW c \in Conversations, NEW i \in Slots, Call(c, i) PROVE Shape'
  BY <1>1, <1>3 DEF Call, Malformed, Create, BadQuery, Acquire, Acquired, Searched, Release
<1>4. ASSUME NEW c \in Conversations, Pending(c) \/ Ask(c) \/ Overflow(c) PROVE Shape'
  <2>1. /\ UNCHANGED <<config, conv, out>>
        /\ \A d \in Conversations \ {c} : state'[d] = state[d]
        /\ state'[c] \in {"GENERATING", "waiting", "FAILED"}
        /\ state[c] \in {"PENDING", "GENERATING", "waiting"}
        /\ state'[c] = "FAILED" => Room(c) < 1
    BY <1>0, <1>4 DEF Pending, Ask, Overflow, TypeOK
  <2>2. InShape(c)
    BY DEF Shape
  <2>3. state'[c] = "FAILED" => config.interactive
    <3>1. Len(response_mask[c]) = Len(tail[c]) /\ Len(tail[c]) \in Nat
      BY <1>0, <2>2, LenProperties DEF InShape, Aligned, TypeOK
    <3>2. MaxResponse >= ResponseLength /\ MaxResponse \in Nat /\ ResponseLength \in Nat
      BY AgentAssumption
    <3> QED BY <2>1, <2>2, <3>1, <3>2 DEF InShape, Room
  <2>4. InShape(c)'
    BY <2>1, <2>2, <2>3 DEF InShape, conv, Aligned
  <2>5. \A d \in Conversations \ {c} : InShape(d)'
    BY <2>1, OthersShape DEF conv
  <2> QED BY <1>0, <2>1, <2>4, <2>5 DEF Shape
<1>5. ASSUME NEW c \in Conversations, Generated(c) PROVE Shape'
  <2>1. PICK k \in 1 .. Min({MaxPiece, Room(c)}) : Extend(c, k, "llm")
    BY <1>5 DEF Generated
  <2>2. k \in Nat /\ k >= 1 /\ "llm" \in Origins
    BY <1>0, RoomFacts DEF Origins
  <2>3. PICK next : /\ Goto(c, next)
                    /\ next \in {"TERMINATED", "PROCESSING_TOOLS", "INTERACTING"}
                    /\ next = "INTERACTING" => config.interactive
                    /\ next = "PROCESSING_TOOLS" => ~LengthReached(c)
    BY <1>5 DEF Generated
  <2>4. /\ state[c] = "waiting" /\ config' = config
    BY <1>5 DEF Generated
  <2> HIDE DEF Extend
  <2>5. /\ Aligned(response_mask'[c], tail'[c], logprobs'[c])
        /\ response_mask'[c] \in Seq({0, 1}) /\ tail'[c] \in Seq(Origins)
        /\ logprobs'[c] = tail'[c] /\ Len(tail[c]) \in Nat
        /\ Len(tail'[c]) = Len(tail[c]) + k
        /\ Len(response_mask'[c]) = Len(tail'[c])
        /\ \A i \in Len(tail[c]) + 1 .. Len(tail[c]) + k : tail'[c][i] = "llm"
        /\ \A d \in Conversations \ {c} :
              UNCHANGED <<response_mask[d], tail[d], logprobs[d]>>
    BY <2>1, <2>2, ExtendShape
  <2>6. ~config.interactive => Len(tail[c]) < ResponseLength
    BY <2>4 DEF Shape, InShape
  <2>7. tail'[c][Len(tail'[c])] = "llm" /\ Len(tail'[c]) > 0
    BY <2>2, <2>5
  <2>8. ~config.interactive =>
          tail'[c][IF Len(tail'[c]) <= ResponseLength THEN Len(tail'[c]) ELSE ResponseLength] = "llm"
    <3> SUFFICES ASSUME ~config.interactive
                 PROVE  (IF Len(tail'[c]) <= ResponseLength THEN Len(tail'[c]) ELSE ResponseLength)
                          \in Len(tail[c]) + 1 .. Len(tail[c]) + k
      BY <2>5
    <3>1. ResponseLength \in Nat
      BY AgentAssumption
    <3> QED BY <2>2, <2>5, <2>6, <3>1
  <2>12. /\ \A d \in Conversations \ {c} : state'[d] = state[d] /\ out'[d] = out[d]
         /\ state'[c] = next
         /\ next = "TERMINATED" =>
              out'[c] = [response |-> Cut(tail'[c]), mask |-> Cut(response_mask'[c]),
                         logprobs |-> Cut(tail'[c])]
    BY <2>3, <2>5, GotoOthers
  <2>13. config.interactive \in BOOLEAN
    BY <1>0, AgentAssumption
  <2>9. next = "TERMINATED" => Good(out'[c], config'.interactive)
    BY <2>4, <2>5, <2>7, <2>8, <2>12, <2>13, CutGood
  <2>14. next = "PROCESSING_TOOLS" => Len(tail'[c]) < ResponseLength
    <3>1. next = "PROCESSING_TOOLS" => ~(Len(tail'[c]) >= ResponseLength)
      BY <2>3, <2>5 DEF LengthReached
    <3> QED BY <2>2, <2>5, <3>1, AgentAssumption
  <2>10. InShape(c)'
    BY <2>3, <2>4, <2>5, <2>7, <2>9, <2>12, <2>14 DEF InShape
  <2>11. \A d \in Conversations \ {c} : InShape(d)'
    BY <2>4, <2>5, <2>12, OthersShape
  <2> QED BY <1>0, <2>3, <2>5, <2>10, <2>11, GotoOut DEF Shape
<1>6. ASSUME NEW c \in Conversations, ToolsDone(c) PROVE Shape'
  <2>1. PICK k \in 1 .. MaxPiece :
          \/ /\ Len(response_mask[c]) + k >= ResponseLength
             /\ UNCHANGED conv /\ Goto(c, "TERMINATED")
          \/ /\ Len(response_mask[c]) + k < ResponseLength
             /\ Extend(c, k, "obs") /\ Goto(c, "GENERATING")
    BY <1>6 DEF ToolsDone
  <2>2. k \in Nat /\ "obs" \in Origins /\ state[c] = "PROCESSING_TOOLS" /\ config' = config
    BY <1>6, AgentAssumption DEF Origins, ToolsDone
  <2>3. InShape(c) /\ response_mask[c] \in Seq({0, 1}) /\ tail[c] \in Seq(Origins)
    BY <1>0 DEF Shape, TypeOK
  <2>4. Len(response_mask[c]) = Len(tail[c]) /\ logprobs[c] = tail[c] /\ Len(tail[c]) \in Nat
    BY <2>3, LenProperties DEF InShape, Aligned
  <2>5. CASE Extend(c, k, "obs") /\ Goto(c, "GENERATING")
             /\ Len(response_mask[c]) + k < ResponseLength
    <3>1. /\ Aligned(response_mask'[c], tail'[c], logprobs'[c])
          /\ response_mask'[c] \in Seq({0, 1}) /\ tail'[c] \in Seq(Origins)
          /\ logprobs'[c] = tail'[c] /\ Len(tail'[c]) = Len(tail[c]) + k
          /\ \A d \in Conversations \ {c} :
                UNCHANGED <<response_mask[d], tail[d], logprobs[d]>>
      BY <2>2, <2>5, ExtendShape
    <3>4. state'[c] = "GENERATING" /\ Len(tail'[c]) < ResponseLength
      BY <2>4, <2>5, <3>1, GotoOthers
    <3>2. InShape(c)'
      BY <3>1, <3>4 DEF InShape
    <3>3. \A d \in Conversations \ {c} : InShape(d)'
      BY <2>2, <2>5, <3>1, GotoOthers, OthersShape
    <3> QED BY <1>0, <2>5, <3>1, <3>2, <3>3, GotoOut DEF Shape
  <2>6. CASE UNCHANGED conv /\ Goto(c, "TERMINATED")
    <3>1. UNCHANGED <<response_mask, tail, logprobs>>
      BY <2>6 DEF conv
    <3>2. ~config.interactive =>
            tail[c][IF Len(tail[c]) <= ResponseLength THEN Len(tail[c]) ELSE ResponseLength] = "llm"
      <4>1. ~config.interactive => Len(tail[c]) < ResponseLength /\ tail[c][Len(tail[c])] = "llm"
        BY <2>2, <2>3 DEF InShape
      <4>2. ResponseLength \in Nat
        BY AgentAssumption
      <4> QED BY <2>4, <4>1, <4>2
    <3>6. /\ state'[c] = "TERMINATED"
          /\ out'[c] = [response |-> Cut(tail[c]), mask |-> Cut(response_mask[c]),
                        logprobs |-> Cut(tail[c])]
      BY <2>4, <2>6, <3>1, GotoOthers
    <3>7. config.interactive \in BOOLEAN /\ Len(tail[c]) > 0
          /\ Aligned(response_mask[c], tail[c], tail[c])
      BY <1>0, <2>2, <2>3, <2>4, AgentAssumption DEF InShape
    <3>3. Good(out'[c], config'.interactive)
      BY <2>2, <2>3, <3>2, <3>6, <3>7, CutGood
    <3>4. InShape(c)'
      BY <2>4, <3>1, <3>3, <3>6, <3>7 DEF InShape
    <3>5. \A d \in Conversations \ {c} : InShape(d)'
      BY <2>2, <2>6, <3>1, GotoOthers, OthersShape
    <3> QED BY <1>0, <2>3, <2>4, <2>6, <3>1, <3>4, <3>5, GotoOut DEF Shape
  <2> QED BY <2>1, <2>5, <2>6
<1>7. ASSUME NEW c \in Conversations, Interact(c) PROVE Shape'
  <2>1. PICK k \in 1 .. MaxPiece : Extend(c, k, "obs")
    BY <1>7 DEF Interact
  <2>2. PICK next \in {"TERMINATED", "GENERATING"} : Goto(c, next)
    BY <1>7 DEF Interact
  <2>3. /\ k \in Nat /\ k >= 1 /\ "obs" \in Origins /\ config' = config /\ config.interactive
        /\ state[c] = "INTERACTING"
    BY <1>7, AgentAssumption DEF Origins, Interact, Shape, InShape
  <2>4. /\ Aligned(response_mask'[c], tail'[c], logprobs'[c])
        /\ response_mask'[c] \in Seq({0, 1}) /\ tail'[c] \in Seq(Origins)
        /\ logprobs'[c] = tail'[c] /\ Len(tail'[c]) = Len(tail[c]) + k /\ Len(tail[c]) \in Nat
        /\ \A d \in Conversations \ {c} :
              UNCHANGED <<response_mask[d], tail[d], logprobs[d]>>
    BY <2>1, <2>3, ExtendShape
  <2>8. /\ state'[c] = next
        /\ next = "TERMINATED" =>
             out'[c] = [response |-> Cut(tail'[c]), mask |-> Cut(response_mask'[c]),
                        logprobs |-> Cut(tail'[c])]
    BY <2>2, <2>4, GotoOthers
  <2>9. config.interactive \in BOOLEAN /\ Len(tail'[c]) > 0
    BY <1>0, <2>3, <2>4, AgentAssumption
  <2>5. next = "TERMINATED" => Good(out'[c], config'.interactive)
    BY <2>3, <2>4, <2>8, <2>9, CutGood
  <2>6. InShape(c)'
    BY <2>2, <2>3, <2>4, <2>5, <2>8 DEF InShape
  <2>7. \A d \in Conversations \ {c} : InShape(d)'
    BY <2>2, <2>3, <2>4, GotoOthers, OthersShape
  <2> QED BY <1>0, <2>2, <2>4, <2>6, <2>7, GotoOut DEF Shape
<1> QED BY <1>2, <1>3, <1>4, <1>5, <1>6, <1>7 DEF Next, Handle

(* A finished conversation is cut position by position: tokens, mask and   *)
(* log-probabilities belong together, whatever the turns were, and without *)
(* interactions the model has the last word and no server refuses it.      *)
THEOREM OutputIsAligned == Spec => []OutputAligned
<1>1. Init => Shape
  <2> SUFFICES ASSUME Init PROVE Shape
    OBVIOUS
  <2>1. /\ <<>> \in Seq({0, 1}) /\ <<>> \in Seq(Origins) /\ Len(<<>>) = 0
    OBVIOUS
  <2> QED BY <2>1, TypeInit, AgentAssumption DEF Init, Shape, InShape, Aligned, NoOut
<1>2. Shape => OutputAligned
  <2> SUFFICES ASSUME Shape, NEW c \in Conversations
               PROVE  /\ state[c] = "TERMINATED" =>
                          LET o == out[c]
                          IN /\ Len(o.response) \in 1 .. ResponseLength
                             /\ Len(o.mask) = Len(o.response) /\ o.logprobs = o.response
                             /\ \A i \in DOMAIN o.mask : o.mask[i] = 1 <=> o.response[i] = "llm"
                             /\ ~config.interactive => o.response[Len(o.response)] = "llm"
                      /\ state[c] = "FAILED" => config.interactive
    BY DEF OutputAligned
  <2>1. DOMAIN out[c].mask = 1 .. Len(out[c].mask)
    BY LenProperties DEF Shape
  <2> QED BY <2>1 DEF Shape, InShape, Good, Aligned
<1> QED BY <1>1, <1>2, NextShape, PTL DEF Spec

-----------------------------------------------------------------------------
(* Routing.  With room for every conversation the cache holds exactly the  *)
(* conversations that have asked, each with the server it is counted at.   *)
Distinct(q) == \A i, j \in 1 .. Len(q) : q[i][1] = q[j][1] => i = j
Holds(q, c) == \E i \in 1 .. Len(q) : q[i][1] = c
AtServer(v) == {c \in Asked : server[c] = v}

Sticky ==
  /\ Distinct(cache)
  /\ \A c \in Conversations : c \in Asked <=> Holds(cache, c)
  /\ \A i \in 1 .. Len(cache) : cache[i][2] = server[cache[i][1]]
  /\ \A v \in Servers : load[v] = Cardinality(AtServer(v))

Even == \A v, w \in Servers : load[v] <= load[w] + 1
Roomy == config.max_cache_size >= Cardinality(Conversations)

RouteInv ==
  /\ TypeOK /\ server \in [Conversations -> Servers] /\ cache \in Seq(Conversations \X Servers)
  /\ Even /\ (Roomy => Sticky)

(* The entry that was used goes to the end.                                *)
LEMMA MovedToEnd ==
  ASSUME NEW S, NEW q \in Seq(S), NEW i \in 1 .. Len(q)
  PROVE  LET s == Append(RemoveAt(q, i), q[i])
         IN /\ s \in Seq(S) /\ Len(s) = Len(q)
            /\ \A j \in 1 .. Len(q) :
                 s[j] = IF j < i THEN q[j] ELSE IF j < Len(q) THEN q[j + 1] ELSE q[i]
<1> DEFINE m == Len(q)
           a == SubSeq(q, 1, i - 1)
           b == SubSeq(q, i + 1, m)
           r == a \o b
           s == Append(r, q[i])
<1>1. m \in Nat /\ i \in 1 .. m /\ \A j \in 1 .. m : q[j] \in S
  BY LenProperties, ElementOfSeq
<1> HIDE DEF m
<1>2. a \in Seq(S) /\ Len(a) = i - 1 /\ \A j \in 1 .. i - 1 : a[j] = q[j]
  <2>1. (\A j \in 1 .. i - 1 : q[j] \in S) /\ 1 \in Int /\ i - 1 \in Int
    BY <1>1
  <2>2. /\ a \in Seq(S) /\ Len(a) = (IF 1 <= i - 1 THEN i - 1 - 1 + 1 ELSE 0)
        /\ \A j \in 1 .. i - 1 - 1 + 1 : a[j] = q[1 + j - 1]
    BY <2>1, SubSeqProperties
  <2>3. \A j \in 1 .. i - 1 : a[j] = q[1 + j - 1] /\ 1 + j - 1 = j
    BY <1>1, <2>2
  <2> QED BY <1>1, <2>2, <2>3
<1>3. b \in Seq(S) /\ Len(b) = m - i /\ \A j \in 1 .. m - i : b[j] = q[i + j]
  <2>1. (\A j \in i + 1 .. m : q[j] \in S) /\ i + 1 \in Int /\ m \in Int
    BY <1>1
  <2>2. /\ b \in Seq(S) /\ Len(b) = (IF i + 1 <= m THEN m - (i + 1) + 1 ELSE 0)
        /\ \A j \in 1 .. m - (i + 1) + 1 : b[j] = q[(i + 1) + j - 1]
    BY <2>1, SubSeqProperties
  <2>3. \A j \in 1 .. m - i : b[j] = q[(i + 1) + j - 1] /\ (i + 1) + j - 1 = i + j
    BY <1>1, <2>2
  <2> QED BY <1>1, <2>2, <2>3
<1> HIDE DEF a, b
<1>4. /\ r \in Seq(S) /\ Len(r) = m - 1
      /\ \A j \in 1 .. m - 1 : r[j] = IF j < i THEN q[j] ELSE q[j + 1]
  <2>1. /\ r \in Seq(S) /\ Len(r) = Len(a) + Len(b)
        /\ \A j \in 1 .. Len(a) + Len(b) : r[j] = IF j <= Len(a) THEN a[j] ELSE b[j - Len(a)]
    BY <1>2, <1>3, ConcatProperties
  <2>2. Len(a) + Len(b) = m - 1
    BY <1>1, <1>2, <1>3
  <2>3. ASSUME NEW j \in 1 .. m - 1
        PROVE  r[j] = IF j < i THEN q[j] ELSE q[j + 1]
    <3>1. CASE j < i
      BY <1>1, <1>2, <2>1, <2>2, <3>1
    <3>2. CASE ~(j < i)
      <4>1. j - Len(a) \in 1 .. m - i /\ i + (j - Len(a)) = j + 1 /\ ~(j <= Len(a))
        BY <1>1, <1>2, <3>2
      <4>2. r[j] = b[j - Len(a)]
        BY <2>1, <2>2, <4>1
      <4> QED BY <1>3, <3>2, <4>1, <4>2
    <3> QED BY <3>1, <3>2
  <2> QED BY <2>1, <2>2, <2>3
<1>5. r = RemoveAt(q, i)
  BY DEF RemoveAt, r, a, b, m
<1> HIDE DEF r
<1>6. /\ s \in Seq(S) /\ Len(s) = m /\ s[m] = q[i] /\ \A j \in 1 .. m - 1 : s[j] = r[j]
  <2>1. /\ s \in Seq(S) /\ Len(s) = Len(r) + 1 /\ s[Len(r) + 1] = q[i]
        /\ \A j \in 1 .. Len(r) : s[j] = r[j]
    BY <1>1, <1>4, AppendProperties
  <2>2. Len(r) + 1 = m
    BY <1>1, <1>4
  <2> QED BY <1>4, <2>1, <2>2
<1> HIDE DEF s
<1>7. \A j \in 1 .. m : s[j] = IF j < i THEN q[j] ELSE IF j < m THEN q[j + 1] ELSE q[i]
  <2> SUFFICES ASSUME NEW j \in 1 .. m
               PROVE  s[j] = IF j < i THEN q[j] ELSE IF j < m THEN q[j + 1] ELSE q[i]
    OBVIOUS
  <2>1. CASE j = m
    BY <1>1, <1>6, <2>1
  <2>2. CASE j < m
    <3>1. j \in 1 .. m - 1
      BY <1>1, <2>2
    <3> QED BY <1>4, <1>6, <2>2, <3>1
  <2> QED BY <1>1, <2>1, <2>2
<1>8. s = Append(RemoveAt(q, i), q[i])
  BY <1>5 DEF s
<1> QED BY <1>6, <1>7, <1>8 DEF m

(* Entries of different conversations are no more than the conversations.  *)
LEMMA RoomInCache ==
  ASSUME NEW S, NEW q \in Seq(Conversations \X S), Distinct(q), NEW c \in Conversations, ~Holds(q, c)
  PROVE  Len(q) < Cardinality(Conversations)
<1> DEFINE key == [i \in 1 .. Len(q) |-> q[i][1]]
           others == Conversations \ {c}
<1>1. Len(q) \in Nat /\ \A i \in 1 .. Len(q) : q[i][1] \in Conversations
  BY LenProperties, ElementOfSeq
<1>2. \A i \in 1 .. Len(q) : q[i][1] \in others
  BY <1>1 DEF Holds
<1>3. key \in Injection(1 .. Len(q), others)
  BY <1>2 DEF Distinct, Injection, IsInjective
<1>4. IsFiniteSet(others) /\ Cardinality(others) = Cardinality(Conversations) - 1
  BY AgentAssumption, FS_RemoveElement
<1>5. Cardinality(1 .. Len(q)) <= Cardinality(others) /\ Cardinality(1 .. Len(q)) = Len(q)
  <2> HIDE DEF key, others
  <2>1. Cardinality(1 .. Len(q)) <= Cardinality(others)
    BY <1>3, <1>4, FS_Injection
  <2>2. Cardinality(1 .. Len(q)) = Len(q)
    BY <1>1, FS_Interval
  <2> QED BY <2>1, <2>2
<1>6. Cardinality(Conversations) \in Nat
  BY AgentAssumption, FS_CardinalityType
<1> DEFINE m == Len(q)
           n == Cardinality(Conversations)
<1>7. m <= n - 1 /\ m \in Nat /\ n \in Nat
  BY <1>1, <1>4, <1>5, <1>6
<1> HIDE DEF m, n
<1>8. m < n
  BY <1>7
<1> QED BY <1>8 DEF m, n

LEMMA InitRoute == Init => RouteInv
<1> SUFFICES ASSUME Init PROVE RouteInv
  OBVIOUS
<1>1. TypeOK
  BY TypeInit
<1>2. server \in [Conversations -> Servers]
  BY AgentAssumption DEF Init
<1>3. cache = <<>> /\ cache \in Seq(Conversations \X Servers) /\ Len(cache) = 0
  BY EmptySeq DEF Init
<1>4. Even /\ Asked = {}
  BY DEF Init, Even, Asked
<1>5. \A v \in Servers : AtServer(v) = {} /\ load[v] = 0
  BY <1>4 DEF AtServer, Init
<1>6. Sticky
  BY <1>3, <1>4, <1>5, FS_EmptySet DEF Sticky, Distinct, Holds
<1> QED BY <1>1, <1>2, <1>3, <1>4, <1>6 DEF RouteInv

(* A step that does not choose a server leaves the asked ones as they are. *)
LEMMA RouteKept ==
  ASSUME RouteInv, TypeOK', config' = config, UNCHANGED route, Asked' = Asked
  PROVE  RouteInv'
<1>1. UNCHANGED <<config, server, load, cache>> /\ Asked' = Asked
  BY DEF route
<1>2. \A v : AtServer(v)' = AtServer(v)
  BY <1>1 DEF AtServer
<1>3. Even' /\ (Roomy' => Sticky')
  BY <1>1, <1>2 DEF RouteInv, Even, Roomy, Sticky
<1> QED BY <1>1, <1>3 DEF RouteInv

(* A cached conversation goes back to its server.                          *)
LEMMA CachedRoute ==
  ASSUME RouteInv, TypeOK', NEW c \in Conversations, config' = config, Asked' = Asked \cup {c},
         UNCHANGED load, NEW i \in 1 .. Len(cache), cache[i][1] = c,
         server' = [server EXCEPT ![c] = cache[i][2]],
         cache' = Append(RemoveAt(cache, i), cache[i])
  PROVE  RouteInv'
<1> DEFINE q == cache
           m == Len(cache)
           s == cache'
<1>1. /\ q \in Seq(Conversations \X Servers) /\ server \in [Conversations -> Servers] /\ Even
      /\ m \in Nat /\ \A j \in 1 .. m : q[j] \in Conversations \X Servers
  BY LenProperties, ElementOfSeq DEF RouteInv
<1>2. /\ s \in Seq(Conversations \X Servers) /\ Len(s) = m
      /\ \A j \in 1 .. m : s[j] = IF j < i THEN q[j] ELSE IF j < m THEN q[j + 1] ELSE q[i]
  BY <1>1, MovedToEnd
<1>3. server' \in [Conversations -> Servers] /\ Even'
  BY <1>1 DEF Even
<1>4. ASSUME Roomy
      PROVE  Sticky'
  <2>1. /\ Distinct(q) /\ (\A d \in Conversations : d \in Asked <=> Holds(q, d))
        /\ \A j \in 1 .. m : q[j][2] = server[q[j][1]]
        /\ \A v \in Servers : load[v] = Cardinality(AtServer(v))
    BY <1>4 DEF RouteInv, Sticky
  <2>2. c \in Asked /\ Asked' = Asked
    BY <2>1 DEF Holds
  <2>3. server' = server
    BY <1>1, <2>1
  <2>4. \A v : AtServer(v)' = AtServer(v)
    BY <2>2, <2>3 DEF AtServer
  <2> DEFINE old(j) == IF j < i THEN j ELSE IF j < m THEN j + 1 ELSE i
             new(j) == IF j < i THEN j ELSE IF j = i THEN m ELSE j - 1
  <2>5. \A j \in 1 .. m : old(j) \in 1 .. m /\ s[j] = q[old(j)]
    BY <1>1, <1>2
  <2>6. \A j \in 1 .. m : new(j) \in 1 .. m /\ old(new(j)) = j
    BY <1>1
  <2>7. \A j, k \in 1 .. m : old(j) = old(k) => j = k
    BY <1>1
  <2> HIDE DEF old, new, q, m, s
  <2>8. Distinct(s)
    <3> SUFFICES ASSUME NEW j \in 1 .. m, NEW k \in 1 .. m, s[j][1] = s[k][1] PROVE j = k
      BY <1>2 DEF Distinct
    <3>1. old(j) \in 1 .. Len(q) /\ old(k) \in 1 .. Len(q) /\ q[old(j)][1] = q[old(k)][1]
      BY <2>5 DEF q, m
    <3>2. old(j) = old(k)
      BY <2>1, <3>1 DEF Distinct
    <3> QED BY <2>7, <3>2
  <2>9. \A d \in Conversations : Holds(s, d) <=> Holds(q, d)
    <3>1. ASSUME NEW d \in Conversations, Holds(s, d)
          PROVE  Holds(q, d)
      <4>1. PICK j \in 1 .. m : s[j][1] = d
        BY <1>2, <3>1 DEF Holds
      <4>2. old(j) \in 1 .. Len(q) /\ q[old(j)][1] = d
        BY <2>5, <4>1 DEF q, m
      <4> QED BY <4>2 DEF Holds
    <3>2. ASSUME NEW d \in Conversations, Holds(q, d)
          PROVE  Holds(s, d)
      <4>1. PICK j \in 1 .. m : q[j][1] = d
        BY <3>2 DEF Holds, q, m
      <4>2. new(j) \in 1 .. Len(s) /\ s[new(j)][1] = d
        BY <1>2, <2>5, <2>6, <4>1
      <4> QED BY <4>2 DEF Holds
    <3> QED BY <3>1, <3>2
  <2>10. \A j \in 1 .. Len(s) : s[j][2] = server[s[j][1]]
    BY <1>2, <2>1, <2>5
  <2>11. /\ Distinct(cache') /\ (\A d \in Conversations : d \in Asked' <=> Holds(cache', d))
         /\ (\A j \in 1 .. Len(cache') : cache'[j][2] = server'[cache'[j][1]])
         /\ \A v \in Servers : load'[v] = Cardinality(AtServer(v)')
    BY <2>1, <2>2, <2>3, <2>4, <2>8, <2>9, <2>10 DEF s
  <2> QED BY <2>11 DEF Sticky
<1>5. Roomy' <=> Roomy
  BY DEF Roomy
<1> QED BY <1>2, <1>3, <1>4, <1>5 DEF RouteInv

(* A conversation the cache does not hold goes to a least loaded server.   *)
LEMMA NewRoute ==
  ASSUME RouteInv, TypeOK', NEW c \in Conversations, config' = config, Asked' = Asked \cup {c},
         ~Holds(cache, c), NEW v \in LeastLoaded,
         server' = [server EXCEPT ![c] = v], load' = [load EXCEPT ![v] = @ + 1],
         cache' = Append(IF Len(cache) < config.max_cache_size THEN cache ELSE Tail(cache), <<c, v>>)
  PROVE  RouteInv'
<1>1. /\ cache \in Seq(Conversations \X Servers) /\ server \in [Conversations -> Servers] /\ Even
      /\ TypeOK /\ v \in Servers /\ \A w \in Servers : load[v] <= load[w]
  BY DEF RouteInv, LeastLoaded
<1>2. /\ config.max_cache_size \in Nat \ {0} /\ load \in [Servers -> Nat]
      /\ Len(cache) \in Nat /\ \A j \in 1 .. Len(cache) : cache[j] \in Conversations \X Servers
  BY <1>1, AgentAssumption, LenProperties, ElementOfSeq DEF TypeOK
<1>3. cache' \in Seq(Conversations \X Servers)
  <2>1. Len(cache) < config.max_cache_size \/ cache # <<>>
    BY <1>2
  <2>2. Tail(cache) \in Seq(Conversations \X Servers) \/ cache = <<>>
    BY <1>1, HeadTailProperties
  <2>3. <<c, v>> \in Conversations \X Servers
    BY <1>1
  <2>4. (IF Len(cache) < config.max_cache_size THEN cache ELSE Tail(cache))
          \in Seq(Conversations \X Servers)
    BY <1>1, <2>1, <2>2
  <2> QED BY <2>3, <2>4, AppendProperties
<1>4. server' \in [Conversations -> Servers]
  BY <1>1
<1>5. Even'
  <2> SUFFICES ASSUME NEW u \in Servers, NEW w \in Servers PROVE load'[u] <= load'[w] + 1
    BY DEF Even
  <2>1. /\ load[u] \in Nat /\ load[w] \in Nat /\ load[v] \in Nat
        /\ load[u] <= load[w] + 1 /\ load[v] <= load[w] /\ load[u] <= load[v] + 1
    BY <1>1, <1>2 DEF Even
  <2>2. load'[u] = (IF u = v THEN load[v] + 1 ELSE load[u]) /\ load'[w] = (IF w = v THEN load[v] + 1 ELSE load[w])
    BY <1>2
  <2> QED BY <2>1, <2>2
<1>6. ASSUME Roomy
      PROVE  Sticky'
  <2>1. /\ Distinct(cache) /\ (\A d \in Conversations : d \in Asked <=> Holds(cache, d))
        /\ \A j \in 1 .. Len(cache) : cache[j][2] = server[cache[j][1]]
        /\ \A w \in Servers : load[w] = Cardinality(AtServer(w))
    BY <1>6 DEF RouteInv, Sticky
  <2>2. c \notin Asked
    BY <2>1
  <2>3. Len(cache) < config.max_cache_size
    <3>1. Len(cache) < Cardinality(Conversations)
      BY <1>1, <2>1, RoomInCache
    <3>2. Cardinality(Conversations) \in Nat /\ config.max_cache_size >= Cardinality(Conversations)
      BY <1>6, AgentAssumption, FS_CardinalityType DEF Roomy
    <3> DEFINE m == Len(cache)
               n == Cardinality(Conversations)
               k == config.max_cache_size
    <3>3. m \in Nat /\ n \in Nat /\ k \in Nat /\ m < n /\ k >= n
      BY <1>2, <3>1, <3>2
    <3> HIDE DEF m, n, k
    <3>4. m < k
      BY <3>3
    <3> QED BY <3>4 DEF m, k
  <2> DEFINE m == Len(cache)
             s == cache'
  <2>4. /\ Len(s) = m + 1 /\ s[m + 1] = <<c, v>> /\ \A j \in 1 .. m : s[j] = cache[j]
    <3>1. cache' = Append(cache, <<c, v>>) /\ <<c, v>> \in Conversations \X Servers
      BY <1>1, <2>3
    <3> QED BY <1>1, <3>1, AppendProperties
  <2>5. m \in Nat /\ \A j \in 1 .. m : cache[j][1] \in Conversations /\ cache[j][1] # c
    BY <1>2 DEF Holds
  <2>6. Distinct(s)
    <3> SUFFICES ASSUME NEW j \in 1 .. m + 1, NEW k \in 1 .. m + 1, s[j][1] = s[k][1] PROVE j = k
      BY <2>4 DEF Distinct
    <3>1. (j \in 1 .. m \/ j = m + 1) /\ (k \in 1 .. m \/ k = m + 1)
      BY <2>5
    <3>2. CASE j \in 1 .. m /\ k \in 1 .. m
      BY <2>1, <2>4, <3>2 DEF Distinct
    <3>3. CASE j = m + 1 /\ k \in 1 .. m
      BY <2>4, <2>5, <3>3
    <3>4. CASE j \in 1 .. m /\ k = m + 1
      BY <2>4, <2>5, <3>4
    <3> QED BY <3>1, <3>2, <3>3, <3>4
  <2>7. \A d \in Conversations : d \in Asked' <=> Holds(s, d)
    <3>1. 1 .. m + 1 = (1 .. m) \cup {m + 1}
      BY <2>5
    <3>2. \A d \in Conversations : Holds(s, d) <=> (Holds(cache, d) \/ d = c)
      BY <2>4, <3>1 DEF Holds
    <3> QED BY <2>1, <3>2
  <2>8. \A j \in 1 .. Len(s) : s[j][2] = server'[s[j][1]]
    <3> SUFFICES ASSUME NEW j \in 1 .. m + 1 PROVE s[j][2] = server'[s[j][1]]
      BY <2>4
    <3>1. CASE j = m + 1
      BY <1>1, <2>4, <3>1
    <3>2. CASE j \in 1 .. m
      <4>1. server'[cache[j][1]] = server[cache[j][1]]
        BY <1>1, <2>5, <3>2
      <4> QED BY <2>1, <2>4, <3>2, <4>1
    <3>3. j = m + 1 \/ j \in 1 .. m
      BY <2>5
    <3> QED BY <3>1, <3>2, <3>3
  <2>9. ASSUME NEW w \in Servers
        PROVE  load'[w] = Cardinality(AtServer(w)')
    <3>1. \A d \in Asked : d # c /\ d \in Conversations /\ server'[d] = server[d]
      BY <1>1, <2>2 DEF Asked
    <3>2. server'[c] = v
      BY <1>1
    <3>3. CASE w = v
      <4>1. AtServer(w)' = AtServer(w) \cup {c} /\ c \notin AtServer(w)
        BY <2>2, <3>1, <3>2, <3>3 DEF AtServer
      <4>2. AtServer(w) \subseteq Conversations
        BY DEF AtServer, Asked
      <4>3. IsFiniteSet(AtServer(w))
        BY <4>2, AgentAssumption, FS_Subset
      <4>4. Cardinality(AtServer(w)') = Cardinality(AtServer(w)) + 1
        BY <4>1, <4>3, FS_AddElement
      <4> QED BY <1>2, <2>1, <3>3, <4>4
    <3>4. CASE w # v
      <4>1. AtServer(w)' = AtServer(w)
        BY <3>1, <3>2, <3>4 DEF AtServer
      <4> QED BY <1>2, <2>1, <3>4, <4>1
    <3> QED BY <3>3, <3>4
  <2> QED BY <2>6, <2>7, <2>8, <2>9 DEF Sticky
<1>7. Roomy' <=> Roomy
  BY DEF Roomy
<1> QED BY <1>3, <1>4, <1>5, <1>6, <1>7 DEF RouteInv

LEMMA NextRoute == RouteInv /\ [Next]_vars => RouteInv'
<1> SUFFICES ASSUME RouteInv, [Next]_vars PROVE RouteInv'
  OBVIOUS
<1>1. TypeOK /\ TypeOK'
  BY NextTypes DEF RouteInv
<1>2. ASSUME NEW c \in Conversations, Ask(c)
      PROVE  RouteInv'
  <2>1. /\ config' = config /\ UNCHANGED assistant_turns /\ state[c] = "GENERATING" /\ ChooseServer(c)
        /\ state' = [state EXCEPT ![c] = "waiting"]
    BY <1>2 DEF Ask, conv
  <2>2. Asked' = Asked \cup {c}
    BY <1>1, <2>1 DEF Asked, TypeOK
  <2>3. DOMAIN cache = 1 .. Len(cache)
    BY LenProperties DEF RouteInv
  <2>4. Cached(c) <=> Holds(cache, c)
    BY <2>3 DEF Cached, Holds
  <2>5. CASE /\ UNCHANGED load
             /\ \E i \in DOMAIN cache :
                  /\ cache[i][1] = c
                  /\ server' = [server EXCEPT ![c] = cache[i][2]]
                  /\ cache' = Append(RemoveAt(cache, i), cache[i])
    BY <1>1, <2>1, <2>2, <2>3, <2>5, CachedRoute
  <2>6. CASE /\ ~Cached(c)
             /\ \E v \in LeastLoaded :
                  /\ server' = [server EXCEPT ![c] = v]
                  /\ load' = [load EXCEPT ![v] = @ + 1]
                  /\ cache' = Append(IF Len(cache) < config.max_cache_size THEN cache ELSE Tail(cache),
                                     <<c, v>>)
    BY <1>1, <2>1, <2>2, <2>4, <2>6, NewRoute
  <2> QED BY <2>1, <2>5, <2>6 DEF ChooseServer
<1>3. ASSUME NEW c \in Conversations, NEW to, NEW turns,
             state' = [state EXCEPT ![c] = to], assistant_turns' = turns,
             \/ turns = assistant_turns /\ (to \in {"waiting", "FAILED"} <=> state[c] \in {"waiting", "FAILED"})
             \/ state[c] = "waiting" /\ turns = [assistant_turns EXCEPT ![c] = @ + 1]
      PROVE  Asked' = Asked
  <2>1. ASSUME NEW d \in Conversations
        PROVE  /\ assistant_turns'[d] > 0 \/ state'[d] \in {"waiting", "FAILED"}
                    <=> assistant_turns[d] > 0 \/ state[d] \in {"waiting", "FAILED"}
    <3>1. /\ assistant_turns[d] \in Nat /\ DOMAIN state = Conversations
          /\ DOMAIN assistant_turns = Conversations
      BY <1>1 DEF TypeOK
    <3>2. CASE d = c
      BY <1>3, <3>1, <3>2
    <3>3. CASE d # c
      BY <1>3, <3>1, <3>3
    <3> QED BY <3>2, <3>3
  <2> QED BY <2>1 DEF Asked
<1>4. ASSUME NEW c \in Conversations, Pending(c) \/ Overflow(c) \/ Generated(c) \/ ToolsDone(c) \/ Interact(c)
      PROVE  RouteInv'
  <2>1. config' = config /\ UNCHANGED route
    BY <1>4 DEF Pending, Overflow, Generated, ToolsDone, Interact
  <2>2. Asked' = Asked
    <3>1. CASE Pending(c)
      BY <1>3, <3>1 DEF Pending, conv
    <3>2. CASE Overflow(c)
      BY <1>3, <3>2 DEF Overflow, conv
    <3>3. CASE Generated(c)
      BY <1>3, <3>3 DEF Generated, Goto
    <3>4. CASE ToolsDone(c)
      <4>1. /\ state[c] = "PROCESSING_TOOLS" /\ UNCHANGED assistant_turns
            /\ \E to \in {"TERMINATED", "GENERATING"} : state' = [state EXCEPT ![c] = to]
        BY <3>4 DEF ToolsDone, Goto, conv
      <4> QED BY <1>3, <4>1
    <3>5. CASE Interact(c)
      <4>1. /\ state[c] = "INTERACTING" /\ UNCHANGED assistant_turns
            /\ \E to \in {"TERMINATED", "GENERATING"} : state' = [state EXCEPT ![c] = to]
        BY <3>5 DEF Interact, Goto
      <4> QED BY <1>3, <4>1
    <3> QED BY <1>4, <3>1, <3>2, <3>3, <3>4, <3>5
  <2> QED BY <1>1, <2>1, <2>2, RouteKept
<1>5. ASSUME \/ Released \/ UNCHANGED vars
             \/ \E c \in Conversations, i \in Slots : Call(c, i)
      PROVE  RouteInv'
  <2>1. UNCHANGED <<config, route, state, assistant_turns>>
    BY <1>5 DEF Released, vars, conv, Call, Malformed, Create, BadQuery, Acquire, Acquired,
                Searched, Release
  <2>2. Asked' = Asked
    BY <2>1 DEF Asked
  <2> QED BY <1>1, <2>1, <2>2, RouteKept
<1> QED BY <1>2, <1>4, <1>5 DEF Next, Handle

(* _choose_server: for any servers, conversations and cache size no server *)
(* is given two requests more than another, and while the cache has room   *)
(* for every conversation each is counted once, at the server that has all *)
(* its turns.                                                              *)
THEOREM RequestsBalanced == Spec => []Balanced
<1>1. RouteInv => Balanced
  BY DEF RouteInv, Even, Roomy, Sticky, AtServer, Balanced
<1> QED BY <1>1, InitRoute, NextRoute, PTL DEF Spec
=============================================================================
