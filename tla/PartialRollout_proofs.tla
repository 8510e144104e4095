------------------------ MODULE PartialRollout_proofs ------------------------
(***************************************************************************)
(* Proofs about interrupted generation, for any number of samples, copies, *)
(* servers and synchronizations, and responses of any length.              *)
(***************************************************************************)
EXTENDS PartialRollout, SequenceTheorems, TLAPS

-----------------------------------------------------------------------------
(* What Cut keeps.                                                         *)
Cutoff(n) == IF n < ResponseLength THEN n ELSE ResponseLength

LEMMA CutFacts ==
  ASSUME NEW S, NEW seq \in Seq(S)
  PROVE  /\ Cut(seq) \in Seq(S) /\ Len(seq) \in Nat
         /\ Len(Cut(seq)) = Cutoff(Len(seq)) /\ Len(Cut(seq)) <= Len(seq)
         /\ \A i \in 1 .. Len(Cut(seq)) : Cut(seq)[i] = seq[i] /\ i \in 1 .. Len(seq)
<1> DEFINE n == Cutoff(Len(seq))
<1>1. n \in Nat /\ n <= Len(seq) /\ Len(seq) \in Nat /\ Cut(seq) = SubSeq(seq, 1, n)
  BY LenProperties, PartialAssumption DEF Cut, Cutoff
<1>2. \A i \in 1 .. n : seq[i] \in S
  BY <1>1, LenProperties, ElementOfSeq
<1> HIDE DEF n
<1>3. /\ SubSeq(seq, 1, n) \in Seq(S)
      /\ Len(SubSeq(seq, 1, n)) = n
      /\ \A i \in 1 .. n : SubSeq(seq, 1, n)[i] = seq[i]
  BY <1>1, <1>2, SubSeqProperties
<1> QED BY <1>1, <1>3 DEF n

LEMMA ConcatFacts ==
  ASSUME NEW S, NEW s \in Seq(S), NEW t \in Seq(S)
  PROVE  /\ s \o t \in Seq(S) /\ Len(s \o t) = Len(s) + Len(t)
         /\ Len(s) \in Nat /\ Len(t) \in Nat
         /\ \A i \in 1 .. Len(s) : (s \o t)[i] = s[i]
         /\ \A i \in Len(s) + 1 .. Len(s) + Len(t) : (s \o t)[i] = t[i - Len(s)]
<1>1. Len(s) \in Nat /\ Len(t) \in Nat
  BY LenProperties
<1>2. /\ s \o t \in Seq(S) /\ Len(s \o t) = Len(s) + Len(t)
      /\ \A i \in 1 .. Len(s) + Len(t) : (s \o t)[i] = IF i <= Len(s) THEN s[i] ELSE t[i - Len(s)]
  BY ConcatProperties
<1>3. \A i \in 1 .. Len(s) : i \in 1 .. Len(s) + Len(t) /\ i <= Len(s)
  BY <1>1
<1>4. \A i \in Len(s) + 1 .. Len(s) + Len(t) : i \in 1 .. Len(s) + Len(t) /\ ~(i <= Len(s))
  BY <1>1
<1> QED BY <1>1, <1>2, <1>3, <1>4

LEMMA ConcatAppend ==
  ASSUME NEW S, NEW s \in Seq(S), NEW r \in Seq(S), NEW t \in S
  PROVE  s \o Append(r, t) = Append(s \o r, t)
<1> DEFINE u == <<t>>
<1>1. /\ u \in Seq(S) /\ s \o r \in Seq(S)
      /\ Append(r, t) = r \o u /\ Append(s \o r, t) = (s \o r) \o u
  BY ConcatProperties, AppendIsConcat
<1> HIDE DEF u
<1>2. (s \o r) \o u = s \o (r \o u)
  BY <1>1, ConcatAssociative
<1> QED BY <1>1, <1>2

(* Cutting before more tokens come does not change what is cut in the end. *)
LEMMA CutTwice ==
  ASSUME NEW S, NEW s \in Seq(S), NEW t \in Seq(S)
  PROVE  Cut(Cut(s) \o t) = Cut(s \o t)
<1> DEFINE a == Cut(s) \o t
           b == s \o t
<1>1. /\ Cut(s) \in Seq(S) /\ Len(Cut(s)) = Cutoff(Len(s)) /\ Len(s) \in Nat
      /\ \A i \in 1 .. Len(Cut(s)) : Cut(s)[i] = s[i] /\ i \in 1 .. Len(s)
  BY CutFacts
<1>2. /\ a \in Seq(S) /\ Len(a) = Len(Cut(s)) + Len(t) /\ Len(t) \in Nat
      /\ \A i \in 1 .. Len(Cut(s)) : a[i] = Cut(s)[i]
      /\ \A i \in Len(Cut(s)) + 1 .. Len(Cut(s)) + Len(t) : a[i] = t[i - Len(Cut(s))]
  <2> DEFINE c == Cut(s)
  <2>1. c \in Seq(S)
    BY <1>1
  <2> HIDE DEF c
  <2>2. /\ c \o t \in Seq(S) /\ Len(c \o t) = Len(c) + Len(t) /\ Len(t) \in Nat
        /\ \A i \in 1 .. Len(c) : (c \o t)[i] = c[i]
        /\ \A i \in Len(c) + 1 .. Len(c) + Len(t) : (c \o t)[i] = t[i - Len(c)]
    BY <2>1, ConcatFacts
  <2> QED BY <2>2 DEF c
<1>3. /\ b \in Seq(S) /\ Len(b) = Len(s) + Len(t)
      /\ \A i \in 1 .. Len(s) : b[i] = s[i]
      /\ \A i \in Len(s) + 1 .. Len(s) + Len(t) : b[i] = t[i - Len(s)]
  BY ConcatFacts
<1> HIDE DEF a, b
<1>4. /\ Cut(a) \in Seq(S) /\ Len(Cut(a)) = Cutoff(Len(a))
      /\ \A i \in 1 .. Len(Cut(a)) : Cut(a)[i] = a[i]
  BY <1>2, CutFacts
<1>5. /\ Cut(b) \in Seq(S) /\ Len(Cut(b)) = Cutoff(Len(b))
      /\ \A i \in 1 .. Len(Cut(b)) : Cut(b)[i] = b[i]
  BY <1>3, CutFacts
<1>6. Len(Cut(a)) = Len(Cut(b)) /\ Len(Cut(a)) \in Nat
  BY <1>1, <1>2, <1>3, <1>4, <1>5, PartialAssumption DEF Cutoff
<1>7. ASSUME NEW i \in 1 .. Len(Cut(a)) PROVE Cut(a)[i] = Cut(b)[i]
  <2>1. i <= ResponseLength /\ i <= Len(a)
    BY <1>1, <1>2, <1>4, <1>6, PartialAssumption DEF Cutoff
  <2>2. CASE i <= Len(Cut(s))
    <3>1. i \in 1 .. Len(Cut(s)) /\ i \in 1 .. Len(Cut(a)) /\ i \in 1 .. Len(Cut(b))
      BY <1>1, <1>6, <2>2 DEF Cutoff
    <3>2. i \in 1 .. Len(s) /\ Cut(s)[i] = s[i]
      BY <1>1, <3>1
    <3> QED BY <1>2, <1>3, <1>4, <1>5, <3>1, <3>2
  <2>3. CASE ~(i <= Len(Cut(s)))
    <3>1. Len(Cut(s)) = Len(s)
      BY <1>1, <2>1, <2>3, PartialAssumption DEF Cutoff
    <3>2. i \in Len(s) + 1 .. Len(s) + Len(t)
      BY <1>1, <1>2, <2>1, <2>3, <3>1
    <3> QED BY <1>2, <1>3, <1>4, <1>5, <1>6, <3>1, <3>2
  <2> QED BY <2>2, <2>3
<1> QED BY <1>4, <1>5, <1>6, <1>7, SeqEqual DEF a, b

LEMMA CutIsPrefix ==
  ASSUME NEW S, NEW s \in Seq(S)
  PROVE  IsPrefix(Cut(s), s)
<1> DEFINE n == Len(Cut(s))
<1>1. /\ Cut(s) \in Seq(S) /\ n <= Len(s) /\ n \in Nat
      /\ \A i \in 1 .. n : Cut(s)[i] = s[i] /\ i \in 1 .. Len(s)
  BY CutFacts, LenProperties
<1> HIDE DEF n
<1>2. \A i \in 1 .. n : Cut(s)[i] \in S /\ s[i] \in S
  BY <1>1, ElementOfSeq
<1>3. /\ SubSeq(Cut(s), 1, n) \in Seq(S) /\ Len(SubSeq(Cut(s), 1, n)) = n
      /\ \A i \in 1 .. n : SubSeq(Cut(s), 1, n)[i] = Cut(s)[i]
  BY <1>1, <1>2, SubSeqProperties
<1>4. /\ SubSeq(s, 1, n) \in Seq(S) /\ Len(SubSeq(s, 1, n)) = n
      /\ \A i \in 1 .. n : SubSeq(s, 1, n)[i] = s[i]
  BY <1>1, <1>2, SubSeqProperties
<1>5. SubSeq(Cut(s), 1, n) = SubSeq(s, 1, n)
  BY <1>1, <1>3, <1>4, SeqEqual
<1> QED BY <1>1, <1>5 DEF IsPrefix, n

-----------------------------------------------------------------------------
(* A sequence of tokens in its order, by weights of the versions lo to hi. *)
Sound(seq, lo, hi) == \A i \in 1 .. Len(seq) :
  /\ seq[i].place = i
  /\ lo <= seq[i].version /\ seq[i].version <= hi
  /\ seq[i].eos => i = Len(seq)
  /\ \A j \in 1 .. Len(seq) : i <= j => seq[i].version <= seq[j].version

LEMMA TokenTypes ==
  ASSUME NEW seq \in Seq(Tokens), NEW i \in 1 .. Len(seq)
  PROVE  /\ seq[i] \in Tokens /\ seq[i].version \in Int /\ seq[i].eos \in BOOLEAN
         /\ seq[i].place \in Nat
<1>1. seq[i] \in Tokens
  BY ElementOfSeq
<1> QED BY <1>1 DEF Tokens

LEMMA SoundAppend ==
  ASSUME NEW seq \in Seq(Tokens), NEW lo \in Int, NEW hi \in Int, Sound(seq, lo, hi),
         NEW t \in Tokens, t.place = Len(seq) + 1, t.version = hi, lo <= hi,
         \A i \in 1 .. Len(seq) : ~seq[i].eos
  PROVE  Sound(Append(seq, t), lo, hi)
<1> DEFINE s == Append(seq, t)
<1>1. /\ s \in Seq(Tokens) /\ Len(s) = Len(seq) + 1 /\ Len(seq) \in Nat /\ s[Len(seq) + 1] = t
      /\ \A i \in 1 .. Len(seq) : s[i] = seq[i]
  BY AppendProperties, LenProperties
<1> HIDE DEF s
<1>5. \A i \in 1 .. Len(seq) : seq[i].version \in Int
  BY TokenTypes
<1>6. \A i \in 1 .. Len(s) : i \in 1 .. Len(seq) \/ i = Len(seq) + 1
  BY <1>1
<1>2. ASSUME NEW i \in 1 .. Len(s), NEW j \in 1 .. Len(s), i <= j
      PROVE  s[i].version <= s[j].version
  <2>1. CASE i \in 1 .. Len(seq) /\ j \in 1 .. Len(seq)
    BY <1>1, <1>2, <2>1 DEF Sound
  <2>2. CASE i \in 1 .. Len(seq) /\ j = Len(seq) + 1
    BY <1>1, <2>2 DEF Sound
  <2>3. CASE i = Len(seq) + 1
    BY <1>1, <1>2, <1>6, <2>3
  <2> QED BY <1>6, <2>1, <2>2, <2>3
<1>3. ASSUME NEW i \in 1 .. Len(s)
      PROVE  /\ s[i].place = i /\ lo <= s[i].version /\ s[i].version <= hi
             /\ s[i].eos => i = Len(s)
  <2>1. CASE i \in 1 .. Len(seq)
    BY <1>1, <2>1 DEF Sound
  <2>2. CASE i = Len(seq) + 1
    BY <1>1, <2>2
  <2> QED BY <1>6, <2>1, <2>2
<1>4. Sound(s, lo, hi)
  BY <1>2, <1>3 DEF Sound
<1> QED BY <1>4 DEF s

LEMMA SoundCut ==
  ASSUME NEW seq \in Seq(Tokens), NEW lo, NEW hi, Sound(seq, lo, hi)
  PROVE  Sound(Cut(seq), lo, hi)
<1>1. /\ Len(seq) \in Nat /\ Len(Cut(seq)) \in Nat /\ Len(Cut(seq)) <= Len(seq)
      /\ \A i \in 1 .. Len(Cut(seq)) : Cut(seq)[i] = seq[i] /\ i \in 1 .. Len(seq)
  BY CutFacts, LenProperties
<1> QED BY <1>1 DEF Sound

LEMMA SoundWiden ==
  ASSUME NEW seq \in Seq(Tokens), NEW lo, NEW hi \in Int, NEW n \in Int, Sound(seq, lo, hi), hi <= n
  PROVE  Sound(seq, lo, n)
<1>1. \A i \in 1 .. Len(seq) : seq[i].version \in Int
  BY TokenTypes
<1> QED BY <1>1 DEF Sound
-----------------------------------------------------------------------------
(* Types.  Versions stay in bounds: weights are at most one version ahead, *)
(* only while they are loaded.  From the end of pause() to the resumption  *)
(* every server is paused and none generates, although a monitor that      *)
(* unpauses the rollouter may let tasks start.                             *)
InBounds ==
  /\ TypeOK
  /\ sync \in {"cancel", "drain", "load"} => version < MaxVersion
  /\ sync # "load" => \A v \in Servers : weights[v] = version
  /\ sync = "load" => \A v \in Servers : weights[v] \in {version, version + 1}
  /\ sync \in {"drain", "load", "updated"} => \A v \in Servers : paused[v]
  /\ sync \in {"load", "updated"} => \A q \in Requests : at[q] # "generating"
  /\ \A q \in Requests :
       /\ task[q[1]] # "running" => at[q] = "idle"
       /\ task[q[1]] = "finished" => ~output[q].is_cancel

LEMMA InitInBounds == Init => InBounds
<1> SUFFICES ASSUME Init PROVE InBounds
  OBVIOUS
<1>1. NoOutput \in Outputs
  <2>1. <<>> \in Seq(Tokens)
    OBVIOUS
  <2> QED BY <2>1, PartialAssumption DEF NoOutput, Outputs
<1>2. server \in [Requests -> Servers]
  BY PartialAssumption DEF Init
<1>5. /\ sync = "run" /\ halted = FALSE /\ unpausing = FALSE /\ 0 \in 0 .. MaxVersion
      /\ version \in 0 .. MaxVersion /\ weights \in [Servers -> 0 .. MaxVersion]
  BY PartialAssumption DEF Init
<1>6. /\ paused \in [Servers -> BOOLEAN]
      /\ task \in [Samples -> {"queued", "running", "finished"}]
      /\ at \in [Requests -> {"idle", "sent", "generating", "returned"}]
      /\ event \in [Requests -> BOOLEAN] /\ req_output \in [Requests -> Seq(Tokens)]
      /\ output \in [Requests -> Outputs]
  BY <1>1 DEF Init
<1>3. TypeOK
  BY <1>2, <1>5, <1>6 DEF TypeOK
<1>4. \A q \in Requests : q[1] \in Samples
  BY DEF Requests
<1> QED BY <1>3, <1>4 DEF Init, InBounds

LEMMA NextInBounds == InBounds /\ [Next]_vars => InBounds'
<1> SUFFICES ASSUME InBounds, [Next]_vars PROVE InBounds'
  OBVIOUS
<1>0. \A q \in Requests : q[1] \in Samples
  BY DEF Requests
<1> USE DEF InBounds
<1>1. ASSUME NEW s \in Samples, Start(s) PROVE InBounds'
  <2>1. /\ task[s] = "queued" /\ LockFree /\ task' = [task EXCEPT ![s] = "running"]
        /\ UNCHANGED <<rollouter, version, weights, paused, event, req_output>>
    BY <1>1 DEF rollouter, Start
  <2>2. server' \in [Requests -> Servers]
    <3>1. PICK choice \in [Of(s) -> Servers] :
            server' = [q \in Requests |-> IF q[1] = s THEN choice[q] ELSE server[q]]
      BY <1>1 DEF Start
    <3> QED BY <3>1 DEF Of, TypeOK
  <2>3. /\ at' = [q \in Requests |-> IF q[1] # s THEN at[q]
                                     ELSE IF output[q].is_cancel THEN "sent" ELSE "returned"]
        /\ at' \in [Requests -> {"idle", "sent", "generating", "returned"}]
    BY <1>1 DEF Start, TypeOK
  <2>4. \A q \in Requests :
          /\ output'[q] = IF q[1] = s /\ output[q].is_cancel
                          THEN [output[q] EXCEPT !.end = version,
                                                 !.start = IF Started(q) THEN output[q].start ELSE version]
                          ELSE output[q]
          /\ output[q] \in Outputs
    BY <1>1 DEF Start, TypeOK
  <2>8. version \in -1 .. MaxVersion
    BY PartialAssumption DEF TypeOK
  <2>5. \A q \in Requests : output'[q] \in Outputs /\ output'[q].is_cancel = output[q].is_cancel
    <3> SUFFICES ASSUME NEW q \in Requests
                 PROVE  output'[q] \in Outputs /\ output'[q].is_cancel = output[q].is_cancel
      OBVIOUS
    <3> HIDE DEF InBounds
    <3>1. CASE output'[q] = output[q]
      BY <2>4, <3>1
    <3>2. CASE q[1] = s /\ output[q].is_cancel
      <4>1. \A o \in Outputs : o.start \in -1 .. MaxVersion
        BY DEF Outputs
      <4> DEFINE start == IF Started(q) THEN output[q].start ELSE version
      <4>2. start \in -1 .. MaxVersion
        BY <2>4, <2>8, <4>1
      <4>3. output'[q] = [output[q] EXCEPT !.end = version, !.start = start]
        BY <2>4, <3>2
      <4> HIDE DEF start
      <4> QED BY <2>4, <2>8, <4>2, <4>3 DEF Outputs
    <3> QED BY <2>4, <3>1, <3>2
  <2>6. output' \in [Requests -> Outputs]
    BY <1>1, <2>5 DEF Start
  <2>7. TypeOK'
    BY <2>1, <2>2, <2>3, <2>6 DEF TypeOK, rollouter
  <2>9. \A q \in Requests :
          /\ task'[q[1]] # "running" => at'[q] = "idle"
          /\ task'[q[1]] = "finished" => ~output'[q].is_cancel
          /\ at'[q] = "generating" => at[q] = "generating"
    BY <1>0, <2>1, <2>3, <2>5 DEF TypeOK
  <2>10. UNCHANGED <<sync, version, weights, paused>>
    BY <2>1 DEF rollouter
  <2> QED BY <2>7, <2>9, <2>10
<1>2. ASSUME NEW s \in Samples, TaskDone(s) PROVE InBounds'
  <2>1. TypeOK'
    BY <1>2 DEF rollouter, TaskDone, TypeOK
  <2> QED BY <1>0, <1>2, <2>1 DEF rollouter, TaskDone, TypeOK, Of
<1>3. ASSUME NEW q \in Requests, Refuse(q) PROVE InBounds'
  BY <1>0, <1>3 DEF Refuse, rollouter, TypeOK
<1>4. ASSUME NEW q \in Requests, Accept(q) PROVE InBounds'
  <2>1. <<>> \in Seq(Tokens)
    OBVIOUS
  <2> QED BY <1>0, <1>4, <2>1 DEF rollouter, Accept, TypeOK
<1>5. ASSUME NEW q \in Requests, Generate(q) PROVE InBounds'
  <2>1. PICK eos \in BOOLEAN : req_output' = [req_output EXCEPT ![q] = Append(@, Token(q, eos))]
    BY <1>5 DEF Generate
  <2>2. Token(q, eos) \in Tokens
    <3> HIDE DEF InBounds
    <3>1. output[q] \in Outputs /\ req_output[q] \in Seq(Tokens) /\ server[q] \in Servers
      BY DEF TypeOK, InBounds
    <3>2. Len(output[q].response) \in Nat /\ Len(req_output[q]) \in Nat
      BY <3>1, LenProperties DEF Outputs
    <3>3. weights[server[q]] \in 0 .. MaxVersion
      BY <3>1 DEF TypeOK, InBounds
    <3>4. Len(output[q].response) + Len(req_output[q]) + 1 \in Nat
      <4> DEFINE m == Len(output[q].response)
                 n == Len(req_output[q])
      <4>1. m \in Nat /\ n \in Nat
        BY <3>2
      <4> HIDE DEF m, n
      <4>2. m + n + 1 \in Nat
        BY <4>1
      <4> QED BY <4>2 DEF m, n
    <3> QED BY <3>3, <3>4 DEF Token, Tokens
  <2>3. Append(req_output[q], Token(q, eos)) \in Seq(Tokens)
    BY <2>2, AppendProperties DEF TypeOK
  <2> QED BY <1>5, <2>1, <2>3 DEF rollouter, Generate, TypeOK
<1>6. ASSUME NEW q \in Requests, Answer(q) PROVE InBounds'
  <2>1. output[q] \in Outputs /\ req_output[q] \in Seq(Tokens) /\ <<>> \in Seq(Tokens)
    BY DEF TypeOK
  <2>2. /\ output[q].response \o req_output[q] \in Seq(Tokens)
        /\ output[q].log_probs \o req_output[q] \in Seq(Tokens)
    BY <2>1, ConcatProperties DEF Outputs
  <2>3. /\ Cut(output[q].response \o req_output[q]) \in Seq(Tokens)
        /\ Len(Cut(output[q].response \o req_output[q])) \in Nat
    BY <2>2, CutFacts, LenProperties
  <2>4. IsCancel(q) \in BOOLEAN
    BY DEF IsCancel
  <2>5. output'[q] \in Outputs
    <3> HIDE DEF InBounds
    <3>0. output \in [Requests -> Outputs]
      BY DEF TypeOK, InBounds
    <3>1. output'[q] =
            [output[q] EXCEPT !.response = Cut(output[q].response \o req_output[q]),
                              !.mask = Len(Cut(output[q].response \o req_output[q])),
                              !.log_probs = output[q].log_probs \o req_output[q],
                              !.is_cancel = IsCancel(q)]
      BY <1>6, <3>0 DEF Answer
    <3> QED BY <2>1, <2>2, <2>3, <2>4, <3>1 DEF Outputs
  <2>6. output' \in [Requests -> Outputs]
    BY <1>6, <2>5 DEF Answer, TypeOK
  <2>7. TypeOK'
    BY <1>6, <2>1, <2>6 DEF Answer, TypeOK, rollouter
  <2>8. \A r \in Requests : r # q => output'[r] = output[r] /\ at'[r] = at[r]
    BY <1>6 DEF Answer, TypeOK
  <2>9. task[q[1]] = "running" /\ UNCHANGED <<sync, version, weights, paused, task>>
    BY <1>0, <1>6 DEF Answer, rollouter
  <2> QED BY <1>0, <1>6, <2>7, <2>8, <2>9 DEF Answer, TypeOK
<1>7. CASE Pause \/ Cancelled \/ Resuming \/ Resumed
  <2>1. /\ UNCHANGED <<version, weights, paused, task, at, server, event, req_output, output>>
        /\ sync' \in {"run", "cancel", "drain", "resume"} /\ sync # "load"
        /\ sync' \in {"cancel", "drain"} => version < MaxVersion
        /\ sync' = "drain" => \A v \in Servers : paused[v]
        /\ halted' \in BOOLEAN /\ unpausing' \in BOOLEAN
    BY <1>7, PartialAssumption DEF Pause, Cancelled, Resuming, Resumed, Goes, TypeOK
  <2>2. TypeOK'
    BY <2>1 DEF TypeOK
  <2> QED BY <2>1, <2>2
<1>14. CASE Drained
  <2>1. \A q \in Requests : at[q] # "generating"
    BY <1>0, <1>14 DEF Drained
  <2> QED BY <1>14, <2>1 DEF Drained, Goes, TypeOK
<1>15. CASE Monitor
  <2>1. /\ UNCHANGED <<sync, version, weights, paused, task, at, server, event, req_output, output>>
        /\ halted' \in BOOLEAN /\ unpausing' \in BOOLEAN
    BY <1>15 DEF Monitor, MonitorDecides, MonitorUnpauses, TypeOK
  <2>2. TypeOK'
    BY <2>1 DEF TypeOK
  <2> QED BY <2>1, <2>2
<1>8. ASSUME NEW v \in Servers, Cancel(v) PROVE InBounds'
  BY <1>8 DEF rollouter, Cancel, TypeOK
<1>9. ASSUME NEW v \in Servers, Load(v) PROVE InBounds'
  BY <1>9, PartialAssumption DEF rollouter, Load, TypeOK
<1>10. CASE Loaded
  BY <1>10, PartialAssumption DEF Loaded, Goes, TypeOK
<1>11. ASSUME NEW v \in Servers, Resume(v) PROVE InBounds'
  BY <1>11 DEF rollouter, Resume, TypeOK
<1>13. CASE UNCHANGED vars
  BY <1>13 DEF rollouter, vars, TypeOK
<1> QED BY <1>1, <1>2, <1>3, <1>4, <1>5, <1>6, <1>7, <1>8, <1>9, <1>10, <1>11, <1>13, <1>14, <1>15
        DEF Next, Synchronize, Request, Sample

(* The versions of tokens and servers stay within those of the run, and a  *)
(* synchronization loads weights only while no engine generates.           *)
THEOREM TypeCorrect == Spec => []TypeOK
<1>1. InBounds => TypeOK
  BY DEF InBounds
<1> QED BY <1>1, InitInBounds, NextInBounds, PTL DEF Spec
-----------------------------------------------------------------------------
(* No token is of weights two versions later than the claimed end.         *)
Claimed(seq, end) == \A i \in 1 .. Len(seq) : seq[i].version <= end + 1

(* What one request has generated: phase a, answer o, tokens req of this   *)
(* run, at version n of the rollouter.  A request on its way may have been *)
(* sent one version ago, while the weights were loaded.                    *)
Fine(a, o, req, n) ==
  /\ o.response = Cut(o.log_probs) /\ o.mask = Len(o.response)
  /\ Sound(o.response \o req, o.start, n) /\ Claimed(o.response \o req, o.end)
  /\ \A i \in 1 .. Len(o.response) : o.response[i].eos => ~o.is_cancel
  /\ o.is_cancel => Len(o.response) < MaxResponse
  /\ o.start <= n /\ o.end <= n
  /\ a \in {"sent", "generating"} => o.is_cancel /\ n <= o.end + 1
  /\ a # "generating" => req = <<>>

Progress ==
  /\ InBounds
  /\ \A q \in Requests : Fine(at[q], output[q], req_output[q], version)
  /\ sync = "load" => \A q \in Requests : at[q] = "sent" => output[q].end = version

(* A request that another step leaves alone, or whose phase is over.       *)
LEMMA FineOver ==
  ASSUME NEW a, NEW b, NEW o \in Outputs, NEW req, NEW n \in Int, Fine(a, o, req, n),
         a # "generating", b \notin {"sent", "generating"}
  PROVE  Fine(b, o, req, n)
BY DEF Fine

(* The version goes on while a request is not yet generated.               *)
LEMMA FineLoaded ==
  ASSUME NEW a, NEW o \in Outputs, NEW req \in Seq(Tokens), NEW n \in Int, Fine(a, o, req, n),
         a # "generating", a = "sent" => o.end = n
  PROVE  Fine(a, o, req, n + 1)
<1>1. o.response \in Seq(Tokens) /\ o.start \in Int /\ o.end \in Int
  BY DEF Outputs
<1>2. o.response \o req \in Seq(Tokens)
  BY <1>1, ConcatProperties
<1>3. Sound(o.response \o req, o.start, n) /\ n + 1 \in Int /\ n <= n + 1
  BY DEF Fine
<1> DEFINE seq == o.response \o req
           lo == o.start
           m == n + 1
<1>5. seq \in Seq(Tokens) /\ Sound(seq, lo, n) /\ m \in Int /\ n <= m
  BY <1>2, <1>3
<1> HIDE DEF seq, lo, m
<1>6. Sound(seq, lo, m)
  BY <1>5, SoundWiden
<1>4. Sound(o.response \o req, o.start, n + 1)
  BY <1>6 DEF seq, lo, m
<1> QED BY <1>1, <1>4 DEF Fine

(* A token by the weights of the version the request was sent with.        *)
LEMMA FineToken ==
  ASSUME NEW o \in Outputs, NEW req \in Seq(Tokens), NEW n \in Int, Fine("generating", o, req, n),
         ~(req # <<>> /\ (Last(req).eos \/ ~(Len(o.response) + Len(req) < MaxResponse))),
         NEW t \in Tokens, t.version = n, t.place = Len(o.response) + Len(req) + 1
  PROVE  Fine("generating", o, Append(req, t), n)
<1> DEFINE seq == o.response \o req
<1>1. /\ o.response \in Seq(Tokens) /\ o.start \in Int /\ o.end \in Int
      /\ Len(req) \in Nat /\ Len(o.response) \in Nat
  BY LenProperties DEF Outputs
<1>2. /\ seq \in Seq(Tokens) /\ Len(seq) = Len(o.response) + Len(req)
      /\ \A i \in 1 .. Len(o.response) : seq[i] = o.response[i]
      /\ \A i \in Len(o.response) + 1 .. Len(o.response) + Len(req) :
           seq[i] = req[i - Len(o.response)]
  BY <1>1, ConcatFacts
<1>3. o.response \o Append(req, t) = Append(seq, t)
  <2> DEFINE r == o.response
  <2>1. r \in Seq(Tokens)
    BY <1>1
  <2> HIDE DEF r
  <2>2. r \o Append(req, t) = Append(r \o req, t)
    BY <2>1, ConcatAppend
  <2> QED BY <2>2 DEF r
<1> HIDE DEF seq
<1>4. /\ Sound(seq, o.start, n) /\ o.is_cancel /\ n <= o.end + 1 /\ o.start <= n
      /\ Claimed(seq, o.end)
      /\ \A i \in 1 .. Len(o.response) : ~o.response[i].eos
  BY DEF Fine, seq
<1>5. ASSUME NEW i \in 1 .. Len(seq) PROVE ~seq[i].eos
  <2>1. seq[i].eos => i = Len(seq)
    BY <1>4 DEF Sound
  <2>2. CASE i \in 1 .. Len(o.response)
    BY <1>2, <1>4, <2>2
  <2>3. CASE i \in Len(o.response) + 1 .. Len(o.response) + Len(req)
    <3>1. seq[i] = req[i - Len(o.response)] /\ Len(req) > 0
      BY <1>1, <1>2, <2>3
    <3>2. req # <<>>
      BY <3>1, EmptySeq
    <3>3. ~req[Len(req)].eos
      BY <3>2 DEF Last
    <3>4. i = Len(seq) => i - Len(o.response) = Len(req)
      BY <1>1, <1>2
    <3> QED BY <2>1, <3>1, <3>3, <3>4
  <2> QED BY <1>1, <1>2, <2>2, <2>3
<1>6. Sound(Append(seq, t), o.start, n)
  BY <1>1, <1>2, <1>4, <1>5, SoundAppend
<1>7. Claimed(Append(seq, t), o.end)
  <2>3. seq \in Seq(Tokens)
    BY <1>2
  <2>1. /\ Len(Append(seq, t)) = Len(seq) + 1 /\ Len(seq) \in Nat
        /\ Append(seq, t)[Len(seq) + 1] = t
        /\ \A i \in 1 .. Len(seq) : Append(seq, t)[i] = seq[i]
    BY <2>3, AppendProperties, LenProperties
  <2>2. \A i \in 1 .. Len(seq) + 1 : i \in 1 .. Len(seq) \/ i = Len(seq) + 1
    BY <2>1
  <2> QED BY <1>4, <2>1, <2>2 DEF Claimed
<1> QED BY <1>3, <1>6, <1>7 DEF Fine

(* The answer to a generation, ended or interrupted.                       *)
LEMMA FineAnswer ==
  ASSUME NEW o \in Outputs, NEW req \in Seq(Tokens), NEW n \in Int, Fine("generating", o, req, n),
         NEW p \in Outputs, p.response = Cut(o.response \o req), p.mask = Len(p.response),
         p.log_probs = o.log_probs \o req, p.start = o.start, p.end = o.end,
         p.is_cancel = ~(req # <<>> /\ (Last(req).eos \/ ~(Len(o.response) + Len(req) < MaxResponse)))
  PROVE  Fine("returned", p, <<>>, n)
<1> DEFINE seq == o.response \o req
<1>1. /\ o.response \in Seq(Tokens) /\ o.log_probs \in Seq(Tokens)
      /\ Len(req) \in Nat /\ Len(o.response) \in Nat /\ o.response = Cut(o.log_probs)
      /\ o.start <= n /\ o.end <= n
  BY LenProperties DEF Outputs, Fine
<1>2. /\ seq \in Seq(Tokens) /\ Len(seq) = Len(o.response) + Len(req)
      /\ \A i \in 1 .. Len(o.response) : seq[i] = o.response[i]
      /\ \A i \in Len(o.response) + 1 .. Len(o.response) + Len(req) :
           seq[i] = req[i - Len(o.response)]
  BY <1>1, ConcatFacts
<1>3. p.response = Cut(p.log_probs)
  <2>1. Cut(Cut(o.log_probs) \o req) = Cut(o.log_probs \o req)
    BY <1>1, CutTwice
  <2> QED BY <1>1, <2>1
<1>4. Sound(seq, o.start, n) /\ Claimed(seq, o.end)
  BY DEF Fine
<1> HIDE DEF seq
<1>5. p.response = Cut(seq)
  BY DEF seq
<1>6. Sound(Cut(seq), o.start, n)
  BY <1>2, <1>4, SoundCut
<1>7. p.response \o <<>> = p.response
  BY <1>2, <1>5, CutFacts, ConcatEmptySeq
<1>8. /\ Len(Cut(seq)) \in Nat /\ Len(Cut(seq)) <= Len(seq)
      /\ \A i \in 1 .. Len(Cut(seq)) : Cut(seq)[i] = seq[i] /\ i \in 1 .. Len(seq)
  BY <1>2, CutFacts, LenProperties
<1>9. ASSUME NEW i \in 1 .. Len(p.response), p.response[i].eos PROVE ~p.is_cancel
  <2>1. i \in 1 .. Len(seq) /\ seq[i].eos
    BY <1>5, <1>8, <1>9
  <2>2. i = Len(seq)
    BY <1>4, <2>1 DEF Sound
  <2>3. ~(i \in 1 .. Len(o.response))
    BY <1>2, <2>1 DEF Fine
  <2>4. i \in Len(o.response) + 1 .. Len(o.response) + Len(req) /\ Len(req) > 0
    BY <1>1, <1>2, <2>1, <2>3
  <2>5. req # <<>> /\ seq[i] = req[Len(req)]
    <3>1. i - Len(o.response) = Len(req)
      BY <1>1, <1>2, <2>2
    <3> QED BY <1>2, <2>4, <3>1, EmptySeq
  <2> QED BY <2>1, <2>5 DEF Last
<1>10. ASSUME p.is_cancel PROVE Len(p.response) < MaxResponse
  <2>1. Len(o.response) < MaxResponse
    BY DEF Fine
  <2>2. CASE req = <<>>
    <3>1. Len(req) = 0
      BY <2>2
    <3> QED BY <1>1, <1>2, <1>5, <1>8, <2>1, <3>1, PartialAssumption
  <2>3. CASE req # <<>>
    <3>1. Len(o.response) + Len(req) < MaxResponse
      BY <1>10, <2>3
    <3> QED BY <1>1, <1>2, <1>5, <1>8, <3>1, PartialAssumption
  <2> QED BY <2>2, <2>3
<1>11. Claimed(Cut(seq), o.end)
  BY <1>4, <1>8 DEF Claimed
<1> QED BY <1>1, <1>3, <1>5, <1>6, <1>7, <1>9, <1>10, <1>11 DEF Fine

(* A task sends its interrupted responses again, or for the first time.    *)
LEMMA FineStart ==
  ASSUME NEW o \in Outputs, NEW n \in Nat, Fine("idle", o, <<>>, n), o.is_cancel,
         NEW start, start = o.start \/ (o.response = <<>> /\ start = n),
         NEW p, p.response = o.response, p.log_probs = o.log_probs, p.mask = o.mask,
         p.is_cancel = o.is_cancel, p.end = n, p.start = start
  PROVE  Fine("sent", p, <<>>, n)
<1>1. /\ o.response \in Seq(Tokens) /\ o.start \in Int /\ o.end \in Int
  BY DEF Outputs
<1>2. o.response \o <<>> = o.response
  BY <1>1, ConcatEmptySeq
<1>3. Sound(o.response, o.start, n) /\ o.start <= n
  BY <1>2 DEF Fine
<1>4. Sound(p.response, p.start, n)
  <2>1. CASE o.response = <<>>
    <3>1. p.response = <<>> /\ Len(<<>>) = 0
      BY <1>1, <2>1
    <3> QED BY <3>1 DEF Sound
  <2>2. CASE start = o.start
    BY <1>3, <2>2
  <2> QED BY <2>1, <2>2
<1>5. p.start <= n
  BY <1>1, <1>3
<1>6. Claimed(p.response, p.end)
  <2>1. \A i \in 1 .. Len(o.response) : o.response[i].version \in Int
    BY <1>1, TokenTypes
  <2> QED BY <1>3, <2>1 DEF Sound, Claimed
<1> QED BY <1>1, <1>2, <1>4, <1>5, <1>6 DEF Fine

LEMMA OutputTypes ==
  ASSUME InBounds, NEW q \in Requests
  PROVE  /\ output[q] \in Outputs /\ req_output[q] \in Seq(Tokens) /\ server[q] \in Servers
         /\ output[q].start \in Int /\ output[q].end \in Int /\ version \in Nat
         /\ q[1] \in Samples /\ output[q].response \in Seq(Tokens)
         /\ output[q].log_probs \in Seq(Tokens)
<1>1. output[q] \in Outputs /\ req_output[q] \in Seq(Tokens) /\ server[q] \in Servers
  BY DEF InBounds, TypeOK
<1>2. version \in Nat /\ q[1] \in Samples
  BY DEF InBounds, TypeOK, Requests
<1> QED BY <1>1, <1>2 DEF Outputs

LEMMA NextProgress == Progress /\ [Next]_vars => Progress'
<1> SUFFICES ASSUME Progress, [Next]_vars PROVE Progress'
  OBVIOUS
<1>0. /\ InBounds /\ InBounds'
      /\ \A q \in Requests : Fine(at[q], output[q], req_output[q], version)
      /\ version \in Nat /\ \A q \in Requests : output[q].start \in Int /\ output[q].end \in Int
      /\ DOMAIN at = Requests /\ DOMAIN output = Requests /\ DOMAIN req_output = Requests
      /\ \A q \in Requests : q[1] \in Samples /\ (task[q[1]] # "running" => at[q] = "idle")
      /\ \A q \in Requests : output[q] \in Outputs
      /\ sync = "load" => \A q \in Requests : at[q] = "sent" => output[q].end = version
  <2>1. InBounds /\ InBounds' /\ \A q \in Requests : Fine(at[q], output[q], req_output[q], version)
    BY NextInBounds DEF Progress
  <2>2. version \in Nat /\ DOMAIN at = Requests /\ DOMAIN output = Requests
        /\ DOMAIN req_output = Requests
    BY <2>1 DEF InBounds, TypeOK
  <2> QED BY <2>1, <2>2, OutputTypes DEF InBounds, Progress
<1>1. ASSUME NEW s \in Samples, Start(s), NEW q \in Requests
      PROVE  Fine(at'[q], output'[q], req_output'[q], version')
  <2>1. /\ task[s] = "queued" /\ version' = version /\ req_output' = req_output
        /\ at'[q] = IF q[1] # s THEN at[q] ELSE IF output[q].is_cancel THEN "sent" ELSE "returned"
    BY <1>1 DEF Start
  <2>2. CASE q[1] # s
    BY <1>0, <1>1, <2>1, <2>2 DEF Start
  <2>3. CASE q[1] = s /\ ~output[q].is_cancel
    <3>1. output'[q] = output[q] /\ at'[q] = "returned" /\ at[q] = "idle"
      BY <1>0, <1>1, <2>1, <2>3 DEF Start
    <3> QED BY <1>0, <2>1, <3>1, FineOver
  <2>4. CASE q[1] = s /\ output[q].is_cancel
    <3> DEFINE start == IF Started(q) THEN output[q].start ELSE version
    <3>1. output'[q] = [output[q] EXCEPT !.end = version, !.start = start]
      BY <1>1, <2>4 DEF Start
    <3>2. start = output[q].start \/ (output[q].response = <<>> /\ start = version)
      BY DEF Started, NoOutput
    <3> HIDE DEF start
    <3>3. /\ at[q] = "idle" /\ at'[q] = "sent" /\ Fine("idle", output[q], req_output[q], version)
          /\ output[q] \in Outputs
      BY <1>0, <2>1, <2>4, OutputTypes
    <3>4. req_output[q] = <<>>
      BY <3>3 DEF Fine
    <3>6. /\ output'[q].response = output[q].response /\ output'[q].log_probs = output[q].log_probs
          /\ output'[q].mask = output[q].mask /\ output'[q].is_cancel = output[q].is_cancel
          /\ output'[q].end = version /\ output'[q].start = start
      BY <3>1, <3>3 DEF Outputs
    <3>7. version \in Nat
      BY <1>0
    <3>5. Fine("sent", output'[q], <<>>, version)
      BY <2>4, <3>2, <3>3, <3>4, <3>6, <3>7, FineStart
    <3> QED BY <2>1, <3>3, <3>4, <3>5
  <2> QED BY <2>2, <2>3, <2>4
<1>2. ASSUME NEW s \in Samples, TaskDone(s), NEW q \in Requests
      PROVE  Fine(at'[q], output'[q], req_output'[q], version')
  <2>1. /\ UNCHANGED <<version, output, req_output>>
        /\ at'[q] = IF q[1] = s THEN "idle" ELSE at[q]
        /\ q[1] = s => at[q] = "returned"
    BY <1>2 DEF TaskDone, Of
  <2> QED BY <1>0, <2>1, FineOver
<1>3. ASSUME NEW r \in Requests, NEW q \in Requests, Refuse(r)
      PROVE  Fine(at'[q], output'[q], req_output'[q], version')
  <2>1. /\ UNCHANGED <<version, output, req_output>>
        /\ at'[q] = at[q] \/ (at[q] = "sent" /\ at'[q] = "returned")
    BY <1>0, <1>3 DEF Refuse
  <2> QED BY <1>0, <2>1, FineOver
<1>4. ASSUME NEW r \in Requests, NEW q \in Requests, Accept(r)
      PROVE  Fine(at'[q], output'[q], req_output'[q], version')
  <2>1. /\ UNCHANGED <<version, output>>
        /\ \/ at'[q] = at[q] /\ req_output'[q] = req_output[q]
           \/ at[q] = "sent" /\ at'[q] = "generating" /\ req_output'[q] = <<>>
    BY <1>0, <1>4 DEF Accept
  <2> QED BY <1>0, <2>1 DEF Fine
<1>5. ASSUME NEW r \in Requests, NEW q \in Requests, Generate(r)
      PROVE  Fine(at'[q], output'[q], req_output'[q], version')
  <2>1. UNCHANGED <<version, output, at>> /\ (q # r => req_output'[q] = req_output[q])
    BY <1>0, <1>5 DEF Generate
  <2>2. CASE q = r
    <3>1. PICK eos \in BOOLEAN : req_output'[q] = Append(req_output[q], Token(q, eos))
      BY <1>0, <1>5, <2>2 DEF Generate
    <3>2. /\ output[q] \in Outputs /\ req_output[q] \in Seq(Tokens) /\ at[q] = "generating"
          /\ ~Finished(q) /\ Fine("generating", output[q], req_output[q], version)
      BY <1>0, <1>5, <2>2, OutputTypes DEF Generate
    <3>3. weights[server[q]] = version
      BY <1>0, <3>2, OutputTypes DEF InBounds
    <3>4. /\ Token(q, eos).version = version
          /\ Token(q, eos).place = Len(output[q].response) + Len(req_output[q]) + 1
      BY <3>3 DEF Token
    <3>5. Token(q, eos) \in Tokens
      <4>1. Len(output[q].response) \in Nat /\ Len(req_output[q]) \in Nat
        BY <1>0, <3>2, OutputTypes, LenProperties
      <4>2. version \in 0 .. MaxVersion
        BY <1>0 DEF InBounds, TypeOK
      <4> DEFINE m == Len(output[q].response)
                 n == Len(req_output[q])
      <4>5. m \in Nat /\ n \in Nat
        BY <4>1
      <4> HIDE DEF m, n
      <4>3. m + n + 1 \in Nat
        BY <4>5
      <4> QED BY <3>3, <4>2, <4>3 DEF Token, Tokens, m, n
    <3>6. Fine("generating", output[q], Append(req_output[q], Token(q, eos)), version)
      BY <1>0, <3>2, <3>4, <3>5, FineToken DEF Finished, Room
    <3> QED BY <2>1, <3>1, <3>2, <3>6
  <2> QED BY <1>0, <2>1, <2>2
<1>6. ASSUME NEW r \in Requests, NEW q \in Requests, Answer(r)
      PROVE  Fine(at'[q], output'[q], req_output'[q], version')
  <2>1. CASE q # r
    <3>1. /\ version' = version /\ at'[q] = at[q] /\ output'[q] = output[q]
          /\ req_output'[q] = req_output[q]
      BY <1>0, <1>6, <2>1 DEF Answer
    <3> QED BY <1>0, <3>1
  <2>2. CASE q = r
    <3>1. /\ version' = version /\ at[q] = "generating" /\ at'[q] = "returned"
          /\ req_output'[q] = <<>>
      BY <1>0, <1>6, <2>2 DEF Answer
    <3>2. output[q] \in Outputs /\ req_output[q] \in Seq(Tokens) /\ output'[q] \in Outputs
      BY <1>0, OutputTypes DEF InBounds, TypeOK
    <3>3. /\ output'[q].response = Cut(output[q].response \o req_output[q])
          /\ output'[q].mask = Len(Cut(output[q].response \o req_output[q]))
          /\ output'[q].log_probs = output[q].log_probs \o req_output[q]
          /\ output'[q].start = output[q].start /\ output'[q].end = output[q].end
          /\ output'[q].is_cancel = IsCancel(q)
      <4>1. output'[q] =
              [output[q] EXCEPT !.response = Cut(output[q].response \o req_output[q]),
                                !.mask = Len(Cut(output[q].response \o req_output[q])),
                                !.log_probs = output[q].log_probs \o req_output[q],
                                !.is_cancel = IsCancel(q)]
        BY <1>0, <1>6, <2>2 DEF Answer
      <4> QED BY <3>2, <4>1 DEF Outputs
    <3>4. Fine("generating", output[q], req_output[q], version)
      BY <1>0, <3>1
    <3>5. Fine("returned", output'[q], <<>>, version)
      <4>1. /\ output'[q].mask = Len(output'[q].response)
            /\ output'[q].is_cancel =
                 ~(req_output[q] # <<>> /\ (Last(req_output[q]).eos
                     \/ ~(Len(output[q].response) + Len(req_output[q]) < MaxResponse)))
        BY <3>3 DEF IsCancel, Finished, Room
      <4>2. version \in Int
        BY <1>0
      <4> QED BY <3>2, <3>3, <3>4, <4>1, <4>2, FineAnswer
    <3> QED BY <3>1, <3>5
  <2> QED BY <2>1, <2>2
<1>7. ASSUME NEW q \in Requests, Loaded
      PROVE  Fine(at'[q], output'[q], req_output'[q], version')
  <2>1. /\ UNCHANGED <<at, output, req_output>> /\ version' = version + 1 /\ sync = "load"
    BY <1>7 DEF Loaded, Goes
  <2>2. at[q] # "generating" /\ (at[q] = "sent" => output[q].end = version)
    BY <1>0, <2>1 DEF InBounds
  <2>3. output[q] \in Outputs /\ req_output[q] \in Seq(Tokens)
    BY <1>0, OutputTypes
  <2> QED BY <1>0, <2>1, <2>2, <2>3, FineLoaded
<1>8. ASSUME UNCHANGED <<at, output, req_output, version>>, NEW q \in Requests
      PROVE  Fine(at'[q], output'[q], req_output'[q], version')
  BY <1>0, <1>8
<1>9. ASSUME \/ Pause \/ Cancelled \/ Drained \/ Resuming \/ Resumed \/ Monitor
             \/ UNCHANGED vars \/ \E v \in Servers : Cancel(v) \/ Load(v) \/ Resume(v)
      PROVE  UNCHANGED <<at, output, req_output, version>>
  BY <1>9 DEF Pause, Cancelled, Drained, Resuming, Resumed, Monitor, MonitorDecides,
              MonitorUnpauses, vars, Cancel, Load, Resume
<1>10. \A q \in Requests : Fine(at'[q], output'[q], req_output'[q], version')
  BY <1>1, <1>2, <1>3, <1>4, <1>5, <1>6, <1>7, <1>8, <1>9
     DEF Next, Synchronize, Request, Sample
<1>11. ASSUME sync' = "load", NEW q \in Requests, at'[q] = "sent"
       PROVE  output'[q].end = version'
  <2>1. CASE Drained
    BY <1>0, <1>11, <2>1 DEF Drained, Goes
  <2>2. ASSUME NEW s \in Samples, Start(s) PROVE output'[q].end = version'
    <3>1. UNCHANGED <<sync, version>>
      BY <2>2 DEF Start, rollouter
    <3>2. CASE q[1] = s
      <4>1. /\ output[q].is_cancel
            /\ output'[q] = [output[q] EXCEPT !.end = version,
                              !.start = IF Started(q) THEN output[q].start ELSE version]
        BY <1>11, <2>2, <3>2 DEF Start
      <4>2. output[q] \in Outputs
        BY <1>0
      <4> QED BY <3>1, <4>1, <4>2 DEF Outputs
    <3>3. CASE q[1] # s
      BY <1>0, <1>11, <2>2, <3>1, <3>3 DEF Start
    <3> QED BY <3>2, <3>3
  <2>3. ASSUME NEW s \in Samples, TaskDone(s) PROVE output'[q].end = version'
    BY <1>0, <1>11, <2>3 DEF TaskDone, rollouter
  <2>4. ASSUME NEW r \in Requests, Refuse(r) \/ Accept(r) \/ Generate(r)
        PROVE  output'[q].end = version'
    BY <1>0, <1>11, <2>4 DEF Refuse, Accept, Generate, rollouter
  <2>5. ASSUME NEW r \in Requests, Answer(r) PROVE output'[q].end = version'
    BY <1>0, <1>11, <2>5 DEF Answer, rollouter, InBounds
  <2>6. CASE Monitor \/ UNCHANGED vars \/ \E v \in Servers : Cancel(v) \/ Load(v) \/ Resume(v)
    BY <1>0, <1>11, <2>6 DEF Monitor, MonitorDecides, MonitorUnpauses, vars, Cancel, Load, Resume,
                             rollouter
  <2>7. ~(Pause \/ Cancelled \/ Loaded \/ Resuming \/ Resumed)
    BY <1>11 DEF Pause, Cancelled, Loaded, Resuming, Resumed, Goes
  <2> QED BY <2>1, <2>2, <2>3, <2>4, <2>5, <2>6, <2>7 DEF Next, Synchronize, Request, Sample
<1> QED BY <1>0, <1>10, <1>11 DEF Progress

LEMMA AlwaysProgress == Spec => []Progress
<1>1. Init => Progress
  <2> SUFFICES ASSUME Init, NEW q \in Requests
               PROVE  Fine(at[q], output[q], req_output[q], version)
    BY InitInBounds DEF Progress, Init
  <2>1. /\ at[q] = "idle" /\ req_output[q] = <<>> /\ version = 0
        /\ output[q].response = <<>> /\ output[q].log_probs = <<>> /\ output[q].mask = 0
        /\ output[q].start = -1 /\ output[q].end = -1
    BY DEF Init, NoOutput
  <2>2. <<>> \in Seq(Tokens) /\ Len(<<>>) = 0
    OBVIOUS
  <2>3. <<>> \o <<>> = <<>>
    BY <2>2, ConcatEmptySeq
  <2>4. Cut(<<>>) = <<>>
    <3> DEFINE e == <<>>
    <3>2. e \in Seq(Tokens) /\ Len(e) = 0
      BY <2>2
    <3> HIDE DEF e
    <3>3. Cut(e) \in Seq(Tokens) /\ Len(Cut(e)) = 0
      <4>1. Cut(e) \in Seq(Tokens) /\ Len(Cut(e)) = Cutoff(Len(e))
        BY <3>2, CutFacts
      <4> QED BY <3>2, <4>1, PartialAssumption DEF Cutoff
    <3>1. Cut(<<>>) \in Seq(Tokens) /\ Len(Cut(<<>>)) = 0
      BY <3>3 DEF e
    <3> QED BY <3>1, EmptySeq
  <2>5. Sound(<<>>, -1, 0) /\ Claimed(<<>>, -1)
    BY <2>2 DEF Sound, Claimed
  <2> QED BY <2>1, <2>2, <2>3, <2>4, <2>5, PartialAssumption DEF Fine
<1> QED BY <1>1, NextProgress, PTL DEF Spec

-----------------------------------------------------------------------------
(* However often and wherever generation is interrupted, the pieces of a   *)
(* response are glued in order and keep their log-probabilities.           *)
THEOREM PiecesAligned == Spec => []TokensAligned
<1>1. Progress => TokensAligned
  <2> SUFFICES ASSUME Progress, NEW q \in Requests
               PROVE  LET o == output[q]
                      IN /\ o.mask = Len(o.response) /\ o.mask <= ResponseLength
                         /\ \A i \in DOMAIN o.response : o.response[i].place = i
                         /\ IsPrefix(o.response, o.log_probs)
    BY DEF TokensAligned
  <2> DEFINE o == output[q]
             req == req_output[q]
  <2>1. /\ o.response \in Seq(Tokens) /\ o.log_probs \in Seq(Tokens) /\ req \in Seq(Tokens)
        /\ Fine(at[q], o, req, version)
    BY OutputTypes DEF Progress
  <2> HIDE DEF o, req
  <2>2. /\ o.response = Cut(o.log_probs) /\ o.mask = Len(o.response)
        /\ Sound(o.response \o req, o.start, version)
    BY <2>1 DEF Fine
  <2>3. Len(o.response) <= ResponseLength /\ IsPrefix(o.response, o.log_probs)
    BY <2>1, <2>2, CutFacts, CutIsPrefix, PartialAssumption DEF Cutoff
  <2>4. /\ DOMAIN o.response = 1 .. Len(o.response)
        /\ Len(o.response) \in Nat /\ Len(req) \in Nat
        /\ Len(o.response \o req) = Len(o.response) + Len(req)
        /\ \A i \in 1 .. Len(o.response) : (o.response \o req)[i] = o.response[i]
    BY <2>1, ConcatFacts, LenProperties
  <2>5. \A i \in 1 .. Len(o.response) : o.response[i].place = i
    BY <2>2, <2>4 DEF Sound
  <2> QED BY <2>2, <2>3, <2>4, <2>5 DEF o
<1> QED BY <1>1, AlwaysProgress, PTL

(* The versions a response claims enclose those that produced its tokens,  *)
(* but for one version at the end, whenever and however often a monitor    *)
(* lets tasks start in the middle of a synchronization.                    *)
THEOREM VersionsEnclosed == Spec => []VersionSpan
<1>1. Progress => VersionSpan
  <2> SUFFICES ASSUME Progress, NEW q \in Requests
               PROVE  LET seq == output[q].response \o req_output[q]
                      IN /\ \A i \in DOMAIN seq : output[q].start <= seq[i].version
                                                  /\ seq[i].version <= output[q].end + 1
                         /\ \A i, j \in DOMAIN seq : i <= j => seq[i].version <= seq[j].version
    BY DEF VersionSpan
  <2> DEFINE seq == output[q].response \o req_output[q]
  <2>1. seq \in Seq(Tokens)
    BY OutputTypes, ConcatFacts DEF Progress
  <2>2. Sound(seq, output[q].start, version) /\ Claimed(seq, output[q].end)
    BY DEF Progress, Fine
  <2> HIDE DEF seq
  <2>3. DOMAIN seq = 1 .. Len(seq)
    BY <2>1, LenProperties
  <2> QED BY <2>2, <2>3 DEF Sound, Claimed, seq
<1> QED BY <1>1, AlwaysProgress, PTL

(* A cancel that races the end of a generation never resumes an ended one. *)
THEOREM EndedOnce == Spec => []EndsOnce
<1>1. Progress => EndsOnce
  <2> SUFFICES ASSUME Progress, NEW q \in Requests
               PROVE  /\ \A i \in DOMAIN output[q].response : output[q].response[i].eos =>
                            i = Len(output[q].response) /\ ~output[q].is_cancel
                      /\ at[q] = "generating" => Len(output[q].response) < MaxResponse
                      /\ task[q[1]] = "finished" => ~output[q].is_cancel
    BY DEF EndsOnce
  <2> DEFINE o == output[q]
             req == req_output[q]
  <2>1. /\ o.response \in Seq(Tokens) /\ req \in Seq(Tokens) /\ Fine(at[q], o, req, version)
        /\ task[q[1]] = "finished" => ~o.is_cancel
    BY OutputTypes DEF Progress, InBounds
  <2> HIDE DEF o, req
  <2>2. /\ Sound(o.response \o req, o.start, version)
        /\ \A i \in 1 .. Len(o.response) : o.response[i].eos => ~o.is_cancel
        /\ at[q] = "generating" => Len(o.response) < MaxResponse
    BY <2>1 DEF Fine
  <2>3. /\ DOMAIN o.response = 1 .. Len(o.response)
        /\ Len(o.response) \in Nat /\ Len(req) \in Nat
        /\ Len(o.response \o req) = Len(o.response) + Len(req)
        /\ \A i \in 1 .. Len(o.response) : (o.response \o req)[i] = o.response[i]
    BY <2>1, ConcatFacts, LenProperties
  <2>4. \A i \in 1 .. Len(o.response) : o.response[i].eos => i = Len(o.response)
    BY <2>2, <2>3 DEF Sound
  <2> QED BY <2>1, <2>2, <2>3, <2>4 DEF o
<1> QED BY <1>1, AlwaysProgress, PTL
=============================================================================
