-------------------------- MODULE Checkpoint_proofs --------------------------
(***************************************************************************)
(* Proofs about checkpoints, for any ranks, steps and launches and any     *)
(* limit on kept checkpoints but one, with crashes anywhere.               *)
(***************************************************************************)
EXTENDS Checkpoint, SequenceTheorems, FiniteSetTheorems, TLAPS

(* A launch that keeps one checkpoint removes the tracked one first.       *)
KeepsTracked == 1 \notin Keeps

Running == job \in {"training", "saving"}
DriverPlaces == {"data", "dumping", "tracker", "end"}
InDriver(r) == pc[r] \in DriverPlaces
GroupIsSaved(i) == i < stage \/ InDriver(0)       \* the save of group i is over

(* The step in memory, the launch and the tracker.                         *)
Progress ==
  /\ step <= TotalSteps + launch /\ tracker <= TotalSteps + launch
  /\ Running => launch > 0 /\ pos[0].step = step
  /\ job = "training" => step < TotalSteps + launch /\ tracker \in 0 .. step
  /\ job = "saving" => /\ step > 0
                       /\ pc[0] = "end" => tracker = step
                       /\ pc[0] # "end" => tracker < step
                       /\ tracker = TornTracker => pc[0] = "tracker"
  /\ driver = "sft" => tracker # TornTracker

(* The folders a launch remembers are in order, and the last is tracked.   *)
Increasing(p) == \A i, j \in 1 .. Len(p) : i < j => p[i] < p[j]
LastSaved(i) == IF job = "saving" /\ GroupIsSaved(i) THEN step ELSE tracker
Remembered ==
  Running => \A i \in 1 .. Len(Groups) :
    LET p == previous_saved_paths[Groups[i]]
    IN Increasing(p) /\ (p # <<>> => p[Len(p)] = LastSaved(i))

(* How the ranks go through a save together.                               *)
Ranked ==
  job = "saving" =>
    /\ \A r \in Ranks : pc[r] # "idle"
    /\ \A r \in Ranks : pc[r] = "removing" =>
         r = 0 /\ keep > 0 /\ Len(previous_saved_paths[Group]) >= keep
    /\ \A r, s \in Ranks : pc[r] \in {"writing", "dumped"}
                              => pc[s] \in {"entered", "writing", "dumped"}
    /\ \A r, s \in Ranks : InDriver(r) => InDriver(s)
    /\ \A r \in Ranks : pc[r] = "tracker" => r = 0

(* What a save has written.                                                *)
Written ==
  job = "saving" =>
    /\ \A g \in AllGroups, r \in Ranks : model[g][r] = Version(step, launch)
    /\ \A i \in 1 .. Len(Groups), r \in Ranks :
         GroupIsSaved(i) \/ (i = stage /\ pc[r] = "dumped")
           => disk[Groups[i]][step][r] = Version(step, launch)
    /\ \A r \in Ranks : stage > 1 \/ pc[r] \notin {"enter", "removing"} => step \in folders
    /\ pc[0] \in {"tracker", "end"} => dataFile[step][0] = pos[0]

Inv == /\ TypeOK /\ Progress /\ Remembered /\ Ranked /\ Written
       /\ TrackedShards /\ StuckOnlyWhenTorn

-----------------------------------------------------------------------------
LEMMA GroupsFacts ==
  ASSUME TypeOK
  PROVE  /\ Len(Groups) \in {1, 2} /\ stage \in 1 .. Len(Groups) /\ Group \in AllGroups
         /\ \A i \in 1 .. Len(Groups) : Groups[i] \in AllGroups
         /\ \A i, j \in 1 .. Len(Groups) : Groups[i] = Groups[j] => i = j
         /\ ToSet(Groups) = {Groups[i] : i \in 1 .. Len(Groups)}
BY DEF TypeOK, Groups, Group, AllGroups, ToSet

LEMMA VersionFacts ==
  /\ Fresh \in VersionOK /\ Absent \in VersionOK /\ Torn \in VersionOK
  /\ \A n \in Nat, l \in 0 .. MaxLaunches : Version(n, l) \in VersionOK
  /\ \A n \in Steps, l \in 1 .. MaxLaunches : Version(n, l) \in Complete
  /\ \A n, l : Version(n, l).step = n
BY CheckpointAssumption DEF Fresh, Absent, Torn, Version, VersionOK, Complete

(* The step being saved.                                                   *)
LEMMA StepFacts ==
  ASSUME TypeOK, Progress
  PROVE  /\ 0 \in Ranks /\ TotalSteps \in Nat \ {0} /\ MaxLaunches \in Nat \ {0} /\ SaveFreq \in Nat \ {0}
         /\ launch \in 0 .. MaxLaunches /\ step \in Nat /\ step <= TotalSteps + MaxLaunches
         /\ step > 0 => step \in Steps
         /\ tracker \in Nat \cup {TornTracker} /\ TornTracker \notin Nat /\ (tracker \in Steps <=> tracker > 0)
BY CheckpointAssumption DEF TypeOK, Progress, Steps, TornTracker

(* The newer part of a list of folders, and what a save adds to it.        *)
LEMMA SuffixFacts ==
  ASSUME NEW p \in Seq(Steps), Increasing(p), NEW k \in 1 .. Len(p) - 1
  PROVE  /\ \A n \in ToSet(SubSeq(p, 1, k)) : n \in Steps /\ n < p[Len(p)]
         /\ SubSeq(p, k + 1, Len(p)) \in Seq(Steps)
         /\ Increasing(SubSeq(p, k + 1, Len(p))) /\ SubSeq(p, k + 1, Len(p)) # <<>>
         /\ LET q == SubSeq(p, k + 1, Len(p)) IN q[Len(q)] = p[Len(p)]
<1> DEFINE m == Len(p)
           old == SubSeq(p, 1, k)
           q == SubSeq(p, k + 1, m)
<1>1. m \in Nat /\ k \in 1 .. m - 1 /\ \A i \in 1 .. m : p[i] \in Steps
  BY LenProperties, ElementOfSeq
<1>2. \A i, j \in 1 .. m : i < j => p[i] < p[j]
  BY DEF Increasing
<1> HIDE DEF m
<1>3. /\ Len(old) = k /\ \A i \in 1 .. k : old[i] = p[i]
      /\ old \in Seq(Steps)
  <2>1. \A i \in 1 .. k : p[i] \in Steps
    BY <1>1
  <2>2. 1 \in Int /\ k \in Int
    BY <1>1
  <2>3. /\ old \in Seq(Steps) /\ Len(old) = (IF 1 <= k THEN k - 1 + 1 ELSE 0)
        /\ \A i \in 1 .. k - 1 + 1 : old[i] = p[1 + i - 1]
    BY <2>1, <2>2, SubSeqProperties
  <2>4. \A i \in 1 .. k : old[i] = p[1 + i - 1] /\ 1 + i - 1 = i
    BY <1>1, <2>3
  <2> QED BY <1>1, <2>3, <2>4
<1>4. /\ q \in Seq(Steps) /\ Len(q) = m - k /\ \A i \in 1 .. m - k : q[i] = p[i + k]
  <2>1. \A i \in k + 1 .. m : p[i] \in Steps
    BY <1>1
  <2>2. k + 1 \in Int /\ m \in Int
    BY <1>1
  <2>3. /\ q \in Seq(Steps) /\ Len(q) = (IF k + 1 <= m THEN m - (k + 1) + 1 ELSE 0)
        /\ \A i \in 1 .. m - (k + 1) + 1 : q[i] = p[(k + 1) + i - 1]
    BY <2>1, <2>2, SubSeqProperties
  <2>4. \A i \in 1 .. m - k : q[i] = p[(k + 1) + i - 1] /\ (k + 1) + i - 1 = i + k
    BY <1>1, <2>3
  <2> QED BY <1>1, <2>3, <2>4
<1> HIDE DEF old, q
<1>5. \A n \in ToSet(old) : n \in Steps /\ n < p[m]
  <2> SUFFICES ASSUME NEW n \in ToSet(old) PROVE n \in Steps /\ n < p[m]
    OBVIOUS
  <2>1. DOMAIN old = 1 .. k
    BY <1>3, LenProperties
  <2>2. PICK i \in 1 .. k : n = p[i]
    BY <1>3, <2>1 DEF ToSet
  <2> QED BY <1>1, <1>2, <2>2
<1>6. Increasing(q) /\ q # <<>> /\ q[Len(q)] = p[m]
  <2>1. Increasing(q)
    <3>1. \A i \in 1 .. m - k : i + k \in 1 .. m
      BY <1>1
    <3> QED BY <1>1, <1>2, <1>4, <3>1 DEF Increasing
  <2>2. m - k \in 1 .. m - k /\ (m - k) + k = m
    BY <1>1
  <2>3. q[m - k] = p[m]
    BY <1>4, <2>2
  <2>4. q # <<>>
    BY <1>1, <1>4, EmptySeq
  <2> QED BY <1>4, <2>1, <2>3, <2>4
<1> QED BY <1>4, <1>5, <1>6 DEF m, old, q

LEMMA AppendFacts ==
  ASSUME NEW p \in Seq(Steps), Increasing(p), NEW n \in Steps, p # <<>> => p[Len(p)] < n
  PROVE  /\ Append(p, n) \in Seq(Steps) /\ Increasing(Append(p, n))
         /\ Append(p, n)[Len(Append(p, n))] = n
<1> DEFINE m == Len(p)
           q == Append(p, n)
<1>1. /\ m \in Nat /\ \A i \in 1 .. m : p[i] \in Steps
      /\ m # 0 => p # <<>>
  BY LenProperties, ElementOfSeq, EmptySeq
<1>2. /\ q \in Seq(Steps) /\ Len(q) = m + 1 /\ q[m + 1] = n /\ \A i \in 1 .. m : q[i] = p[i]
  BY AppendProperties
<1>3. /\ \A i, j \in 1 .. m : i < j => p[i] < p[j]
      /\ m # 0 => p[m] < n
  BY <1>1 DEF Increasing
<1> HIDE DEF m, q
<1>4. Steps \subseteq Int
  BY CheckpointAssumption DEF Steps
<1>5. \A i \in 1 .. m : p[i] < n
  <2> SUFFICES ASSUME NEW i \in 1 .. m PROVE p[i] < n
    OBVIOUS
  <2>1. m # 0 /\ m \in 1 .. m /\ (i < m \/ i = m)
    BY <1>1
  <2>2. p[i] \in Steps /\ p[m] \in Steps /\ n \in Steps
    BY <1>1, <2>1
  <2>3. p[m] < n /\ (p[i] < p[m] \/ p[i] = p[m])
    BY <1>1, <1>3, <2>1
  <2> DEFINE a == p[i]
             b == p[m]
  <2>4. a \in Int /\ b \in Int /\ n \in Int
    BY <1>4, <2>2
  <2>5. b < n /\ (a < b \/ a = b)
    BY <2>3
  <2> HIDE DEF a, b
  <2>6. a < n
    BY <2>4, <2>5
  <2> QED BY <2>6 DEF a
<1>6. Increasing(q)
  <2> SUFFICES ASSUME NEW i \in 1 .. m + 1, NEW j \in 1 .. m + 1, i < j PROVE q[i] < q[j]
    BY <1>2 DEF Increasing
  <2>1. i \in 1 .. m /\ (j \in 1 .. m \/ j = m + 1)
    BY <1>1
  <2> QED BY <1>2, <1>3, <1>5, <2>1
<1> QED BY <1>2, <1>6 DEF q

(* What a rotation removes is older than the tracked checkpoint, and what  *)
(* it remembers ends with that one.                                        *)
LEMMA RotationFacts ==
  ASSUME KeepsTracked, TypeOK, Progress, Remembered, job = "saving", ~InDriver(0), keep > 0,
         Len(previous_saved_paths[Group]) >= keep
  PROVE  /\ \A n \in Outdated : n \in Steps /\ n < tracker
         /\ LET p == previous_saved_paths[Group]
                q == SubSeq(p, KeepStart + 1, Len(p))
            IN q \in Seq(Steps) /\ Increasing(q) /\ q # <<>> /\ q[Len(q)] = tracker
<1> DEFINE p == previous_saved_paths[Group]
           m == Len(p)
<1>1. /\ p \in Seq(Steps) /\ Increasing(p) /\ (p # <<>> => p[m] = tracker)
  <2>1. stage \in 1 .. Len(Groups) /\ ~GroupIsSaved(stage) /\ Group = Groups[stage] /\ Group \in AllGroups
    BY GroupsFacts DEF GroupIsSaved, Group
  <2>2. LastSaved(stage) = tracker
    BY <2>1 DEF LastSaved
  <2> QED BY <2>1, <2>2 DEF Remembered, Running, TypeOK
<1>2. m \in Nat /\ keep \in Nat /\ keep >= 2 /\ m >= keep
  <2>1. keep \in Nat /\ keep # 1
    BY CheckpointAssumption DEF TypeOK, KeepsTracked
  <2> QED BY <1>1, <2>1, LenProperties
<1>3. p # <<>>
  BY <1>2, EmptySeq
<1>4. KeepStart = m - keep + 1 /\ KeepStart \in 1 .. m - 1
  <2>1. KeepStart = m - keep + 1
    BY DEF KeepStart
  <2> HIDE DEF m
  <2> QED BY <1>2, <2>1
<1>5. Outdated = ToSet(SubSeq(p, 1, KeepStart))
  BY DEF Outdated
<1> HIDE DEF p
<1>6. /\ \A n \in ToSet(SubSeq(p, 1, KeepStart)) : n \in Steps /\ n < p[m]
      /\ LET q == SubSeq(p, KeepStart + 1, m)
         IN q \in Seq(Steps) /\ Increasing(q) /\ q # <<>> /\ q[Len(q)] = p[m]
  BY <1>1, <1>4, SuffixFacts
<1> QED BY <1>1, <1>3, <1>5, <1>6 DEF p

(* A step that leaves the tracked checkpoint alone.                        *)
Kept ==
  /\ driver' = driver /\ tracker' = tracker
  /\ tracker \in Steps =>
       /\ tracker \in folders' /\ dataFile'[tracker][0] = dataFile[tracker][0]
       /\ \A g \in AllGroups, r \in Ranks : disk'[g][tracker][r] = disk[g][tracker][r]

LEMMA TrackedKept ==
  ASSUME TypeOK, TrackedShards, Kept
  PROVE  TrackedShards'
<1>1. ToSet(Groups)' = ToSet(Groups) /\ ToSet(Groups) \subseteq AllGroups
  BY GroupsFacts DEF Groups, Kept
<1> QED BY <1>1 DEF TrackedShards, Kept

LEMMA FilesKept ==
  ASSUME TypeOK, TrackedShards, UNCHANGED <<driver, disk, dataFile, folders, tracker>>
  PROVE  Kept /\ TrackedShards'
<1>1. tracker \in Steps => tracker \in folders
  BY DEF TrackedShards
<1>2. Kept
  BY <1>1 DEF Kept
<1> QED BY <1>2, TrackedKept

LEMMA InitInv == Init => Inv
<1> SUFFICES ASSUME Init PROVE Inv
  OBVIOUS
<1>1. TypeOK
  <2>1. \A g \in AllGroups : previous_saved_paths[g] \in Seq(Steps)
    BY EmptySeq DEF Init
  <2> QED BY <2>1, VersionFacts, CheckpointAssumption DEF Init, TypeOK, Groups, TornTracker
<1>2. Progress /\ Remembered /\ Ranked /\ Written /\ StuckOnlyWhenTorn
  BY CheckpointAssumption
     DEF Init, Progress, Remembered, Ranked, Written, StuckOnlyWhenTorn, Running, TornTracker
<1>3. TrackedShards
  BY CheckpointAssumption DEF Init, TrackedShards, Steps
<1> QED BY <1>1, <1>2, <1>3 DEF Inv

LEMMA LaunchInv == Inv /\ Launch => Inv'
<1> SUFFICES ASSUME Inv, Launch PROVE Inv'
  OBVIOUS
<1>0. TypeOK /\ Progress /\ TrackedShards
  BY DEF Inv
<1>1. /\ job \in {"down", "done"} /\ launch < MaxLaunches /\ launch' = launch + 1
      /\ previous_saved_paths' = [g \in AllGroups |-> <<>>] /\ stage' = 1
      /\ pc' = [r \in Ranks |-> "idle"] /\ UNCHANGED <<driver, keep, disk, dataFile, folders, tracker>>
  BY DEF Launch, config, durable
<1>2. /\ tracker \in Steps => tracker \in folders /\ dataFile[tracker][0].step = tracker
      /\ tracker \in Steps => \A g \in ToSet(Groups), r \in Ranks : disk[g][tracker][r] \in Complete
      /\ FromScratch <=> tracker = 0
  BY <1>0, StepFacts DEF TrackedShards, FromScratch
<1>3. /\ job' \in {"training", "done", "stuck"} /\ step' \in Steps \cup {0}
      /\ model' \in [AllGroups -> [Ranks -> VersionOK]] /\ pos' \in [Ranks -> VersionOK]
      /\ job' \in {"training", "done"} => step' = tracker /\ pos'[0].step = tracker
      /\ job' = "stuck" => ~FromScratch /\ ~(tracker \in Steps /\ Loadable(tracker))
  <2>1. CASE /\ FromScratch /\ step' = 0 /\ job' = "training"
             /\ model' = [g \in AllGroups |-> [r \in Ranks |-> Fresh]]
             /\ pos' = [r \in Ranks |-> Fresh]
    BY <1>0, <1>2, <2>1, VersionFacts, CheckpointAssumption DEF Fresh, Version
  <2>2. CASE /\ ~FromScratch /\ tracker \in Steps /\ Loadable(tracker) /\ step' = tracker
             /\ job' = IF driver = "sft" /\ tracker >= TotalSteps THEN "done" ELSE "training"
             /\ model' = [g \in AllGroups |-> disk[g][tracker]]
             /\ pos' = [r \in Ranks |-> IF dataFile[tracker][r] = Absent
                                       THEN Fresh ELSE dataFile[tracker][r]]
    <3>1. dataFile[tracker][0] # Absent
      BY <1>2, <2>2 DEF Absent, Version, Steps
    <3>2. pos'[0] = dataFile[tracker][0]
      BY <2>2, <3>1, CheckpointAssumption
    <3>3. pos' \in [Ranks -> VersionOK] /\ model' \in [AllGroups -> [Ranks -> VersionOK]]
      BY <1>0, <2>2, VersionFacts DEF TypeOK
    <3> QED BY <1>2, <2>2, <3>2, <3>3
  <2>3. CASE /\ ~FromScratch /\ ~(tracker \in Steps /\ Loadable(tracker))
             /\ job' = "stuck" /\ UNCHANGED <<step, model, pos>>
    BY <1>0, <2>3 DEF TypeOK
  <2> QED BY <2>1, <2>2, <2>3 DEF Launch
<1>4. TypeOK'
  <2>1. \A g \in AllGroups : previous_saved_paths'[g] \in Seq(Steps)
    BY <1>1, EmptySeq
  <2>2. launch' \in 0 .. MaxLaunches
    BY <1>0, <1>1, CheckpointAssumption DEF TypeOK
  <2>3. previous_saved_paths' \in [AllGroups -> Seq(Steps)] /\ stage' \in 1 .. Len(Groups)'
    BY <1>1, <2>1 DEF Groups
  <2> QED BY <1>0, <1>1, <1>3, <2>2, <2>3 DEF TypeOK
<1>5. Progress'
  <2>1. job' # "saving" /\ (Running' <=> job' = "training")
    BY <1>3 DEF Running
  <2>2. /\ tracker <= TotalSteps + launch /\ step <= TotalSteps + launch
        /\ driver = "sft" => tracker # TornTracker
    BY <1>0 DEF Progress
  <2>3. job' = "stuck" => step' = step
    BY <1>3 DEF Launch
  <2>4. launch' > 0 /\ step' <= TotalSteps + launch' /\ tracker <= TotalSteps + launch'
        /\ (job' = "training" => step' < TotalSteps + launch' /\ tracker \in 0 .. step')
    <3>1. launch \in Nat /\ step' \in Nat /\ TotalSteps \in Nat /\ tracker \in Int
      BY <1>0, <1>3, StepFacts DEF Steps, TornTracker
    <3>2. step' = tracker \/ (job' = "stuck" /\ step' = step)
      BY <1>3, <2>3
    <3> QED BY <1>1, <2>2, <3>1, <3>2
  <2> QED BY <1>1, <1>3, <2>1, <2>2, <2>4 DEF Progress
<1>6. Remembered'
  <2>1. \A i \in 1 .. Len(Groups)' : previous_saved_paths'[Groups[i]'] = <<>>
    BY <1>0, <1>1, GroupsFacts DEF Groups
  <2>2. Increasing(<<>>)
    BY DEF Increasing
  <2> QED BY <2>1, <2>2 DEF Remembered
<1>7. Ranked' /\ Written'
  BY <1>3 DEF Ranked, Written
<1>8. TrackedShards'
  BY <1>0, <1>1, FilesKept
<1>9. StuckOnlyWhenTorn'
  <2> SUFFICES ASSUME job' = "stuck"
               PROVE  IF driver = "ppo" THEN tracker = TornTracker
                      ELSE \E r \in Owners \ {0} : dataFile[tracker][r] = Torn
    BY <1>1 DEF StuckOnlyWhenTorn, Owners
  <2>1. tracker # 0 /\ ~(tracker \in Steps /\ Loadable(tracker))
    BY <1>2, <1>3
  <2>2. CASE tracker \in Steps
    <3>1. \E r \in Owners : dataFile[tracker][r] = Torn
      BY <1>2, <2>1, <2>2 DEF Loadable
    <3>2. dataFile[tracker][0] # Torn
      BY <1>2, <2>2 DEF Torn, Version, Steps
    <3> QED BY <1>0, <3>1, <3>2 DEF Owners, TypeOK
  <2>3. CASE tracker \notin Steps
    BY <1>0, <2>1, <2>3 DEF TypeOK, Progress
  <2> QED BY <2>2, <2>3
<1> QED BY <1>4, <1>5, <1>6, <1>7, <1>8, <1>9 DEF Inv

(* A training step moves everything in memory to the next step.            *)
LEMMA TrainInv == Inv /\ Train => Inv'
<1> SUFFICES ASSUME Inv, Train PROVE Inv'
  OBVIOUS
<1>0. TypeOK /\ Progress /\ TrackedShards
  BY DEF Inv
<1>1. /\ job = "training" /\ step' = step + 1 /\ job' \in {"training", "saving"} /\ stage' = 1
      /\ model' = [g \in AllGroups |-> [r \in Ranks |-> Version(step + 1, launch)]]
      /\ pos' = [r \in Ranks |-> IF pos[r].step = step THEN Version(step + 1, launch)
                                ELSE Version(pos[r].step + 1, launch)]
      /\ pc' = [r \in Ranks |-> IF job' = "saving" THEN "enter" ELSE "idle"]
      /\ UNCHANGED <<driver, keep, disk, dataFile, folders, tracker, launch, previous_saved_paths>>
      /\ step + 1 >= TotalSteps => job' = "saving"
  BY DEF Train, config, durable
<1>2. /\ launch \in 1 .. MaxLaunches /\ step \in Nat /\ TotalSteps \in Nat /\ pos[0].step = step
      /\ step < TotalSteps + launch /\ tracker \in 0 .. step /\ step + 1 \in Steps
  BY <1>0, <1>1, StepFacts DEF Progress, Running, Steps
<1>3. TypeOK'
  <2>1. \A n \in Nat \cup {-1, -2} : Version(n + 1, launch) \in VersionOK
    BY <1>2 DEF Version, VersionOK
  <2>2. pos' \in [Ranks -> VersionOK]
    <3>1. \A r \in Ranks : pos[r].step \in Nat \cup {-1, -2}
      BY <1>0 DEF TypeOK, VersionOK
    <3> QED BY <1>1, <1>2, <2>1, <3>1
  <2>3. model' \in [AllGroups -> [Ranks -> VersionOK]]
    BY <1>1, <1>2, <2>1
  <2>4. stage' \in 1 .. Len(Groups)'
    BY <1>1 DEF Groups
  <2> QED BY <1>0, <1>1, <1>2, <2>2, <2>3, <2>4 DEF TypeOK
<1>4. pos'[0].step = step' /\ pc'[0] # "end" /\ pc'[0] # "tracker"
  BY <1>1, <1>2, CheckpointAssumption DEF Version
<1>5. Progress'
  <2>1. step' <= TotalSteps + launch /\ (job' = "training" => step' < TotalSteps + launch)
    BY <1>1, <1>2
  <2>2. tracker < step' /\ tracker \in 0 .. step' /\ step' > 0 /\ tracker # TornTracker
    BY <1>1, <1>2 DEF TornTracker
  <2> QED BY <1>0, <1>1, <1>4, <2>1, <2>2 DEF Progress, Running
<1>6. Remembered'
  <2>1. \A i \in 1 .. Len(Groups) : ~GroupIsSaved(i)'
    BY <1>0, <1>1, GroupsFacts, CheckpointAssumption DEF GroupIsSaved, InDriver, DriverPlaces
  <2>2. \A i \in 1 .. Len(Groups) : LastSaved(i)' = tracker /\ LastSaved(i) = tracker
    BY <1>1, <2>1 DEF LastSaved
  <2>3. Groups' = Groups
    BY <1>1 DEF Groups
  <2>4. \A i \in 1 .. Len(Groups) :
          LET p == previous_saved_paths[Groups[i]]
          IN Increasing(p) /\ (p # <<>> => p[Len(p)] = LastSaved(i))
    BY <1>1 DEF Inv, Remembered, Running
  <2> QED BY <1>1, <2>2, <2>3, <2>4 DEF Remembered
<1>7. Ranked'
  BY <1>1 DEF Ranked, InDriver, DriverPlaces
<1>8. Written'
  BY <1>1, <1>4, CheckpointAssumption, GroupsFacts, <1>3 DEF Written, GroupIsSaved, InDriver, DriverPlaces
<1>9. TrackedShards'
  <2>1. tracker \in Steps => tracker \in folders
    BY <1>0 DEF TrackedShards
  <2> QED BY <1>0, <1>1, FilesKept
<1> QED BY <1>1, <1>3, <1>5, <1>6, <1>7, <1>8, <1>9 DEF Inv, StuckOnlyWhenTorn

(* The end of a group's save: its list gets the new step.                  *)
LEMMA GroupSavedInv == Inv /\ GroupSaved => Inv'
<1> SUFFICES ASSUME Inv, GroupSaved PROVE Inv'
  OBVIOUS
<1>0. TypeOK /\ Progress /\ TrackedShards /\ Written /\ Remembered /\ Ranked
  BY DEF Inv
<1>1. /\ job = "saving" /\ job' = job /\ \A r \in Ranks : pc[r] = "dumped"
      /\ previous_saved_paths' = [previous_saved_paths EXCEPT ![Group] = Append(@, step)]
      /\ \/ stage < Len(Groups) /\ stage' = stage + 1 /\ pc' = [r \in Ranks |-> "enter"]
         \/ /\ stage = Len(Groups) /\ stage' = stage
            /\ pc' = [r \in Ranks |-> IF r \in Owners THEN "data" ELSE "end"]
      /\ UNCHANGED <<driver, keep, disk, dataFile, folders, tracker, launch, step, model, pos>>
  BY DEF GroupSaved, config, durable
<1>2. /\ 0 \in Ranks /\ 0 \in Owners /\ pc[0] = "dumped" /\ ~InDriver(0) /\ ~GroupIsSaved(stage)
      /\ step \in Steps /\ tracker < step /\ LastSaved(stage) = tracker
  BY <1>0, <1>1, StepFacts, GroupsFacts
     DEF Progress, Owners, InDriver, DriverPlaces, GroupIsSaved, LastSaved
<1>3. Groups' = Groups /\ Owners' = Owners
  BY <1>1 DEF Groups, Owners
<1> DEFINE p == previous_saved_paths[Group]
<1>4. /\ p \in Seq(Steps) /\ Increasing(p) /\ (p # <<>> => p[Len(p)] < step)
      /\ previous_saved_paths \in [AllGroups -> Seq(Steps)] /\ Group \in AllGroups
      /\ Group = Groups[stage] /\ stage \in 1 .. Len(Groups)
  BY <1>0, <1>1, <1>2, GroupsFacts DEF TypeOK, Remembered, Running, Group
<1>5. /\ Append(p, step) \in Seq(Steps) /\ Increasing(Append(p, step))
      /\ Append(p, step)[Len(Append(p, step))] = step
  BY <1>2, <1>4, AppendFacts
<1>6. /\ previous_saved_paths'[Group] = Append(p, step)
      /\ \A i \in 1 .. Len(Groups) : i # stage
           => previous_saved_paths'[Groups[i]] = previous_saved_paths[Groups[i]]
  BY <1>0, <1>1, <1>4, GroupsFacts
<1>7. \A i \in 1 .. Len(Groups) : GroupIsSaved(i)' <=> (GroupIsSaved(i) \/ i = stage)
  BY <1>1, <1>2, <1>4, <1>0, GroupsFacts DEF GroupIsSaved, InDriver, DriverPlaces
<1>8. TypeOK'
  <2>1. previous_saved_paths' \in [AllGroups -> Seq(Steps)]
    BY <1>1, <1>4, <1>5
  <2>2. stage' \in 1 .. Len(Groups)
    BY <1>0, <1>1, GroupsFacts
  <2>3. pc' \in [Ranks -> {"idle", "enter", "removing", "entered", "writing", "dumped", "data",
                           "dumping", "tracker", "end"}]
    BY <1>1
  <2> QED BY <1>0, <1>1, <1>3, <2>1, <2>2, <2>3 DEF TypeOK
<1>9. Progress'
  <2>1. pc'[0] # "end" /\ pc'[0] # "tracker" /\ pc[0] # "end" /\ pc[0] # "tracker"
    BY <1>1, <1>2
  <2> QED BY <1>0, <1>1, <2>1 DEF Progress, Running
<1>10. Remembered'
  <2>1. ASSUME NEW i \in 1 .. Len(Groups)
        PROVE  /\ Increasing(previous_saved_paths'[Groups[i]])
               /\ previous_saved_paths'[Groups[i]] # <<>>
                    => previous_saved_paths'[Groups[i]][Len(previous_saved_paths'[Groups[i]])]
                         = LastSaved(i)'
    <3>1. CASE i = stage
      BY <1>1, <1>4, <1>5, <1>6, <1>7, <3>1 DEF LastSaved
    <3>2. CASE i # stage
      <4>1. LastSaved(i)' = LastSaved(i)
        BY <1>1, <1>7, <3>2 DEF LastSaved
      <4> QED BY <1>0, <1>1, <1>6, <3>2, <4>1 DEF Remembered, Running
    <3> QED BY <3>1, <3>2
  <2> QED BY <1>3, <2>1 DEF Remembered
<1>11. Ranked'
  BY <1>1 DEF Ranked, InDriver, DriverPlaces
<1>12. Written'
  <2>1. \A i \in 1 .. Len(Groups), r \in Ranks :
          GroupIsSaved(i) \/ i = stage => disk[Groups[i]][step][r] = Version(step, launch)
    BY <1>0, <1>1 DEF Written
  <2>2. \A r \in Ranks : pc'[r] \in {"enter", "data", "end"}
    BY <1>1
  <2>3. step \in folders
    BY <1>0, <1>1, <1>2 DEF Written
  <2>4. pc'[0] \notin {"tracker", "end"}
    BY <1>1, <1>2
  <2>5. \A i \in 1 .. Len(Groups), r \in Ranks :
          GroupIsSaved(i)' \/ (i = stage' /\ pc'[r] = "dumped")
            => disk[Groups[i]][step][r] = Version(step, launch)
    BY <1>7, <2>1, <2>2
  <2>6. \A g \in AllGroups, r \in Ranks : model[g][r] = Version(step, launch)
    BY <1>0, <1>1 DEF Written
  <2> QED BY <1>1, <1>3, <2>3, <2>4, <2>5, <2>6 DEF Written
<1>13. TrackedShards'
  <2>1. tracker \in Steps => tracker \in folders
    BY <1>0 DEF TrackedShards
  <2> QED BY <1>0, <1>1, FilesKept
<1> QED BY <1>1, <1>8, <1>9, <1>10, <1>11, <1>12, <1>13 DEF Inv, StuckOnlyWhenTorn

(* The end of a save, and a crash.                                         *)
LEMMA SaveDoneInv == Inv /\ (SaveDone \/ Crash) => Inv'
<1> SUFFICES ASSUME Inv, SaveDone \/ Crash PROVE Inv'
  OBVIOUS
<1>0. TypeOK /\ Progress /\ TrackedShards /\ Remembered
  BY DEF Inv
<1>1. /\ UNCHANGED <<driver, keep, disk, dataFile, folders, tracker, launch, step, model, pos,
                     previous_saved_paths, stage>>
      /\ job' \in {"done", "training", "down"}
      /\ pc' \in {pc, [r \in Ranks |-> "idle"]}
      /\ job' = "training" => /\ job = "saving" /\ step < TotalSteps
                              /\ \A r \in Ranks : pc[r] = "end"
  BY <1>0, StepFacts DEF SaveDone, Crash, config, durable, memory, IsLastStep
<1>2. TypeOK'
  BY <1>0, <1>1 DEF TypeOK, Groups
<1>3. Progress'
  BY <1>0, <1>1, StepFacts DEF Progress, Running
<1>4. Remembered'
  <2> SUFFICES ASSUME job' = "training" PROVE Remembered'
    BY <1>1 DEF Remembered, Running
  <2>1. \A i \in 1 .. Len(Groups) : LastSaved(i) = LastSaved(i)'
    BY <1>0, <1>1, StepFacts DEF LastSaved, GroupIsSaved, InDriver, DriverPlaces, Progress
  <2>2. Groups' = Groups
    BY <1>1 DEF Groups
  <2> QED BY <1>0, <1>1, <2>1, <2>2 DEF Remembered, Running
<1>5. TrackedShards'
  <2>1. tracker \in Steps => tracker \in folders
    BY <1>0 DEF TrackedShards
  <2> QED BY <1>0, <1>1, FilesKept
<1> QED BY <1>1, <1>2, <1>3, <1>4, <1>5 DEF Inv, Ranked, Written, StuckOnlyWhenTorn

(* The tracker is written when every group and the dataloader are.         *)
LEMMA TrackerInv == Inv /\ (TruncateTracker \/ SetTracker) => Inv'
<1> SUFFICES ASSUME Inv, TruncateTracker \/ SetTracker PROVE Inv'
  OBVIOUS
<1>0. TypeOK /\ Progress /\ Remembered /\ Ranked /\ Written
  BY DEF Inv
<1>1. /\ job = "saving" /\ job' = job /\ pc[0] = "tracker"
      /\ UNCHANGED <<driver, keep, disk, dataFile, folders, launch, step, model, pos,
                     previous_saved_paths, stage>>
      /\ \/ tracker' = TornTracker /\ pc' = pc /\ driver = "ppo"
         \/ tracker' = step /\ pc' = [pc EXCEPT ![0] = "end"]
  BY DEF TruncateTracker, SetTracker, config, memory
<1>2. /\ 0 \in Ranks /\ step \in Steps /\ TornTracker \notin Steps /\ launch \in 1 .. MaxLaunches
      /\ step <= TotalSteps + launch /\ TotalSteps \in Nat /\ step > 0 /\ pc[0] = "tracker"
      /\ pos[0].step = step /\ step \in Nat /\ launch \in Nat
  BY <1>0, <1>1, StepFacts DEF Progress, Running, Steps
<1>3. Groups' = Groups /\ Group' = Group /\ Owners' = Owners
  BY <1>1 DEF Groups, Group, Owners
<1>4. /\ \A r \in Ranks : /\ pc[r] \in DriverPlaces /\ pc'[r] \in DriverPlaces
                         /\ (pc'[r] = pc[r] \/ (r = 0 /\ pc'[r] = "end"))
      /\ InDriver(0) /\ InDriver(0)'
  <2>1. \A r \in Ranks : pc[r] \in DriverPlaces
    BY <1>0, <1>1, <1>2 DEF Ranked, InDriver, DriverPlaces
  <2>2. \A r \in Ranks : pc'[r] = pc[r] \/ (r = 0 /\ pc'[r] = "end")
    BY <1>0, <1>1 DEF TypeOK
  <2>3. "end" \in DriverPlaces
    BY DEF DriverPlaces
  <2> QED BY <1>2, <2>1, <2>2, <2>3 DEF InDriver
<1>5. TypeOK'
  BY <1>0, <1>1, <1>2, <1>3 DEF TypeOK
<1>6. Progress'
  <2>1. CASE tracker' = TornTracker /\ pc' = pc /\ driver = "ppo"
    <3>1. TornTracker < step /\ TornTracker <= TotalSteps + launch
      BY <1>2 DEF TornTracker
    <3> QED BY <1>1, <1>2, <2>1, <3>1 DEF Progress, Running
  <2>2. CASE tracker' = step /\ pc' = [pc EXCEPT ![0] = "end"]
    <3>1. pc'[0] = "end" /\ step # TornTracker
      BY <1>0, <1>2, <2>2 DEF TypeOK
    <3> QED BY <1>1, <1>2, <2>2, <3>1 DEF Progress, Running
  <2> QED BY <1>1, <2>1, <2>2
<1>7. Remembered'
  <2>1. \A i \in 1 .. Len(Groups) : LastSaved(i) = step /\ LastSaved(i)' = step
    BY <1>1, <1>2, <1>4 DEF LastSaved, GroupIsSaved
  <2> QED BY <1>0, <1>1, <1>3, <2>1 DEF Remembered, Running
<1>8. Ranked'
  <2>1. \A r \in Ranks : pc'[r] = "tracker" => r = 0
    BY <1>0, <1>1, <1>4 DEF Ranked
  <2>2. \A r \in Ranks : InDriver(r)' /\ pc'[r] \notin {"idle", "removing", "writing", "dumped"}
    BY <1>4 DEF InDriver, DriverPlaces
  <2> QED BY <2>1, <2>2 DEF Ranked
<1>9. /\ \A g \in AllGroups, r \in Ranks : model[g][r] = Version(step, launch)
      /\ \A i \in 1 .. Len(Groups), r \in Ranks : disk[Groups[i]][step][r] = Version(step, launch)
      /\ step \in folders /\ dataFile[step][0] = pos[0] /\ dataFile[step][0].step = step
  BY <1>0, <1>1, <1>2, <1>4 DEF Written, GroupIsSaved
<1>10. Written'
  BY <1>1, <1>3, <1>9 DEF Written
<1>11. TrackedShards'
  <2> SUFFICES ASSUME tracker' \in Steps PROVE TrackedShards'
    BY <1>1 DEF TrackedShards, Steps
  <2>1. tracker' = step
    BY <1>1, <1>2
  <2>2. Version(step, launch) \in Complete /\ Version(step, launch).step = step
    BY <1>2, VersionFacts
  <2>3. \A g \in ToSet(Groups), r \in Ranks : disk[g][step][r] = Version(step, launch)
    BY <1>0, <1>9, GroupsFacts
  <2> QED BY <1>1, <1>3, <1>9, <2>1, <2>2, <2>3 DEF TrackedShards
<1> QED BY <1>1, <1>5, <1>6, <1>7, <1>8, <1>10, <1>11 DEF Inv, StuckOnlyWhenTorn

-----------------------------------------------------------------------------
(* The steps of one rank in a save.                                        *)
SavingStep ==
  /\ job = "saving" /\ job' = job
  /\ UNCHANGED <<driver, keep, tracker, launch, step, model, pos, stage>>

LEMMA SavingFacts ==
  ASSUME Inv, SavingStep
  PROVE  /\ TypeOK /\ Progress /\ Remembered /\ Ranked /\ Written /\ TrackedShards
         /\ 0 \in Ranks /\ step \in Steps /\ TornTracker \notin Steps /\ TotalSteps \in Nat
         /\ Groups' = Groups /\ Group' = Group /\ Owners' = Owners
         /\ Group = Groups[stage] /\ Group \in AllGroups /\ stage \in 1 .. Len(Groups)
         /\ \A i \in 1 .. Len(Groups) : i # stage => Groups[i] # Group /\ Groups[i] \in AllGroups
<1>1. TypeOK /\ Progress
  BY DEF Inv
<1>2. 0 \in Ranks /\ step \in Steps /\ TornTracker \notin Steps /\ TotalSteps \in Nat
  BY <1>1, StepFacts DEF Progress, SavingStep, Steps
<1>3. Groups' = Groups /\ Group' = Group /\ Owners' = Owners /\ Group = Groups[stage]
  BY DEF Groups, Group, Owners, SavingStep
<1> QED BY <1>1, <1>2, <1>3, GroupsFacts DEF Inv

(* Before the dataloader: making the folder, removing, writing a shard.    *)
LEMMA GroupStep ==
  ASSUME Inv, SavingStep, NEW r \in Ranks, NEW to \in {"removing", "entered", "writing", "dumped"},
         ~InDriver(r), pc' = [pc EXCEPT ![r] = to]
  PROVE  /\ pc'[r] = to /\ \A s \in Ranks \ {r} : pc'[s] = pc[s]
         /\ \A s \in Ranks : ~InDriver(s) /\ ~InDriver(s)'
         /\ \A i \in 1 .. Len(Groups) : /\ GroupIsSaved(i)' <=> GroupIsSaved(i)
                                        /\ LastSaved(i)' = LastSaved(i)
         /\ ~GroupIsSaved(stage) /\ LastSaved(stage) = tracker
         /\ tracker \in Nat /\ tracker < step /\ Progress'
         /\ pc' \in [Ranks -> {"idle", "enter", "removing", "entered", "writing", "dumped", "data",
                              "dumping", "tracker", "end"}]
<1>0. /\ TypeOK /\ Progress /\ Ranked /\ 0 \in Ranks /\ job = "saving" /\ stage' = stage /\ step' = step
      /\ job' = "saving" /\ tracker' = tracker
  BY SavingFacts DEF SavingStep
<1>1. /\ pc'[r] = to /\ \A s \in Ranks \ {r} : pc'[s] = pc[s]
      /\ pc' \in [Ranks -> {"idle", "enter", "removing", "entered", "writing", "dumped", "data",
                           "dumping", "tracker", "end"}]
  BY <1>0 DEF TypeOK
<1>2. \A s \in Ranks : ~InDriver(s) /\ ~InDriver(s)'
  BY <1>0, <1>1 DEF Ranked, InDriver, DriverPlaces
<1>3. \A i \in 1 .. Len(Groups) : GroupIsSaved(i)' <=> GroupIsSaved(i)
  BY <1>0, <1>2 DEF GroupIsSaved
<1>4. ~GroupIsSaved(stage)
  BY <1>0, <1>2, GroupsFacts DEF GroupIsSaved
<1>5. pc[0] \notin DriverPlaces /\ pc'[0] \notin DriverPlaces
  BY <1>0, <1>2 DEF InDriver
<1>6. tracker \in Nat /\ tracker < step
  BY <1>0, <1>5, StepFacts DEF Progress, DriverPlaces
<1>7. Progress'
  BY <1>0, <1>5 DEF Progress, Running, DriverPlaces, SavingStep
<1> QED BY <1>0, <1>1, <1>2, <1>3, <1>4, <1>6, <1>7 DEF LastSaved

LEMMA EnterInv ==
  ASSUME Inv, NEW r \in Ranks, Enter(r)
  PROVE  Inv' /\ SavingStep /\ Kept
<1>1. /\ SavingStep /\ pc[r] = "enter" /\ ~Rotates(r) /\ folders' = folders \cup {step}
      /\ pc' = [pc EXCEPT ![r] = "entered"]
      /\ UNCHANGED <<disk, dataFile, previous_saved_paths>>
  BY DEF Enter, SavingStep, config, memory
<1>2. ~InDriver(r)
  BY <1>1 DEF InDriver, DriverPlaces
<1>3. /\ pc'[r] = "entered" /\ \A s \in Ranks \ {r} : pc'[s] = pc[s]
      /\ \A s \in Ranks : ~InDriver(s) /\ ~InDriver(s)'
      /\ \A i \in 1 .. Len(Groups) : /\ GroupIsSaved(i)' <=> GroupIsSaved(i)
                                     /\ LastSaved(i)' = LastSaved(i)
      /\ Progress'
      /\ pc' \in [Ranks -> {"idle", "enter", "removing", "entered", "writing", "dumped", "data",
                           "dumping", "tracker", "end"}]
  BY <1>1, <1>2, GroupStep
<1>4. TypeOK'
  BY <1>1, <1>3, SavingFacts DEF TypeOK, SavingStep
<1>5. Remembered'
  BY <1>1, <1>3, SavingFacts DEF Remembered, Running, SavingStep
<1>6. Ranked'
  <2>1. \A s \in Ranks : pc[s] \notin {"writing", "dumped"}
    BY <1>1, SavingFacts DEF Ranked, SavingStep
  <2> QED BY <1>1, <1>3, <2>1, SavingFacts DEF Ranked, SavingStep
<1>7. Written'
  <2>1. pc'[0] \notin {"tracker", "end"}
    BY <1>1, <1>3, SavingFacts DEF InDriver, DriverPlaces
  <2>2. \A i \in 1 .. Len(Groups), s \in Ranks :
          GroupIsSaved(i)' \/ (i = stage /\ pc'[s] = "dumped")
            => disk[Groups[i]][step][s] = Version(step, launch)
    BY <1>1, <1>3, SavingFacts DEF Written, SavingStep
  <2>3. \A g \in AllGroups, s \in Ranks : model[g][s] = Version(step, launch)
    BY <1>1, SavingFacts DEF Written, SavingStep
  <2> QED BY <1>1, <2>1, <2>2, <2>3, SavingFacts DEF Written, SavingStep
<1>8. Kept
  <2>1. tracker \in Steps => tracker \in folders'
    BY <1>1, SavingFacts DEF TrackedShards
  <2> QED BY <1>1, <2>1 DEF SavingStep, Kept
<1>9. TrackedShards'
  BY <1>1, <1>8, SavingFacts, TrackedKept
<1> QED BY <1>1, <1>3, <1>4, <1>5, <1>6, <1>7, <1>8, <1>9 DEF Inv, StuckOnlyWhenTorn, SavingStep

(* A rotation, while it removes and when it has removed.                   *)
LEMMA RotateInv ==
  ASSUME KeepsTracked, Inv, NEW r \in Ranks, RotateBegin(r) \/ RotateEnd(r)
  PROVE  Inv' /\ SavingStep /\ Kept
<1> DEFINE p == previous_saved_paths[Group]
           q == SubSeq(p, KeepStart + 1, Len(p))
<1>1. /\ SavingStep
      /\ pc[r] \in {"enter", "removing"} /\ r = 0 /\ keep > 0 /\ Len(p) >= keep
  BY DEF RotateBegin, RotateEnd, Rotates, SavingStep, config, memory, Inv, Ranked
<1>2. \E to \in {"removing", "entered"}, gone \in {Torn, Absent} :
        /\ disk' = [disk EXCEPT ![Group] =
             [n \in Steps |-> IF n \in Outdated THEN [s \in Ranks |-> gone] ELSE disk[Group][n]]]
        /\ dataFile' = IF driver = "ppo" THEN dataFile
                       ELSE [n \in Steps |-> IF n \in Outdated THEN [s \in Ranks |-> gone]
                                             ELSE dataFile[n]]
        /\ pc' = [pc EXCEPT ![r] = to]
        /\ \/ /\ to = "removing" /\ folders' = folders
              /\ previous_saved_paths' = previous_saved_paths
           \/ /\ to = "entered"
              /\ folders' = (IF driver = "ppo" THEN folders ELSE folders \ Outdated) \cup {step}
              /\ previous_saved_paths' = [previous_saved_paths EXCEPT ![Group] = q]
  <2>1. CASE RotateBegin(r)
    BY <2>1 DEF RotateBegin, memory
  <2>2. CASE RotateEnd(r)
    BY <2>2 DEF RotateEnd
  <2> QED BY <2>1, <2>2
<1>3. PICK to \in {"removing", "entered"}, gone \in {Torn, Absent} :
        /\ disk' = [disk EXCEPT ![Group] =
             [n \in Steps |-> IF n \in Outdated THEN [s \in Ranks |-> gone] ELSE disk[Group][n]]]
        /\ dataFile' = IF driver = "ppo" THEN dataFile
                       ELSE [n \in Steps |-> IF n \in Outdated THEN [s \in Ranks |-> gone]
                                             ELSE dataFile[n]]
        /\ pc' = [pc EXCEPT ![r] = to]
        /\ \/ /\ to = "removing" /\ folders' = folders
              /\ previous_saved_paths' = previous_saved_paths
           \/ /\ to = "entered"
              /\ folders' = (IF driver = "ppo" THEN folders ELSE folders \ Outdated) \cup {step}
              /\ previous_saved_paths' = [previous_saved_paths EXCEPT ![Group] = q]
  BY <1>2
<1>4. ~InDriver(r) /\ ~InDriver(0)
  BY <1>1 DEF InDriver, DriverPlaces
<1>5. /\ pc'[r] = to /\ \A s \in Ranks \ {r} : pc'[s] = pc[s]
      /\ \A s \in Ranks : ~InDriver(s) /\ ~InDriver(s)'
      /\ \A i \in 1 .. Len(Groups) : /\ GroupIsSaved(i)' <=> GroupIsSaved(i)
                                     /\ LastSaved(i)' = LastSaved(i)
      /\ ~GroupIsSaved(stage) /\ LastSaved(stage) = tracker
      /\ tracker \in Nat /\ tracker < step /\ Progress'
      /\ pc' \in [Ranks -> {"idle", "enter", "removing", "entered", "writing", "dumped", "data",
                           "dumping", "tracker", "end"}]
  BY <1>1, <1>3, <1>4, GroupStep
<1>6. /\ \A n \in Outdated : n \in Steps /\ n < tracker
      /\ q \in Seq(Steps) /\ Increasing(q) /\ q # <<>> /\ q[Len(q)] = tracker
  BY <1>1, <1>4, SavingFacts, RotationFacts DEF SavingStep
<1> HIDE DEF q
<1>7. tracker \notin Outdated /\ step \notin Outdated
  <2>1. step \in Nat /\ step \in Steps
    BY <1>1, SavingFacts DEF TypeOK, Steps
  <2>2. \A n \in Outdated : n \in Int /\ n < tracker /\ n < step
    BY <1>5, <1>6, <2>1, CheckpointAssumption DEF Steps
  <2> QED BY <1>5, <2>1, <2>2
<1>8. gone \in VersionOK
  BY VersionFacts
<1>9. TypeOK'
  <2>1. disk' \in [AllGroups -> [Steps -> [Ranks -> VersionOK]]]
    <3> DEFINE new == [n \in Steps |-> IF n \in Outdated THEN [s \in Ranks |-> gone] ELSE disk[Group][n]]
    <3>1. new \in [Steps -> [Ranks -> VersionOK]]
      BY <1>1, <1>8, SavingFacts DEF TypeOK
    <3>2. disk' = [disk EXCEPT ![Group] = new]
      BY <1>3
    <3> HIDE DEF new
    <3> QED BY <1>1, <3>1, <3>2, SavingFacts DEF TypeOK
  <2>2. dataFile' \in [Steps -> [Ranks -> VersionOK]]
    BY <1>1, <1>3, <1>8, SavingFacts DEF TypeOK
  <2>3. folders' \subseteq Steps
    <3>1. folders \subseteq Steps /\ step \in Steps
      BY <1>1, SavingFacts DEF TypeOK
    <3> QED BY <1>3, <3>1
  <2>4. previous_saved_paths' \in [AllGroups -> Seq(Steps)]
    <3>1. previous_saved_paths \in [AllGroups -> Seq(Steps)] /\ q \in Seq(Steps)
      BY <1>1, <1>6, SavingFacts DEF TypeOK
    <3>2. CASE previous_saved_paths' = previous_saved_paths
      BY <3>1, <3>2
    <3>3. CASE previous_saved_paths' = [previous_saved_paths EXCEPT ![Group] = q]
      BY <3>1, <3>3
    <3> QED BY <1>3, <3>2, <3>3
  <2>5. /\ driver' = driver /\ keep' = keep /\ tracker' = tracker /\ launch' = launch /\ step' = step
        /\ model' = model /\ pos' = pos /\ stage' = stage /\ job' = "saving" /\ Groups' = Groups
    BY <1>1, SavingFacts DEF SavingStep
  <2>6. TypeOK
    BY <1>1, SavingFacts
  <2> QED BY <1>5, <2>1, <2>2, <2>3, <2>4, <2>5, <2>6 DEF TypeOK
<1>10. Remembered'
  <2> SUFFICES ASSUME NEW i \in 1 .. Len(Groups)
               PROVE  LET o == previous_saved_paths'[Groups[i]]
                      IN Increasing(o) /\ (o # <<>> => o[Len(o)] = LastSaved(i)')
    BY <1>1, SavingFacts DEF Remembered
  <2>1. LET o == previous_saved_paths[Groups[i]]
        IN Increasing(o) /\ (o # <<>> => o[Len(o)] = LastSaved(i))
    BY <1>1, SavingFacts DEF Remembered, Running, SavingStep
  <2>2. CASE previous_saved_paths'[Groups[i]] = previous_saved_paths[Groups[i]]
    BY <1>5, <2>1, <2>2
  <2>3. CASE i = stage /\ previous_saved_paths'[Groups[i]] = q
    BY <1>5, <1>6, <2>3
  <2>4. \/ previous_saved_paths'[Groups[i]] = previous_saved_paths[Groups[i]]
        \/ i = stage /\ previous_saved_paths'[Groups[i]] = q
    BY <1>1, <1>3, SavingFacts DEF TypeOK
  <2> QED BY <2>2, <2>3, <2>4
<1>11. Ranked'
  <2>1. \A s \in Ranks : pc[s] \notin {"writing", "dumped"}
    BY <1>1, SavingFacts DEF Ranked, SavingStep
  <2>2. to = "removing" => Len(previous_saved_paths'[Group]) >= keep
    BY <1>1, <1>3
  <2> QED BY <1>1, <1>3, <1>5, <2>1, <2>2, SavingFacts DEF Ranked, SavingStep
<1>12. Written'
  <2>1. pc'[0] \notin {"tracker", "end"}
    BY <1>5, SavingFacts, <1>1 DEF InDriver, DriverPlaces
  <2>2. ASSUME NEW i \in 1 .. Len(Groups), NEW s \in Ranks,
               GroupIsSaved(i)' \/ (i = stage /\ pc'[s] = "dumped")
        PROVE  disk'[Groups[i]][step][s] = Version(step, launch)
    <3>1. pc'[s] # "dumped"
      <4>1. pc[s] # "dumped"
        BY <1>1, SavingFacts DEF Ranked, SavingStep
      <4> QED BY <1>5, <4>1
    <3>2. GroupIsSaved(i) /\ i # stage
      BY <1>5, <2>2, <3>1
    <3>3. disk'[Groups[i]] = disk[Groups[i]]
      BY <1>1, <1>3, <3>2, SavingFacts DEF TypeOK
    <3> QED BY <1>1, <3>2, <3>3, SavingFacts DEF Written, SavingStep
  <2>3. \A g \in AllGroups, s \in Ranks : model[g][s] = Version(step, launch)
    BY <1>1, SavingFacts DEF Written, SavingStep
  <2>4. \A s \in Ranks : stage > 1 \/ pc'[s] \notin {"enter", "removing"} => step \in folders'
    <3>1. \A s \in Ranks : stage > 1 \/ pc[s] \notin {"enter", "removing"} => step \in folders
      BY <1>1, SavingFacts DEF Written, SavingStep
    <3>2. step \in folders => step \in folders'
      BY <1>3, <1>7
    <3>3. to = "entered" => step \in folders'
      BY <1>3
    <3> QED BY <1>5, <3>1, <3>2, <3>3
  <2>5. Groups' = Groups /\ step' = step /\ launch' = launch /\ model' = model /\ stage' = stage
    BY <1>1, SavingFacts DEF SavingStep
  <2> QED BY <2>1, <2>2, <2>3, <2>4, <2>5 DEF Written
<1>13. Kept
  <2> SUFFICES ASSUME tracker \in Steps
               PROVE  /\ tracker \in folders' /\ dataFile'[tracker][0] = dataFile[tracker][0]
                      /\ \A g \in AllGroups, s \in Ranks : disk'[g][tracker][s] = disk[g][tracker][s]
    BY <1>1 DEF SavingStep, Kept
  <2>1. tracker \in folders
    BY <1>1, SavingFacts DEF TrackedShards
  <2>2. tracker \in folders' /\ dataFile'[tracker] = dataFile[tracker]
    BY <1>3, <1>7, <2>1
  <2>3. \A g \in AllGroups : disk'[g][tracker] = disk[g][tracker]
    BY <1>1, <1>3, <1>7, SavingFacts DEF TypeOK
  <2> QED BY <2>2, <2>3
<1>14. TrackedShards'
  BY <1>1, <1>13, SavingFacts, TrackedKept
<1> QED BY <1>1, <1>5, <1>9, <1>10, <1>11, <1>12, <1>13, <1>14
        DEF Inv, StuckOnlyWhenTorn, SavingStep

(* A rank writes its shard of the step's folder.                           *)
LEMMA WriteInv ==
  ASSUME Inv, NEW r \in Ranks, WriteBegin(r) \/ WriteEnd(r)
  PROVE  Inv' /\ SavingStep /\ Kept
<1>1. /\ SavingStep /\ pc[r] \in {"entered", "writing"}
      /\ UNCHANGED <<dataFile, folders, previous_saved_paths>>
  BY DEF WriteBegin, WriteEnd, SavingStep, config, memory
<1>2. \E to \in {"writing", "dumped"}, v \in {Torn, model[Group][r]} :
        /\ disk' = [disk EXCEPT ![Group][step][r] = v] /\ pc' = [pc EXCEPT ![r] = to]
        /\ to = "writing" => \A s \in Ranks : pc[s] \in {"entered", "writing", "dumped"}
        /\ to = "dumped" => pc[r] = "writing" /\ v = model[Group][r]
  BY DEF WriteBegin, WriteEnd
<1>3. PICK to \in {"writing", "dumped"}, v \in {Torn, model[Group][r]} :
        /\ disk' = [disk EXCEPT ![Group][step][r] = v] /\ pc' = [pc EXCEPT ![r] = to]
        /\ to = "writing" => \A s \in Ranks : pc[s] \in {"entered", "writing", "dumped"}
        /\ to = "dumped" => pc[r] = "writing" /\ v = model[Group][r]
  BY <1>2
<1>4. ~InDriver(r)
  BY <1>1 DEF InDriver, DriverPlaces
<1>5. /\ pc'[r] = to /\ \A s \in Ranks \ {r} : pc'[s] = pc[s]
      /\ \A s \in Ranks : ~InDriver(s) /\ ~InDriver(s)'
      /\ \A i \in 1 .. Len(Groups) : /\ GroupIsSaved(i)' <=> GroupIsSaved(i)
                                     /\ LastSaved(i)' = LastSaved(i)
      /\ ~GroupIsSaved(stage)
      /\ tracker \in Nat /\ tracker < step /\ Progress'
      /\ pc' \in [Ranks -> {"idle", "enter", "removing", "entered", "writing", "dumped", "data",
                           "dumping", "tracker", "end"}]
  BY <1>1, <1>3, <1>4, GroupStep
<1>6. /\ Groups' = Groups /\ step' = step /\ launch' = launch /\ model' = model /\ stage' = stage
      /\ driver' = driver /\ keep' = keep /\ tracker' = tracker /\ pos' = pos
      /\ job = "saving" /\ job' = "saving"
  BY <1>1, SavingFacts DEF SavingStep
<1>7. TypeOK /\ step \in Steps /\ Group \in AllGroups /\ Ranked /\ Written /\ Group' = Group
  BY <1>1, SavingFacts
<1>8. disk' \in [AllGroups -> [Steps -> [Ranks -> VersionOK]]]
  <2>1. v \in VersionOK
    BY <1>7, VersionFacts DEF TypeOK
  <2>2. disk \in [AllGroups -> [Steps -> [Ranks -> VersionOK]]]
    BY <1>7 DEF TypeOK
  <2> QED BY <1>3, <1>7, <2>1, <2>2
<1>9. /\ disk'[Group][step][r] = v
      /\ \A g \in AllGroups, n \in Steps, s \in Ranks :
           g # Group \/ n # step \/ s # r => disk'[g][n][s] = disk[g][n][s]
  <2>1. disk \in [AllGroups -> [Steps -> [Ranks -> VersionOK]]]
    BY <1>7 DEF TypeOK
  <2> QED BY <1>3, <1>7, <2>1
<1>10. TypeOK'
  BY <1>1, <1>5, <1>6, <1>7, <1>8 DEF TypeOK
<1>11. Remembered'
  BY <1>1, <1>5, <1>6, SavingFacts DEF Remembered, Running
<1>12. Ranked'
  <2>1. \A s \in Ranks : pc[s] \in {"entered", "writing", "dumped"}
    BY <1>3, <1>7, <1>6 DEF Ranked
  <2>2. \A s \in Ranks : pc'[s] \in {"entered", "writing", "dumped"}
    BY <1>5, <2>1
  <2> QED BY <1>5, <2>2 DEF Ranked
<1>13. Written'
  <2>1. pc'[0] \notin {"tracker", "end"}
    BY <1>1, <1>5, SavingFacts DEF InDriver, DriverPlaces
  <2>2. \A g \in AllGroups, s \in Ranks : model[g][s] = Version(step, launch)
    BY <1>6, <1>7 DEF Written
  <2>3. ASSUME NEW i \in 1 .. Len(Groups), NEW s \in Ranks,
               GroupIsSaved(i)' \/ (i = stage /\ pc'[s] = "dumped")
        PROVE  disk'[Groups[i]][step][s] = Version(step, launch)
    <3>1. CASE i = stage /\ s = r
      <4>1. to = "dumped"
        BY <1>5, <2>3, <3>1
      <4>2. Groups[i] = Group
        BY <1>1, <3>1, SavingFacts
      <4> QED BY <1>3, <1>7, <1>9, <2>2, <3>1, <4>1, <4>2
    <3>2. CASE i = stage /\ s # r
      <4>1. pc[s] = "dumped"
        BY <1>5, <2>3, <3>2
      <4> QED BY <1>1, <1>6, <1>7, <1>9, <3>2, <4>1, SavingFacts DEF Written
    <3>3. CASE i # stage
      <4>1. GroupIsSaved(i)
        BY <1>5, <2>3, <3>3
      <4>2. Groups[i] # Group /\ Groups[i] \in AllGroups
        BY <1>1, <3>3, SavingFacts
      <4>3. disk[Groups[i]][step][s] = Version(step, launch)
        BY <1>6, <1>7, <4>1 DEF Written
      <4> QED BY <1>7, <1>9, <4>2, <4>3
    <3> QED BY <3>1, <3>2, <3>3
  <2>4. step \in folders
    <3>1. pc[r] \notin {"enter", "removing"}
      BY <1>1
    <3> QED BY <1>6, <1>7, <3>1 DEF Written
  <2> QED BY <1>1, <1>6, <2>1, <2>2, <2>3, <2>4 DEF Written
<1>14. Kept
  <2>1. tracker # step
    <3>1. step \in Nat
      BY <1>7, CheckpointAssumption DEF Steps
    <3> QED BY <1>5, <3>1
  <2>2. \A g \in AllGroups, s \in Ranks : tracker \in Steps =>
          disk'[g][tracker][s] = disk[g][tracker][s]
    BY <1>9, <2>1
  <2>3. tracker \in Steps => tracker \in folders
    BY <1>1, SavingFacts DEF TrackedShards
  <2> QED BY <1>1, <1>6, <2>2, <2>3 DEF Kept
<1>15. TrackedShards'
  BY <1>1, <1>14, SavingFacts, TrackedKept
<1> QED BY <1>1, <1>5, <1>6, <1>10, <1>11, <1>12, <1>13, <1>14, <1>15 DEF Inv, StuckOnlyWhenTorn

(* A rank writes the state of its dataloader.                              *)
LEMMA DataInv ==
  ASSUME Inv, NEW r \in Ranks, DataBegin(r) \/ DataEnd(r)
  PROVE  Inv' /\ SavingStep /\ Kept
<1>1. /\ SavingStep /\ pc[r] \in {"data", "dumping"}
      /\ UNCHANGED <<disk, folders, previous_saved_paths>>
  BY DEF DataBegin, DataEnd, SavingStep, config, memory
<1>2. \E to \in {"dumping", "tracker", "end"}, v \in {Torn, pos[r]} :
        /\ dataFile' = [dataFile EXCEPT ![step][r] = v] /\ pc' = [pc EXCEPT ![r] = to]
        /\ to = "tracker" => r = 0 /\ v = pos[r]
        /\ to = "end" => r # 0
  BY DEF DataBegin, DataEnd
<1>3. PICK to \in {"dumping", "tracker", "end"}, v \in {Torn, pos[r]} :
        /\ dataFile' = [dataFile EXCEPT ![step][r] = v] /\ pc' = [pc EXCEPT ![r] = to]
        /\ to = "tracker" => r = 0 /\ v = pos[r]
        /\ to = "end" => r # 0
  BY <1>2
<1>4. /\ Groups' = Groups /\ step' = step /\ launch' = launch /\ model' = model /\ stage' = stage
      /\ driver' = driver /\ keep' = keep /\ tracker' = tracker /\ pos' = pos
      /\ job = "saving" /\ job' = "saving" /\ Group' = Group
  BY <1>1, SavingFacts DEF SavingStep
<1>5. /\ TypeOK /\ Progress /\ Ranked /\ Written /\ TrackedShards
      /\ step \in Steps /\ 0 \in Ranks /\ stage \in 1 .. Len(Groups)
  BY <1>1, SavingFacts
<1>6. /\ pc'[r] = to /\ \A s \in Ranks \ {r} : pc'[s] = pc[s]
      /\ pc' \in [Ranks -> {"idle", "enter", "removing", "entered", "writing", "dumped", "data",
                           "dumping", "tracker", "end"}]
  BY <1>3, <1>5 DEF TypeOK
<1>7. \A s \in Ranks : InDriver(s)
  BY <1>1, <1>4, <1>5 DEF Ranked, InDriver, DriverPlaces
<1>8. \A s \in Ranks : InDriver(s)' /\ pc'[s] \in DriverPlaces
  BY <1>6, <1>7 DEF InDriver, DriverPlaces
<1>9. \A i \in 1 .. Len(Groups) : GroupIsSaved(i)' /\ GroupIsSaved(i) /\ LastSaved(i)' = LastSaved(i)
  BY <1>4, <1>5, <1>7, <1>8 DEF GroupIsSaved, LastSaved
<1>10. /\ dataFile'[step][r] = v
       /\ \A n \in Steps, s \in Ranks : n # step \/ s # r => dataFile'[n][s] = dataFile[n][s]
       /\ dataFile' \in [Steps -> [Ranks -> VersionOK]]
  <2>1. dataFile \in [Steps -> [Ranks -> VersionOK]] /\ v \in VersionOK
    BY <1>5, VersionFacts DEF TypeOK
  <2> QED BY <1>3, <1>5, <2>1
<1>11. TypeOK'
  BY <1>1, <1>4, <1>5, <1>6, <1>10 DEF TypeOK
<1>12. /\ r = 0 => tracker < step /\ tracker # TornTracker
       /\ r # 0 => pc'[0] = pc[0]
       /\ pc'[0] = "end" => r # 0
  <2>1. r = 0 => pc[0] # "end" /\ pc[0] # "tracker"
    BY <1>1
  <2> QED BY <1>3, <1>4, <1>5, <1>6, <2>1 DEF Progress
<1>13. Progress'
  <2>1. pos[0].step = step /\ launch > 0
    BY <1>4, <1>5 DEF Progress, Running
  <2> QED BY <1>4, <1>5, <1>12, <2>1 DEF Progress, Running
<1>14. Remembered'
  BY <1>1, <1>4, <1>9, SavingFacts DEF Remembered, Running
<1>15. Ranked'
  <2>1. \A s \in Ranks : pc'[s] = "tracker" => s = 0
    BY <1>3, <1>4, <1>5, <1>6 DEF Ranked
  <2>2. \A s \in Ranks : pc'[s] \notin {"idle", "removing", "writing", "dumped"}
    BY <1>8 DEF DriverPlaces
  <2> QED BY <1>8, <2>1, <2>2 DEF Ranked
<1>16. Written'
  <2>1. /\ \A g \in AllGroups, s \in Ranks : model[g][s] = Version(step, launch)
        /\ \A i \in 1 .. Len(Groups), s \in Ranks : disk[Groups[i]][step][s] = Version(step, launch)
    BY <1>4, <1>5, <1>9 DEF Written
  <2>2. step \in folders
    <3>1. pc[r] \notin {"enter", "removing"}
      BY <1>1
    <3> QED BY <1>4, <1>5, <3>1 DEF Written
  <2>3. pc'[0] \in {"tracker", "end"} => dataFile'[step][0] = pos[0]
    <3>1. CASE r = 0
      BY <1>3, <1>6, <1>10, <3>1
    <3>2. CASE r # 0
      BY <1>4, <1>5, <1>10, <1>12, <3>2 DEF Written
    <3> QED BY <3>1, <3>2
  <2> QED BY <1>1, <1>4, <2>1, <2>2, <2>3 DEF Written
<1>17. Kept
  <2>1. r = 0 => tracker # step
    <3>1. step \in Int /\ (tracker \in Int)
      BY <1>5, StepFacts DEF TornTracker
    <3> QED BY <1>12, <3>1
  <2>2. tracker \in Steps => dataFile'[tracker][0] = dataFile[tracker][0]
    BY <1>5, <1>10, <2>1
  <2>3. tracker \in Steps => tracker \in folders
    BY <1>5 DEF TrackedShards
  <2> QED BY <1>1, <1>4, <2>2, <2>3 DEF Kept
<1>18. TrackedShards'
  BY <1>5, <1>17, TrackedKept
<1> QED BY <1>1, <1>4, <1>11, <1>13, <1>14, <1>15, <1>16, <1>17, <1>18 DEF Inv, StuckOnlyWhenTorn

LEMMA NextInv ==
  ASSUME KeepsTracked, Inv, [Next]_vars
  PROVE  Inv'
<1>1. CASE Launch
  BY <1>1, LaunchInv
<1>2. CASE Crash
  BY <1>2, SaveDoneInv
<1>3. CASE Train
  BY <1>3, TrainInv
<1>4. CASE GroupSaved
  BY <1>4, GroupSavedInv
<1>5. CASE TruncateTracker \/ SetTracker
  BY <1>5, TrackerInv
<1>6. CASE SaveDone
  BY <1>6, SaveDoneInv
<1>7. ASSUME NEW r \in Ranks, RankStep(r)
      PROVE  Inv'
  BY <1>7, EnterInv, RotateInv, WriteInv, DataInv DEF RankStep
<1>8. CASE UNCHANGED vars
  <2>1. /\ UNCHANGED <<driver, keep, disk, dataFile, folders, tracker, job, launch>>
        /\ UNCHANGED <<step, model, pos, previous_saved_paths, stage, pc>>
    BY <1>8 DEF vars, config, durable, memory
  <2>2. Groups' = Groups /\ Group' = Group /\ Owners' = Owners
    BY <2>1 DEF Groups, Group, Owners
  <2>3. TypeOK' /\ Progress' /\ Ranked'
    BY <2>1, <2>2 DEF Inv, TypeOK, Progress, Running, Ranked, InDriver
  <2>4. Remembered' /\ Written'
    BY <2>1, <2>2 DEF Inv, Remembered, Written, Running, InDriver, LastSaved, GroupIsSaved
  <2>5. TrackedShards' /\ StuckOnlyWhenTorn'
    BY <2>1, <2>2 DEF Inv, TrackedShards, StuckOnlyWhenTorn
  <2> QED BY <2>3, <2>4, <2>5 DEF Inv
<1> QED BY <1>1, <1>2, <1>3, <1>4, <1>5, <1>6, <1>7, <1>8 DEF Next, Run

(* The types of files, memory and places in a save, through any crashes.   *)
THEOREM TypeCorrect ==
  ASSUME KeepsTracked
  PROVE  Spec => []TypeOK
<1>1. Init => Inv
  BY InitInv
<1>2. Inv /\ [Next]_vars => Inv'
  BY NextInv
<1>3. Inv => TypeOK
  BY DEF Inv
<1> QED BY <1>1, <1>2, <1>3, PTL DEF Spec

(* A relaunch fails only on a tracker (PPO) or a data file of another rank  *)
(* (SFT) that a crash cut.                                                  *)
THEOREM StuckOnlyTorn ==
  ASSUME KeepsTracked
  PROVE  Spec => []StuckOnlyWhenTorn
<1>1. Init => Inv
  BY InitInv
<1>2. Inv /\ [Next]_vars => Inv'
  BY NextInv
<1>3. Inv => StuckOnlyWhenTorn
  BY DEF Inv
<1> QED BY <1>1, <1>2, <1>3, PTL DEF Spec

-----------------------------------------------------------------------------
(* What a restart would load: AtomicSnapshot's snap.                       *)
Alive == [p \in Parts |-> Live(p)]
Snapshot == IF tracker = TornTracker THEN [p \in Parts |-> Torn]
            ELSE [p \in Parts |-> IF tracker = 0 THEN Fresh ELSE Saved(p)]

LEMMA PartsFacts ==
  ASSUME TypeOK
  PROVE  /\ <<"data", 0>> \in Parts
         /\ \A p \in Parts : p[1] # "data" => /\ p[1] \in AllGroups /\ p[2] \in Ranks
                                              /\ Used(p[1]) \in ToSet(Groups)
         /\ ToSet(Groups) \subseteq AllGroups
         /\ tracker = TornTracker \/ tracker = 0 \/ tracker \in Steps
         /\ TornTracker \notin Steps /\ 0 \notin Steps /\ TornTracker # 0
<1>1. \A g \in AllGroups : Used(g) \in ToSet(Groups)
  BY GroupsFacts DEF Used
<1>2. TornTracker \notin Steps /\ 0 \notin Steps /\ TornTracker # 0
  BY CheckpointAssumption DEF TornTracker, Steps
<1>3. \A p \in Parts : p[1] # "data" => p[1] \in AllGroups /\ p[2] \in Ranks
  BY DEF Parts
<1>4. <<"data", 0>> \in Parts
  BY DEF Parts
<1>5. ToSet(Groups) \subseteq AllGroups
  BY GroupsFacts
<1>6. tracker = TornTracker \/ tracker = 0 \/ tracker \in Steps
  BY DEF TypeOK
<1> QED BY <1>1, <1>2, <1>3, <1>4, <1>5, <1>6

(* Nothing lost, as far as the snapshot goes.                              *)
LEMMA SnapshotUsable ==
  ASSUME TypeOK, TrackedShards, tracker # TornTracker
  PROVE  Snapshot # [p \in Parts |-> Torn]
<1> DEFINE d == <<"data", 0>>
<1>1. Snapshot[d] = IF tracker = 0 THEN Fresh ELSE dataFile[tracker][0]
  BY PartsFacts DEF Snapshot, Saved
<1>2. tracker \in Steps => dataFile[tracker][0] # Torn
  BY CheckpointAssumption DEF TrackedShards, Torn, Version, Steps
<1>3. Snapshot[d] # Torn
  BY <1>1, <1>2, PartsFacts DEF Fresh, Torn, Version
<1> QED BY <1>3, PartsFacts

LEMMA SnapshotKept ==
  ASSUME TypeOK, Kept
  PROVE  Snapshot' = Snapshot
<1>1. \A g : Used(g)' = Used(g)
  BY DEF Used, Groups, Kept
<1>2. CASE tracker = TornTracker
  BY <1>2 DEF Snapshot, Kept
<1>3. CASE tracker = 0
  BY <1>3, PartsFacts DEF Snapshot, Kept
<1>4. CASE tracker \in Steps
  <2>1. \A p \in Parts : Saved(p)' = Saved(p)
    BY <1>1, <1>4, PartsFacts DEF Saved, Kept
  <2> QED BY <1>4, <2>1, PartsFacts DEF Snapshot, Kept
<1> QED BY <1>2, <1>3, <1>4, PartsFacts

LEMMA AliveKept ==
  ASSUME UNCHANGED <<driver, model, pos>>
  PROVE  Alive' = Alive
<1>1. \A g : Used(g)' = Used(g)
  BY DEF Used, Groups
<1> QED BY <1>1 DEF Alive, Live

LEMMA StutterRefines ==
  ASSUME TypeOK, Kept, UNCHANGED <<model, pos>>
  PROVE  UNCHANGED A!vars
<1>1. Alive' = Alive /\ Snapshot' = Snapshot
  BY AliveKept, SnapshotKept DEF Kept
<1> QED BY <1>1 DEF A!vars, Alive, Snapshot

LEMMA LaunchRefines ==
  ASSUME Inv, Launch
  PROVE  A!Next \/ UNCHANGED A!vars
<1>1. /\ TypeOK /\ TrackedShards /\ UNCHANGED <<driver, disk, dataFile, folders, tracker>>
  BY DEF Inv, Launch, config, durable
<1>2. Kept
  BY <1>1, FilesKept
<1>3. Snapshot' = Snapshot
  BY <1>1, <1>2, SnapshotKept
<1>4. \A g : Used(g)' = Used(g)
  BY <1>1 DEF Used, Groups
<1>5. tracker \in Steps => tracker \in folders /\ dataFile[tracker][0].step = tracker
  BY <1>1 DEF TrackedShards
<1>6. CASE /\ FromScratch
           /\ model' = [g \in AllGroups |-> [r \in Ranks |-> Fresh]]
           /\ pos' = [r \in Ranks |-> Fresh]
  <2>1. tracker = 0
    BY <1>5, <1>6 DEF FromScratch
  <2>2. \A p \in Parts : Live(p)' = Fresh
    BY <1>1, <1>4, <1>6, PartsFacts, CheckpointAssumption DEF Live
  <2>3. Alive' = [p \in Parts |-> Fresh] /\ Snapshot = [p \in Parts |-> Fresh]
    BY <1>1, <2>1, <2>2, PartsFacts DEF Alive, Snapshot
  <2>4. Snapshot # [p \in Parts |-> Torn]
    BY <1>1, <2>1, SnapshotUsable, PartsFacts
  <2>5. A!Restore
    BY <1>3, <2>3, <2>4 DEF A!Restore, Alive, Snapshot
  <2> QED BY <2>5 DEF A!Next
<1>7. CASE /\ tracker \in Steps
           /\ model' = [g \in AllGroups |-> disk[g][tracker]]
           /\ pos' = [r \in Ranks |-> IF dataFile[tracker][r] = Absent
                                     THEN Fresh ELSE dataFile[tracker][r]]
  <2>1. dataFile[tracker][0] # Absent
    BY <1>5, <1>7 DEF Absent, Version, Steps
  <2>2. pos'[0] = dataFile[tracker][0]
    BY <1>7, <2>1, CheckpointAssumption
  <2>3. \A p \in Parts : Live(p)' = Saved(p)
    <3> SUFFICES ASSUME NEW p \in Parts PROVE Live(p)' = Saved(p)
      OBVIOUS
    <3>1. CASE p[1] = "data"
      BY <2>2, <3>1 DEF Live, Saved
    <3>2. CASE p[1] # "data"
      <4>1. Used(p[1]) \in AllGroups
        BY <1>1, <3>2, PartsFacts
      <4> QED BY <1>4, <1>7, <3>2, <4>1 DEF Live, Saved
    <3> QED BY <3>1, <3>2
  <2>4. Alive' = Snapshot
    BY <1>1, <1>7, <2>3, PartsFacts DEF Alive, Snapshot
  <2>5. Snapshot # [p \in Parts |-> Torn]
    BY <1>1, <1>7, SnapshotUsable, PartsFacts
  <2>6. A!Restore
    BY <1>3, <2>4, <2>5 DEF A!Restore, Alive, Snapshot
  <2> QED BY <2>6 DEF A!Next
<1>8. CASE UNCHANGED <<model, pos>>
  BY <1>1, <1>2, <1>8, StutterRefines
<1> QED BY <1>6, <1>7, <1>8 DEF Launch

LEMMA TrainRefines ==
  ASSUME Inv, Train
  PROVE  A!Next
<1>1. /\ TypeOK /\ Progress /\ TrackedShards /\ UNCHANGED <<driver, disk, dataFile, folders, tracker>>
  BY DEF Inv, Train, config, durable
<1>2. Snapshot' = Snapshot
  BY <1>1, FilesKept, SnapshotKept
<1>3. \A g : Used(g)' = Used(g)
  BY <1>1 DEF Used, Groups
<1> DEFINE v == Version(step + 1, launch)
<1>4. model' = [g \in AllGroups |-> [r \in Ranks |-> v]] /\ pos'[0] = v
  BY <1>1, CheckpointAssumption DEF Train, Progress, Running
<1>5. \A p \in Parts : Live(p)' = v
  <2> SUFFICES ASSUME NEW p \in Parts PROVE Live(p)' = v
    OBVIOUS
  <2> HIDE DEF v
  <2>1. CASE p[1] = "data"
    BY <1>4, <2>1 DEF Live
  <2>2. CASE p[1] # "data"
    <3>1. Used(p[1])' \in AllGroups /\ p[2] \in Ranks
      BY <1>1, <1>3, <2>2, PartsFacts
    <3> QED BY <1>4, <2>2, <3>1 DEF Live
  <2> QED BY <2>1, <2>2
<1>6. v \in [step : Steps \cup {0}, launch : 0 .. MaxLaunches]
  <2>1. step + 1 \in Steps /\ launch \in 0 .. MaxLaunches
    BY <1>1, StepFacts DEF Train, Progress, Steps
  <2> QED BY <2>1 DEF Version
<1>7. Alive' = [p \in Parts |-> v]
  BY <1>5 DEF Alive
<1> HIDE DEF v
<1>8. A!Train
  BY <1>2, <1>6, <1>7 DEF A!Train, A!Together, Alive, Snapshot
<1> QED BY <1>8 DEF A!Next

LEMMA TrackerRefines ==
  ASSUME Inv, TruncateTracker \/ SetTracker
  PROVE  A!Next
<1>1. /\ TypeOK /\ Progress /\ Ranked /\ Written /\ job = "saving" /\ pc[0] = "tracker" /\ step \in Steps
      /\ UNCHANGED <<driver, disk, dataFile, model, pos>>
      /\ tracker' = TornTracker \/ tracker' = step
  BY StepFacts DEF Inv, TruncateTracker, SetTracker, config, memory, Progress
<1>2. Alive' = Alive /\ \A g : Used(g)' = Used(g)
  BY <1>1, AliveKept DEF Used, Groups
<1>3. CASE tracker' = TornTracker
  <2>1. Snapshot' = [p \in Parts |-> Torn]
    BY <1>3 DEF Snapshot
  <2>2. A!Lose
    BY <1>2, <2>1 DEF A!Lose, Alive, Snapshot
  <2> QED BY <2>2 DEF A!Next
<1>4. CASE tracker' = step
  <2>1. \A p \in Parts : Saved(p)' = Live(p)
    <3> SUFFICES ASSUME NEW p \in Parts PROVE Saved(p)' = Live(p)
      OBVIOUS
    <3>1. CASE p[1] = "data"
      <4>1. dataFile[step][0] = pos[0]
        BY <1>1 DEF Written
      <4> QED BY <1>1, <1>4, <3>1, <4>1 DEF Saved, Live
    <3>2. CASE p[1] # "data"
      <4>1. PICK i \in 1 .. Len(Groups) : Used(p[1]) = Groups[i]
        BY <1>1, <3>2, PartsFacts, GroupsFacts
      <4>2. GroupIsSaved(i)
        BY <1>1 DEF GroupIsSaved, InDriver, DriverPlaces
      <4>3. Used(p[1]) \in AllGroups /\ p[2] \in Ranks
        BY <1>1, <3>2, PartsFacts
      <4>4. disk[Groups[i]][step][p[2]] = Version(step, launch)
        BY <1>1, <4>2, <4>3 DEF Written
      <4>5. model[Used(p[1])][p[2]] = Version(step, launch)
        BY <1>1, <4>3 DEF Written
      <4> QED BY <1>1, <1>2, <1>4, <3>2, <4>1, <4>4, <4>5 DEF Saved, Live
    <3> QED BY <3>1, <3>2
  <2>2. Snapshot' = Alive
    <3>1. tracker' # TornTracker /\ tracker' # 0
      BY <1>1, <1>4, PartsFacts
    <3> QED BY <2>1, <3>1 DEF Snapshot, Alive
  <2>3. A!Commit
    BY <1>2, <2>2 DEF A!Commit, Alive, Snapshot
  <2> QED BY <2>3 DEF A!Next
<1> QED BY <1>1, <1>3, <1>4

(* A crash and a relaunch anywhere in a save: what a restart would load is *)
(* replaced as a whole, by what training was at one moment, or lost with   *)
(* the tracker.                                                            *)
THEOREM SnapshotRefinement ==
  ASSUME KeepsTracked
  PROVE  Spec => ImplementsSnapshot
<1>1. Init => Inv
  BY InitInv
<1>2. Inv /\ [Next]_vars => Inv'
  BY NextInv
<1>3. Init => A!Init
  <2> SUFFICES ASSUME Init PROVE A!Init
    OBVIOUS
  <2>1. TypeOK
    BY InitInv DEF Inv
  <2>2. \A p \in Parts : Live(p) = Fresh
    <3>1. \A g \in AllGroups, r \in Ranks : model[g][r] = Fresh
      BY DEF Init
    <3>2. pos[0] = Fresh
      BY CheckpointAssumption DEF Init
    <3>3. \A p \in Parts : p[1] # "data" => Used(p[1]) \in AllGroups /\ p[2] \in Ranks
      BY <2>1, PartsFacts
    <3> QED BY <3>1, <3>2, <3>3 DEF Live
  <2>3. Alive = [p \in Parts |-> Fresh] /\ Snapshot = [p \in Parts |-> Fresh]
    BY <2>2 DEF Alive, Snapshot, Init, TornTracker
  <2> QED BY <2>3 DEF A!Init, A!Together, Alive, Snapshot
<1>4. Inv /\ [Next]_vars => [A!Next]_(A!vars)
  <2> SUFFICES ASSUME Inv, [Next]_vars PROVE A!Next \/ UNCHANGED A!vars
    OBVIOUS
  <2>0. TypeOK /\ TrackedShards
    BY DEF Inv
  <2>1. CASE Launch
    BY <2>1, LaunchRefines
  <2>2. CASE Train
    BY <2>2, TrainRefines
  <2>3. CASE TruncateTracker \/ SetTracker
    BY <2>3, TrackerRefines
  <2>4. CASE Crash \/ GroupSaved \/ SaveDone \/ UNCHANGED vars
    <3>1. UNCHANGED <<driver, disk, dataFile, folders, tracker, model, pos>>
      BY <2>4 DEF Crash, GroupSaved, SaveDone, vars, config, durable, memory
    <3> QED BY <2>0, <3>1, FilesKept, StutterRefines
  <2>5. ASSUME NEW r \in Ranks, RankStep(r)
        PROVE  UNCHANGED A!vars
    <3>1. SavingStep /\ Kept
      BY <2>5, EnterInv, RotateInv, WriteInv, DataInv DEF RankStep
    <3> QED BY <2>0, <3>1, StutterRefines DEF SavingStep
  <2> QED BY <2>1, <2>2, <2>3, <2>4, <2>5 DEF Next, Run
<1> QED BY <1>1, <1>2, <1>3, <1>4, PTL DEF Spec, ImplementsSnapshot, A!Spec

-----------------------------------------------------------------------------
(* Rotation.  A launch remembers the folders it has written, but for the    *)
(* one it is writing: room for that one was made before it was opened.     *)
Ours(g) == {n \in Steps : \E r \in Ranks : disk[g][n][r].launch = launch}
Opened(g) == g = Group /\ pc[0] \in {"entered", "writing", "dumped"}

BoundedAt(g) ==
  /\ Ours(g) \subseteq ToSet(previous_saved_paths[g]) \cup (IF Opened(g) THEN {step} ELSE {})
  /\ Len(previous_saved_paths[g]) <= keep
  /\ Opened(g) => Len(previous_saved_paths[g]) < keep
Bounded == keep > 0 /\ launch > 0 => \A g \in AllGroups : BoundedAt(g)

(* No shard is of a launch to come.                                        *)
Aged == \A g \in AllGroups, r \in Ranks :
          /\ model[g][r].launch \in 0 .. launch
          /\ \A n \in Steps : disk[g][n][r].launch \in 0 .. launch
AtRest == job \notin {"saving", "down"} => pc[0] = "idle"

RotationInv == Inv /\ Aged /\ Bounded /\ AtRest

LEMMA ToSetBounded ==
  ASSUME NEW S, NEW q \in Seq(S)
  PROVE  /\ IsFiniteSet(ToSet(q)) /\ Cardinality(ToSet(q)) \in Nat
         /\ Cardinality(ToSet(q)) <= Len(q)
<1>1. Len(q) \in Nat /\ DOMAIN q = 1 .. Len(q) /\ q \in [1 .. Len(q) -> S]
  BY LenProperties
<1>2. IsFiniteSet(1 .. Len(q)) /\ Cardinality(1 .. Len(q)) = Len(q)
  BY <1>1, FS_Interval
<1>3. q \in Surjection(1 .. Len(q), ToSet(q))
  BY <1>1 DEF Surjection, ToSet
<1>4. IsFiniteSet(ToSet(q)) /\ Cardinality(ToSet(q)) <= Len(q)
  BY <1>2, <1>3, FS_Surjection
<1> QED BY <1>4, FS_CardinalityType

(* A folder that is opened takes the place that was kept for it.           *)
LEMMA RotationInvBounds ==
  ASSUME RotationInv
  PROVE  RotationBounds
<1> SUFFICES ASSUME keep > 0, launch > 0, NEW g \in ToSet(Groups)
             PROVE  Cardinality(Ours(g)) <= keep
  BY DEF RotationBounds, Ours
<1> DEFINE p == previous_saved_paths[g]
           c == Cardinality(ToSet(p))
           m == Len(p)
<1>1. TypeOK /\ g \in AllGroups /\ p \in Seq(Steps) /\ keep \in Nat
  <2>1. TypeOK
    BY DEF RotationInv, Inv
  <2>2. g \in AllGroups
    BY <2>1, GroupsFacts
  <2> QED BY <2>1, <2>2, CheckpointAssumption DEF TypeOK
<1>2. BoundedAt(g)
  BY <1>1 DEF RotationInv, Bounded
<1>3. IsFiniteSet(ToSet(p)) /\ c \in Nat /\ c <= m /\ m \in Nat
  BY <1>1, ToSetBounded, LenProperties
<1>4. CASE ~Opened(g)
  <2>1. Ours(g) \subseteq ToSet(p) /\ m <= keep
    BY <1>2, <1>4 DEF BoundedAt
  <2>2. Cardinality(Ours(g)) <= c /\ Cardinality(Ours(g)) \in Nat
    BY <1>3, <2>1, FS_Subset, FS_CardinalityType
  <2> DEFINE d == Cardinality(Ours(g))
  <2> HIDE DEF c, m, d, p
  <2>3. d <= c /\ d \in Nat
    BY <2>2 DEF d
  <2>4. d <= keep
    BY <1>1, <1>3, <2>1, <2>3
  <2> QED BY <2>4 DEF d
<1>5. CASE Opened(g)
  <2>1. Ours(g) \subseteq ToSet(p) \cup {step} /\ m < keep
    BY <1>2, <1>5 DEF BoundedAt
  <2>2. /\ IsFiniteSet(ToSet(p) \cup {step})
        /\ Cardinality(ToSet(p) \cup {step}) = c \/ Cardinality(ToSet(p) \cup {step}) = c + 1
    BY <1>3, FS_AddElement
  <2>3. Cardinality(Ours(g)) <= Cardinality(ToSet(p) \cup {step}) /\ Cardinality(Ours(g)) \in Nat
    BY <2>1, <2>2, FS_Subset, FS_CardinalityType
  <2> DEFINE d == Cardinality(Ours(g))
             e == Cardinality(ToSet(p) \cup {step})
  <2>4. d <= e /\ d \in Nat /\ (e = c \/ e = c + 1)
    BY <2>2, <2>3
  <2> HIDE DEF c, m, d, e, p
  <2>5. d <= keep
    BY <1>1, <1>3, <2>1, <2>4
  <2> QED BY <2>5 DEF d
<1> QED BY <1>4, <1>5

LEMMA InitRotation == Init => RotationInv
<1> SUFFICES ASSUME Init PROVE Aged /\ Bounded /\ AtRest
  BY InitInv DEF RotationInv
<1> QED BY CheckpointAssumption DEF Init, Aged, Bounded, AtRest, Fresh, Absent, Version

(* A step that adds nothing to what the launch has written.                *)
LEMMA BoundedKept ==
  ASSUME Bounded, UNCHANGED <<keep, launch, previous_saved_paths>>,
         launch > 0 => \A g \in AllGroups : Ours(g)' \subseteq Ours(g),
         \/ step' = step /\ \A g \in AllGroups : Opened(g)' <=> Opened(g)
         \/ \A g \in AllGroups : ~Opened(g) /\ ~Opened(g)'
  PROVE  Bounded'
<1> SUFFICES ASSUME keep > 0, launch > 0, NEW g \in AllGroups PROVE BoundedAt(g)'
  BY DEF Bounded
<1>1. BoundedAt(g) /\ Ours(g)' \subseteq Ours(g)
  BY DEF Bounded
<1>2. CASE step' = step /\ (Opened(g)' <=> Opened(g))
  BY <1>1, <1>2 DEF BoundedAt
<1>3. CASE ~Opened(g) /\ ~Opened(g)'
  BY <1>1, <1>3 DEF BoundedAt
<1> QED BY <1>2, <1>3

(* No shard a step tears or removes is of this launch.                     *)
LEMMA ShardsDropped ==
  ASSUME TypeOK, Aged, UNCHANGED <<launch, model>>,
         \A g \in AllGroups, n \in Steps, r \in Ranks :
           disk'[g][n][r] \in {disk[g][n][r], Torn, Absent}
  PROVE  Aged' /\ (launch > 0 => \A g \in AllGroups : Ours(g)' \subseteq Ours(g))
<1>1. Torn.launch = 0 /\ Absent.launch = 0 /\ launch \in Nat
  BY CheckpointAssumption DEF TypeOK, Torn, Absent, Version
<1>2. Aged'
  BY <1>1 DEF Aged
<1>3. ASSUME launch > 0, NEW g \in AllGroups
      PROVE  Ours(g)' \subseteq Ours(g)
  <2>1. \A n \in Steps, r \in Ranks :
          disk'[g][n][r].launch = launch => disk[g][n][r].launch = launch
    BY <1>1, <1>3
  <2> QED BY <2>1 DEF Ours
<1> QED BY <1>2, <1>3

LEMMA LaunchRotation ==
  ASSUME RotationInv, Launch
  PROVE  Aged' /\ Bounded' /\ AtRest'
<1>1. /\ TypeOK /\ Aged /\ launch' = launch + 1 /\ launch \in Nat /\ 0 \in Ranks
      /\ previous_saved_paths' = [g \in AllGroups |-> <<>>] /\ pc' = [r \in Ranks |-> "idle"]
      /\ UNCHANGED <<keep, disk>>
  BY CheckpointAssumption DEF RotationInv, Inv, TypeOK, Launch, config, durable
<1>2. Aged'
  <2>1. \A g \in AllGroups, r \in Ranks :
          \/ model'[g][r] = Fresh \/ model'[g][r] = model[g][r]
          \/ \E n \in Steps : model'[g][r] = disk[g][n][r]
    BY DEF Launch
  <2>2. Fresh.launch = 0
    BY DEF Fresh, Version
  <2> QED BY <1>1, <2>1, <2>2 DEF Aged
<1>3. \A g \in AllGroups : Ours(g)' = {}
  <2>1. \A g \in AllGroups, n \in Steps, r \in Ranks : disk'[g][n][r].launch # launch'
    BY <1>1 DEF Aged
  <2> QED BY <2>1 DEF Ours
<1>4. Bounded'
  <2>1. \A g \in AllGroups : previous_saved_paths'[g] = <<>> /\ Len(<<>>) = 0
    BY <1>1
  <2>2. \A g \in AllGroups : ~Opened(g)'
    BY <1>1 DEF Opened
  <2>3. keep \in Nat
    BY <1>1, CheckpointAssumption DEF TypeOK
  <2> QED BY <1>1, <1>3, <2>1, <2>2, <2>3 DEF Bounded, BoundedAt
<1>5. AtRest'
  BY <1>1 DEF AtRest
<1> QED BY <1>2, <1>4, <1>5

LEMMA TrainRotation ==
  ASSUME RotationInv, Train
  PROVE  Aged' /\ Bounded' /\ AtRest'
<1>1. /\ TypeOK /\ Aged /\ Bounded /\ launch \in Nat /\ 0 \in Ranks /\ pc[0] = "idle"
      /\ job' \in {"saving", "training"}
      /\ model' = [g \in AllGroups |-> [r \in Ranks |-> Version(step + 1, launch)]]
      /\ pc' = [r \in Ranks |-> IF job' = "saving" THEN "enter" ELSE "idle"]
      /\ UNCHANGED <<keep, launch, disk, previous_saved_paths>>
  BY CheckpointAssumption DEF RotationInv, AtRest, Inv, TypeOK, Train, config, durable
<1>2. Aged'
  BY <1>1 DEF Aged, Version
<1>3. \A g \in AllGroups : Ours(g)' = Ours(g) /\ ~Opened(g) /\ ~Opened(g)'
  BY <1>1 DEF Ours, Opened
<1>4. Bounded'
  BY <1>1, <1>3, BoundedKept
<1> QED BY <1>1, <1>2, <1>4 DEF AtRest

(* The end of a group's save closes the folder and remembers it.           *)
LEMMA GroupSavedRotation ==
  ASSUME RotationInv, GroupSaved
  PROVE  Aged' /\ Bounded' /\ AtRest'
<1> DEFINE p == previous_saved_paths[Group]
<1>1. /\ TypeOK /\ Aged /\ Bounded /\ job = "saving" /\ 0 \in Ranks /\ pc[0] = "dumped"
      /\ pc'[0] \in {"enter", "data", "end"}
      /\ previous_saved_paths' = [previous_saved_paths EXCEPT ![Group] = Append(@, step)]
      /\ UNCHANGED <<keep, launch, disk, model, step, job>>
  BY CheckpointAssumption DEF RotationInv, Inv, GroupSaved, config, durable
<1>2. /\ Group \in AllGroups /\ p \in Seq(Steps) /\ step \in Steps /\ keep \in Nat
      /\ previous_saved_paths'[Group] = Append(p, step)
      /\ \A g \in AllGroups \ {Group} : previous_saved_paths'[g] = previous_saved_paths[g]
  <2>1. step \in Steps
    BY <1>1, StepFacts DEF RotationInv, Inv, Progress
  <2> QED BY <1>1, <2>1, GroupsFacts, CheckpointAssumption DEF TypeOK
<1>3. /\ ToSet(Append(p, step)) = ToSet(p) \cup {step} /\ Len(Append(p, step)) = Len(p) + 1
      /\ Len(p) \in Nat
  <2>1. /\ Append(p, step) \in Seq(Steps) /\ Len(Append(p, step)) = Len(p) + 1
        /\ Append(p, step)[Len(p) + 1] = step
        /\ \A i \in 1 .. Len(p) : Append(p, step)[i] = p[i]
    BY <1>2, AppendProperties
  <2>2. DOMAIN p = 1 .. Len(p) /\ DOMAIN Append(p, step) = 1 .. Len(p) + 1 /\ Len(p) \in Nat
    BY <1>2, <2>1, LenProperties
  <2>3. 1 .. Len(p) + 1 = (1 .. Len(p)) \cup {Len(p) + 1}
    BY <2>2
  <2> QED BY <2>1, <2>2, <2>3 DEF ToSet
<1>4. Aged'
  BY <1>1 DEF Aged
<1>5. Bounded'
  <2> SUFFICES ASSUME keep > 0, launch > 0, NEW g \in AllGroups PROVE BoundedAt(g)'
    BY <1>1 DEF Bounded
  <2>1. BoundedAt(g) /\ Ours(g)' = Ours(g) /\ ~Opened(g)'
    BY <1>1 DEF Bounded, Ours, Opened
  <2>2. CASE g = Group
    <3>1. Opened(g)
      BY <1>1, <2>2 DEF Opened
    <3>2. Ours(g)' \subseteq ToSet(previous_saved_paths'[g])
      BY <1>2, <1>3, <2>1, <2>2, <3>1 DEF BoundedAt
    <3>3. Len(p) < keep
      BY <2>1, <2>2, <3>1 DEF BoundedAt
    <3>4. Len(p) + 1 <= keep
      <4> DEFINE m == Len(p)
      <4>1. m \in Nat /\ m < keep
        BY <1>3, <3>3
      <4> HIDE DEF m
      <4>2. m + 1 <= keep
        BY <1>2, <4>1
      <4> QED BY <4>2 DEF m
    <3>5. Len(previous_saved_paths'[g]) <= keep'
      BY <1>1, <1>2, <1>3, <2>2, <3>4
    <3> QED BY <2>1, <3>2, <3>5 DEF BoundedAt
  <2>3. CASE g # Group
    <3>1. previous_saved_paths'[g] = previous_saved_paths[g] /\ ~Opened(g)
      BY <1>2, <2>3 DEF Opened
    <3> QED BY <1>1, <2>1, <3>1 DEF BoundedAt
  <2> QED BY <2>2, <2>3
<1> QED BY <1>1, <1>4, <1>5 DEF AtRest

LEMMA DriverRotation ==
  ASSUME RotationInv, Crash \/ TruncateTracker \/ SetTracker \/ SaveDone \/ UNCHANGED vars
  PROVE  Aged' /\ Bounded' /\ AtRest'
<1>1. /\ TypeOK /\ Aged /\ Bounded /\ AtRest /\ 0 \in Ranks
      /\ UNCHANGED <<driver, keep, launch, disk, model, previous_saved_paths, step, stage>>
  BY CheckpointAssumption
     DEF RotationInv, Inv, Crash, TruncateTracker, SetTracker, SaveDone, vars, config, durable, memory
<1>2. \/ pc'[0] = pc[0]
      \/ pc[0] \in {"tracker", "end"} /\ pc'[0] \in {"idle", "end"}
  BY <1>1 DEF Crash, TruncateTracker, SetTracker, SaveDone, vars, TypeOK
<1>3. Group' = Group
  BY <1>1 DEF Group, Groups
<1>4. \A g \in AllGroups : Ours(g)' = Ours(g) /\ (Opened(g)' <=> Opened(g))
  BY <1>1, <1>2, <1>3 DEF Ours, Opened
<1>5. Bounded'
  BY <1>1, <1>4, BoundedKept
<1>6. AtRest'
  BY <1>1, <1>2 DEF AtRest, Crash, TruncateTracker, SetTracker, SaveDone, vars
<1> QED BY <1>1, <1>5, <1>6 DEF Aged

(* Rank 0 opens a folder without a rotation while there is room for it.    *)
LEMMA EnterRotation ==
  ASSUME RotationInv, NEW r \in Ranks, Enter(r)
  PROVE  Aged' /\ Bounded' /\ AtRest'
<1>1. /\ SavingStep /\ TypeOK /\ Aged /\ Bounded /\ pc[r] = "enter" /\ ~Rotates(r)
      /\ pc' = [pc EXCEPT ![r] = "entered"] /\ UNCHANGED <<disk, previous_saved_paths>>
  BY DEF RotationInv, Inv, Enter, SavingStep, config, memory
<1>2. /\ 0 \in Ranks /\ Group' = Group /\ Group \in AllGroups /\ pc'[r] = "entered"
      /\ UNCHANGED <<keep, launch, model, step, job>> /\ job = "saving"
      /\ \A s \in Ranks \ {r} : pc'[s] = pc[s]
  BY <1>1, SavingFacts DEF RotationInv, SavingStep, TypeOK
<1>3. \A g \in AllGroups : Ours(g)' = Ours(g)
  BY <1>1, <1>2 DEF Ours
<1>4. CASE r # 0
  <2>1. \A g \in AllGroups : Opened(g)' <=> Opened(g)
    BY <1>2, <1>4 DEF Opened
  <2> QED BY <1>1, <1>2, <1>3, <2>1, BoundedKept DEF Aged, AtRest
<1>5. CASE r = 0
  <2>1. ASSUME keep > 0, launch > 0, NEW g \in AllGroups
        PROVE  BoundedAt(g)'
    <3>1. BoundedAt(g) /\ ~Opened(g) /\ (Opened(g)' => g = Group)
      BY <1>1, <1>2, <1>5, <2>1 DEF Bounded, Opened
    <3>2. Opened(g)' => Len(previous_saved_paths[g]) < keep
      <4> DEFINE m == Len(previous_saved_paths[Group])
      <4>1. m \in Nat /\ keep \in Nat
        BY <1>1, <1>2, CheckpointAssumption, LenProperties DEF TypeOK
      <4>2. ~(m >= keep)
        BY <1>1, <1>5, <2>1 DEF Rotates
      <4> HIDE DEF m
      <4>3. m < keep
        BY <4>1, <4>2
      <4> QED BY <3>1, <4>3 DEF m
    <3> QED BY <1>1, <1>2, <1>3, <3>1, <3>2 DEF BoundedAt
  <2> QED BY <1>1, <1>2, <2>1 DEF Bounded, Aged, AtRest
<1> QED BY <1>4, <1>5

LEMMA RotateBeginRotation ==
  ASSUME RotationInv, NEW r \in Ranks, RotateBegin(r)
  PROVE  Aged' /\ Bounded' /\ AtRest'
<1>1. /\ SavingStep /\ TypeOK /\ Aged /\ Bounded /\ pc[0] = "enter" /\ r = 0
      /\ pc' = [pc EXCEPT ![r] = "removing"] /\ UNCHANGED previous_saved_paths
      /\ disk' = [disk EXCEPT ![Group] = [n \in Steps |->
               IF n \in Outdated THEN [s \in Ranks |-> Torn] ELSE disk[Group][n]]]
  BY DEF RotationInv, Inv, RotateBegin, Rotates, SavingStep, config, memory
<1>2. /\ 0 \in Ranks /\ Group' = Group /\ pc'[0] = "removing"
      /\ UNCHANGED <<keep, launch, model, step, job>> /\ job = "saving"
  BY <1>1, SavingFacts DEF RotationInv, SavingStep, TypeOK
<1>3. \A g \in AllGroups, n \in Steps, s \in Ranks : disk'[g][n][s] \in {disk[g][n][s], Torn}
  BY <1>1 DEF TypeOK
<1>4. Aged' /\ (launch > 0 => \A g \in AllGroups : Ours(g)' \subseteq Ours(g))
  BY <1>1, <1>2, <1>3, ShardsDropped
<1>5. \A g \in AllGroups : ~Opened(g) /\ ~Opened(g)'
  BY <1>1, <1>2 DEF Opened
<1> QED BY <1>1, <1>2, <1>4, <1>5, BoundedKept DEF AtRest

(* What is left of a list when its first folder goes.                      *)
LEMMA RotatedList ==
  ASSUME NEW p \in Seq(Steps), p # <<>>
  PROVE  LET q == SubSeq(p, 2, Len(p))
         IN /\ q \in Seq(Steps) /\ Len(q) = Len(p) - 1
            /\ ToSet(p) \subseteq ToSet(q) \cup ToSet(SubSeq(p, 1, 1))
<1> DEFINE m == Len(p)
           q == SubSeq(p, 2, m)
           o == SubSeq(p, 1, 1)
<1>1. m \in Nat /\ m > 0 /\ DOMAIN p = 1 .. m /\ \A i \in 1 .. m : p[i] \in Steps
  BY LenProperties, ElementOfSeq, EmptySeq
<1> HIDE DEF m
<1>2. o \in Seq(Steps) /\ Len(o) = 1 /\ o[1] = p[1]
  <2>1. \A i \in 1 .. 1 : p[i] \in Steps
    BY <1>1
  <2>2. /\ o \in Seq(Steps) /\ Len(o) = (IF 1 <= 1 THEN 1 - 1 + 1 ELSE 0)
        /\ \A i \in 1 .. 1 - 1 + 1 : o[i] = p[1 + i - 1]
    BY <2>1, SubSeqProperties
  <2>3. 1 \in 1 .. 1 - 1 + 1 /\ 1 + 1 - 1 = 1
    OBVIOUS
  <2> QED BY <2>2, <2>3
<1>3. q \in Seq(Steps) /\ Len(q) = m - 1 /\ \A i \in 1 .. m - 1 : q[i] = p[i + 1]
  <2>1. (\A i \in 2 .. m : p[i] \in Steps) /\ 2 \in Int /\ m \in Int
    BY <1>1
  <2>2. /\ q \in Seq(Steps) /\ Len(q) = (IF 2 <= m THEN m - 2 + 1 ELSE 0)
        /\ \A i \in 1 .. m - 2 + 1 : q[i] = p[2 + i - 1]
    BY <2>1, SubSeqProperties
  <2>3. \A i \in 1 .. m - 1 : q[i] = p[2 + i - 1] /\ 2 + i - 1 = i + 1
    BY <1>1, <2>2
  <2> QED BY <1>1, <2>2, <2>3
<1> HIDE DEF o, q
<1>4. DOMAIN o = 1 .. 1 /\ DOMAIN q = 1 .. m - 1
  BY <1>2, <1>3, LenProperties
<1>5. ASSUME NEW n \in ToSet(p)
      PROVE  n \in ToSet(q) \cup ToSet(o)
  <2>1. PICK i \in 1 .. m : n = p[i]
    BY <1>1, <1>5 DEF ToSet
  <2>2. CASE i = 1
    BY <1>2, <1>4, <2>1, <2>2 DEF ToSet
  <2>3. CASE i # 1
    <3>1. i - 1 \in 1 .. m - 1 /\ (i - 1) + 1 = i
      BY <1>1, <2>3
    <3>2. q[i - 1] = n
      BY <1>3, <2>1, <3>1
    <3> QED BY <1>4, <3>1, <3>2 DEF ToSet
  <2> QED BY <2>2, <2>3
<1> QED BY <1>3, <1>5 DEF m, o, q

(* The list is full when a rotation starts, never longer, so one folder    *)
(* goes: the oldest.                                                       *)
LEMMA RotateEndRotation ==
  ASSUME RotationInv, NEW r \in Ranks, RotateEnd(r)
  PROVE  Aged' /\ Bounded' /\ AtRest'
<1> DEFINE p == previous_saved_paths[Group]
           q == SubSeq(p, 2, Len(p))
<1>1. /\ SavingStep /\ TypeOK /\ Progress /\ Aged /\ Bounded
      /\ r = 0 /\ pc[0] = "removing" /\ keep > 0 /\ Len(p) >= keep
      /\ pc' = [pc EXCEPT ![r] = "entered"]
      /\ previous_saved_paths' = [previous_saved_paths EXCEPT
           ![Group] = SubSeq(@, KeepStart + 1, Len(@))]
      /\ disk' = [disk EXCEPT ![Group] = [n \in Steps |->
               IF n \in Outdated THEN [s \in Ranks |-> Absent] ELSE disk[Group][n]]]
  BY DEF RotationInv, Inv, RotateEnd, Ranked, SavingStep, config
<1>2. /\ 0 \in Ranks /\ Group' = Group /\ Group \in AllGroups /\ pc'[0] = "entered" /\ keep \in Nat
      /\ UNCHANGED <<keep, launch, model, step, job>> /\ job = "saving" /\ launch > 0
      /\ p \in Seq(Steps) /\ Len(p) \in Nat
  <2>1. launch > 0
    BY <1>1 DEF Progress, Running, SavingStep
  <2>2. /\ 0 \in Ranks /\ Group' = Group /\ Group \in AllGroups
    BY <1>1, SavingFacts DEF RotationInv
  <2>3. p \in Seq(Steps) /\ keep \in Nat
    BY <1>1, <2>2, CheckpointAssumption DEF TypeOK
  <2> QED BY <1>1, <2>1, <2>2, <2>3, LenProperties DEF TypeOK, SavingStep
<1>3. BoundedAt(Group)
  BY <1>1, <1>2 DEF Bounded
<1>4. Len(p) = keep /\ KeepStart = 1
  <2> DEFINE m == Len(p)
  <2>1. m <= keep /\ m >= keep /\ m \in Nat
    BY <1>1, <1>2, <1>3 DEF BoundedAt
  <2>2. KeepStart = m - keep + 1
    BY DEF KeepStart
  <2> HIDE DEF m
  <2>3. m = keep /\ KeepStart = 1
    BY <1>2, <2>1, <2>2
  <2> QED BY <2>3 DEF m
<1>5. p # <<>>
  BY <1>1, <1>2, <1>4, EmptySeq
<1>6. previous_saved_paths' = [previous_saved_paths EXCEPT ![Group] = q] /\ Outdated = ToSet(SubSeq(p, 1, 1))
  <2>1. KeepStart + 1 = 2
    BY <1>4
  <2> QED BY <1>1, <1>4, <2>1 DEF Outdated
<1>7. Len(q) = Len(p) - 1 /\ ToSet(p) \subseteq ToSet(q) \cup Outdated
  <2> HIDE DEF p
  <2> QED BY <1>2, <1>5, <1>6, RotatedList
<1> HIDE DEF q
<1>8. \A g \in AllGroups, n \in Steps, s \in Ranks : disk'[g][n][s] \in {disk[g][n][s], Absent}
  BY <1>1 DEF TypeOK
<1>9. Aged' /\ \A g \in AllGroups : Ours(g)' \subseteq Ours(g)
  BY <1>1, <1>2, <1>8, ShardsDropped
<1>10. ASSUME NEW g \in AllGroups
       PROVE  BoundedAt(g)'
  <2>1. BoundedAt(g) /\ ~Opened(g)
    BY <1>1, <1>2 DEF Bounded, Opened
  <2>2. CASE g = Group
    <3>1. previous_saved_paths'[g] = q
      BY <1>1, <1>2, <1>6, <2>2 DEF TypeOK
    <3>2. Ours(g)' \cap Outdated = {}
      <4>1. Absent.launch # launch
        BY <1>2 DEF Absent, Version
      <4>2. \A n \in Steps, s \in Ranks : n \in Outdated => disk'[g][n][s] = Absent
        BY <1>1, <1>2, <2>2 DEF TypeOK
      <4> QED BY <1>2, <4>1, <4>2 DEF Ours
    <3>3. Ours(g) \subseteq ToSet(p)
      BY <2>1, <2>2 DEF BoundedAt
    <3>4. Ours(g)' \subseteq ToSet(q)
      BY <1>7, <1>9, <3>2, <3>3
    <3>5. Len(q) < keep
      <4> DEFINE m == Len(p)
                 l == Len(q)
      <4>1. l = m - 1 /\ m = keep
        BY <1>4, <1>7
      <4> HIDE DEF m, l
      <4>2. l < keep
        BY <1>2, <4>1
      <4> QED BY <4>2 DEF l
    <3>6. Len(q) <= keep
      <4> DEFINE l == Len(q)
      <4>1. l = keep - 1
        BY <1>4, <1>7
      <4> HIDE DEF l
      <4>2. l <= keep
        BY <1>2, <4>1
      <4> QED BY <4>2 DEF l
    <3> QED BY <1>2, <3>1, <3>4, <3>5, <3>6 DEF BoundedAt
  <2>3. CASE g # Group
    <3>1. previous_saved_paths'[g] = previous_saved_paths[g] /\ ~Opened(g)'
      BY <1>2, <1>6, <2>3 DEF Opened, TypeOK
    <3> QED BY <1>2, <1>9, <2>1, <3>1 DEF BoundedAt
  <2> QED BY <2>2, <2>3
<1> QED BY <1>1, <1>2, <1>9, <1>10 DEF Bounded, AtRest

(* A shard is written only to the folder rank 0 has opened.                *)
LEMMA WriteRotation ==
  ASSUME RotationInv, NEW r \in Ranks, WriteBegin(r) \/ WriteEnd(r)
  PROVE  Aged' /\ Bounded' /\ AtRest'
<1>1. /\ SavingStep /\ TypeOK /\ Ranked /\ Aged /\ Bounded /\ UNCHANGED previous_saved_paths
      /\ \/ /\ disk' = [disk EXCEPT ![Group][step][r] = Torn]
            /\ pc[r] = "entered" /\ pc' = [pc EXCEPT ![r] = "writing"]
         \/ /\ disk' = [disk EXCEPT ![Group][step][r] = model[Group][r]]
            /\ pc[r] = "writing" /\ pc' = [pc EXCEPT ![r] = "dumped"]
  BY DEF RotationInv, Inv, WriteBegin, WriteEnd, SavingStep, config, memory
<1>2. /\ 0 \in Ranks /\ Group' = Group /\ Group \in AllGroups /\ step \in Steps
      /\ UNCHANGED <<keep, launch, model, step, job>> /\ job = "saving"
  BY <1>1, SavingFacts DEF RotationInv, SavingStep
<1>3. \A g \in AllGroups : Opened(g)' <=> Opened(g)
  <2>1. pc'[0] \in {"entered", "writing", "dumped"} <=> pc[0] \in {"entered", "writing", "dumped"}
    BY <1>1, <1>2 DEF TypeOK
  <2> QED BY <1>2, <2>1 DEF Opened
<1>4. CASE disk' = [disk EXCEPT ![Group][step][r] = Torn]
  <2>1. \A g \in AllGroups, n \in Steps, s \in Ranks : disk'[g][n][s] \in {disk[g][n][s], Torn}
    BY <1>1, <1>2, <1>4 DEF TypeOK
  <2>2. Aged' /\ (launch > 0 => \A g \in AllGroups : Ours(g)' \subseteq Ours(g))
    BY <1>1, <1>2, <2>1, ShardsDropped
  <2> QED BY <1>1, <1>2, <1>3, <2>2, BoundedKept DEF AtRest
<1>5. CASE disk' = [disk EXCEPT ![Group][step][r] = model[Group][r]] /\ pc[r] = "writing"
  <2>1. \A g \in AllGroups, n \in Steps, s \in Ranks :
          disk'[g][n][s] = IF g = Group /\ n = step /\ s = r THEN model[g][s] ELSE disk[g][n][s]
    BY <1>1, <1>2, <1>5 DEF TypeOK
  <2>2. Aged'
    BY <1>1, <1>2, <2>1 DEF Aged
  <2>3. Opened(Group)
    BY <1>1, <1>2, <1>5 DEF Ranked, Opened
  <2>4. \A g \in AllGroups : Ours(g)' \subseteq Ours(g) \cup (IF g = Group THEN {step} ELSE {})
    BY <1>2, <2>1 DEF Ours
  <2>5. ASSUME keep > 0, launch > 0, NEW g \in AllGroups
        PROVE  BoundedAt(g)'
    <3>1. BoundedAt(g)
      BY <1>1, <2>5 DEF Bounded
    <3>2. Ours(g)' \subseteq ToSet(previous_saved_paths[g]) \cup (IF Opened(g) THEN {step} ELSE {})
      BY <2>3, <2>4, <3>1 DEF BoundedAt
    <3> QED BY <1>1, <1>2, <1>3, <3>1, <3>2 DEF BoundedAt
  <2> QED BY <1>1, <1>2, <2>2, <2>5 DEF Bounded, AtRest
<1> QED BY <1>1, <1>4, <1>5

LEMMA DataRotation ==
  ASSUME RotationInv, NEW r \in Ranks, DataBegin(r) \/ DataEnd(r)
  PROVE  Aged' /\ Bounded' /\ AtRest'
<1>1. /\ SavingStep /\ TypeOK /\ Aged /\ Bounded /\ UNCHANGED <<disk, previous_saved_paths>>
      /\ pc[r] \in {"data", "dumping"} /\ \E to \in {"dumping", "tracker", "end"} : pc' = [pc EXCEPT ![r] = to]
  BY DEF RotationInv, Inv, DataBegin, DataEnd, SavingStep, config, memory
<1>2. /\ 0 \in Ranks /\ Group' = Group
      /\ UNCHANGED <<keep, launch, model, step, job>> /\ job = "saving"
  BY <1>1, SavingFacts DEF RotationInv, SavingStep
<1>3. \A g \in AllGroups : Ours(g)' = Ours(g) /\ (Opened(g)' <=> Opened(g))
  BY <1>1, <1>2 DEF Ours, Opened, TypeOK
<1>4. Bounded'
  BY <1>1, <1>2, <1>3, BoundedKept
<1> QED BY <1>1, <1>2, <1>4 DEF Aged, AtRest

LEMMA NextRotation ==
  ASSUME KeepsTracked, RotationInv, [Next]_vars
  PROVE  RotationInv'
<1>1. Inv'
  BY NextInv DEF RotationInv
<1>2. CASE Launch
  BY <1>1, <1>2, LaunchRotation DEF RotationInv
<1>3. CASE Train
  BY <1>1, <1>3, TrainRotation DEF RotationInv
<1>4. CASE GroupSaved
  BY <1>1, <1>4, GroupSavedRotation DEF RotationInv
<1>5. CASE Crash \/ TruncateTracker \/ SetTracker \/ SaveDone \/ UNCHANGED vars
  BY <1>1, <1>5, DriverRotation DEF RotationInv
<1>6. ASSUME NEW r \in Ranks, RankStep(r)
      PROVE  Aged' /\ Bounded' /\ AtRest'
  BY <1>6, EnterRotation, RotateBeginRotation, RotateEndRotation, WriteRotation, DataRotation
     DEF RankStep
<1> QED BY <1>1, <1>2, <1>3, <1>4, <1>5, <1>6 DEF Next, Run, RotationInv

(* save_checkpoint with max_ckpt_to_keep: of the folders a launch writes,  *)
(* at most that many stand at any moment, the one being written included,  *)
(* for any number of ranks, saves and launches and any limit but one.      *)
THEOREM RotationBounded ==
  ASSUME KeepsTracked
  PROVE  Spec => []RotationBounds
<1>1. Init => RotationInv
  BY InitRotation
<1>2. RotationInv /\ [Next]_vars => RotationInv'
  BY NextRotation
<1>3. RotationInv => RotationBounds
  BY RotationInvBounds
<1> QED BY <1>1, <1>2, <1>3, PTL DEF Spec

-----------------------------------------------------------------------------
(* The data files of the ranks of a save, from the dataloaders in memory   *)
(* to the last barrier, and those of the tracked checkpoint.               *)
Usable(v) == v \notin {Torn, Absent}
DataWritten ==
  /\ Running => \A r \in Owners : Usable(pos[r])
  /\ job = "saving" => \A r \in Owners : pc[r] = "end" => Usable(dataFile[step][r])
DataFilesInv == RotationInv /\ DataWritten /\ TrackedData

LEMMA UsableFacts ==
  /\ Usable(Fresh)
  /\ \A n \in Nat, l \in Nat : Usable(Version(n, l))
  /\ \A n \in Int, l \in Nat \ {0} : Usable(Version(n, l))
BY DEF Usable, Fresh, Torn, Absent, Version

(* A step that changes neither files nor the dataloaders in memory.        *)
LEMMA DataUntouched ==
  ASSUME DataFilesInv, UNCHANGED <<driver, disk, dataFile, tracker, launch, step, pos>>,
         Running' => Running, Settled' => Settled,
         job' = "saving" => \A r \in Owners : pc'[r] = "end" => job = "saving" /\ pc[r] = "end"
  PROVE  DataWritten' /\ TrackedData'
<1>1. Owners' = Owners /\ Groups' = Groups
  BY DEF Owners, Groups
<1> QED BY <1>1 DEF DataFilesInv, DataWritten, TrackedData

LEMMA LaunchData ==
  ASSUME DataFilesInv, Launch
  PROVE  DataWritten' /\ TrackedData'
<1>1. /\ TypeOK /\ TrackedShards /\ Aged
      /\ UNCHANGED <<driver, disk, dataFile, folders, tracker>>
      /\ launch' = launch + 1 /\ job' # "saving" /\ job' # "down"
  BY DEF DataFilesInv, RotationInv, Inv, Launch, config, durable
<1>2. Owners' = Owners /\ Groups' = Groups /\ Owners \subseteq Ranks
  BY <1>1, CheckpointAssumption DEF Owners, Groups
<1>3. tracker \in Steps => tracker \in folders
  BY <1>1 DEF TrackedShards
<1>4. tracker \in Steps => disk[Groups[1]][tracker][0].launch # launch'
  <2>1. Groups[1] \in AllGroups /\ 0 \in Ranks /\ launch \in Nat
    BY <1>1, CheckpointAssumption DEF TypeOK, Groups, AllGroups
  <2> QED BY <1>1, <2>1 DEF Aged
<1>5. CASE FromScratch /\ pos' = [r \in Ranks |-> Fresh]
  <2>1. tracker \notin Steps
    BY <1>3, <1>5, CheckpointAssumption DEF FromScratch, Steps
  <2> QED BY <1>1, <1>2, <1>5, <2>1, UsableFacts DEF DataWritten, TrackedData
<1>6. CASE /\ tracker \in Steps /\ Loadable(tracker)
           /\ pos' = [r \in Ranks |-> IF dataFile[tracker][r] = Absent
                                     THEN Fresh ELSE dataFile[tracker][r]]
  <2>1. \A r \in Owners : dataFile[tracker][r] # Torn
    BY <1>6 DEF Loadable
  <2>2. \A r \in Owners : Usable(pos'[r])
    BY <1>2, <1>6, <2>1, UsableFacts DEF Usable
  <2> QED BY <1>1, <1>2, <1>4, <2>1, <2>2 DEF DataWritten, TrackedData
<1>7. CASE job' = "stuck"
  BY <1>7 DEF DataWritten, TrackedData, Running, Settled
<1> QED BY <1>5, <1>6, <1>7 DEF Launch

LEMMA TrainData ==
  ASSUME DataFilesInv, Train
  PROVE  DataWritten' /\ TrackedData'
<1>1. /\ TypeOK /\ Progress /\ job = "training" /\ step' = step + 1
      /\ UNCHANGED <<driver, disk, dataFile, tracker, launch>>
      /\ pc' = [r \in Ranks |-> IF job' = "saving" THEN "enter" ELSE "idle"]
      /\ pos' = [r \in Ranks |-> IF pos[r].step = step THEN Version(step + 1, launch)
                                ELSE Version(pos[r].step + 1, launch)]
  BY DEF DataFilesInv, RotationInv, Inv, Train, config, durable
<1>2. Owners' = Owners /\ Groups' = Groups /\ Owners \subseteq Ranks
  BY <1>1, CheckpointAssumption DEF Owners, Groups
<1>3. launch \in Nat \ {0} /\ step \in Nat
  BY <1>1, StepFacts DEF Progress, Running
<1>4. \A r \in Ranks : pos[r].step \in Int
  <2>1. \A v \in VersionOK : v.step \in Int
    BY DEF VersionOK
  <2> QED BY <1>1, <2>1 DEF TypeOK
<1>5. \A r \in Owners : Usable(pos'[r])
  BY <1>1, <1>2, <1>3, <1>4, UsableFacts
<1>6. \A r \in Owners : pc'[r] # "end"
  BY <1>1, <1>2
<1>7. TrackedData'
  BY <1>1, <1>2 DEF DataFilesInv, TrackedData, Settled
<1> QED BY <1>5, <1>2, <1>6, <1>7 DEF DataWritten

LEMMA TrackerData ==
  ASSUME DataFilesInv, TruncateTracker \/ SetTracker
  PROVE  DataWritten' /\ TrackedData'
<1>1. /\ TypeOK /\ Progress /\ job = "saving" /\ job' = "saving" /\ pc[0] = "tracker"
      /\ UNCHANGED <<driver, disk, dataFile, launch, step, pos>>
      /\ \/ tracker' = TornTracker /\ pc' = pc
         \/ tracker' = step /\ pc' = [pc EXCEPT ![0] = "end"]
  BY DEF DataFilesInv, RotationInv, Inv, TruncateTracker, SetTracker, config, memory
<1>2. Owners' = Owners /\ Owners \subseteq Ranks
  BY <1>1, CheckpointAssumption DEF Owners
<1>3. ~(tracker' \in Steps' /\ Settled')
  BY <1>1, CheckpointAssumption DEF Settled, Steps, TornTracker
<1>4. Usable(dataFile[step][0])
  <2>1. dataFile[step][0] = pos[0]
    BY <1>1 DEF DataFilesInv, RotationInv, Inv, Written
  <2>2. 0 \in Owners
    BY CheckpointAssumption DEF Owners
  <2> QED BY <1>1, <2>1, <2>2 DEF DataFilesInv, DataWritten, Running
<1>5. \A r \in Owners : pc'[r] = "end" => r = 0 \/ pc[r] = "end"
  BY <1>1, <1>2 DEF TypeOK
<1>6. DataWritten'
  BY <1>1, <1>2, <1>4, <1>5 DEF DataFilesInv, DataWritten, Running
<1> QED BY <1>3, <1>6 DEF TrackedData

LEMMA SaveDoneData ==
  ASSUME DataFilesInv, SaveDone
  PROVE  DataWritten' /\ TrackedData'
<1>1. /\ Progress /\ job = "saving" /\ job' # "saving" /\ \A r \in Ranks : pc[r] = "end"
      /\ UNCHANGED <<driver, disk, dataFile, tracker, launch, step, pos>>
  BY DEF DataFilesInv, RotationInv, Inv, SaveDone, config, durable, memory
<1>2. Owners' = Owners /\ Owners \subseteq Ranks /\ 0 \in Ranks
  BY <1>1, CheckpointAssumption DEF Owners
<1>3. tracker = step /\ \A r \in Owners : Usable(dataFile[step][r])
  BY <1>1, <1>2 DEF Progress, DataFilesInv, DataWritten
<1>4. DataWritten'
  BY <1>1, <1>2 DEF DataFilesInv, DataWritten, Running
<1>5. TrackedData'
  BY <1>1, <1>2, <1>3 DEF TrackedData, Usable
<1> QED BY <1>4, <1>5

(* A rank's step in a save: rotation misses the tracked folder, as rank 0's *)
(* data file in it is left alone, and the rest is of the step being saved. *)
LEMMA TrackedFilesKept ==
  ASSUME Inv, NEW r \in Ranks, RankStep(r), SavingStep, Kept, tracker \in Steps, tracker # step
  PROVE  \A s \in Ranks : dataFile'[tracker][s] = dataFile[tracker][s]
<1>1. /\ TypeOK /\ TrackedShards /\ step \in Steps /\ 0 \in Ranks
      /\ dataFile'[tracker][0] = dataFile[tracker][0]
  BY SavingFacts DEF Kept
<1>2. dataFile[tracker][0] \notin {Torn, Absent}
  BY <1>1, CheckpointAssumption DEF TrackedShards, Torn, Absent, Version, Steps
<1>3. CASE Enter(r) \/ WriteBegin(r) \/ WriteEnd(r)
  BY <1>3 DEF Enter, WriteBegin, WriteEnd
<1>4. CASE RotateBegin(r) \/ RotateEnd(r)
  <2>1. CASE dataFile' = dataFile
    BY <2>1
  <2>2. CASE \E v \in {Torn, Absent} :
               dataFile' = [n \in Steps |-> IF n \in Outdated THEN [s \in Ranks |-> v] ELSE dataFile[n]]
    <3>1. tracker \notin Outdated
      BY <1>1, <1>2, <2>2
    <3> QED BY <2>2, <3>1
  <2> QED BY <1>4, <2>1, <2>2 DEF RotateBegin, RotateEnd
<1>5. CASE DataBegin(r) \/ DataEnd(r)
  BY <1>1, <1>5 DEF DataBegin, DataEnd, TypeOK
<1> QED BY <1>3, <1>4, <1>5 DEF RankStep

LEMMA RankData ==
  ASSUME KeepsTracked, DataFilesInv, NEW r \in Ranks, RankStep(r)
  PROVE  DataWritten' /\ TrackedData'
<1>1. Inv /\ SavingStep /\ Kept
  BY EnterInv, RotateInv, WriteInv, DataInv DEF RankStep, DataFilesInv, RotationInv
<1>2. /\ TypeOK /\ Ranked /\ Owners' = Owners /\ Groups' = Groups /\ Owners \subseteq Ranks
      /\ step \in Steps /\ 0 \in Ranks
      /\ job = "saving" /\ job' = job /\ UNCHANGED <<driver, tracker, launch, step, pos>>
  BY <1>1, SavingFacts, CheckpointAssumption DEF SavingStep, Owners
<1>3. Groups[1] \in AllGroups
  BY DEF Groups, AllGroups
<1>4. TrackedData'
  <2>1. CASE tracker \in Steps /\ tracker # step
    <3>1. \A s \in Ranks : dataFile'[tracker][s] = dataFile[tracker][s]
      BY <1>1, <2>1, TrackedFilesKept
    <3>2. disk'[Groups[1]][tracker][0] = disk[Groups[1]][tracker][0]
      BY <1>1, <1>2, <1>3, <2>1 DEF Kept
    <3> QED BY <1>2, <2>1, <3>1, <3>2 DEF DataFilesInv, TrackedData, Settled
  <2>2. CASE tracker \notin Steps \/ tracker = step
    BY <1>2, <2>2 DEF TrackedData, Settled
  <2> QED BY <2>1, <2>2
<1>5. ASSUME NEW s \in Owners, pc'[s] = "end" PROVE Usable(dataFile'[step][s])
  <2>1. CASE Enter(r) \/ RotateBegin(r) \/ RotateEnd(r) \/ WriteBegin(r) \/ WriteEnd(r)
    <3>1. /\ pc[r] \in {"enter", "removing", "entered", "writing"}
          /\ \E to \in {"removing", "entered", "writing", "dumped"} : pc' = [pc EXCEPT ![r] = to]
      BY <2>1 DEF Enter, RotateBegin, RotateEnd, WriteBegin, WriteEnd
    <3>2. ~InDriver(r)
      BY <3>1 DEF InDriver, DriverPlaces
    <3>3. pc[s] = "end" /\ s \in Ranks
      BY <1>2, <1>5, <3>1 DEF TypeOK
    <3>4. InDriver(s)
      BY <3>3 DEF InDriver, DriverPlaces
    <3> QED BY <1>2, <3>2, <3>3, <3>4 DEF Ranked
  <2>2. CASE DataBegin(r) \/ DataEnd(r)
    <3>1. PICK to \in {"dumping", "tracker", "end"}, v \in {Torn, pos[r]} :
            /\ dataFile' = [dataFile EXCEPT ![step][r] = v] /\ pc' = [pc EXCEPT ![r] = to]
            /\ to = "end" => v = pos[r]
      BY <2>2 DEF DataBegin, DataEnd
    <3>2. CASE s = r
      <4>1. pc'[r] = to /\ dataFile'[step][r] = v
        BY <1>2, <3>1 DEF TypeOK
      <4>2. Usable(pos[r])
        BY <1>2, <1>5, <3>2 DEF DataFilesInv, DataWritten, Running
      <4> QED BY <1>5, <3>1, <3>2, <4>1, <4>2
    <3>3. CASE s # r
      <4>1. pc'[s] = pc[s] /\ dataFile'[step][s] = dataFile[step][s]
        BY <1>2, <3>1, <3>3 DEF TypeOK
      <4> QED BY <1>2, <1>5, <4>1 DEF DataFilesInv, DataWritten
    <3> QED BY <3>2, <3>3
  <2> QED BY <2>1, <2>2 DEF RankStep
<1> QED BY <1>2, <1>4, <1>5 DEF DataFilesInv, DataWritten, Running

LEMMA NextData ==
  ASSUME KeepsTracked, DataFilesInv, [Next]_vars
  PROVE  DataFilesInv'
<1>1. RotationInv'
  BY NextRotation DEF DataFilesInv
<1>2. CASE Crash \/ GroupSaved \/ UNCHANGED vars
  <2>1. /\ UNCHANGED <<driver, disk, dataFile, tracker, launch, step, pos>>
        /\ Running' => Running
    BY <1>2 DEF Crash, GroupSaved, vars, config, durable, memory, Running
  <2>2. Settled' => Settled
    BY <1>2 DEF Crash, GroupSaved, vars, config, durable, memory, Settled
  <2>3. job' = "saving" => \A r \in Owners : pc'[r] = "end" => job = "saving" /\ pc[r] = "end"
    <3>1. Owners \subseteq Ranks
      BY CheckpointAssumption DEF Owners
    <3> QED BY <1>2, <3>1 DEF Crash, GroupSaved, vars
  <2> QED BY <1>1, <2>1, <2>2, <2>3, DataUntouched DEF DataFilesInv
<1>3. CASE Launch \/ Train \/ TruncateTracker \/ SetTracker \/ SaveDone
  BY <1>1, <1>3, LaunchData, TrainData, TrackerData, SaveDoneData DEF DataFilesInv
<1>4. ASSUME NEW r \in Ranks, RankStep(r) PROVE DataFilesInv'
  BY <1>1, <1>4, RankData DEF DataFilesInv
<1> QED BY <1>2, <1>3, <1>4 DEF Next, Run

(* _load_checkpoint's counterpart of the saves: whatever the number of     *)
(* ranks, the saves that crashed half-way and the limit on kept ones, so   *)
(* long as that limit is not one, the shards the tracker names and rank    *)
(* 0's dataloader are whole and of one launch at every moment, and the     *)
(* data files of all ranks from the last barrier of their save on.         *)
THEOREM TrackedIsComplete ==
  ASSUME KeepsTracked
  PROVE  Spec => []TrackedComplete
<1>1. Init => DataFilesInv
  <2>1. Init => DataWritten /\ TrackedData
    BY CheckpointAssumption DEF Init, DataWritten, TrackedData, Running, Steps
  <2> QED BY <2>1, InitRotation DEF DataFilesInv
<1>2. DataFilesInv /\ [Next]_vars => DataFilesInv'
  BY NextData
<1>3. DataFilesInv => TrackedComplete
  BY DEF DataFilesInv, RotationInv, Inv, TrackedComplete
<1> QED BY <1>1, <1>2, <1>3, PTL DEF Spec
=============================================================================
