----------------------------- MODULE Checkpoint -----------------------------
(***************************************************************************)
(* Checkpoints of the two drivers that share FSDPCheckpointManager: the    *)
(* PPO driver (RayPPOTrainer, "ppo": worker groups actor and critic, one   *)
(* data.pt, tracker rewritten in place) and the SFT driver                 *)
(* (CheckpointHandler, "sft": one engine, a data file per data-parallel    *)
(* rank, tracker renamed into place).  The job may crash between any two   *)
(* steps and be launched again with resume_mode = "auto".                  *)
(*                                                                         *)
(* A rank's model, optimizer and extra-state files of one folder are one   *)
(* shard, torn while some of the three are missing or half written.        *)
(***************************************************************************)
EXTENDS Integers, Sequences, FiniteSets, SequencesExt

CONSTANTS Ranks,          \* ranks of a worker group, 0 among them
          TotalSteps,     \* total_training_steps
          SaveFreq,       \* trainer.save_freq, positive
          Drivers,        \* drivers under study, a subset of {"ppo", "sft"}
          Keeps,          \* values of max_ckpt_to_keep under study, 0 for None
          MaxLaunches     \* bound: launches of the job

ASSUME CheckpointAssumption ==
  /\ 0 \in Ranks /\ TotalSteps \in Nat \ {0} /\ SaveFreq \in Nat \ {0}
  /\ Drivers \subseteq {"ppo", "sft"} /\ Keeps \subseteq Nat
  /\ MaxLaunches \in Nat \ {0}

VARIABLES
  driver, keep,           \* configuration, chosen once
  disk,                   \* disk[g][n][r]: shard of rank r in folder n of group g
  dataFile,               \* dataFile[n][r]: data.pt, or data_{r}.pt
  folders,                \* the global_step_{n} folders that exist
  tracker,                \* latest_checkpointed_iteration.txt
  job,                    \* "down", "training", "saving", "done" or "stuck"
  launch,                 \* launches so far
  step,                   \* global step in memory
  model,                  \* model[g][r]: version of the shard in memory
  pos,                    \* pos[r]: version of the dataloader of rank r
  previous_saved_paths,   \* previous_saved_paths[g] of rank 0, as steps
  stage,                  \* index in Groups of the group being saved
  pc                      \* pc[r]: where rank r is in a save

durable  == <<disk, dataFile, folders, tracker>>
memory   == <<step, model, pos, previous_saved_paths>>
config   == <<driver, keep>>
vars == <<config, durable, job, launch, memory, stage, pc>>

Steps == 1 .. TotalSteps + MaxLaunches
Owners == IF driver = "sft" THEN Ranks ELSE {0}
Groups == IF driver = "sft" THEN <<"engine">> ELSE <<"actor", "critic">>
AllGroups == {"engine", "actor", "critic"}
Group == Groups[stage]

(* A version is the step that produced it and the launch that ran the step. *)
Version(n, l) == [step |-> n, launch |-> l]
Fresh  == Version(0, 0)
Absent == Version(-1, 0)
Torn   == Version(-2, 0)
Complete == [step : Steps, launch : 1 .. MaxLaunches]
TornTracker == -1

IsLastStep == step >= TotalSteps

-----------------------------------------------------------------------------
Init ==
  /\ driver \in Drivers /\ keep \in Keeps
  /\ disk = [g \in AllGroups |-> [n \in Steps |-> [r \in Ranks |-> Absent]]]
  /\ dataFile = [n \in Steps |-> [r \in Ranks |-> Absent]]
  /\ folders = {} /\ tracker = 0
  /\ job = "down" /\ launch = 0 /\ step = 0
  /\ model = [g \in AllGroups |-> [r \in Ranks |-> Fresh]]
  /\ pos = [r \in Ranks |-> Fresh]
  /\ previous_saved_paths = [g \in AllGroups |-> <<>>]
  /\ stage = 1 /\ pc = [r \in Ranks |-> "idle"]

(* _load_checkpoint / load_checkpoint with resume_mode = "auto".  Without a *)
(* tracker or a folder training starts from scratch; an empty tracker      *)
(* (int('') raises), a missing shard or an unreadable file ends the job.   *)
FromScratch == tracker = 0 \/ (tracker \in Steps /\ tracker \notin folders)

Loadable(n) ==
  /\ n \in folders
  /\ \A g \in ToSet(Groups), r \in Ranks : disk[g][n][r] \in Complete
  /\ \A r \in Owners : dataFile[n][r] # Torn

Launch ==
  /\ job \in {"down", "done"} /\ launch < MaxLaunches
  /\ launch' = launch + 1
  /\ previous_saved_paths' = [g \in AllGroups |-> <<>>]
  /\ stage' = 1 /\ pc' = [r \in Ranks |-> "idle"]
  /\ \/ /\ FromScratch
        /\ step' = 0 /\ job' = "training"
        /\ model' = [g \in AllGroups |-> [r \in Ranks |-> Fresh]]
        /\ pos' = [r \in Ranks |-> Fresh]
     \/ /\ ~FromScratch /\ tracker \in Steps /\ Loadable(tracker)
        /\ step' = tracker
        /\ job' = IF driver = "sft" /\ tracker >= TotalSteps THEN "done" ELSE "training"
        /\ model' = [g \in AllGroups |-> disk[g][tracker]]
        /\ pos' = [r \in Ranks |-> IF dataFile[tracker][r] = Absent
                                   THEN Fresh ELSE dataFile[tracker][r]]
     \/ /\ ~FromScratch /\ ~(tracker \in Steps /\ Loadable(tracker))
        /\ job' = "stuck"
        /\ UNCHANGED <<step, model, pos>>
  /\ UNCHANGED <<config, durable>>

Crash ==
  /\ job \in {"training", "saving"} /\ launch < MaxLaunches
  /\ job' = "down"
  /\ UNCHANGED <<config, durable, launch, memory, stage, pc>>

(* One iteration of the fit loop up to its save condition; the PPO driver  *)
(* may save any step when the ESI instance is about to expire.             *)
Train ==
  /\ job = "training"
  /\ step' = step + 1
  /\ model' = [g \in AllGroups |-> [r \in Ranks |-> Version(step + 1, launch)]]
  /\ pos' = [r \in Ranks |-> IF pos[r].step = step THEN Version(step + 1, launch)
                             ELSE Version(pos[r].step + 1, launch)]
  /\ job' \in (IF step + 1 >= TotalSteps \/ (step + 1) % SaveFreq = 0 THEN {"saving"}
               ELSE IF driver = "ppo" THEN {"saving", "training"} ELSE {"training"})
  /\ stage' = 1
  /\ pc' = [r \in Ranks |-> IF job' = "saving" THEN "enter" ELSE "idle"]
  /\ UNCHANGED <<config, durable, launch, previous_saved_paths>>

-----------------------------------------------------------------------------
(* FSDPCheckpointManager.save_checkpoint, run by every rank of the group.  *)
RotatesLate(r) == r = 0 /\ keep > 0 /\ Len(previous_saved_paths[Group]) > keep   \* mutant
Rotates(r) == r = 0 /\ keep > 0 /\ Len(previous_saved_paths[Group]) >= keep
KeepStartNext == Len(previous_saved_paths[Group]) - keep + 2   \* mutant: one too many goes
KeepStart == Len(previous_saved_paths[Group]) - keep + 1
Outdated == ToSet(SubSeq(previous_saved_paths[Group], 1, KeepStart))

Enter(r) ==   \* no rotation: make the folder and wait
  /\ job = "saving" /\ pc[r] = "enter" /\ ~Rotates(r)
  /\ folders' = folders \cup {step}
  /\ pc' = [pc EXCEPT ![r] = "entered"]
  /\ UNCHANGED <<config, disk, dataFile, tracker, job, launch, memory, stage>>

RotateBegin(r) ==   \* rmtree is under way
  /\ job = "saving" /\ pc[r] = "enter" /\ Rotates(r)
  /\ disk' = [disk EXCEPT ![Group] = [n \in Steps |->
               IF n \in Outdated THEN [s \in Ranks |-> Torn] ELSE disk[Group][n]]]
  /\ dataFile' = IF driver = "ppo" THEN dataFile
                 ELSE [n \in Steps |-> IF n \in Outdated THEN [s \in Ranks |-> Torn]
                                       ELSE dataFile[n]]
  /\ pc' = [pc EXCEPT ![r] = "removing"]
  /\ UNCHANGED <<config, folders, tracker, job, launch, memory, stage>>

RotateEnd(r) ==   \* the SFT path is the step's folder, the PPO path a folder below it
  /\ job = "saving" /\ pc[r] = "removing"
  /\ disk' = [disk EXCEPT ![Group] = [n \in Steps |->
               IF n \in Outdated THEN [s \in Ranks |-> Absent] ELSE disk[Group][n]]]
  /\ dataFile' = IF driver = "ppo" THEN dataFile
                 ELSE [n \in Steps |-> IF n \in Outdated THEN [s \in Ranks |-> Absent]
                                       ELSE dataFile[n]]
  /\ folders' = (IF driver = "ppo" THEN folders ELSE folders \ Outdated) \cup {step}
  /\ previous_saved_paths' = [previous_saved_paths EXCEPT
       ![Group] = SubSeq(@, KeepStart + 1, Len(@))]
  /\ pc' = [pc EXCEPT ![r] = "entered"]
  /\ UNCHANGED <<config, tracker, job, launch, step, model, pos, stage>>

WriteBegin(r) ==   \* past the first barrier
  /\ job = "saving" /\ pc[r] = "entered"
  /\ \A s \in Ranks : pc[s] \in {"entered", "writing", "dumped"}
  /\ disk' = [disk EXCEPT ![Group][step][r] = Torn]
  /\ pc' = [pc EXCEPT ![r] = "writing"]
  /\ UNCHANGED <<config, dataFile, folders, tracker, job, launch, memory, stage>>

WriteEnd(r) ==
  /\ job = "saving" /\ pc[r] = "writing"
  /\ disk' = [disk EXCEPT ![Group][step][r] = model[Group][r]]
  /\ pc' = [pc EXCEPT ![r] = "dumped"]
  /\ UNCHANGED <<config, dataFile, folders, tracker, job, launch, memory, stage>>

GroupSavedByZero ==   \* mutant: rank 0 does not wait for the others
  /\ job = "saving" /\ pc[0] = "dumped"
  /\ previous_saved_paths' = [previous_saved_paths EXCEPT ![Group] = Append(@, step)]
  /\ stage' = IF stage < Len(Groups) THEN stage + 1 ELSE stage
  /\ pc' = [r \in Ranks |-> IF stage < Len(Groups) THEN "enter"
                           ELSE IF r \in Owners THEN "data" ELSE "end"]
  /\ UNCHANGED <<config, durable, job, launch, step, model, pos>>

GroupSaved ==   \* the second barrier; the driver turns to the next group
  /\ job = "saving" /\ \A r \in Ranks : pc[r] = "dumped"
  /\ previous_saved_paths' = [previous_saved_paths EXCEPT ![Group] = Append(@, step)]
  /\ \/ /\ stage < Len(Groups)
        /\ stage' = stage + 1 /\ pc' = [r \in Ranks |-> "enter"]
     \/ /\ stage = Len(Groups)
        /\ stage' = stage /\ pc' = [r \in Ranks |-> IF r \in Owners THEN "data" ELSE "end"]
  /\ UNCHANGED <<config, durable, job, launch, step, model, pos>>

-----------------------------------------------------------------------------
(* The driver's part: the dataloader, then the tracker.  Ranks of the SFT  *)
(* driver do it concurrently and meet only at the final barrier.           *)
DataBegin(r) ==
  /\ job = "saving" /\ pc[r] = "data"
  /\ dataFile' = [dataFile EXCEPT ![step][r] = Torn]
  /\ pc' = [pc EXCEPT ![r] = "dumping"]
  /\ UNCHANGED <<config, disk, folders, tracker, job, launch, memory, stage>>

DataEnd(r) ==
  /\ job = "saving" /\ pc[r] = "dumping"
  /\ dataFile' = [dataFile EXCEPT ![step][r] = pos[r]]
  /\ pc' = [pc EXCEPT ![r] = IF r = 0 THEN "tracker" ELSE "end"]
  /\ UNCHANGED <<config, disk, folders, tracker, job, launch, memory, stage>>

TruncateTracker ==   \* open(tracker, "w")
  /\ job = "saving" /\ pc[0] = "tracker" /\ driver = "ppo" /\ tracker # TornTracker
  /\ tracker' = TornTracker
  /\ UNCHANGED <<config, disk, dataFile, folders, job, launch, memory, stage, pc>>

SetTrackerFirst ==   \* mutant: the tracker is written before the dataloader
  /\ job = "saving" /\ pc[0] \in {"data", "tracker"}
  /\ tracker' = step
  /\ pc' = [pc EXCEPT ![0] = IF @ = "data" THEN @ ELSE "end"]
  /\ UNCHANGED <<config, disk, dataFile, folders, job, launch, memory, stage>>

SetTracker ==   \* f.write, or os.rename of the temporary file
  /\ job = "saving" /\ pc[0] = "tracker" /\ (driver = "ppo" => tracker = TornTracker)
  /\ tracker' = step
  /\ pc' = [pc EXCEPT ![0] = "end"]
  /\ UNCHANGED <<config, disk, dataFile, folders, job, launch, memory, stage>>

SaveDone ==
  /\ job = "saving" /\ \A r \in Ranks : pc[r] = "end"
  /\ job' = IF IsLastStep THEN "done" ELSE "training"
  /\ pc' = [r \in Ranks |-> "idle"]
  /\ UNCHANGED <<config, durable, launch, memory, stage>>

RankStep(r) ==
  \/ Enter(r) \/ RotateBegin(r) \/ RotateEnd(r) \/ WriteBegin(r) \/ WriteEnd(r)
  \/ DataBegin(r) \/ DataEnd(r)

Run == Train \/ GroupSaved \/ TruncateTracker \/ SetTracker \/ SaveDone
       \/ (\E r \in Ranks : RankStep(r))

Next == Launch \/ Crash \/ Run

(* The job runs on and a job that went down is launched again.            *)
Spec == /\ Init /\ [][Next]_vars
        /\ WF_vars(Run) /\ WF_vars(Launch /\ job = "down")

-----------------------------------------------------------------------------
VersionOK == [step : Nat \cup {-1, -2}, launch : 0 .. MaxLaunches]

(* Folders, files, memory and the places of the ranks in a save.           *)
TypeOK ==
  /\ driver \in {"ppo", "sft"} /\ keep \in Keeps
  /\ disk \in [AllGroups -> [Steps -> [Ranks -> VersionOK]]]
  /\ dataFile \in [Steps -> [Ranks -> VersionOK]]
  /\ folders \subseteq Steps /\ tracker \in Steps \cup {0, TornTracker}
  /\ job \in {"down", "training", "saving", "done", "stuck"}
  /\ launch \in 0 .. MaxLaunches /\ step \in Steps \cup {0}
  /\ model \in [AllGroups -> [Ranks -> VersionOK]] /\ pos \in [Ranks -> VersionOK]
  /\ previous_saved_paths \in [AllGroups -> Seq(Steps)] /\ stage \in 1 .. Len(Groups)
  /\ pc \in [Ranks -> {"idle", "enter", "removing", "entered", "writing", "dumped", "data",
                       "dumping", "tracker", "end"}]

(* The shards of the tracked checkpoint, and rank 0's dataloader.          *)
TrackedShards ==
  tracker \in Steps =>
    /\ tracker \in folders
    /\ \E v \in Complete :
         /\ v.step = tracker
         /\ \A g \in ToSet(Groups), r \in Ranks : disk[g][tracker][r] = v
         /\ dataFile[tracker][0].step = tracker

(* The save of the tracked step is over: its last barrier is passed.  A job *)
(* that is stuck had crashed before.                                       *)
Settled == job # "stuck" /\ (job \in {"saving", "down"} => step # tracker)

(* The data files of all ranks: none torn, and none missing either if this *)
(* launch saved the checkpoint.                                            *)
TrackedData ==
  tracker \in Steps /\ Settled => \A r \in Owners :
    /\ dataFile[tracker][r] # Torn
    /\ disk[Groups[1]][tracker][0].launch = launch => dataFile[tracker][r] # Absent

(* The shards of the checkpoint the tracker names were written by one      *)
(* launch at the step the folder is named after, and so was the dataloader *)
(* of rank 0: rotation, the saves of later steps and the half-made folders *)
(* of crashed launches never reach them.  That makes a tracked checkpoint  *)
(* of PPO whole.  Of SFT the data files of the other ranks are whole from  *)
(* the last barrier of the save on; a crash between the tracker and that   *)
(* barrier cuts or loses them: a cut one stops the job (StuckOnlyWhenTorn),*)
(* and without its own a rank starts at the first batch.                   *)
TrackedComplete == TrackedShards /\ TrackedData

(* Of the folders a launch writes, never more than max_ckpt_to_keep stand  *)
(* at a time, the one being written included.                              *)
RotationBounds ==
  keep > 0 /\ launch > 0 => \A g \in ToSet(Groups) :
    Cardinality({n \in Steps : \E r \in Ranks : disk[g][n][r].launch = launch}) <= keep

(* Only a tracker cut by a crash (PPO) or a data file of a rank that had   *)
(* not reached the final barrier (SFT) makes a job that cannot resume.     *)
StuckOnlyWhenTorn ==
  job = "stuck" => IF driver = "ppo" THEN tracker = TornTracker
                   ELSE \E r \in Owners \ {0} : dataFile[tracker][r] = Torn

(* The shards of the groups in use, and the position of the dataloader.   *)
Parts == (AllGroups \X Ranks) \cup {<<"data", 0>>}
Used(g) == IF g \in ToSet(Groups) THEN g ELSE Groups[1]
Live(p) == IF p[1] = "data" THEN pos[0] ELSE model[Used(p[1])][p[2]]
Saved(p) == IF p[1] = "data" THEN dataFile[tracker][0]
            ELSE disk[Used(p[1])][tracker][p[2]]

A == INSTANCE AtomicSnapshot WITH
       Versions <- [step : Steps \cup {0}, launch : 0 .. MaxLaunches],
       Lost <- [p \in Parts |-> Torn],
       live <- [p \in Parts |-> Live(p)],
       snap <- IF tracker = TornTracker THEN [p \in Parts |-> Torn]
               ELSE [p \in Parts |-> IF tracker = 0 THEN Fresh ELSE Saved(p)]

(* What a restart would load moves from one consistent set of parts to     *)
(* another only by the completion of a save, or is lost with the tracker.  *)
ImplementsSnapshot == A!Spec

=============================================================================
