--------------------------- MODULE AtomicSnapshot ---------------------------
(***************************************************************************)
(* What checkpoints promise to a training job: the parts of the job (the   *)
(* shards of each model and the position in the data) advance together,    *)
(* and a restart finds all of them as they were at one past moment.        *)
(***************************************************************************)
CONSTANTS Parts,      \* what has to be restored together
          Versions,   \* what one part can be worth
          Fresh,      \* the version of an untrained part
          Lost        \* the snapshot of a directory that cannot be resumed

VARIABLES live,       \* the parts in memory
          snap        \* the parts a restart would load

vars == <<live, snap>>

Together(v) == [p \in Parts |-> v]

Init == live = Together(Fresh) /\ snap = Together(Fresh)

\* A training step moves every part to the same new version.
Train == \E v \in Versions : live' = Together(v) /\ UNCHANGED snap

\* A checkpoint becomes the one to resume from, all parts at once.
Commit == snap' = live /\ UNCHANGED live

\* The record of the latest checkpoint is damaged.
Lose == snap' = Lost /\ UNCHANGED live

Restore == snap # Lost /\ live' = snap /\ UNCHANGED snap

Next == Train \/ Commit \/ Lose \/ Restore

Spec == Init /\ [][Next]_vars
=============================================================================
