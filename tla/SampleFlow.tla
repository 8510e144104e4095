----------------------------- MODULE SampleFlow -----------------------------
(***************************************************************************)
(* What the fully asynchronous pipeline promises about its samples, with   *)
(* no coroutine, lock or queue in sight: samples are started in order,     *)
(* only so many are in flight at a time, and each one leaves the pipeline  *)
(* once: used by the trainer, failed, or dropped because the trainer had   *)
(* fallen a whole queue behind.                                            *)
(***************************************************************************)
EXTENDS Integers, FiniteSets

CONSTANTS Total,      \* how many samples there are
          Limit,      \* how many may be in flight
          QueueSize   \* how many finished samples are kept for the trainer

VARIABLES started,    \* samples 1 .. started were started
          inFlight, used, failed, dropped

vars == <<started, inFlight, used, failed, dropped>>

Init == /\ started = 0
        /\ inFlight = {} /\ used = {} /\ failed = {} /\ dropped = {}

Start ==
  /\ started < Total /\ Cardinality(inFlight) < Limit
  /\ started' = started + 1
  /\ inFlight' = inFlight \cup {started + 1}
  /\ UNCHANGED <<used, failed, dropped>>

Use(s) ==
  /\ used' = used \cup {s}
  /\ UNCHANGED <<failed, dropped>>

Fail(s) ==
  /\ failed' = failed \cup {s}
  /\ UNCHANGED <<used, dropped>>

Drop(s) ==
  /\ Cardinality(inFlight) >= QueueSize
  /\ dropped' = dropped \cup {s}
  /\ UNCHANGED <<used, failed>>

Finish ==
  \E s \in inFlight :
    /\ Use(s) \/ Fail(s) \/ Drop(s)
    /\ inFlight' = inFlight \ {s}
    /\ UNCHANGED started

Next == Start \/ Finish

Spec == Init /\ [][Next]_vars
=============================================================================
