--------------------------- MODULE DropOldestFifo ---------------------------
(***************************************************************************)
(* What the MessageQueue actor promises, without its event loop: a bounded *)
(* first-in first-out queue that makes room by forgetting its oldest item, *)
(* serves whoever asks as long as it has something, and turns away those   *)
(* who ask once it is closed and empty.                                    *)
(***************************************************************************)
EXTENDS Integers, Sequences

CONSTANTS Clients, Capacity

VARIABLES items,   \* the queue, oldest item first; items are numbered
          made,    \* how many items were put
          open,    \* may an item still be expected?
          asking   \* the clients waiting for an item

vars == <<items, made, open, asking>>

Init == items = <<>> /\ made = 0 /\ open = TRUE /\ asking = {}

Put ==
  /\ made' = made + 1
  /\ items' = Append(IF Len(items) = Capacity THEN Tail(items) ELSE items,
                     made + 1)
  /\ UNCHANGED <<open, asking>>

Ask(c) ==
  /\ c \notin asking
  /\ asking' = asking \cup {c}
  /\ UNCHANGED <<items, made, open>>

(* The oldest item goes to any of those who ask.                           *)
Take(c) ==
  /\ c \in asking /\ items # <<>>
  /\ asking' = asking \ {c}
  /\ items' = Tail(items)
  /\ UNCHANGED <<made, open>>

TurnAway(c) ==
  /\ c \in asking /\ items = <<>> /\ ~open
  /\ asking' = asking \ {c}
  /\ UNCHANGED <<items, made, open>>

Clear == items' = <<>> /\ UNCHANGED <<made, open, asking>>

Close == open' = FALSE /\ UNCHANGED <<items, made, asking>>

Serve == \E c \in Clients : Take(c) \/ TurnAway(c)

Next == Put \/ Clear \/ Close \/ Serve \/ \E c \in Clients : Ask(c)

Safe == Init /\ [][Next]_vars
Spec == Safe /\ WF_vars(Serve)
=============================================================================
