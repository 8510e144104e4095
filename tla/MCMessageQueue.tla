--------------------------- MODULE MCMessageQueue ---------------------------
(* A small instance of MessageQueue; the cfg file gives the constants.     *)
EXTENDS MessageQueue
=============================================================================
