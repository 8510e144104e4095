---------------------------- MODULE MCFullyAsync ----------------------------
(* Instances of FullyAsync for TLC; the cfg files give the constants.      *)
EXTENDS FullyAsync
=============================================================================
