---------------------------- MODULE MCAgentLoop -----------------------------
(* The configurations under study: tools alone, and tools with an          *)
(* interaction, turn limits and a cache smaller than the conversations.    *)
EXTENDS AgentLoop

MCConfigs ==
  {[interactive |-> FALSE, max_assistant_turns |-> 0, max_user_turns |-> 0, max_cache_size |-> 2],
   [interactive |-> TRUE, max_assistant_turns |-> 3, max_user_turns |-> 2, max_cache_size |-> 1]}
=============================================================================
