---------------------------- MODULE MCOneStepOff ----------------------------
(* Rewards computed in line or launched aside, with and without            *)
(* _balance_batch.                                                         *)
EXTENDS OneStepOff

MCConfigs == [balance_batch : BOOLEAN, launch_reward_fn_async : BOOLEAN]
=============================================================================
