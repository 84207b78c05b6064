---------------------------- MODULE MCAgentAuth ----------------------------
(***************************************************************************)
(* AgentAuth for TLC: a window of one second, nonce rows kept for two, and *)
(* an agent whose clock shows anything from before the start to the end.   *)
(***************************************************************************)
EXTENDS AgentAuth

Seconds == (-1)..MaxClock
=============================================================================
