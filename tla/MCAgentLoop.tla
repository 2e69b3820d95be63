---------------------------- MODULE MCAgentLoop -----------------------------
(* The instance of AgentLoop for TLC. *)
EXTENDS AgentLoop, TLC
=============================================================================
