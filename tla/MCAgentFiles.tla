---------------------------- MODULE MCAgentFiles ----------------------------
(* Small instances of AgentFiles for TLC. *)
EXTENDS AgentFiles
=============================================================================
