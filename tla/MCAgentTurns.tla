---------------------------- MODULE MCAgentTurns ----------------------------
(***************************************************************************)
(* Instance of AgentTurns for TLC: turns are numbers and replies strings.   *)
(***************************************************************************)
EXTENDS AgentTurns

TwoTurns == 1..2
=============================================================================
