---------------------------- MODULE MCAgentTeams ----------------------------
(* AgentTeams for TLC. *)
EXTENDS AgentTeams, TLC

TeamSymmetry == Permutations(Agents) \cup Permutations(Teams)
=============================================================================
