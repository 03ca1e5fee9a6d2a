------------------------------ MODULE MCAgent ------------------------------
(* Agent with interchangeable agents, for runs without liveness properties. *)
EXTENDS Agent, TLC

AgentSymmetry == Permutations(Agents)
=============================================================================
