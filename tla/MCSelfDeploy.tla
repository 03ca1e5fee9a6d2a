---------------------------- MODULE MCSelfDeploy ----------------------------
(* SelfDeploy with interchangeable files and deployments. *)
EXTENDS SelfDeploy, TLC

DeploySymmetry == Permutations(Files) \cup Permutations(Deployments)
=============================================================================
