------------------------------- MODULE MCJobs -------------------------------
(***************************************************************************)
(* Instances of Jobs for TLC.  The .cfg files choose the jobs, the threads *)
(* and what callers pass; job ids are interchangeable in the safety runs.  *)
(***************************************************************************)
EXTENDS Jobs, TLC

JobSymmetry == Permutations(Jobs)
=============================================================================
