------------------------------ MODULE MCMemory ------------------------------
(* Memory with interchangeable threads, ids and texts. *)
EXTENDS Memory, TLC

MemorySymmetry == Permutations(Threads) \cup Permutations(Ids) \cup Permutations(Texts)
=============================================================================
