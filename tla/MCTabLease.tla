----------------------------- MODULE MCTabLease -----------------------------
(* TabLease with interchangeable threads and tabs. *)
EXTENDS TabLease, TLC

LeaseSymmetry == Permutations(Threads) \cup Permutations(Tabs)
=============================================================================
