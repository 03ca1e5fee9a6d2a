------------------------------ MODULE MCAccess ------------------------------
(* Access with interchangeable clients, codes, tokens and callers. *)
EXTENDS Access, TLC

AccessSymmetry ==
    Permutations(Clients) \cup Permutations(Codes) \cup Permutations(Tokens) \cup Permutations(Callers)
=============================================================================
