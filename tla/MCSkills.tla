------------------------------ MODULE MCSkills ------------------------------
(* Skills with interchangeable names; one thread searches, the other does the rest. *)
EXTENDS Skills, TLC

CONSTANTS t1, t2

MCThreads == {t1, t2}
MCOps == (t1 :> {"search"}) @@ (t2 :> {"register", "getpath"})

SkillSymmetry == Permutations(Names)
=============================================================================
