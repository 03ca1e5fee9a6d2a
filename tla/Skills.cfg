SPECIFICATION Spec
CONSTANTS
    External = 1
    Locations = 2
    Names = {n1, n2}
    NoName = noname
    t1 = t1
    t2 = t2
    Threads <- MCThreads
    Ops <- MCOps
    MaxEdits = 2
INVARIANTS SkillsInv
PROPERTIES OnlyRacesSpoil
SYMMETRY SkillSymmetry
