SPECIFICATION Spec
CONSTANTS
    Days = {d1}
    Ids = {m1, m2}
    Texts = {x1}
    NoText = notext
    Threads = {t1, t2}
    NoThread = nothread
    NoDay = noday
    NoId = noid
    Ops = {"add", "get", "search", "update", "delete"}
    MaxVersion = 3
INVARIANTS IndexInv
PROPERTIES OnlyRacesSpoil LossOnlyByRace
SYMMETRY MemorySymmetry
