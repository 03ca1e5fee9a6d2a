SPECIFICATION FairSpec
CONSTANTS
    Threads = {t1, t2}
    NoThread = nothread
    Texts = {x1, x2}
    NoText = notext
    Large = {x2}
    Procs = {p1, p2, p3}
    NoProc = noproc
INVARIANTS AnswersBelong EmbeddingInv
PROPERTIES CallsReturn
