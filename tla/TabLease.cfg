SPECIFICATION Spec
CONSTANTS
    Tabs = {x1, x2}
    NoTab = notab
    Threads = {t1, t2}
    NoThread = none
    Calls = {"do", "act", "observe", "open", "close"}
    MaxDocs = 2
    MaxActions = 1
    MaxQueries = 1
INVARIANTS LeaseInv Exclusive BusyWhileUsed
SYMMETRY LeaseSymmetry
PROPERTIES ElementsOfThisDocument
