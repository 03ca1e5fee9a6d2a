SPECIFICATION Spec
CONSTANTS
    Base = base
    Clients = {c1}
    Codes = {k1, k2}
    Tokens = {t1, t2}
    Callers = {i1}
    CodeTTL = 1
    TokenTTL = 2
    Window = 1
    Limit = 2
    MaxTime = 3
    MaxLosses = 1
INVARIANTS AccessInv ToldStands WindowExact
SYMMETRY AccessSymmetry
