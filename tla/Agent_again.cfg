SPECIFICATION Spec
CONSTANTS
    Agents = {a1, a2}
    NoAgent = none
    Loop = loop
    Waiters = {}
    Ops = {"spawn", "retry", "message", "despawn"}
    MaxAttempts = 2
    Limits = {"timeout"}
    MaxRestarts = 0
    Errors = {"crash", "raise", "capture"}
    CgroupKill = TRUE
    SpawnRace = FALSE
    CaptureLag = FALSE
INVARIANTS OneAttemptAtATime
SYMMETRY AgentSymmetry
CHECK_DEADLOCK FALSE
