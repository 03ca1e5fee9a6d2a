SPECIFICATION FairSpec
CONSTANTS
    Agents = {a1}
    NoAgent = none
    Loop = loop
    Waiters = {}
    Ops = {"spawn", "get", "cancel", "despawn", "retry", "message"}
    MaxAttempts = 2
    Limits = {"timeout", "stalled"}
    MaxRestarts = 1
    Errors = {"crash", "raise", "capture"}
    CgroupKill = TRUE
    SpawnRace = FALSE
    CaptureLag = FALSE
INVARIANTS NoOrphanBehindResult CompletedHasResult
PROPERTIES EndStands WorkerEnds AgentSettles
CHECK_DEADLOCK FALSE
