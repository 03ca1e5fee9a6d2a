SPECIFICATION Spec
CONSTANTS
    Agents = {a1}
    NoAgent = none
    Loop = loop
    Waiters = {w1}
    Ops = {"spawn", "get", "cancel", "despawn", "wait"}
    MaxAttempts = 1
    Limits = {"timeout", "stalled"}
    MaxRestarts = 1
    Errors = {"crash", "raise", "capture"}
    CgroupKill = FALSE
    SpawnRace = TRUE
    CaptureLag = TRUE
INVARIANTS CancelledMeansStopped
PROPERTIES OnlyRacesUndo
CHECK_DEADLOCK FALSE
