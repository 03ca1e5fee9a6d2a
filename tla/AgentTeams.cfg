SPECIFICATION TeamSpec
CONSTANTS
    Agents = {a1, a2}
    NoAgent = none
    Loop = loop
    Waiters = {}
    Ops = {"get"}
    MaxAttempts = 1
    Limits = {}
    MaxRestarts = 1
    Errors = {"crash"}
    CgroupKill = TRUE
    SpawnRace = FALSE
    CaptureLag = FALSE
    Teams = {t1, t2}
    NoTeam = noteam
    Sizes = {1, 2}
    TeamOps = {"spawn", "cancel", "despawn", "retry"}
INVARIANTS TeamInv NoneRevived FailedSpawnCleansUp
PROPERTIES SummaryStands CancelReachesAll DespawnTakesChildren
SYMMETRY TeamSymmetry
CHECK_DEADLOCK FALSE
