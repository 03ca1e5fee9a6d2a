SPECIFICATION FairSpec
CONSTANTS
    Jobs = {j1}
    Loop = loop
    Threads = {t1}
    NoJob = NoJob
    TimeoutArgs = {TRUE, FALSE}
    QuietArgs = {TRUE, FALSE}
    KillsGroup = TRUE
    MaxRestarts = 1
PROPERTIES TimedJobsSettle StopKillsProcess WaitsEnd
