SPECIFICATION Spec
CONSTANTS
    Jobs = {j1, j2}
    Loop = loop
    Threads = {t1}
    NoJob = NoJob
    TimeoutArgs = {TRUE, FALSE}
    QuietArgs = {FALSE}
    KillsGroup = FALSE
    MaxRestarts = 1
SYMMETRY JobSymmetry
INVARIANTS JobsInv StatusTruth WatcherAccountsForJob WaitReportStands
PROPERTIES ImplementsLifecycle
