CONSTANTS
    t1 = t1
    t2 = t2
    f1 = f1
    f2 = f2
    Threads <- MCThreads
    Files <- MCFiles
    Capacity = 1
    MaxOpens = 4
    NoEntry = NoEntry
    ExclusiveOpen = TRUE
    EnvFaults = FALSE
SPECIFICATION Spec
INVARIANTS
    HealthyReadsSucceed
