CONSTANTS
    Free = Free
    NPROC = 2
    NTHREAD = 2
    Cpus = {c1}
    Prog <- MCKill
    KillPids = {2}
    MaxPid = 3
    KallocFails = TRUE
SPECIFICATION FairSpec
PROPERTIES
    KillWakes
    RunnableRuns
