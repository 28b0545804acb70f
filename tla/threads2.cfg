CONSTANTS
    Free = Free
    NPROC = 2
    NTHREAD = 2
    Cpus = {c1, c2}
    Prog <- MCThreads
    KillPids = {2}
    MaxPid = 3
    KallocFails = FALSE
SPECIFICATION Spec
SYMMETRY CpuSymmetry
CONSTRAINT ExitIntact
INVARIANTS
    NoPanic
    ZombieProcHasNoThreads
    FreedOnlyInExitWindow
    NoLostJoin
