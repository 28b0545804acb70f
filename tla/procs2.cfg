CONSTANTS
    Free = Free
    NPROC = 3
    NTHREAD = 2
    Cpus = {c1, c2}
    Prog <- MCProcs
    KillPids = {2}
    MaxPid = 3
    KallocFails = FALSE
SPECIFICATION Spec
SYMMETRY CpuSymmetry
CONSTRAINT SlotsIntact
INVARIANTS
    OneCpuPerThread
    NoLostWait
