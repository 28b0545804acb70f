CONSTANTS
    Procs = {1, 2}
    NTHREAD = 1
    NPIPE = 1
    Modes <- MCModes
    Killable = {2}
    NOFILE = 2
    NFILE = 3
    PIPESIZE = 2
    UINT = 4
    Sizes = {1, 3}
    Calls <- MCCalls
SPECIFICATION Spec
INVARIANTS
    NoFileLeak
    PipeFIFO
    NoLostPipeWakeup
CHECK_DEADLOCK FALSE
