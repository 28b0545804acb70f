CONSTANTS
    NoBlock = NoBlock
    Clients = {t1, t2, t3}
    Blocks = {B1, B2, B3}
    NBUF = 2
    pid <- MCPid
    LogPins = 1
    DiskErrors = FALSE
    Kills = TRUE
SPECIFICATION Spec
SYMMETRY BlockSymmetry
INVARIANTS
    HolderAlone
    ReadsLatest
    NoLostWakeup
CHECK_DEADLOCK FALSE
