CONSTANTS
    NoBlock = NoBlock
    Procs = {p1, p2}
    Blocks = {b1, b2, b3}
    Data = {0, 1}
    MAXOPBLOCKS = 2
    OpBlocks = 1
    LOGSIZE = 4
    nlog = 4
    Kills = TRUE
SPECIFICATION FairSpec
INVARIANTS
    LogSuffices
PROPERTIES
    ImplementsAtomicDisk
    BeginWakes
