CONSTANTS
    None = None
    Thread = {t1, t2}
    Inode = {100, 200}
    BSIZE = 2
    NDIRECT = 1
    BPB = 2
    MAXOPBLOCKS = 6
    NBLOCKS = 4
    Sizes = {1, 4}
    UINT = 16
SPECIFICATION Spec
SYMMETRY ThreadSymmetry
INVARIANTS
    BlocksAccounted
    ReadsWritten
    OperationFits
CHECK_DEADLOCK FALSE
