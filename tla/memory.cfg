CONSTANTS
    Nil = Nil
    NPROC = 3
    NTHREAD = 2
    NPAGES = 17
    KTABLES = 1
    PGSIZE = 2
    NPTENTRIES = 2
    KERNBASE = 12
    Increments <- MCIncrements
    Images <- MCImages
    Arguments = {1, 3}
    Prog <- MCProgs
    PIPES = 1
SPECIFICATION Spec
CONSTRAINT ExitIntact
INVARIANTS
    NoVmPanic
    PagesAccounted
    SizeMapped
    LoadedDirLive
