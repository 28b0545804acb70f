CONSTANTS
    depth = 2
    IDs = {0, 1, 2, 3}
    Trees = {T1}
    MAX_MUTEXES = 3
SPECIFICATION FairSpec
INVARIANTS
    TreeExclusion
    MutexesAccounted
PROPERTIES
    Wins
