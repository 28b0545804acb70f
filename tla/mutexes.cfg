CONSTANTS
    NPROC = 1
    NTHREAD = 3
    MAX_MUTEXES = 1
    Calls <- MCAll
SPECIFICATION Spec
INVARIANTS
    MutualExclusion
    NoMutexPanic
PROPERTIES
    NoOvertaking
    ImplementsHandoff
CHECK_DEADLOCK FALSE
