CONSTANTS
    t1 = t1
    t2 = t2
    a = a
    b = b
    Threads = {t1, t2}
    Names <- MCNames
    NINODES = 6
    NINODE = 6
    Calls <- MCCalls
SPECIFICATION Spec
CONSTRAINT NoOrphan
INVARIANTS
    NoFsPanic
    LinkCounts
    RefsExact
    DeadlockOnlyInIput
CHECK_DEADLOCK FALSE
