CONSTANTS
    None = None
    c1 = c1
    c2 = c2
    t1 = t1
    t2 = t2
    Cpu = {c1, c2}
    cpu0 = c1
    Thread = {t1, t2}
    Lock = {"cons", "ptable"}
    ptable = "ptable"
    cons = "cons"
    INPUT_BUF = 2
    UINT = 4
    MaxRead = 2
    Keys = {"x", "^D", "^U"}
    Jobs <- MCJobs
SPECIFICATION Spec
INVARIANTS
    OneHolder
    InterruptsMatch
    NoLostInput
PROPERTIES
    ImplementsSpinLock
    ImplementsTerminal
