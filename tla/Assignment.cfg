CONSTANTS
    p1 = p1
    p2 = p2
    t1 = t1
    t2 = t2
    t3 = t3
    NoTask = NoTask
    Procs = {p1}
    Tasks = {t1, t2, t3}
    ProcOf <- OneProcess
    Ids = {1, 2, 3}
    Known = {1}
    Names = {n1}
SPECIFICATION FairSpec
INVARIANT TypeOK
PROPERTIES ImplementsIdentity EveryCallEnds
CHECK_DEADLOCK FALSE
