CONSTANTS
    p1 = p1
    p2 = p2
    t1 = t1
    t2 = t2
    t3 = t3
    NoTask = NoTask
    Procs = {p1, p2}
    Tasks = {t1, t3}
    ProcOf <- TwoProcesses
    Ids = {1, 2, 3, 4}
    Known = {2}
    Names = {n1}
SPECIFICATION Spec
SYMMETRY InTwoProcesses
INVARIANT NoLostSample
CHECK_DEADLOCK FALSE
