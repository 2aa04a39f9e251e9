CONSTANTS
    a1 = a1
    a2 = a2
    a3 = a3
    b1 = b1
    Requests = {a1, a2, b1}
    SessionOf <- MCSessionOf
    Closers = {c1}
    MaxBatch = 2
    PerSession = 1
    MaxWait = 2
    Boundaries <- MCBoundaries
    FrameCounts = {1, 2}
    Delays = {0, 1, 3}
    Horizon = 3
SPECIFICATION Spec
SYMMETRY MCSymmetry
INVARIANTS TypeOK NoOrphan NoLostWakeup NoUseAfterClose
PROPERTIES SessionOrder ImplementsService
CHECK_DEADLOCK FALSE
