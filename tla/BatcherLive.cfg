CONSTANTS
    a1 = a1
    a2 = a2
    a3 = a3
    b1 = b1
    Requests = {a1, b1}
    SessionOf <- MCSessionOf
    Closers = {c1, c2}
    MaxBatch = 2
    PerSession = 1
    MaxWait = 2
    Boundaries <- MCBoundaries
    FrameCounts = {1, 2}
    Delays = {1, 3}
    Horizon = 3
SPECIFICATION FairSpec
PROPERTIES EveryRequestEnds CloseEnds
CHECK_DEADLOCK FALSE
