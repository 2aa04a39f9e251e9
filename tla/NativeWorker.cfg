CONSTANTS
    Processes = {1, 2, 3}
    Nobody = nobody
    init = init
    i1 = i1
    i2 = i2
    c1 = c1
    Constructor = init
    Infers = {i1, i2}
    Closers = {c1}
    RestartAttempts = 1
SPECIFICATION FairSpec
INVARIANTS TypeOK InStep NoLeak MasksFaults
PROPERTIES ImplementsBackend EveryCallEnds
CHECK_DEADLOCK FALSE
