CONSTANTS
    Keys = {k1}
    LastEpoch = 1
    LastSeq = 1
    Epochs <- MCEpochs
    Seqs <- MCSeqs
    Tasks = {t1, t2, t3}
    NoTask = NoTask
    MaxWindows = 1
    MaxCrashes = 1
SPECIFICATION Spec
INVARIANTS PipelineTypeOK InferredOnce NothingOvertakes
PROPERTIES ImplementsSerial LearnsInOrder
SYMMETRY TaskSymmetry
VIEW ProgramState
CHECK_DEADLOCK FALSE
