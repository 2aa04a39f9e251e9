CONSTANTS
    Keys = {k1, k2}
    LastEpoch = 1
    LastSeq = 2
    Epochs <- MCEpochs
    Seqs <- MCSeqs
SPECIFICATION GatewaySpec
SYMMETRY KeySymmetry
INVARIANTS GatewayTypeOK AdmittedOnce GapsAccounted
PROPERTY AdmitsInOrder
