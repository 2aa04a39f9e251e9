CONSTANTS
    Keys = {k1}
    LastEpoch = 1
    LastSeq = 2
    Epochs <- MCEpochs
    Seqs <- MCSeqs
SPECIFICATION GatewaySpec
INVARIANT DuplicateWasAdmitted
