----------------------------- MODULE MCGateway -----------------------------
(* A small instance of Gateway: the bounds are the sizes of the epoch and   *)
(* sequence-number sets, which the .cfg gives.                              *)
EXTENDS Gateway, TLC

CONSTANTS LastEpoch, LastSeq

MCEpochs == 0..LastEpoch
MCSeqs == 0..LastSeq

KeySymmetry == Permutations(Keys)
=============================================================================
