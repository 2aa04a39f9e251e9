----------------------------- MODULE MCPipeline -----------------------------
(* One session: sessions share nothing in the pipeline but the batcher.      *)
EXTENDS Pipeline, TLC

CONSTANTS LastEpoch, LastSeq

MCEpochs == 0..LastEpoch
MCSeqs == 0..LastSeq

TaskSymmetry == Permutations(Tasks)

\* The gateway's last decision and its histories influence nothing here: two
\* states that differ only in them are one.
ProgramState == <<cursors, taskVars>>
=============================================================================
