--------------------------- MODULE MCNativeWorker ---------------------------
(* Two infer_batch() calls and one close(), with one restart each: three     *)
(* worker processes are all that can be started.                             *)
EXTENDS NativeWorker

CONSTANTS init, i1, i2, c1
=============================================================================
