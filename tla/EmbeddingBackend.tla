-------------------------- MODULE EmbeddingBackend --------------------------
(***************************************************************************)
(* What a backend with a worker process promises to the threads that call  *)
(* it: once constructed, each infer_batch() takes effect at one moment     *)
(* before it returns, with the results of its own features or an error;    *)
(* close() takes effect at one moment too, and all that comes later is     *)
(* refused.  A worker is there only while somebody may need it: it is      *)
(* brought back only for a call, and is gone when a close() returns or the *)
(* construction fails.  There is no lock here, no message, no retry and no *)
(* process; NativeWorker implements this specification.                    *)
(***************************************************************************)
CONSTANTS Infers,    \* calls of infer_batch()
          Closers,   \* calls of close()
          Nobody     \* no results

VARIABLES state,     \* "starting", "open", "closed", or "failed" to start
          call,      \* where each call is, as its caller sees it
          answer,    \* the results a call returned: the call they belong to
          alive      \* a worker process exists

backendVars == <<state, call, answer, alive>>
-----------------------------------------------------------------------------
Init ==
    /\ state = "starting"
    /\ call = [c \in Infers \cup Closers |-> "idle"]
    /\ answer = [c \in Infers |-> Nobody]
    /\ alive = FALSE

ConstructionEnds ==
    /\ state = "starting"
    /\ \/ state' = "open" /\ UNCHANGED alive
       \/ state' = "failed" /\ alive' = FALSE
    /\ UNCHANGED <<call, answer>>

\* An empty batch, or one that is malformed.
ReturnEarly(c) ==
    /\ call[c] = "idle" /\ state \in {"open", "closed"}
    /\ call' = [call EXCEPT ![c] = "early"]
    /\ UNCHANGED <<state, answer, alive>>

Begin(c) ==
    /\ call[c] = "idle" /\ state \in {"open", "closed"}
    /\ call' = [call EXCEPT ![c] = "called"]
    /\ UNCHANGED <<state, answer, alive>>

Infer(c) ==
    /\ call[c] = "called" /\ state = "open"
    /\ call' = [call EXCEPT ![c] = "ok"]
    /\ answer' = [answer EXCEPT ![c] = c]
    /\ UNCHANGED <<state, alive>>

\* An error may leave the worker as it is, or stop it.
Fail(c) ==
    /\ call[c] = "called" /\ state = "open"
    /\ call' = [call EXCEPT ![c] = "failed"]
    /\ alive' \in {alive, FALSE}
    /\ UNCHANGED <<state, answer>>

Refuse(c) ==
    /\ call[c] = "called" /\ state = "closed"
    /\ call' = [call EXCEPT ![c] = "refused"]
    /\ UNCHANGED <<state, answer, alive>>

Close(c) ==
    /\ call[c] = "called" /\ state = "open"
    /\ state' = "closed"
    /\ call' = [call EXCEPT ![c] = "closing"]
    /\ UNCHANGED <<answer, alive>>

\* The close() that took effect, or one that came later.
CloseEnds(c) ==
    /\ call[c] \in {"closing", "called"} /\ state = "closed"
    /\ call' = [call EXCEPT ![c] = "closed"]
    /\ call[c] = "called" => ~alive
    /\ alive' = FALSE
    /\ UNCHANGED <<state, answer>>

WorkerStarts ==
    /\ \/ state = "starting"
       \/ state = "open" /\ \E c \in Infers : call[c] = "called"
    /\ alive' = TRUE
    /\ UNCHANGED <<state, call, answer>>

\* It is stopped, or ends by itself, at any moment.
WorkerEnds ==
    /\ alive' = FALSE
    /\ UNCHANGED <<state, call, answer>>

Next ==
    \/ \E c \in Infers : ReturnEarly(c) \/ Infer(c) \/ Fail(c) \/ Refuse(c)
    \/ \E c \in Closers : Close(c) \/ CloseEnds(c)
    \/ \E c \in Infers \cup Closers : Begin(c)
    \/ ConstructionEnds \/ WorkerStarts \/ WorkerEnds

Spec == Init /\ [][Next]_backendVars
=============================================================================
