-------------------------- MODULE EmbeddingService --------------------------
(***************************************************************************)
(* What the micro-batcher promises to the coroutines that await submit():  *)
(* a request is accepted or refused, an accepted one leaves in a batch and *)
(* is answered with the rest of its batch, and the backend is closed only  *)
(* when no accepted request is left.  There is no time, no queue order and *)
(* no runner here; Batcher implements this specification.                  *)
(***************************************************************************)
EXTENDS Integers, FiniteSets

CONSTANTS Requests,    \* calls of submit()
          SessionOf,   \* the session each request belongs to
          Buckets,     \* length classes
          MaxBatch,    \* BatcherConfig.max_batch_size
          PerSession   \* BatcherConfig.per_session_batch_limit

VARIABLES future,    \* what the caller of each request sees
          bucketOf,  \* the length class of an unanswered request
          inflight,  \* the batch the backend is working on
          closing,   \* close() was called
          backend    \* "open" or "closed"

serviceVars == <<future, bucketOf, inflight, closing, backend>>

NoBucket == -1

Outcome == {"ok", "error"}
-----------------------------------------------------------------------------
Init ==
    /\ future = [r \in Requests |-> "idle"]
    /\ bucketOf = [r \in Requests |-> NoBucket]
    /\ inflight = {}
    /\ closing = FALSE
    /\ backend = "open"

\* A caller asks; the request waits to be accepted.
Ask(r, b) ==
    /\ future[r] = "idle"
    /\ future' = [future EXCEPT ![r] = "asking"]
    /\ bucketOf' = [bucketOf EXCEPT ![r] = b]
    /\ UNCHANGED <<inflight, closing, backend>>

\* A request with an invalid deadline never becomes one.
Reject(r) ==
    /\ future[r] = "idle"
    /\ future' = [future EXCEPT ![r] = "invalid"]
    /\ UNCHANGED <<bucketOf, inflight, closing, backend>>

Accept(r) ==
    /\ future[r] = "asking"
    /\ ~closing
    /\ future' = [future EXCEPT ![r] = "pending"]
    /\ UNCHANGED <<bucketOf, inflight, closing, backend>>

\* Only a service that is closing refuses.
Refuse(r) ==
    /\ future[r] \in {"idle", "asking"}
    /\ closing
    /\ future' = [future EXCEPT ![r] = "refused"]
    /\ bucketOf' = [bucketOf EXCEPT ![r] = NoBucket]
    /\ UNCHANGED <<inflight, closing, backend>>

\* The caller may give up at any moment; an accepted request still occupies
\* its place until its batch is answered.
Cancel(r) ==
    /\ future[r] \in {"asking", "pending"}
    /\ future' = [future EXCEPT ![r] = "cancelled"]
    /\ bucketOf' = IF future[r] = "asking" THEN [bucketOf EXCEPT ![r] = NoBucket] ELSE bucketOf
    /\ UNCHANGED <<inflight, closing, backend>>

\* A batch: accepted requests of one length class, not more than MaxBatch and
\* not more than PerSession of any session.
Depart(batch) ==
    /\ inflight = {} /\ batch # {}
    /\ backend = "open"
    /\ \A r \in batch : future[r] \in {"pending", "cancelled"} /\ bucketOf[r] # NoBucket
    /\ \A r, s \in batch : bucketOf[r] = bucketOf[s]
    /\ Cardinality(batch) <= MaxBatch
    /\ \A r \in batch :
          Cardinality({s \in batch : SessionOf[s] = SessionOf[r]}) <= PerSession
    /\ inflight' = batch
    /\ UNCHANGED <<future, bucketOf, closing, backend>>

\* Everyone in the batch gets the same kind of answer, in one step.
Answer(outcome) ==
    /\ inflight # {}
    /\ future' = [r \in Requests |-> IF r \in inflight /\ future[r] = "pending"
                                     THEN outcome ELSE future[r]]
    /\ bucketOf' = [r \in Requests |-> IF r \in inflight THEN NoBucket ELSE bucketOf[r]]
    /\ inflight' = {}
    /\ UNCHANGED <<closing, backend>>

BeginClose ==
    /\ closing' = TRUE
    /\ UNCHANGED <<future, bucketOf, inflight, backend>>

\* The backend goes away only when nobody is waiting for it.
CloseBackend ==
    /\ closing
    /\ inflight = {}
    /\ \A r \in Requests : future[r] # "pending"
    /\ backend' = "closed"
    /\ UNCHANGED <<future, bucketOf, inflight, closing>>

Next ==
    \/ \E r \in Requests :
          \/ \E b \in Buckets : Ask(r, b)
          \/ Reject(r)
          \/ Accept(r)
          \/ Refuse(r)
          \/ Cancel(r)
    \/ \E batch \in SUBSET Requests : Depart(batch)
    \/ \E outcome \in Outcome : Answer(outcome)
    \/ BeginClose
    \/ CloseBackend

Spec == Init /\ [][Next]_serviceVars
=============================================================================
