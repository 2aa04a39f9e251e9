------------------------------- MODULE Batcher -------------------------------
(***************************************************************************)
(* CrossSessionMicroBatcher of inference/batcher.py.                       *)
(*                                                                         *)
(* Everything runs on one event loop, so the code between two suspension   *)
(* points is one step.  submit() suspends twice: for the condition's lock, *)
(* after start() and after its clock was read, and on its future.  The     *)
(* runner task suspends in condition.wait(), in the timed wait and in      *)
(* to_thread(infer_batch); close() suspends on the runner and in           *)
(* to_thread(backend.close).  The lock itself is free whenever a task is   *)
(* suspended in wait(), so it needs no variable.                           *)
(*                                                                         *)
(* Time is a counter; BatcherConfig's durations are ticks of it.           *)
(***************************************************************************)
EXTENDS Integers, Sequences, FiniteSets, FiniteSetsExt

CONSTANTS Requests,     \* calls of submit()
          SessionOf,    \* [Requests -> sessions]: (tenant_id, session_id)
          Closers,      \* calls of close()
          MaxBatch,     \* config.max_batch_size
          PerSession,   \* config.per_session_batch_limit
          MaxWait,      \* config.max_wait_ms
          Boundaries,   \* config.bucket_boundaries_frames
          FrameCounts,  \* frames of a request's features
          Delays,       \* values of deadline_ms
          Horizon       \* bound: the clock stops here

ASSUME LimitsAssumption == MaxBatch \in Nat \ {0} /\ PerSession \in Nat \ {0}
ASSUME TimeAssumption == MaxWait \in Nat \ {0} /\ Delays \subseteq Int /\ Horizon \in Nat
ASSUME FramesAssumption == FrameCounts \subseteq Nat /\ Boundaries \in Seq(Nat)

VARIABLES now,       \* time.monotonic()
          future,    \* the future of each request, as its caller sees it
          entry,     \* the _QueuedRequest of an unanswered request
          queue,     \* the requests in _queues
          batch,     \* the requests the runner is executing
          runner,    \* where the task of _run() is suspended
          wakeAt,    \* when the runner's timed wait ends
          ordinal,   \* _ordinal
          closing,   \* _closing
          closer,    \* where each close() is suspended
          backend    \* "open" or "closed"

vars == <<now, future, entry, queue, batch, runner, wakeAt, ordinal, closing, closer, backend>>

Resolved == {"ok", "error", "refused", "invalid", "cancelled"}
Future == {"idle", "asking", "pending"} \cup Resolved
Runner == {"none", "ready", "waiting", "timed", "executing", "stopped"}
Closer == {"idle", "joining", "closing_backend", "done"}
-----------------------------------------------------------------------------
(* The queues *)

\* _bucket_for_frames: the first boundary the length does not exceed.
X_BucketFromOne(frames) == 1 + Cardinality({i \in 1..Len(Boundaries) : Boundaries[i] < frames})
BucketFor(frames) == Cardinality({i \in 1..Len(Boundaries) : Boundaries[i] < frames})

Buckets == 0..Len(Boundaries)

NoEntry == [bucket |-> -1, enqueued_at |-> 0, deadline_at |-> 0, ordinal |-> 0]

Entry == [bucket : Buckets, enqueued_at : Nat, deadline_at : Nat, ordinal : Nat]
         \cup {NoEntry}

InBucket(b) == {r \in queue : entry[r].bucket = b}

\* _flush_at, per request: the earlier of its maximum wait and its deadline.
FlushTime(r) == IF entry[r].deadline_at < entry[r].enqueued_at + MaxWait
                THEN entry[r].deadline_at
                ELSE entry[r].enqueued_at + MaxWait

\* _select_ready_bucket
IsReady(b) == /\ InBucket(b) # {}
              /\ \/ closing
                 \/ Cardinality(InBucket(b)) >= MaxBatch
                 \/ \E r \in InBucket(b) : now >= FlushTime(r)

Deadline(b) == Min({entry[r].deadline_at : r \in InBucket(b)})
FlushAt(b) == Min({FlushTime(r) : r \in InBucket(b)})

MoreUrgent(b, c) ==
    \/ Deadline(b) < Deadline(c)
    \/ Deadline(b) = Deadline(c) /\ FlushAt(b) < FlushAt(c)
    \/ Deadline(b) = Deadline(c) /\ FlushAt(b) = FlushAt(c) /\ b < c

IsSelected(b) == IsReady(b) /\ \A c \in Buckets \ {b} : IsReady(c) => MoreUrgent(b, c)

\* _take_batch: in (deadline, enqueued, ordinal) order, at most PerSession of a
\* session and MaxBatch in all.  Its fallback for an empty selection is dead:
\* the limits are positive.
X_LastFirst(r, s) == entry[r].ordinal > entry[s].ordinal
Before(r, s) ==
    \/ entry[r].deadline_at < entry[s].deadline_at
    \/ /\ entry[r].deadline_at = entry[s].deadline_at
       /\ \/ entry[r].enqueued_at < entry[s].enqueued_at
          \/ /\ entry[r].enqueued_at = entry[s].enqueued_at
             /\ entry[r].ordinal < entry[s].ordinal

X_WithinLimitCapless(b) == InBucket(b)
WithinLimit(b) ==
    {r \in InBucket(b) :
        Cardinality({s \in InBucket(b) : SessionOf[s] = SessionOf[r] /\ Before(s, r)})
            < PerSession}

BatchOf(b) ==
    {r \in WithinLimit(b) : Cardinality({s \in WithinLimit(b) : Before(s, r)}) < MaxBatch}
-----------------------------------------------------------------------------
(* submit() *)

\* condition.notify_all(): a runner suspended in either wait goes on.
X_NotifyNobody == UNCHANGED runner
X_NotifyOnlyIdle == runner' = IF runner = "waiting" THEN "ready" ELSE runner
NotifyAll == runner' = IF runner \in {"waiting", "timed"} THEN "ready" ELSE runner

\* start() and the reading of the clock, up to the lock.
Submit(r, frames, d) ==
    /\ future[r] = "idle" /\ ~closing
    /\ now + MaxWait <= Horizon
    /\ runner' = IF runner = "none" THEN "ready" ELSE runner
    /\ IF d <= 0
       THEN /\ future' = [future EXCEPT ![r] = "invalid"]
            /\ UNCHANGED entry
       ELSE /\ future' = [future EXCEPT ![r] = "asking"]
            /\ entry' = [entry EXCEPT ![r] = [bucket |-> BucketFor(frames),
                                              enqueued_at |-> now,
                                              deadline_at |-> now + d,
                                              ordinal |-> 0]]
    /\ UNCHANGED <<now, queue, batch, wakeAt, ordinal, closing, closer, backend>>

\* start() raises.
SubmitClosed(r) ==
    /\ future[r] = "idle" /\ closing
    /\ future' = [future EXCEPT ![r] = "refused"]
    /\ UNCHANGED <<now, entry, queue, batch, runner, wakeAt, ordinal, closing, closer, backend>>

\* The second look at _closing, under the lock.
X_NoSecondLook(r) == future[r] = "asking"
MayEnqueue(r) == future[r] = "asking" /\ ~closing

\* The body under the lock.
Enqueue(r) ==
    /\ MayEnqueue(r)
    /\ future' = [future EXCEPT ![r] = "pending"]
    /\ entry' = [entry EXCEPT ![r].ordinal = ordinal]
    /\ ordinal' = ordinal + 1
    /\ queue' = queue \cup {r}
    /\ NotifyAll
    /\ UNCHANGED <<now, batch, wakeAt, closing, closer, backend>>

EnqueueClosed(r) ==
    /\ future[r] = "asking" /\ closing
    /\ future' = [future EXCEPT ![r] = "refused"]
    /\ entry' = [entry EXCEPT ![r] = NoEntry]
    /\ UNCHANGED <<now, queue, batch, runner, wakeAt, ordinal, closing, closer, backend>>

\* The caller's task is cancelled while submit() waits for the lock or for its
\* future.  A queued request stays in its queue.
Cancel(r) ==
    /\ future[r] \in {"asking", "pending"}
    /\ future' = [future EXCEPT ![r] = "cancelled"]
    /\ entry' = IF future[r] = "asking" THEN [entry EXCEPT ![r] = NoEntry] ELSE entry
    /\ UNCHANGED <<now, queue, batch, runner, wakeAt, ordinal, closing, closer, backend>>
-----------------------------------------------------------------------------
(* _run(): one action per way through the loop's body *)

RunnerWaits ==
    /\ runner = "ready"
    /\ queue = {} /\ ~closing
    /\ runner' = "waiting"
    /\ UNCHANGED <<now, future, entry, queue, batch, wakeAt, ordinal, closing, closer, backend>>

MayStop == closing /\ queue = {}

RunnerStops ==
    /\ runner = "ready"
    /\ MayStop
    /\ runner' = "stopped"
    /\ UNCHANGED <<now, future, entry, queue, batch, wakeAt, ordinal, closing, closer, backend>>

\* _next_wake_at and the timed wait.
RunnerSleeps ==
    /\ runner = "ready"
    /\ queue # {} /\ \A b \in Buckets : ~IsReady(b)
    /\ runner' = "timed"
    /\ \E first \in queue :
          /\ \A r \in queue : FlushTime(first) <= FlushTime(r)
          /\ wakeAt' = FlushTime(first)
    /\ UNCHANGED <<now, future, entry, queue, batch, ordinal, closing, closer, backend>>

RunnerTimesOut ==
    /\ runner = "timed" /\ now >= wakeAt
    /\ runner' = "ready"
    /\ UNCHANGED <<now, future, entry, queue, batch, wakeAt, ordinal, closing, closer, backend>>

RunnerTakes(b) ==
    /\ runner = "ready"
    /\ IsSelected(b)
    /\ runner' = "executing"
    /\ batch' = BatchOf(b)
    /\ queue' = queue \ BatchOf(b)
    /\ UNCHANGED <<now, future, entry, wakeAt, ordinal, closing, closer, backend>>

\* _execute: the backend's answer is given to every future that still waits,
\* results or the exception (the backend's own, or its output's shape).
X_AnswersFirst(r) == r \in batch /\ \A s \in batch : entry[r].ordinal <= entry[s].ordinal
IsAnswered(r) == r \in batch

Execute(outcome) ==
    /\ runner = "executing"
    /\ future' = [r \in Requests |-> IF IsAnswered(r) /\ future[r] = "pending"
                                     THEN outcome ELSE future[r]]
    /\ entry' = [r \in Requests |-> IF r \in batch THEN NoEntry ELSE entry[r]]
    /\ batch' = {}
    /\ runner' = "ready"
    /\ UNCHANGED <<now, queue, wakeAt, ordinal, closing, closer, backend>>
-----------------------------------------------------------------------------
(* close() *)

\* Under the lock, and on to the first await.  A second close() that finds the
\* backend closed is done at once.
AfterJoin == IF backend = "closed" THEN "done" ELSE "closing_backend"

Close(c) ==
    /\ closer[c] = "idle"
    /\ closing' = TRUE
    /\ NotifyAll
    /\ closer' = [closer EXCEPT ![c] = IF runner = "none" THEN AfterJoin ELSE "joining"]
    /\ UNCHANGED <<now, future, entry, queue, batch, wakeAt, ordinal, backend>>

\* The await of the runner returns; _runner = None.
X_JoinIsSkipped == TRUE
RunnerIsDone == runner \in {"stopped", "none"}

Join(c) ==
    /\ closer[c] = "joining"
    /\ RunnerIsDone
    /\ runner' = "none"
    /\ closer' = [closer EXCEPT ![c] = AfterJoin]
    /\ UNCHANGED <<now, future, entry, queue, batch, wakeAt, ordinal, closing, backend>>

\* to_thread(backend.close) returns.
CloseBackend(c) ==
    /\ closer[c] = "closing_backend"
    /\ backend' = "closed"
    /\ closer' = [closer EXCEPT ![c] = "done"]
    /\ UNCHANGED <<now, future, entry, queue, batch, runner, wakeAt, ordinal, closing>>

Tick ==
    /\ now < Horizon
    /\ now' = now + 1
    /\ UNCHANGED <<future, entry, queue, batch, runner, wakeAt, ordinal, closing, closer, backend>>
-----------------------------------------------------------------------------
Init ==
    /\ now = 0
    /\ future = [r \in Requests |-> "idle"]
    /\ entry = [r \in Requests |-> NoEntry]
    /\ queue = {} /\ batch = {}
    /\ runner = "none"
    /\ wakeAt = 0
    /\ ordinal = 0
    /\ closing = FALSE
    /\ closer = [c \in Closers |-> "idle"]
    /\ backend = "open"

Caller(r) ==
    \/ \E frames \in FrameCounts, d \in Delays : Submit(r, frames, d)
    \/ SubmitClosed(r)
    \/ Enqueue(r)
    \/ EnqueueClosed(r)
    \/ Cancel(r)

RunnerLoop ==
    \/ RunnerWaits
    \/ RunnerStops
    \/ RunnerSleeps
    \/ \E b \in Buckets : RunnerTakes(b)

Closing(c) == Close(c) \/ Join(c) \/ CloseBackend(c)

Steps ==
    \/ \E r \in Requests : Caller(r)
    \/ RunnerLoop
    \/ RunnerTimesOut
    \/ \E outcome \in {"ok", "error"} : Execute(outcome)
    \/ \E c \in Closers : Closing(c)

Next == Steps \/ Tick

Spec == Init /\ [][Next]_vars

\* The event loop runs every task that can go on, its timers fire, the clock
\* advances, and a backend call returns (the native worker's request timeout).
\* Nobody is obliged to call submit() or close(), or to cancel.
Fairness ==
    /\ \A r \in Requests : WF_vars(Enqueue(r) \/ EnqueueClosed(r))
    /\ WF_vars(RunnerLoop)
    /\ WF_vars(RunnerTimesOut)
    /\ WF_vars(\E outcome \in {"ok", "error"} : Execute(outcome))
    /\ \A c \in Closers : WF_vars(Join(c) \/ CloseBackend(c))
    /\ WF_vars(Tick)

FairSpec == Spec /\ Fairness
-----------------------------------------------------------------------------
(* Properties *)

TypeOK ==
    /\ now \in Nat
    /\ future \in [Requests -> Future]
    /\ entry \in [Requests -> Entry]
    /\ queue \in SUBSET Requests
    /\ batch \in SUBSET Requests
    /\ runner \in Runner
    /\ wakeAt \in Nat
    /\ ordinal \in Nat
    /\ closing \in BOOLEAN
    /\ closer \in [Closers -> Closer]
    /\ backend \in {"open", "closed"}

\* No caller is left waiting for a future nobody will resolve: a request that
\* was accepted is in a queue or in the batch being executed, not in both, and
\* the runner that will answer it exists (batcher.py:83-90 against 92-98 and
\* 123-145).
NoOrphan ==
    /\ queue \cap batch = {}
    /\ \A r \in Requests : future[r] = "pending" => r \in queue \cup batch
    /\ queue \cup batch # {} => runner \notin {"none", "stopped"}
    /\ batch # {} => runner = "executing"

\* No wakeup is lost: the runner sleeps without a timer only when there is
\* nothing to do, and with a timer only when no bucket is full and the timer
\* ends no later than the first maximum wait or deadline in any queue.  So with
\* a punctual event loop a request is past either only while the runner is busy
\* with an earlier batch.
NoLostWakeup ==
    /\ runner = "waiting" => queue = {} /\ ~closing
    /\ runner = "timed" =>
          /\ ~closing
          /\ \A r \in queue : wakeAt <= entry[r].enqueued_at + MaxWait
                              /\ wakeAt <= entry[r].deadline_at
          /\ \A b \in Buckets : Cardinality(InBucket(b)) < MaxBatch

\* While the backend is being closed, and after, nobody uses it or waits for
\* it, and nobody will (batcher.py:92-103).
NoUseAfterClose ==
    (backend = "closed" \/ \E c \in Closers : closer[c] \in {"closing_backend", "done"}) =>
        /\ closing
        /\ runner \in {"none", "stopped"}
        /\ \A r \in Requests : future[r] # "pending"

\* A request never leaves its bucket ahead of one of its own session with an
\* earlier deadline, nor, at the same deadline, ahead of one submitted earlier:
\* the cap that holds a session's surplus back (batcher.py:186-193) holds back
\* its latest windows.
SessionOrder ==
    [][\A r, s \in queue :
          /\ r \notin queue' /\ s \in queue'
          /\ SessionOf[r] = SessionOf[s] /\ entry[r].bucket = entry[s].bucket
          => /\ entry[r].deadline_at <= entry[s].deadline_at
             /\ entry[r].deadline_at = entry[s].deadline_at =>
                   entry[r].enqueued_at <= entry[s].enqueued_at]_vars

\* The batcher implements the service its callers rely on.
Service == INSTANCE EmbeddingService WITH
    bucketOf <- [r \in Requests |-> entry[r].bucket],
    inflight <- batch
ImplementsService == Service!Spec

\* Every request that entered submit() ends: with a result, an error, a
\* refusal or the caller's own cancellation.
EveryRequestEnds ==
    \A r \in Requests : future[r] = "asking" ~> future[r] \in Resolved

\* close() terminates, after draining the queues.
CloseEnds == \A c \in Closers : closer[c] = "joining" ~> closer[c] = "done"
=============================================================================
