--------------------------- MODULE Batcher_proofs ---------------------------
(***************************************************************************)
(* Safety of the micro-batcher for any number of requests, sessions,       *)
(* buckets and concurrent calls of close(), and without a bound on time.   *)
(*                                                                         *)
(* The argument: a runner task exists from the first submit() until it has *)
(* seen `closing` with empty queues, and once `closing` is set no request  *)
(* is accepted; so whoever is accepted has a runner that will answer, and  *)
(* the backend is closed after the last answer.                            *)
(*                                                                         *)
(* That a batch fits its limits, and is not empty, rests on Before being a *)
(* strict total order of the queued requests: their ranks in a bucket are  *)
(* then the numbers from 0 on.                                             *)
(***************************************************************************)
EXTENDS Batcher, FiniteSetTheorems, TLAPS

\* An item in a queue or a batch belongs to an accepted request.
QueuedWereAccepted ==
    \A r \in queue \cup batch : future[r] \in {"pending", "cancelled"}

\* Every unanswered request has its entry.
EntryInUse ==
    \A r \in Requests : future[r] = "asking" \/ r \in queue \cup batch => entry[r] # NoEntry

\* While a caller is between start() and the lock, or close() has not been
\* called, the runner that start() created is alive.
RunnerAlive ==
    /\ \A r \in Requests : future[r] = "asking" /\ ~closing => runner \notin {"none", "stopped"}
    /\ runner = "stopped" => closing
    /\ \A c \in Closers : closer[c] # "idle" => closing

Inv == /\ TypeOK
       /\ IsFiniteSet(queue)
       /\ NoOrphan
       /\ NoLostWakeup
       /\ NoUseAfterClose
       /\ QueuedWereAccepted
       /\ EntryInUse
       /\ RunnerAlive

\* The clocks of an entry are numbers, whether it is in use or not.
LEMMA EntryFields ==
    ASSUME TypeOK, NEW r \in Requests
    PROVE  /\ entry[r].enqueued_at \in Nat
           /\ entry[r].deadline_at \in Nat
           /\ entry[r].enqueued_at + MaxWait \in Nat
<1>1. entry[r] \in Entry
  BY DEF TypeOK
<1>2. entry[r].enqueued_at \in Nat /\ entry[r].deadline_at \in Nat
  BY <1>1 DEF Entry, NoEntry
<1> QED
  BY <1>2, TimeAssumption

\* An entry in use is in one of the buckets.
LEMMA EntryBucket ==
    ASSUME TypeOK, NEW r \in Requests, entry[r] # NoEntry
    PROVE  entry[r].bucket \in Buckets /\ entry[r].bucket # -1
<1>1. entry[r].bucket \in Buckets
  BY DEF TypeOK, Entry
<1> QED
  BY <1>1, FramesAssumption DEF Buckets

\* A length always falls in one of the buckets.
LEMMA BucketForType ==
    ASSUME NEW frames \in Nat
    PROVE  BucketFor(frames) \in Buckets
<1> DEFINE I == 1..Len(Boundaries)
           S == {i \in I : Boundaries[i] < frames}
<1>1. Len(Boundaries) \in Nat
  BY FramesAssumption
<1>2. IsFiniteSet(I) /\ Cardinality(I) = Len(Boundaries)
  BY <1>1, FS_Interval
<1>3. IsFiniteSet(S) /\ Cardinality(S) <= Cardinality(I)
  BY <1>2, FS_Subset, S \subseteq I
<1>4. Cardinality(S) \in Nat
  BY <1>3, FS_CardinalityType
<1> QED
  BY <1>1, <1>2, <1>3, <1>4 DEF BucketFor, Buckets

\* Nothing is pending before the first call.
LEMMA InitInv == Init => Inv
<1> SUFFICES ASSUME Init PROVE Inv
  OBVIOUS
<1>1. TypeOK
  BY DEF Init, TypeOK, Future, Entry, NoEntry, Runner, Closer
<1>2. IsFiniteSet(queue)
  BY FS_EmptySet DEF Init
<1>3. NoOrphan /\ NoLostWakeup /\ NoUseAfterClose /\ QueuedWereAccepted
     /\ EntryInUse /\ RunnerAlive
  BY DEF Init, EntryInUse, NoOrphan, NoLostWakeup, NoUseAfterClose, QueuedWereAccepted, RunnerAlive
<1> QED
  BY <1>1, <1>2, <1>3 DEF Inv

-----------------------------------------------------------------------------
(* Steps of submit() *)

LEMMA SubmitInv ==
    ASSUME Inv, NEW r \in Requests, NEW frames \in FrameCounts, NEW d \in Delays,
           Submit(r, frames, d)
    PROVE  Inv'
<1> USE DEF Inv
<1>1. entry' \in [Requests -> Entry]
  <2>1. CASE d <= 0
    BY <2>1 DEF Submit, TypeOK
  <2>2. CASE d > 0
    <3>1. BucketFor(frames) \in Buckets
      BY BucketForType, FramesAssumption
    <3>2. now + d \in Nat
      BY <2>2, TimeAssumption DEF TypeOK
    <3>3. [bucket |-> BucketFor(frames), enqueued_at |-> now,
           deadline_at |-> now + d, ordinal |-> 0] \in Entry
      BY <3>1, <3>2 DEF TypeOK, Entry
    <3> QED
      BY <2>2, <3>3, TimeAssumption DEF Submit, TypeOK
  <2> QED
    BY <2>1, <2>2, TimeAssumption
<1>2. future' \in [Requests -> Future]
  BY DEF Submit, TypeOK, Future, Resolved
<1>3. TypeOK'
  BY <1>1, <1>2 DEF Submit, TypeOK, Runner
<1>4. \A q \in Requests : q # r => future'[q] = future[q] /\ entry'[q] = entry[q]
  BY DEF Submit, TypeOK
<1>5. r \notin queue \cup batch /\ future'[r] \in {"asking", "invalid"}
  BY DEF Submit, TypeOK, QueuedWereAccepted
<1>6. /\ UNCHANGED <<now, queue, batch, wakeAt, ordinal, closing, closer, backend>>
      /\ runner' = IF runner = "none" THEN "ready" ELSE runner
      /\ ~closing
  BY DEF Submit
<1>7. NoOrphan'
  BY <1>4, <1>5, <1>6 DEF NoOrphan
<1>8. NoLostWakeup'
  <2>1. \A b \in Buckets : InBucket(b)' = InBucket(b)
    BY <1>4, <1>5, <1>6 DEF InBucket, TypeOK
  <2> QED
    BY <2>1, <1>4, <1>5, <1>6 DEF NoLostWakeup, TypeOK
<1>9. NoUseAfterClose'
  BY <1>4, <1>5, <1>6 DEF NoUseAfterClose
<1>10. QueuedWereAccepted'
  BY <1>4, <1>5, <1>6 DEF QueuedWereAccepted, TypeOK
<1>11. RunnerAlive'
  BY <1>4, <1>5, <1>6 DEF RunnerAlive
<1>12. EntryInUse'
  <2>1. future'[r] = "asking" => entry'[r] # NoEntry
    <3>1. BucketFor(frames) \in Buckets
      BY BucketForType, FramesAssumption
    <3>2. BucketFor(frames) # -1
      BY <3>1, FramesAssumption DEF Buckets
    <3> QED
      BY <3>2 DEF Submit, TypeOK, NoEntry
  <2> QED
    BY <1>4, <1>5, <1>6, <2>1 DEF EntryInUse
<1> QED
  BY <1>3, <1>6, <1>7, <1>8, <1>9, <1>10, <1>11, <1>12

\* A request that is turned away, or whose caller leaves before the lock, was
\* in no queue; one whose caller leaves later stays in its queue.
LEMMA TurnedAwayInv ==
    ASSUME Inv, NEW r \in Requests, SubmitClosed(r) \/ EnqueueClosed(r) \/ Cancel(r)
    PROVE  Inv'
<1> USE DEF Inv
<1>1. /\ UNCHANGED <<now, queue, batch, runner, wakeAt, ordinal, closing, closer, backend>>
      /\ \A q \in Requests : q # r => future'[q] = future[q] /\ entry'[q] = entry[q]
      /\ future'[r] \in {"refused", "cancelled"}
      /\ future' \in [Requests -> Future]
  BY DEF SubmitClosed, EnqueueClosed, Cancel, TypeOK, Future, Resolved
<1>2. future[r] # "pending" => r \notin queue \cup batch
  BY DEF SubmitClosed, EnqueueClosed, Cancel, QueuedWereAccepted
<1>3. r \in queue \cup batch => entry'[r] = entry[r] /\ future'[r] = "cancelled"
  BY <1>2 DEF SubmitClosed, EnqueueClosed, Cancel, TypeOK
<1>4. entry' \in [Requests -> Entry]
  BY DEF SubmitClosed, EnqueueClosed, Cancel, TypeOK, Entry
<1>5. TypeOK'
  BY <1>1, <1>4 DEF TypeOK
<1>6. NoOrphan'
  BY <1>1 DEF NoOrphan
<1>7. NoLostWakeup'
  <2>1. \A q \in queue : entry'[q] = entry[q]
    BY <1>1, <1>3 DEF TypeOK
  <2>2. \A b \in Buckets : InBucket(b)' = InBucket(b)
    BY <1>1, <2>1 DEF InBucket
  <2> QED
    BY <2>1, <2>2, <1>1 DEF NoLostWakeup
<1>8. NoUseAfterClose'
  BY <1>1 DEF NoUseAfterClose
<1>9. QueuedWereAccepted'
  BY <1>1, <1>3 DEF QueuedWereAccepted, TypeOK
<1>10. RunnerAlive'
  BY <1>1 DEF RunnerAlive
<1>11. EntryInUse'
  BY <1>1, <1>3 DEF EntryInUse
<1> QED
  BY <1>1, <1>5, <1>6, <1>7, <1>8, <1>9, <1>10, <1>11

\* An accepted request finds its runner alive and not asleep.
LEMMA EnqueueInv ==
    ASSUME Inv, NEW r \in Requests, Enqueue(r)
    PROVE  Inv'
<1> USE DEF Inv
<1>1. /\ UNCHANGED <<now, batch, wakeAt, closing, closer, backend>>
      /\ \A q \in Requests : q # r => future'[q] = future[q] /\ entry'[q] = entry[q]
      /\ future' \in [Requests -> Future]
      /\ future'[r] = "pending"
      /\ queue' = queue \cup {r}
      /\ future[r] = "asking" /\ ~closing
  BY DEF Enqueue, MayEnqueue, TypeOK, Future
<1>2. r \notin queue \cup batch
  BY <1>1 DEF QueuedWereAccepted
<1>3. runner' \in Runner /\ runner' \notin {"none", "stopped", "waiting", "timed"}
  <2>1. runner \notin {"none", "stopped"}
    BY <1>1 DEF RunnerAlive
  <2> QED
    BY <2>1 DEF Enqueue, NotifyAll, TypeOK, Runner
<1>4. TypeOK'
  <2>1. entry' \in [Requests -> Entry]
    <3>1. [entry[r] EXCEPT !.ordinal = ordinal] \in Entry
      BY <1>1 DEF TypeOK, Entry, EntryInUse
    <3> QED
      BY <3>1 DEF Enqueue, TypeOK
  <2>2. ordinal' \in Nat
    BY DEF Enqueue, TypeOK
  <2> QED
    BY <1>1, <1>3, <2>1, <2>2 DEF TypeOK
<1>5. IsFiniteSet(queue')
  BY <1>1, FS_AddElement
<1>6. NoOrphan'
  BY <1>1, <1>2, <1>3 DEF NoOrphan, Enqueue, NotifyAll
<1>7. NoLostWakeup'
  BY <1>3 DEF NoLostWakeup
<1>8. NoUseAfterClose'
  BY <1>1 DEF NoUseAfterClose
<1>9. QueuedWereAccepted'
  BY <1>1, <1>2 DEF QueuedWereAccepted, TypeOK
<1>10. RunnerAlive'
  BY <1>1, <1>3 DEF RunnerAlive
<1>11. EntryInUse'
  <2>1. entry'[r] # NoEntry
    <3>1. entry[r] # NoEntry
      BY <1>1 DEF EntryInUse
    <3>2. entry'[r].bucket = entry[r].bucket
      BY <3>1 DEF Enqueue, TypeOK, Entry
    <3> QED
      BY <3>1, <3>2, EntryBucket DEF NoEntry
  <2> QED
    BY <1>1, <2>1 DEF EntryInUse
<1> QED
  BY <1>4, <1>5, <1>6, <1>7, <1>8, <1>9, <1>10, <1>11
-----------------------------------------------------------------------------
(* Steps of the runner *)

\* The runner sleeps only after it has looked at every queue.
LEMMA RunnerSleepsInv ==
    ASSUME Inv, RunnerWaits \/ RunnerSleeps
    PROVE  Inv'
<1> USE DEF Inv
<1>1. /\ UNCHANGED <<now, future, entry, queue, batch, ordinal, closing, closer, backend>>
      /\ runner = "ready"
      /\ runner' \in {"waiting", "timed"}
  BY DEF RunnerWaits, RunnerSleeps
<1>2. TypeOK'
  <2>1. wakeAt' \in Nat
    <3>1. CASE RunnerWaits
      BY <3>1 DEF RunnerWaits, TypeOK
    <3>2. CASE RunnerSleeps
      <4>1. PICK first \in queue : wakeAt' = FlushTime(first)
        BY <3>2 DEF RunnerSleeps
      <4>2. first \in Requests
        BY DEF TypeOK
      <4> QED
        BY <4>1, <4>2, EntryFields DEF FlushTime
    <3> QED
      BY <3>1, <3>2
  <2> QED
    BY <1>1, <2>1 DEF TypeOK, Runner
<1>3. NoLostWakeup'
  <2>1. CASE RunnerWaits
    BY <1>1, <2>1 DEF NoLostWakeup, RunnerWaits
  <2>2. CASE RunnerSleeps
    <3>1. ~closing
      <4>1. PICK r \in queue : TRUE
        BY <2>2 DEF RunnerSleeps
      <4>2. entry[r].bucket \in Buckets
        BY EntryBucket DEF TypeOK, EntryInUse
      <4>3. InBucket(entry[r].bucket) # {}
        BY DEF InBucket
      <4> QED
        BY <2>2, <4>2, <4>3 DEF RunnerSleeps, IsReady
    <3>2. \A r \in queue : wakeAt' <= entry[r].enqueued_at + MaxWait
                           /\ wakeAt' <= entry[r].deadline_at
      <4>1. PICK first \in queue : /\ \A r \in queue : FlushTime(first) <= FlushTime(r)
                                   /\ wakeAt' = FlushTime(first)
        BY <2>2 DEF RunnerSleeps
      <4>2. ASSUME NEW r \in queue
            PROVE  wakeAt' <= entry[r].enqueued_at + MaxWait
                   /\ wakeAt' <= entry[r].deadline_at
        <5>1. /\ r \in Requests /\ first \in Requests
              /\ FlushTime(first) <= FlushTime(r)
          BY <4>1 DEF TypeOK
        <5>2. FlushTime(first) \in Nat /\ FlushTime(r) \in Nat
          BY <5>1, EntryFields DEF FlushTime
        <5>3. FlushTime(r) <= entry[r].enqueued_at + MaxWait
              /\ FlushTime(r) <= entry[r].deadline_at
          BY <5>1, EntryFields DEF FlushTime
        <5>4. entry[r].enqueued_at + MaxWait \in Nat /\ entry[r].deadline_at \in Nat
          BY <5>1, EntryFields
        <5> QED
          BY <4>1, <5>1, <5>2, <5>3, <5>4
      <4> QED
        BY <4>2
    <3>3. \A b \in Buckets : Cardinality(InBucket(b)) < MaxBatch
      <4>1. ASSUME NEW b \in Buckets
            PROVE  Cardinality(InBucket(b)) < MaxBatch
        <5>1. IsFiniteSet(InBucket(b)) /\ Cardinality(InBucket(b)) \in Nat
          BY FS_Subset, FS_CardinalityType DEF InBucket
        <5>2. CASE InBucket(b) = {}
          BY <5>2, FS_EmptySet, LimitsAssumption
        <5>3. CASE InBucket(b) # {}
          BY <2>2, <5>1, <5>3, LimitsAssumption DEF RunnerSleeps, IsReady
        <5> QED
          BY <5>2, <5>3
      <4> QED
        BY <4>1
    <3>4. runner' = "timed" /\ \A b \in Buckets : InBucket(b)' = InBucket(b)
      BY <2>2, <1>1 DEF RunnerSleeps, InBucket
    <3> QED
      BY <1>1, <3>1, <3>2, <3>3, <3>4 DEF NoLostWakeup
  <2> QED
    BY <2>1, <2>2
<1>4. NoOrphan' /\ NoUseAfterClose' /\ QueuedWereAccepted' /\ EntryInUse' /\ RunnerAlive'
  BY <1>1 DEF NoOrphan, NoUseAfterClose, QueuedWereAccepted, EntryInUse, RunnerAlive
<1> QED
  BY <1>1, <1>2, <1>3, <1>4

\* The runner stops, or goes on after its timer, with the queues as they are.
LEMMA RunnerMovesInv ==
    ASSUME Inv, RunnerStops \/ RunnerTimesOut
    PROVE  Inv'
<1> USE DEF Inv
<1>1. /\ UNCHANGED <<now, future, entry, queue, batch, wakeAt, ordinal, closing, closer, backend>>
      /\ runner \in {"ready", "timed"}
      /\ \/ runner' = "stopped" /\ closing /\ queue = {}
         \/ runner' = "ready"
  BY DEF RunnerStops, MayStop, RunnerTimesOut
<1>2. TypeOK'
  BY <1>1 DEF TypeOK, Runner
<1>3. NoOrphan'
  BY <1>1 DEF NoOrphan
<1>4. NoUseAfterClose' /\ NoLostWakeup' /\ QueuedWereAccepted' /\ EntryInUse' /\ RunnerAlive'
  BY <1>1 DEF NoUseAfterClose, NoLostWakeup, QueuedWereAccepted, EntryInUse, RunnerAlive
<1> QED
  BY <1>1, <1>2, <1>3, <1>4

\* A batch goes from its queue to the backend.
LEMMA RunnerTakesInv ==
    ASSUME Inv, NEW b \in Buckets, RunnerTakes(b)
    PROVE  Inv'
<1> USE DEF Inv
<1>1. /\ UNCHANGED <<now, future, entry, wakeAt, ordinal, closing, closer, backend>>
      /\ runner = "ready" /\ runner' = "executing"
      /\ batch' = BatchOf(b) /\ queue' = queue \ BatchOf(b)
  BY DEF RunnerTakes
<1>2. BatchOf(b) \subseteq queue
  BY DEF BatchOf, WithinLimit, InBucket
<1>3. batch = {}
  BY <1>1 DEF NoOrphan
<1>4. TypeOK'
  BY <1>1, <1>2 DEF TypeOK, Runner
<1>5. IsFiniteSet(queue')
  BY <1>1, FS_Subset
<1>6. NoOrphan'
  BY <1>1, <1>2, <1>3 DEF NoOrphan
<1>7. NoLostWakeup' /\ NoUseAfterClose' /\ QueuedWereAccepted' /\ EntryInUse' /\ RunnerAlive'
  BY <1>1, <1>2 DEF NoLostWakeup, NoUseAfterClose, QueuedWereAccepted, EntryInUse, RunnerAlive
<1> QED
  BY <1>4, <1>5, <1>6, <1>7

\* Every future of the batch is resolved, and only those.
LEMMA ExecuteInv ==
    ASSUME Inv, NEW outcome \in {"ok", "error"}, Execute(outcome)
    PROVE  Inv'
<1> USE DEF Inv
<1>1. /\ UNCHANGED <<now, queue, wakeAt, ordinal, closing, closer, backend>>
      /\ runner = "executing" /\ runner' = "ready" /\ batch' = {}
      /\ \A r \in batch : future[r] = "pending" => future'[r] = outcome
      /\ \A r \in Requests : r \notin batch => future'[r] = future[r] /\ entry'[r] = entry[r]
      /\ \A r \in Requests : future[r] # "pending" => future'[r] = future[r]
  BY DEF Execute, IsAnswered, TypeOK
<1>2. TypeOK'
  <2>1. future' \in [Requests -> Future]
    BY DEF Execute, TypeOK, Future, Resolved
  <2>2. entry' \in [Requests -> Entry]
    BY DEF Execute, TypeOK, Entry
  <2> QED
    BY <1>1, <2>1, <2>2 DEF TypeOK, Runner
<1>3. \A r \in Requests : future'[r] = "pending" => r \in queue
  BY <1>1 DEF NoOrphan
<1>4. queue \cap batch = {} /\ queue \subseteq Requests
  BY DEF NoOrphan, TypeOK
<1>5. NoOrphan'
  BY <1>1, <1>3 DEF NoOrphan
<1>6. NoLostWakeup'
  BY <1>1 DEF NoLostWakeup
<1>7. NoUseAfterClose'
  BY <1>1 DEF NoUseAfterClose
<1>8. QueuedWereAccepted' /\ EntryInUse'
  <2>1. \A r \in Requests : future'[r] = "asking" => future[r] = "asking" /\ r \notin batch
    BY <1>1 DEF QueuedWereAccepted, Execute
  <2> QED
    BY <1>1, <1>4, <2>1 DEF QueuedWereAccepted, EntryInUse
<1>9. RunnerAlive'
  BY <1>1 DEF RunnerAlive
<1> QED
  BY <1>1, <1>2, <1>5, <1>6, <1>7, <1>8, <1>9
-----------------------------------------------------------------------------
(* Steps of close(), and of the clock *)

\* If there is no runner when close() is called, nobody was ever accepted.
LEMMA CloseInv ==
    ASSUME Inv, NEW c \in Closers, Close(c)
    PROVE  Inv'
<1> USE DEF Inv
<1>1. /\ UNCHANGED <<now, future, entry, queue, batch, wakeAt, ordinal, backend>>
      /\ closing' = TRUE
      /\ runner' \notin {"waiting", "timed"}
      /\ runner \in {"none", "stopped", "executing"} => runner' = runner
      /\ runner' \in {"none", "stopped"} => runner \in {"none", "stopped"}
      /\ runner' \in Runner
  BY DEF Close, NotifyAll, TypeOK, Runner
<1>2. /\ \A d \in Closers : d # c => closer'[d] = closer[d]
      /\ closer'[c] \in {"done", "closing_backend"} => runner = "none"
      /\ closer' \in [Closers -> Closer]
  BY DEF Close, AfterJoin, TypeOK, Closer
<1>3. TypeOK'
  BY <1>1, <1>2 DEF TypeOK
<1>4. NoOrphan'
  BY <1>1 DEF NoOrphan
<1>5. NoLostWakeup'
  BY <1>1 DEF NoLostWakeup
<1>6. NoUseAfterClose'
  BY <1>1, <1>2 DEF NoUseAfterClose, NoOrphan
<1>7. QueuedWereAccepted' /\ EntryInUse' /\ RunnerAlive'
  BY <1>1, <1>2 DEF QueuedWereAccepted, EntryInUse, RunnerAlive
<1> QED
  BY <1>1, <1>3, <1>4, <1>5, <1>6, <1>7

\* The runner has stopped, so the queues are empty for good.
LEMMA JoinInv ==
    ASSUME Inv, NEW c \in Closers, Join(c)
    PROVE  Inv'
<1> USE DEF Inv
<1>1. /\ UNCHANGED <<now, future, entry, queue, batch, wakeAt, ordinal, closing, backend>>
      /\ runner \in {"stopped", "none"} /\ runner' = "none"
      /\ closing
      /\ \A d \in Closers : d # c => closer'[d] = closer[d]
      /\ closer' \in [Closers -> Closer]
  BY DEF Join, RunnerIsDone, AfterJoin, TypeOK, Closer, RunnerAlive
<1>2. TypeOK'
  BY <1>1 DEF TypeOK, Runner
<1>3. NoOrphan' /\ NoUseAfterClose'
  BY <1>1 DEF NoOrphan, NoUseAfterClose
<1>4. NoLostWakeup' /\ QueuedWereAccepted' /\ EntryInUse' /\ RunnerAlive'
  BY <1>1 DEF NoLostWakeup, QueuedWereAccepted, EntryInUse, RunnerAlive
<1> QED
  BY <1>1, <1>2, <1>3, <1>4

LEMMA CloseBackendInv ==
    ASSUME Inv, NEW c \in Closers, CloseBackend(c)
    PROVE  Inv'
<1> USE DEF Inv
<1>1. /\ UNCHANGED <<now, future, entry, queue, batch, runner, wakeAt, ordinal, closing>>
      /\ backend' = "closed"
      /\ closer[c] = "closing_backend"
      /\ \A d \in Closers : d # c => closer'[d] = closer[d]
      /\ closer' \in [Closers -> Closer]
  BY DEF CloseBackend, TypeOK, Closer
<1>2. TypeOK'
  BY <1>1 DEF TypeOK
<1>3. NoUseAfterClose'
  BY <1>1 DEF NoUseAfterClose
<1>4. NoOrphan' /\ QueuedWereAccepted' /\ EntryInUse' /\ RunnerAlive'
  BY <1>1 DEF NoOrphan, QueuedWereAccepted, EntryInUse, RunnerAlive
<1>5. NoLostWakeup'
  BY <1>1 DEF NoLostWakeup, InBucket
<1> QED
  BY <1>1, <1>2, <1>3, <1>4, <1>5

\* Time passes, or nothing happens at all.
LEMMA TickInv ==
    ASSUME Inv, Tick \/ UNCHANGED vars
    PROVE  Inv'
<1> USE DEF Inv
<1>1. /\ UNCHANGED <<future, entry, queue, batch, runner, wakeAt, ordinal, closing, closer, backend>>
      /\ now' \in Nat
  BY DEF Tick, vars, TypeOK
<1>2. TypeOK'
  BY <1>1 DEF TypeOK
<1>3. NoOrphan' /\ NoUseAfterClose' /\ QueuedWereAccepted' /\ EntryInUse' /\ RunnerAlive'
  BY <1>1 DEF NoOrphan, NoUseAfterClose, QueuedWereAccepted, EntryInUse, RunnerAlive
<1>4. NoLostWakeup'
  BY <1>1 DEF NoLostWakeup, InBucket
<1> QED
  BY <1>1, <1>2, <1>3, <1>4
-----------------------------------------------------------------------------
LEMMA StepInv == Inv /\ [Next]_vars => Inv'
BY SubmitInv, TurnedAwayInv, EnqueueInv, RunnerSleepsInv, RunnerMovesInv, RunnerTakesInv,
   ExecuteInv, CloseInv, JoinInv, CloseBackendInv, TickInv
   DEF Next, Steps, Caller, RunnerLoop, Closing

LEMMA Invariance == Spec => []Inv
BY InitInv, StepInv, PTL DEF Spec

\* The batcher's data stays well typed.
THEOREM TypeCorrect == Spec => []TypeOK
<1>1. Inv => TypeOK
  BY DEF Inv
<1> QED
  BY <1>1, Invariance, PTL

\* No accepted request is ever without a live runner that holds it.
THEOREM NeverOrphaned == Spec => []NoOrphan
<1>1. Inv => NoOrphan
  BY DEF Inv
<1> QED
  BY <1>1, Invariance, PTL

\* The runner never sleeps past work it should do.
THEOREM WakeupsArrive == Spec => []NoLostWakeup
<1>1. Inv => NoLostWakeup
  BY DEF Inv
<1> QED
  BY <1>1, Invariance, PTL

\* A backend that is being closed serves nobody, for any number of closers.
THEOREM ClosedBackendIsIdle == Spec => []NoUseAfterClose
<1>1. Inv => NoUseAfterClose
  BY DEF Inv
<1> QED
  BY <1>1, Invariance, PTL
-----------------------------------------------------------------------------
(* Refinement: what a batch may be *)

\* Queued requests carry different ordinals, so Before orders them all.
OrdinalsDiffer ==
    /\ \A r \in queue : entry[r].ordinal < ordinal
    /\ \A r, s \in queue : entry[r].ordinal = entry[s].ordinal => r = s

RefinementInv ==
    /\ Inv
    /\ OrdinalsDiffer
    /\ \A r \in Requests : future[r] = "idle" => entry[r] = NoEntry
    /\ runner = "executing" => batch # {}

LEMMA OrdinalType ==
    ASSUME TypeOK, NEW r \in Requests
    PROVE  entry[r].ordinal \in Nat
<1>1. entry[r] \in Entry
  BY DEF TypeOK
<1> QED
  BY <1>1 DEF Entry, NoEntry

LEMMA BeforeIsOrder ==
    ASSUME RefinementInv, NEW r \in queue, NEW s \in queue
    PROVE  /\ ~Before(r, r)
           /\ r # s => Before(r, s) \/ Before(s, r)
           /\ \A q \in queue : Before(q, r) /\ Before(r, s) => Before(q, s)
<1>1. \A q \in queue : /\ entry[q].deadline_at \in Nat /\ entry[q].enqueued_at \in Nat
                       /\ entry[q].ordinal \in Nat
  BY EntryFields, OrdinalType DEF RefinementInv, Inv, TypeOK
<1>2. ~Before(r, r)
  BY <1>1 DEF Before
<1>3. r # s => Before(r, s) \/ Before(s, r)
  BY <1>1 DEF Before, RefinementInv, OrdinalsDiffer
<1>4. \A q \in queue : Before(q, r) /\ Before(r, s) => Before(q, s)
  BY <1>1 DEF Before
<1> QED
  BY <1>2, <1>3, <1>4

\* How many of S come before each member of S.
Rank(S) == [r \in S |-> Cardinality({s \in S : Before(s, r)})]

\* The rank numbers S from 0 on.
LEMMA RankNumbers ==
    ASSUME RefinementInv, NEW S, S \subseteq queue
    PROVE  /\ IsFiniteSet(S)
           /\ Rank(S) \in Injection(S, 0..(Cardinality(S) - 1))
<1> DEFINE pred(r) == {s \in S : Before(s, r)}
<1>1. IsFiniteSet(S) /\ Cardinality(S) \in Nat
  BY FS_Subset, FS_CardinalityType DEF RefinementInv, Inv
<1>2. ASSUME NEW T \in SUBSET S
      PROVE  IsFiniteSet(T) /\ Cardinality(T) \in Nat /\ Cardinality(T) <= Cardinality(S)
  BY <1>1, FS_Subset, FS_CardinalityType
<1>3. ASSUME NEW r \in S, NEW T \in SUBSET S, r \in T, pred(r) \subseteq T
      PROVE  Cardinality(pred(r)) < Cardinality(T)
  <2>1. r \notin pred(r)
    BY BeforeIsOrder
  <2>2. pred(r) \subseteq T /\ pred(r) # T
    BY <1>3, <2>1
  <2>3. IsFiniteSet(T) /\ Cardinality(T) \in Nat /\ Cardinality(pred(r)) \in Nat
    BY <1>2
  <2>4. Cardinality(pred(r)) <= Cardinality(T) /\ Cardinality(pred(r)) # Cardinality(T)
    BY <2>2, <2>3, FS_Subset
  <2> QED
    BY <2>3, <2>4
<1>4. ASSUME NEW r \in S
      PROVE  Rank(S)[r] \in 0..(Cardinality(S) - 1)
  BY <1>1, <1>2, <1>3 DEF Rank
<1>5. ASSUME NEW r \in S, NEW s \in S, Before(r, s)
      PROVE  Rank(S)[r] < Rank(S)[s]
  <2>1. r \in pred(s) /\ pred(r) \subseteq pred(s)
    BY <1>5, BeforeIsOrder
  <2> QED
    BY <1>3, <2>1 DEF Rank
<1>6. ASSUME NEW r \in S, NEW s \in S, Rank(S)[r] = Rank(S)[s]
      PROVE  r = s
  <2>1. Rank(S)[r] \in Nat
    BY <1>4
  <2>2. ~Before(r, s) /\ ~Before(s, r)
    BY <1>5, <1>6, <2>1
  <2> QED
    BY <2>2, BeforeIsOrder
<1>7. Rank(S) \in [S -> 0..(Cardinality(S) - 1)] /\ DOMAIN Rank(S) = S
  BY <1>4 DEF Rank
<1> QED
  BY <1>1, <1>6, <1>7 DEF Injection, IsInjective

\* Somebody is the first.
LEMMA SomeoneIsFirst ==
    ASSUME RefinementInv, NEW S, S \subseteq queue, S # {}
    PROVE  \E r \in S : \A s \in S : ~Before(s, r)
<1> DEFINE n == Cardinality(S)
<1>1. IsFiniteSet(S) /\ Rank(S) \in Injection(S, 0..(n - 1))
  BY RankNumbers
<1>2. n \in Nat /\ n # 0
  BY <1>1, FS_CardinalityType, FS_EmptySet
<1>3. IsFiniteSet(0..(n - 1)) /\ Cardinality(0..(n - 1)) = n
  BY <1>2, FS_Interval
<1>4. Rank(S) \in Surjection(S, 0..(n - 1))
  BY <1>1, <1>3, FS_Injection
<1>5. PICK r \in S : Rank(S)[r] = 0
  BY <1>2, <1>4 DEF Surjection
<1>6. IsFiniteSet({s \in S : Before(s, r)}) /\ Cardinality({s \in S : Before(s, r)}) = 0
  BY <1>1, <1>5, FS_Subset DEF Rank
<1>7. {s \in S : Before(s, r)} = {}
  BY <1>6, FS_EmptySet
<1> QED
  BY <1>7

\* Those with fewer than n before them are at most n.
LEMMA FirstOnes ==
    ASSUME RefinementInv, NEW S, S \subseteq queue, NEW n \in Nat \ {0}
    PROVE  LET P == {r \in S : Cardinality({s \in S : Before(s, r)}) < n}
           IN  IsFiniteSet(P) /\ Cardinality(P) <= n
<1> DEFINE P == {r \in S : Cardinality({s \in S : Before(s, r)}) < n}
           f == [r \in P |-> Rank(S)[r]]
<1>1. IsFiniteSet(S) /\ Rank(S) \in Injection(S, 0..(Cardinality(S) - 1))
  BY RankNumbers
<1>2. \A r \in S : Rank(S)[r] \in Nat
  BY <1>1 DEF Injection
<1>3. f \in [P -> 0..(n - 1)]
  BY <1>2 DEF Rank
<1>4. \A r, s \in P : f[r] = f[s] => r = s
  BY <1>1 DEF Injection, IsInjective
<1>5. f \in Injection(P, 0..(n - 1))
  BY <1>3, <1>4 DEF Injection, IsInjective
<1>6. IsFiniteSet(0..(n - 1)) /\ Cardinality(0..(n - 1)) = n
  BY FS_Interval
<1> QED
  BY <1>5, <1>6, FS_Injection

\* What _take_batch takes from a bucket that is not empty.
LEMMA BatchFits ==
    ASSUME RefinementInv, NEW b \in Buckets, InBucket(b) # {}
    PROVE  /\ BatchOf(b) # {} /\ BatchOf(b) \subseteq InBucket(b)
           /\ Cardinality(BatchOf(b)) <= MaxBatch
           /\ \A r \in BatchOf(b) :
                 Cardinality({s \in BatchOf(b) : SessionOf[s] = SessionOf[r]}) <= PerSession
<1>1. InBucket(b) \subseteq queue /\ WithinLimit(b) \subseteq InBucket(b)
      /\ BatchOf(b) \subseteq WithinLimit(b)
  BY DEF InBucket, WithinLimit, BatchOf
<1>2. PICK first \in InBucket(b) : \A s \in InBucket(b) : ~Before(s, first)
  BY <1>1, SomeoneIsFirst
<1>3. first \in BatchOf(b)
  <2>1. {s \in InBucket(b) : SessionOf[s] = SessionOf[first] /\ Before(s, first)} = {}
    BY <1>2
  <2>2. first \in WithinLimit(b)
    BY <2>1, FS_EmptySet, LimitsAssumption DEF WithinLimit
  <2>3. {s \in WithinLimit(b) : Before(s, first)} = {}
    BY <1>1, <1>2
  <2> QED
    BY <2>2, <2>3, FS_EmptySet, LimitsAssumption DEF BatchOf
<1>4. Cardinality(BatchOf(b)) <= MaxBatch
  BY <1>1, FirstOnes, LimitsAssumption DEF BatchOf
<1>5. ASSUME NEW r \in BatchOf(b)
      PROVE  Cardinality({s \in BatchOf(b) : SessionOf[s] = SessionOf[r]}) <= PerSession
  <2> DEFINE S == {s \in InBucket(b) : SessionOf[s] = SessionOf[r]}
             P == {q \in S : Cardinality({s \in S : Before(s, q)}) < PerSession}
             T == {s \in BatchOf(b) : SessionOf[s] = SessionOf[r]}
  <2>1. IsFiniteSet(P) /\ Cardinality(P) <= PerSession
    BY <1>1, FirstOnes, LimitsAssumption
  <2>2. T \subseteq P
    <3> SUFFICES ASSUME NEW q \in T PROVE q \in P
      OBVIOUS
    <3>1. q \in WithinLimit(b) /\ SessionOf[q] = SessionOf[r]
      BY <1>1
    <3>2. {s \in S : Before(s, q)}
             = {s \in InBucket(b) : SessionOf[s] = SessionOf[q] /\ Before(s, q)}
      BY <3>1
    <3>3. q \in S /\ Cardinality({s \in S : Before(s, q)}) < PerSession
      BY <1>1, <3>1, <3>2 DEF WithinLimit
    <3> QED
      BY <3>3
  <2>3. Cardinality(T) <= Cardinality(P) /\ Cardinality(T) \in Nat /\ Cardinality(P) \in Nat
    BY <2>1, <2>2, FS_Subset, FS_CardinalityType
  <2> QED
    BY <2>1, <2>3, LimitsAssumption
<1> QED
  BY <1>1, <1>3, <1>4, <1>5
-----------------------------------------------------------------------------
(* Refinement: each step *)

\* A step that enqueues nobody and moves no entry of a queued request keeps
\* the ordinals apart.
LEMMA OrdinalsKept ==
    ASSUME OrdinalsDiffer, queue' \subseteq queue, ordinal' = ordinal,
           \A r \in queue' : entry'[r].ordinal = entry[r].ordinal
    PROVE  OrdinalsDiffer'
BY DEF OrdinalsDiffer

LEMMA RefinementStep ==
    ASSUME RefinementInv, [Next]_vars
    PROVE  RefinementInv'
<1> USE DEF RefinementInv
<1>1. Inv'
  BY StepInv
<1>2. ASSUME NEW r \in Requests, NEW frames \in FrameCounts, NEW d \in Delays,
             Submit(r, frames, d)
      PROVE  RefinementInv'
  <2>1. r \notin queue
    BY <1>2 DEF Submit, Inv, QueuedWereAccepted
  <2>2. /\ UNCHANGED <<queue, ordinal, batch>>
        /\ \A q \in Requests : q # r => entry'[q] = entry[q] /\ future'[q] = future[q]
        /\ future'[r] # "idle"
        /\ runner' = "executing" => runner = "executing"
    BY <1>2 DEF Submit, Inv, TypeOK
  <2>3. OrdinalsDiffer'
    BY <2>1, <2>2, OrdinalsKept DEF Inv, TypeOK
  <2> QED
    BY <1>1, <2>2, <2>3
<1>3. ASSUME NEW r \in Requests, SubmitClosed(r) \/ EnqueueClosed(r) \/ Cancel(r)
      PROVE  RefinementInv'
  <2>1. future[r] # "pending" => r \notin queue
    BY <1>3 DEF SubmitClosed, EnqueueClosed, Cancel, Inv, QueuedWereAccepted
  <2>2. /\ UNCHANGED <<queue, ordinal, batch, runner>>
        /\ \A q \in Requests : q # r => entry'[q] = entry[q] /\ future'[q] = future[q]
        /\ future[r] = "pending" => entry'[r] = entry[r]
        /\ future'[r] # "idle"
    BY <1>3 DEF SubmitClosed, EnqueueClosed, Cancel, Inv, TypeOK
  <2>3. OrdinalsDiffer'
    BY <2>1, <2>2, OrdinalsKept DEF Inv, TypeOK
  <2> QED
    BY <1>1, <2>2, <2>3
<1>4. ASSUME NEW r \in Requests, Enqueue(r)
      PROVE  RefinementInv'
  <2>1. /\ queue' = queue \cup {r} /\ ordinal' = ordinal + 1 /\ ordinal \in Nat
        /\ UNCHANGED batch
        /\ \A q \in Requests : q # r => entry'[q] = entry[q] /\ future'[q] = future[q]
        /\ future'[r] # "idle" /\ future[r] = "asking"
        /\ runner' = "executing" => runner = "executing"
    BY <1>4 DEF Enqueue, MayEnqueue, NotifyAll, Inv, TypeOK
  <2>2. r \notin queue
    BY <2>1 DEF Inv, QueuedWereAccepted
  <2>3. entry'[r].ordinal = ordinal
    <3>1. entry[r] # NoEntry
      BY <2>1 DEF Inv, EntryInUse
    <3> QED
      BY <3>1, <1>4 DEF Enqueue, Inv, TypeOK, Entry
  <2>4. \A q \in queue : entry'[q] = entry[q] /\ entry[q].ordinal \in Nat
    BY <2>1, <2>2, OrdinalType DEF Inv, TypeOK
  <2>5. OrdinalsDiffer'
    BY <2>1, <2>3, <2>4 DEF OrdinalsDiffer
  <2> QED
    BY <1>1, <2>1, <2>5
<1>5. ASSUME NEW b \in Buckets, RunnerTakes(b)
      PROVE  RefinementInv'
  <2>1. /\ UNCHANGED <<future, entry, ordinal>> /\ queue' \subseteq queue
        /\ batch' = BatchOf(b)
    BY <1>5 DEF RunnerTakes
  <2>2. batch' # {}
    BY <1>5, <2>1, BatchFits DEF RunnerTakes, IsSelected, IsReady
  <2>3. OrdinalsDiffer'
    BY <2>1, OrdinalsKept
  <2> QED
    BY <1>1, <2>1, <2>2, <2>3
<1>6. ASSUME NEW outcome \in {"ok", "error"}, Execute(outcome)
      PROVE  RefinementInv'
  <2>1. /\ UNCHANGED <<queue, ordinal>> /\ runner' = "ready" /\ runner = "executing"
        /\ \A r \in Requests : r \notin batch => entry'[r] = entry[r]
        /\ \A r \in Requests : future'[r] = "idle" => future[r] = "idle" /\ r \notin batch
    BY <1>6 DEF Execute, IsAnswered, Inv, QueuedWereAccepted
  <2>2. OrdinalsDiffer'
    BY <2>1, OrdinalsKept DEF Inv, TypeOK, NoOrphan
  <2> QED
    BY <1>1, <2>1, <2>2
<1>7. ASSUME \/ RunnerWaits \/ RunnerStops \/ RunnerSleeps \/ RunnerTimesOut
             \/ \E c \in Closers : Closing(c)
             \/ Tick \/ UNCHANGED vars
      PROVE  RefinementInv'
  <2>1. /\ UNCHANGED <<future, entry, queue, batch, ordinal>>
        /\ runner' = "executing" => runner = "executing"
    BY <1>7 DEF RunnerWaits, RunnerStops, RunnerSleeps, RunnerTimesOut, Closing, Close, Join,
                CloseBackend, NotifyAll, Tick, vars
  <2>2. OrdinalsDiffer'
    BY <2>1, OrdinalsKept
  <2> QED
    BY <1>1, <2>1, <2>2
<1> QED
  BY <1>2, <1>3, <1>4, <1>5, <1>6, <1>7 DEF Next, Steps, Caller, RunnerLoop

LEMMA RefinementInit ==
    ASSUME Init
    PROVE  RefinementInv /\ Service!Init
<1>1. Inv
  BY InitInv
<1>2. OrdinalsDiffer
  BY DEF Init, OrdinalsDiffer
<1>3. Service!Init
  BY DEF Init, NoEntry, Service!Init, Service!NoBucket
<1> QED
  BY <1>1, <1>2, <1>3 DEF RefinementInv, Init

\* What the callers of submit() do.
LEMMA CallerSimulates ==
    ASSUME RefinementInv, NEW r \in Requests, Caller(r)
    PROVE  Service!Next
<1> DEFINE buckets == [q \in Requests |-> entry[q].bucket]
<1> USE DEF RefinementInv, Inv, TypeOK
<1>1. ASSUME NEW frames \in FrameCounts, NEW d \in Delays, Submit(r, frames, d)
      PROVE  Service!Next
  <2>1. CASE d <= 0
    <3>1. Service!Reject(r)
      BY <1>1, <2>1 DEF Submit, Service!Reject
    <3> QED
      BY <3>1 DEF Service!Next
  <2>2. CASE ~(d <= 0)
    <3>1. buckets' = [buckets EXCEPT ![r] = BucketFor(frames)]
      <4>1. /\ entry'[r].bucket = BucketFor(frames)
            /\ \A q \in Requests : q # r => entry'[q].bucket = entry[q].bucket
        BY <1>1, <2>2 DEF Submit
      <4> QED
        BY <4>1
    <3>2. Service!Ask(r, BucketFor(frames))
      BY <1>1, <2>2, <3>1 DEF Submit, Service!Ask
    <3>3. BucketFor(frames) \in Buckets
      BY BucketForType, FramesAssumption
    <3> QED
      BY <3>2, <3>3 DEF Service!Next
  <2> QED
    BY <2>1, <2>2
<1>2. ASSUME Enqueue(r)
      PROVE  Service!Next
  <2>1. entry[r] # NoEntry
    BY <1>2 DEF Enqueue, MayEnqueue, EntryInUse
  <2>2. entry'[r].bucket = entry[r].bucket
    BY <1>2, <2>1 DEF Enqueue, Entry
  <2>3. buckets' = buckets
    BY <1>2, <2>2 DEF Enqueue
  <2>4. Service!Accept(r)
    BY <1>2, <2>3 DEF Enqueue, MayEnqueue, Service!Accept
  <2> QED
    BY <2>4 DEF Service!Next
<1>3. ASSUME SubmitClosed(r) \/ EnqueueClosed(r)
      PROVE  Service!Next
  <2>1. buckets' = [buckets EXCEPT ![r] = -1]
    <3>1. /\ entry'[r].bucket = -1
          /\ \A q \in Requests : q # r => entry'[q].bucket = entry[q].bucket
      BY <1>3 DEF SubmitClosed, EnqueueClosed, NoEntry
    <3> QED
      BY <3>1
  <2>2. Service!Refuse(r)
    BY <1>3, <2>1 DEF SubmitClosed, EnqueueClosed, Service!Refuse, Service!NoBucket
  <2> QED
    BY <2>2 DEF Service!Next
<1>4. ASSUME Cancel(r)
      PROVE  Service!Next
  <2>1. buckets' = IF future[r] = "asking" THEN [buckets EXCEPT ![r] = -1] ELSE buckets
    BY <1>4 DEF Cancel, NoEntry
  <2>2. Service!Cancel(r)
    BY <1>4, <2>1 DEF Cancel, Service!Cancel, Service!NoBucket
  <2> QED
    BY <2>2 DEF Service!Next
<1> QED
  BY <1>1, <1>2, <1>3, <1>4 DEF Caller

\* EmbeddingService counts as FiniteSets does.
LEMMA SameCount ==
    ASSUME NEW S
    PROVE  Service!Cardinality(S) = Cardinality(S)
BY DEF Service!Cardinality, Cardinality

\* A batch is taken from one bucket, fits the limits and goes to an open
\* backend.
LEMMA TakingDeparts ==
    ASSUME RefinementInv, NEW b \in Buckets, RunnerTakes(b)
    PROVE  Service!Next
<1> DEFINE B == BatchOf(b)
<1> USE DEF RefinementInv, Inv, TypeOK
<1>1. InBucket(b) # {} /\ runner = "ready" /\ batch' = B
      /\ UNCHANGED <<future, entry, closing, backend>>
  BY DEF RunnerTakes, IsSelected, IsReady
<1>2. /\ B # {} /\ B \subseteq InBucket(b) /\ InBucket(b) \subseteq queue
      /\ Cardinality(B) <= MaxBatch
      /\ \A r \in B : Cardinality({s \in B : SessionOf[s] = SessionOf[r]}) <= PerSession
  <2>1. RefinementInv
    OBVIOUS
  <2> QED
    BY <1>1, <2>1, BatchFits DEF InBucket
<1>3. batch = {} /\ backend = "open"
  BY <1>1 DEF NoOrphan, NoUseAfterClose
<1>4. \A r \in B : /\ r \in Requests /\ future[r] \in {"pending", "cancelled"}
                   /\ entry[r].bucket = b /\ entry[r].bucket # -1
  BY <1>2, EntryBucket DEF QueuedWereAccepted, EntryInUse, InBucket
<1> HIDE DEF B
<1>5. Service!Depart(B)
  BY <1>1, <1>2, <1>3, <1>4, SameCount DEF Service!Depart, Service!NoBucket
<1>6. B \in SUBSET Requests
  BY <1>4
<1> QED
  BY <1>5, <1>6 DEF Service!Next

LEMMA ExecutionAnswers ==
    ASSUME RefinementInv, NEW outcome \in {"ok", "error"}, Execute(outcome)
    PROVE  Service!Next
<1>1. [r \in Requests |-> entry[r].bucket]'
        = [r \in Requests |-> IF r \in batch THEN -1 ELSE [q \in Requests |-> entry[q].bucket][r]]
  BY DEF Execute, NoEntry
<1>2. batch # {}
  BY DEF Execute, RefinementInv
<1>3. Service!Answer(outcome)
  BY <1>1, <1>2 DEF Execute, IsAnswered, Service!Answer, Service!NoBucket
<1> QED
  BY <1>3 DEF Service!Next, Service!Outcome

LEMMA ClosingCloses ==
    ASSUME RefinementInv, NEW c \in Closers, Close(c) \/ CloseBackend(c)
    PROVE  Service!Next
<1>1. CASE Close(c)
  <2>1. Service!BeginClose
    BY <1>1 DEF Close, Service!BeginClose
  <2> QED
    BY <2>1 DEF Service!Next
<1>2. CASE CloseBackend(c)
  <2>1. closing /\ batch = {} /\ \A r \in Requests : future[r] # "pending"
    BY <1>2 DEF CloseBackend, RefinementInv, Inv, NoUseAfterClose, NoOrphan
  <2>2. Service!CloseBackend
    BY <1>2, <2>1 DEF CloseBackend, Service!CloseBackend
  <2> QED
    BY <2>2 DEF Service!Next
<1> QED
  BY <1>1, <1>2

\* Every step is a step of EmbeddingService or changes nothing it sees.
LEMMA StepSimulates ==
    ASSUME RefinementInv, [Next]_vars
    PROVE  [Service!Next]_Service!serviceVars
<1>1. ASSUME \/ RunnerWaits \/ RunnerStops \/ RunnerSleeps \/ RunnerTimesOut
             \/ \E c \in Closers : Join(c)
             \/ Tick \/ UNCHANGED vars
      PROVE  UNCHANGED Service!serviceVars
  <2>1. UNCHANGED <<future, entry, batch, closing, backend>>
    BY <1>1 DEF RunnerWaits, RunnerStops, RunnerSleeps, RunnerTimesOut, Join, Tick, vars
  <2> QED
    BY <2>1 DEF Service!serviceVars
<1> QED
  BY <1>1, CallerSimulates, TakingDeparts, ExecutionAnswers, ClosingCloses
     DEF Next, Steps, RunnerLoop, Closing

\* The batcher answers, refuses and closes as EmbeddingService promises, for
\* any number of requests, sessions, buckets and calls of close()
\* (batcher.py:59-251).
THEOREM Implements == Spec => ImplementsService
<1>1. Init => RefinementInv /\ Service!Init
  BY RefinementInit
<1>2. RefinementInv /\ [Next]_vars => RefinementInv'
  BY RefinementStep
<1>3. RefinementInv /\ [Next]_vars => [Service!Next]_Service!serviceVars
  BY StepSimulates
<1> QED
  BY <1>1, <1>2, <1>3, PTL DEF Spec, ImplementsService, Service!Spec
-----------------------------------------------------------------------------
(* The order within a session *)

\* If s comes before r, is of the same session and is left behind, then so is
\* r: whatever holds s back holds r back too.
LEMMA LeftBehindInOrder ==
    ASSUME RefinementInv, NEW b \in Buckets, NEW r \in InBucket(b), NEW s \in InBucket(b),
           SessionOf[r] = SessionOf[s], Before(s, r), r \in BatchOf(b)
    PROVE  s \in BatchOf(b)
<1> DEFINE W == WithinLimit(b)
           own(q) == {p \in InBucket(b) : SessionOf[p] = SessionOf[q] /\ Before(p, q)}
           all(q) == {p \in W : Before(p, q)}
<1>1. InBucket(b) \subseteq queue /\ W \subseteq InBucket(b)
  BY DEF InBucket, WithinLimit
<1>2. \A p \in InBucket(b) : Before(p, s) => Before(p, r)
  BY <1>1, BeforeIsOrder
<1>3. \A T \in SUBSET InBucket(b) : IsFiniteSet(T) /\ Cardinality(T) \in Nat
  BY <1>1, FS_Subset, FS_CardinalityType DEF RefinementInv, Inv
<1>4. r \in W /\ Cardinality(own(r)) < PerSession /\ Cardinality(all(r)) < MaxBatch
  BY DEF BatchOf, WithinLimit
<1>5. Cardinality(own(s)) <= Cardinality(own(r))
  <2>1. own(s) \subseteq own(r)
    BY <1>2
  <2> QED
    BY <2>1, <1>3, FS_Subset
<1>6. Cardinality(all(s)) <= Cardinality(all(r))
  <2>1. all(s) \subseteq all(r)
    BY <1>1, <1>2
  <2>2. all(r) \in SUBSET InBucket(b)
    BY <1>1
  <2> QED
    BY <2>1, <2>2, <1>3, FS_Subset
<1>7. /\ Cardinality(own(s)) \in Nat /\ Cardinality(own(r)) \in Nat
      /\ Cardinality(all(s)) \in Nat /\ Cardinality(all(r)) \in Nat
  BY <1>1, <1>3
<1>8. s \in W
  BY <1>4, <1>5, <1>7, LimitsAssumption DEF WithinLimit
<1> QED
  BY <1>4, <1>6, <1>7, <1>8, LimitsAssumption DEF BatchOf

\* A session's surplus is its latest windows: no request leaves its bucket
\* ahead of an earlier one of its own session (batcher.py:174-201).
THEOREM SessionsInOrder == Spec => SessionOrder
<1>1. ASSUME RefinementInv, [Next]_vars, NEW r \in queue, NEW s \in queue,
             r \notin queue', s \in queue',
             SessionOf[r] = SessionOf[s], entry[r].bucket = entry[s].bucket
      PROVE  /\ entry[r].deadline_at <= entry[s].deadline_at
             /\ entry[r].deadline_at = entry[s].deadline_at =>
                   entry[r].enqueued_at <= entry[s].enqueued_at
  <2>1. PICK b \in Buckets : RunnerTakes(b)
    <3>1. ~(queue \subseteq queue')
      BY <1>1
    <3> QED
      BY <1>1, <3>1 DEF Next, Steps, Caller, RunnerLoop, Closing, Submit, SubmitClosed, Enqueue,
         EnqueueClosed, Cancel, RunnerWaits, RunnerStops, RunnerSleeps, RunnerTimesOut,
         Execute, Close, Join, CloseBackend, Tick, vars
  <2>2. r \in BatchOf(b) /\ s \notin BatchOf(b)
    BY <1>1, <2>1 DEF RunnerTakes
  <2>3. r \in InBucket(b) /\ s \in InBucket(b)
    BY <1>1, <2>2 DEF BatchOf, WithinLimit, InBucket
  <2>4. ~Before(s, r)
    BY <1>1, <2>2, <2>3, LeftBehindInOrder
  <2>5. /\ entry[r].deadline_at \in Nat /\ entry[s].deadline_at \in Nat
        /\ entry[r].enqueued_at \in Nat /\ entry[s].enqueued_at \in Nat
    BY <1>1, EntryFields DEF RefinementInv, Inv, TypeOK
  <2> QED
    BY <2>4, <2>5 DEF Before
<1>2. RefinementInv /\ [Next]_vars =>
         [\A r, s \in queue :
             /\ r \notin queue' /\ s \in queue'
             /\ SessionOf[r] = SessionOf[s] /\ entry[r].bucket = entry[s].bucket
             => /\ entry[r].deadline_at <= entry[s].deadline_at
                /\ entry[r].deadline_at = entry[s].deadline_at =>
                      entry[r].enqueued_at <= entry[s].enqueued_at]_vars
  BY <1>1
<1>3. Init => RefinementInv
  BY RefinementInit
<1>4. RefinementInv /\ [Next]_vars => RefinementInv'
  BY RefinementStep
<1> QED
  BY <1>2, <1>3, <1>4, PTL DEF Spec, SessionOrder
=============================================================================
