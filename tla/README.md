# Formal verification of CueBee speaker serving

TLA+ specifications of the speaker-serving service in `src/cuebee_speaker`, the
TLC configurations that check them on small instances, and TLAPS proofs of the
properties that matter most for every value of the constants.

## 1. The system

A client streams timestamped PCM packets and STT events over TCP (`server.py`,
one message at a time per connection, many connections on one asyncio event
loop). `DiarizationPipeline` (`pipeline.py`) takes a packet through five parts.

| Part | State | Operations | Talks to |
|---|---|---|---|
| `EventGateway` | cursor (epoch, last_seq) per session | `accept`, `forget` | called by the pipeline |
| `StreamingAudioFrontend` | buffered audio and epoch per session | `push`, `flush`, `forget` | called by the pipeline |
| `CrossSessionMicroBatcher` | queues by length, a runner task, `_closing` | `submit`, `close`, `_run` | a backend, in a thread |
| `OnlineSpeakerAssigner` | one asyncio lock per session | `assign`, `rename`, `close` | the store, in a thread |
| `SQLiteSpeakerStore` | profiles and id counters, durable | list, create, update, rename, delete, close | the database file, shared by processes |
| `SpeakerTimeline`, `TimelineAligner` | segments per session | `add`, `query`, `align` | called by the pipeline |
| `NativeWorkerBackend` | a child process, a response queue | `infer_batch`, `close`, restart | the C++ worker, over pipes |
| `AudioBacklogAutoscaler` | last action, low windows | `recommend` | called by the server |

What is hard: every `await` is a place where another connection may run (the
session lock, the embeddings, each store call); the inference worker is a process of its own, which
may die, hang or answer too late at any moment; the batcher's runner must be
woken by three kinds of event and must drain before its backend is closed; the
store is shared and survives crashes, the rest of the memory does not; clients
lose, repeat and reorder packets; any step of a packet's way may raise after
earlier ones took effect.

What makes each part correct: the gateway admits a packet at most once, in
order, and accounts for every hole; the batcher answers every request, in bounded
batches, fairly between sessions and in order within one, and never uses a closed
backend; an assignment is indivisible although it is two store calls, and
identifiers are never reused or invented; the pipeline lets nothing overtake a
packet it is processing, never infers twice and learns in stream order; the worker
client answers with the results of its own request, masks a failure of the worker,
always comes back and leaves no process behind; a window never spans a break of the
recording, its label tells when it was recorded, and only a little audio is in no window; a word
goes to the speaker of the segment that overlaps it most, and stays with it; the
autoscaler keeps its cooldown, earns a scale-down and comes to rest.
`PROJECT.json` lists the hazards line by line with the property that covers each.

## 2. The modules

| Module | Models | |
|---|---|---|
| `Gateway` | `gateway.py` | one action per return of `accept()`, and `forget()` |
| `EmbeddingService` | what `submit()` and `close()` promise | abstract: no queue, no clock, no runner |
| `Batcher` | `inference/batcher.py` | implements `EmbeddingService` |
| `SpeakerIdentity` | what `assign()` and `rename()` promise | abstract: each is one step |
| `Assignment` | `assignment.py`, `state/store.py` | implements `SpeakerIdentity` in one process |
| `SerialSessions` | what `ingest_audio()` and `flush_session()` promise | abstract: each is one step |
| `Pipeline` | `pipeline.py`, EXTENDS `Gateway` | implements `SerialSessions` |
| `EmbeddingBackend` | what a backend with a worker process promises | abstract: no lock, message, retry or process |
| `NativeWorker` | `inference/native_worker.py`, the loop of `cpp/src/worker_main.cc` | implements `EmbeddingBackend` |
| `Frontend` | `audio/frontend.py` | the stream of one session, sample by sample |
| `Timeline` | `alignment.py` | pure operators: slots, retention, attribution |
| `Transcript` | `pipeline.py`, EXTENDS `Frontend`, `Timeline` | packets in, attributed words out |
| `Autoscaler` | `autoscaler.py` | in a loop with its surroundings |
| `MC*` | constants, symmetry and views for TLC | |
| `*_proofs` | the theorems about the module of that name | |

Operators whose name starts with `X_` are faulty variants of the definition that
follows them; no specification uses them. A property is trusted only after TLC
has shown that one of them breaks it.

**Gateway.** `cursors` is `_cursors`; `answer` is the decision of the last call.
`accept()` holds a thread lock, so a call is one action; the network is "any packet
may arrive at any time". `times` and `reported` are histories. `forget()`, which the service
does not call, ends a session's life: histories and `answer` start anew with it.

**Batcher.** The code between two suspension points is one action. A request is
`asking` between `start()` and the condition's lock, `pending` on its future.
`runner` says where the task of `_run()` is suspended: `waiting` (no work),
`timed` (until `wakeAt`), `executing`, or `ready` to go on. `queue` is the union of
`_queues`, each request's `entry` gives its bucket, times and ordinal. The
fallback of `_take_batch` for an empty selection is dead code, because
`BatcherConfig` requires positive limits; it has no counterpart.

**Assignment.** One session, any number of processes on one database. A task is
`waiting` for its process's session lock, then `locked`, `listed` and `written`,
one action per store call; the transaction of `create_profile` is one action,
because `BEGIN IMMEDIATE` makes it so: that
SQLite undoes a transaction that fails or is cut short is an assumption, not a result. A centroid is the set of utterances in it
(their number is `sample_count`); which listed profile is near enough is a free
choice. A process may crash at any point; committed rows stay.

**Pipeline.** A task is one `ingest_audio()` or `flush_session()`. Admission,
buffering and submission happen without a suspension and are one action; then the
task waits for its embeddings and assigns one window per action. The frontend is
the epoch of its stream state and the choice of how many windows a packet
completes; the batcher is "all embeddings or an exception", which `Batcher`
justifies; `assign` learns the window, or not, or raises. `IngestInvalid` is
`frontend.push()` raising after the gateway has moved its cursor.
To a connection a call in progress still waits, and its session stands as the call found
it, which the history `before` remembers: under this mapping `Pipeline` implements
`SerialSessions`. In that specification nothing suspends, a call that fails midway moves
cursor and stream without a window, and a restart loses what was waiting. The centroids are
not a part of it: what a failed call has learned stays learned.

**NativeWorker.** A call holds `lock` from `Acquire` to its end, which `pc` names:
`early` (no or malformed features), `refused` (closed), `ok`, `rejected` (the
engine's error), `unavailable`, `not_started` (`Popen` raised) or `closed`. Under the
lock it is `starting`, `trying` (about to call `_exchange`), `sent` (waiting on the
queue) or `stopping`. Each process has its `queue`, as `_start_process` makes one.
Features and results are reduced to the call they belong to. A process may
`Crash`, `Hang` or write what is not a response (`Garble`), with or without a request;
a process that is merely too slow is `TimeOut` on one that has not failed before.
`faulty` and `suffered` are histories. Response bytes and the reader thread are one
step, since a dead worker's output is still read to its end. It is assumed that SIGKILL ends
a process within the second that `_stop_process` waits for it (`native_worker.py:235`), so that
this wait never raises `TimeoutExpired`.
In `EmbeddingBackend` a call is `called`, then over; a `close()` is `closing` from when it
takes effect, where the lock stands for the moment. It says what the batcher and the service may
rely on: answers are the caller's own, what comes after `close()` is refused, and a worker is
there only for as long as a call may need it.

**Frontend.** `stream` is the session's `_StreamState`. Time is counted in samples
(the code converts between milliseconds and samples by rounding, which is exact for
rates that are multiples of 1000 Hz, such as the service's 16 kHz; §6 says what other rates do). A sample is not a number but the epoch
and the time at which its packet says it was recorded: so labels can be compared with contents.
The loop of `_emit_complete_windows` is written as what it computes: `WindowCount`,
`WindowAt` and `Remainder`. `result` has the windows of the last call, speech or not.
`is_final` makes `ingest_audio()` flush in the same step. `missing` and `surplus` account for
the two things labels cannot know: holes of at most a frame, and payloads that are
shorter or longer than their timestamps say, within the tolerance. The history `unheard` holds
the samples of the current stretch that no window has had yet. A gap that is material and a newer
epoch drop those that wait, the end of a session a tail too short to embed, so its size is what
may be lost. `MaxSurplus`
bounds the model; the proofs do not use it.

**Timeline and Transcript.** A timeline is the set of its segments, one per slot. The
sort key of `_best_speaker` is the relation `RanksBefore`, the loop of `align()` is the
recursive function in `Align`, and an event without words is its own only word (`WordsOf`).
A call of `ingest_audio()`
or `flush_session()` is one step, because `Pipeline` implements `SerialSessions`
and STT events only read. What is speech and
who speaks, with which confidence, is a free choice per window; failures of inference
are among the choices, as nothing reaches the timeline then. Of the gateway only
the order of epochs is kept: sequence numbers do not reach the frontend. Events are
judged in every state instead of being sent.

**Autoscaler.** One action per kind of answer of `recommend()`. `age` is the clock minus
`_last_action_at`; at `Cooldown` it stops growing, as only `>= cooldown_seconds` is
asked. A sample is stamped by a clock that is `offset` ahead of the slowest, since
`observed_at` is the client's, or the service's when it is 0. `load` is what a sample
would report; capacity is the rounded product of arrival rate and RTF over the target
utilisation. `Apply` is the orchestrator, which is not in the repository.

## 3. What the runs check

| Run | Bounds | Shows |
|---|---|---|
| `Gateway` | 2 sessions, 2 epochs, 3 sequence numbers | `AdmittedOnce`, `GapsAccounted`, `AdmitsInOrder` |
| `Batcher` | 3 requests (2 of one session), 2 buckets, cap 1, batch 2, clock to 3, one `close()` | `NoOrphan`, `NoLostWakeup`, `NoUseAfterClose`, `SessionOrder`, and that it implements `EmbeddingService` |
| `BatcherLive` | 2 requests, one per session, 2 `close()` calls | `EveryRequestEnds`, `CloseEnds` |
| `Assignment` | 1 process, 3 calls, 3 identifiers, legacy or used databases | implements `SpeakerIdentity`; `EveryCallEnds` |
| `AssignmentShared` | 2 processes, 3 calls, 4 identifiers | `OneEnrolmentPerId`, `CounterAboveIds`, `AnswersAreStored` |
| `Pipeline` | 1 session, 3 calls, 2 epochs, 2 sequence numbers, 2 windows a packet, 1 restart | `InferredOnce`, `NothingOvertakes`, `LearnsInOrder`, and that it implements `SerialSessions` |
| `Transcript` | window 3, hop 2, frame 1, tolerance 1, packets of 2 samples at 5 times, 2 epochs, 2 speakers, retention 2, 2 segments | `OneStretch`, `LabelsFollowAudio`, `EveryHop`, `LittleIsLost`, `BestMatch`, `AnswersAreStable` |
| `Autoscaler` | 2 to 4 replicas (1 or 5 may be running), cooldown 2, 2 low windows, 2 clocks | `ActionsApart`, `ScaleDownIsEarned`, `Settles` |
| `NativeWorker` | `__init__`, 2 `infer_batch()`, 1 `close()`, 1 restart attempt, hence 3 processes | `InStep`, `NoLeak`, `MasksFaults`, `EveryCallEnds`, and that it implements `EmbeddingBackend` |

Each passing run also checks the module's type invariant, except where another run
of the module does. Bounds are enough in the
following sense: the batcher's races are between one caller, a second caller
of the same or another session, the runner and `close()`; the store's between two
processes, of which one has a second task to hold back; the pipeline's between a
packet, its retransmit or successor, and a flush; the worker client's between what
an abandoned exchange left behind and the next, for which two calls with two
attempts each suffice. Failures of workers are not bounded. Deadlock is not checked: clients
may stop calling, and the bounded calls run out.
The times of `Transcript` are chosen so that a packet may follow without a gap, after a
gap that is not material or one that is, overlap by one or more samples, be known
altogether, be too short or too long. Windows of 3 with a hop of 2 overlap their neighbours by
one sample, and a sample may wait behind the last window that no window had: packets, gaps, epochs
and ends of sessions come at moments when it does and when it does not. `EveryHop` says that the
windows of a stretch are a hop apart; `LittleIsLost`, how much of what was buffered may be in
none at all.
The events' words are in order and within the event, and also in the wrong order and
outside it. Two segments suffice for every tie and order of `RanksBefore`, and for retention to
drop one. `BatcherLive` leaves the surplus that the cap puts off to `Batcher`, where
`SessionOrder` and `NoLostWakeup` cover it as safety: with two requests of one session the
liveness check is out of proportion. `Autoscaler` has values on both sides of every threshold.
`Horizon` bounds the clock: a request is submitted only while its maximum wait can
still elapse. `Pipeline` uses a VIEW that leaves out the gateway's last decision
and its histories, which no guard reads.

**Three disagreements** are kept as runs that TLC must find violated:

* `GatewayRetransmit` (`DuplicateWasAdmitted`): a packet reported in
  `missing_range` is rejected as a duplicate when it is retransmitted;
  `docs/architecture.md:76` says "allow retransmit control". The trace is: packet 1 is
  accepted and 0 reported missing, then packet 0 arrives and is a duplicate.
* `AssignmentLost` (`NoLostSample`): two processes on one store lose updates;
  `docs/architecture.md:39` says that service processes may share it.
* `PipelineStale` (`StaleNeverAttributed`): `ingest_audio()` moves the cursor to a
  newer epoch before the frontend validates the packet. If the packet is bad, a
  following flush learns and publishes audio of the stale epoch, against
  `docs/architecture.md:44`. The trace is: packet of epoch 0, malformed packet of
  epoch 1, `flush`.

## 4. Fairness

`Batcher!Fairness`: the event loop resumes every task that can go on, timers fire
and the clock advances (asyncio), and a backend call returns. For the native
worker the last is `NativeWorker!EveryCallEnds`, under one assumption: the write of
a request returns, which a worker that stopped reading can prevent when the request
is larger than the pipe. Nothing obliges a client to call, cancel or
close. `Assignment!FairSpec`: a free asyncio lock is handed to its waiters and a
store call ends (SQLite's 30 s timeout). `Acquire` needs only weak fairness since
calls are finitely many. `NativeWorker!FairSpec`: threads run, the lock is
handed over, a wait on the queue times out, and a worker that is neither hung nor
dead answers; no other fairness is asked of the workers. `Pipeline` states no liveness: `NothingOvertakes` shows
that only a task in progress holds a session, and such a task depends on the two
components whose liveness is checked. `Autoscaler!Fairness`: samples keep coming, time
passes and the orchestrator carries recommendations out; without the last nothing would
ever be settled. That the load stops changing is the premise of `Settles`, not an assumption.

## 5. What is proved

TLAPS proves, for every value of the constants that satisfies the modules'
named assumptions:

* `Gateway_proofs`: `GatewayTypeOK`, `AdmittedOnce`, `GapsAccounted`,
  `AdmitsInOrder`. The inductive invariant adds that the cursor bounds everything
  ever admitted: no admission of a later epoch, nor of a later sequence number of
  the cursor's epoch. Without it a packet above the cursor might have been admitted
  before.
* `Batcher_proofs`: `TypeOK`, `NoOrphan`, `NoLostWakeup`, `NoUseAfterClose`,
  `SessionOrder`, and the refinement `ImplementsService`. The
  strengthening ties the four variables the races are about: a queued or
  executing request has an entry, a stopped runner implies `closing` and empty
  queues, `asking` callers imply a runner was started, and a `close()` past its
  join implies the runner is gone. The refinement adds that ordinals differ, so that the
  order of `_take_batch` is total: the ranks of a bucket's requests are an injection into
  the numbers, which bounds the batch and shows that it is not empty.
* `Assignment_proofs`: `TypeOK`, `OneEnrolmentPerId`, `CounterAboveIds`,
  `AnswersAreStored`, for any number of processes. The invariant
  adds that every enrolled identifier is in the store, and `LockCoversCalls`: the session
  lock is held exactly between a call's first store access and its answer. For one process,
  `ImplementsIdentity`: the lock keeps a snapshot equal to the table until it is
  written back, so that nothing is lost (`AssignmentLost` shows what two processes do).
* `NativeWorker_proofs`: `TypeOK`, `InStep`, `NoLeak`, `AnswersOwn`, `MasksFaults`,
  for any number of calls, processes and attempts. The invariant adds that the
  response to the exchange under way is at the head of the queue or not yet in it,
  that messages precede the end of the stream, and that the number of lost attempts
  never exceeds that of the failures charged to the call. The refinement
  `ImplementsBackend` adds that nothing but the constructor runs before it has succeeded;
  then a call that leaves the lock is shown to do at that moment all that it does.
  `AnswersOwn` is what the refinement says of answers, as an invariant; it has no run of its own.
* `Pipeline_proofs`: `PipelineTypeOK`, `InferredOnce`, `NothingOvertakes`,
  `LearnsInOrder`, for any sessions, calls, packets and restarts. `InferredOnce` compares
  calls that may long be over; the invariant adds that the cursor is never behind a call
  of the current life of the service, that a waiting call belongs to that life, and that
  neither the frontend's stream nor a flush under way is behind what was submitted, since
  a flush learns under the epoch of the stream it took, which the cursor may have left.
  The refinement `ImplementsSerial` needs what a call in progress saw when it came in
  (`Pending`): its packet was newer than the cursor of that moment, its flush took a
  stream, and it has no more windows than a packet may complete. With `NothingOvertakes` that
  is all that its effect at the end depends on.
* `Autoscaler_proofs`: `TypeOK`, `ActionsApart`, `ScaleDownIsEarned`. The invariant adds
  that the age of the last action is never more than the time that has passed since: a
  clock that is ahead stamps actions in the future. The lemmas say what `_clamp` and the
  corrections do to the order of numbers.
* `Frontend_proofs`: `FrontendTypeOK`, `OneStretch`, `LabelsFollowAudio`, `EveryHop`,
  `LittleIsLost`, for packets of any sizes and streams of any length. The invariant relates three clocks of
  a stream: the label of the next sample differs from `expected` by at most what is
  missing or too much, and the last sample was recorded within the tolerance of
  `expected`; the windows cut so far are at whole multiples of the hop. For `LittleIsLost` it
  says how much can wait unheard: windows are no further apart than they are long, so what no
  window had lies behind the last one, and the buffer that remains is shorter than a window.
* `Transcript_proofs`: the pipeline's calls are calls of the frontend, so that the same
  holds in the composition; `TypeOK`, the timeline's one segment per slot, for which
  windows of one call must have different slots; `BestMatch`, for events with any
  words; and the action property `AnswersAreStable`. The timeline is finite, so it has a
  best and a last segment in the total orders `RanksBefore` and `SortsBefore`
  (`FiniteChoice`). The loop of `align()` is followed word by word: the spans
  after `k` words cover the first `k` words (`LoopCovers`). That the best
  of what overlaps an event is the best of the whole timeline, for words within the
  event, is `BestOfQuery`.

Induction over numbers and over the size of a finite set is had from the library's
theorems on well-founded relations, with the predicate as a set (`Induction`,
`FiniteChoice`): its theorems with an operator as a parameter cannot be used.

Each proof has the same shape: `Init => IInv`, one lemma or step per action for
`IInv /\ [Next]_vars => IInv'`, `IInv` implies the property, and PTL.

Only model-checked: the liveness properties `EveryRequestEnds`, `CloseEnds`,
`EveryCallEnds` and `Settles`, since fairness is stated with ENABLED, which is outside the
prover's reach. Every other property of a passing run is a theorem.

## 6. Not modelled, and the plan

In the order of their importance:

1. `Batcher` on top of `EmbeddingBackend` in one specification, and the limits of a
   request (`_validate_features` against `ReadRequest`) on which that depends. Today the
   batcher's `Execute` chooses an outcome, and its own `NoUseAfterClose` keeps it away from a
   closed backend.
2. `pipeline.close()` while calls are in progress: the parts it closes are modelled one
   by one, and to a call in progress it looks like any other failure.

What the modules leave out, and why:

* `chunk_id` and the counter `emitted`: they name windows in messages only, and repeat
  after a flush; nothing uses them as a key.
* The texts of words and how `_join_words` spaces them: layout.
* Revisions of segments other than 1: the assigner makes no others. `Supersedes` is
  modelled, its false case does not arise.
* `forget()` of frontend and timeline, `delete_session()` and `InMemorySpeakerStore`: the
  service does not reach them.
* Rates that are no multiple of 1000 Hz, which `config.py:22` accepts: the hop in samples is
  rounded down (`frontend.py:31-32`) while labels advance by the hop in milliseconds (`:105`), so
  that they drift from the audio.
* What a restart does to packets: the gateway starts with no cursor, so a packet sent before and
  again after is inferred twice. `InferredOnce` speaks of one life of the service.
* Epochs in the timeline: segments carry none, so after an epoch whose timestamps start
  again, old segments may answer for new audio or push it out by retention. The
  documentation does not promise otherwise; `AnswersAreStable` says what remains true.
* A hold of the autoscaler reports the current number of replicas as desired, which may
  lie outside the configured bounds; it recommends no change, so no property is about it.

Left out for good: signal processing (VAD, filter bank, PCM), the embedding
engines, JSON and base64 decoding, metrics, the demo, load generator and tools.
