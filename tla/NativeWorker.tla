---------------------------- MODULE NativeWorker ----------------------------
(***************************************************************************)
(* NativeWorkerBackend (inference/native_worker.py) and the request loop   *)
(* of the C++ worker it drives (cpp/src/worker_main.cc).                   *)
(*                                                                         *)
(* A caller holds the backend's lock for a whole call: it writes a request *)
(* to the worker's stdin and waits, for a bounded time, on a queue that a  *)
(* reader thread fills from the worker's stdout.  A worker that does not   *)
(* answer, or answers what cannot be parsed, is stopped, and another one   *)
(* is started for the next attempt.  The worker is a process of its own:   *)
(* it may crash, hang, answer late or write what is not a response, at any *)
(* moment, also between two calls.                                         *)
(*                                                                         *)
(* A request's features are abstracted to the call that made them, and the *)
(* results to the call whose features they were computed from.  The pipe   *)
(* from the worker and the reader thread are one step: what a dying worker *)
(* has written is still read before the end of the stream.                 *)
(***************************************************************************)
EXTENDS Integers, Sequences

CONSTANTS Processes,       \* worker processes, numbered as they are started
          Constructor,     \* the call of __init__
          Infers,          \* calls of infer_batch()
          Closers,         \* calls of close()
          Nobody,          \* the owner of a free lock; no process
          RestartAttempts

ASSUME CallsAssumption ==
    /\ Constructor \notin Infers \cup Closers
    /\ Infers \cap Closers = {}
    /\ Nobody \notin {Constructor} \cup Infers \cup Closers
ASSUME ProcessesAssumption == Processes \subseteq Nat /\ Nobody \notin Processes
ASSUME AttemptsAssumption == RestartAttempts \in Nat

Calls == {Constructor} \cup Infers \cup Closers

VARIABLES lock,      \* the call that holds _lock
          pc,        \* where each call is, or how it ended
          attempt,   \* of the call that holds the lock
          process,   \* _process
          nextId,    \* _next_request_id
          closed,    \* _closed
          life,      \* of each process
          job,       \* the request a process has been sent and not answered
          queue,     \* _responses, one for each process
          reading,   \* processes whose reader thread is running
          answer,    \* the results that a call returned
          faulty,    \* history: processes that failed in some way
          suffered   \* history: failures each call had to cope with

worker == <<life, job, queue, reading, faulty, suffered>>
vars == <<lock, pc, attempt, process, nextId, closed, worker, answer>>

Op(c) == IF c = Constructor THEN "ping" ELSE IF c \in Infers THEN "infer" ELSE "shutdown"

NoJob == [id |-> 0, of |-> Nobody]
Job == [id : Nat \ {0}, of : Calls]
\* A message of the queue: a response, or the exception that ended the reader.
Message == [says : {"ok", "error", "broken"}, id : Nat, of : Calls \cup {Nobody}]
Broken == [says |-> "broken", id |-> 0, of |-> Nobody]

Inside == {"starting", "trying", "sent", "stopping"}
Ended == {"early", "refused", "ok", "rejected", "unavailable", "not_started", "closed"}
PC == {"idle", "waiting"} \cup Inside \cup Ended

Running == {"idle", "busy", "hung"}
Live(p) == life[p] \in Running
-----------------------------------------------------------------------------
(* The worker process *)

\* A failure of p, charged to the call that has to cope with it.
Fault(p) ==
    /\ faulty' = faulty \cup {p}
    /\ suffered' = IF p = process /\ p \notin faulty /\ lock # Nobody
                   THEN [suffered EXCEPT ![lock] = @ + 1] ELSE suffered

X_OneQueue(p) == CHOOSE q \in Processes : TRUE
\* _start_process makes a queue for the new process and its reader.
QueueOf(p) == p

Put(p, m) == queue' = [queue EXCEPT ![QueueOf(p)] = IF p \in reading THEN Append(@, m) ELSE @]

\* The request loop answers: with results, or with the engine's error.  After
\* a shutdown it exits.  Requests it would refuse to decode are not sent:
\* infer_batch() has the same limits and checks them first.
Answer(p) ==
    /\ life[p] = "busy" /\ job[p] # NoJob
    /\ \/ Put(p, [says |-> "ok", id |-> job[p].id, of |-> job[p].of])
       \/ /\ Op(job[p].of) = "infer"
          /\ Put(p, [says |-> "error", id |-> job[p].id, of |-> Nobody])
    /\ life' = [life EXCEPT ![p] = IF Op(job[p].of) = "shutdown" THEN "exited" ELSE "idle"]
    /\ job' = [job EXCEPT ![p] = NoJob]
    /\ UNCHANGED <<lock, pc, attempt, process, nextId, closed, reading, answer, faulty, suffered>>

Crash(p) ==
    /\ Live(p)
    /\ life' = [life EXCEPT ![p] = "exited"]
    /\ job' = [job EXCEPT ![p] = NoJob]
    /\ Fault(p)
    /\ UNCHANGED <<lock, pc, attempt, process, nextId, closed, queue, reading, answer>>

Hang(p) ==
    /\ life[p] \in {"idle", "busy"}
    /\ life' = [life EXCEPT ![p] = "hung"]
    /\ Fault(p)
    /\ UNCHANGED <<lock, pc, attempt, process, nextId, closed, job, queue, reading, answer>>

\* Something else than a response reaches stdout: the reader gives up.
Garble(p) ==
    /\ Live(p) /\ p \in reading
    /\ Put(p, Broken)
    /\ reading' = reading \ {p}
    /\ Fault(p)
    /\ UNCHANGED <<lock, pc, attempt, process, nextId, closed, life, job, answer>>

\* The reader finds the end of the stream.
ReaderEnds(p) ==
    /\ life[p] = "exited" /\ p \in reading
    /\ Put(p, Broken)
    /\ reading' = reading \ {p}
    /\ UNCHANGED <<lock, pc, attempt, process, nextId, closed, life, job, answer, faulty, suffered>>
-----------------------------------------------------------------------------
(* A call, up to the lock and under it *)

Goto(c, place) == pc' = [pc EXCEPT ![c] = place]

\* infer_batch() returns for an empty list and raises for malformed features,
\* before it takes the lock.
ReturnEarly(c) ==
    /\ pc[c] = "idle" /\ c \in Infers /\ pc[Constructor] = "ok"
    /\ Goto(c, "early")
    /\ UNCHANGED <<lock, attempt, process, nextId, closed, worker, answer>>

Begin(c) ==
    /\ pc[c] = "idle" /\ pc[Constructor] = "ok"
    /\ Goto(c, "waiting")
    /\ UNCHANGED <<lock, attempt, process, nextId, closed, worker, answer>>

Sound == process # Nobody /\ process \notin faulty

X_NeverRefuses(c) == FALSE
Refuses(c) == closed

AcquireClosed(c) ==
    /\ pc[c] = "waiting" /\ lock = Nobody
    /\ Refuses(c)
    /\ Goto(c, IF c \in Infers THEN "refused" ELSE "closed")
    /\ UNCHANGED <<lock, attempt, process, nextId, closed, worker, answer>>

Acquire(c) ==
    /\ pc[c] = "waiting" /\ lock = Nobody
    /\ ~Refuses(c)
    /\ lock' = c
    /\ attempt' = 0
    /\ closed' = (closed \/ c \in Closers)
    \* close() asks a running worker to shut down, and stops any other.
    /\ \/ c \in Infers /\ Goto(c, "trying")
       \/ c \in Closers /\ process # Nobody /\ Live(process) /\ Goto(c, "trying")
       \/ c \in Closers /\ ~(process # Nobody /\ Live(process)) /\ Goto(c, "stopping")
    /\ suffered' = [suffered EXCEPT ![c] = IF Sound THEN 0 ELSE 1]
    /\ UNCHANGED <<process, nextId, life, job, queue, reading, answer, faulty>>
-----------------------------------------------------------------------------
(* _exchange *)

\* The worker is gone when poll() looks, or by the time of the write.
ExchangeFails(c) ==
    /\ pc[c] = "trying"
    /\ \/ process = Nobody /\ UNCHANGED nextId
       \/ process # Nobody /\ ~Live(process) /\ nextId' \in {nextId, nextId + 1}
    /\ Goto(c, "stopping")
    /\ UNCHANGED <<lock, attempt, process, closed, worker, answer>>

\* The write returns: the pipe takes a request that a hung worker does not read.
Send(c) ==
    /\ pc[c] = "trying" /\ process # Nobody /\ Live(process)
    /\ job' = [job EXCEPT ![process] = [id |-> nextId, of |-> c]]
    /\ life' = [life EXCEPT ![process] = IF @ = "idle" THEN "busy" ELSE @]
    /\ nextId' = nextId + 1
    /\ Goto(c, "sent")
    /\ UNCHANGED <<lock, attempt, process, closed, queue, reading, answer, faulty, suffered>>

\* request_id of the exchange that is under way.
CurrentId == nextId - 1

\* The end of the stream, or the response to another request.
Unusable(m) == m.says = "broken" \/ m.id # CurrentId

\* What a message makes of the exchange: an error response to infer_batch()
\* leaves the worker running; __init__ stops the worker for any error, and
\* close() stops it in any case.
X_RetriesRejected(c, m) ==
    IF m.says # "ok" \/ m.id # CurrentId \/ c \in Closers THEN "stopping" ELSE "ok"
Outcome(c, m) ==
    IF Unusable(m) \/ c \in Closers \/ (m.says = "error" /\ c = Constructor) THEN "stopping"
    ELSE IF m.says = "error" THEN "rejected" ELSE "ok"

Receive(c) ==
    /\ pc[c] = "sent" /\ queue[QueueOf(process)] # <<>>
    /\ LET m == Head(queue[QueueOf(process)])
           end == Outcome(c, m)
       IN  /\ Goto(c, end)
           /\ lock' = IF end = "stopping" THEN lock ELSE Nobody
           /\ answer' = IF end = "ok" THEN [answer EXCEPT ![c] = m.of] ELSE answer
    /\ queue' = [queue EXCEPT ![QueueOf(process)] = Tail(@)]
    /\ UNCHANGED <<attempt, process, nextId, closed, life, job, reading, faulty, suffered>>

X_WaitsForever(c) == FALSE
MayTimeOut(c) == pc[c] = "sent" /\ queue[QueueOf(process)] = <<>>

\* The worker may answer after this, until it is stopped.
TimeOut(c) ==
    /\ MayTimeOut(c)
    /\ Fault(process)
    /\ Goto(c, "stopping")
    /\ UNCHANGED <<lock, attempt, process, nextId, closed, life, job, queue, reading, answer>>
-----------------------------------------------------------------------------
(* _stop_process and _start_process *)

X_RetriesShutdown(c) == c = Constructor \/ attempt >= RestartAttempts
X_OneTooMany(c) == c \notin Infers \/ attempt > RestartAttempts
LastAttempt(c) == c \notin Infers \/ attempt >= RestartAttempts

Stop(c) ==
    /\ pc[c] = "stopping"
    /\ process' = Nobody
    /\ life' = [p \in Processes |-> IF p = process THEN "exited" ELSE life[p]]
    /\ job' = [p \in Processes |-> IF p = process THEN NoJob ELSE job[p]]
    /\ IF LastAttempt(c)
       THEN /\ Goto(c, IF c \in Closers THEN "closed" ELSE "unavailable")
            /\ lock' = Nobody
       ELSE Goto(c, "starting") /\ UNCHANGED lock
    /\ UNCHANGED <<attempt, nextId, closed, queue, reading, answer, faulty, suffered>>

Start(c) ==
    /\ pc[c] = "starting"
    /\ \E p \in Processes :
          /\ life[p] = "unborn" /\ \A q \in Processes : life[q] = "unborn" => p <= q
          /\ life' = [life EXCEPT ![p] = "idle"]
          /\ reading' = reading \cup {p}
          /\ process' = p
    /\ attempt' = IF c = Constructor THEN 0 ELSE attempt + 1
    /\ Goto(c, "trying")
    /\ UNCHANGED <<lock, nextId, closed, job, queue, answer, faulty, suffered>>

\* Popen raises; this is not retried.
StartFails(c) ==
    /\ pc[c] = "starting"
    /\ Goto(c, "not_started")
    /\ lock' = Nobody
    /\ UNCHANGED <<attempt, process, nextId, closed, worker, answer>>
-----------------------------------------------------------------------------
\* __init__ is under way, and has the lock.
Init ==
    /\ lock = Constructor
    /\ pc = [c \in Calls |-> IF c = Constructor THEN "starting" ELSE "idle"]
    /\ attempt = 0
    /\ process = Nobody
    /\ nextId = 1
    /\ closed = FALSE
    /\ life = [p \in Processes |-> "unborn"]
    /\ job = [p \in Processes |-> NoJob]
    /\ queue = [p \in Processes |-> <<>>]
    /\ reading = {}
    /\ answer = [c \in Calls |-> Nobody]
    /\ faulty = {}
    /\ suffered = [c \in Calls |-> 0]

Exchange(c) == ExchangeFails(c) \/ Send(c) \/ Receive(c) \/ TimeOut(c)
Proceed(c) == Exchange(c) \/ Stop(c) \/ Start(c) \/ StartFails(c)
Failure(p) == Crash(p) \/ Hang(p) \/ Garble(p)

Next ==
    \/ \E c \in Calls : ReturnEarly(c) \/ Begin(c) \/ AcquireClosed(c) \/ Acquire(c) \/ Proceed(c)
    \/ \E p \in Processes : Answer(p) \/ ReaderEnds(p) \/ Failure(p)

Spec == Init /\ [][Next]_vars

\* Threads run, the lock is handed over, a wait on the queue is bounded by
\* timeout_seconds, and a worker that is neither hung nor dead answers.
FairSpec ==
    /\ Spec
    /\ \A c \in Calls : WF_vars(AcquireClosed(c) \/ Acquire(c)) /\ WF_vars(Proceed(c))
    /\ \A p \in Processes : WF_vars(Answer(p)) /\ WF_vars(ReaderEnds(p))
-----------------------------------------------------------------------------
(* Properties *)

TypeOK ==
    /\ lock \in Calls \cup {Nobody}
    /\ pc \in [Calls -> PC]
    /\ attempt \in 0..RestartAttempts
    /\ process \in Processes \cup {Nobody}
    /\ nextId \in Nat \ {0}
    /\ closed \in BOOLEAN
    /\ life \in [Processes -> Running \cup {"unborn", "exited"}]
    /\ job \in [Processes -> Job \cup {NoJob}]
    /\ queue \in [Processes -> Seq(Message)]
    /\ reading \in SUBSET Processes
    /\ answer \in [Calls -> Calls \cup {Nobody}]
    /\ faulty \in SUBSET Processes
    /\ suffered \in [Calls -> Nat]

\* The holder of the lock waits for the response to this request, or has just
\* given up on it.
Awaits(id) == lock # Nobody /\ pc[lock] \in {"sent", "stopping"} /\ id = CurrentId

\* Only one request is in flight per worker process
\* (docs/native-worker-protocol.md:47): what the current worker computes, and
\* each response in its queue, belongs to the exchange under way.  A late
\* response to an abandoned attempt never meets the next one.
InStep ==
    process # Nobody =>
        /\ job[process] # NoJob => Awaits(job[process].id)
        /\ \A i \in DOMAIN queue[QueueOf(process)] :
              LET m == queue[QueueOf(process)][i] IN m.says # "broken" => Awaits(m.id)

\* No worker process is left behind: at most the current one lives, through
\* any sequence of retries, and none once the backend is closed.
NoLeak ==
    /\ \A p \in Processes : Live(p) => p = process
    /\ closed /\ lock = Nobody => process = Nobody

\* infer_batch() returns the results of its own features, whatever was late,
\* repeated or rejected before.  ImplementsBackend implies it.
AnswersOwn == \A c \in Infers : pc[c] = "ok" => answer[c] = c

\* A call gives up on the worker only after more than RestartAttempts
\* failures, of which one may have happened before the call
\* (README.md:90 of the repository): neither a rejected batch nor a leftover
\* of an earlier attempt uses up an attempt.
MasksFaults == \A c \in Infers : pc[c] = "unavailable" => suffered[c] > RestartAttempts

\* The backend as its callers see it.
BackendState == IF closed THEN "closed"
                ELSE IF pc[Constructor] = "ok" THEN "open"
                ELSE IF pc[Constructor] \in Ended THEN "failed" ELSE "starting"

CallState(c) ==
    IF pc[c] \in {"waiting"} \cup Inside
    THEN IF c \in Closers /\ lock = c THEN "closing" ELSE "called"
    ELSE IF pc[c] \in {"rejected", "unavailable", "not_started"} THEN "failed" ELSE pc[c]

Backend == INSTANCE EmbeddingBackend WITH
              state <- BackendState,
              call <- [c \in Infers \cup Closers |-> CallState(c)],
              answer <- [c \in Infers |-> answer[c]],
              alive <- \E p \in Processes : Live(p)

\* Calls that overlap, restarts and failures in the middle of them do not show:
\* each call is as good as indivisible, none works on a closed backend, and a
\* worker that was stopped for good is not started again.
ImplementsBackend == Backend!Spec

\* Every call that asked for the lock returns or raises, also with a worker
\* that hangs, and so does __init__.
EveryCallEnds ==
    /\ \A c \in Calls : pc[c] = "waiting" ~> pc[c] \in Ended
    /\ <>(pc[Constructor] \in Ended)
=============================================================================
