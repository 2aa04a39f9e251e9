------------------------------ MODULE Pipeline ------------------------------
(***************************************************************************)
(* DiarizationPipeline of pipeline.py: the way of a packet through the     *)
(* gateway, the streaming frontend, the embedding service, the assigner    *)
(* and the timeline.                                                       *)
(*                                                                         *)
(* A task is one call of ingest_audio() or flush_session(), made by some   *)
(* connection.  It waits for the asyncio lock of its session, and holds it *)
(* while it waits for the embeddings and then for the store, once per      *)
(* window.  Nothing else suspends, so the gateway's decision, the          *)
(* frontend's buffering and the submission of the windows are one step.    *)
(*                                                                         *)
(* The gateway is that of module Gateway, with its history.  The frontend  *)
(* is reduced to the epoch of its stream state and to how many windows a   *)
(* packet completes, the batcher to success or failure (Batcher shows that *)
(* there is always one of them), the assigner to learning the window,      *)
(* giving it to spk_unknown, or failing (Assignment).                      *)
(*                                                                         *)
(* Cursors, stream states and timeline live in memory; what the centroids  *)
(* have learned is in the store and survives a restart.                    *)
(***************************************************************************)
EXTENDS Gateway

CONSTANTS Tasks,       \* calls of ingest_audio() and flush_session()
          NoTask,      \* the owner of a free session lock
          MaxWindows,  \* bound: windows one packet completes
          MaxCrashes   \* bound: restarts of the service

ASSUME PipelineAssumption == /\ NoTask \notin Tasks
                             /\ MaxWindows \in Nat /\ MaxCrashes \in Nat

VARIABLES stream,    \* the epoch of the frontend's _StreamState of each key
          session,   \* the task that holds each session lock
          pc,        \* where each task is suspended
          event,     \* its argument
          windows,   \* how many windows it submitted
          next,      \* the window it assigns next
          learned,   \* the windows in the centroids: durable
          timeline,  \* the windows in the timeline
          crashes,   \* restarts so far
          life,      \* history: how many restarts each call came after
          before     \* history: what the holder of each session found

taskVars == <<stream, session, pc, event, windows, next, learned, timeline, crashes, life,
              before>>
vars == <<gatewayVars, taskVars>>

NoStream == -1
Audio == [kind : {"audio"}, key : Keys, epoch : Epochs, seq : Seqs, is_final : BOOLEAN]
FlushOf(key) == [kind |-> "flush", key |-> key]
\* The epoch of the stream that a flush took away, once it has.
Flushed == [kind : {"flush"}, key : Keys, epoch : Epochs]
NoEvent == [kind |-> "none"]

Busy == {"embedding", "assigning"}
Ended == {"done", "rejected", "failed", "lost"}
PC == {"idle", "waiting"} \cup Busy \cup Ended

Goto(t, place) == pc' = [pc EXCEPT ![t] = place]
-----------------------------------------------------------------------------
(* The session lock *)

X_NoSessionLock(key) == TRUE
SessionIsFree(key) == session[key] = NoTask

TakeSession(t, key) == session' = [session EXCEPT ![key] = t]

X_KeepsSession(t) == UNCHANGED session
LeaveSession(t) == session' = [session EXCEPT ![event[t].key] = NoTask]

\* What the next call of a session finds, and what it finds in an empty memory.
Standing(key) == [cursor |-> cursors[key], stream |-> stream[key]]
Fresh == [cursor |-> NoCursor, stream |-> NoStream]

Forgets(t) == before' = [before EXCEPT ![event[t].key] = Fresh]

\* The task submits its windows and waits, or has none and is done.
Submit(t, n) ==
    /\ windows' = [windows EXCEPT ![t] = n]
    /\ IF n = 0
       THEN Goto(t, "done") /\ UNCHANGED <<session, before>>
       ELSE /\ Goto(t, "embedding") /\ TakeSession(t, event[t].key)
            /\ before' = [before EXCEPT ![event[t].key] = Standing(event[t].key)]
-----------------------------------------------------------------------------
(* A client's call *)

Receive(t, e) ==
    /\ pc[t] = "idle"
    /\ Goto(t, "waiting")
    /\ event' = [event EXCEPT ![t] = e]
    /\ life' = [life EXCEPT ![t] = crashes]
    /\ UNCHANGED <<gatewayVars, stream, session, windows, next,
                   learned, timeline, crashes, before>>

\* ingest_audio: the gateway turns the packet away.
IngestRejected(t) ==
    LET e == event[t] IN
    /\ pc[t] = "waiting" /\ e.kind = "audio" /\ SessionIsFree(e.key)
    /\ Rejection(e.key, e.epoch, e.seq)
    /\ Goto(t, "rejected")
    /\ UNCHANGED <<stream, session, event, windows, next, learned,
                   timeline, crashes, life, before>>

\* frontend.push raises: a wrong sample rate, or a payload that disagrees with
\* its timestamps.  The gateway has moved its cursor already.
IngestInvalid(t) ==
    LET e == event[t] IN
    /\ pc[t] = "waiting" /\ e.kind = "audio" /\ SessionIsFree(e.key)
    /\ Admission(e.key, e.epoch, e.seq)
    /\ Goto(t, "failed")
    /\ UNCHANGED <<stream, session, event, windows, next, learned,
                   timeline, crashes, life, before>>

\* The packet is buffered under its epoch and completes n windows; the final
\* one of a stream flushes what is left, which may make one more.
X_TailCountedTwice(n, tail) == n + 2 * tail
WindowsOf(n, tail) == n + tail

IngestAudio(t, n, tail) ==
    LET e == event[t] IN
    /\ pc[t] = "waiting" /\ e.kind = "audio" /\ SessionIsFree(e.key)
    /\ tail > 0 => e.is_final
    /\ Admission(e.key, e.epoch, e.seq)
    /\ stream' = [stream EXCEPT ![e.key] = IF e.is_final THEN NoStream ELSE e.epoch]
    /\ Submit(t, WindowsOf(n, tail))
    /\ UNCHANGED <<event, next, learned, timeline, crashes, life>>

\* flush_session: the state of whichever epoch is current is taken away.
FlushNothing(t) ==
    LET key == event[t].key IN
    /\ pc[t] = "waiting" /\ event[t].kind = "flush" /\ SessionIsFree(key)
    /\ stream[key] = NoStream
    /\ Goto(t, "done")
    /\ UNCHANGED <<gatewayVars, stream, session, event, windows, next,
                   learned, timeline, crashes, life, before>>

Flush(t, tail) ==
    LET key == event[t].key IN
    /\ pc[t] = "waiting" /\ event[t].kind = "flush" /\ SessionIsFree(key)
    /\ stream[key] # NoStream
    /\ stream' = [stream EXCEPT ![key] = NoStream]
    /\ event' = [event EXCEPT ![t] = [kind |-> "flush", key |-> key, epoch |-> stream[key]]]
    /\ Submit(t, WindowsOf(0, tail))
    /\ UNCHANGED <<gatewayVars, next, learned, timeline, crashes, life>>
-----------------------------------------------------------------------------
(* _process_features *)

\* gather() returns the embeddings of all windows.
Embedded(t) ==
    /\ pc[t] = "embedding"
    /\ Goto(t, "assigning")
    /\ UNCHANGED <<gatewayVars, stream, session, event, windows, next,
                   learned, timeline, crashes, life, before>>

\* A submit() or an assign() raises: the call ends with the exception.
ProcessingFails(t) ==
    /\ pc[t] \in Busy
    /\ Goto(t, "failed")
    /\ LeaveSession(t) /\ Forgets(t)
    /\ UNCHANGED <<gatewayVars, stream, event, windows, next, learned, timeline, crashes, life>>

\* The results are assigned in the order of their start.
X_Unsorted(t) == windows[t] - next[t] + 1
NextWindow(t) == next[t]

AssignWindow(t) ==
    /\ pc[t] = "assigning" /\ next[t] <= windows[t]
    /\ next' = [next EXCEPT ![t] = @ + 1]
    /\ \/ learned' = learned \cup {<<t, NextWindow(t)>>}
       \/ UNCHANGED learned
    /\ UNCHANGED <<gatewayVars, stream, session, pc, event, windows,
                   timeline, crashes, life, before>>

\* timeline.add of all segments, and the answer to the client.
Finish(t) ==
    /\ pc[t] = "assigning" /\ next[t] > windows[t]
    /\ timeline' = timeline \cup {<<t, i>> : i \in 1..windows[t]}
    /\ Goto(t, "done")
    /\ LeaveSession(t) /\ Forgets(t)
    /\ UNCHANGED <<gatewayVars, stream, event, windows, next, learned, crashes, life>>

\* The service dies and starts again with an empty memory.
Crash ==
    /\ crashes < MaxCrashes
    /\ crashes' = crashes + 1
    /\ cursors' = [k \in Keys |-> NoCursor]
    /\ answer' = NoAnswer
    /\ stream' = [k \in Keys |-> NoStream]
    /\ session' = [k \in Keys |-> NoTask]
    /\ before' = [k \in Keys |-> Fresh]
    /\ timeline' = {}
    /\ pc' = [t \in Tasks |-> IF pc[t] \in Busy \cup {"waiting"} THEN "lost" ELSE pc[t]]
    /\ UNCHANGED <<times, reported, event, windows, next, learned, life>>
-----------------------------------------------------------------------------
Init ==
    /\ GatewayInit
    /\ stream = [k \in Keys |-> NoStream]
    /\ session = [k \in Keys |-> NoTask]
    /\ before = [k \in Keys |-> Fresh]
    /\ pc = [t \in Tasks |-> "idle"]
    /\ event = [t \in Tasks |-> NoEvent]
    /\ windows = [t \in Tasks |-> 0]
    /\ next = [t \in Tasks |-> 1]
    /\ learned = {} /\ timeline = {}
    /\ crashes = 0
    /\ life = [t \in Tasks |-> 0]

Arrive(t) ==
    \/ \E e \in Audio : Receive(t, e)
    \/ \E key \in Keys : Receive(t, FlushOf(key))

Enter(t) ==
    \/ IngestRejected(t)
    \/ IngestInvalid(t)
    \/ \E n \in 0..MaxWindows, tail \in {0, 1} : IngestAudio(t, n, tail)
    \/ FlushNothing(t)
    \/ \E tail \in {0, 1} : Flush(t, tail)

Process(t) ==
    \/ Embedded(t)
    \/ AssignWindow(t)
    \/ Finish(t)
    \/ ProcessingFails(t)

Next ==
    \/ \E t \in Tasks : Arrive(t) \/ Enter(t) \/ Process(t)
    \/ Crash

Spec == Init /\ [][Next]_vars
-----------------------------------------------------------------------------
(* Properties *)

PipelineTypeOK ==
    /\ stream \in [Keys -> Epochs \cup {NoStream}]
    /\ session \in [Keys -> Tasks \cup {NoTask}]
    /\ pc \in [Tasks -> PC]
    /\ event \in [Tasks -> Audio \cup Flushed \cup {FlushOf(k) : k \in Keys} \cup {NoEvent}]
    /\ windows \in [Tasks -> 0..(MaxWindows + 1)]
    /\ next \in [Tasks -> 1..(MaxWindows + 2)]
    /\ learned \in SUBSET (Tasks \X (1..(MaxWindows + 1)))
    /\ timeline \in SUBSET (Tasks \X (1..(MaxWindows + 1)))
    /\ crashes \in 0..MaxCrashes
    /\ life \in [Tasks -> 0..MaxCrashes]

\* docs/architecture.md:45: "A duplicate sequence number never triggers a second
\* inference", however its deliveries interleave and whatever became of the
\* first of them, for as long as the service lives.
InferredOnce ==
    \A t, u \in Tasks :
        /\ event[t] # NoEvent /\ event[t].kind = "audio" /\ windows[t] > 0
        /\ event[u] # NoEvent /\ event[u].kind = "audio" /\ windows[u] > 0
        /\ <<event[t].key, event[t].epoch, event[t].seq, life[t]>>
              = <<event[u].key, event[u].epoch, event[u].seq, life[u]>>
        => t = u

\* Nothing overtakes a call that is being processed: it has the session, and
\* until its windows are assigned the cursor and the frontend stand where its
\* packet left them, so neither a later packet, nor a newer epoch, nor a flush
\* has come in between (pipeline.py:48-67).  And nobody else has a session,
\* whichever way the calls before ended: no session stays locked for good.
NothingOvertakes ==
    /\ \A t \in Tasks :
          pc[t] \in Busy =>
              LET e == event[t] IN
              /\ session[e.key] = t
              /\ e.kind = "audio" =>
                    /\ cursors[e.key] = [epoch |-> e.epoch, last_seq |-> e.seq]
                    /\ stream[e.key] = IF e.is_final THEN NoStream ELSE e.epoch
              /\ e.kind = "flush" => stream[e.key] = NoStream
    /\ \A k \in Keys : session[k] # NoTask => pc[session[k]] \in Busy

\* The pipeline as the connections of a session see it: what a call in progress
\* has done shows when it ends.
Places == [t \in Tasks |-> IF pc[t] \in Busy THEN "waiting" ELSE pc[t]]
Arguments == [t \in Tasks |-> IF event[t].kind = "flush" THEN FlushOf(event[t].key)
                              ELSE event[t]]
Standings == [k \in Keys |-> IF session[k] = NoTask THEN Standing(k) ELSE before[k]]

Serial == INSTANCE SerialSessions WITH
             call <- Places, event <- Arguments, standing <- Standings

\* Although a call suspends for its embeddings and for every window, the calls
\* of a session take effect one after the other, and each of them at once.
ImplementsSerial == Serial!Spec

\* Between two restarts the centroids of a session learn its windows in the
\* order of the stream: by epoch, by packet, and within a packet by start.
LearnsInOrder ==
    [][\A t \in Tasks, i \in 1..(MaxWindows + 1) :
          <<t, i>> \in learned' \ learned =>
             \A u \in Tasks, j \in 1..(MaxWindows + 1) :
                <<u, j>> \in learned /\ event[u].key = event[t].key /\ life[u] = life[t]
                => IF u = t
                   THEN j < i
                   ELSE \/ event[u].epoch < event[t].epoch
                        \/ /\ event[u].epoch = event[t].epoch
                           /\ {event[t].kind, event[u].kind} = {"audio"} =>
                                 event[u].seq < event[t].seq]_vars

\* docs/architecture.md:44: "A stale client epoch never mutates audio,
\* centroid, or timeline state": the timeline gets no window of an epoch older
\* than one that was admitted.  The code advances the cursor before the
\* frontend has looked at the packet, and a flush takes whatever stream the
\* frontend still has.
StaleNeverAttributed ==
    [][\A t \in Tasks, i \in 1..(MaxWindows + 1) :
          <<t, i>> \in timeline' \ timeline =>
             event[t].epoch >= cursors[event[t].key].epoch]_vars
=============================================================================
