--------------------------- MODULE SerialSessions ---------------------------
(***************************************************************************)
(* What DiarizationPipeline promises to the connections of a session: its  *)
(* calls take effect one after the other, each of them at one moment, as   *)
(* if no call ever waited for embeddings or for the store.  A packet that  *)
(* is admitted moves the cursor and the frontend's stream, and all of its  *)
(* windows get to the timeline, or none of them.  There is no lock and no  *)
(* suspension here; Pipeline implements this specification.  What the      *)
(* centroids learn is not a part of it: a call that fails midway, or is    *)
(* lost in a restart, leaves in the store what it has learned.             *)
(***************************************************************************)
EXTENDS Integers

CONSTANTS Keys,        \* (tenant_id, session_id) pairs
          Epochs,      \* values of client_epoch
          Seqs,        \* values of seq_no
          Tasks,       \* calls of ingest_audio() and flush_session()
          MaxWindows   \* windows one packet completes

VARIABLES call,      \* where each call is, as its connection sees it
          event,     \* its argument
          standing,  \* the gateway's cursor and the epoch of the stream, per key
          timeline   \* the windows in the timeline

serialVars == <<call, event, standing, timeline>>

NoCursor == [epoch |-> -1, last_seq |-> -1]
NoStream == -1
Fresh == [cursor |-> NoCursor, stream |-> NoStream]

Audio == [kind : {"audio"}, key : Keys, epoch : Epochs, seq : Seqs, is_final : BOOLEAN]
FlushOf(key) == [kind |-> "flush", key |-> key]
-----------------------------------------------------------------------------
Init ==
    /\ call = [t \in Tasks |-> "idle"]
    /\ event = [t \in Tasks |-> [kind |-> "none"]]
    /\ standing = [k \in Keys |-> Fresh]
    /\ timeline = {}

Receive(t) ==
    /\ call[t] = "idle"
    /\ call' = [call EXCEPT ![t] = "waiting"]
    /\ \E e \in Audio \cup {FlushOf(k) : k \in Keys} : event' = [event EXCEPT ![t] = e]
    /\ UNCHANGED <<standing, timeline>>

End(t, place) == /\ call[t] = "waiting"
                 /\ call' = [call EXCEPT ![t] = place]
                 /\ UNCHANGED event

Newer(e, cursor) ==
    \/ cursor = NoCursor
    \/ e.epoch > cursor.epoch
    \/ e.epoch = cursor.epoch /\ e.seq > cursor.last_seq

CursorAt(e) == [epoch |-> e.epoch, last_seq |-> e.seq]

Reject(t) ==
    /\ End(t, "rejected")
    /\ event[t].kind = "audio" /\ ~Newer(event[t], standing[event[t].key].cursor)
    /\ UNCHANGED <<standing, timeline>>

\* The cursor moves, but the frontend refuses the packet.
Malformed(t) ==
    LET e == event[t] IN
    /\ End(t, "failed")
    /\ e.kind = "audio" /\ Newer(e, standing[e.key].cursor)
    /\ standing' = [standing EXCEPT ![e.key].cursor = CursorAt(e)]
    /\ UNCHANGED timeline

\* All windows of a call, or none.
Outcome(t, most) ==
    \/ End(t, "failed") /\ UNCHANGED timeline
    \/ \E n \in 0..most : /\ End(t, "done")
                          /\ timeline' = timeline \cup {<<t, i>> : i \in 1..n}

Ingest(t) ==
    LET e == event[t] IN
    /\ e.kind = "audio" /\ Newer(e, standing[e.key].cursor)
    /\ Outcome(t, IF e.is_final THEN MaxWindows + 1 ELSE MaxWindows)
    /\ standing' = [standing EXCEPT ![e.key] =
                       [cursor |-> CursorAt(e),
                        stream |-> IF e.is_final THEN NoStream ELSE e.epoch]]

Flush(t) ==
    LET e == event[t] IN
    /\ e.kind = "flush"
    /\ Outcome(t, IF standing[e.key].stream = NoStream THEN 0 ELSE 1)
    /\ standing' = [standing EXCEPT ![e.key].stream = NoStream]

\* A restart: nobody is answered, and the memory is empty.
Crash ==
    /\ call' = [t \in Tasks |-> IF call[t] = "waiting" THEN "lost" ELSE call[t]]
    /\ standing' = [k \in Keys |-> Fresh]
    /\ timeline' = {}
    /\ UNCHANGED event

Next ==
    \/ Crash
    \/ \E t \in Tasks : Receive(t) \/ Reject(t) \/ Malformed(t) \/ Ingest(t) \/ Flush(t)

Spec == Init /\ [][Next]_serialVars
=============================================================================
