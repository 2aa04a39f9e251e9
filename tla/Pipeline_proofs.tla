-------------------------- MODULE Pipeline_proofs --------------------------
(***************************************************************************)
(* That calls of one session neither overtake nor repeat one another, and  *)
(* look indivisible, for any number of calls, sessions, packets and        *)
(* restarts.                                                               *)
(*                                                                         *)
(* InferredOnce compares calls that may long be over, so it is not         *)
(* inductive: it needs that the cursor is never behind a call of the       *)
(* current life of the service (BehindCursor), and that a call which still *)
(* waits belongs to that life (CallsFit).  The order of learning needs the *)
(* same of the frontend's stream and of a flush (BehindStream and          *)
(* BehindFlush), because a flush learns windows under the epoch of the     *)
(* stream it took, which the cursor may have left.                         *)
(*                                                                         *)
(* That the calls of a session look indivisible (SessionsAreSerial) needs  *)
(* what a call in progress found when it came in (Pending): its effect is  *)
(* seen when it ends, and must be one that was allowed then.               *)
(***************************************************************************)
EXTENDS Pipeline, TLAPS

Live == Busy \cup {"waiting"}

\* What a call has by the place where it is suspended.
CallsFit ==
    \A t \in Tasks :
        /\ pc[t] = "waiting" => event[t] \in Audio \cup {FlushOf(k) : k \in Keys}
        /\ pc[t] \in {"idle", "waiting"} => windows[t] = 0
        /\ pc[t] \in Busy => windows[t] > 0
        /\ windows[t] > 0 => event[t] \in Audio \cup Flushed
        /\ pc[t] \in Live => life[t] = crashes
        /\ life[t] <= crashes

\* A call learns its windows one after the other.
LearnedSoFar ==
    \A t \in Tasks, i \in 1..(MaxWindows + 1) :
        <<t, i>> \in learned => windows[t] > 0 /\ i < next[t]

\* The lock of a session is held by a call of that session.
OwnSession ==
    \A k \in Keys : session[k] # NoTask => event[session[k]].key = k

\* A call that submitted windows in this life of the service.
Submitted(t) == windows[t] > 0 /\ life[t] = crashes

BehindCursor ==
    \A t \in Tasks :
        Submitted(t) =>
            LET c == cursors[event[t].key] IN
            /\ c # NoCursor
            /\ event[t].epoch <= c.epoch
            /\ event[t].kind = "audio" /\ event[t].epoch = c.epoch
                  => event[t].seq <= c.last_seq

BehindStream ==
    \A k \in Keys :
        stream[k] # NoStream =>
            /\ cursors[k] # NoCursor
            /\ stream[k] <= cursors[k].epoch
            /\ \A t \in Tasks :
                  Submitted(t) /\ event[t].key = k => event[t].epoch <= stream[k]

BehindFlush ==
    \A t, u \in Tasks :
        /\ pc[t] \in Busy /\ event[t].kind = "flush"
        /\ Submitted(u) /\ event[u].key = event[t].key
        => event[u].epoch <= event[t].epoch

CursorsTyped == cursors \in [Keys -> Cursor]

PipelineInv ==
    /\ PipelineTypeOK /\ CursorsTyped
    /\ CallsFit /\ LearnedSoFar /\ OwnSession
    /\ NothingOvertakes
    /\ BehindCursor /\ BehindStream /\ BehindFlush
    /\ InferredOnce
-----------------------------------------------------------------------------
(* Calls and cursors *)

LEMMA AudioFields ==
    ASSUME NEW e \in Audio
    PROVE  /\ e.kind = "audio" /\ e.key \in Keys /\ e # NoEvent
           /\ e.epoch \in Epochs /\ e.epoch \in Nat
           /\ e.seq \in Seqs /\ e.seq \in Nat
<1>1. e.kind = "audio" /\ e.key \in Keys /\ e.epoch \in Epochs /\ e.seq \in Seqs
  BY DEF Audio
<1>2. e # NoEvent
  BY <1>1 DEF NoEvent
<1> QED
  BY <1>1, <1>2, EpochsAssumption, SeqsAssumption

LEMMA FlushedFields ==
    ASSUME NEW e \in Flushed
    PROVE  /\ e.kind = "flush" /\ e.key \in Keys /\ e # NoEvent
           /\ e.epoch \in Epochs /\ e.epoch \in Nat
<1>1. e.kind = "flush" /\ e.key \in Keys /\ e.epoch \in Epochs
  BY DEF Flushed
<1>2. e # NoEvent
  BY <1>1 DEF NoEvent
<1> QED
  BY <1>1, <1>2, EpochsAssumption

\* What a call with windows is about.
LEMMA SubmittedFields ==
    ASSUME PipelineInv, NEW t \in Tasks, windows[t] > 0
    PROVE  /\ event[t].key \in Keys /\ event[t] # NoEvent
           /\ event[t].kind \in {"audio", "flush"}
           /\ event[t].epoch \in Epochs /\ event[t].epoch \in Nat
           /\ event[t].kind = "audio" => event[t].seq \in Seqs /\ event[t].seq \in Nat
<1>1. event[t] \in Audio \cup Flushed
  BY DEF PipelineInv, CallsFit
<1> QED
  BY <1>1, AudioFields, FlushedFields

\* What a waiting call is about: it has no windows yet and belongs to this life.
LEMMA WaitingFields ==
    ASSUME PipelineInv, NEW t \in Tasks, pc[t] = "waiting"
    PROVE  /\ event[t].key \in Keys
           /\ event[t].kind = "audio" => event[t] \in Audio
           /\ windows[t] = 0 /\ life[t] = crashes
<1>1. event[t] \in Audio \cup {FlushOf(k) : k \in Keys}
  BY DEF PipelineInv, CallsFit
<1>2. CASE event[t] \in Audio
  BY <1>2, AudioFields DEF PipelineInv, CallsFit, Live
<1>3. CASE event[t] \in {FlushOf(k) : k \in Keys}
  BY <1>3 DEF PipelineInv, CallsFit, Live, FlushOf
<1> QED
  BY <1>1, <1>2, <1>3

\* Whoever is busy holds the lock of its session, so nobody is where the lock
\* is free.
LEMMA FreeMeansNobody ==
    ASSUME PipelineInv, NEW key \in Keys, SessionIsFree(key),
           NEW u \in Tasks, pc[u] \in Busy
    PROVE  event[u].key # key
BY PipelineAssumption DEF PipelineInv, NothingOvertakes, SessionIsFree

\* An admitted packet is ahead of the cursor, and moves it.
LEMMA AdmissionMoves ==
    ASSUME CursorsTyped, NEW e \in Audio, Admission(e.key, e.epoch, e.seq)
    PROVE  /\ CursorsTyped'
           /\ cursors' = [cursors EXCEPT ![e.key] =
                             [epoch |-> e.epoch, last_seq |-> e.seq]]
           /\ LET c == cursors[e.key] IN
              c # NoCursor =>
                 /\ c.epoch \in Nat /\ c.last_seq \in Nat
                 /\ c.epoch < e.epoch \/ (c.epoch = e.epoch /\ c.last_seq < e.seq)
<1> DEFINE c == cursors[e.key]
<1> USE AudioFields
<1>1. cursors' = [cursors EXCEPT ![e.key] = [epoch |-> e.epoch, last_seq |-> e.seq]]
  BY DEF Admission, AcceptNewStream, AcceptNext, Admit
<1>2. CursorsTyped'
  BY <1>1 DEF CursorsTyped, Cursor
<1>3. ASSUME c # NoCursor
      PROVE  /\ c.epoch \in Nat /\ c.last_seq \in Nat
             /\ c.epoch < e.epoch \/ (c.epoch = e.epoch /\ c.last_seq < e.seq)
  <2>1. c \in [epoch : Epochs, last_seq : Seqs]
    BY <1>3 DEF CursorsTyped, Cursor
  <2>2. c.epoch \in Nat /\ c.last_seq \in Nat
    BY <2>1, EpochsAssumption, SeqsAssumption
  <2> QED
    BY <2>2, <1>3 DEF Admission, AcceptNewStream, AcceptNext, IsNewStream, IsNext,
                      IsStale, IsDuplicate
<1> QED
  BY <1>1, <1>2, <1>3

\* A rejection changes the answer only.
LEMMA RejectionMoves ==
    ASSUME NEW e, Rejection(e.key, e.epoch, e.seq)
    PROVE  cursors' = cursors
BY DEF Rejection, RejectStale, RejectDuplicate
-----------------------------------------------------------------------------
(* Each action preserves the invariant *)

LEMMA ReceiveInv ==
    ASSUME PipelineInv, NEW t \in Tasks,
           NEW e \in Audio \cup {FlushOf(k) : k \in Keys}, Receive(t, e)
    PROVE  PipelineInv'
<1> USE DEF PipelineInv, Receive, Goto, gatewayVars
<1>1. pc[t] = "idle" /\ pc'[t] = "waiting" /\ windows[t] = 0 /\ life'[t] = crashes
  BY DEF PipelineTypeOK, CallsFit
<1>2. \A u \in Tasks : u # t => pc'[u] = pc[u] /\ event'[u] = event[u] /\ life'[u] = life[u]
  BY DEF PipelineTypeOK
<1>3. PipelineTypeOK'
  BY DEF PipelineTypeOK, PC
<1>4. CallsFit'
  BY <1>1, <1>2 DEF CallsFit, Live, Busy, PipelineTypeOK
<1>5. LearnedSoFar' /\ CursorsTyped'
  BY DEF LearnedSoFar, CursorsTyped
<1>6. \A k \in Keys : session[k] # NoTask => session[k] # t /\ session[k] \in Tasks
  BY <1>1 DEF NothingOvertakes, PipelineTypeOK, Busy
<1>7. OwnSession'
  BY <1>2, <1>6 DEF OwnSession
<1>8. NothingOvertakes'
  BY <1>1, <1>2, <1>6 DEF NothingOvertakes, Busy
<1>9. BehindCursor' /\ BehindStream' /\ BehindFlush'
  <2>1. \A u \in Tasks : Submitted(u)' => u # t /\ Submitted(u)
    BY <1>1, <1>2 DEF Submitted
  <2> QED
    BY <2>1, <1>1, <1>2 DEF BehindCursor, BehindStream, BehindFlush, Busy
<1>10. InferredOnce'
  BY <1>1, <1>2 DEF InferredOnce
<1> QED
  BY <1>3, <1>4, <1>5, <1>7, <1>8, <1>9, <1>10

\* A call ends without having had the session, and the cursor stays or moves
\* to its packet.
LEMMA TurnedAway ==
    ASSUME PipelineInv, NEW t \in Tasks, pc[t] = "waiting", SessionIsFree(event[t].key),
           NEW place \in Ended, Goto(t, place),
           UNCHANGED <<stream, session, event, windows, next, learned, timeline,
                       crashes, life>>,
           \/ cursors' = cursors
           \/ event[t].kind = "audio" /\ Admission(event[t].key, event[t].epoch, event[t].seq)
    PROVE  PipelineInv'
<1> USE DEF PipelineInv
<1> DEFINE e == event[t]
<1>1. /\ e.key \in Keys
      /\ e.kind = "audio" => e \in Audio
      /\ windows[t] = 0
  BY WaitingFields
<1>2. pc'[t] = place /\ place \notin Live \cup {"idle"} /\ \A u \in Tasks : u # t => pc'[u] = pc[u]
  BY DEF Goto, PipelineTypeOK, Ended, Live, Busy
<1>3. PipelineTypeOK'
  BY DEF Goto, PipelineTypeOK, PC
<1>4. CallsFit' /\ LearnedSoFar' /\ OwnSession'
  BY <1>2 DEF CallsFit, LearnedSoFar, OwnSession, Live
<1>5. \A k \in Keys : session[k] # NoTask => session[k] # t /\ session[k] \in Tasks
  BY DEF NothingOvertakes, PipelineTypeOK, Busy
<1>6. \A u \in Tasks : Submitted(u)' <=> Submitted(u)
  BY DEF Submitted
<1>7. BehindFlush' /\ InferredOnce'
  BY <1>2, <1>6 DEF BehindFlush, InferredOnce, Live
<1>8. CASE cursors' = cursors
  <2>1. CursorsTyped' /\ BehindCursor' /\ BehindStream'
    BY <1>8, <1>6 DEF CursorsTyped, BehindCursor, BehindStream
  <2>2. NothingOvertakes'
    BY <1>8, <1>2, <1>5 DEF NothingOvertakes, Live
  <2> QED
    BY <2>1, <2>2, <1>3, <1>4, <1>7
<1>9. CASE e.kind = "audio" /\ Admission(e.key, e.epoch, e.seq)
  <2>1. /\ CursorsTyped'
        /\ cursors' = [cursors EXCEPT ![e.key] = [epoch |-> e.epoch, last_seq |-> e.seq]]
        /\ cursors[e.key] # NoCursor =>
              /\ cursors[e.key].epoch \in Nat /\ cursors[e.key].last_seq \in Nat
              /\ \/ cursors[e.key].epoch < e.epoch
                 \/ cursors[e.key].epoch = e.epoch /\ cursors[e.key].last_seq < e.seq
        /\ e.epoch \in Nat /\ e.seq \in Nat
    <3>1. e \in Audio /\ CursorsTyped
      BY <1>1, <1>9
    <3> HIDE DEF PipelineInv, e
    <3> QED
      BY <3>1, <1>9, AdmissionMoves, AudioFields
  <2>2. /\ cursors'[e.key] = [epoch |-> e.epoch, last_seq |-> e.seq]
        /\ cursors'[e.key] # NoCursor
        /\ cursors'[e.key].epoch = e.epoch /\ cursors'[e.key].last_seq = e.seq
        /\ \A k \in Keys : k # e.key => cursors'[k] = cursors[k]
    BY <1>1, <2>1 DEF CursorsTyped, NoCursor
  <2>3. BehindCursor'
    <3> SUFFICES ASSUME NEW u \in Tasks, Submitted(u)
                 PROVE  LET c == cursors'[event[u].key] IN
                        /\ c # NoCursor
                        /\ event[u].epoch <= c.epoch
                        /\ event[u].kind = "audio" /\ event[u].epoch = c.epoch
                              => event[u].seq <= c.last_seq
      BY <1>6 DEF BehindCursor
    <3>1. event[u].key \in Keys /\ event[u].epoch \in Nat
          /\ (event[u].kind = "audio" => event[u].seq \in Nat)
      BY SubmittedFields DEF Submitted
    <3>2. LET c == cursors[event[u].key] IN
          /\ c # NoCursor
          /\ event[u].epoch <= c.epoch
          /\ event[u].kind = "audio" /\ event[u].epoch = c.epoch
                => event[u].seq <= c.last_seq
      BY DEF BehindCursor
    <3>3. CASE event[u].key # e.key
      BY <3>1, <3>2, <3>3, <2>2
    <3>4. CASE event[u].key = e.key
      BY <3>1, <3>2, <3>4, <2>1, <2>2
    <3> QED
      BY <3>3, <3>4
  <2>4. BehindStream'
    <3> SUFFICES ASSUME NEW k \in Keys, stream[k] # NoStream
                 PROVE  cursors'[k] # NoCursor /\ stream[k] <= cursors'[k].epoch
      BY <1>6 DEF BehindStream
    <3>1. cursors[k] # NoCursor /\ stream[k] <= cursors[k].epoch /\ stream[k] \in Nat
      BY EpochsAssumption DEF BehindStream, PipelineTypeOK
    <3> QED
      BY <3>1, <2>1, <2>2
  <2>5. NothingOvertakes'
    <3>1. \A u \in Tasks : pc'[u] \in Busy =>
             /\ pc[u] \in Busy /\ event[u].key \in Keys
             /\ cursors'[event[u].key] = cursors[event[u].key]
      <4> SUFFICES ASSUME NEW u \in Tasks, pc'[u] \in Busy
                   PROVE  /\ pc[u] \in Busy /\ event[u].key \in Keys
                          /\ cursors'[event[u].key] = cursors[event[u].key]
        OBVIOUS
      <4>1. pc[u] \in Busy /\ windows[u] > 0
        BY <1>2 DEF Live, CallsFit
      <4>2. event[u].key \in Keys /\ event[u].key # e.key
        BY <4>1, <1>1, SubmittedFields, FreeMeansNobody
      <4> QED
        BY <4>1, <4>2, <2>2
    <3> QED
      BY <3>1, <1>2, <1>5 DEF NothingOvertakes, Live
  <2> QED
    BY <2>1, <2>3, <2>4, <2>5, <1>3, <1>4, <1>7
<1> QED
  BY <1>8, <1>9

\* Which calls have windows once t has submitted n of them.
LEMMA Submits ==
    ASSUME PipelineInv, NEW t \in Tasks, pc[t] = "waiting", NEW n \in 0..(MaxWindows + 1),
           Submit(t, n), event'[t].key = event[t].key
    PROVE  /\ windows'[t] = n
           /\ \A u \in Tasks : u # t => pc'[u] = pc[u] /\ windows'[u] = windows[u]
           /\ n = 0 => pc'[t] = "done" /\ windows' = windows /\ session' = session
           /\ n > 0 => pc'[t] = "embedding" /\ session' = [session EXCEPT ![event[t].key] = t]
           /\ windows' \in [Tasks -> 0..(MaxWindows + 1)]
           /\ pc' \in [Tasks -> PC]
           /\ session' \in [Keys -> Tasks \cup {NoTask}]
<1>1. windows[t] = 0 /\ event[t].key \in Keys
  BY WaitingFields
<1>2. windows' = [windows EXCEPT ![t] = n] /\ windows \in [Tasks -> 0..(MaxWindows + 1)]
  BY DEF Submit, PipelineInv, PipelineTypeOK
<1>3. n = 0 => windows' = windows
  BY <1>1, <1>2
<1>4. n # 0 <=> n > 0
  OBVIOUS
<1> QED
  BY <1>1, <1>2, <1>3, <1>4
     DEF Submit, Goto, TakeSession, PipelineInv, PipelineTypeOK, PC, Busy, Ended

LEMMA IngestAudioInv ==
    ASSUME PipelineInv, NEW t \in Tasks, NEW n \in 0..MaxWindows, NEW tail \in {0, 1},
           IngestAudio(t, n, tail)
    PROVE  PipelineInv'
<1> DEFINE e == event[t]
           w == WindowsOf(n, tail)
<1>1. /\ pc[t] = "waiting" /\ e.kind = "audio" /\ SessionIsFree(e.key)
      /\ Admission(e.key, e.epoch, e.seq)
      /\ stream' = [stream EXCEPT ![e.key] = IF e.is_final THEN NoStream ELSE e.epoch]
      /\ Submit(t, w)
      /\ UNCHANGED <<event, next, learned, timeline, crashes, life>>
  BY DEF IngestAudio
<1>2. w \in 0..(MaxWindows + 1)
  BY PipelineAssumption DEF WindowsOf
<1>3. e \in Audio /\ e.key \in Keys /\ windows[t] = 0 /\ life[t] = crashes
  BY <1>1, WaitingFields
<1>4. e.kind = "audio" /\ e # NoEvent /\ e.epoch \in Epochs /\ e.epoch \in Nat /\ e.seq \in Nat
  BY <1>3, AudioFields
<1> HIDE DEF w
<1>5. /\ windows'[t] = w
      /\ \A u \in Tasks : u # t => pc'[u] = pc[u] /\ windows'[u] = windows[u]
      /\ w = 0 => pc'[t] = "done" /\ windows' = windows /\ session' = session
      /\ w > 0 => pc'[t] = "embedding" /\ session' = [session EXCEPT ![e.key] = t]
      /\ windows' \in [Tasks -> 0..(MaxWindows + 1)]
      /\ pc' \in [Tasks -> PC]
      /\ session' \in [Keys -> Tasks \cup {NoTask}]
  BY <1>1, <1>2, Submits
<1>6. /\ CursorsTyped'
      /\ cursors' = [cursors EXCEPT ![e.key] = [epoch |-> e.epoch, last_seq |-> e.seq]]
      /\ cursors[e.key] # NoCursor =>
            /\ cursors[e.key].epoch \in Nat /\ cursors[e.key].last_seq \in Nat
            /\ \/ cursors[e.key].epoch < e.epoch
               \/ cursors[e.key].epoch = e.epoch /\ cursors[e.key].last_seq < e.seq
  <2>1. CursorsTyped
    BY DEF PipelineInv
  <2> HIDE DEF e
  <2> QED
    BY <2>1, <1>1, <1>3, AdmissionMoves
<1>7. /\ cursors'[e.key] = [epoch |-> e.epoch, last_seq |-> e.seq]
      /\ cursors'[e.key] # NoCursor
      /\ cursors'[e.key].epoch = e.epoch /\ cursors'[e.key].last_seq = e.seq
      /\ \A k \in Keys : k # e.key => cursors'[k] = cursors[k] /\ stream'[k] = stream[k]
      /\ stream'[e.key] = IF e.is_final THEN NoStream ELSE e.epoch
      /\ stream' \in [Keys -> Epochs \cup {NoStream}]
  BY <1>1, <1>3, <1>4, <1>6 DEF PipelineInv, PipelineTypeOK, CursorsTyped, NoCursor
\* Whatever was submitted before in this life is behind the packet.
<1>8. \A u \in Tasks :
         Submitted(u) /\ event[u].key = e.key =>
            /\ event[u].epoch \in Nat /\ event[u].epoch <= e.epoch
            /\ event[u].kind = "audio" /\ event[u].epoch = e.epoch
                  => event[u].seq \in Nat /\ event[u].seq < e.seq
  <2> SUFFICES ASSUME NEW u \in Tasks, Submitted(u), event[u].key = e.key
               PROVE  /\ event[u].epoch \in Nat /\ event[u].epoch <= e.epoch
                      /\ event[u].kind = "audio" /\ event[u].epoch = e.epoch
                            => event[u].seq \in Nat /\ event[u].seq < e.seq
    OBVIOUS
  <2>1. event[u].epoch \in Nat /\ (event[u].kind = "audio" => event[u].seq \in Nat)
    BY SubmittedFields DEF Submitted
  <2>2. /\ cursors[e.key] # NoCursor
        /\ event[u].epoch <= cursors[e.key].epoch
        /\ event[u].kind = "audio" /\ event[u].epoch = cursors[e.key].epoch
              => event[u].seq <= cursors[e.key].last_seq
    BY DEF PipelineInv, BehindCursor
  <2> QED
    BY <2>1, <2>2, <1>4, <1>6
<1>9. \A u \in Tasks : u # t => (Submitted(u)' <=> Submitted(u))
  BY <1>1, <1>5 DEF Submitted
<1>10. PipelineTypeOK'
  BY <1>1, <1>5, <1>7 DEF PipelineInv, PipelineTypeOK
<1>11. CallsFit'
  <2>1. \A u \in Tasks : u # t =>
           /\ pc'[u] = pc[u] /\ windows'[u] = windows[u] /\ event'[u] = event[u]
           /\ life'[u] = life[u]
    BY <1>1, <1>5
  <2>2. w \in Nat /\ (w = 0 \/ w > 0)
    BY <1>2
  <2> QED
    BY <2>1, <2>2, <1>1, <1>3, <1>5 DEF PipelineInv, CallsFit, Live, Busy
<1>12. LearnedSoFar'
  BY <1>1, <1>3, <1>5 DEF PipelineInv, LearnedSoFar
<1>13. OwnSession'
  <2>1. CASE w = 0
    BY <2>1, <1>1, <1>5 DEF PipelineInv, OwnSession
  <2>2. CASE w > 0
    BY <2>2, <1>1, <1>3, <1>5 DEF PipelineInv, OwnSession, PipelineTypeOK
  <2> QED
    BY <2>1, <2>2, <1>2
<1>14. NothingOvertakes'
  <2>1. \A u \in Tasks : u # t /\ pc'[u] \in Busy =>
           /\ pc[u] \in Busy
           /\ event[u].key \in Keys /\ event[u].key # e.key
           /\ cursors'[event[u].key] = cursors[event[u].key]
           /\ stream'[event[u].key] = stream[event[u].key]
           /\ session'[event[u].key] = session[event[u].key]
    <3> SUFFICES ASSUME NEW u \in Tasks, u # t, pc'[u] \in Busy
                 PROVE  /\ pc[u] \in Busy
                        /\ event[u].key \in Keys /\ event[u].key # e.key
                        /\ cursors'[event[u].key] = cursors[event[u].key]
                        /\ stream'[event[u].key] = stream[event[u].key]
                        /\ session'[event[u].key] = session[event[u].key]
      OBVIOUS
    <3>1. pc[u] \in Busy /\ windows[u] > 0
      BY <1>5 DEF PipelineInv, CallsFit
    <3>2. event[u].key \in Keys /\ event[u].key # e.key
      BY <3>1, <1>1, <1>3, SubmittedFields, FreeMeansNobody
    <3>3. w = 0 \/ w > 0
      BY <1>2
    <3>4. session'[event[u].key] = session[event[u].key]
      BY <3>2, <3>3, <1>5 DEF PipelineInv, PipelineTypeOK
    <3> QED
      BY <3>1, <3>2, <3>4, <1>7
  <2>2. pc'[t] \in Busy => w > 0 /\ session'[e.key] = t
    <3>1. w = 0 \/ w > 0
      BY <1>2
    <3>2. w = 0 => pc'[t] \notin Busy
      BY <1>5 DEF Busy
    <3>3. w > 0 => session'[e.key] = t
      BY <1>3, <1>5 DEF PipelineInv, PipelineTypeOK
    <3> QED
      BY <3>1, <3>2, <3>3
  <2>3. \A k \in Keys : session'[k] # NoTask => pc'[session'[k]] \in Busy
    <3> SUFFICES ASSUME NEW k \in Keys, session'[k] # NoTask
                 PROVE  pc'[session'[k]] \in Busy
      OBVIOUS
    <3>1. CASE w > 0 /\ k = e.key
      BY <3>1, <1>5 DEF PipelineInv, PipelineTypeOK, Busy
    <3>2. CASE w = 0 \/ k # e.key
      <4>1. session'[k] = session[k]
        BY <3>2, <1>2, <1>5 DEF PipelineInv, PipelineTypeOK
      <4>2. session[k] \in Tasks /\ pc[session[k]] \in Busy
        BY <4>1 DEF PipelineInv, PipelineTypeOK, NothingOvertakes
      <4>3. session[k] # t
        BY <4>2, <1>1 DEF Busy
      <4> QED
        BY <4>1, <4>2, <4>3, <1>5
    <3> QED
      BY <3>1, <3>2, <1>2
  <2>4. \A u \in Tasks : u # t /\ pc'[u] \in Busy =>
           LET f == event[u] IN
           /\ session'[f.key] = u
           /\ f.kind = "audio" =>
                 /\ cursors'[f.key] = [epoch |-> f.epoch, last_seq |-> f.seq]
                 /\ stream'[f.key] = IF f.is_final THEN NoStream ELSE f.epoch
           /\ f.kind = "flush" => stream'[f.key] = NoStream
    BY <2>1 DEF PipelineInv, NothingOvertakes
  <2> QED
    BY <2>2, <2>3, <2>4, <1>1, <1>4, <1>7 DEF NothingOvertakes
<1>15. BehindCursor'
  <2> SUFFICES ASSUME NEW u \in Tasks, Submitted(u)'
               PROVE  LET c == cursors'[event[u].key] IN
                      /\ c # NoCursor
                      /\ event[u].epoch <= c.epoch
                      /\ event[u].kind = "audio" /\ event[u].epoch = c.epoch
                            => event[u].seq <= c.last_seq
    BY <1>1 DEF BehindCursor
  <2>1. CASE u = t
    BY <2>1, <1>4, <1>7
  <2>2. CASE u # t /\ event[u].key = e.key
    BY <2>2, <1>4, <1>7, <1>8, <1>9
  <2>3. CASE u # t /\ event[u].key # e.key
    <3>1. event[u].key \in Keys /\ Submitted(u)
      BY <2>3, <1>9, SubmittedFields DEF Submitted
    <3> QED
      BY <2>3, <3>1, <1>7 DEF PipelineInv, BehindCursor
  <2> QED
    BY <2>1, <2>2, <2>3
<1>16. BehindStream'
  <2> SUFFICES ASSUME NEW k \in Keys, stream'[k] # NoStream
               PROVE  /\ cursors'[k] # NoCursor
                      /\ stream'[k] <= cursors'[k].epoch
                      /\ \A u \in Tasks :
                            Submitted(u)' /\ event[u].key = k => event[u].epoch <= stream'[k]
    BY <1>1 DEF BehindStream
  <2>1. CASE k = e.key
    BY <2>1, <1>4, <1>7, <1>8, <1>9
  <2>2. CASE k # e.key
    BY <2>2, <1>7, <1>9 DEF PipelineInv, BehindStream
  <2> QED
    BY <2>1, <2>2
<1>17. BehindFlush'
  <2> SUFFICES ASSUME NEW u \in Tasks, NEW v \in Tasks,
                      pc'[u] \in Busy, event[u].kind = "flush",
                      Submitted(v)', event[v].key = event[u].key
               PROVE  event[v].epoch <= event[u].epoch
    BY <1>1 DEF BehindFlush
  <2>1. u # t /\ pc[u] \in Busy
    BY <1>1, <1>5
  <2>2. event[u].key # e.key
    BY <2>1, <1>1, <1>3, FreeMeansNobody
  <2>3. v # t /\ Submitted(v)
    BY <2>2, <1>9
  <2> QED
    BY <2>1, <2>3 DEF PipelineInv, BehindFlush
<1>18. InferredOnce'
  <2> SUFFICES ASSUME NEW u \in Tasks, NEW v \in Tasks, u # v,
                      event[u].kind = "audio", windows'[u] > 0, event[u] # NoEvent,
                      event[v].kind = "audio", windows'[v] > 0, event[v] # NoEvent,
                      event[u].key = event[v].key, event[u].epoch = event[v].epoch,
                      event[u].seq = event[v].seq, life[u] = life[v]
               PROVE  FALSE
    BY <1>1 DEF InferredOnce
  <2>1. CASE u # t /\ v # t
    BY <2>1, <1>5 DEF PipelineInv, InferredOnce
  <2>2. CASE u = t
    <3>1. Submitted(v)
      BY <2>2, <1>3, <1>5 DEF Submitted
    <3> QED
      BY <2>2, <3>1, <1>4, <1>8
  <2>3. CASE v = t
    <3>1. Submitted(u)
      BY <2>3, <1>3, <1>5 DEF Submitted
    <3> QED
      BY <2>3, <3>1, <1>4, <1>8
  <2> QED
    BY <2>1, <2>2, <2>3
<1> QED
  BY <1>6, <1>10, <1>11, <1>12, <1>13, <1>14, <1>15, <1>16, <1>17, <1>18 DEF PipelineInv

LEMMA FlushInv ==
    ASSUME PipelineInv, NEW t \in Tasks, NEW tail \in {0, 1}, Flush(t, tail)
    PROVE  PipelineInv'
<1> DEFINE key == event[t].key
           w == WindowsOf(0, tail)
           e == [kind |-> "flush", key |-> key, epoch |-> stream[key]]
<1>1. /\ pc[t] = "waiting" /\ SessionIsFree(key) /\ stream[key] # NoStream
      /\ stream' = [stream EXCEPT ![key] = NoStream]
      /\ event' = [event EXCEPT ![t] = e]
      /\ Submit(t, w)
      /\ UNCHANGED <<cursors, next, learned, timeline, crashes, life>>
  BY DEF Flush, gatewayVars
<1>2. w \in 0..(MaxWindows + 1)
  BY PipelineAssumption DEF WindowsOf
<1>3. key \in Keys /\ windows[t] = 0 /\ life[t] = crashes
  BY <1>1, WaitingFields
<1>4. stream[key] \in Epochs /\ stream[key] \in Nat /\ e \in Flushed
  BY <1>1, <1>3, EpochsAssumption DEF PipelineInv, PipelineTypeOK, Flushed
<1>5. /\ event'[t] = e /\ event'[t].key = key
      /\ \A u \in Tasks : u # t => event'[u] = event[u]
  BY <1>1 DEF PipelineInv, PipelineTypeOK
<1> HIDE DEF w
<1>6. /\ windows'[t] = w
      /\ \A u \in Tasks : u # t => pc'[u] = pc[u] /\ windows'[u] = windows[u]
      /\ w = 0 => pc'[t] = "done" /\ windows' = windows /\ session' = session
      /\ w > 0 => pc'[t] = "embedding" /\ session' = [session EXCEPT ![key] = t]
      /\ windows' \in [Tasks -> 0..(MaxWindows + 1)]
      /\ pc' \in [Tasks -> PC]
      /\ session' \in [Keys -> Tasks \cup {NoTask}]
  BY <1>1, <1>2, <1>5, Submits
<1>7. /\ stream'[key] = NoStream
      /\ \A k \in Keys : k # key => stream'[k] = stream[k]
      /\ stream' \in [Keys -> Epochs \cup {NoStream}]
  BY <1>1, <1>3 DEF PipelineInv, PipelineTypeOK
<1>8. /\ cursors[key] # NoCursor /\ stream[key] <= cursors[key].epoch
      /\ \A u \in Tasks :
            Submitted(u) /\ event[u].key = key => event[u].epoch <= stream[key]
  BY <1>1, <1>3 DEF PipelineInv, BehindStream
<1>9. \A u \in Tasks : u # t => (Submitted(u)' <=> Submitted(u))
  BY <1>1, <1>6 DEF Submitted
<1>10. e.kind = "flush" /\ e.key = key /\ e.epoch = stream[key] /\ e # NoEvent
  BY <1>4, FlushedFields
<1> HIDE DEF e
<1>11. PipelineTypeOK' /\ CursorsTyped'
  <2>1. event' \in [Tasks -> Audio \cup Flushed \cup {FlushOf(k) : k \in Keys} \cup {NoEvent}]
    BY <1>1, <1>4 DEF PipelineInv, PipelineTypeOK
  <2> QED
    BY <2>1, <1>1, <1>6, <1>7 DEF PipelineInv, PipelineTypeOK, CursorsTyped
<1>12. CallsFit' /\ LearnedSoFar'
  <2>1. \A u \in Tasks : u # t =>
           /\ pc'[u] = pc[u] /\ windows'[u] = windows[u] /\ event'[u] = event[u]
           /\ life'[u] = life[u]
    BY <1>1, <1>5, <1>6
  <2>2. w \in Nat /\ (w = 0 \/ w > 0)
    BY <1>2
  <2>3. CallsFit'
    BY <2>1, <2>2, <1>1, <1>3, <1>4, <1>5, <1>6 DEF PipelineInv, CallsFit, Live, Busy
  <2>4. LearnedSoFar'
    BY <1>1, <1>3, <1>6 DEF PipelineInv, LearnedSoFar
  <2> QED
    BY <2>3, <2>4
\* Of the locks only that of the flushed session may change hands.
<1>13. ASSUME NEW k \in Keys
       PROVE  \/ k = key /\ session'[k] = t /\ w > 0 /\ pc'[t] \in Busy
              \/ /\ session'[k] = session[k] /\ session[k] # t
                 /\ session[k] # NoTask => session[k] \in Tasks /\ pc[session[k]] \in Busy
                 /\ k = key /\ w > 0 => FALSE
  <2>1. session[k] # NoTask => session[k] \in Tasks /\ pc[session[k]] \in Busy
    BY DEF PipelineInv, PipelineTypeOK, NothingOvertakes
  <2>2. session[k] # t
    BY <2>1, <1>1, PipelineAssumption DEF Busy
  <2>3. CASE w > 0 /\ k = key
    BY <2>3, <1>6 DEF PipelineInv, PipelineTypeOK, Busy
  <2>4. CASE w = 0
    BY <2>1, <2>2, <2>4, <1>6
  <2>5. CASE w > 0 /\ k # key
    BY <2>1, <2>2, <2>5, <1>6 DEF PipelineInv, PipelineTypeOK
  <2> QED
    BY <2>3, <2>4, <2>5, <1>2
<1>14. OwnSession'
  <2> SUFFICES ASSUME NEW k \in Keys, session'[k] # NoTask
               PROVE  event'[session'[k]].key = k
    BY DEF OwnSession
  <2> QED
    BY <1>13, <1>5 DEF PipelineInv, OwnSession
\* The other calls are of other sessions, where nothing has changed.
<1>15. ASSUME NEW u \in Tasks, u # t, pc'[u] \in Busy
       PROVE  /\ pc[u] \in Busy /\ windows[u] > 0 /\ event'[u] = event[u]
              /\ event[u].key \in Keys /\ event[u].key # key
  <2>1. pc[u] \in Busy /\ windows[u] > 0 /\ event'[u] = event[u]
    BY <1>15, <1>5, <1>6 DEF PipelineInv, CallsFit
  <2> QED
    BY <2>1, <1>1, <1>3, SubmittedFields, FreeMeansNobody
<1>16. NothingOvertakes'
  <2>1. \A k \in Keys : session'[k] # NoTask => pc'[session'[k]] \in Busy
    BY <1>6, <1>13
  <2>2. ASSUME NEW u \in Tasks, pc'[u] \in Busy
        PROVE  LET f == event'[u] IN
               /\ session'[f.key] = u
               /\ f.kind = "audio" =>
                     /\ cursors'[f.key] = [epoch |-> f.epoch, last_seq |-> f.seq]
                     /\ stream'[f.key] = IF f.is_final THEN NoStream ELSE f.epoch
               /\ f.kind = "flush" => stream'[f.key] = NoStream
    <3>1. CASE u = t
      <4>1. w > 0
        BY <2>2, <3>1, <1>2, <1>6 DEF Busy
      <4>2. session'[key] = t
        BY <4>1, <1>3, <1>13
      <4> QED
        BY <3>1, <4>2, <1>5, <1>7, <1>10
    <3>2. CASE u # t
      <4>1. /\ pc[u] \in Busy /\ windows[u] > 0 /\ event'[u] = event[u]
            /\ event[u].key \in Keys /\ event[u].key # key
        BY <2>2, <3>2, <1>15
      <4>2. session'[event[u].key] = session[event[u].key]
        BY <4>1, <1>13
      <4>3. stream'[event[u].key] = stream[event[u].key]
        BY <4>1, <1>7
      <4> QED
        BY <4>1, <4>2, <4>3, <1>1 DEF PipelineInv, NothingOvertakes
    <3> QED
      BY <3>1, <3>2
  <2> QED
    BY <2>1, <2>2 DEF NothingOvertakes
<1>17. BehindCursor'
  <2> SUFFICES ASSUME NEW u \in Tasks, Submitted(u)'
               PROVE  LET c == cursors[event'[u].key] IN
                      /\ c # NoCursor
                      /\ event'[u].epoch <= c.epoch
                      /\ event'[u].kind = "audio" /\ event'[u].epoch = c.epoch
                            => event'[u].seq <= c.last_seq
    BY <1>1 DEF BehindCursor
  <2>1. CASE u = t
    BY <2>1, <1>5, <1>8, <1>10
  <2>2. CASE u # t
    BY <2>2, <1>5, <1>9 DEF PipelineInv, BehindCursor
  <2> QED
    BY <2>1, <2>2
<1>18. BehindStream'
  <2> SUFFICES ASSUME NEW k \in Keys, stream'[k] # NoStream
               PROVE  /\ cursors[k] # NoCursor
                      /\ stream'[k] <= cursors[k].epoch
                      /\ \A u \in Tasks :
                            Submitted(u)' /\ event'[u].key = k => event'[u].epoch <= stream'[k]
    BY <1>1 DEF BehindStream
  <2>1. k # key /\ stream'[k] = stream[k]
    BY <1>7
  <2>2. \A u \in Tasks : event'[u].key = k => u # t /\ event'[u] = event[u]
    BY <2>1, <1>5
  <2> QED
    BY <2>1, <2>2, <1>9 DEF PipelineInv, BehindStream
<1>19. BehindFlush'
  <2> SUFFICES ASSUME NEW u \in Tasks, NEW v \in Tasks,
                      pc'[u] \in Busy, event'[u].kind = "flush",
                      Submitted(v)', event'[v].key = event'[u].key
               PROVE  event'[v].epoch <= event'[u].epoch
    BY DEF BehindFlush
  <2>1. CASE u = t
    BY <2>1, <1>4, <1>5, <1>8, <1>9, <1>10
  <2>2. CASE u # t
    <3>1. pc[u] \in Busy /\ event'[u] = event[u] /\ event[u].key # key
      BY <2>2, <1>15
    <3>2. v # t /\ event'[v] = event[v] /\ Submitted(v)
      BY <3>1, <1>5, <1>9
    <3> QED
      BY <3>1, <3>2 DEF PipelineInv, BehindFlush
  <2> QED
    BY <2>1, <2>2
<1>20. InferredOnce'
  <2>1. event'[t].kind = "flush"
    BY <1>5, <1>10
  <2> QED
    BY <2>1, <1>1, <1>5, <1>6 DEF PipelineInv, InferredOnce
<1> QED
  BY <1>11, <1>12, <1>14, <1>16, <1>17, <1>18, <1>19, <1>20 DEF PipelineInv

\* A step of a call that has the session, and keeps it.
LEMMA EmbeddedInv ==
    ASSUME PipelineInv, NEW t \in Tasks, Embedded(t)
    PROVE  PipelineInv'
<1> USE DEF PipelineInv
<1>1. /\ pc[t] = "embedding" /\ pc' = [pc EXCEPT ![t] = "assigning"]
      /\ UNCHANGED <<cursors, stream, session, event, windows, next, learned, timeline,
                     crashes, life>>
  BY DEF Embedded, Goto, gatewayVars
<1>2. \A u \in Tasks : /\ pc'[u] \in Busy <=> pc[u] \in Busy
                       /\ pc'[u] \in {"idle", "waiting"} <=> pc[u] \in {"idle", "waiting"}
                       /\ pc'[u] = "waiting" <=> pc[u] = "waiting"
  BY <1>1 DEF PipelineTypeOK, Busy
<1>3. PipelineTypeOK' /\ CursorsTyped'
  BY <1>1 DEF PipelineTypeOK, CursorsTyped, PC, Busy
<1>4. CallsFit' /\ LearnedSoFar' /\ OwnSession'
  BY <1>1, <1>2 DEF CallsFit, LearnedSoFar, OwnSession, Live
<1>5. NothingOvertakes'
  BY <1>1, <1>2, PipelineAssumption DEF NothingOvertakes, PipelineTypeOK
<1>6. BehindCursor' /\ BehindStream' /\ BehindFlush' /\ InferredOnce'
  BY <1>1, <1>2 DEF BehindCursor, BehindStream, BehindFlush, InferredOnce, Submitted
<1> QED
  BY <1>3, <1>4, <1>5, <1>6

LEMMA AssignWindowInv ==
    ASSUME PipelineInv, NEW t \in Tasks, AssignWindow(t)
    PROVE  PipelineInv'
<1> USE DEF PipelineInv
<1>1. /\ pc[t] = "assigning" /\ next[t] <= windows[t]
      /\ next' = [next EXCEPT ![t] = @ + 1]
      /\ learned' = learned \cup {<<t, next[t]>>} \/ learned' = learned
      /\ UNCHANGED <<cursors, stream, session, pc, event, windows, timeline, crashes, life>>
  BY DEF AssignWindow, gatewayVars, NextWindow
<1>2. next[t] \in 1..(MaxWindows + 1) /\ next[t] + 1 \in 1..(MaxWindows + 2) /\ windows[t] > 0
  BY <1>1, PipelineAssumption DEF PipelineTypeOK
<1>3. PipelineTypeOK' /\ CursorsTyped'
  BY <1>1, <1>2 DEF PipelineTypeOK, CursorsTyped
<1>4. LearnedSoFar'
  <2> SUFFICES ASSUME NEW u \in Tasks, NEW i \in 1..(MaxWindows + 1), <<u, i>> \in learned'
               PROVE  windows[u] > 0 /\ i < next'[u]
    BY <1>1 DEF LearnedSoFar
  <2>1. next[u] \in Nat /\ next'[u] = IF u = t THEN next[u] + 1 ELSE next[u]
    BY <1>1, PipelineAssumption DEF PipelineTypeOK
  <2>2. CASE <<u, i>> \in learned
    BY <2>1, <2>2 DEF LearnedSoFar
  <2>3. CASE u = t /\ i = next[t]
    BY <2>1, <2>3, <1>2
  <2> QED
    BY <2>2, <2>3, <1>1
<1>5. CallsFit' /\ OwnSession' /\ NothingOvertakes'
  BY <1>1 DEF CallsFit, OwnSession, NothingOvertakes
<1>6. BehindCursor' /\ BehindStream' /\ BehindFlush' /\ InferredOnce'
  BY <1>1 DEF BehindCursor, BehindStream, BehindFlush, InferredOnce, Submitted
<1> QED
  BY <1>3, <1>4, <1>5, <1>6

\* A call ends and gives its session back, whether it failed or not.
LEMMA LeavesInv ==
    ASSUME PipelineInv, NEW t \in Tasks, pc[t] \in Busy, NEW place \in Ended,
           Goto(t, place), LeaveSession(t),
           timeline' \in SUBSET (Tasks \X (1..(MaxWindows + 1))),
           UNCHANGED <<cursors, stream, event, windows, next, learned, crashes, life>>
    PROVE  PipelineInv'
<1> USE DEF PipelineInv
<1> DEFINE key == event[t].key
<1>1. key \in Keys /\ session[key] = t
  BY SubmittedFields DEF CallsFit, NothingOvertakes
<1>2. /\ \A u \in Tasks : u # t => pc'[u] = pc[u]
      /\ pc'[t] \in Ended /\ pc'[t] \notin Live \cup {"idle"}
      /\ session'[key] = NoTask
      /\ \A k \in Keys : k # key => session'[k] = session[k]
  BY <1>1 DEF Goto, LeaveSession, PipelineTypeOK, Ended, Live, Busy
<1>3. PipelineTypeOK' /\ CursorsTyped'
  BY <1>1 DEF PipelineTypeOK, CursorsTyped, Goto, LeaveSession, PC
<1>4. CallsFit' /\ LearnedSoFar'
  BY <1>2 DEF CallsFit, LearnedSoFar, Live
<1>5. OwnSession'
  BY <1>2 DEF OwnSession
<1>6. NothingOvertakes'
  <2>1. \A u \in Tasks : pc'[u] \in Busy =>
           /\ u # t /\ pc[u] \in Busy
           /\ event[u].key \in Keys /\ event[u].key # key
           /\ session'[event[u].key] = u
    <3> SUFFICES ASSUME NEW u \in Tasks, pc'[u] \in Busy
                 PROVE  /\ u # t /\ pc[u] \in Busy
                        /\ event[u].key \in Keys /\ event[u].key # key
                        /\ session'[event[u].key] = u
      OBVIOUS
    <3>1. u # t /\ pc[u] \in Busy
      BY <1>2 DEF Live
    <3>2. session[event[u].key] = u /\ event[u].key \in Keys
      BY <3>1, SubmittedFields DEF NothingOvertakes, CallsFit
    <3> QED
      BY <3>1, <3>2, <1>1, <1>2
  <2>2. \A k \in Keys : session'[k] # NoTask =>
           session'[k] = session[k] /\ session[k] \in Tasks /\ session[k] # t
    BY <1>2 DEF PipelineTypeOK, OwnSession
  <2> QED
    BY <2>1, <2>2, <1>2 DEF NothingOvertakes
<1>7. BehindCursor' /\ BehindStream' /\ BehindFlush' /\ InferredOnce'
  BY <1>2 DEF BehindCursor, BehindStream, BehindFlush, InferredOnce, Submitted, Live
<1> QED
  BY <1>3, <1>4, <1>5, <1>6, <1>7

\* After a restart nothing was submitted in the new life.
LEMMA CrashInv ==
    ASSUME PipelineInv, Crash
    PROVE  PipelineInv'
<1> USE DEF PipelineInv
<1>1. /\ crashes < MaxCrashes /\ crashes' = crashes + 1
      /\ cursors' = [k \in Keys |-> NoCursor] /\ stream' = [k \in Keys |-> NoStream]
      /\ session' = [k \in Keys |-> NoTask] /\ timeline' = {}
      /\ pc' = [t \in Tasks |-> IF pc[t] \in Busy \cup {"waiting"} THEN "lost" ELSE pc[t]]
      /\ UNCHANGED <<event, windows, next, learned, life>>
  BY DEF Crash
<1>2. crashes \in Nat /\ crashes' \in 0..MaxCrashes
      /\ \A t \in Tasks : life[t] \in 0..MaxCrashes
  BY <1>1, PipelineAssumption DEF PipelineTypeOK
<1>3. \A t \in Tasks : pc'[t] \notin Live /\ (pc'[t] = "idle" => pc[t] = "idle")
  BY <1>1 DEF Live, Busy
<1>4. PipelineTypeOK' /\ CursorsTyped'
  <2>1. pc' \in [Tasks -> PC]
    BY <1>1 DEF PipelineTypeOK, PC, Ended
  <2> QED
    BY <2>1, <1>1, <1>2 DEF PipelineTypeOK, CursorsTyped, Cursor
<1>5. CallsFit' /\ LearnedSoFar' /\ OwnSession' /\ NothingOvertakes' /\ BehindFlush'
  <2>1. \A t \in Tasks : pc'[t] # "waiting" /\ pc'[t] \notin Busy
    BY <1>3 DEF Live
  <2>2. \A t \in Tasks : life'[t] <= crashes'
    BY <1>1, <1>2 DEF CallsFit
  <2>3. CallsFit'
    BY <2>1, <2>2, <1>1, <1>3 DEF CallsFit, Live
  <2>4. LearnedSoFar' /\ OwnSession' /\ NothingOvertakes' /\ BehindFlush'
    BY <2>1, <1>1 DEF LearnedSoFar, OwnSession, NothingOvertakes, BehindFlush
  <2> QED
    BY <2>3, <2>4
<1>6. \A t \in Tasks : ~Submitted(t)'
  BY <1>1, <1>2 DEF CallsFit, Submitted
<1>7. BehindCursor' /\ BehindStream' /\ InferredOnce'
  BY <1>1, <1>6 DEF BehindCursor, BehindStream, InferredOnce
<1> QED
  BY <1>4, <1>5, <1>7
-----------------------------------------------------------------------------
(* The specification *)

LEMMA InitInv == Init => PipelineInv
<1> SUFFICES ASSUME Init
             PROVE  PipelineInv
  OBVIOUS
<1> USE DEF Init
<1>1. PipelineTypeOK
  BY PipelineAssumption DEF PipelineTypeOK, PC
<1>2. CursorsTyped
  BY DEF CursorsTyped, GatewayInit, Cursor
<1>3. CallsFit /\ LearnedSoFar /\ OwnSession
  BY DEF CallsFit, LearnedSoFar, OwnSession, Live, Busy
<1>4. NothingOvertakes /\ BehindFlush
  BY DEF NothingOvertakes, BehindFlush, Busy
<1>5. BehindCursor /\ BehindStream /\ InferredOnce
  BY DEF BehindCursor, BehindStream, InferredOnce, Submitted
<1> QED
  BY <1>1, <1>2, <1>3, <1>4, <1>5 DEF PipelineInv

LEMMA StepInv == PipelineInv /\ [Next]_vars => PipelineInv'
<1> SUFFICES ASSUME PipelineInv, [Next]_vars
             PROVE  PipelineInv'
  OBVIOUS
<1>1. ASSUME NEW t \in Tasks, Arrive(t)
      PROVE  PipelineInv'
  BY <1>1, ReceiveInv DEF Arrive
<1>2. ASSUME NEW t \in Tasks, Enter(t)
      PROVE  PipelineInv'
  <2>1. CASE IngestRejected(t)
    <3>1. /\ pc[t] = "waiting" /\ SessionIsFree(event[t].key) /\ Goto(t, "rejected")
          /\ Rejection(event[t].key, event[t].epoch, event[t].seq)
          /\ UNCHANGED <<stream, session, event, windows, next, learned, timeline,
                         crashes, life>>
      BY <2>1 DEF IngestRejected
    <3>2. cursors' = cursors
      BY <3>1, RejectionMoves
    <3> QED
      BY <3>1, <3>2, TurnedAway DEF Ended
  <2>2. CASE IngestInvalid(t)
    <3>1. /\ pc[t] = "waiting" /\ SessionIsFree(event[t].key) /\ Goto(t, "failed")
          /\ event[t].kind = "audio"
          /\ Admission(event[t].key, event[t].epoch, event[t].seq)
          /\ UNCHANGED <<stream, session, event, windows, next, learned, timeline,
                         crashes, life>>
      BY <2>2 DEF IngestInvalid
    <3> QED
      BY <3>1, TurnedAway DEF Ended
  <2>3. CASE \E n \in 0..MaxWindows, tail \in {0, 1} : IngestAudio(t, n, tail)
    BY <2>3, IngestAudioInv
  <2>4. CASE FlushNothing(t)
    <3>1. /\ pc[t] = "waiting" /\ SessionIsFree(event[t].key) /\ Goto(t, "done")
          /\ cursors' = cursors
          /\ UNCHANGED <<stream, session, event, windows, next, learned, timeline,
                         crashes, life>>
      BY <2>4 DEF FlushNothing, gatewayVars
    <3> QED
      BY <3>1, TurnedAway DEF Ended
  <2>5. CASE \E tail \in {0, 1} : Flush(t, tail)
    BY <2>5, FlushInv
  <2> QED
    BY <1>2, <2>1, <2>2, <2>3, <2>4, <2>5 DEF Enter
<1>3. ASSUME NEW t \in Tasks, Process(t)
      PROVE  PipelineInv'
  <2>1. CASE Embedded(t)
    BY <2>1, EmbeddedInv
  <2>2. CASE AssignWindow(t)
    BY <2>2, AssignWindowInv
  <2>3. CASE Finish(t)
    <3>1. windows[t] \in 0..(MaxWindows + 1)
      BY DEF PipelineInv, PipelineTypeOK
    <3>2. timeline' \in SUBSET (Tasks \X (1..(MaxWindows + 1)))
      BY <2>3, <3>1, PipelineAssumption DEF Finish, PipelineInv, PipelineTypeOK
    <3>3. /\ pc[t] \in Busy /\ Goto(t, "done") /\ LeaveSession(t)
          /\ UNCHANGED <<cursors, stream, event, windows, next, learned, crashes, life>>
      BY <2>3 DEF Finish, Busy, gatewayVars
    <3> QED
      BY <3>2, <3>3, LeavesInv DEF Ended
  <2>4. CASE ProcessingFails(t)
    <3>1. /\ pc[t] \in Busy /\ Goto(t, "failed") /\ LeaveSession(t)
          /\ UNCHANGED <<cursors, stream, event, windows, next, learned, timeline,
                         crashes, life>>
      BY <2>4 DEF ProcessingFails, gatewayVars
    <3>2. timeline' \in SUBSET (Tasks \X (1..(MaxWindows + 1)))
      BY <3>1 DEF PipelineInv, PipelineTypeOK
    <3> QED
      BY <3>1, <3>2, LeavesInv DEF Ended
  <2> QED
    BY <1>3, <2>1, <2>2, <2>3, <2>4 DEF Process
<1>4. CASE Crash
  BY <1>4, CrashInv
<1>5. CASE UNCHANGED vars
  BY <1>5 DEF vars, gatewayVars, taskVars, PipelineInv, PipelineTypeOK, CursorsTyped,
              CallsFit, LearnedSoFar, OwnSession, NothingOvertakes, BehindCursor,
              BehindStream, BehindFlush, InferredOnce, Submitted
<1> QED
  BY <1>1, <1>2, <1>3, <1>4, <1>5 DEF Next

LEMMA Invariant == Spec => []PipelineInv
BY InitInv, StepInv, PTL DEF Spec

\* Every variable of the pipeline stays in its type, for any sets of sessions,
\* calls, epochs and sequence numbers (pipeline.py:47-109).
THEOREM TypeCorrect == Spec => []PipelineTypeOK
<1>1. PipelineInv => PipelineTypeOK
  BY DEF PipelineInv
<1> QED
  BY <1>1, Invariant, PTL

\* A packet is inferred at most once in a life of the service, however its
\* deliveries interleave (pipeline.py:48-67, gateway.py:33-52).
THEOREM OncePerPacket == Spec => []InferredOnce
<1>1. PipelineInv => InferredOnce
  BY DEF PipelineInv
<1> QED
  BY <1>1, Invariant, PTL

\* A call that is processed is alone in its session, finds the cursor and the
\* frontend as its packet left them, and gives the session back however it
\* ends (pipeline.py:47-109).
THEOREM NeverOvertaken == Spec => []NothingOvertakes
<1>1. PipelineInv => NothingOvertakes
  BY DEF PipelineInv
<1> QED
  BY <1>1, Invariant, PTL

\* Only AssignWindow teaches the centroids, and it does so in the order of the
\* stream (pipeline.py:99-109).
LEMMA LearnsNext ==
    ASSUME [Next]_vars, NEW t \in Tasks, NEW i, <<t, i>> \in learned' \ learned
    PROVE  i = next[t] /\ pc[t] = "assigning" /\ next[t] <= windows[t]
           /\ UNCHANGED <<event, life>>
<1>1. PICK u \in Tasks : AssignWindow(u)
  <2>1. learned' # learned
    OBVIOUS
  <2> QED
    BY <2>1 DEF Next, Arrive, Enter, Process, Receive, IngestRejected, IngestInvalid,
                IngestAudio, FlushNothing, Flush, Embedded, Finish, ProcessingFails, Crash,
                vars, taskVars
<1>2. <<t, i>> = <<u, next[u]>>
  BY <1>1 DEF AssignWindow, NextWindow
<1>3. t = u /\ i = next[u]
  BY <1>2
<1> QED
  BY <1>1, <1>3 DEF AssignWindow

\* The windows of a session are learned by epoch, packet and start, whatever
\* calls and flushes are made at the same time.
THEOREM LearnedInStreamOrder == Spec => LearnsInOrder
<1>1. ASSUME PipelineInv, [Next]_vars,
             NEW t \in Tasks, NEW u \in Tasks,
             NEW i \in 1..(MaxWindows + 1), NEW j \in 1..(MaxWindows + 1),
             <<t, i>> \in learned' \ learned, <<u, j>> \in learned,
             event[u].key = event[t].key, life[u] = life[t]
      PROVE  IF u = t
             THEN j < i
             ELSE \/ event[u].epoch < event[t].epoch
                  \/ /\ event[u].epoch = event[t].epoch
                     /\ {event[t].kind, event[u].kind} = {"audio"} =>
                           event[u].seq < event[t].seq
  <2>1. i = next[t] /\ pc[t] \in Busy
    BY <1>1, LearnsNext DEF Busy
  <2>2. windows[t] > 0 /\ life[t] = crashes /\ windows[u] > 0 /\ j < next[u]
    BY <1>1, <2>1 DEF PipelineInv, CallsFit, LearnedSoFar, Live
  <2>3. CASE u = t
    BY <2>1, <2>2, <2>3
  <2>4. CASE u # t
    <3>1. Submitted(t) /\ Submitted(u)
      BY <1>1, <2>2 DEF Submitted
    <3>2. /\ event[t].key \in Keys /\ event[t] # NoEvent /\ event[u] # NoEvent
          /\ event[t].kind \in {"audio", "flush"}
          /\ event[t].epoch \in Nat /\ event[u].epoch \in Nat
          /\ event[t].kind = "audio" => event[t].seq \in Nat
          /\ event[u].kind = "audio" => event[u].seq \in Nat
      BY <1>1, <2>2, SubmittedFields
    <3>3. CASE event[t].kind = "flush"
      <4>1. event[u].epoch <= event[t].epoch
        BY <1>1, <2>1, <3>1, <3>3 DEF PipelineInv, BehindFlush
      <4>2. {event[t].kind, event[u].kind} # {"audio"}
        BY <3>3
      <4> QED
        BY <2>4, <3>2, <4>1, <4>2
    <3>4. CASE event[t].kind = "audio"
      <4>1. cursors[event[t].key] = [epoch |-> event[t].epoch, last_seq |-> event[t].seq]
        BY <1>1, <2>1, <3>4 DEF PipelineInv, NothingOvertakes
      <4>2. /\ cursors[event[t].key].epoch = event[t].epoch
            /\ cursors[event[t].key].last_seq = event[t].seq
        BY <4>1
      <4>3. /\ event[u].epoch <= event[t].epoch
            /\ event[u].kind = "audio" /\ event[u].epoch = event[t].epoch
                  => event[u].seq <= event[t].seq
        BY <1>1, <3>1, <4>2 DEF PipelineInv, BehindCursor
      <4>4. event[u].kind = "audio" /\ event[u].epoch = event[t].epoch
               => event[u].seq # event[t].seq
        BY <1>1, <2>2, <2>4, <3>2, <3>4 DEF PipelineInv, InferredOnce
      <4>5. {event[t].kind, event[u].kind} = {"audio"} => event[u].kind = "audio"
        OBVIOUS
      <4> QED
        BY <2>4, <3>2, <3>4, <4>3, <4>4, <4>5
    <3> QED
      BY <3>2, <3>3, <3>4
  <2> QED
    BY <2>3, <2>4
<1>2. PipelineInv /\ [Next]_vars =>
         [\A t \in Tasks, i \in 1..(MaxWindows + 1) :
             <<t, i>> \in learned' \ learned =>
                \A u \in Tasks, j \in 1..(MaxWindows + 1) :
                   <<u, j>> \in learned /\ event[u].key = event[t].key /\ life[u] = life[t]
                   => IF u = t
                      THEN j < i
                      ELSE \/ event[u].epoch < event[t].epoch
                           \/ /\ event[u].epoch = event[t].epoch
                              /\ {event[t].kind, event[u].kind} = {"audio"} =>
                                    event[u].seq < event[t].seq]_vars
  BY <1>1
<1> QED
  BY <1>2, Invariant, PTL DEF Spec, LearnsInOrder
-----------------------------------------------------------------------------
(* The calls of a session, seen as indivisible *)

\* What a call in progress did to its session when it came in, which shows when
\* it ends: it found the session in an order that allowed it, and its windows
\* are no more than its packet may complete.
Pending ==
    /\ before \in [Keys -> [cursor : Cursor, stream : Epochs \cup {NoStream}]]
    /\ \A t \in Tasks :
          pc[t] \in Busy =>
              LET e == event[t]
                  b == before[e.key]
              IN
              /\ e.kind = "audio" =>
                    /\ Serial!Newer(e, b.cursor)
                    /\ windows[t] <= IF e.is_final THEN MaxWindows + 1 ELSE MaxWindows
              /\ e.kind = "flush" =>
                    /\ b.cursor = cursors[e.key] /\ b.stream # NoStream
                    /\ windows[t] <= 1

\* Only the call that moves is seen to move.
LEMMA OneMoves ==
    ASSUME PipelineInv, NEW t \in Tasks, \A u \in Tasks : u # t => pc'[u] = pc[u]
    PROVE  Places' = [Places EXCEPT ![t] = IF pc'[t] \in Busy THEN "waiting" ELSE pc'[t]]
BY DEF Places

\* A call that waits, or is in progress, waits for its answer.
LEMMA SeenWaiting ==
    ASSUME NEW t \in Tasks, pc[t] \in Live
    PROVE  Places[t] = "waiting"
BY DEF Places, Live

\* The argument of a call is seen as it was made.
LEMMA SeenAudio ==
    ASSUME NEW t \in Tasks, event[t].kind = "audio"
    PROVE  Arguments[t] = event[t]
BY DEF Arguments

LEMMA SeenFlush ==
    ASSUME NEW t \in Tasks, event[t].kind = "flush"
    PROVE  /\ Arguments[t].kind = "flush" /\ Arguments[t].key = event[t].key
BY DEF Arguments, FlushOf

\* A session whose lock is free is seen as it is.
LEMMA SeenFree ==
    ASSUME NEW k \in Keys, SessionIsFree(k)
    PROVE  /\ Standings[k] = Standing(k)
           /\ Standings[k].cursor = cursors[k] /\ Standings[k].stream = stream[k]
BY DEF Standings, Standing, SessionIsFree

LEMMA CursorFields ==
    ASSUME CursorsTyped, NEW k \in Keys, cursors[k] # NoCursor
    PROVE  cursors[k].epoch \in Nat /\ cursors[k].last_seq \in Nat
<1>1. cursors[k] \in [epoch : Epochs, last_seq : Seqs]
  BY DEF CursorsTyped, Cursor
<1> QED
  BY <1>1, EpochsAssumption, SeqsAssumption

\* The gateway admits what is newer than the cursor, and nothing else.
LEMMA NewerIsAdmitted ==
    ASSUME CursorsTyped, NEW e \in Audio
    PROVE  /\ Admission(e.key, e.epoch, e.seq) => Serial!Newer(e, cursors[e.key])
           /\ Rejection(e.key, e.epoch, e.seq) => ~Serial!Newer(e, cursors[e.key])
<1> DEFINE c == cursors[e.key]
<1>1. e.epoch \in Nat /\ e.seq \in Nat /\ e.key \in Keys
  BY AudioFields
<1>2. CASE c = NoCursor
  <2>1. c.epoch = -1 /\ Serial!Newer(e, c)
    BY <1>2 DEF NoCursor, Serial!Newer, Serial!NoCursor
  <2> QED
    BY <1>1, <2>1 DEF Rejection, RejectStale, RejectDuplicate, IsStale, IsDuplicate, IsNewStream
<1>3. CASE c # NoCursor
  <2>1. c.epoch \in Nat /\ c.last_seq \in Nat
    BY <1>1, <1>3, CursorFields
  <2>2. Serial!Newer(e, c) <=> c.epoch < e.epoch \/ (c.epoch = e.epoch /\ c.last_seq < e.seq)
    BY <1>1, <1>3, <2>1 DEF Serial!Newer, Serial!NoCursor, NoCursor
  <2>3. Admission(e.key, e.epoch, e.seq) => Serial!Newer(e, c)
    BY <1>1, <1>3, <2>1, <2>2
       DEF Admission, AcceptNewStream, AcceptNext, IsNext, IsNewStream, IsStale, IsDuplicate
  <2>4. Rejection(e.key, e.epoch, e.seq) => ~Serial!Newer(e, c)
    BY <1>1, <1>3, <2>1, <2>2
       DEF Rejection, RejectStale, RejectDuplicate, IsNewStream, IsStale, IsDuplicate
  <2> QED
    BY <2>3, <2>4
<1> QED
  BY <1>2, <1>3

\* A call in progress is alone in its session.
LEMMA BusyFields ==
    ASSUME PipelineInv, NEW t \in Tasks, pc[t] \in Busy
    PROVE  /\ event[t].key \in Keys /\ event[t].kind \in {"audio", "flush"}
           /\ event[t].kind = "audio" => event[t] \in Audio
           /\ windows[t] \in 1..(MaxWindows + 1) /\ session[event[t].key] = t /\ t # NoTask
           /\ \A u \in Tasks : u # t /\ pc[u] \in Busy => event[u].key # event[t].key
<1>1. windows[t] > 0 /\ windows[t] \in 0..(MaxWindows + 1) /\ event[t] \in Audio \cup Flushed
  BY DEF PipelineInv, CallsFit, PipelineTypeOK
<1>2. windows[t] \in 1..(MaxWindows + 1)
  BY <1>1, PipelineAssumption
<1>3. event[t].kind = "audio" => event[t] \in Audio
  BY <1>1, FlushedFields
<1>4. \A u \in Tasks : pc[u] \in Busy => session[event[u].key] = u
  BY DEF PipelineInv, NothingOvertakes
<1>5. \A u \in Tasks : u # t /\ pc[u] \in Busy => event[u].key # event[t].key
  BY <1>4
<1>6. event[t].key \in Keys /\ event[t].kind \in {"audio", "flush"}
  BY <1>1, SubmittedFields
<1> QED
  BY <1>2, <1>3, <1>4, <1>5, <1>6, PipelineAssumption

\* Nothing is new for the calls in progress: a step of a call that is not, or
\* of one that goes on.
LEMMA PendingKept ==
    ASSUME Pending, before' = before,
           \A u \in Tasks : pc'[u] \in Busy =>
              /\ pc[u] \in Busy /\ event'[u] = event[u] /\ windows'[u] = windows[u]
              /\ cursors'[event[u].key] = cursors[event[u].key]
    PROVE  Pending'
BY DEF Pending, Serial!Newer, Serial!NoCursor

LEMMA EnterPending ==
    ASSUME PipelineInv, Pending, NEW t \in Tasks, Enter(t)
    PROVE  Pending'
<1> DEFINE e == event[t]
<1>1. pc[t] = "waiting" /\ SessionIsFree(e.key) /\ e.key \in Keys
  <2>1. pc[t] = "waiting" /\ SessionIsFree(e.key)
    BY DEF Enter, IngestRejected, IngestInvalid, IngestAudio, FlushNothing, Flush
  <2> QED
    BY <2>1, WaitingFields
<1>2. /\ cursors' = cursors
      \/ /\ e \in Audio /\ Admission(e.key, e.epoch, e.seq)
         /\ cursors' = [cursors EXCEPT ![e.key] = [epoch |-> e.epoch, last_seq |-> e.seq]]
  <2>1. \/ cursors' = cursors
        \/ e.kind = "audio" /\ Admission(e.key, e.epoch, e.seq)
    BY RejectionMoves
       DEF Enter, IngestRejected, IngestInvalid, IngestAudio, FlushNothing, Flush, gatewayVars
  <2>2. ASSUME e.kind = "audio", Admission(e.key, e.epoch, e.seq)
        PROVE  /\ e \in Audio
               /\ cursors' = [cursors EXCEPT ![e.key] = [epoch |-> e.epoch, last_seq |-> e.seq]]
    <3>1. e \in Audio /\ CursorsTyped
      BY <1>1, <2>2, WaitingFields DEF PipelineInv
    <3> HIDE DEF e
    <3> QED
      BY <2>2, <3>1, AdmissionMoves
  <2> QED
    BY <2>1, <2>2
\* Calls in progress are of other sessions.
<1>3. ASSUME NEW u \in Tasks, pc[u] \in Busy
      PROVE  /\ u # t /\ event[u].key \in Keys /\ event[u].key # e.key
             /\ cursors'[event[u].key] = cursors[event[u].key]
  <2>1. u # t /\ event[u].key \in Keys /\ event[u].key # e.key
    BY <1>1, <1>3, BusyFields, FreeMeansNobody DEF Busy
  <2> QED
    BY <1>1, <1>2, <2>1 DEF PipelineInv, CursorsTyped
<1>4. \A u \in Tasks : u # t => pc'[u] = pc[u] /\ event'[u] = event[u] /\ windows'[u] = windows[u]
  BY DEF Enter, IngestRejected, IngestInvalid, IngestAudio, FlushNothing, Flush, Submit, Goto,
         PipelineInv, PipelineTypeOK
<1>5. CASE before' = before /\ pc'[t] \notin Busy
  BY <1>3, <1>4, <1>5, PendingKept
\* With windows to wait for, t becomes the call in progress of its session.
<1>6. ASSUME NEW w \in 1..(MaxWindows + 1), Submit(t, w), event'[t].key = e.key,
             event'[t].kind = "audio" =>
                /\ Serial!Newer(event'[t], cursors[e.key])
                /\ w <= IF event'[t].is_final THEN MaxWindows + 1 ELSE MaxWindows,
             event'[t].kind = "flush" =>
                cursors'[e.key] = cursors[e.key] /\ stream[e.key] # NoStream /\ w <= 1
      PROVE  Pending'
  <2>1. /\ windows'[t] = w
        /\ before' = [before EXCEPT ![e.key] = Standing(e.key)]
    BY <1>6 DEF Submit, PipelineInv, PipelineTypeOK
  <2>2. /\ before' \in [Keys -> [cursor : Cursor, stream : Epochs \cup {NoStream}]]
        /\ before'[e.key].cursor = cursors[e.key] /\ before'[e.key].stream = stream[e.key]
        /\ \A k \in Keys : k # e.key => before'[k] = before[k]
    BY <1>1, <2>1 DEF Pending, Standing, PipelineInv, PipelineTypeOK, CursorsTyped
  <2>3. ASSUME NEW u \in Tasks, u # t, pc'[u] \in Busy
        PROVE  LET f == event'[u]
                   b == before'[f.key]
               IN
               /\ f.kind = "audio" =>
                     /\ Serial!Newer(f, b.cursor)
                     /\ windows'[u] <= IF f.is_final THEN MaxWindows + 1 ELSE MaxWindows
               /\ f.kind = "flush" =>
                     /\ b.cursor = cursors'[f.key] /\ b.stream # NoStream
                     /\ windows'[u] <= 1
    <3>1. /\ pc[u] \in Busy /\ event'[u] = event[u] /\ windows'[u] = windows[u]
          /\ before'[event[u].key] = before[event[u].key]
          /\ cursors'[event[u].key] = cursors[event[u].key]
      BY <1>3, <1>4, <2>2, <2>3
    <3> QED
      BY <3>1 DEF Pending
  <2>4. LET f == event'[t]
            b == before'[f.key]
        IN
        /\ f.kind = "audio" =>
              /\ Serial!Newer(f, b.cursor)
              /\ windows'[t] <= IF f.is_final THEN MaxWindows + 1 ELSE MaxWindows
        /\ f.kind = "flush" =>
              /\ b.cursor = cursors'[f.key] /\ b.stream # NoStream
              /\ windows'[t] <= 1
    BY <1>6, <2>1, <2>2
  <2> QED
    BY <2>2, <2>3, <2>4 DEF Pending, Serial!Newer, Serial!NoCursor
<1>7. CASE IngestRejected(t) \/ IngestInvalid(t) \/ FlushNothing(t)
  <2>1. before' = before /\ pc'[t] \notin Busy
    BY <1>7 DEF IngestRejected, IngestInvalid, FlushNothing, Goto, Busy, PipelineInv, PipelineTypeOK
  <2> QED
    BY <2>1, <1>5
<1>8. ASSUME NEW n \in 0..MaxWindows, NEW tail \in {0, 1}, IngestAudio(t, n, tail)
      PROVE  Pending'
  <2> DEFINE w == WindowsOf(n, tail)
  <2>1. /\ Submit(t, w) /\ event' = event /\ e.kind = "audio" /\ e \in Audio
        /\ Admission(e.key, e.epoch, e.seq) /\ (tail > 0 => e.is_final)
    BY <1>8, <1>1, WaitingFields DEF IngestAudio
  <2>2. Serial!Newer(e, cursors[e.key])
    <3>1. CursorsTyped
      BY DEF PipelineInv
    <3> HIDE DEF e
    <3> QED
      BY <2>1, <3>1, NewerIsAdmitted
  <2>3. w \in 0..(MaxWindows + 1) /\ w <= IF e.is_final THEN MaxWindows + 1 ELSE MaxWindows
    BY <2>1, PipelineAssumption DEF WindowsOf
  <2>4. CASE w = 0
    <3>1. before' = before /\ pc'[t] \notin Busy
      BY <2>1, <2>4 DEF Submit, Goto, Busy, PipelineInv, PipelineTypeOK
    <3> QED
      BY <3>1, <1>5
  <2>5. CASE w \in 1..(MaxWindows + 1)
    BY <2>1, <2>2, <2>3, <2>5, <1>6
  <2> QED
    BY <2>3, <2>4, <2>5, PipelineAssumption
<1>9. ASSUME NEW tail \in {0, 1}, Flush(t, tail)
      PROVE  Pending'
  <2> DEFINE w == WindowsOf(0, tail)
  <2>1. /\ Submit(t, w) /\ stream[e.key] # NoStream /\ cursors' = cursors
        /\ event'[t].kind = "flush" /\ event'[t].key = e.key
    BY <1>9 DEF Flush, gatewayVars, PipelineInv, PipelineTypeOK
  <2>2. w \in 0..1
    BY DEF WindowsOf
  <2>3. CASE w = 0
    <3>1. before' = before /\ pc'[t] \notin Busy
      BY <2>1, <2>3 DEF Submit, Goto, Busy, PipelineInv, PipelineTypeOK
    <3> QED
      BY <3>1, <1>5
  <2>4. CASE w = 1
    <3>1. w \in 1..(MaxWindows + 1) /\ w <= 1
      BY <2>4, PipelineAssumption
    <3> HIDE DEF w
    <3> QED
      BY <2>1, <3>1, <1>6
  <2> QED
    BY <2>2, <2>3, <2>4
<1> QED
  BY <1>7, <1>8, <1>9 DEF Enter

\* A call that ends takes what it has found with it.
LEMMA LeavesPending ==
    ASSUME PipelineInv, Pending, NEW t \in Tasks, pc[t] \in Busy, NEW place \in Ended,
           Goto(t, place), Forgets(t), UNCHANGED <<cursors, event, windows>>
    PROVE  Pending'
<1>1. /\ before' \in [Keys -> [cursor : Cursor, stream : Epochs \cup {NoStream}]]
      /\ \A k \in Keys : k # event[t].key => before'[k] = before[k]
  BY DEF Forgets, Fresh, Pending, Cursor
<1>2. \A u \in Tasks : pc'[u] \in Busy =>
         /\ pc[u] \in Busy /\ event[u].key \in Keys /\ event[u].key # event[t].key
  <2>1. \A u \in Tasks : pc'[u] \in Busy => u # t /\ pc[u] \in Busy
    BY DEF Goto, Busy, Ended, PipelineInv, PipelineTypeOK
  <2> QED
    BY <2>1, BusyFields
<1>3. \A u \in Tasks : pc'[u] \in Busy => pc[u] \in Busy /\ before'[event[u].key] = before[event[u].key]
  BY <1>1, <1>2
<1> QED
  BY <1>1, <1>3 DEF Pending, Serial!Newer, Serial!NoCursor

LEMMA PendingStep == PipelineInv /\ Pending /\ [Next]_vars => Pending'
<1> SUFFICES ASSUME PipelineInv, Pending, [Next]_vars
             PROVE  Pending'
  OBVIOUS
<1>1. ASSUME NEW t \in Tasks, NEW e, Receive(t, e)
      PROVE  Pending'
  <2>1. /\ before' = before /\ cursors' = cursors /\ windows' = windows
        /\ \A u \in Tasks : pc'[u] \in Busy => pc[u] \in Busy /\ event'[u] = event[u]
    BY <1>1 DEF Receive, Goto, Busy, gatewayVars, PipelineInv, PipelineTypeOK
  <2> QED
    BY <2>1, PendingKept
<1>2. ASSUME NEW t \in Tasks, Embedded(t) \/ AssignWindow(t)
      PROVE  Pending'
  <2>1. /\ UNCHANGED <<before, cursors, windows, event>>
        /\ \A u \in Tasks : pc'[u] \in Busy => pc[u] \in Busy
    BY <1>2 DEF Embedded, AssignWindow, Goto, Busy, gatewayVars, PipelineInv, PipelineTypeOK
  <2> QED
    BY <2>1, PendingKept
<1>3. ASSUME NEW t \in Tasks, Finish(t) \/ ProcessingFails(t)
      PROVE  Pending'
  <2>1. /\ pc[t] \in Busy
        /\ Goto(t, "done") \/ Goto(t, "failed")
        /\ Forgets(t) /\ UNCHANGED <<cursors, event, windows>>
    BY <1>3 DEF Finish, ProcessingFails, Busy, gatewayVars
  <2> QED
    BY <2>1, LeavesPending DEF Ended
<1>4. CASE Crash
  <2>1. before' \in [Keys -> [cursor : Cursor, stream : Epochs \cup {NoStream}]]
    BY <1>4 DEF Crash, Fresh, Cursor
  <2>2. \A u \in Tasks : pc'[u] \notin Busy
    BY <1>4 DEF Crash, Busy
  <2> QED
    BY <2>1, <2>2 DEF Pending
<1>5. CASE UNCHANGED vars
  BY <1>5, PendingKept DEF vars, gatewayVars, taskVars
<1> QED
  BY <1>1, <1>2, <1>3, <1>4, <1>5, EnterPending DEF Next, Arrive, Process

\* Only the session of the call is seen to change.
LEMMA SessionMoves ==
    ASSUME NEW key \in Keys,
           \A k \in Keys : k # key =>
              /\ session'[k] = session[k] /\ before'[k] = before[k]
              /\ cursors'[k] = cursors[k] /\ stream'[k] = stream[k]
    PROVE  /\ session'[key] = NoTask =>
                 Standings' = [Standings EXCEPT ![key] =
                                  [cursor |-> cursors'[key], stream |-> stream'[key]]]
           /\ session'[key] # NoTask =>
                 Standings' = [Standings EXCEPT ![key] = before'[key]]
BY DEF Standings, Standing

LEMMA NothingSeen ==
    ASSUME UNCHANGED <<Places, Arguments, Standings, timeline>>
    PROVE  UNCHANGED Serial!serialVars
BY DEF Serial!serialVars

LEMMA ReceiveSimulates ==
    ASSUME PipelineInv, NEW t \in Tasks,
           NEW e \in Audio \cup {FlushOf(k) : k \in Keys}, Receive(t, e)
    PROVE  Serial!Receive(t)
<1>1. /\ pc[t] = "idle" /\ pc'[t] = "waiting" /\ event'[t] = e
      /\ \A u \in Tasks : u # t => pc'[u] = pc[u] /\ event'[u] = event[u]
      /\ UNCHANGED <<cursors, stream, session, before, timeline>>
  BY DEF Receive, Goto, gatewayVars, PipelineInv, PipelineTypeOK
<1>2. Places[t] = "idle" /\ Places' = [Places EXCEPT ![t] = "waiting"]
  BY <1>1, OneMoves DEF Places, Busy
<1>3. Arguments' = [Arguments EXCEPT ![t] = e]
  <2>1. IF e.kind = "flush" THEN FlushOf(e.key) = e ELSE TRUE
    BY AudioFields DEF FlushOf
  <2> QED
    BY <1>1, <2>1 DEF Arguments
<1>4. Standings' = Standings
  BY <1>1 DEF Standings, Standing
<1>5. e \in Serial!Audio \cup {Serial!FlushOf(k) : k \in Keys}
  BY DEF Audio, FlushOf, Serial!Audio, Serial!FlushOf
<1> QED
  BY <1>1, <1>2, <1>3, <1>4, <1>5 DEF Serial!Receive

\* A call that never has the session takes effect when it ends.
LEMMA TurnedAwaySimulates ==
    ASSUME PipelineInv, NEW t \in Tasks,
           IngestRejected(t) \/ IngestInvalid(t) \/ FlushNothing(t)
    PROVE  Serial!Reject(t) \/ Serial!Malformed(t) \/ Serial!Flush(t)
<1> DEFINE e == event[t]
<1>1. /\ pc[t] = "waiting" /\ SessionIsFree(e.key) /\ pc'[t] \notin Busy
      /\ \A u \in Tasks : u # t => pc'[u] = pc[u]
      /\ UNCHANGED <<event, stream, session, before, timeline>>
  BY DEF IngestRejected, IngestInvalid, FlushNothing, Goto, Busy, PipelineInv, PipelineTypeOK
<1>2. e.key \in Keys /\ (e.kind = "audio" => e \in Audio) /\ CursorsTyped
  BY <1>1, WaitingFields DEF PipelineInv
<1>3. /\ Places[t] = "waiting" /\ Places' = [Places EXCEPT ![t] = pc'[t]]
      /\ Arguments' = Arguments
      /\ Standings[e.key] = [cursor |-> cursors[e.key], stream |-> stream[e.key]]
  BY <1>1, <1>2, OneMoves, SeenWaiting, SeenFree DEF Live, Arguments, Standing
<1>4. CASE IngestRejected(t)
  <2>1. Rejection(e.key, e.epoch, e.seq) /\ pc'[t] = "rejected" /\ Arguments[t] = e
        /\ e.kind = "audio" /\ cursors' = cursors
    BY <1>4, SeenAudio, RejectionMoves DEF IngestRejected, Goto, PipelineInv, PipelineTypeOK
  <2>2. ~Serial!Newer(e, cursors[e.key])
    <3> HIDE DEF e
    <3> QED
      BY <1>2, <2>1, NewerIsAdmitted
  <2>3. Standings' = Standings
    BY <1>1, <2>1 DEF Standings, Standing
  <2> QED
    BY <1>1, <1>3, <2>1, <2>2, <2>3 DEF Serial!Reject, Serial!End
<1>5. CASE IngestInvalid(t)
  <2>1. Admission(e.key, e.epoch, e.seq) /\ pc'[t] = "failed" /\ Arguments[t] = e
        /\ e.kind = "audio"
    BY <1>5, SeenAudio DEF IngestInvalid, Goto, PipelineInv, PipelineTypeOK
  <2>2. /\ Serial!Newer(e, cursors[e.key])
        /\ cursors' = [cursors EXCEPT ![e.key] = [epoch |-> e.epoch, last_seq |-> e.seq]]
    <3> HIDE DEF e
    <3> QED
      BY <1>2, <2>1, NewerIsAdmitted, AdmissionMoves
  <2>3. Standings' = [Standings EXCEPT ![e.key] =
                         [cursor |-> Serial!CursorAt(e), stream |-> stream[e.key]]]
    <3>1. /\ cursors'[e.key] = Serial!CursorAt(e)
          /\ \A k \in Keys : k # e.key => cursors'[k] = cursors[k]
      BY <1>2, <2>2 DEF CursorsTyped, Serial!CursorAt
    <3> QED
      BY <1>1, <1>2, <3>1, SessionMoves DEF SessionIsFree
  <2>4. Standings' = [Standings EXCEPT ![e.key].cursor = Serial!CursorAt(e)]
    <3> DEFINE c == Serial!CursorAt(e)
    <3> HIDE DEF c
    <3>1. [Standings[e.key] EXCEPT !.cursor = c] = [cursor |-> c, stream |-> stream[e.key]]
      BY <1>3
    <3> QED
      BY <2>3, <3>1 DEF c
  <2>5. Serial!Newer(e, Standings[e.key].cursor)
    BY <1>1, <1>2, <2>2, SeenFree
  <2> QED
    BY <1>1, <1>3, <2>1, <2>4, <2>5 DEF Serial!Malformed, Serial!End
<1>6. CASE FlushNothing(t)
  <2>1. e.kind = "flush" /\ stream[e.key] = NoStream /\ pc'[t] = "done" /\ cursors' = cursors
        /\ Arguments[t].kind = "flush" /\ Arguments[t].key = e.key
    BY <1>6, SeenFlush DEF FlushNothing, Goto, gatewayVars, PipelineInv, PipelineTypeOK
  <2>2. Standings' = Standings
    BY <1>1, <2>1 DEF Standings, Standing
  <2>3. Standings = [Standings EXCEPT ![e.key].stream = NoStream]
    BY <1>2, <1>3, <2>1 DEF Standings
  <2>4. timeline' = timeline \cup {<<t, i>> : i \in 1..0}
    BY <1>1
  <2> QED
    BY <1>1, <1>3, <2>1, <2>2, <2>3, <2>4
       DEF Serial!Flush, Serial!Outcome, Serial!End, Serial!NoStream, NoStream
<1> QED
  BY <1>4, <1>5, <1>6

\* A call that submits windows is not seen to, for its session is shown as it
\* found it.
LEMMA SubmitIsUnseen ==
    ASSUME PipelineInv, NEW t \in Tasks, pc[t] = "waiting", SessionIsFree(event[t].key),
           NEW w \in 1..(MaxWindows + 1), Submit(t, w), Pending,
           timeline' = timeline, Arguments' = Arguments,
           \A k \in Keys : k # event[t].key => cursors'[k] = cursors[k] /\ stream'[k] = stream[k]
    PROVE  UNCHANGED Serial!serialVars
<1> DEFINE key == event[t].key
<1>1. key \in Keys
  BY WaitingFields
<1>2. /\ session' = [session EXCEPT ![key] = t] /\ before' = [before EXCEPT ![key] = Standing(key)]
      /\ pc' = [pc EXCEPT ![t] = "embedding"]
  BY DEF Submit, Goto, TakeSession
<1>3. Places' = Places
  <2>1. pc'[t] = "embedding" /\ \A u \in Tasks : u # t => pc'[u] = pc[u]
    BY <1>2 DEF PipelineInv, PipelineTypeOK
  <2> QED
    BY <2>1 DEF Places, Busy
<1>4. Standings' = Standings
  <2>1. /\ session'[key] = t /\ t # NoTask /\ before'[key] = Standing(key)
        /\ \A k \in Keys : k # key => session'[k] = session[k] /\ before'[k] = before[k]
    BY <1>1, <1>2, PipelineAssumption DEF Pending, PipelineInv, PipelineTypeOK
  <2>2. Standings' = [Standings EXCEPT ![key] = Standing(key)]
    BY <1>1, <2>1, SessionMoves
  <2>3. Standings[key] = Standing(key)
    BY <1>1, SeenFree
  <2> QED
    BY <2>2, <2>3 DEF Standings
<1> QED
  BY <1>3, <1>4, NothingSeen

LEMMA IngestAudioSimulates ==
    ASSUME PipelineInv, Pending, NEW t \in Tasks, NEW n \in 0..MaxWindows, NEW tail \in {0, 1},
           IngestAudio(t, n, tail)
    PROVE  Serial!Ingest(t) \/ UNCHANGED Serial!serialVars
<1> DEFINE e == event[t]
           w == WindowsOf(n, tail)
<1>1. /\ pc[t] = "waiting" /\ SessionIsFree(e.key) /\ Submit(t, w) /\ event' = event
      /\ e.kind = "audio" /\ e \in Audio /\ e.key \in Keys /\ timeline' = timeline
      /\ Admission(e.key, e.epoch, e.seq) /\ CursorsTyped
      /\ stream' = [stream EXCEPT ![e.key] = IF e.is_final THEN NoStream ELSE e.epoch]
  BY WaitingFields DEF IngestAudio, PipelineInv
<1>2. w \in 0..(MaxWindows + 1)
  BY PipelineAssumption DEF WindowsOf
<1> HIDE DEF w
<1>3. /\ Serial!Newer(e, cursors[e.key])
      /\ cursors' = [cursors EXCEPT ![e.key] = [epoch |-> e.epoch, last_seq |-> e.seq]]
  <2> HIDE DEF e
  <2> QED
    BY <1>1, NewerIsAdmitted, AdmissionMoves
<1>4. /\ cursors'[e.key] = Serial!CursorAt(e)
      /\ stream'[e.key] = IF e.is_final THEN NoStream ELSE e.epoch
      /\ \A k \in Keys : k # e.key => cursors'[k] = cursors[k] /\ stream'[k] = stream[k]
  BY <1>1, <1>3 DEF CursorsTyped, PipelineInv, PipelineTypeOK, Serial!CursorAt
<1>5. Arguments' = Arguments /\ Arguments[t] = e
  BY <1>1, SeenAudio DEF Arguments
<1>6. CASE w \in 1..(MaxWindows + 1)
  BY <1>1, <1>4, <1>5, <1>6, SubmitIsUnseen
<1>7. CASE w = 0
  <2>1. /\ pc'[t] = "done" /\ \A u \in Tasks : u # t => pc'[u] = pc[u]
        /\ session' = session /\ before' = before
    BY <1>1, <1>7 DEF Submit, Goto, PipelineInv, PipelineTypeOK
  <2>2. Places[t] = "waiting" /\ Places' = [Places EXCEPT ![t] = "done"]
    BY <1>1, <2>1, OneMoves, SeenWaiting DEF Live, Busy
  <2>3. Standings' = [Standings EXCEPT ![e.key] =
                         [cursor |-> Serial!CursorAt(e),
                          stream |-> IF e.is_final THEN Serial!NoStream ELSE e.epoch]]
    BY <1>1, <1>4, <2>1, SessionMoves DEF SessionIsFree, Serial!NoStream, NoStream
  <2>4. Serial!Newer(e, Standings[e.key].cursor)
    BY <1>1, <1>3, SeenFree
  <2>5. timeline' = timeline \cup {<<t, i>> : i \in 1..0}
    BY <1>1
  <2>6. Serial!Outcome(t, IF e.is_final THEN MaxWindows + 1 ELSE MaxWindows)
    <3>1. 0 \in 0..(IF e.is_final THEN MaxWindows + 1 ELSE MaxWindows)
      BY PipelineAssumption
    <3> QED
      BY <1>5, <2>2, <2>5, <3>1 DEF Serial!Outcome, Serial!End
  <2> QED
    BY <1>1, <1>5, <2>3, <2>4, <2>6 DEF Serial!Ingest
<1> QED
  BY <1>2, <1>6, <1>7, PipelineAssumption

LEMMA FlushSimulates ==
    ASSUME PipelineInv, Pending, NEW t \in Tasks, NEW tail \in {0, 1}, Flush(t, tail)
    PROVE  Serial!Flush(t) \/ UNCHANGED Serial!serialVars
<1> DEFINE key == event[t].key
           w == WindowsOf(0, tail)
<1>1. /\ pc[t] = "waiting" /\ SessionIsFree(key) /\ Submit(t, w) /\ event[t].kind = "flush"
      /\ key \in Keys /\ stream[key] # NoStream
      /\ cursors' = cursors /\ timeline' = timeline
      /\ stream' = [stream EXCEPT ![key] = NoStream]
      /\ event' = [event EXCEPT ![t] = [kind |-> "flush", key |-> key, epoch |-> stream[key]]]
  BY WaitingFields DEF Flush, gatewayVars
<1>2. w \in 0..1
  BY DEF WindowsOf
<1> HIDE DEF w
<1>3. /\ stream'[key] = NoStream
      /\ \A k \in Keys : k # key => stream'[k] = stream[k]
  BY <1>1 DEF PipelineInv, PipelineTypeOK
<1>4. Arguments' = Arguments /\ Arguments[t].kind = "flush" /\ Arguments[t].key = key
  <2>1. /\ event'[t].kind = "flush" /\ event'[t].key = key
        /\ \A u \in Tasks : u # t => event'[u] = event[u]
    BY <1>1 DEF PipelineInv, PipelineTypeOK
  <2> QED
    BY <1>1, <2>1, SeenFlush DEF Arguments
<1>5. CASE w = 1
  <2>1. w \in 1..(MaxWindows + 1)
    BY <1>5, PipelineAssumption
  <2> QED
    BY <1>1, <1>3, <1>4, <2>1, SubmitIsUnseen
<1>6. CASE w = 0
  <2>1. /\ pc'[t] = "done" /\ \A u \in Tasks : u # t => pc'[u] = pc[u]
        /\ session' = session /\ before' = before
    BY <1>1, <1>6 DEF Submit, Goto, PipelineInv, PipelineTypeOK
  <2>2. Places[t] = "waiting" /\ Places' = [Places EXCEPT ![t] = "done"]
    BY <1>1, <2>1, OneMoves, SeenWaiting DEF Live, Busy
  <2>3. Standings' = [Standings EXCEPT ![key] = [cursor |-> cursors[key], stream |-> NoStream]]
    BY <1>1, <1>3, <2>1, SessionMoves DEF SessionIsFree
  <2>4. Standings' = [Standings EXCEPT ![key].stream = Serial!NoStream]
    <3>1. Standings[key] = [cursor |-> cursors[key], stream |-> stream[key]]
      BY <1>1, SeenFree DEF Standing
    <3>2. [Standings[key] EXCEPT !.stream = NoStream] = [cursor |-> cursors[key], stream |-> NoStream]
      BY <3>1
    <3> QED
      BY <2>3, <3>2 DEF Serial!NoStream, NoStream
  <2>5. timeline' = timeline \cup {<<t, i>> : i \in 1..0}
    BY <1>1
  <2>6. \A most \in Nat : Serial!Outcome(t, most)
    BY <1>4, <2>2, <2>5 DEF Serial!Outcome, Serial!End
  <2> QED
    BY <1>4, <2>4, <2>6 DEF Serial!Flush
<1> QED
  BY <1>2, <1>5, <1>6

\* A call that had the session takes effect when it gives it back.
LEMMA LeavesSimulates ==
    ASSUME PipelineInv, Pending, NEW t \in Tasks, Finish(t) \/ ProcessingFails(t)
    PROVE  Serial!Ingest(t) \/ Serial!Flush(t)
<1> DEFINE e == event[t]
           b == before[e.key]
           n == windows[t]
<1>1. /\ pc[t] \in Busy /\ LeaveSession(t) /\ Forgets(t)
      /\ UNCHANGED <<cursors, stream, event>>
  BY DEF Finish, ProcessingFails, Busy, gatewayVars
<1>2. /\ e.key \in Keys /\ e.kind \in {"audio", "flush"}
      /\ n \in 1..(MaxWindows + 1) /\ session[e.key] = t /\ t # NoTask
  BY <1>1, BusyFields
<1>3. /\ session'[e.key] = NoTask
      /\ \A k \in Keys : k # e.key => session'[k] = session[k] /\ before'[k] = before[k]
  BY <1>1, <1>2 DEF LeaveSession, Forgets, Pending, PipelineInv, PipelineTypeOK
<1>4. /\ Standings[e.key] = b /\ b = [cursor |-> b.cursor, stream |-> b.stream]
      /\ Standings' = [Standings EXCEPT ![e.key] =
                           [cursor |-> cursors[e.key], stream |-> stream[e.key]]]
  <2>1. Standings[e.key] = b
    BY <1>2 DEF Standings
  <2>2. b \in [cursor : Cursor, stream : Epochs \cup {NoStream}]
    BY <1>2 DEF Pending
  <2>3. Standings' = [Standings EXCEPT ![e.key] =
                         [cursor |-> cursors'[e.key], stream |-> stream'[e.key]]]
    BY <1>1, <1>2, <1>3, SessionMoves
  <2> QED
    BY <1>1, <2>1, <2>2, <2>3
\* All of its windows, or none.
<1>5. ASSUME NEW most \in Nat, n <= most
      PROVE  Serial!Outcome(t, most)
  <2>1. Places[t] = "waiting" /\ Arguments' = Arguments
    BY <1>1, SeenWaiting DEF Live, Arguments
  <2>2. CASE Finish(t)
    <3>1. pc'[t] = "done" /\ \A u \in Tasks : u # t => pc'[u] = pc[u]
      BY <2>2 DEF Finish, Goto, PipelineInv, PipelineTypeOK
    <3>2. Places' = [Places EXCEPT ![t] = "done"]
      BY <3>1, OneMoves DEF Busy
    <3>3. n \in 0..most /\ timeline' = timeline \cup {<<t, i>> : i \in 1..n}
      BY <1>2, <1>5, <2>2, PipelineAssumption DEF Finish
    <3> QED
      BY <2>1, <3>2, <3>3 DEF Serial!Outcome, Serial!End
  <2>3. CASE ProcessingFails(t)
    <3>1. /\ pc'[t] = "failed" /\ \A u \in Tasks : u # t => pc'[u] = pc[u]
          /\ timeline' = timeline
      BY <2>3 DEF ProcessingFails, Goto, PipelineInv, PipelineTypeOK
    <3>2. Places' = [Places EXCEPT ![t] = "failed"]
      BY <3>1, OneMoves DEF Busy
    <3> QED
      BY <2>1, <3>1, <3>2 DEF Serial!Outcome, Serial!End
  <2> QED
    BY <2>2, <2>3
<1>6. CASE e.kind = "audio"
  <2>1. /\ Serial!Newer(e, b.cursor)
        /\ n <= IF e.is_final THEN MaxWindows + 1 ELSE MaxWindows
    BY <1>1, <1>6 DEF Pending
  <2>2. /\ cursors[e.key] = Serial!CursorAt(e)
        /\ stream[e.key] = IF e.is_final THEN Serial!NoStream ELSE e.epoch
    BY <1>1, <1>6 DEF PipelineInv, NothingOvertakes, Serial!CursorAt, Serial!NoStream, NoStream
  <2>3. Serial!Outcome(t, IF e.is_final THEN MaxWindows + 1 ELSE MaxWindows)
    <3>1. (IF e.is_final THEN MaxWindows + 1 ELSE MaxWindows) \in Nat
      BY PipelineAssumption
    <3> QED
      BY <1>5, <2>1, <3>1
  <2>4. Arguments[t] = e
    BY <1>6, SeenAudio
  <2> QED
    BY <1>4, <1>6, <2>1, <2>2, <2>3, <2>4 DEF Serial!Ingest
<1>7. CASE e.kind = "flush"
  <2>1. b.cursor = cursors[e.key] /\ b.stream # NoStream /\ n <= 1 /\ stream[e.key] = NoStream
    BY <1>1, <1>7 DEF Pending, PipelineInv, NothingOvertakes
  <2>2. Serial!Outcome(t, 1)
    BY <1>5, <2>1
  <2>3. Standings' = [Standings EXCEPT ![e.key].stream = Serial!NoStream]
    <3>1. [b EXCEPT !.stream = NoStream] = [cursor |-> cursors[e.key], stream |-> NoStream]
      BY <1>4, <2>1
    <3> QED
      BY <1>4, <2>1, <3>1 DEF Serial!NoStream, NoStream
  <2>4. Arguments[t].kind = "flush" /\ Arguments[t].key = e.key
    BY <1>7, SeenFlush
  <2>5. Standings[e.key].stream # Serial!NoStream
    BY <1>4, <2>1 DEF Serial!NoStream, NoStream
  <2> QED
    BY <2>2, <2>3, <2>4, <2>5 DEF Serial!Flush
<1> QED
  BY <1>2, <1>6, <1>7

LEMMA CrashSimulates ==
    ASSUME Crash
    PROVE  Serial!Crash
<1>1. Places' = [t \in Tasks |-> IF Places[t] = "waiting" THEN "lost" ELSE Places[t]]
  BY DEF Crash, Places, Busy
<1>2. Arguments' = Arguments /\ timeline' = {}
  BY DEF Crash, Arguments
<1>3. Standings' = [k \in Keys |-> Serial!Fresh]
  BY DEF Crash, Standings, Standing, Serial!Fresh, Serial!NoCursor, Serial!NoStream, NoCursor,
         NoStream
<1> QED
  BY <1>1, <1>2, <1>3 DEF Serial!Crash

LEMMA StepSimulates ==
    ASSUME PipelineInv, Pending, [Next]_vars
    PROVE  [Serial!Next]_Serial!serialVars
<1>1. ASSUME NEW t \in Tasks, Arrive(t)
      PROVE  Serial!Next
  <2>1. PICK e \in Audio \cup {FlushOf(k) : k \in Keys} : Receive(t, e)
    BY <1>1 DEF Arrive
  <2> QED
    BY <2>1, ReceiveSimulates DEF Serial!Next
<1>2. ASSUME NEW t \in Tasks, Enter(t)
      PROVE  Serial!Next \/ UNCHANGED Serial!serialVars
  BY <1>2, TurnedAwaySimulates, IngestAudioSimulates, FlushSimulates DEF Enter, Serial!Next
<1>3. ASSUME NEW t \in Tasks, Embedded(t) \/ AssignWindow(t)
      PROVE  UNCHANGED Serial!serialVars
  <2>1. /\ UNCHANGED <<cursors, stream, session, event, before, timeline>>
        /\ \A u \in Tasks : pc'[u] = pc[u] \/ (pc[u] \in Busy /\ pc'[u] \in Busy)
    BY <1>3 DEF Embedded, AssignWindow, Goto, Busy, gatewayVars, PipelineInv, PipelineTypeOK
  <2>2. Places' = Places
    BY <2>1 DEF Places
  <2>3. Arguments' = Arguments /\ Standings' = Standings
    BY <2>1 DEF Arguments, Standings, Standing
  <2> QED
    BY <2>1, <2>2, <2>3, NothingSeen
<1>4. ASSUME NEW t \in Tasks, Finish(t) \/ ProcessingFails(t)
      PROVE  Serial!Next
  BY <1>4, LeavesSimulates DEF Serial!Next
<1>5. CASE Crash
  BY <1>5, CrashSimulates DEF Serial!Next
<1>6. CASE UNCHANGED vars
  <2>1. UNCHANGED <<Places, Arguments, Standings, timeline>>
    BY <1>6 DEF vars, gatewayVars, taskVars, Places, Arguments, Standings, Standing
  <2> QED
    BY <2>1, NothingSeen
<1> QED
  BY <1>1, <1>2, <1>3, <1>4, <1>5, <1>6 DEF Next, Process

\* Calls suspend for embeddings and for the store, and are told apart by one
\* asyncio lock per session; still the calls of a session take effect one after
\* the other, each of them at once and with all of its windows or with none
\* (pipeline.py:47-109).
THEOREM SessionsAreSerial == Spec => ImplementsSerial
<1>1. Init => Serial!Init
  BY DEF Init, GatewayInit, Serial!Init, Places, Arguments, Standings, Standing, Busy, NoEvent,
         Serial!Fresh, Serial!NoCursor, Serial!NoStream, NoCursor, NoStream
<1>2. Init => Pending
  BY DEF Init, Pending, Fresh, Cursor, Busy
<1>3. PipelineInv /\ Pending /\ [Next]_vars => [Serial!Next]_Serial!serialVars
  BY StepSimulates
<1> QED
  BY <1>1, <1>2, <1>3, InitInv, StepInv, PendingStep, PTL DEF Spec, ImplementsSerial, Serial!Spec
=============================================================================
