------------------------------ MODULE Frontend ------------------------------
(***************************************************************************)
(* Window assembly: StreamingAudioFrontend of audio/frontend.py.           *)
(*                                                                         *)
(* Per (tenant, session) the frontend buffers audio, labels its first      *)
(* sample with a time, base, and cuts off windows of Window samples, a     *)
(* Hop apart.  The streams of two sessions share nothing, so this is the   *)
(* stream of one.  Time is counted in samples (one per millisecond), and a *)
(* sample is represented by the epoch and the time at which it was recorded,*)
(* as its packet tells them: labels can then be compared with contents.    *)
(* Packets are validated against their timestamps up to a Tolerance, may   *)
(* leave holes, overlap, come late or start a new epoch.                   *)
(*                                                                         *)
(* Voice activity detection picks those of the windows that are passed on:  *)
(* result has them all, and whoever goes on from there makes the choice.   *)
(* chunk_id, and the counter it is made of, name windows in logs only and  *)
(* are left out.  A stretch is what is buffered between two resets; origin,*)
(* cuts, missing, surplus and unheard are its histories.                   *)
(***************************************************************************)
EXTENDS Integers, Sequences, FiniteSets

CONSTANTS Epochs,      \* client_epoch
          Times,       \* start_ms and end_ms
          Sizes,       \* number of samples in a packet
          Window, Hop, Frame,   \* window_ms, hop_ms and frame_ms of AudioConfig
          MinFlush,    \* shortest tail that a flush makes a window of
          Tolerance,   \* by which payload and timestamps may disagree
          MaxSurplus   \* bound of the model on `surplus`

\* AudioConfig.__post_init__, AudioChunk.__post_init__
ASSUME FrontendAssumption ==
    /\ Epochs \subseteq Nat /\ Times \subseteq Nat /\ Sizes \subseteq Nat \ {0}
    /\ Hop \in Nat \ {0} /\ Window \in Nat /\ Hop <= Window
    /\ Frame \in Nat /\ MinFlush \in Nat \ {0} /\ Tolerance \in Nat /\ MaxSurplus \in Nat

VARIABLES stream,    \* the session's entry of _states
          result,    \* the windows that the last call cut off
          origin,    \* history: the first label of the stretch
          cuts,      \* history: labels at which windows of the stretch begin
          missing,   \* history: time that no sample of the stretch stands for
          surplus,   \* history: samples of the stretch that stand for no time
          unheard    \* history: labels of the stretch's samples that no window had

frontendVars == <<stream, result, origin, cuts, missing, surplus, unheard>>
-----------------------------------------------------------------------------
Greatest(a, b) == IF a >= b THEN a ELSE b
Least(a, b) == IF a <= b THEN a ELSE b

NoStream == [epoch |-> -1, audio |-> <<>>, base |-> 0, expected |-> 0]

Sample == [epoch : Epochs, at : Nat]

Stream == [epoch : Epochs, audio : Seq(Sample), base : Nat, expected : Nat]
            \cup {NoStream}

WindowType == [start : Nat, end : Nat, audio : Seq(Sample)]

\* The packets that push() does not reject.
Chunks == {c \in [epoch : Epochs, start : Times, end : Times, size : Sizes] :
             /\ c.start < c.end
             /\ c.size - (c.end - c.start) \in (-Tolerance)..Tolerance}

\* The stream that a packet belongs to: a new one for a new epoch.
Opened(c) ==
    IF stream.epoch = c.epoch THEN stream
    ELSE [epoch |-> c.epoch, audio |-> <<>>, base |-> c.start, expected |-> c.start]

X_NeverMaterial(s, c) == FALSE
IsMaterialGap(s, c) == c.start - s.expected > Frame

Overlap(s, c) == Greatest(0, s.expected - c.start)

\* The samples of a packet without the first n.
Samples(c, n) == [i \in 1..(c.size - n) |-> [epoch |-> c.epoch, at |-> c.start + n + i - 1]]

\* The stream a packet is appended to.
Cleared(c) == LET s == Opened(c)
              IN  IF IsMaterialGap(s, c) THEN [s EXCEPT !.audio = <<>>, !.base = c.start]
                  ELSE s

X_AppendedWhole(c) == LET s == Cleared(c)
                      IN  [s EXCEPT !.audio = @ \o Samples(c, 0),
                                    !.expected = Greatest(@, c.end)]
Appended(c) == LET s == Cleared(c)
               IN  [s EXCEPT !.audio = @ \o Samples(c, Overlap(s, c)),
                             !.expected = Greatest(@, c.end)]

X_LeavesOne(s) == IF Len(s.audio) <= Window THEN 0
                  ELSE (Len(s.audio) - Window - 1) \div Hop + 1
WindowCount(s) == IF Len(s.audio) < Window THEN 0
                  ELSE (Len(s.audio) - Window) \div Hop + 1

WindowAt(s, k) == [start |-> s.base + k * Hop, end |-> s.base + k * Hop + Window,
                   audio |-> SubSeq(s.audio, k * Hop + 1, k * Hop + Window)]

Windows(s) == {WindowAt(s, k) : k \in 0..(WindowCount(s) - 1)}

\* What is left of a stream when its complete windows are cut off.
X_NextWindow(s) == LET n == WindowCount(s) * Window
                   IN  [s EXCEPT !.audio = SubSeq(@, n + 1, Len(@)), !.base = @ + n]
Remainder(s) == LET n == WindowCount(s) * Hop
                IN  [s EXCEPT !.audio = SubSeq(@, n + 1, Len(@)), !.base = @ + n]

\* Labels: of what a stream buffers, and of what windows are made of.
Buffered(s) == s.base..(s.base + Len(s.audio) - 1)
Heard(windows) == UNION {w.start..(w.end - 1) : w \in windows}

\* What a flush cuts off: at most one window.
X_LongerTail(s) == IF Len(s.audio) <= MinFlush THEN {}
                   ELSE {[start |-> s.base, end |-> s.base + Len(s.audio), audio |-> s.audio]}
TailOf(s) == IF Len(s.audio) < MinFlush THEN {}
             ELSE {[start |-> s.base, end |-> s.base + Len(s.audio), audio |-> s.audio]}
-----------------------------------------------------------------------------
(* The operations.  is_final lets ingest_audio() flush right after push(). *)

Leaves(s, windows, final) ==
    /\ stream' = IF final THEN NoStream ELSE s
    /\ result' = windows \cup (IF final THEN TailOf(s) ELSE {})

\* The packet holds nothing new.
IsKnown(c) == c.start < Opened(c).expected /\ Overlap(Opened(c), c) >= c.size

PushKnown(c, final) ==
    /\ IsKnown(c)
    /\ Leaves(stream, {}, final)
    /\ origin' = IF final THEN 0 ELSE origin
    /\ cuts' = IF final THEN {} ELSE cuts
    /\ unheard' = unheard \ Heard(result')
    /\ UNCHANGED <<missing, surplus>>

\* What the packet adds to the histories of its stretch.
Accounts(c, final) ==
    LET isNew == stream.epoch # c.epoch \/ IsMaterialGap(stream, c)
        gap == Greatest(0, c.start - stream.expected)
        lacks == (c.end - c.start) - c.size
    IN  /\ origin' = IF final THEN 0 ELSE IF isNew THEN c.start ELSE origin
        /\ cuts' = IF final THEN {}
                   ELSE (IF isNew THEN {} ELSE cuts) \cup {w.start : w \in Windows(Appended(c))}
        /\ missing' = (IF isNew THEN 0 ELSE missing + gap) + Greatest(0, lacks)
        /\ surplus' = (IF isNew THEN 0 ELSE surplus) + Greatest(0, -lacks)
        /\ unheard' = (IF isNew THEN Buffered(Appended(c))
                       ELSE unheard \cup (Buffered(Appended(c)) \ Buffered(stream)))
                        \ Heard(result')
        /\ surplus' <= MaxSurplus

PushNew(c, final) ==
    /\ ~IsKnown(c)
    /\ Leaves(Remainder(Appended(c)), Windows(Appended(c)), final)
    /\ Accounts(c, final)

Flush == /\ stream' = NoStream
         /\ result' = TailOf(stream)
         /\ origin' = 0 /\ cuts' = {}
         /\ unheard' = unheard \ Heard(result')
         /\ UNCHANGED <<missing, surplus>>

FrontendInit == /\ stream = NoStream /\ result = {}
                /\ origin = 0 /\ cuts = {} /\ missing = 0 /\ surplus = 0
                /\ unheard = {}

FrontendNext == \/ \E c \in Chunks, final \in BOOLEAN : PushKnown(c, final) \/ PushNew(c, final)
                \/ Flush

FrontendSpec == FrontendInit /\ [][FrontendNext]_frontendVars
-----------------------------------------------------------------------------
(* Properties *)

\* Type correctness; no complete window stays in the buffer.
FrontendTypeOK == /\ stream \in Stream /\ Len(stream.audio) < Window
                  /\ result \subseteq WindowType
                  /\ origin \in Nat /\ cuts \subseteq Nat
                  /\ missing \in Nat /\ surplus \in Nat /\ unheard \subseteq Nat

\* A recording without a break: neighbours are of one epoch, and at most a
\* frame and the tolerance of their packets apart.
Unbroken(audio) ==
    \A i \in 1..(Len(audio) - 1) :
      /\ audio[i].epoch = audio[i + 1].epoch
      /\ audio[i + 1].at - audio[i].at \in (1 - Tolerance)..(1 + Frame + Tolerance)

\* No window, and no buffer, spans a material gap, joins two epochs or holds
\* audio twice ("resets after a material gap", docs/architecture.md:14-16).
OneStretch == Unbroken(stream.audio) /\ \A w \in result : Unbroken(w.audio)

Labelled(base, audio) == \A i \in 1..Len(audio) :
                           audio[i].at - (base + i - 1) \in (-surplus)..missing

\* Labels tell when the audio was recorded, up to the holes that were too small
\* to fill and the payloads that did not have their exact length: without
\* them, however packets overlap, labels are exact.
LabelsFollowAudio == /\ Labelled(stream.base, stream.audio)
                     /\ \A w \in result : Labelled(w.start, w.audio)

\* Windows of a stretch begin exactly one hop apart, the first of them with its
\* first sample, up to what is still buffered ("windows with a 0.75-second hop",
\* docs/architecture.md:15-16).
EveryHop == stream # NoStream =>
              cuts = {t \in origin..(stream.base - 1) : (t - origin) % Hop = 0}

\* While a stretch lasts, no sample leaves the buffer without having been in a
\* window, so what a material gap or a new epoch discards unheard
\* (frontend.py:60-72) is less than a hop, or than a window if none was complete.
\* What a flush discards (frontend.py:114-115) is less than the shortest tail.
LittleIsLost == IF stream = NoStream THEN Cardinality(unheard) < MinFlush
                ELSE /\ unheard \subseteq Buffered(stream)
                     /\ Cardinality(unheard) < IF cuts = {} THEN Window ELSE Hop
=============================================================================
