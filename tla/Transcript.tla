----------------------------- MODULE Transcript -----------------------------
(***************************************************************************)
(* From audio packets to attributed words: the frontend and the timeline   *)
(* of one session, joined as in ingest_audio(), flush_session() and        *)
(* align_stt() of pipeline.py.                                             *)
(*                                                                         *)
(* A call holds the session's lock from the frontend to the timeline, so   *)
(* no other packet or flush comes in between (Pipeline, NothingOvertakes), *)
(* and STT events only read the timeline: here a call is one step, and the *)
(* answer to an event is a function of the timeline, judged for all events *)
(* in every state.  Inference and assignment are a choice of speaker and   *)
(* confidence per window; when they fail, none of the call's windows gets  *)
(* to the timeline, as when none of them is speech.  The gateway's part is *)
(* that epochs never go back.                                              *)
(***************************************************************************)
EXTENDS Frontend, Timeline

CONSTANTS Speakers,      \* stable speaker identifiers
          Outcomes,      \* [speaker, confidence] that assign() may give a window
          MaxSegments,   \* bound of the model on the segments of a timeline
          Events         \* STT events: [start, end, words], words a sequence

ASSUME OutcomesAssumption ==
    Outcomes \subseteq [speaker : Speakers \cup {Unknown}, confidence : Nat]
\* Nothing is asked of the times in an event: server.py does not validate them.
ASSUME EventsAssumption ==
    Events \subseteq [start : Int, end : Int, words : Seq([start : Int, end : Int])]

VARIABLES line,     \* SpeakerTimeline._segments of the session
          newest    \* the epoch of the gateway's cursor, 0 when there is none

vars == <<frontendVars, line, newest>>
-----------------------------------------------------------------------------
Segment == [start : Nat, end : Nat, speaker : Speakers \cup {Unknown},
            confidence : Nat, revision : {1}]

\* The segment of a window: OnlineSpeakerAssigner.assign().
SegmentOf(w, outcome) == [start |-> w.start, end |-> w.end, speaker |-> outcome.speaker,
                          confidence |-> outcome.confidence, revision |-> 1]

\* Voice activity detection, _process_features() and timeline.add().
Attribute == \E speech \in SUBSET result' : \E outcome \in [speech -> Outcomes] :
               /\ line' = Add(line, {SegmentOf(w, outcome[w]) : w \in speech})
               /\ Cardinality(line') <= MaxSegments

Ingest == \E c \in Chunks, final \in BOOLEAN :
            /\ c.epoch >= newest /\ newest' = c.epoch
            /\ PushKnown(c, final) \/ PushNew(c, final)
            /\ Attribute

FlushSession == /\ Flush /\ UNCHANGED newest
                /\ Attribute

Init == FrontendInit /\ line = {} /\ newest = 0

Next == Ingest \/ FlushSession

Spec == Init /\ [][Next]_vars
-----------------------------------------------------------------------------
(* Properties *)

TypeOK == /\ FrontendTypeOK
          /\ line \subseteq Segment /\ newest \in Epochs \cup {0}
          /\ \A x, y \in line : SameSlot(x, y) => x = y

Within(w, event) == event.start <= w.start /\ w.end <= event.end

\* The speaker of a segment that overlaps a word most, of these one with the
\* greatest confidence; Unknown if none overlaps it.
IsBest(speaker, w, segments) ==
    LET closest == {x \in segments : /\ OverlapMs(w, x) > 0
                                     /\ \A y \in segments : OverlapMs(w, y) <= OverlapMs(w, x)}
    IN  IF closest = {} THEN speaker = Unknown
        ELSE \E x \in closest : /\ x.speaker = speaker
                                /\ \A y \in closest : y.confidence <= x.confidence

\* The answer to an event covers its words once each and in order, changes
\* speaker from span to span, tells when the first and the last word of a span
\* begin and end, and gives each word its best speaker in the whole timeline ("to
\* speaker windows by maximum overlap", docs/architecture.md:28-29, "When no
\* speaker window overlaps, the identifier is spk_unknown",
\* docs/protocol.md:65-66).  For a word that is not within its event only what
\* overlaps the event counts.
BestMatch ==
    \A event \in Events :
      LET spans == AlignStt(event, line)
          words == WordsOf(event)
      IN  /\ spans[1].first = 1 /\ spans[Len(spans)].last = Len(words)
          /\ \A j \in 1..(Len(spans) - 1) : /\ spans[j + 1].first = spans[j].last + 1
                                            /\ spans[j + 1].speaker # spans[j].speaker
          /\ \A j \in 1..Len(spans) : /\ spans[j].start = words[spans[j].first].start
                                      /\ spans[j].end = words[spans[j].last].end
          /\ \A i \in 1..Len(words) :
               \E j \in 1..Len(spans) :
                 /\ spans[j].first <= i /\ i <= spans[j].last
                 /\ IsBest(spans[j].speaker, words[i],
                           IF Within(words[i], event) THEN line ELSE Query(line, event))

\* Asked again, the service answers the same about a word, unless a new segment
\* overlaps it at least as well, or what it went by ended more than Retention
\* before a segment that is kept.
AnswersAreStable ==
    [][line' # line =>
         \A w \in {e \in Events : e.words = <<>>}, old \in line :
           OverlapMs(w, old) > 0 /\ old = BestSegment(w, line) =>
             \/ BestSpeaker(w, line') = old.speaker
             \/ \E x \in line' \ line : OverlapMs(w, x) >= OverlapMs(w, old)
             \/ \E x \in line' : old.end < x.end - Retention]_vars
=============================================================================
