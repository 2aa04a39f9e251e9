------------------------------ MODULE Timeline ------------------------------
(***************************************************************************)
(* The speaker timeline of a session, and the attribution of words:        *)
(* SpeakerTimeline and TimelineAligner of alignment.py.                    *)
(*                                                                         *)
(* The timeline of a session is the set of its segments.  The code keeps   *)
(* it as a list sorted by (start_ms, end_ms), of which there is one        *)
(* segment each: the order decides only which segment is the last, and     *)
(* which of two equally good ones is found first.  Texts are left out: a   *)
(* span names the words it joins by their positions.                       *)
(***************************************************************************)
EXTENDS Integers, Sequences

CONSTANTS Retention,   \* retention_ms
          Unknown      \* "spk_unknown"

ASSUME RetentionAssumption == Retention \in Nat

Lower(a, b) == IF a <= b THEN a ELSE b
Higher(a, b) == IF a >= b THEN a ELSE b

OverlapMs(x, y) == Higher(0, Lower(x.end, y.end) - Higher(x.start, y.start))
-----------------------------------------------------------------------------
(* SpeakerTimeline *)

SameSlot(x, y) == x.start = y.start /\ x.end = y.end

Supersedes(new, prior) == new.revision >= prior.revision

\* The order of the list.
SortsBefore(x, y) == x.start < y.start \/ (x.start = y.start /\ x.end < y.end)

LastOf(line) == CHOOSE x \in line : \A y \in line : y = x \/ SortsBefore(y, x)

X_FromTheStart(line) == {x \in line : x.start >= LastOf(line).end - Retention}
Retained(line) == {x \in line : x.end >= LastOf(line).end - Retention}

\* add(new), for segments of one call, which have different slots.
Add(line, new) ==
    Retained({x \in line : ~\E n \in new : SameSlot(n, x) /\ Supersedes(n, x)}
             \cup {n \in new : \A x \in line : SameSlot(n, x) => Supersedes(n, x)})

Query(line, event) == {x \in line : OverlapMs(event, x) > 0}
-----------------------------------------------------------------------------
(* TimelineAligner *)

\* The order of sorted(..., reverse=True), which is stable.
X_StartsEarlier(w, x, y) == SortsBefore(x, y)
RanksBefore(w, x, y) ==
    LET ox == OverlapMs(w, x)
        oy == OverlapMs(w, y)
    IN  \/ ox > oy
        \/ ox = oy /\ x.confidence > y.confidence
        \/ ox = oy /\ x.confidence = y.confidence /\ SortsBefore(x, y)

BestSegment(w, line) == CHOOSE x \in line : \A y \in line \ {x} : RanksBefore(w, x, y)

BestSpeaker(w, line) ==
    IF line = {} \/ OverlapMs(w, BestSegment(w, line)) <= 0 THEN Unknown
    ELSE BestSegment(w, line).speaker

\* What is attributed: the words, or the event as a whole if it has none.
WordsOf(event) == IF event.words = <<>> THEN <<event>> ELSE event.words

\* One step of the loop that joins neighbours with the same speaker.
Join(words, line, spans, i) ==
    LET speaker == BestSpeaker(words[i], line)
        n == Len(spans)
    IN  IF n > 0 /\ spans[n].speaker = speaker
        THEN [spans EXCEPT ![n] = [@ EXCEPT !.last = i, !.end = words[i].end]]
        ELSE Append(spans, [speaker |-> speaker, first |-> i, last |-> i,
                            start |-> words[i].start, end |-> words[i].end])

\* align(event, line)
Align(event, line) ==
    LET words == WordsOf(event)
        joined[i \in 0..Len(words)] ==
          IF i = 0 THEN <<>> ELSE Join(words, line, joined[i - 1], i)
    IN  joined[Len(words)]

\* DiarizationPipeline.align_stt(): only what overlaps the event is looked at.
AlignStt(event, line) == Align(event, Query(line, event))
=============================================================================
