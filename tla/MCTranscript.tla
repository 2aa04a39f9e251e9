---------------------------- MODULE MCTranscript ----------------------------
(* Packets of two samples; events without words, with two words, and with     *)
(* words in the wrong order or outside of the event.                          *)
EXTENDS Transcript, TLC

CONSTANTS LastEpoch, MidTime, Alice, Bob

MCEpochs == 0..LastEpoch
MCTimes == {0, 2, 3, 5, 6}
MCSizes == {2}

Spoken == {e \in [start : MCTimes, end : MCTimes] : e.start < e.end}
MCEvents == {[start |-> e.start, end |-> e.end, words |-> <<>>] : e \in Spoken}
            \cup {[start |-> e.start, end |-> e.end,
                   words |-> <<[start |-> e.start, end |-> MidTime],
                               [start |-> MidTime, end |-> e.end]>>] :
                     e \in {x \in Spoken : x.start < MidTime /\ MidTime < x.end}}
            \cup {[start |-> 0, end |-> MidTime, words |-> <<w, v>>] :
                     v, w \in {[start |-> 0, end |-> 2], [start |-> MidTime, end |-> 5]}}

MCOutcomes == {[speaker |-> Unknown, confidence |-> 0], [speaker |-> Alice, confidence |-> 1],
               [speaker |-> Bob, confidence |-> 2]}
MCSpeakers == {Alice, Bob}
=============================================================================
