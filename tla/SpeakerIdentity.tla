-------------------------- MODULE SpeakerIdentity --------------------------
(***************************************************************************)
(* What a session's speaker identities promise: each utterance of enough   *)
(* quality is, in one indivisible step, either enrolled as a new speaker   *)
(* whose identifier was never used before or added to a known one; names   *)
(* change only when a rename says so.  Nothing is ever taken away.         *)
(* Assignment, with its locks, snapshots and store calls, implements this. *)
(***************************************************************************)
EXTENDS Integers

CONSTANTS Tasks,   \* calls of assign() and rename()
          Ids,     \* speaker numbers: n stands for the identifier "spk_n"
          Names    \* display names

VARIABLES speakers,  \* identifier -> the utterances in its centroid, its name
          answer     \* what each call has been answered, once that is settled

identityVars == <<speakers, answer>>

NoName == "no_name"

\* Answers: the identifier a caller was given, or a word.
Speaker(id) == [says |-> "speaker", id |-> id]
Word(w) == [says |-> w, id |-> 0]
-----------------------------------------------------------------------------
Init ==
    /\ \E known \in SUBSET Ids :
          speakers = [s \in known |-> [samples |-> {}, name |-> NoName]]
    /\ answer = [t \in Tasks |-> Word("none")]

Enrol(t, id) ==
    /\ answer[t] = Word("none")
    /\ \A s \in DOMAIN speakers : s < id
    /\ speakers' = [s \in DOMAIN speakers \cup {id} |->
                       IF s = id THEN [samples |-> {t}, name |-> NoName] ELSE speakers[s]]
    /\ answer' = [answer EXCEPT ![t] = Speaker(id)]

Recognise(t, id) ==
    /\ answer[t] = Word("none")
    /\ id \in DOMAIN speakers
    /\ speakers' = [speakers EXCEPT ![id].samples = @ \cup {t}]
    /\ answer' = [answer EXCEPT ![t] = Speaker(id)]

\* Too little quality: the caller gets spk_unknown and nothing is learned.
Ignore(t) ==
    /\ answer[t] = Word("none")
    /\ answer' = [answer EXCEPT ![t] = Word("unknown")]
    /\ UNCHANGED speakers

Rename(t, id, name) ==
    /\ answer[t] = Word("none")
    /\ id \in DOMAIN speakers
    /\ speakers' = [speakers EXCEPT ![id].name = name]
    /\ answer' = [answer EXCEPT ![t] = Word("renamed")]

RenameNobody(t, id) ==
    /\ answer[t] = Word("none")
    /\ id \notin DOMAIN speakers
    /\ answer' = [answer EXCEPT ![t] = Word("not_found")]
    /\ UNCHANGED speakers

Next ==
    \E t \in Tasks :
        \/ Ignore(t)
        \/ \E id \in Ids :
              \/ Enrol(t, id)
              \/ Recognise(t, id)
              \/ RenameNobody(t, id)
              \/ \E name \in Names : Rename(t, id, name)

Spec == Init /\ [][Next]_identityVars
=============================================================================
