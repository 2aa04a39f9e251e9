----------------------------- MODULE Assignment -----------------------------
(***************************************************************************)
(* OnlineSpeakerAssigner (assignment.py) over SQLiteSpeakerStore           *)
(* (state/store.py), for one session: its rows are reached only through    *)
(* its own (tenant, session) key, its own lock and its own counter.        *)
(*                                                                         *)
(* A call of assign() or rename() is a task of a service process.  Each    *)
(* process has one asyncio lock per session, held across the store calls;  *)
(* each store call runs in a thread, so a task suspends before and after   *)
(* it.  The store itself is one statement or one immediate transaction     *)
(* per call.  Several processes may share the file; a process may crash    *)
(* and start again.                                                        *)
(*                                                                         *)
(* Embeddings are abstracted away: _nearest() may find any listed profile  *)
(* above the threshold, or none.  A centroid is the set of the utterances  *)
(* it has absorbed, which sample_count counts.                             *)
(***************************************************************************)
EXTENDS Integers, FiniteSets

CONSTANTS Procs,    \* service processes that share the store
          Tasks,    \* calls of assign() and rename()
          ProcOf,   \* [Tasks -> Procs]
          Ids,      \* speaker numbers; f"spk_{n:03d}" is injective
          Known,    \* the numbers an older database may already use
          Names,    \* display names
          NoTask    \* the owner of a free lock

ASSUME IdsAssumption == Ids \subseteq Nat \ {0} /\ Known \subseteq Ids
ASSUME ProcOfAssumption == ProcOf \in [Tasks -> Procs]
ASSUME NoTaskAssumption == NoTask \notin Tasks

VARIABLES profiles,   \* table speaker_profiles: the rows of the session
          counter,    \* table session_counters: next_speaker, 0 when no row
          connection, \* of each process: "open" or "closed"
          lock,       \* of each process: the task that holds it
          pc,         \* where each task is suspended
          request,    \* its arguments
          snapshot,   \* the profiles it listed
          answer,     \* what its last store call settled
          enrolled    \* history: which task each identifier was created for

vars == <<profiles, counter, connection, lock, pc, request, snapshot, answer, enrolled>>

NoName == "no_name"
Nobody == [s \in {} |-> NoName]
Profile == [samples : SUBSET Tasks, name : Names \cup {NoName}]

Assign == [op |-> "assign"]
Request == [op : {"none", "assign"}] \cup [op : {"rename"}, id : Ids, name : Names]

\* Between taking and releasing the lock.
Inside == {"locked", "listed", "written"}
Ended == {"done", "failed", "lost"}
PC == {"idle", "waiting"} \cup Inside \cup Ended

\* An answer is an identifier or a word.
Speaker(id) == [says |-> "speaker", id |-> id]
Word(w) == [says |-> w, id |-> 0]
Answer == [says : {"speaker"}, id : Ids]
          \cup [says : {"none", "unknown", "renamed", "not_found"}, id : {0}]
-----------------------------------------------------------------------------
(* The store *)

\* next_id of create_profile: the counter, or for a database that predates
\* the counters one more than the largest identifier.
X_LegacyStartsAtOne(id) == IF counter # 0 THEN id = counter ELSE id = 1
IsNextId(id) ==
    IF counter # 0
    THEN id = counter
    ELSE /\ \A s \in DOMAIN profiles : s < id
         /\ id = 1 \/ id - 1 \in DOMAIN profiles

X_CounterStays(id) == id
CounterAfter(id) == id + 1

\* The row that create_profile inserts.
X_InsertIsLost(t, id) == profiles
WithNewProfile(t, id) ==
    [s \in DOMAIN profiles \cup {id} |->
        IF s = id THEN [samples |-> {t}, name |-> NoName] ELSE profiles[s]]

\* _updated_profile computes the whole row from the listed one, and
\* update_profile writes it back.
WithUpdate(t, id) ==
    [profiles EXCEPT ![id] = [samples |-> snapshot[t][id].samples \cup {t},
                              name |-> snapshot[t][id].name]]

\* rename_speaker updates one column of an existing row.
X_RenameUpserts(id, name) ==
    [s \in DOMAIN profiles \cup {id} |-> IF s = id THEN [name |-> name] ELSE profiles[s]]
WithName(id, name) ==
    [s \in DOMAIN profiles |-> IF s = id THEN [profiles[s] EXCEPT !.name = name]
                                         ELSE profiles[s]]
-----------------------------------------------------------------------------
(* assign() and rename(), up to the lock *)

Goto(t, place) == pc' = [pc EXCEPT ![t] = place]

AssignUnknown(t) ==
    /\ pc[t] = "idle"
    /\ Goto(t, "done")
    /\ answer' = [answer EXCEPT ![t] = Word("unknown")]
    /\ UNCHANGED <<profiles, counter, connection, lock, request, snapshot, enrolled>>

\* _normalize raises: an embedding of zero or infinite norm.
AssignDegenerate(t) ==
    /\ pc[t] = "idle"
    /\ Goto(t, "failed")
    /\ UNCHANGED <<profiles, counter, connection, lock, request, snapshot, answer, enrolled>>

Begin(t, req) ==
    /\ pc[t] = "idle"
    /\ Goto(t, "waiting")
    /\ request' = [request EXCEPT ![t] = req]
    /\ UNCHANGED <<profiles, counter, connection, lock, snapshot, answer, enrolled>>

X_NoLock(t) == TRUE
LockIsFree(t) == lock[ProcOf[t]] = NoTask

Acquire(t) ==
    /\ pc[t] = "waiting"
    /\ LockIsFree(t)
    /\ Goto(t, "locked")
    /\ lock' = [lock EXCEPT ![ProcOf[t]] = t]
    /\ UNCHANGED <<profiles, counter, connection, request, snapshot, answer, enrolled>>

X_KeepsLock(t) == UNCHANGED lock
Release(t) == lock' = [lock EXCEPT ![ProcOf[t]] = NoTask]
-----------------------------------------------------------------------------
(* Under the lock: one action per store call *)

Discard(t) == snapshot' = [snapshot EXCEPT ![t] = Nobody]

CanUseStore(t) == connection[ProcOf[t]] = "open"

List(t) ==
    /\ pc[t] = "locked" /\ request[t].op = "assign"
    /\ CanUseStore(t)
    /\ snapshot' = [snapshot EXCEPT ![t] = profiles]
    /\ Goto(t, "listed")
    /\ UNCHANGED <<profiles, counter, connection, lock, request, answer, enrolled>>

\* Nobody listed is near enough: one immediate transaction.
Create(t) ==
    /\ pc[t] = "listed"
    /\ CanUseStore(t)
    /\ \E id \in Ids :
          /\ IsNextId(id)
          /\ counter' = CounterAfter(id)
          /\ profiles' = WithNewProfile(t, id)
          /\ answer' = [answer EXCEPT ![t] = Speaker(id)]
          /\ enrolled' = enrolled \cup {<<id, t>>}
    /\ Goto(t, "written")
    /\ Discard(t)
    /\ UNCHANGED <<connection, lock, request>>

\* The nearest of the listed profiles is near enough.
Update(t, id) ==
    /\ pc[t] = "listed"
    /\ CanUseStore(t)
    /\ id \in DOMAIN snapshot[t] /\ id \in DOMAIN profiles
    /\ profiles' = WithUpdate(t, id)
    /\ answer' = [answer EXCEPT ![t] = Speaker(id)]
    /\ Goto(t, "written")
    /\ Discard(t)
    /\ UNCHANGED <<counter, connection, lock, request, enrolled>>

Rename(t) ==
    /\ pc[t] = "locked" /\ request[t].op = "rename"
    /\ CanUseStore(t)
    /\ profiles' = WithName(request[t].id, request[t].name)
    /\ answer' = [answer EXCEPT ![t] = IF request[t].id \in DOMAIN profiles
                                       THEN Word("renamed") ELSE Word("not_found")]
    /\ Goto(t, "written")
    /\ UNCHANGED <<counter, connection, lock, request, snapshot, enrolled>>

\* The store call raises (a locked or full database, a closed connection); a
\* transaction is rolled back and the lock is released on the way out.
StoreFails(t) ==
    /\ pc[t] \in {"locked", "listed"}
    /\ Goto(t, "failed")
    /\ Release(t)
    /\ Discard(t)
    /\ UNCHANGED <<profiles, counter, connection, request, answer, enrolled>>

\* The store call has returned; the task leaves the lock and answers.
Return(t) ==
    /\ pc[t] = "written"
    /\ Goto(t, "done")
    /\ Release(t)
    /\ UNCHANGED <<profiles, counter, connection, request, snapshot, answer, enrolled>>
-----------------------------------------------------------------------------
(* The process *)

\* assigner.close(): it does not wait for the session locks.
CloseStore(p) ==
    /\ connection[p] = "open"
    /\ connection' = [connection EXCEPT ![p] = "closed"]
    /\ UNCHANGED <<profiles, counter, lock, pc, request, snapshot, answer, enrolled>>

\* The process dies and starts again: its tasks and locks are gone, what was
\* committed stays.
Crash(p) ==
    /\ pc' = [t \in Tasks |-> IF ProcOf[t] = p /\ pc[t] \in Inside \cup {"waiting"}
                              THEN "lost" ELSE pc[t]]
    /\ lock' = [lock EXCEPT ![p] = NoTask]
    /\ connection' = [connection EXCEPT ![p] = "open"]
    /\ snapshot' = [t \in Tasks |-> IF ProcOf[t] = p THEN Nobody ELSE snapshot[t]]
    /\ UNCHANGED <<profiles, counter, request, answer, enrolled>>
-----------------------------------------------------------------------------
\* The database may be new, or hold the profiles of an older version without
\* counters, or have been used.
Init ==
    /\ \E known \in SUBSET Known :
          /\ profiles = [s \in known |-> [samples |-> {}, name |-> NoName]]
          /\ counter \in {0} \cup {n \in Ids : (\A s \in known : s < n) /\ n - 1 \in known}
          /\ enrolled = known \X {NoTask}
    /\ connection = [p \in Procs |-> "open"]
    /\ lock = [p \in Procs |-> NoTask]
    /\ pc = [t \in Tasks |-> "idle"]
    /\ request = [t \in Tasks |-> [op |-> "none"]]
    /\ snapshot = [t \in Tasks |-> Nobody]
    /\ answer = [t \in Tasks |-> Word("none")]

Call(t) ==
    \/ AssignUnknown(t)
    \/ AssignDegenerate(t)
    \/ Begin(t, Assign)
    \/ \E id \in Ids, name \in Names : Begin(t, [op |-> "rename", id |-> id, name |-> name])

StoreCall(t) ==
    \/ List(t)
    \/ Create(t)
    \/ \E id \in Ids : Update(t, id)
    \/ Rename(t)
    \/ StoreFails(t)

Next ==
    \/ \E t \in Tasks : Call(t) \/ Acquire(t) \/ StoreCall(t) \/ Return(t)
    \/ \E p \in Procs : CloseStore(p) \/ Crash(p)

Spec == Init /\ [][Next]_vars

\* The event loop resumes every task that can go on, a store call ends (SQLite
\* gives up on a lock after its timeout), and an asyncio lock is handed over.
\* Nobody is obliged to call, to close or to crash.
FairSpec ==
    /\ Spec
    /\ \A t \in Tasks : /\ WF_vars(Acquire(t))
                        /\ WF_vars(StoreCall(t))
                        /\ WF_vars(Return(t))
-----------------------------------------------------------------------------
(* Properties *)

TypeOK ==
    /\ profiles \in [DOMAIN profiles -> Profile] /\ DOMAIN profiles \subseteq Ids
    /\ counter \in Nat
    /\ connection \in [Procs -> {"open", "closed"}]
    /\ lock \in [Procs -> Tasks \cup {NoTask}]
    /\ pc \in [Tasks -> PC]
    /\ request \in [Tasks -> Request]
    /\ DOMAIN snapshot = Tasks
    /\ \A t \in Tasks : /\ snapshot[t] \in [DOMAIN snapshot[t] -> Profile]
                        /\ DOMAIN snapshot[t] \subseteq Ids
    /\ answer \in [Tasks -> Answer]
    /\ enrolled \in SUBSET (Ids \X (Tasks \cup {NoTask}))

\* The counter row, once there is one, is above every identifier in use: a
\* restart, a legacy database or a second process never makes create_profile
\* hand out an identifier that exists (store.py:190-248).
CounterAboveIds == counter # 0 => \A s \in DOMAIN profiles : s < counter

\* No identifier is handed out twice, nor one that a legacy database already
\* uses: two utterances that were both judged new never share a speaker.
OneEnrolmentPerId == \A a, b \in enrolled : a[1] = b[1] => a = b

\* An identifier that was given to a client is in the store, and stays there:
\* after a failed call nobody has an invented identifier (docs/architecture.md:79).
AnswersAreStored ==
    \A t \in Tasks : answer[t].says = "speaker" => answer[t].id \in DOMAIN profiles

\* One process: assign() and rename() are as good as indivisible.
Identity == INSTANCE SpeakerIdentity WITH speakers <- profiles
ImplementsIdentity == Identity!Spec

\* Every call that reached the lock comes back, unless its process died.
EveryCallEnds == \A t \in Tasks : pc[t] = "waiting" ~> pc[t] \in Ended

\* docs/architecture.md:39 says that the same store interface serves several
\* service processes that share state.  Were that so, an utterance answered
\* with a speaker would be part of that speaker's centroid from then on.
NoLostSample ==
    \A t \in Tasks :
        pc[t] = "done" /\ answer[t].says = "speaker" => t \in profiles[answer[t].id].samples
=============================================================================
