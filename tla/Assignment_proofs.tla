------------------------- MODULE Assignment_proofs -------------------------
(***************************************************************************)
(* Identifier allocation for any number of service processes that share a  *)
(* store, any number of calls and any crashes, and the mutual exclusion of *)
(* a process's lock.  The counter row alone does not make identifiers      *)
(* unique: it is its being above every row of the table, and every row     *)
(* that was ever enrolled still being there, that carries the induction.   *)
(* For one process, the refinement: the lock keeps the listed snapshot     *)
(* current until the row is written.                                       *)
(***************************************************************************)
EXTENDS Assignment, TLAPS

\* The lock of a process covers its tasks from listing to answering, and only
\* the task that holds it can be between the two.
LockCoversCalls ==
    \A t \in Tasks : pc[t] \in Inside <=> lock[ProcOf[t]] = t

\* What was enrolled is in the table, and so is what a client was told.
EnrolledAreStored == \A e \in enrolled : e[1] \in DOMAIN profiles

Inv == /\ TypeOK
       /\ LockCoversCalls
       /\ CounterAboveIds
       /\ EnrolledAreStored
       /\ OneEnrolmentPerId
       /\ AnswersAreStored

\* The number create_profile picks is above all rows of the table.
LEMMA NextIdIsFresh ==
    ASSUME Inv, NEW id \in Ids, IsNextId(id)
    PROVE  /\ \A s \in DOMAIN profiles : s < id
           /\ id \notin DOMAIN profiles
<1>1. \A s \in DOMAIN profiles : s < id
  BY DEF Inv, CounterAboveIds, IsNextId
<1> QED
  BY <1>1, IdsAssumption

LEMMA InitInv == Init => Inv
<1> SUFFICES ASSUME Init PROVE Inv
  OBVIOUS
<1> USE IdsAssumption, ProcOfAssumption, NoTaskAssumption
<1>1. PICK known \in SUBSET Known :
        /\ profiles = [s \in known |-> [samples |-> {}, name |-> NoName]]
        /\ counter \in {0} \cup {n \in Ids : (\A s \in known : s < n) /\ n - 1 \in known}
        /\ enrolled = known \X {NoTask}
  BY DEF Init
<1>2. DOMAIN profiles = known /\ known \subseteq Ids
  BY <1>1
<1>3. TypeOK
  <2>1. profiles \in [DOMAIN profiles -> Profile] /\ DOMAIN profiles \subseteq Ids
    BY <1>1, <1>2 DEF Profile
  <2>2. counter \in Nat
    BY <1>1
  <2>3. Nobody \in [DOMAIN Nobody -> Profile] /\ DOMAIN Nobody \subseteq Ids
    BY DEF Nobody
  <2>4. /\ DOMAIN snapshot = Tasks
        /\ \A t \in Tasks : snapshot[t] = Nobody
    BY DEF Init
  <2>5. enrolled \in SUBSET (Ids \X (Tasks \cup {NoTask}))
    BY <1>1, <1>2
  <2>6. request \in [Tasks -> Request] /\ answer \in [Tasks -> Answer] /\ pc \in [Tasks -> PC]
    BY DEF Init, Request, Answer, Word, PC
  <2>7. connection \in [Procs -> {"open", "closed"}] /\ lock \in [Procs -> Tasks \cup {NoTask}]
    BY DEF Init
  <2> QED
    BY <2>1, <2>2, <2>3, <2>4, <2>5, <2>6, <2>7 DEF TypeOK
<1>4. LockCoversCalls
  BY DEF Init, LockCoversCalls, Inside
<1>5. CounterAboveIds /\ EnrolledAreStored /\ OneEnrolmentPerId
  BY <1>1, <1>2 DEF CounterAboveIds, EnrolledAreStored, OneEnrolmentPerId
<1>6. AnswersAreStored
  BY DEF Init, AnswersAreStored, Word
<1> QED
  BY <1>3, <1>4, <1>5, <1>6 DEF Inv
-----------------------------------------------------------------------------
\* A step that leaves the store, the enrolments and the answers of speakers
\* alone preserves what is said about them.
LEMMA StoreUntouched ==
    ASSUME Inv, UNCHANGED <<profiles, counter, enrolled>>,
           \A t \in Tasks : answer'[t] = answer[t] \/ answer'[t].says # "speaker"
    PROVE  CounterAboveIds' /\ EnrolledAreStored' /\ OneEnrolmentPerId' /\ AnswersAreStored'
BY DEF Inv, CounterAboveIds, EnrolledAreStored, OneEnrolmentPerId, AnswersAreStored

\* A step of one task that neither takes nor leaves the lock.
LEMMA SameLock ==
    ASSUME Inv, NEW t \in Tasks, NEW place \in PC, Goto(t, place), UNCHANGED lock,
           pc[t] \in Inside <=> place \in Inside
    PROVE  pc' \in [Tasks -> PC] /\ LockCoversCalls'
<1>1. pc' \in [Tasks -> PC] /\ pc'[t] = place /\ \A u \in Tasks : u # t => pc'[u] = pc[u]
  BY DEF Inv, TypeOK, Goto
<1> QED
  BY <1>1 DEF Inv, LockCoversCalls

\* A step of the task that holds the lock, and leaves it.
LEMMA ReleaseLock ==
    ASSUME Inv, NEW t \in Tasks, NEW place \in PC \ Inside, Goto(t, place),
           pc[t] \in Inside, Release(t)
    PROVE  /\ pc' \in [Tasks -> PC] /\ lock' \in [Procs -> Tasks \cup {NoTask}]
           /\ LockCoversCalls'
<1> USE ProcOfAssumption, NoTaskAssumption
<1>1. pc' \in [Tasks -> PC] /\ pc'[t] = place /\ \A u \in Tasks : u # t => pc'[u] = pc[u]
  BY DEF Inv, TypeOK, Goto
<1>2. /\ lock' \in [Procs -> Tasks \cup {NoTask}]
      /\ lock'[ProcOf[t]] = NoTask
      /\ \A p \in Procs : p # ProcOf[t] => lock'[p] = lock[p]
  BY DEF Inv, TypeOK, Release
<1>3. lock[ProcOf[t]] = t
  BY DEF Inv, LockCoversCalls
<1>4. ASSUME NEW u \in Tasks
      PROVE  pc'[u] \in Inside <=> lock'[ProcOf[u]] = u
  <2>1. CASE u = t
    BY <2>1, <1>1, <1>2
  <2>2. CASE u # t /\ ProcOf[u] = ProcOf[t]
    BY <2>2, <1>1, <1>2, <1>3 DEF Inv, LockCoversCalls
  <2>3. CASE u # t /\ ProcOf[u] # ProcOf[t]
    BY <2>3, <1>1, <1>2 DEF Inv, LockCoversCalls
  <2> QED
    BY <2>1, <2>2, <2>3
<1> QED
  BY <1>1, <1>2, <1>4 DEF LockCoversCalls
-----------------------------------------------------------------------------
\* Up to the lock.
LEMMA CallInv ==
    ASSUME Inv, NEW t \in Tasks, Call(t)
    PROVE  Inv'
<1> USE DEF Inv
<1>1. PICK place \in {"done", "failed", "waiting"} : Goto(t, place)
  BY DEF Call, AssignUnknown, AssignDegenerate, Begin
<1>2. /\ UNCHANGED <<profiles, counter, connection, lock, snapshot, enrolled>>
      /\ pc[t] = "idle"
  BY DEF Call, AssignUnknown, AssignDegenerate, Begin
<1>3. answer' \in [Tasks -> Answer]
      /\ \A u \in Tasks : answer'[u] = answer[u] \/ answer'[u].says # "speaker"
  BY DEF Call, AssignUnknown, AssignDegenerate, Begin, TypeOK, Answer, Word
<1>4. request' \in [Tasks -> Request]
  BY DEF Call, AssignUnknown, AssignDegenerate, Begin, TypeOK, Request, Assign
<1>5. pc' \in [Tasks -> PC] /\ LockCoversCalls'
  <2>1. place \in PC /\ place \notin Inside /\ pc[t] \notin Inside
    BY <1>2 DEF PC, Inside, Ended
  <2> QED
    BY <1>1, <1>2, <2>1, SameLock
<1>6. TypeOK'
  BY <1>2, <1>3, <1>4, <1>5 DEF TypeOK
<1> QED
  BY <1>2, <1>3, <1>5, <1>6, StoreUntouched

\* The lock was free, so nobody else of the process is inside.
LEMMA AcquireInv ==
    ASSUME Inv, NEW t \in Tasks, Acquire(t)
    PROVE  Inv'
<1> USE DEF Inv
<1> USE ProcOfAssumption, NoTaskAssumption
<1>1. UNCHANGED <<profiles, counter, connection, request, snapshot, answer, enrolled>>
  BY DEF Acquire
<1>2. /\ pc' \in [Tasks -> PC] /\ pc'[t] = "locked"
      /\ \A u \in Tasks : u # t => pc'[u] = pc[u]
  BY DEF Acquire, Goto, TypeOK, PC, Inside
<1>3. /\ lock' \in [Procs -> Tasks \cup {NoTask}]
      /\ lock[ProcOf[t]] = NoTask /\ lock'[ProcOf[t]] = t
      /\ \A p \in Procs : p # ProcOf[t] => lock'[p] = lock[p]
  BY DEF Acquire, LockIsFree, TypeOK
<1>4. LockCoversCalls'
  <2>1. ASSUME NEW u \in Tasks
        PROVE  pc'[u] \in Inside <=> lock'[ProcOf[u]] = u
    <3>1. CASE u = t
      BY <3>1, <1>2, <1>3 DEF Inside
    <3>2. CASE u # t /\ ProcOf[u] = ProcOf[t]
      BY <3>2, <1>2, <1>3 DEF LockCoversCalls
    <3>3. CASE u # t /\ ProcOf[u] # ProcOf[t]
      BY <3>3, <1>2, <1>3 DEF LockCoversCalls
    <3> QED
      BY <3>1, <3>2, <3>3
  <2> QED
    BY <2>1 DEF LockCoversCalls
<1>5. TypeOK'
  BY <1>1, <1>2, <1>3 DEF TypeOK
<1> QED
  BY <1>1, <1>4, <1>5, StoreUntouched

LEMMA ListInv ==
    ASSUME Inv, NEW t \in Tasks, List(t)
    PROVE  Inv'
<1> USE DEF Inv
<1>1. /\ UNCHANGED <<profiles, counter, connection, lock, request, answer, enrolled>>
      /\ pc[t] = "locked" /\ Goto(t, "listed")
  BY DEF List
<1>2. pc' \in [Tasks -> PC] /\ LockCoversCalls'
  BY <1>1, SameLock DEF PC, Inside
<1>3. TypeOK'
  <2>1. /\ DOMAIN snapshot' = Tasks
        /\ \A u \in Tasks : snapshot'[u] = snapshot[u] \/ snapshot'[u] = profiles
    BY DEF List, TypeOK
  <2>2. \A u \in Tasks : /\ snapshot'[u] \in [DOMAIN snapshot'[u] -> Profile]
                         /\ DOMAIN snapshot'[u] \subseteq Ids
    BY <2>1 DEF TypeOK
  <2> QED
    BY <1>1, <1>2, <2>1, <2>2 DEF TypeOK
<1> QED
  BY <1>1, <1>2, <1>3, StoreUntouched

\* Discarding a snapshot keeps the snapshots well typed.
LEMMA DiscardType ==
    ASSUME Inv, NEW t \in Tasks, Discard(t)
    PROVE  /\ DOMAIN snapshot' = Tasks
           /\ \A u \in Tasks : /\ snapshot'[u] \in [DOMAIN snapshot'[u] -> Profile]
                               /\ DOMAIN snapshot'[u] \subseteq Ids
<1>1. /\ DOMAIN snapshot' = Tasks
      /\ \A u \in Tasks : snapshot'[u] = snapshot[u] \/ snapshot'[u] = Nobody
  BY DEF Discard, Inv, TypeOK
<1>2. Nobody \in [DOMAIN Nobody -> Profile] /\ DOMAIN Nobody \subseteq Ids
  BY DEF Nobody
<1> QED
  BY <1>1, <1>2 DEF Inv, TypeOK

\* The transaction of create_profile.
LEMMA CreateInv ==
    ASSUME Inv, NEW t \in Tasks, Create(t)
    PROVE  Inv'
<1> USE DEF Inv
<1> USE IdsAssumption
<1>1. PICK id \in Ids : /\ IsNextId(id)
                        /\ counter' = CounterAfter(id)
                        /\ profiles' = WithNewProfile(t, id)
                        /\ answer' = [answer EXCEPT ![t] = Speaker(id)]
                        /\ enrolled' = enrolled \cup {<<id, t>>}
  BY DEF Create
<1>2. /\ UNCHANGED <<connection, lock, request>>
      /\ pc[t] = "listed" /\ Goto(t, "written") /\ Discard(t)
  BY DEF Create
<1>3. (\A s \in DOMAIN profiles : s < id) /\ id \notin DOMAIN profiles
  BY <1>1, NextIdIsFresh
<1>4. DOMAIN profiles' = DOMAIN profiles \cup {id}
  BY <1>1 DEF WithNewProfile
<1>5. pc' \in [Tasks -> PC] /\ LockCoversCalls'
  BY <1>2, SameLock DEF PC, Inside
<1>6. TypeOK'
  <2>1. profiles' \in [DOMAIN profiles' -> Profile] /\ DOMAIN profiles' \subseteq Ids
    BY <1>1, <1>4 DEF WithNewProfile, TypeOK, Profile
  <2>2. answer' \in [Tasks -> Answer]
    BY <1>1 DEF TypeOK, Answer, Speaker
  <2>3. enrolled' \in SUBSET (Ids \X (Tasks \cup {NoTask})) /\ counter' \in Nat
    BY <1>1 DEF TypeOK, CounterAfter
  <2> QED
    BY <1>2, <1>5, <2>1, <2>2, <2>3, DiscardType DEF TypeOK
<1>7. CounterAboveIds'
  <2>1. \A s \in DOMAIN profiles' : s < id + 1
    BY <1>3, <1>4 DEF TypeOK
  <2> QED
    BY <1>1, <2>1 DEF CounterAboveIds, CounterAfter
<1>8. EnrolledAreStored'
  BY <1>1, <1>4 DEF EnrolledAreStored
<1>9. OneEnrolmentPerId'
  BY <1>1, <1>3 DEF OneEnrolmentPerId, EnrolledAreStored
<1>10. AnswersAreStored'
  BY <1>1, <1>4 DEF AnswersAreStored, TypeOK, Speaker
<1> QED
  BY <1>5, <1>6, <1>7, <1>8, <1>9, <1>10

\* A write to an existing row changes no identifier.
LEMMA RowWritten ==
    ASSUME Inv, UNCHANGED <<counter, enrolled>>, DOMAIN profiles' = DOMAIN profiles,
           \A t \in Tasks : answer'[t] = answer[t] \/ answer'[t].says # "speaker"
                            \/ answer'[t].id \in DOMAIN profiles
    PROVE  CounterAboveIds' /\ EnrolledAreStored' /\ OneEnrolmentPerId' /\ AnswersAreStored'
BY DEF Inv, CounterAboveIds, EnrolledAreStored, OneEnrolmentPerId, AnswersAreStored

LEMMA UpdateInv ==
    ASSUME Inv, NEW t \in Tasks, NEW id \in Ids, Update(t, id)
    PROVE  Inv'
<1> USE DEF Inv
<1>1. /\ UNCHANGED <<counter, connection, lock, request, enrolled>>
      /\ pc[t] = "listed" /\ Goto(t, "written") /\ Discard(t)
      /\ id \in DOMAIN profiles /\ id \in DOMAIN snapshot[t]
      /\ profiles' = WithUpdate(t, id)
      /\ answer' = [answer EXCEPT ![t] = Speaker(id)]
  BY DEF Update
<1>2. pc' \in [Tasks -> PC] /\ LockCoversCalls'
  BY <1>1, SameLock DEF PC, Inside
<1>3. DOMAIN profiles' = DOMAIN profiles
  BY <1>1 DEF WithUpdate
<1>4. TypeOK'
  <2>1. snapshot[t][id] \in Profile
    BY <1>1 DEF TypeOK
  <2>2. [samples |-> snapshot[t][id].samples \cup {t}, name |-> snapshot[t][id].name] \in Profile
    BY <2>1 DEF Profile
  <2>3. profiles' \in [DOMAIN profiles' -> Profile] /\ DOMAIN profiles' \subseteq Ids
    BY <1>1, <1>3, <2>2 DEF WithUpdate, TypeOK
  <2>4. answer' \in [Tasks -> Answer]
    BY <1>1 DEF TypeOK, Answer, Speaker
  <2> QED
    BY <1>1, <1>2, <2>3, <2>4, DiscardType DEF TypeOK
<1>5. \A u \in Tasks : answer'[u] = answer[u] \/ answer'[u].id \in DOMAIN profiles
  BY <1>1 DEF TypeOK, Speaker
<1> QED
  BY <1>1, <1>2, <1>3, <1>4, <1>5, RowWritten

LEMMA RenameInv ==
    ASSUME Inv, NEW t \in Tasks, Rename(t)
    PROVE  Inv'
<1> USE DEF Inv
<1>1. /\ UNCHANGED <<counter, connection, lock, request, snapshot, enrolled>>
      /\ pc[t] = "locked" /\ request[t].op = "rename" /\ Goto(t, "written")
      /\ profiles' = WithName(request[t].id, request[t].name)
  BY DEF Rename
<1>2. pc' \in [Tasks -> PC] /\ LockCoversCalls'
  BY <1>1, SameLock DEF PC, Inside
<1>3. DOMAIN profiles' = DOMAIN profiles
  BY <1>1 DEF WithName
<1>4. answer' \in [Tasks -> Answer]
      /\ \A u \in Tasks : answer'[u] = answer[u] \/ answer'[u].says # "speaker"
  BY DEF Rename, TypeOK, Answer, Word
<1>5. TypeOK'
  <2>1. request[t].name \in Names
    BY <1>1 DEF TypeOK, Request
  <2>2. \A s \in DOMAIN profiles : [profiles[s] EXCEPT !.name = request[t].name] \in Profile
    BY <2>1 DEF TypeOK, Profile
  <2>3. profiles' \in [DOMAIN profiles' -> Profile] /\ DOMAIN profiles' \subseteq Ids
    BY <1>1, <1>3, <2>2 DEF WithName, TypeOK
  <2> QED
    BY <1>1, <1>2, <1>4, <2>3 DEF TypeOK
<1> QED
  BY <1>1, <1>2, <1>3, <1>4, <1>5, RowWritten

\* A failed store call and a finished one leave the store alone.
LEMMA LeaveInv ==
    ASSUME Inv, NEW t \in Tasks, StoreFails(t) \/ Return(t)
    PROVE  Inv'
<1> USE DEF Inv
<1>1. PICK place \in {"done", "failed"} : Goto(t, place)
  BY DEF StoreFails, Return
<1>2. /\ UNCHANGED <<profiles, counter, connection, request, answer, enrolled>>
      /\ pc[t] \in Inside /\ Release(t)
      /\ Discard(t) \/ UNCHANGED snapshot
  BY DEF StoreFails, Return, Inside
<1>3. /\ pc' \in [Tasks -> PC] /\ lock' \in [Procs -> Tasks \cup {NoTask}]
      /\ LockCoversCalls'
  BY <1>1, <1>2, ReleaseLock DEF PC, Inside, Ended
<1>4. TypeOK'
  <2>1. CASE Discard(t)
    BY <1>2, <1>3, <2>1, DiscardType DEF TypeOK
  <2>2. CASE UNCHANGED snapshot
    BY <1>2, <1>3, <2>2 DEF TypeOK
  <2> QED
    BY <1>2, <2>1, <2>2
<1> QED
  BY <1>2, <1>3, <1>4, StoreUntouched

\* A crash frees the lock together with everyone who was inside.
LEMMA CrashInv ==
    ASSUME Inv, NEW p \in Procs, Crash(p)
    PROVE  Inv'
<1> USE DEF Inv
<1> USE ProcOfAssumption, NoTaskAssumption
<1>1. UNCHANGED <<profiles, counter, request, answer, enrolled>>
  BY DEF Crash
<1>2. /\ pc' \in [Tasks -> PC]
      /\ \A t \in Tasks : ProcOf[t] = p => pc'[t] \notin Inside
      /\ \A t \in Tasks : ProcOf[t] # p => pc'[t] = pc[t]
  BY DEF Crash, TypeOK, PC, Inside, Ended
<1>3. /\ lock' \in [Procs -> Tasks \cup {NoTask}]
      /\ lock'[p] = NoTask
      /\ \A q \in Procs : q # p => lock'[q] = lock[q]
      /\ connection' \in [Procs -> {"open", "closed"}]
  BY DEF Crash, TypeOK
<1>4. /\ DOMAIN snapshot' = Tasks
      /\ \A u \in Tasks : snapshot'[u] = snapshot[u] \/ snapshot'[u] = Nobody
  BY DEF Crash, TypeOK
<1>5. Nobody \in [DOMAIN Nobody -> Profile] /\ DOMAIN Nobody \subseteq Ids
  BY DEF Nobody
<1>6. LockCoversCalls'
  <2>1. ASSUME NEW u \in Tasks
        PROVE  pc'[u] \in Inside <=> lock'[ProcOf[u]] = u
    <3>1. CASE ProcOf[u] = p
      BY <3>1, <1>2, <1>3
    <3>2. CASE ProcOf[u] # p
      BY <3>2, <1>2, <1>3 DEF LockCoversCalls
    <3> QED
      BY <3>1, <3>2
  <2> QED
    BY <2>1 DEF LockCoversCalls
<1>7. TypeOK'
  BY <1>1, <1>2, <1>3, <1>4, <1>5 DEF TypeOK
<1> QED
  BY <1>1, <1>6, <1>7, StoreUntouched

LEMMA CloseStoreInv ==
    ASSUME Inv, (\E p \in Procs : CloseStore(p)) \/ UNCHANGED vars
    PROVE  Inv'
<1> USE DEF Inv
<1>1. UNCHANGED <<profiles, counter, lock, pc, request, snapshot, answer, enrolled>>
      /\ connection' \in [Procs -> {"open", "closed"}]
  BY DEF CloseStore, vars, TypeOK
<1>2. TypeOK' /\ LockCoversCalls'
  BY <1>1 DEF TypeOK, LockCoversCalls
<1> QED
  BY <1>1, <1>2, StoreUntouched
-----------------------------------------------------------------------------
LEMMA StepInv == Inv /\ [Next]_vars => Inv'
BY CallInv, AcquireInv, ListInv, CreateInv, UpdateInv, RenameInv, LeaveInv, CrashInv,
   CloseStoreInv DEF Next, StoreCall

LEMMA Invariance == Spec => []Inv
BY InitInv, StepInv, PTL DEF Spec

\* Store rows, locks, snapshots and answers stay well typed.
THEOREM TypeCorrect == Spec => []TypeOK
<1>1. Inv => TypeOK
  BY DEF Inv
<1> QED
  BY <1>1, Invariance, PTL

\* No identifier is enrolled twice, by whichever process and after any crash.
THEOREM IdentifiersUnique == Spec => []OneEnrolmentPerId
<1>1. Inv => OneEnrolmentPerId
  BY DEF Inv
<1> QED
  BY <1>1, Invariance, PTL

\* The counter row stays above every row of the table.
THEOREM CounterAhead == Spec => []CounterAboveIds
<1>1. Inv => CounterAboveIds
  BY DEF Inv
<1> QED
  BY <1>1, Invariance, PTL

\* No client ever holds an identifier that the store does not.
THEOREM NothingInvented == Spec => []AnswersAreStored
<1>1. Inv => AnswersAreStored
  BY DEF Inv
<1> QED
  BY <1>1, Invariance, PTL

\* The lock covers list, decide and write (assignment.py:45-63) in each process:
\* a task is between its first store call and its answer while it holds it.
THEOREM LockExcludes == Spec => []LockCoversCalls
<1>1. Inv => LockCoversCalls
  BY DEF Inv
<1> QED
  BY <1>1, Invariance, PTL
-----------------------------------------------------------------------------
(* Refinement: in one process, assign() and rename() are indivisible *)

OneProcess == \A p, q \in Procs : p = q

\* What a task listed is what the table holds when it writes.
SnapshotIsCurrent == \A t \in Tasks : pc[t] = "listed" => snapshot[t] = profiles

Unsettled == {"idle", "waiting", "locked", "listed"}
AnsweredOnce == \A t \in Tasks : pc[t] \in Unsettled => answer[t] = Word("none")

RefinementInv == Inv /\ SnapshotIsCurrent /\ AnsweredOnce

\* There is one lock, so one task is inside.
LEMMA OneInside ==
    ASSUME OneProcess, Inv, NEW t \in Tasks, NEW u \in Tasks,
           pc[t] \in Inside, pc[u] \in Inside
    PROVE  t = u
BY ProcOfAssumption DEF OneProcess, Inv, LockCoversCalls

\* A step that leaves the table alone and lists nothing keeps the snapshots.
LEMMA SnapshotsKept ==
    ASSUME RefinementInv, UNCHANGED profiles,
           \A t \in Tasks : pc'[t] = "listed" => pc[t] = "listed" /\ snapshot'[t] = snapshot[t]
    PROVE  SnapshotIsCurrent'
BY DEF RefinementInv, SnapshotIsCurrent

\* A step that writes the table is that of the only task inside.
LEMMA SnapshotsOver ==
    ASSUME OneProcess, RefinementInv, NEW t \in Tasks, pc[t] \in Inside,
           pc' = [pc EXCEPT ![t] = "written"]
    PROVE  SnapshotIsCurrent'
<1>1. \A u \in Tasks : pc'[u] # "listed"
  BY OneInside DEF RefinementInv, Inv, TypeOK, Inside
<1> QED
  BY <1>1 DEF SnapshotIsCurrent

LEMMA RefinementStep ==
    ASSUME OneProcess, RefinementInv, [Next]_vars
    PROVE  SnapshotIsCurrent' /\ AnsweredOnce'
<1> USE DEF RefinementInv, Inv, TypeOK, Goto
<1>1. ASSUME NEW t \in Tasks, Call(t)
      PROVE  SnapshotIsCurrent' /\ AnsweredOnce'
  <2>1. /\ pc[t] = "idle" /\ UNCHANGED <<profiles, snapshot>>
        /\ pc'[t] \in {"done", "failed", "waiting"}
        /\ pc'[t] = "waiting" => answer' = answer
        /\ \A u \in Tasks : u # t => pc'[u] = pc[u] /\ answer'[u] = answer[u]
    BY <1>1 DEF Call, AssignUnknown, AssignDegenerate, Begin
  <2>2. SnapshotIsCurrent'
    BY <2>1, SnapshotsKept
  <2>3. AnsweredOnce'
    BY <2>1 DEF AnsweredOnce, Unsettled
  <2> QED
    BY <2>2, <2>3
<1>2. ASSUME NEW t \in Tasks, Acquire(t) \/ StoreFails(t) \/ Return(t)
      PROVE  SnapshotIsCurrent' /\ AnsweredOnce'
  <2>1. /\ UNCHANGED <<profiles, answer>>
        /\ \/ pc[t] = "waiting" /\ pc'[t] = "locked"
           \/ pc'[t] \in {"failed", "done"}
        /\ \A u \in Tasks : u # t => pc'[u] = pc[u] /\ snapshot'[u] = snapshot[u]
    BY <1>2 DEF Acquire, StoreFails, Return, Discard
  <2>2. SnapshotIsCurrent'
    BY <2>1, SnapshotsKept
  <2>3. AnsweredOnce'
    BY <2>1 DEF AnsweredOnce, Unsettled
  <2> QED
    BY <2>2, <2>3
<1>3. ASSUME NEW t \in Tasks, List(t)
      PROVE  SnapshotIsCurrent' /\ AnsweredOnce'
  <2>1. /\ UNCHANGED <<profiles, answer>> /\ pc[t] = "locked" /\ pc'[t] = "listed"
        /\ snapshot'[t] = profiles
        /\ \A u \in Tasks : u # t => pc'[u] = pc[u] /\ snapshot'[u] = snapshot[u]
    BY <1>3 DEF List
  <2>2. SnapshotIsCurrent'
    BY <2>1 DEF SnapshotIsCurrent
  <2>3. AnsweredOnce'
    BY <2>1 DEF AnsweredOnce, Unsettled
  <2> QED
    BY <2>2, <2>3
<1>4. ASSUME NEW t \in Tasks, Create(t) \/ (\E id \in Ids : Update(t, id)) \/ Rename(t)
      PROVE  SnapshotIsCurrent' /\ AnsweredOnce'
  <2>1. /\ pc[t] \in Inside /\ pc' = [pc EXCEPT ![t] = "written"]
        /\ \A u \in Tasks : u # t => answer'[u] = answer[u]
    BY <1>4 DEF Create, Update, Rename, Inside
  <2>2. SnapshotIsCurrent'
    BY <2>1, SnapshotsOver
  <2>3. AnsweredOnce'
    BY <2>1 DEF AnsweredOnce, Unsettled
  <2> QED
    BY <2>2, <2>3
<1>5. ASSUME NEW p \in Procs, Crash(p)
      PROVE  SnapshotIsCurrent' /\ AnsweredOnce'
  <2>1. /\ UNCHANGED <<profiles, answer>>
        /\ \A t \in Tasks : pc'[t] \in Unsettled => pc'[t] = pc[t]
        /\ \A t \in Tasks : pc'[t] = "listed" => snapshot'[t] = snapshot[t]
    BY <1>5 DEF Crash, Unsettled, Inside
  <2>2. SnapshotIsCurrent'
    BY <2>1, SnapshotsKept DEF Unsettled
  <2>3. AnsweredOnce'
    BY <2>1 DEF AnsweredOnce
  <2> QED
    BY <2>2, <2>3
<1>6. ASSUME (\E p \in Procs : CloseStore(p)) \/ UNCHANGED vars
      PROVE  SnapshotIsCurrent' /\ AnsweredOnce'
  BY <1>6 DEF CloseStore, vars, SnapshotIsCurrent, AnsweredOnce
<1> QED
  BY <1>1, <1>2, <1>3, <1>4, <1>5, <1>6 DEF Next, StoreCall

\* The transaction of create_profile is an enrolment.
LEMMA CreateEnrols ==
    ASSUME RefinementInv, NEW t \in Tasks, Create(t)
    PROVE  \E id \in Ids : Identity!Enrol(t, id)
<1>1. PICK id \in Ids : /\ IsNextId(id)
                        /\ profiles' = WithNewProfile(t, id)
                        /\ answer' = [answer EXCEPT ![t] = Speaker(id)]
  BY DEF Create
<1>2. \A s \in DOMAIN profiles : s < id
  BY <1>1, NextIdIsFresh DEF RefinementInv
<1>3. answer[t] = Word("none")
  BY DEF Create, RefinementInv, AnsweredOnce, Unsettled
<1> QED
  BY <1>1, <1>2, <1>3
     DEF Identity!Enrol, Identity!Word, Identity!Speaker, Identity!NoName, WithNewProfile,
         Word, Speaker, NoName

\* Writing the whole row back adds one utterance to it, because the row is
\* still the one that was listed.
LEMMA UpdateRecognises ==
    ASSUME RefinementInv, NEW t \in Tasks, NEW id \in Ids, Update(t, id)
    PROVE  Identity!Recognise(t, id)
<1>1. /\ id \in DOMAIN profiles /\ snapshot[t] = profiles /\ answer[t] = Word("none")
      /\ profiles' = WithUpdate(t, id)
      /\ answer' = [answer EXCEPT ![t] = Speaker(id)]
  BY DEF Update, RefinementInv, AnsweredOnce, SnapshotIsCurrent, Unsettled
<1>2. profiles[id] \in Profile
  BY <1>1 DEF RefinementInv, Inv, TypeOK
<1>3. [profiles[id] EXCEPT !.samples = @ \cup {t}] =
         [samples |-> profiles[id].samples \cup {t}, name |-> profiles[id].name]
  BY <1>2 DEF Profile
<1>4. profiles' = [profiles EXCEPT ![id].samples = @ \cup {t}]
  BY <1>1, <1>3 DEF WithUpdate
<1> QED
  BY <1>1, <1>4 DEF Identity!Recognise, Identity!Word, Identity!Speaker, Word, Speaker

LEMMA RenameRenames ==
    ASSUME RefinementInv, NEW t \in Tasks, Rename(t)
    PROVE  \E id \in Ids : \/ \E name \in Names : Identity!Rename(t, id, name)
                          \/ Identity!RenameNobody(t, id)
<1> DEFINE id == request[t].id
           name == request[t].name
<1>1. /\ pc[t] = "locked" /\ request[t].op = "rename" /\ answer[t] = Word("none")
      /\ profiles' = WithName(id, name)
      /\ answer' = [answer EXCEPT ![t] = IF id \in DOMAIN profiles
                                         THEN Word("renamed") ELSE Word("not_found")]
  BY DEF Rename, RefinementInv, AnsweredOnce, Unsettled
<1>2. id \in Ids /\ name \in Names
  BY <1>1 DEF RefinementInv, Inv, TypeOK, Request
<1>3. profiles = [s \in DOMAIN profiles |-> profiles[s]]
  BY DEF RefinementInv, Inv, TypeOK
<1> HIDE DEF id, name
<1>4. CASE id \in DOMAIN profiles
  <2>1. profiles' = [profiles EXCEPT ![id].name = name]
    BY <1>1, <1>4 DEF WithName
  <2>2. Identity!Rename(t, id, name)
    BY <1>1, <1>4, <2>1 DEF Identity!Rename, Identity!Word, Word
  <2> QED
    BY <1>2, <2>2
<1>5. CASE id \notin DOMAIN profiles
  <2>1. profiles' = profiles
    BY <1>1, <1>3, <1>5 DEF WithName
  <2>2. Identity!RenameNobody(t, id)
    BY <1>1, <1>5, <2>1 DEF Identity!RenameNobody, Identity!Word, Word
  <2> QED
    BY <1>2, <2>2
<1> QED
  BY <1>4, <1>5

LEMMA UnknownIgnores ==
    ASSUME RefinementInv, NEW t \in Tasks, AssignUnknown(t)
    PROVE  Identity!Ignore(t)
BY DEF AssignUnknown, Identity!Ignore, Identity!Word, Word, RefinementInv, AnsweredOnce,
       Unsettled

\* Every step is a step of SpeakerIdentity or changes nothing it sees.
LEMMA StepSimulates ==
    ASSUME RefinementInv, [Next]_vars
    PROVE  [Identity!Next]_<<profiles, answer>>
<1>1. ASSUME NEW t \in Tasks, Call(t)
      PROVE  [Identity!Next]_<<profiles, answer>>
  <2>1. AssignUnknown(t) \/ UNCHANGED <<profiles, answer>>
    BY <1>1 DEF Call, AssignDegenerate, Begin
  <2> QED
    BY <2>1, UnknownIgnores DEF Identity!Next
<1>2. ASSUME NEW t \in Tasks, StoreCall(t)
      PROVE  [Identity!Next]_<<profiles, answer>>
  <2>1. CASE List(t) \/ StoreFails(t)
    BY <2>1 DEF List, StoreFails
  <2>2. CASE Create(t)
    BY <2>2, CreateEnrols DEF Identity!Next
  <2>3. CASE \E id \in Ids : Update(t, id)
    BY <2>3, UpdateRecognises DEF Identity!Next
  <2>4. CASE Rename(t)
    BY <2>4, RenameRenames DEF Identity!Next
  <2> QED
    BY <1>2, <2>1, <2>2, <2>3, <2>4 DEF StoreCall
<1>3. ASSUME \/ \E t \in Tasks : Acquire(t) \/ Return(t)
             \/ \E p \in Procs : CloseStore(p) \/ Crash(p)
             \/ UNCHANGED vars
      PROVE  UNCHANGED <<profiles, answer>>
  BY <1>3 DEF Acquire, Return, CloseStore, Crash, vars
<1> QED
  BY <1>1, <1>2, <1>3 DEF Next

LEMMA RefinementInit ==
    ASSUME Init
    PROVE  RefinementInv /\ Identity!Init
<1>1. Inv /\ SnapshotIsCurrent /\ AnsweredOnce
  BY InitInv DEF Init, SnapshotIsCurrent, AnsweredOnce
<1>2. Identity!Init
  BY IdsAssumption DEF Init, Identity!Init, Identity!Word, Identity!NoName, Word, NoName
<1> QED
  BY <1>1, <1>2 DEF RefinementInv

\* With one process, its session lock makes assign() and rename() indivisible:
\* for any calls, crashes and failures the store behaves as SpeakerIdentity
\* (assignment.py:31-84).
THEOREM ImplementsOneProcess ==
    ASSUME OneProcess
    PROVE  Spec => ImplementsIdentity
<1>1. Init => RefinementInv /\ Identity!Init
  BY RefinementInit
<1>2. RefinementInv /\ [Next]_vars => RefinementInv'
  BY StepInv, RefinementStep DEF RefinementInv
<1>3. RefinementInv /\ [Next]_vars => [Identity!Next]_<<profiles, answer>>
  BY StepSimulates
<1>4. RefinementInv /\ [Next]_vars => [Identity!Next]_Identity!identityVars
  BY <1>3 DEF Identity!identityVars
<1> QED
  BY <1>1, <1>2, <1>4, PTL DEF Spec, ImplementsIdentity, Identity!Spec
=============================================================================
