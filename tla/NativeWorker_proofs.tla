------------------------ MODULE NativeWorker_proofs ------------------------
(***************************************************************************)
(* Safety of the worker client for any number of calls, processes and      *)
(* restart attempts.                                                       *)
(*                                                                         *)
(* The argument: an exchange ends in one of two ways.  Either its response *)
(* is taken from the queue, and nothing is left in it; or the process is   *)
(* abandoned with its queue.  So a process in use owes a response to the   *)
(* holder of the lock or to nobody, and an attempt is lost only to a       *)
(* process that has failed.                                                *)
(***************************************************************************)
EXTENDS NativeWorker, SequenceTheorems, TLAPS

\* The lock is held from its acquisition to the end of the call; close() sets
\* _closed first, and no other call is let in afterwards.
Holding ==
    /\ \A c \in Calls : pc[c] \in Inside <=> lock = c
    /\ lock \in Closers => closed /\ pc[lock] # "starting"
    /\ lock \in Infers \cup {Constructor} => ~closed
    /\ pc[Constructor] \notin {"idle", "waiting"}
    /\ \A c \in Closers : pc[c] # "starting"

\* What can be in use where the holder of the lock is.
InUse ==
    /\ lock # Nobody /\ pc[lock] = "starting" => process = Nobody
    /\ lock # Nobody /\ pc[lock] = "sent" => process # Nobody
    /\ lock \in Infers /\ pc[lock] = "starting" => attempt < RestartAttempts

Pristine(p) ==
    p \notin faulty /\ p \notin reading /\ job[p] = NoJob /\ queue[p] = <<>> /\ p # process

\* A process leaves traces only once started, and the current one has exited
\* or broken its stream only by a failure or by its shutdown.
Lifecycle ==
    /\ \A p \in Processes : life[p] = "unborn" => Pristine(p)
    /\ \A p \in Processes : p \in reading =>
          \A i \in DOMAIN queue[p] : queue[p][i].says # "broken"
    /\ process # Nobody /\ ~closed /\ process \notin faulty =>
          /\ life[process] # "exited"
          /\ \A i \in DOMAIN queue[process] : queue[process][i].says # "broken"

\* The response to the exchange under way: at the head of the queue, or not
\* yet in it.
Correlated ==
    process # Nobody =>
        /\ job[process] # NoJob =>
              /\ Awaits(job[process].id) /\ job[process].of = lock
              /\ \A i \in DOMAIN queue[process] : queue[process][i].says = "broken"
        /\ \A i \in DOMAIN queue[process] : queue[process][i].says # "broken" =>
              /\ i = 1
              /\ Awaits(queue[process][i].id)
              /\ queue[process][i].says = "ok" => queue[process][i].of = lock

\* Every attempt that was lost, or is about to be, had its failure.
Charged ==
    lock \in Infers =>
        /\ suffered[lock] >= attempt
        /\ ~Sound \/ pc[lock] \in {"stopping", "starting"} => suffered[lock] >= attempt + 1

Inv == /\ TypeOK
       /\ Holding
       /\ InUse
       /\ Lifecycle
       /\ NoLeak
       /\ Correlated
       /\ Charged
       /\ AnswersOwn
       /\ MasksFaults

USE DEF Calls, QueueOf, Refuses, Goto, Live, Running, Inside, worker

LEMMA InitInv == Init => Inv
<1> SUFFICES ASSUME Init PROVE Inv
  OBVIOUS
<1>1. TypeOK
  <2>1. queue \in [Processes -> Seq(Message)]
    BY EmptySeq, <<>> \in Seq(Message) DEF Init
  <2>2. pc \in [Calls -> PC] /\ lock \in Calls /\ answer \in [Calls -> Calls \cup {Nobody}]
    BY DEF Init, PC
  <2>3. life \in [Processes -> Running \cup {"unborn", "exited"}]
        /\ job \in [Processes -> Job \cup {NoJob}]
    BY DEF Init
  <2>4. attempt \in 0..RestartAttempts /\ suffered \in [Calls -> Nat] /\ nextId \in Nat \ {0}
    BY AttemptsAssumption DEF Init
  <2> QED
    BY <2>1, <2>2, <2>3, <2>4 DEF Init, TypeOK
<1>2. Holding /\ InUse
  BY CallsAssumption DEF Init, Holding, InUse
<1>3. Lifecycle /\ NoLeak /\ Correlated
  BY ProcessesAssumption DEF Init, Lifecycle, NoLeak, Correlated, Pristine
<1>4. Charged /\ AnswersOwn /\ MasksFaults
  BY CallsAssumption DEF Init, Charged, AnswersOwn, MasksFaults
<1> QED
  BY <1>1, <1>2, <1>3, <1>4 DEF Inv

\* The failure of a process, whatever its form, is charged to the call that is
\* using it.
LEMMA FaultCharged ==
    ASSUME Inv, NEW p \in Processes, Fault(p),
           UNCHANGED <<lock, pc, attempt, process, closed>>
    PROVE  /\ faulty' \in SUBSET Processes /\ suffered' \in [Calls -> Nat]
           /\ Charged'
           /\ MasksFaults'
<1> USE DEF Inv
<1>1. faulty' \in SUBSET Processes /\ suffered' \in [Calls -> Nat]
  BY DEF Fault, TypeOK
<1>2. \A c \in Calls : suffered'[c] >= suffered[c]
  BY DEF Fault, TypeOK
<1>3. lock \in Infers /\ Sound /\ ~Sound' => suffered'[lock] = suffered[lock] + 1
  BY CallsAssumption DEF Fault, TypeOK, Sound
<1>4. Charged'
  <2> SUFFICES ASSUME lock \in Infers
               PROVE  /\ suffered'[lock] >= attempt
                      /\ ~Sound' \/ pc[lock] \in {"stopping", "starting"}
                            => suffered'[lock] >= attempt + 1
    BY DEF Charged
  <2>1. suffered[lock] \in Nat /\ suffered'[lock] \in Nat /\ attempt \in Nat
    BY <1>1, AttemptsAssumption DEF TypeOK
  <2> QED
    BY <2>1, <1>2, <1>3 DEF Charged
<1>5. MasksFaults'
  BY <1>1, <1>2, AttemptsAssumption DEF MasksFaults, TypeOK
<1> QED
  BY <1>1, <1>4, <1>5

-----------------------------------------------------------------------------
(* Steps of the worker *)

LEMMA CrashInv == ASSUME Inv, NEW p \in Processes, Crash(p) PROVE Inv'
<1> USE DEF Inv
<1>1. Charged' /\ MasksFaults' /\ faulty' \in SUBSET Processes /\ suffered' \in [Calls -> Nat]
  BY FaultCharged DEF Crash
<1>2. TypeOK'
  BY <1>1 DEF Crash, TypeOK
<1>3. Holding' /\ InUse' /\ AnswersOwn'
  BY DEF Crash, Holding, InUse, AnswersOwn
<1>4. NoLeak' /\ p = process
  BY DEF Crash, NoLeak, TypeOK
<1>5. Lifecycle'
  BY <1>4 DEF Crash, Fault, Lifecycle, Pristine, TypeOK
<1>6. Correlated'
  BY <1>4 DEF Crash, Correlated, Awaits, CurrentId, TypeOK
<1> QED
  BY <1>1, <1>2, <1>3, <1>4, <1>5, <1>6

LEMMA HangInv == ASSUME Inv, NEW p \in Processes, Hang(p) PROVE Inv'
<1> USE DEF Inv
<1>1. Charged' /\ MasksFaults' /\ faulty' \in SUBSET Processes /\ suffered' \in [Calls -> Nat]
  BY FaultCharged DEF Hang
<1>2. TypeOK'
  BY <1>1 DEF Hang, TypeOK
<1>3. Holding' /\ InUse' /\ AnswersOwn'
  BY DEF Hang, Holding, InUse, AnswersOwn
<1>4. NoLeak' /\ p = process
  BY DEF Hang, NoLeak, TypeOK
<1>5. Lifecycle'
  BY <1>4 DEF Hang, Fault, Lifecycle, Pristine, TypeOK
<1>6. Correlated'
  BY DEF Hang, Correlated, Awaits, CurrentId
<1> QED
  BY <1>1, <1>2, <1>3, <1>4, <1>5, <1>6

\* What the reader thread adds to a queue.
LEMMA PutAppends ==
    ASSUME TypeOK, NEW p \in Processes, NEW m \in Message, Put(p, m)
    PROVE  /\ queue' \in [Processes -> Seq(Message)]
           /\ \A q \in Processes \ {p} : queue'[q] = queue[q]
           /\ p \notin reading => queue'[p] = queue[p]
           /\ p \in reading =>
                 /\ DOMAIN queue'[p] = 1 .. Len(queue[p]) + 1
                 /\ \A i \in DOMAIN queue[p] : queue'[p][i] = queue[p][i]
                 /\ queue'[p][Len(queue[p]) + 1] = m
<1>1. queue[p] \in Seq(Message) /\ Len(queue[p]) \in Nat /\ DOMAIN queue[p] = 1 .. Len(queue[p])
  BY DEF TypeOK
<1>2. Append(queue[p], m) \in Seq(Message) /\ Len(Append(queue[p], m)) = Len(queue[p]) + 1
      /\ (\A i \in 1 .. Len(queue[p]) : Append(queue[p], m)[i] = queue[p][i])
      /\ Append(queue[p], m)[Len(queue[p]) + 1] = m
  BY <1>1, AppendProperties
<1>3. queue' = [queue EXCEPT ![p] = IF p \in reading THEN Append(queue[p], m) ELSE queue[p]]
  BY DEF Put
<1>4. queue'[p] = IF p \in reading THEN Append(queue[p], m) ELSE queue[p]
  BY <1>3 DEF TypeOK
<1>5. p \in reading => DOMAIN queue'[p] = 1 .. Len(queue[p]) + 1
  BY <1>2, <1>4
<1> QED
  BY <1>1, <1>2, <1>3, <1>4, <1>5 DEF TypeOK

LEMMA BrokenIsMessage == Broken \in Message /\ Broken.says = "broken"
  BY DEF Broken, Message

\* The reader ends, for an end of the stream or for what is not a response.
LEMMA BrokenPut ==
    ASSUME Inv, NEW p \in Processes, Put(p, Broken), reading' = reading \ {p},
           UNCHANGED <<lock, pc, attempt, process, nextId, closed, life, job, answer>>,
           p \in reading, faulty \subseteq faulty', faulty' \subseteq faulty \cup {p},
           p = process => p \in faulty' \/ closed
    PROVE  queue' \in [Processes -> Seq(Message)] /\ Lifecycle' /\ Correlated'
<1> USE DEF Inv
<1>1. /\ queue' \in [Processes -> Seq(Message)]
      /\ \A q \in Processes \ {p} : queue'[q] = queue[q]
      /\ DOMAIN queue'[p] = 1 .. Len(queue[p]) + 1
      /\ \A i \in DOMAIN queue[p] : queue'[p][i] = queue[p][i]
      /\ queue'[p][Len(queue[p]) + 1] = Broken
  BY PutAppends, BrokenIsMessage
<1>2. \A i \in DOMAIN queue'[p] : queue'[p][i].says # "broken" => i \in DOMAIN queue[p]
  BY <1>1, BrokenIsMessage DEF TypeOK
<1>3. life[p] # "unborn"
  BY DEF Lifecycle, Pristine
<1>4. Lifecycle'
  <2>1. \A q \in Processes : life[q] = "unborn" => Pristine(q)'
    BY <1>1, <1>3 DEF Lifecycle, Pristine
  <2>2. \A q \in Processes : q \in reading' =>
           \A i \in DOMAIN queue'[q] : queue'[q][i].says # "broken"
    BY <1>1 DEF Lifecycle
  <2>3. process # Nobody /\ ~closed /\ process \notin faulty' =>
           /\ life[process] # "exited"
           /\ \A i \in DOMAIN queue'[process] : queue'[process][i].says # "broken"
    BY <1>1 DEF Lifecycle, TypeOK
  <2> QED
    BY <2>1, <2>2, <2>3 DEF Lifecycle
<1>5. Correlated'
  <2>1. CASE process = p
    BY <2>1, <1>1, <1>2, BrokenIsMessage DEF Correlated, Awaits, CurrentId
  <2>2. CASE process # p
    BY <2>2, <1>1 DEF Correlated, Awaits, CurrentId, TypeOK
  <2> QED
    BY <2>1, <2>2
<1> QED
  BY <1>1, <1>4, <1>5

LEMMA GarbleInv == ASSUME Inv, NEW p \in Processes, Garble(p) PROVE Inv'
<1> USE DEF Inv
<1>1. Charged' /\ MasksFaults' /\ faulty' \in SUBSET Processes /\ suffered' \in [Calls -> Nat]
  BY FaultCharged DEF Garble
<1>2. queue' \in [Processes -> Seq(Message)] /\ Lifecycle' /\ Correlated'
  BY BrokenPut DEF Garble, Fault
<1>3. TypeOK'
  BY <1>1, <1>2 DEF Garble, TypeOK
<1>4. Holding' /\ InUse' /\ NoLeak' /\ AnswersOwn'
  BY DEF Garble, Holding, InUse, NoLeak, AnswersOwn
<1> QED
  BY <1>1, <1>2, <1>3, <1>4

LEMMA ReaderEndsInv == ASSUME Inv, NEW p \in Processes, ReaderEnds(p) PROVE Inv'
<1> USE DEF Inv
<1>1. p = process => p \in faulty \/ closed
  BY ProcessesAssumption DEF ReaderEnds, Lifecycle
<1>2. queue' \in [Processes -> Seq(Message)] /\ Lifecycle' /\ Correlated'
  BY <1>1, BrokenPut DEF ReaderEnds
<1>3. TypeOK'
  BY <1>2 DEF ReaderEnds, TypeOK
<1>4. Holding' /\ InUse' /\ NoLeak' /\ AnswersOwn' /\ Charged' /\ MasksFaults'
  BY DEF ReaderEnds, Holding, InUse, NoLeak, AnswersOwn, Charged, Sound, MasksFaults
<1> QED
  BY <1>2, <1>3, <1>4

LEMMA AnswerInv == ASSUME Inv, NEW p \in Processes, Answer(p) PROVE Inv'
<1> USE DEF Inv
<1>1. p = process /\ p # Nobody
  BY ProcessesAssumption DEF Answer, NoLeak
<1>2. job[p] \in Job /\ Awaits(job[p].id) /\ job[p].of = lock
  BY <1>1 DEF Answer, Correlated, TypeOK
<1>3. PICK m \in Message :
         /\ Put(p, m)
         /\ m.says # "broken" /\ m.id = job[p].id
         /\ m.says = "ok" => m.of = job[p].of
  <2>1. job[p].id \in Nat /\ job[p].of \in Calls
    BY <1>2 DEF Job
  <2>2. [says |-> "ok", id |-> job[p].id, of |-> job[p].of] \in Message
    BY <2>1 DEF Message
  <2>3. [says |-> "error", id |-> job[p].id, of |-> Nobody] \in Message
    BY <2>1 DEF Message
  <2>4. CASE Put(p, [says |-> "ok", id |-> job[p].id, of |-> job[p].of])
    BY <2>2, <2>4
  <2>5. CASE Put(p, [says |-> "error", id |-> job[p].id, of |-> Nobody])
    BY <2>3, <2>5
  <2> QED
    BY <2>4, <2>5 DEF Answer
<1>4. /\ queue' \in [Processes -> Seq(Message)]
      /\ \A q \in Processes \ {p} : queue'[q] = queue[q]
      /\ p \notin reading => queue'[p] = queue[p]
      /\ p \in reading =>
            /\ DOMAIN queue'[p] = 1 .. Len(queue[p]) + 1
            /\ \A i \in DOMAIN queue[p] : queue'[p][i] = queue[p][i]
            /\ queue'[p][Len(queue[p]) + 1] = m
  BY <1>3, PutAppends
<1>5. \A i \in DOMAIN queue[p] : queue[p][i].says = "broken"
  BY <1>1 DEF Answer, Correlated
<1>6. p \in reading => Len(queue[p]) = 0
  BY <1>5 DEF Lifecycle, TypeOK
<1>7. job' = [job EXCEPT ![p] = NoJob] /\ job'[p] = NoJob
  BY DEF Answer, TypeOK
<1>8. life' = [life EXCEPT ![p] = IF Op(job[p].of) = "shutdown" THEN "exited" ELSE "idle"]
  BY DEF Answer
<1>9. Op(job[p].of) = "shutdown" => closed
  <2>1. lock \in Infers => Op(lock) = "infer"
    BY CallsAssumption DEF Op
  <2>2. lock = Constructor => Op(lock) = "ping"
    BY DEF Op
  <2>3. lock \in Calls
    BY <1>2 DEF Awaits, TypeOK
  <2> QED
    BY <2>1, <2>2, <2>3, <1>2 DEF Holding
<1>10. TypeOK'
  <2>1. life' \in [Processes -> Running \cup {"unborn", "exited"}]
    BY <1>8 DEF TypeOK
  <2>2. job' \in [Processes -> Job \cup {NoJob}]
    BY <1>7 DEF TypeOK
  <2> QED
    BY <1>4, <2>1, <2>2 DEF Answer, TypeOK
<1>11. Holding' /\ InUse' /\ AnswersOwn' /\ Charged' /\ MasksFaults'
  BY DEF Answer, Holding, InUse, AnswersOwn, Charged, Sound, MasksFaults
<1>12. NoLeak'
  BY <1>1, <1>8 DEF Answer, NoLeak, TypeOK
<1>13. Lifecycle'
  <2>1. \A q \in Processes : life'[q] = "unborn" => q # p /\ life[q] = "unborn"
    BY <1>8 DEF TypeOK
  <2>2. \A q \in Processes : life'[q] = "unborn" => Pristine(q)'
    BY <2>1, <1>4, <1>7 DEF Answer, Lifecycle, Pristine, TypeOK
  <2>3. \A q \in Processes : q \in reading' =>
           \A i \in DOMAIN queue'[q] : queue'[q][i].says # "broken"
    <3> SUFFICES ASSUME NEW q \in Processes, q \in reading, NEW i \in DOMAIN queue'[q]
                 PROVE  queue'[q][i].says # "broken"
      BY DEF Answer
    <3>1. CASE q = p
      <4>1. queue[p] \in Seq(Message) /\ Len(queue[p]) = 0 /\ i \in 1 .. Len(queue[p]) + 1
        BY <3>1, <1>4, <1>6 DEF TypeOK
      <4>2. i = Len(queue[p]) + 1
        BY <4>1
      <4> QED
        BY <3>1, <4>2, <1>3, <1>4
    <3>2. CASE q # p
      BY <3>2, <1>4 DEF Lifecycle
    <3> QED
      BY <3>1, <3>2
  <2>4. process' # Nobody /\ ~closed' /\ process' \notin faulty' =>
           /\ life'[process'] # "exited"
           /\ \A i \in DOMAIN queue'[process'] : queue'[process'][i].says # "broken"
    BY <1>1, <1>3, <1>4, <1>6, <1>8, <1>9 DEF Answer, Lifecycle, TypeOK
  <2> QED
    BY <2>2, <2>3, <2>4 DEF Lifecycle
<1>14. Correlated'
  <2>1. lock' = lock /\ process' = process /\ \A id : Awaits(id)' <=> Awaits(id)
    BY DEF Answer, Awaits, CurrentId
  <2>2. CASE p \in reading
    BY <2>1, <2>2, <1>1, <1>2, <1>3, <1>4, <1>6, <1>7 DEF Correlated
  <2>3. CASE p \notin reading
    BY <2>1, <2>3, <1>1, <1>4, <1>5, <1>7 DEF Correlated
  <2> QED
    BY <2>2, <2>3
<1> QED
  BY <1>10, <1>11, <1>12, <1>13, <1>14

-----------------------------------------------------------------------------
(* Steps of a call *)

\* The worker does not notice what callers do without the lock.
LEMMA WorkerUntouched ==
    ASSUME Inv, UNCHANGED <<lock, process, nextId, closed, worker>>,
           lock # Nobody => pc'[lock] = pc[lock]
    PROVE  Lifecycle' /\ NoLeak' /\ Correlated'
<1> USE DEF Inv
<1>1. Lifecycle' /\ NoLeak'
  BY DEF Lifecycle, NoLeak, Pristine
<1>2. \A id : Awaits(id)' <=> Awaits(id)
  BY DEF Awaits, CurrentId
<1> QED
  BY <1>1, <1>2 DEF Correlated

LEMMA OutsideInv ==
    ASSUME Inv, NEW c \in Calls, ReturnEarly(c) \/ Begin(c) \/ AcquireClosed(c)
    PROVE  Inv'
<1> USE DEF Inv
<1>1. PICK end \in {"early", "waiting", "refused", "closed"} :
         pc' = [pc EXCEPT ![c] = end]
  BY DEF ReturnEarly, Begin, AcquireClosed
<1>2. UNCHANGED <<lock, attempt, process, nextId, closed, worker, answer>>
  BY DEF ReturnEarly, Begin, AcquireClosed
<1>3. pc[c] \in {"idle", "waiting"} /\ lock # c /\ c # Constructor
  BY DEF ReturnEarly, Begin, AcquireClosed, Holding
<1>4. \A d \in Calls : d # c => pc'[d] = pc[d]
  BY <1>1 DEF TypeOK
<1>5. pc'[c] = end
  BY <1>1 DEF TypeOK
<1>6. TypeOK'
  BY <1>1, <1>2 DEF TypeOK, PC, Ended
<1>7. Holding' /\ InUse'
  BY <1>2, <1>3, <1>4, <1>5 DEF Holding, InUse, TypeOK
<1>8. Lifecycle' /\ NoLeak' /\ Correlated'
  BY <1>2, <1>3, <1>4, WorkerUntouched DEF TypeOK
<1>9. AnswersOwn' /\ MasksFaults'
  BY <1>2, <1>4, <1>5 DEF AnswersOwn, MasksFaults
<1>10. Charged'
  BY <1>2, <1>3, <1>4 DEF Charged, Sound
<1> QED
  BY <1>6, <1>7, <1>8, <1>9, <1>10

LEMMA AcquireInv == ASSUME Inv, NEW c \in Calls, Acquire(c) PROVE Inv'
<1> USE DEF Inv
<1>1. PICK place \in {"trying", "stopping"} :
         /\ pc' = [pc EXCEPT ![c] = place]
         /\ c \in Infers => place = "trying"
         /\ c \in Infers \cup Closers
  BY CallsAssumption DEF Acquire
<1>2. /\ lock = Nobody /\ lock' = c /\ attempt' = 0
      /\ ~closed /\ closed' = (c \in Closers)
      /\ suffered' = [suffered EXCEPT ![c] = IF Sound THEN 0 ELSE 1]
      /\ UNCHANGED <<process, nextId, life, job, queue, reading, answer, faulty>>
  BY DEF Acquire
<1>3. \A d \in Calls : d # c => pc'[d] = pc[d] /\ suffered'[d] = suffered[d]
  BY <1>1, <1>2 DEF TypeOK
<1>4. pc'[c] = place /\ suffered'[c] = IF Sound THEN 0 ELSE 1
  BY <1>1, <1>2 DEF TypeOK
<1>5. TypeOK'
  BY <1>1, <1>2, AttemptsAssumption DEF TypeOK, PC
<1>6. Holding' /\ InUse'
  BY <1>1, <1>2, <1>3, <1>4, CallsAssumption DEF Holding, InUse, TypeOK
<1>7. Lifecycle'
  BY <1>2 DEF Lifecycle, Pristine
<1>8. NoLeak' /\ AnswersOwn' /\ MasksFaults'
  BY <1>1, <1>2, <1>3, <1>4, CallsAssumption DEF NoLeak, AnswersOwn, MasksFaults
<1>9. Correlated'
  <2>1. \A id : ~Awaits(id)
    BY <1>2 DEF Awaits
  <2>2. process # Nobody => job[process] = NoJob
           /\ \A i \in DOMAIN queue[process] : queue[process][i].says = "broken"
    BY <2>1 DEF Correlated
  <2> QED
    BY <2>2, <1>2 DEF Correlated
<1>10. Charged'
  BY <1>1, <1>2, <1>4 DEF Charged, Sound
<1> QED
  BY <1>5, <1>6, <1>7, <1>8, <1>9, <1>10

\* Giving up on the exchange, the worker being what it is.
LEMMA GiveUpInv ==
    ASSUME Inv, NEW c \in Calls, pc[c] \in {"trying", "sent"},
           pc' = [pc EXCEPT ![c] = "stopping"],
           c \in Infers => ~Sound,
           UNCHANGED <<lock, attempt, process, closed, life, job, reading, answer, faulty, suffered>>
    PROVE  Holding' /\ InUse' /\ NoLeak' /\ AnswersOwn' /\ MasksFaults' /\ Charged' /\ lock = c
<1> USE DEF Inv
<1>1. lock = c
  BY DEF Holding
<1>2. \A d \in Calls : d # c => pc'[d] = pc[d]
  BY DEF TypeOK
<1>3. pc'[c] = "stopping"
  BY DEF TypeOK
<1>4. Holding' /\ InUse'
  BY <1>1, <1>2, <1>3, CallsAssumption DEF Holding, InUse, TypeOK
<1>5. NoLeak' /\ AnswersOwn' /\ MasksFaults'
  BY <1>2, <1>3 DEF NoLeak, AnswersOwn, MasksFaults
<1>6. Charged'
  BY <1>1 DEF Charged, Sound
<1> QED
  BY <1>1, <1>4, <1>5, <1>6

LEMMA ExchangeFailsInv == ASSUME Inv, NEW c \in Calls, ExchangeFails(c) PROVE Inv'
<1> USE DEF Inv
<1>1. pc[c] = "trying" /\ lock = c /\ pc' = [pc EXCEPT ![c] = "stopping"]
  BY DEF ExchangeFails, Holding
<1>2. UNCHANGED <<lock, attempt, process, closed, life, job, queue, reading, answer, faulty, suffered>>
  BY DEF ExchangeFails
<1>3. c \in Infers => ~Sound
  <2> SUFFICES ASSUME c \in Infers, Sound PROVE FALSE
    OBVIOUS
  <2>1. process # Nobody /\ process \in Processes /\ ~closed /\ process \notin faulty
    BY <1>1 DEF Sound, Holding, TypeOK
  <2>2. life[process] \notin {"unborn", "exited"}
    BY <2>1 DEF Lifecycle, Pristine
  <2> QED
    BY <2>1, <2>2 DEF ExchangeFails, TypeOK
<1>4. Holding' /\ InUse' /\ NoLeak' /\ AnswersOwn' /\ MasksFaults' /\ Charged'
  BY <1>1, <1>2, <1>3, GiveUpInv
<1>5. TypeOK'
  BY <1>1, <1>2 DEF ExchangeFails, TypeOK, PC
<1>6. Lifecycle'
  BY <1>2 DEF Lifecycle, Pristine
<1>7. Correlated'
  <2>1. \A id : ~Awaits(id)
    BY <1>1 DEF Awaits
  <2> QED
    BY <2>1, <1>2 DEF Correlated
<1> QED
  BY <1>4, <1>5, <1>6, <1>7

LEMMA TimeOutInv == ASSUME Inv, NEW c \in Calls, TimeOut(c) PROVE Inv'
<1> USE DEF Inv
<1>1. pc[c] = "sent" /\ lock = c /\ pc' = [pc EXCEPT ![c] = "stopping"]
  BY DEF TimeOut, MayTimeOut, Holding
<1>2. UNCHANGED <<lock, attempt, process, nextId, closed, life, job, queue, reading, answer>>
  BY DEF TimeOut
<1>3. process \in Processes /\ process # Nobody
  BY <1>1, CallsAssumption DEF InUse, TypeOK
<1>4. /\ faulty' = faulty \cup {process} /\ life[process] # "unborn"
      /\ suffered' = IF process \notin faulty THEN [suffered EXCEPT ![c] = @ + 1] ELSE suffered
  BY <1>1, <1>3, CallsAssumption DEF TimeOut, Fault, Lifecycle, Pristine
<1>5. suffered' \in [Calls -> Nat] /\ \A d \in Calls : suffered'[d] >= suffered[d]
  BY <1>4 DEF TypeOK
<1>6. process \notin faulty => suffered'[c] = suffered[c] + 1
  BY <1>4 DEF TypeOK
<1>7. (\A d \in Calls : d # c => pc'[d] = pc[d]) /\ pc'[c] = "stopping"
  BY <1>1 DEF TypeOK
<1>8. TypeOK'
  BY <1>1, <1>2, <1>4, <1>5, <1>3 DEF TypeOK, PC
<1>9. Holding' /\ InUse' /\ NoLeak' /\ AnswersOwn'
  BY <1>1, <1>2, <1>7, CallsAssumption DEF Holding, InUse, NoLeak, AnswersOwn, TypeOK
<1>10. MasksFaults'
  BY <1>5, <1>7, AttemptsAssumption DEF MasksFaults, TypeOK
<1>11. Charged'
  <2> SUFFICES ASSUME c \in Infers PROVE suffered'[c] >= attempt + 1
    BY <1>1, <1>2, <1>5, AttemptsAssumption DEF Charged, TypeOK
  <2>1. suffered[c] \in Nat /\ attempt \in Nat
    BY AttemptsAssumption DEF TypeOK
  <2> QED
    BY <2>1, <1>1, <1>4, <1>5, <1>6 DEF Charged, Sound
<1>12. Lifecycle'
  BY <1>2, <1>3, <1>4 DEF Lifecycle, Pristine
<1>13. Correlated'
  <2>1. \A id : Awaits(id) => Awaits(id)'
    BY <1>1, <1>2, <1>7 DEF Awaits, CurrentId
  <2> QED
    BY <2>1, <1>2 DEF Correlated
<1> QED
  BY <1>8, <1>9, <1>10, <1>11, <1>12, <1>13

LEMMA SendInv == ASSUME Inv, NEW c \in Calls, Send(c) PROVE Inv'
<1> USE DEF Inv
<1>1. pc[c] = "trying" /\ lock = c /\ c # Nobody /\ process \in Processes /\ process # Nobody
  BY CallsAssumption DEF Send, Holding, TypeOK
<1>2. /\ pc' = [pc EXCEPT ![c] = "sent"]
      /\ job' = [job EXCEPT ![process] = [id |-> nextId, of |-> c]]
      /\ life' = [life EXCEPT ![process] = IF @ = "idle" THEN "busy" ELSE @]
      /\ nextId' = nextId + 1 /\ life[process] \in Running
      /\ UNCHANGED <<lock, attempt, process, closed, queue, reading, answer, faulty, suffered>>
  BY DEF Send
<1>3. (\A d \in Calls : d # c => pc'[d] = pc[d]) /\ pc'[c] = "sent"
  BY <1>2 DEF TypeOK
<1>4. life'[process] \in Running /\ \A p \in Processes \ {process} : life'[p] = life[p]
  BY <1>1, <1>2 DEF TypeOK
<1>5. /\ job'[process].id = nextId /\ job'[process].of = c
      /\ \A p \in Processes \ {process} : job'[p] = job[p]
  BY <1>1, <1>2 DEF TypeOK
<1>6. TypeOK'
  <2>1. [id |-> nextId, of |-> c] \in Job
    BY DEF TypeOK, Job
  <2>2. job' \in [Processes -> Job \cup {NoJob}]
    BY <2>1, <1>2 DEF TypeOK
  <2>3. life' \in [Processes -> Running \cup {"unborn", "exited"}]
    BY <1>2 DEF TypeOK
  <2>4. pc' \in [Calls -> PC] /\ nextId' \in Nat \ {0}
    BY <1>2 DEF TypeOK, PC
  <2> QED
    BY <1>2, <2>2, <2>3, <2>4 DEF TypeOK
<1>7. Holding' /\ InUse'
  BY <1>1, <1>2, <1>3, CallsAssumption DEF Holding, InUse, TypeOK
<1>8. Lifecycle'
  BY <1>1, <1>2, <1>4, <1>5 DEF Lifecycle, Pristine
<1>9. NoLeak'
  BY <1>1, <1>2, <1>4 DEF NoLeak
<1>10. AnswersOwn' /\ MasksFaults' /\ Charged'
  BY <1>1, <1>2, <1>3 DEF AnswersOwn, MasksFaults, Charged, Sound
<1>11. Correlated'
  <2>1. \A id : ~Awaits(id)
    BY <1>1 DEF Awaits
  <2>2. \A i \in DOMAIN queue[process] : queue[process][i].says = "broken"
    BY <1>1, <2>1 DEF Correlated
  <2>3. \A id : id = nextId => Awaits(id)'
    BY <1>1, <1>2, <1>3 DEF Awaits, CurrentId, TypeOK
  <2> QED
    BY <2>2, <2>3, <1>1, <1>2, <1>5 DEF Correlated
<1> QED
  BY <1>6, <1>7, <1>8, <1>9, <1>10, <1>11

LEMMA ReceiveInv == ASSUME Inv, NEW c \in Calls, Receive(c) PROVE Inv'
<1> USE DEF Inv
<1> DEFINE q == queue[process]
           m == Head(queue[process])
           end == Outcome(c, m)
<1>1. pc[c] = "sent" /\ lock = c /\ c # Nobody /\ process \in Processes /\ process # Nobody
  BY CallsAssumption DEF Receive, Holding, InUse, TypeOK
<1>2. q \in Seq(Message) /\ q # <<>>
  BY <1>1 DEF Receive, TypeOK
<1>3. /\ m \in Message /\ m = q[1] /\ 1 \in DOMAIN q
      /\ Tail(q) \in Seq(Message)
      /\ DOMAIN Tail(q) = 1 .. Len(q) - 1
      /\ \A i \in DOMAIN Tail(q) : Tail(q)[i] = q[i + 1] /\ i + 1 \in DOMAIN q /\ i + 1 # 1
  BY <1>2, HeadTailProperties
<1>4. /\ pc' = [pc EXCEPT ![c] = end]
      /\ lock' = IF end = "stopping" THEN lock ELSE Nobody
      /\ answer' = IF end = "ok" THEN [answer EXCEPT ![c] = m.of] ELSE answer
      /\ queue' = [queue EXCEPT ![process] = Tail(q)]
      /\ UNCHANGED <<attempt, process, nextId, closed, life, job, reading, faulty, suffered>>
  BY DEF Receive
<1>5. end \in {"stopping", "ok", "rejected"} /\ (c \in Closers => end = "stopping")
  BY DEF Outcome
<1>6. end # "stopping" => m.says # "broken" /\ (end = "ok" => m.says = "ok")
  BY <1>3 DEF Outcome, Unusable, Message
<1>7. m.says # "broken" => m.id = CurrentId /\ (m.says = "ok" => m.of = c) /\ job[process] = NoJob
  BY <1>1, <1>3 DEF Correlated, Awaits
<1>8. (\A d \in Calls : d # c => pc'[d] = pc[d]) /\ pc'[c] = end
  BY <1>4 DEF TypeOK
<1>9. /\ queue'[process] = Tail(q)
      /\ \A p \in Processes \ {process} : queue'[p] = queue[p]
  BY <1>1, <1>4 DEF TypeOK
<1>10. TypeOK'
  <2>1. queue' \in [Processes -> Seq(Message)]
    BY <1>3, <1>4 DEF TypeOK
  <2>2. m.of \in Calls \cup {Nobody}
    BY <1>3 DEF Message
  <2>3. pc' \in [Calls -> PC]
    BY <1>4, <1>5 DEF TypeOK, PC, Ended
  <2>4. answer' \in [Calls -> Calls \cup {Nobody}]
    BY <1>4, <2>2 DEF TypeOK
  <2> QED
    BY <1>4, <2>1, <2>3, <2>4 DEF TypeOK
<1>11. Holding' /\ InUse'
  BY <1>1, <1>4, <1>5, <1>8, CallsAssumption DEF Holding, InUse, TypeOK
<1>12. Lifecycle'
  BY <1>1, <1>2, <1>3, <1>4, <1>9 DEF Lifecycle, Pristine
<1>13. NoLeak'
  BY <1>1, <1>4, <1>5, CallsAssumption DEF NoLeak, Holding
<1>14. AnswersOwn'
  BY <1>4, <1>5, <1>6, <1>7, <1>8 DEF AnswersOwn, TypeOK
<1>15. MasksFaults'
  BY <1>4, <1>5, <1>8 DEF MasksFaults
<1>16. Correlated'
  <2>1. \A i \in DOMAIN queue'[process] : queue'[process][i].says = "broken"
    BY <1>1, <1>3, <1>9 DEF Correlated
  <2>2. CASE end = "stopping"
    <3>1. \A id : Awaits(id) => Awaits(id)'
      BY <2>2, <1>1, <1>4, <1>8 DEF Awaits, CurrentId
    <3> QED
      BY <2>1, <2>2, <3>1, <1>4 DEF Correlated
  <2>3. CASE end # "stopping"
    BY <2>1, <2>3, <1>4, <1>6, <1>7 DEF Correlated
  <2> QED
    BY <2>2, <2>3
<1>17. Charged'
  <2> SUFFICES ASSUME c \in Infers, end = "stopping" PROVE suffered[c] >= attempt + 1
    BY <1>1, <1>4, AttemptsAssumption, CallsAssumption DEF Charged, TypeOK
  <2>1. m.says = "broken"
    BY <1>7, CallsAssumption DEF Outcome, Unusable
  <2>2. ~Sound
    BY <2>1, <1>1, <1>3 DEF Sound, Lifecycle, Holding
  <2> QED
    BY <2>2, <1>1 DEF Charged
<1> QED
  BY <1>10, <1>11, <1>12, <1>13, <1>14, <1>15, <1>16, <1>17

LEMMA StopInv == ASSUME Inv, NEW c \in Calls, Stop(c) PROVE Inv'
<1> USE DEF Inv
<1>1. pc[c] = "stopping" /\ lock = c /\ c # Nobody
  BY CallsAssumption DEF Stop, Holding
<1>2. PICK end \in {"closed", "unavailable", "starting"} :
         /\ pc' = [pc EXCEPT ![c] = end]
         /\ lock' = IF end = "starting" THEN c ELSE Nobody
         /\ end = "starting" => c \in Infers /\ attempt < RestartAttempts
         /\ end = "unavailable" /\ c \in Infers => attempt >= RestartAttempts
  BY <1>1, AttemptsAssumption DEF Stop, LastAttempt, TypeOK
<1>3. /\ process' = Nobody
      /\ life' = [p \in Processes |-> IF p = process THEN "exited" ELSE life[p]]
      /\ job' = [p \in Processes |-> IF p = process THEN NoJob ELSE job[p]]
      /\ UNCHANGED <<attempt, nextId, closed, queue, reading, answer, faulty, suffered>>
  BY DEF Stop
<1>4. (\A d \in Calls : d # c => pc'[d] = pc[d]) /\ pc'[c] = end
  BY <1>2 DEF TypeOK
<1>5. TypeOK'
  BY <1>2, <1>3 DEF TypeOK, PC, Ended
<1>6. Holding' /\ InUse'
  BY <1>1, <1>2, <1>3, <1>4, CallsAssumption DEF Holding, InUse, TypeOK
<1>7. Lifecycle'
  BY <1>3, ProcessesAssumption DEF Lifecycle, Pristine
<1>8. NoLeak'
  BY <1>3 DEF NoLeak
<1>9. Correlated'
  BY <1>3 DEF Correlated
<1>10. AnswersOwn'
  BY <1>2, <1>3, <1>4 DEF AnswersOwn
<1>11. c \in Infers => suffered[c] >= attempt + 1
  BY <1>1 DEF Charged
<1>12. MasksFaults'
  BY <1>2, <1>3, <1>4, <1>11, AttemptsAssumption DEF MasksFaults, TypeOK
<1>13. Charged'
  BY <1>2, <1>3, <1>11, AttemptsAssumption, CallsAssumption DEF Charged, TypeOK
<1> QED
  BY <1>5, <1>6, <1>7, <1>8, <1>9, <1>10, <1>12, <1>13

LEMMA StartInv == ASSUME Inv, NEW c \in Calls, Start(c) PROVE Inv'
<1> USE DEF Inv
<1>1. pc[c] = "starting" /\ lock = c /\ c # Nobody /\ process = Nobody /\ c \notin Closers
  BY CallsAssumption DEF Start, Holding, InUse
<1>2. PICK p \in Processes :
         /\ life[p] = "unborn" /\ p # Nobody
         /\ life' = [life EXCEPT ![p] = "idle"]
         /\ reading' = reading \cup {p}
         /\ process' = p
  BY ProcessesAssumption DEF Start
<1>3. /\ pc' = [pc EXCEPT ![c] = "trying"]
      /\ attempt' = IF c = Constructor THEN 0 ELSE attempt + 1
      /\ UNCHANGED <<lock, nextId, closed, job, queue, answer, faulty, suffered>>
  BY DEF Start
<1>4. (\A d \in Calls : d # c => pc'[d] = pc[d]) /\ pc'[c] = "trying"
  BY <1>3 DEF TypeOK
<1>5. life'[p] = "idle" /\ \A r \in Processes \ {p} : life'[r] = life[r]
  BY <1>2 DEF TypeOK
<1>6. Pristine(p)
  BY <1>2 DEF Lifecycle
<1>7. attempt' \in 0..RestartAttempts /\ (c \in Infers => attempt' = attempt + 1)
  BY <1>1, <1>3, AttemptsAssumption, CallsAssumption DEF InUse, TypeOK
<1>8. TypeOK'
  BY <1>2, <1>3, <1>7 DEF TypeOK, PC
<1>9. Holding' /\ InUse'
  BY <1>1, <1>2, <1>3, <1>4, CallsAssumption DEF Holding, InUse, TypeOK
<1>10. NoLeak'
  BY <1>1, <1>2, <1>3, <1>5, ProcessesAssumption DEF NoLeak
<1>11. Correlated'
  BY <1>2, <1>3, <1>6 DEF Correlated, Pristine
<1>12. Lifecycle'
  <2>1. \A r \in Processes : life'[r] = "unborn" => Pristine(r)'
    BY <1>2, <1>3, <1>5 DEF Lifecycle, Pristine
  <2>2. \A r \in Processes : r \in reading' =>
           \A i \in DOMAIN queue'[r] : queue'[r][i].says # "broken"
    BY <1>2, <1>3, <1>6 DEF Lifecycle, Pristine
  <2>3. life'[process'] # "exited" /\ DOMAIN queue'[process'] = {}
    BY <1>2, <1>3, <1>5, <1>6 DEF Pristine
  <2> QED
    BY <2>1, <2>2, <2>3 DEF Lifecycle
<1>13. AnswersOwn' /\ MasksFaults'
  BY <1>3, <1>4 DEF AnswersOwn, MasksFaults
<1>14. Charged'
  <2> SUFFICES ASSUME c \in Infers PROVE suffered[c] >= attempt' /\ Sound'
    BY <1>1, <1>3, <1>4 DEF Charged
  <2>1. Sound'
    BY <1>2, <1>3, <1>6 DEF Sound, Pristine
  <2> QED
    BY <2>1, <1>1, <1>7 DEF Charged
<1> QED
  BY <1>8, <1>9, <1>10, <1>11, <1>12, <1>13, <1>14

LEMMA StartFailsInv == ASSUME Inv, NEW c \in Calls, StartFails(c) PROVE Inv'
<1> USE DEF Inv
<1>1. pc[c] = "starting" /\ lock = c /\ c \notin Closers /\ process = Nobody
  BY CallsAssumption DEF StartFails, Holding, InUse
<1>2. /\ pc' = [pc EXCEPT ![c] = "not_started"] /\ lock' = Nobody
      /\ UNCHANGED <<attempt, process, nextId, closed, worker, answer>>
  BY DEF StartFails
<1>3. (\A d \in Calls : d # c => pc'[d] = pc[d]) /\ pc'[c] = "not_started"
  BY <1>2 DEF TypeOK
<1>4. TypeOK'
  BY <1>2 DEF TypeOK, PC, Ended
<1>5. Holding' /\ InUse'
  BY <1>1, <1>2, <1>3, CallsAssumption DEF Holding, InUse, TypeOK
<1>6. Lifecycle' /\ NoLeak' /\ Correlated'
  BY <1>1, <1>2 DEF Lifecycle, NoLeak, Correlated, Pristine
<1>7. AnswersOwn' /\ MasksFaults' /\ Charged'
  BY <1>2, <1>3, CallsAssumption DEF AnswersOwn, MasksFaults, Charged
<1> QED
  BY <1>4, <1>5, <1>6, <1>7

-----------------------------------------------------------------------------
LEMMA NextInv == Inv /\ [Next]_vars => Inv'
<1> SUFFICES ASSUME Inv, [Next]_vars PROVE Inv'
  OBVIOUS
<1>1. CASE UNCHANGED vars
  BY <1>1 DEF vars, Inv, TypeOK, Holding, InUse, Lifecycle, Pristine, NoLeak, Correlated,
     Awaits, CurrentId, Charged, Sound, AnswersOwn, MasksFaults
<1>2. ASSUME NEW c \in Calls, ReturnEarly(c) \/ Begin(c) \/ AcquireClosed(c) PROVE Inv'
  BY <1>2, OutsideInv
<1>3. ASSUME NEW c \in Calls, Acquire(c) PROVE Inv'
  BY <1>3, AcquireInv
<1>4. ASSUME NEW c \in Calls, Exchange(c) PROVE Inv'
  BY <1>4, ExchangeFailsInv, SendInv, ReceiveInv, TimeOutInv DEF Exchange
<1>5. ASSUME NEW c \in Calls, Stop(c) \/ Start(c) \/ StartFails(c) PROVE Inv'
  BY <1>5, StopInv, StartInv, StartFailsInv
<1>6. ASSUME NEW p \in Processes, Answer(p) \/ ReaderEnds(p) PROVE Inv'
  BY <1>6, AnswerInv, ReaderEndsInv
<1>7. ASSUME NEW p \in Processes, Failure(p) PROVE Inv'
  BY <1>7, CrashInv, HangInv, GarbleInv DEF Failure
<1> QED
  BY <1>1, <1>2, <1>3, <1>4, <1>5, <1>6, <1>7 DEF Next, Proceed

LEMMA Invariance == Spec => []Inv
<1> QED
  BY InitInv, NextInv, PTL DEF Spec

\* The variables keep their types; an attempt is never counted beyond
\* restart_attempts.
THEOREM TypeCorrect == Spec => []TypeOK
<1> QED
  BY Invariance, PTL DEF Inv

\* The one request in flight of a worker process is that of the exchange under
\* way, whatever was abandoned before (docs/native-worker-protocol.md:47).
THEOREM AlwaysInStep == Spec => []InStep
<1>1. Inv => InStep
  BY DEF Inv, Correlated, InStep
<1> QED
  BY <1>1, Invariance, PTL

\* No worker process outlives its replacement or the backend.
THEOREM NeverLeaks == Spec => []NoLeak
<1> QED
  BY Invariance, PTL DEF Inv

\* infer_batch() returns the results of its own features.
THEOREM AlwaysAnswersOwn == Spec => []AnswersOwn
<1> QED
  BY Invariance, PTL DEF Inv

\* A call survives RestartAttempts failures of workers.
THEOREM AlwaysMasksFaults == Spec => []MasksFaults
<1> QED
  BY Invariance, PTL DEF Inv
-----------------------------------------------------------------------------
(* Implementation of EmbeddingBackend *)

\* No call begins before the construction has succeeded.
Constructed ==
    /\ pc[Constructor] # "ok" => \A c \in Infers \cup Closers : pc[c] = "idle"
    /\ pc[Constructor] \in Inside \cup {"ok", "unavailable", "not_started"}
    /\ closed => pc[Constructor] = "ok"

LEMMA ConstructedStep == Inv /\ Constructed /\ [Next]_vars => Constructed'
<1> SUFFICES ASSUME Inv, Constructed, [Next]_vars PROVE Constructed'
  OBVIOUS
<1> USE DEF Inv, TypeOK
<1>1. CASE UNCHANGED <<pc, closed>>
  BY <1>1 DEF Constructed
<1>2. ASSUME NEW c \in Calls, ReturnEarly(c) \/ Begin(c) \/ AcquireClosed(c) \/ Acquire(c)
      PROVE  Constructed'
  <2>1. pc[Constructor] = "ok" /\ c # Constructor
    BY <1>2 DEF ReturnEarly, Begin, AcquireClosed, Acquire, Constructed
  <2>2. pc'[Constructor] = "ok"
    BY <1>2, <2>1 DEF ReturnEarly, Begin, AcquireClosed, Acquire
  <2> QED BY <2>2 DEF Constructed
<1>3. ASSUME NEW c \in Calls, Proceed(c)
      PROVE  Constructed'
  <2>1. pc[c] \in Inside /\ closed' = closed /\ \A d \in Calls \ {c} : pc'[d] = pc[d]
    BY <1>3 DEF Proceed, Exchange, ExchangeFails, Send, Receive, TimeOut, MayTimeOut, Stop, Start,
                StartFails
  <2>2. CASE c # Constructor
    BY <2>1, <2>2 DEF Constructed
  <2>3. CASE c = Constructor
    <3>1. pc'[c] \in Inside \cup {"ok", "unavailable", "not_started"}
      BY <1>3, <2>3, CallsAssumption
         DEF Proceed, Exchange, ExchangeFails, Send, Receive, Outcome, TimeOut, MayTimeOut, Stop,
             LastAttempt, Start, StartFails
    <3> QED BY <2>1, <2>3, <3>1, CallsAssumption DEF Constructed
  <2> QED BY <2>2, <2>3
<1>4. ASSUME NEW p \in Processes, Answer(p) \/ ReaderEnds(p) \/ Failure(p)
      PROVE  Constructed'
  BY <1>1, <1>4 DEF Answer, ReaderEnds, Failure, Crash, Hang, Garble
<1> QED BY <1>1, <1>2, <1>3, <1>4 DEF Next, vars

SomeAlive == \E p \in Processes : Live(p)
CallStates == [c \in Infers \cup Closers |-> CallState(c)]
Answers == [c \in Infers |-> answer[c]]

LEMMA AliveIsCurrent ==
    ASSUME Inv
    PROVE  SomeAlive <=> process # Nobody /\ Live(process)
BY ProcessesAssumption DEF SomeAlive, Inv, TypeOK, NoLeak

\* The state of a call is its own affair, and the lock's.
LEMMA OneCallChanges ==
    ASSUME Inv, NEW c \in Calls, \A d \in Calls \ {c} : pc'[d] = pc[d],
           lock' = lock \/ (lock \in {c, Nobody} /\ lock' \in {c, Nobody})
    PROVE  /\ \A d \in (Infers \cup Closers) \ {c} : CallState(d)' = CallState(d)
           /\ c \in Infers \cup Closers => CallStates' = [CallStates EXCEPT ![c] = CallState(c)']
           /\ c = Constructor => CallStates' = CallStates
<1>1. \A d \in (Infers \cup Closers) \ {c} : CallState(d)' = CallState(d)
  BY CallsAssumption DEF CallState
<1> QED BY <1>1, CallsAssumption DEF CallStates

LEMMA UnseenStep ==
    ASSUME UNCHANGED <<BackendState, CallStates, Answers, SomeAlive>>
    PROVE  UNCHANGED Backend!backendVars
BY DEF Backend!backendVars, SomeAlive, CallStates, Answers

\* A worker that ends is seen to be gone, whatever ended it.
LEMMA GoneOrUnseen ==
    ASSUME UNCHANGED <<BackendState, CallStates, Answers>>, SomeAlive' => SomeAlive
    PROVE  [Backend!Next]_Backend!backendVars
<1>1. CASE SomeAlive' <=> SomeAlive
  <2>1. SomeAlive' = SomeAlive
    BY <1>1 DEF SomeAlive
  <2> QED BY <2>1, UnseenStep
<1>2. CASE ~SomeAlive'
  <2>1. Backend!WorkerEnds
    BY <1>2 DEF Backend!WorkerEnds, SomeAlive, CallStates, Answers
  <2> QED BY <2>1 DEF Backend!Next
<1> QED BY <1>1, <1>2

LEMMA WorkerSimulates ==
    ASSUME Inv, NEW p \in Processes, Answer(p) \/ ReaderEnds(p) \/ Failure(p)
    PROVE  [Backend!Next]_Backend!backendVars
<1> USE DEF Answer, ReaderEnds, Failure, Crash, Hang, Garble
<1>1. UNCHANGED <<lock, pc, closed, answer>>
  OBVIOUS
<1>2. UNCHANGED <<BackendState, CallStates, Answers>>
  BY <1>1 DEF BackendState, CallStates, CallState, Answers
<1>3. SomeAlive' => SomeAlive
  BY DEF SomeAlive, Inv, TypeOK
<1> QED BY <1>2, <1>3, GoneOrUnseen

LEMMA OutsideSimulates ==
    ASSUME Inv, Constructed, NEW c \in Calls,
           ReturnEarly(c) \/ Begin(c) \/ AcquireClosed(c) \/ Acquire(c)
    PROVE  [Backend!Next]_Backend!backendVars
<1> USE DEF Inv, TypeOK
<1>1. /\ pc[Constructor] = "ok" /\ c \in Infers \cup Closers
      /\ life' = life /\ answer' = answer
      /\ \A d \in Calls \ {c} : pc'[d] = pc[d]
      /\ lock' = lock \/ (lock \in {c, Nobody} /\ lock' \in {c, Nobody})
  BY DEF ReturnEarly, Begin, AcquireClosed, Acquire, Constructed
<1>2. /\ CallStates' = [CallStates EXCEPT ![c] = CallState(c)']
      /\ CallStates[c] = CallState(c)
      /\ Answers' = Answers /\ SomeAlive' = SomeAlive
      /\ BackendState = IF closed THEN "closed" ELSE "open"
  BY <1>1, OneCallChanges DEF CallStates, Answers, SomeAlive, BackendState
<1>3. BackendState' = IF closed' THEN "closed" ELSE "open"
  BY <1>1, CallsAssumption DEF BackendState
<1> USE DEF CallStates, Answers, SomeAlive
<1>4. CASE ReturnEarly(c)
  <2>1. CallState(c) = "idle" /\ CallState(c)' = "early" /\ closed' = closed
    BY <1>1, <1>4 DEF ReturnEarly, CallState
  <2>2. Backend!ReturnEarly(c)
    BY <1>2, <1>3, <2>1 DEF Backend!ReturnEarly
  <2> QED BY <1>4, <2>2 DEF Backend!Next, ReturnEarly
<1>5. CASE Begin(c)
  <2>1. CallState(c) = "idle" /\ CallState(c)' = "called" /\ closed' = closed
    BY <1>1, <1>5 DEF Begin, CallState, Holding
  <2>2. Backend!Begin(c)
    BY <1>2, <1>3, <2>1 DEF Backend!Begin
  <2> QED BY <1>1, <2>2 DEF Backend!Next
<1>6. CASE AcquireClosed(c)
  <2>1. /\ closed /\ closed' = closed /\ CallState(c) = "called"
        /\ CallState(c)' = IF c \in Infers THEN "refused" ELSE "closed"
    BY <1>1, <1>6, CallsAssumption DEF AcquireClosed, CallState
  <2>2. CASE c \in Infers
    <3>1. Backend!Refuse(c)
      BY <1>2, <1>3, <2>1, <2>2 DEF Backend!Refuse
    <3> QED BY <2>2, <3>1 DEF Backend!Next
  <2>3. CASE c \in Closers
    <3>1. ~SomeAlive
      BY <1>6, <2>1, AliveIsCurrent DEF AcquireClosed, NoLeak
    <3>2. CallState(c)' = "closed"
      BY <2>1, <2>3, CallsAssumption
    <3>3. Backend!CloseEnds(c)
      BY <1>2, <1>3, <2>1, <3>1, <3>2 DEF Backend!CloseEnds
    <3> QED BY <2>3, <3>3 DEF Backend!Next
  <2> QED BY <1>1, <2>2, <2>3
<1>7. CASE Acquire(c)
  <2>1. /\ ~closed /\ closed' = (c \in Closers) /\ CallState(c) = "called"
        /\ CallState(c)' = IF c \in Closers THEN "closing" ELSE "called"
    BY <1>1, <1>7, CallsAssumption DEF Acquire, CallState
  <2>2. CASE c \in Infers
    <3>1. c \notin Closers
      BY <2>2, CallsAssumption
    <3>2. CallState(c)' = CallState(c) /\ BackendState' = BackendState
      BY <1>2, <1>3, <2>1, <3>1
    <3>3. \A d \in Infers \cup Closers : CallState(d)' = CallState(d)
      BY <1>1, <3>2, OneCallChanges
    <3>4. CallStates' = CallStates
      BY <3>3
    <3> QED BY <1>2, <3>2, <3>4, UnseenStep
  <2>3. CASE c \in Closers
    <3>1. Backend!Close(c)
      BY <1>2, <1>3, <2>1, <2>3 DEF Backend!Close
    <3> QED BY <2>3, <3>1 DEF Backend!Next
  <2> QED BY <1>1, <2>2, <2>3
<1> QED BY <1>4, <1>5, <1>6, <1>7

LEMMA ExchangeSimulates ==
    ASSUME Inv, Constructed, NEW c \in Calls, Exchange(c)
    PROVE  [Backend!Next]_Backend!backendVars
<1> USE DEF Inv, TypeOK
<1>1. /\ lock = c /\ pc[c] \in Inside /\ closed' = closed
      /\ \A d \in Calls \ {c} : pc'[d] = pc[d]
      /\ lock' \in {c, Nobody} /\ c # Nobody
  BY CallsAssumption
     DEF Exchange, ExchangeFails, Send, Receive, TimeOut, MayTimeOut, Holding
<1>2. SomeAlive' = SomeAlive
  <2>1. \A p \in Processes : Live(p)' = Live(p)
    BY DEF Exchange, ExchangeFails, Send, Receive, TimeOut, MayTimeOut
  <2> QED BY <2>1 DEF SomeAlive
<1>3. CASE pc'[c] \in Inside /\ lock' = lock /\ answer' = answer
  <2>1. CallState(c)' = CallState(c) /\ BackendState' = BackendState
    BY <1>1, <1>3, CallsAssumption DEF CallState, BackendState, Ended, Constructed
  <2>2. CallStates' = CallStates
    BY <1>1, <2>1, OneCallChanges DEF CallStates
  <2> QED BY <1>2, <1>3, <2>1, <2>2, UnseenStep DEF Answers
<1>4. CASE ExchangeFails(c) \/ Send(c) \/ TimeOut(c)
  BY <1>3, <1>4 DEF ExchangeFails, Send, TimeOut, MayTimeOut
<1>5. CASE Receive(c)
  <2> DEFINE m == Head(queue[process])
             end == Outcome(c, m)
  <2>1. /\ pc'[c] = end
        /\ lock' = IF end = "stopping" THEN lock ELSE Nobody
        /\ answer' = IF end = "ok" THEN [answer EXCEPT ![c] = m.of] ELSE answer
    BY <1>5 DEF Receive
  <2>2. /\ end \in {"stopping", "rejected", "ok"}
        /\ c \in Closers => end = "stopping"
        /\ c = Constructor => end # "rejected"
    BY DEF Outcome
  <2> HIDE DEF end
  <2>3. CASE end = "stopping"
    BY <1>3, <2>1, <2>3
  <2>4. CASE end # "stopping" /\ c \in Infers
    <3>1. /\ pc[Constructor] = "ok" /\ c # Constructor /\ ~closed /\ c \notin Closers
      BY <1>1, <2>4, CallsAssumption DEF Constructed, Holding
    <3>2. BackendState = "open" /\ BackendState' = "open"
      BY <1>1, <3>1 DEF BackendState
    <3>3. /\ CallState(c) = "called"
          /\ CallState(c)' = IF end = "ok" THEN "ok" ELSE "failed"
      BY <1>1, <2>1, <2>2, <2>4, <3>1 DEF CallState
    <3>4. /\ CallStates' = [CallStates EXCEPT ![c] = CallState(c)']
          /\ CallStates[c] = CallState(c)
      BY <1>1, <2>4, OneCallChanges DEF CallStates
    <3>5. CASE end = "ok"
      <4>1. answer' = [answer EXCEPT ![c] = c]
        <5>1. AnswersOwn'
          BY <1>5, ReceiveInv
        <5> QED BY <2>1, <2>4, <3>5, <5>1 DEF AnswersOwn
      <4>2. Answers' = [Answers EXCEPT ![c] = c]
        BY <2>4, <4>1 DEF Answers
      <4>3. Backend!Infer(c)
        BY <1>2, <3>2, <3>3, <3>4, <3>5, <4>2
           DEF Backend!Infer, CallStates, Answers, SomeAlive
      <4> QED BY <2>4, <4>3 DEF Backend!Next
    <3>6. CASE end # "ok"
      <4>1. Answers' = Answers
        BY <2>1, <3>6 DEF Answers
      <4>2. Backend!Fail(c)
        BY <1>2, <3>2, <3>3, <3>4, <3>6, <4>1
           DEF Backend!Fail, CallStates, Answers, SomeAlive
      <4> QED BY <2>4, <4>2 DEF Backend!Next
    <3> QED BY <3>5, <3>6
  <2>5. CASE end # "stopping" /\ c = Constructor
    <3>1. end = "ok" /\ ~closed
      BY <1>1, <2>2, <2>5 DEF Constructed
    <3>2. BackendState = "starting" /\ BackendState' = "open"
      BY <1>1, <2>1, <2>5, <3>1 DEF BackendState, Ended
    <3>3. CallStates' = CallStates
      BY <1>1, <2>5, OneCallChanges
    <3>4. Answers' = Answers
      BY <2>1, <2>5, CallsAssumption DEF Answers
    <3>5. Backend!ConstructionEnds
      BY <1>2, <3>2, <3>3, <3>4 DEF Backend!ConstructionEnds, CallStates, Answers, SomeAlive
    <3> QED BY <3>5 DEF Backend!Next
  <2> QED BY <2>2, <2>3, <2>4, <2>5
<1> QED BY <1>4, <1>5 DEF Exchange

LEMMA StopSimulates ==
    ASSUME Inv, Constructed, NEW c \in Calls, Stop(c)
    PROVE  [Backend!Next]_Backend!backendVars
<1> USE DEF Inv, TypeOK
<1>1. /\ pc[c] = "stopping" /\ lock = c /\ c # Nobody /\ closed' = closed /\ answer' = answer
      /\ \A d \in Calls \ {c} : pc'[d] = pc[d]
      /\ lock' \in {c, Nobody}
  BY CallsAssumption DEF Stop, Holding
<1>2. ~SomeAlive'
  <2>1. \A p \in Processes : p # process => ~Live(p)
    BY DEF NoLeak
  <2> QED BY <2>1 DEF Stop, SomeAlive
<1>3. SomeAlive' = FALSE /\ Answers' = Answers
  BY <1>1, <1>2 DEF Answers, SomeAlive
<1>4. CASE ~LastAttempt(c)
  <2>1. pc'[c] = "starting" /\ lock' = lock
    BY <1>4 DEF Stop
  <2>2. CallState(c)' = CallState(c) /\ BackendState' = BackendState
    BY <1>1, <2>1, CallsAssumption DEF CallState, BackendState, Ended, Constructed
  <2>3. CallStates' = CallStates
    BY <1>1, <2>2, OneCallChanges DEF CallStates
  <2> QED BY <1>3, <2>2, <2>3, GoneOrUnseen
<1>5. CASE LastAttempt(c)
  <2>1. pc'[c] = IF c \in Closers THEN "closed" ELSE "unavailable"
    BY <1>5 DEF Stop
  <2>2. CASE c = Constructor
    <3>1. pc'[c] = "unavailable" /\ ~closed /\ pc[c] # "ok"
      BY <1>1, <2>1, <2>2, CallsAssumption DEF Constructed
    <3>2. BackendState = "starting" /\ BackendState' = "failed"
      BY <1>1, <2>2, <3>1 DEF BackendState, Ended
    <3>3. CallStates' = CallStates
      BY <1>1, <2>2, OneCallChanges
    <3>4. Backend!ConstructionEnds
      BY <1>3, <3>2, <3>3 DEF Backend!ConstructionEnds, CallStates, Answers, SomeAlive
    <3> QED BY <3>4 DEF Backend!Next
  <2>3. CASE c # Constructor
    <3>1. /\ pc[Constructor] = "ok" /\ c \in Infers \cup Closers
          /\ CallStates' = [CallStates EXCEPT ![c] = CallState(c)']
          /\ CallStates[c] = CallState(c)
      BY <1>1, <2>3, OneCallChanges DEF Constructed, CallStates
    <3>2. BackendState' = BackendState /\ BackendState = IF closed THEN "closed" ELSE "open"
      BY <1>1, <2>3, <3>1, CallsAssumption DEF BackendState
    <3>3. CASE c \in Infers
      <4>1. /\ ~closed /\ c \notin Closers
        BY <1>1, <3>3, CallsAssumption DEF Holding
      <4>2. CallState(c) = "called" /\ CallState(c)' = "failed"
        BY <1>1, <2>1, <4>1 DEF CallState
      <4>3. Backend!Fail(c)
        BY <1>3, <3>1, <3>2, <4>1, <4>2 DEF Backend!Fail, CallStates, Answers, SomeAlive
      <4> QED BY <3>3, <4>3 DEF Backend!Next
    <3>4. CASE c \in Closers
      <4>1. closed
        BY <1>1, <3>4 DEF Holding
      <4>2. CallState(c) = "closing" /\ CallState(c)' = "closed"
        BY <1>1, <2>1, <3>4 DEF CallState
      <4>3. Backend!CloseEnds(c)
        BY <1>3, <3>1, <3>2, <4>1, <4>2 DEF Backend!CloseEnds, CallStates, Answers, SomeAlive
      <4> QED BY <3>4, <4>3 DEF Backend!Next
    <3> QED BY <3>1, <3>3, <3>4
  <2> QED BY <2>2, <2>3
<1> QED BY <1>4, <1>5

LEMMA StartSimulates ==
    ASSUME Inv, Constructed, NEW c \in Calls, Start(c) \/ StartFails(c)
    PROVE  [Backend!Next]_Backend!backendVars
<1> USE DEF Inv, TypeOK
<1>1. /\ pc[c] = "starting" /\ lock = c /\ c # Nobody /\ c \notin Closers /\ ~closed
      /\ closed' = closed /\ answer' = answer
      /\ \A d \in Calls \ {c} : pc'[d] = pc[d]
      /\ lock' \in {c, Nobody}
  BY CallsAssumption DEF Start, StartFails, Holding
<1>2. ~SomeAlive /\ SomeAlive = FALSE /\ Answers' = Answers
  <2>1. process = Nobody
    BY <1>1 DEF InUse
  <2> QED BY <1>1, <2>1, AliveIsCurrent DEF Answers, SomeAlive
<1>3. CASE Start(c)
  <2>1. pc'[c] = "trying" /\ lock' = lock
    BY <1>3 DEF Start
  <2>2. SomeAlive' = TRUE
    BY <1>3 DEF Start, SomeAlive
  <2>3. CallState(c)' = CallState(c) /\ BackendState' = BackendState
    BY <1>1, <2>1, CallsAssumption DEF CallState, BackendState, Ended, Constructed
  <2>4. CallStates' = CallStates
    BY <1>1, <2>3, OneCallChanges DEF CallStates
  <2>5. BackendState = "starting" \/ (BackendState = "open" /\ \E i \in Infers : CallStates[i] = "called")
    <3>1. CASE c = Constructor
      BY <1>1, <3>1 DEF BackendState, Ended
    <3>2. CASE c \in Infers
      <4>1. pc[Constructor] = "ok"
        BY <1>1, <3>2 DEF Constructed
      <4>2. BackendState = "open" /\ CallStates[c] = "called"
        BY <1>1, <3>2, <4>1 DEF BackendState, CallStates, CallState
      <4> QED BY <3>2, <4>2
    <3> QED BY <1>1, <3>1, <3>2
  <2>6. Backend!WorkerStarts
    BY <1>2, <2>2, <2>3, <2>4, <2>5 DEF Backend!WorkerStarts, CallStates, Answers, SomeAlive
  <2> QED BY <2>6 DEF Backend!Next
<1>4. CASE StartFails(c)
  <2>1. pc'[c] = "not_started" /\ lock' = Nobody
    BY <1>4 DEF StartFails
  <2>2. SomeAlive' = SomeAlive
    BY <1>4 DEF StartFails, SomeAlive
  <2>3. CASE c = Constructor
    <3>1. BackendState = "starting" /\ BackendState' = "failed"
      BY <1>1, <2>1, <2>3 DEF BackendState, Ended
    <3>2. CallStates' = CallStates
      BY <1>1, <2>3, OneCallChanges
    <3>3. Backend!ConstructionEnds
      BY <1>2, <2>2, <3>1, <3>2 DEF Backend!ConstructionEnds, CallStates, Answers, SomeAlive
    <3> QED BY <3>3 DEF Backend!Next
  <2>4. CASE c \in Infers
    <3>1. pc[Constructor] = "ok" /\ pc'[Constructor] = "ok"
      BY <1>1, <2>4, CallsAssumption DEF Constructed
    <3>2. BackendState = "open" /\ BackendState' = "open"
      BY <1>1, <3>1 DEF BackendState
    <3>3. CallState(c) = "called" /\ CallState(c)' = "failed"
      BY <1>1, <2>1 DEF CallState
    <3>4. /\ CallStates' = [CallStates EXCEPT ![c] = CallState(c)']
          /\ CallStates[c] = CallState(c)
      BY <1>1, <2>4, OneCallChanges DEF CallStates
    <3>5. Backend!Fail(c)
      BY <1>2, <2>2, <3>2, <3>3, <3>4 DEF Backend!Fail, CallStates, Answers, SomeAlive
    <3> QED BY <2>4, <3>5 DEF Backend!Next
  <2> QED BY <1>1, <2>3, <2>4
<1> QED BY <1>3, <1>4

\* Whatever overlaps, fails or is retried, every call of the backend is as good
\* as indivisible, for any number of calls, processes and attempts
\* (native_worker.py:60-321).
THEOREM Implements == Spec => ImplementsBackend
<1>1. Init => Inv /\ Constructed
  BY InitInv, CallsAssumption DEF Init, Constructed
<1>2. Init => Backend!Init
  <2> SUFFICES ASSUME Init PROVE Backend!Init
    OBVIOUS
  <2>1. BackendState = "starting" /\ ~SomeAlive /\ SomeAlive = FALSE
    BY DEF Init, BackendState, Ended, SomeAlive
  <2>2. \A c \in Infers \cup Closers : CallState(c) = "idle" /\ answer[c] = Nobody
    BY CallsAssumption DEF Init, CallState
  <2> QED BY <2>1, <2>2 DEF Backend!Init, SomeAlive
<1>3. Inv /\ Constructed /\ [Next]_vars => Inv' /\ Constructed'
  BY NextInv, ConstructedStep
<1>4. Inv /\ Constructed /\ [Next]_vars => [Backend!Next]_Backend!backendVars
  <2> SUFFICES ASSUME Inv, Constructed, [Next]_vars
               PROVE  [Backend!Next]_Backend!backendVars
    OBVIOUS
  <2>1. CASE UNCHANGED vars
    <3>1. UNCHANGED <<BackendState, CallStates, Answers, SomeAlive>>
      BY <2>1 DEF vars, BackendState, CallStates, CallState, Answers, SomeAlive
    <3> QED BY <3>1, UnseenStep
  <2>2. CASE Next
    BY <2>2, WorkerSimulates, OutsideSimulates, ExchangeSimulates, StopSimulates,
       StartSimulates DEF Next, Proceed
  <2> QED BY <2>1, <2>2
<1> QED BY <1>1, <1>2, <1>3, <1>4, PTL DEF Spec, ImplementsBackend, Backend!Spec
=============================================================================
