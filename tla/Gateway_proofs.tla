--------------------------- MODULE Gateway_proofs ---------------------------
(***************************************************************************)
(* What accept() guarantees for every set of keys, epochs and sequence     *)
(* numbers, Nat included.  AdmittedOnce is not inductive by itself: it     *)
(* needs that nothing beyond the cursor was ever admitted, CursorIsFrontier.*)
(***************************************************************************)
EXTENDS Gateway, TLAPS

\* The cursor is the frontier of admission: nothing of a later epoch, and in
\* the cursor's epoch nothing past last_seq, has been admitted.
CursorIsFrontier ==
    \A k \in Keys, e \in Epochs, s \in Seqs :
        times[k][e][s] >= 1 =>
            /\ cursors[k] # NoCursor
            /\ e <= cursors[k].epoch
            /\ e = cursors[k].epoch => s <= cursors[k].last_seq

\* Nothing was reported missing beyond the cursor either.
ReportsBehindCursor ==
    \A k \in Keys, e \in Epochs, s \in Seqs :
        s \in reported[k][e] =>
            /\ cursors[k] # NoCursor
            /\ e <= cursors[k].epoch
            /\ e = cursors[k].epoch => s < cursors[k].last_seq

GatewayInv == /\ GatewayTypeOK
              /\ CursorIsFrontier
              /\ ReportsBehindCursor
              /\ AdmittedOnce
              /\ GapsAccounted

\* A range of missing numbers lies within the sequence numbers.
LEMMA MissingType ==
    ASSUME NEW lo \in Nat, NEW seq \in Seqs
    PROVE  Missing(lo, seq) \in SUBSET Seqs /\ Missing(lo, seq) \in SUBSET Nat
BY SeqsAssumption DEF Missing

\* A cursor that is present holds an epoch and a sequence number.
LEMMA CursorFields ==
    ASSUME GatewayTypeOK, NEW key \in Keys, cursors[key] # NoCursor
    PROVE  /\ cursors[key].epoch \in Epochs /\ cursors[key].epoch \in Nat
           /\ cursors[key].last_seq \in Seqs /\ cursors[key].last_seq \in Nat
           /\ cursors[key].last_seq + 1 \in Nat
<1>1. cursors[key] \in [epoch : Epochs, last_seq : Seqs]
  BY DEF GatewayTypeOK, Cursor
<1>2. cursors[key].epoch \in Epochs /\ cursors[key].last_seq \in Seqs
  BY <1>1
<1>3. cursors[key].epoch \in Nat /\ cursors[key].last_seq \in Nat
  BY <1>2, EpochsAssumption, SeqsAssumption
<1>4. cursors[key].last_seq + 1 \in Nat
  BY <1>3
<1> QED
  BY <1>2, <1>3, <1>4

\* An admission keeps every variable in its type.
LEMMA AdmitType ==
    ASSUME GatewayTypeOK, NEW key \in Keys, NEW epoch \in Epochs, NEW seq \in Seqs,
           NEW lo \in Nat, Admit(key, epoch, seq, Missing(lo, seq))
    PROVE  GatewayTypeOK'
<1>1. Missing(lo, seq) \in SUBSET Seqs /\ Missing(lo, seq) \in SUBSET Nat
  BY MissingType
<1>2. seq \in Nat /\ seq + 1 \in Nat
  BY SeqsAssumption
<1>3. cursors' \in [Keys -> Cursor]
  BY DEF GatewayTypeOK, Admit, Cursor
<1>4. times' \in [Keys -> [Epochs -> [Seqs -> Nat]]]
  BY DEF GatewayTypeOK, Admit
<1>5. reported' \in [Keys -> [Epochs -> SUBSET Seqs]]
  BY <1>1 DEF GatewayTypeOK, Admit
<1>6. answer' \in Answer
  BY <1>1, <1>2 DEF Admit, Reply, Answer, Status
<1> QED
  BY <1>3, <1>4, <1>5, <1>6 DEF GatewayTypeOK

\* A packet that is admitted is beyond the frontier, so it was neither
\* admitted nor reported before; the cursor moves to it.
LEMMA AdmitInv ==
    ASSUME GatewayInv, NEW key \in Keys, NEW epoch \in Epochs, NEW seq \in Seqs,
           NEW lo \in Nat, Admit(key, epoch, seq, Missing(lo, seq)),
           \/ IsNewStream(cursors[key], epoch) /\ lo = 0
           \/ IsNext(cursors[key], epoch, seq) /\ lo = cursors[key].last_seq + 1
    PROVE  GatewayInv'
<1> USE EpochsAssumption, SeqsAssumption
<1> DEFINE c == cursors[key]
<1>1. GatewayTypeOK'
  BY AdmitType DEF GatewayInv
<1>2. cursors'[key] = [epoch |-> epoch, last_seq |-> seq] /\ cursors'[key] # NoCursor
  BY DEF GatewayInv, GatewayTypeOK, Admit, NoCursor
<1>3. \A k \in Keys : k # key => /\ cursors'[k] = cursors[k]
                                 /\ times'[k] = times[k]
                                 /\ reported'[k] = reported[k]
  BY DEF GatewayInv, GatewayTypeOK, Admit
<1>4. \A e \in Epochs, s \in Seqs :
         /\ times'[key][e][s] =
              IF e = epoch /\ s = seq THEN times[key][e][s] + 1 ELSE times[key][e][s]
         /\ s \in reported'[key][e] <=>
              (s \in reported[key][e] \/ (e = epoch /\ lo <= s /\ s < seq))
  BY DEF GatewayInv, GatewayTypeOK, Admit, Missing
<1>5. \A e \in Epochs, s \in Seqs : times[key][e][s] \in Nat
  BY DEF GatewayInv, GatewayTypeOK
<1>6. \/ c = NoCursor /\ lo = 0
      \/ c \in [epoch : Epochs, last_seq : Seqs] /\ c # NoCursor
         /\ \/ epoch > c.epoch /\ lo = 0
            \/ epoch = c.epoch /\ seq > c.last_seq /\ lo = c.last_seq + 1
  <2>1. c \in Cursor
    BY DEF GatewayInv, GatewayTypeOK
  <2>2. CASE c = NoCursor
    BY <2>2 DEF IsNewStream, IsNext
  <2>3. CASE c # NoCursor
    <3>1. c.epoch \in Nat /\ c.last_seq \in Nat /\ epoch \in Nat /\ seq \in Nat
      BY <2>3, CursorFields DEF GatewayInv
    <3> QED
      BY <2>1, <2>3, <3>1 DEF Cursor, IsNewStream, IsNext, IsStale, IsDuplicate
  <2> QED
    BY <2>2, <2>3
<1>7. \A s \in Seqs : /\ times[key][epoch][s] >= 1 => s < seq /\ s < lo
                      /\ s \in reported[key][epoch] => s < seq /\ s < lo
  <2>1. CASE c = NoCursor
    BY <2>1, <1>5 DEF GatewayInv, CursorIsFrontier, ReportsBehindCursor
  <2>2. CASE c # NoCursor
    <3>1. c.epoch \in Nat /\ c.last_seq \in Nat
      BY <2>2, CursorFields DEF GatewayInv
    <3> QED
      BY <2>2, <3>1, <1>5, <1>6 DEF GatewayInv, CursorIsFrontier, ReportsBehindCursor
  <2> QED
    BY <2>1, <2>2
<1>8. \A e \in Epochs, s \in Seqs :
         times[key][e][s] >= 1 \/ s \in reported[key][e] => e <= epoch
  <2>1. CASE c = NoCursor
    BY <2>1, <1>5 DEF GatewayInv, CursorIsFrontier, ReportsBehindCursor
  <2>2. CASE c # NoCursor
    <3>1. c.epoch \in Nat /\ c.last_seq \in Nat
      BY <2>2, CursorFields DEF GatewayInv
    <3>2. c.epoch <= epoch /\ epoch \in Nat
      BY <2>2, <3>1, <1>6
    <3>3. \A e \in Epochs, s \in Seqs :
             times[key][e][s] >= 1 \/ s \in reported[key][e] => e <= c.epoch
      BY <2>2 DEF GatewayInv, CursorIsFrontier, ReportsBehindCursor
    <3>4. ASSUME NEW e \in Epochs, NEW s \in Seqs,
                 times[key][e][s] >= 1 \/ s \in reported[key][e]
          PROVE  e <= epoch
      <4>1. e <= c.epoch
        BY <3>3, <3>4
      <4>2. e \in Nat
        BY EpochsAssumption
      <4> QED
        BY <3>1, <3>2, <4>1, <4>2
    <3> QED
      BY <3>4
  <2> QED
    BY <2>1, <2>2
<1>9. CursorIsFrontier'
  <2> SUFFICES ASSUME NEW k \in Keys, NEW e \in Epochs, NEW s \in Seqs,
                      times'[k][e][s] >= 1
               PROVE  /\ cursors'[k] # NoCursor
                      /\ e <= cursors'[k].epoch
                      /\ e = cursors'[k].epoch => s <= cursors'[k].last_seq
    BY DEF CursorIsFrontier
  <2>1. CASE k # key
    BY <2>1, <1>3 DEF GatewayInv, CursorIsFrontier
  <2>2. CASE k = key
    BY <2>2, <1>2, <1>4, <1>5, <1>7, <1>8
  <2> QED
    BY <2>1, <2>2
<1>10. ReportsBehindCursor'
  <2> SUFFICES ASSUME NEW k \in Keys, NEW e \in Epochs, NEW s \in Seqs,
                      s \in reported'[k][e]
               PROVE  /\ cursors'[k] # NoCursor
                      /\ e <= cursors'[k].epoch
                      /\ e = cursors'[k].epoch => s < cursors'[k].last_seq
    BY DEF ReportsBehindCursor
  <2>1. CASE k # key
    BY <2>1, <1>3 DEF GatewayInv, ReportsBehindCursor
  <2>2. CASE k = key
    BY <2>2, <1>2, <1>4, <1>7, <1>8
  <2> QED
    BY <2>1, <2>2
<1>11. AdmittedOnce'
  <2>1. \A s \in Seqs : s = seq => times[key][epoch][s] = 0
    BY <1>5, <1>7
  <2> QED
    BY <2>1, <1>3, <1>4, <1>5 DEF GatewayInv, AdmittedOnce
<1>12. GapsAccounted'
  <2> SUFFICES ASSUME NEW k \in Keys, cursors'[k] # NoCursor,
                      NEW s \in 0..cursors'[k].last_seq
               PROVE  (times'[k][cursors'[k].epoch][s] >= 1)
                        <=> (s \notin reported'[k][cursors'[k].epoch])
    BY DEF GapsAccounted
  <2>1. CASE k # key
    BY <2>1, <1>3 DEF GatewayInv, GapsAccounted
  <2>2. CASE k = key
    <3>1. s \in Seqs /\ s <= seq /\ 0 <= s
      BY <2>2, <1>2
    <3>2. CASE s = seq
      BY <3>2, <2>2, <3>1, <1>2, <1>4, <1>5, <1>7
    <3>3. CASE s < seq /\ s >= lo
      BY <3>3, <2>2, <3>1, <1>2, <1>4, <1>5, <1>7
    <3>4. CASE s < seq /\ s < lo
      <4>1. c # NoCursor /\ epoch = c.epoch /\ s \in 0..c.last_seq
        BY <3>4, <3>1, <1>6
      <4>2. (times[key][epoch][s] >= 1) <=> (s \notin reported[key][epoch])
        BY <4>1 DEF GatewayInv, GapsAccounted
      <4> QED
        BY <4>2, <3>4, <2>2, <3>1, <1>2, <1>4, <1>5
    <3> QED
      BY <3>1, <3>2, <3>3, <3>4
  <2> QED
    BY <2>1, <2>2
<1> QED
  BY <1>1, <1>9, <1>10, <1>11, <1>12 DEF GatewayInv

\* The invariant holds before any packet arrives.
LEMMA InitInv == GatewayInit => GatewayInv
BY DEF GatewayInit, GatewayInv, GatewayTypeOK, CursorIsFrontier, ReportsBehindCursor,
       AdmittedOnce, GapsAccounted, Cursor, NoCursor

\* Every return of accept(), and forget(), preserves it.
LEMMA StepInv == GatewayInv /\ [GatewayNext]_gatewayVars => GatewayInv'
<1> SUFFICES ASSUME GatewayInv, [GatewayNext]_gatewayVars
             PROVE  GatewayInv'
  OBVIOUS
<1>1. ASSUME NEW key \in Keys, NEW epoch \in Epochs, NEW seq \in Seqs,
             AcceptNewStream(key, epoch, seq)
      PROVE  GatewayInv'
  BY <1>1, AdmitInv DEF AcceptNewStream
<1>2. ASSUME NEW key \in Keys, NEW epoch \in Epochs, NEW seq \in Seqs,
             AcceptNext(key, epoch, seq)
      PROVE  GatewayInv'
  <2>1. cursors[key] # NoCursor
    BY <1>2 DEF AcceptNext, IsNext, IsNewStream
  <2>2. cursors[key].last_seq + 1 \in Nat
    BY <2>1, CursorFields DEF GatewayInv
  <2> QED
    BY <1>2, <2>2, AdmitInv DEF AcceptNext
<1>3. ASSUME NEW key \in Keys, NEW epoch \in Epochs, NEW seq \in Seqs,
             Rejection(key, epoch, seq)
      PROVE  GatewayInv'
  <2>1. cursors[key] # NoCursor
    BY <1>3, EpochsAssumption
       DEF Rejection, RejectStale, RejectDuplicate, IsStale, IsDuplicate, IsNewStream, NoCursor
  <2>2. cursors[key].last_seq + 1 \in Nat
    BY <2>1, CursorFields DEF GatewayInv
  <2>3. answer' \in Answer
    BY <1>3, <2>2 DEF Rejection, RejectStale, RejectDuplicate, Reply, Answer, Status
  <2> QED
    BY <1>3, <2>3 DEF Rejection, RejectStale, RejectDuplicate, GatewayInv, GatewayTypeOK,
          CursorIsFrontier, ReportsBehindCursor, AdmittedOnce, GapsAccounted
<1>4. ASSUME NEW key \in Keys, Forget(key)
      PROVE  GatewayInv'
  <2>1. GatewayTypeOK'
    BY <1>4 DEF Forget, DropCursor, GatewayInv, GatewayTypeOK, Cursor
  <2>2. \A k \in Keys : k # key => /\ cursors'[k] = cursors[k]
                                   /\ times'[k] = times[k]
                                   /\ reported'[k] = reported[k]
    BY <1>4 DEF Forget, DropCursor, GatewayInv, GatewayTypeOK
  <2>3. /\ cursors'[key] = NoCursor
        /\ \A e \in Epochs : reported'[key][e] = {}
        /\ \A e \in Epochs, s \in Seqs : times'[key][e][s] = 0
    BY <1>4 DEF Forget, DropCursor, GatewayInv, GatewayTypeOK
  <2>4. CursorIsFrontier' /\ AdmittedOnce'
    BY <2>2, <2>3 DEF GatewayInv, CursorIsFrontier, AdmittedOnce
  <2>5. ReportsBehindCursor'
    BY <2>2, <2>3 DEF GatewayInv, ReportsBehindCursor
  <2>6. GapsAccounted'
    BY <2>2, <2>3 DEF GatewayInv, GapsAccounted
  <2> QED
    BY <2>1, <2>4, <2>5, <2>6 DEF GatewayInv
<1>5. CASE UNCHANGED gatewayVars
  BY <1>5 DEF gatewayVars, GatewayInv, GatewayTypeOK, CursorIsFrontier,
              ReportsBehindCursor, AdmittedOnce, GapsAccounted
<1> QED
  BY <1>1, <1>2, <1>3, <1>4, <1>5 DEF GatewayNext, Admission

\* The gateway's data stays well typed (gateway.py:29-56).
THEOREM TypeCorrect == GatewaySpec => []GatewayTypeOK
<1>1. GatewayInv => GatewayTypeOK
  BY DEF GatewayInv
<1> QED
  BY <1>1, InitInv, StepInv, PTL DEF GatewaySpec

\* No packet of a stream is admitted twice, whatever the network repeats.
THEOREM NoSecondAdmission == GatewaySpec => []AdmittedOnce
<1>1. GatewayInv => AdmittedOnce
  BY DEF GatewayInv
<1> QED
  BY <1>1, InitInv, StepInv, PTL DEF GatewaySpec

\* Every hole in the current stream of a key was reported, and only holes were.
THEOREM HolesReported == GatewaySpec => []GapsAccounted
<1>1. GatewayInv => GapsAccounted
  BY DEF GatewayInv
<1> QED
  BY <1>1, InitInv, StepInv, PTL DEF GatewaySpec

\* Admissions of a key are strictly increasing in (epoch, sequence number).
THEOREM AdmissionOrder == GatewaySpec => AdmitsInOrder
<1> DEFINE Ordered == \A k \in Keys, e \in Epochs, s \in Seqs :
          times'[k][e][s] > times[k][e][s] =>
             \A f \in Epochs, r \in Seqs :
                times[k][f][r] >= 1 => f < e \/ (f = e /\ r < s)
<1>1. ASSUME GatewayInv, [GatewayNext]_gatewayVars
      PROVE  [Ordered]_gatewayVars
  <2> SUFFICES ASSUME NEW k \in Keys, NEW e \in Epochs, NEW s \in Seqs,
                      times'[k][e][s] > times[k][e][s],
                      NEW f \in Epochs, NEW r \in Seqs, times[k][f][r] >= 1
               PROVE  f < e \/ (f = e /\ r < s)
    OBVIOUS
  <2> USE EpochsAssumption, SeqsAssumption
  <2>1. times[k][e][s] \in Nat /\ times[k][f][r] \in Nat
    BY <1>1 DEF GatewayInv, GatewayTypeOK
  <2>2. times' # times
    BY <2>1
  <2>3. PICK key \in Keys, epoch \in Epochs, seq \in Seqs : Admission(key, epoch, seq)
                                                            \/ Forget(key)
    BY <1>1, <2>2 DEF GatewayNext, Rejection, RejectStale, RejectDuplicate, gatewayVars
  <2>4. CASE Forget(key)
    BY <1>1, <2>1, <2>4 DEF Forget, GatewayInv, GatewayTypeOK
  <2>5. CASE Admission(key, epoch, seq)
    <3>1. times' = [times EXCEPT ![key][epoch][seq] = @ + 1]
      BY <2>5 DEF Admission, AcceptNewStream, AcceptNext, Admit
    <3>2. k = key /\ e = epoch /\ s = seq
      BY <1>1, <2>1, <3>1 DEF GatewayInv, GatewayTypeOK
    <3>3. /\ cursors[k] \in Cursor
          /\ cursors[k] # NoCursor
          /\ f <= cursors[k].epoch
          /\ f = cursors[k].epoch => r <= cursors[k].last_seq
      BY <1>1 DEF GatewayInv, GatewayTypeOK, CursorIsFrontier
    <3> QED
      BY <2>5, <3>2, <3>3 DEF Admission, AcceptNewStream, AcceptNext, IsNewStream, IsNext,
                              IsStale, IsDuplicate, Cursor
  <2> QED
    BY <2>3, <2>4, <2>5
<1> QED
  BY <1>1, InitInv, StepInv, PTL DEF GatewaySpec, AdmitsInOrder
=============================================================================
