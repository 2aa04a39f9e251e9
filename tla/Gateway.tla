------------------------------ MODULE Gateway ------------------------------
(***************************************************************************)
(* Admission of audio packets: EventGateway of gateway.py.                 *)
(*                                                                         *)
(* Per (tenant, session) key the gateway keeps one cursor, the highest     *)
(* client epoch it has seen and the last sequence number it admitted in    *)
(* that epoch.  accept() runs under a thread lock, so a call is one step.  *)
(* The network between client and service may lose, repeat and reorder     *)
(* packets: any packet may arrive in any state, any number of times.       *)
(*                                                                         *)
(* The cursor and the answer are the program's state.  `times` and         *)
(* `reported` are histories, kept from the last forget of a key: how often *)
(* each packet was admitted, and which packets an answer named in its      *)
(* missing_range.                                                          *)
(***************************************************************************)
EXTENDS Integers, FiniteSets

CONSTANTS Keys,     \* (tenant_id, session_id) pairs
          Epochs,   \* values of client_epoch
          Seqs      \* values of seq_no, an initial segment of Nat

\* AudioChunk.__post_init__ rejects negative epochs and sequence numbers.
ASSUME EpochsAssumption == Epochs \subseteq Nat
ASSUME SeqsAssumption == Seqs \subseteq Nat
                         /\ \A s \in Seqs : 0..s \subseteq Seqs

VARIABLES cursors,   \* EventGateway._cursors
          answer,    \* the decision of the last accept(), with the packet it is about
          times,     \* history: admissions of each packet
          reported   \* history: packets reported missing

gatewayVars == <<cursors, answer, times, reported>>
-----------------------------------------------------------------------------
(* The program's data *)

NoCursor == [epoch |-> -1, last_seq |-> -1]

Cursor == [epoch : Epochs, last_seq : Seqs] \cup {NoCursor}

Status == {"accepted", "gap_accepted", "duplicate", "stale_epoch"}

NoAnswer == [status |-> "none"]

Answer == [key : Keys, epoch : Epochs, seq : Seqs, status : Status,
           expected_next_seq : Nat, missing : SUBSET Nat]

\* The missing_range of a decision, as the set it denotes: {} is None.
X_RangeFromNext(lo, seq) == (lo + 1)..(seq - 1)
Missing(lo, seq) == lo..(seq - 1)

\* The three early returns, and what is left.
X_EveryEpochIsNew(cursor, epoch) == cursor = NoCursor \/ epoch >= cursor.epoch
IsNewStream(cursor, epoch) == cursor = NoCursor \/ epoch > cursor.epoch

X_NothingIsStale(cursor, epoch) == FALSE
IsStale(cursor, epoch) == ~IsNewStream(cursor, epoch) /\ epoch < cursor.epoch

X_LastMayRepeat(cursor, epoch, seq) == epoch = cursor.epoch /\ seq < cursor.last_seq
IsDuplicate(cursor, epoch, seq) == epoch = cursor.epoch /\ seq <= cursor.last_seq

IsNext(cursor, epoch, seq) == ~IsNewStream(cursor, epoch)
                              /\ ~IsStale(cursor, epoch)
                              /\ ~IsDuplicate(cursor, epoch, seq)
-----------------------------------------------------------------------------
(* accept(chunk): one action per return of the function *)

Reply(key, epoch, seq, status, next, missing) ==
    answer' = [key |-> key, epoch |-> epoch, seq |-> seq, status |-> status,
               expected_next_seq |-> next, missing |-> missing]

Admit(key, epoch, seq, missing) ==
    /\ cursors' = [cursors EXCEPT ![key] = [epoch |-> epoch, last_seq |-> seq]]
    /\ times' = [times EXCEPT ![key][epoch][seq] = @ + 1]
    /\ reported' = [reported EXCEPT ![key][epoch] = @ \cup missing]
    /\ Reply(key, epoch, seq,
             IF missing = {} THEN "accepted" ELSE "gap_accepted", seq + 1, missing)

AcceptNewStream(key, epoch, seq) ==
    /\ IsNewStream(cursors[key], epoch)
    /\ Admit(key, epoch, seq, Missing(0, seq))

AcceptNext(key, epoch, seq) ==
    /\ IsNext(cursors[key], epoch, seq)
    /\ Admit(key, epoch, seq, Missing(cursors[key].last_seq + 1, seq))

RejectStale(key, epoch, seq) ==
    /\ IsStale(cursors[key], epoch)
    /\ Reply(key, epoch, seq, "stale_epoch", cursors[key].last_seq + 1, {})
    /\ UNCHANGED <<cursors, times, reported>>

RejectDuplicate(key, epoch, seq) ==
    /\ IsDuplicate(cursors[key], epoch, seq)
    /\ Reply(key, epoch, seq, "duplicate", cursors[key].last_seq + 1, {})
    /\ UNCHANGED <<cursors, times, reported>>

Admission(key, epoch, seq) == \/ AcceptNewStream(key, epoch, seq)
                              \/ AcceptNext(key, epoch, seq)

Rejection(key, epoch, seq) == \/ RejectStale(key, epoch, seq)
                              \/ RejectDuplicate(key, epoch, seq)

\* forget(tenant, session).  Nothing in the service calls it.  It answers
\* nothing: the decision before it is about a history that ends here.
X_ForgetRewinds(key) ==
    cursors' = [cursors EXCEPT ![key] = [epoch |-> 0, last_seq |-> -1]]
DropCursor(key) == cursors' = [cursors EXCEPT ![key] = NoCursor]

Forget(key) ==
    /\ DropCursor(key)
    /\ times' = [times EXCEPT ![key] = [e \in Epochs |-> [s \in Seqs |-> 0]]]
    /\ reported' = [reported EXCEPT ![key] = [e \in Epochs |-> {}]]
    /\ answer' = NoAnswer
-----------------------------------------------------------------------------
GatewayInit ==
    /\ cursors = [k \in Keys |-> NoCursor]
    /\ answer = NoAnswer
    /\ times = [k \in Keys |-> [e \in Epochs |-> [s \in Seqs |-> 0]]]
    /\ reported = [k \in Keys |-> [e \in Epochs |-> {}]]

GatewayNext ==
    \E key \in Keys :
        \/ \E epoch \in Epochs, seq \in Seqs :
              \/ Admission(key, epoch, seq)
              \/ Rejection(key, epoch, seq)
        \/ Forget(key)

GatewaySpec == GatewayInit /\ [][GatewayNext]_gatewayVars
-----------------------------------------------------------------------------
(* Properties *)

\* Every variable stays in its type: in particular a cursor is either absent
\* or made of an epoch and a sequence number that a packet carried.
GatewayTypeOK ==
    /\ cursors \in [Keys -> Cursor]
    /\ answer \in Answer \cup {NoAnswer}
    /\ times \in [Keys -> [Epochs -> [Seqs -> Nat]]]
    /\ reported \in [Keys -> [Epochs -> SUBSET Seqs]]

\* However packets are repeated, reordered or mixed between epochs, accept()
\* lets each (key, epoch, seq) through at most once (gateway.py:33-52).
AdmittedOnce ==
    \A k \in Keys, e \in Epochs, s \in Seqs : times[k][e][s] <= 1

\* In the current epoch of a key every sequence number up to the cursor was
\* either admitted or named in the missing_range of some answer, never both:
\* no hole goes unreported and nothing that was ingested is reported lost.
GapsAccounted ==
    \A k \in Keys :
        LET c == cursors[k] IN
        c # NoCursor =>
            \A s \in 0..c.last_seq :
                (times[k][c.epoch][s] >= 1) <=> (s \notin reported[k][c.epoch])

\* A step that admits a packet never does so for an epoch older than one
\* already admitted for the key, nor behind a packet of the same epoch
\* (gateway.py:39-43): the frontend sees each stream in order.
AdmitsInOrder ==
    [][\A k \in Keys, e \in Epochs, s \in Seqs :
          times'[k][e][s] > times[k][e][s] =>
             \A f \in Epochs, r \in Seqs :
                times[k][f][r] >= 1 => f < e \/ (f = e /\ r < s)]_gatewayVars

\* docs/architecture.md:76 says of a sequence gap "accept, record missing
\* range, allow retransmit control": a packet is a duplicate only if it was
\* ingested before.  The code answers "duplicate" to a packet that it reported
\* missing and that has never been admitted.
DuplicateWasAdmitted ==
    answer # NoAnswer =>
        (answer.status = "duplicate" => times[answer.key][answer.epoch][answer.seq] >= 1)
=============================================================================
