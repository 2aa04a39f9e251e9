-------------------------- MODULE Autoscaler_proofs --------------------------
(***************************************************************************)
(* Type correctness of the autoscaler, the distance between its actions    *)
(* and the earning of a scale-down, for every configuration and all loads. *)
(* That the loop settles is liveness and stays with TLC.                   *)
(***************************************************************************)
EXTENDS Autoscaler, TLAPS

\* The recorded time of the last action is never later, on the slowest clock,
\* than the action: a clock that is ahead can only shorten what age shows.
IInv == TypeOK /\ age <= quiet
-----------------------------------------------------------------------------
(* The numbers that are recommended *)

\* _clamp() stays within the bounds of the configuration and keeps the order.
LEMMA ClampBounds ==
  ASSUME NEW n \in Int
  PROVE  /\ Clamp(n) \in MinReplicas..MaxReplicas
         /\ n \in MinReplicas..MaxReplicas => Clamp(n) = n
BY ConfigAssumption DEF Clamp, Least, Greatest

\* A correction adds at least one replica.
LEMMA CorrectionPositive ==
  ASSUME NEW backlog \in Nat
  PROVE  Correction(backlog) \in Nat \ {0}
<1>1. (backlog + BacklogHigh - 1) \div BacklogHigh \in Int
  BY ConfigAssumption
<1> QED BY <1>1 DEF Correction, Greatest

LEMMA LoadTypes ==
  ASSUME NEW l \in Loads
  PROVE  l.capacity \in Nat /\ l.backlog \in Nat /\ l.queue \in Nat /\ l.idle \in BOOLEAN
BY SampleAssumption DEF Loads

\* What a load calls for is within the bounds; below a number of replicas that
\* is within the bounds, only the capacity has a say.
LEMMA DesiredBounds ==
  ASSUME NEW l \in Loads, NEW n \in Nat \ {0}
  PROVE  /\ Desired(l, n) \in MinReplicas..MaxReplicas
         /\ Clamp(l.capacity) <= Desired(l, n)
         /\ Desired(l, n) < n /\ n <= MaxReplicas =>
              /\ l.backlog < BacklogHigh /\ l.queue < QueueHigh
              /\ Desired(l, n) = Clamp(l.capacity)
<1> DEFINE backlogged == IF l.backlog >= BacklogHigh THEN n + Correction(l.backlog) ELSE 0
           queued == IF l.queue >= QueueHigh THEN n + 1 ELSE 0
           most == Greatest(Clamp(l.capacity), Greatest(backlogged, queued))
<1>1. l.capacity \in Nat /\ l.backlog \in Nat /\ l.queue \in Nat
  BY LoadTypes
<1>2. Correction(l.backlog) \in Nat \ {0}
  BY <1>1, CorrectionPositive
<1>3. Clamp(l.capacity) \in MinReplicas..MaxReplicas
  BY <1>1, ClampBounds
<1>4. backlogged \in Nat /\ queued \in Nat
  BY <1>2
<1>5. most \in Nat /\ most >= Clamp(l.capacity) /\ most >= backlogged /\ most >= queued
  BY <1>3, <1>4, ConfigAssumption DEF Greatest
<1>6. Desired(l, n) = Clamp(most)
  BY DEF Desired
<1>7. Desired(l, n) \in MinReplicas..MaxReplicas
  BY <1>5, <1>6, ClampBounds
<1>8. Clamp(l.capacity) <= Desired(l, n)
  BY <1>3, <1>5, <1>6, ConfigAssumption DEF Clamp, Least, Greatest
<1>9. ASSUME Desired(l, n) < n, n <= MaxReplicas
      PROVE  most < n
  BY <1>5, <1>6, <1>9, ConfigAssumption DEF Clamp, Least, Greatest
<1>10. ASSUME Desired(l, n) < n, n <= MaxReplicas
       PROVE  l.backlog < BacklogHigh /\ l.queue < QueueHigh
  BY <1>1, <1>2, <1>4, <1>5, <1>9, <1>10, ConfigAssumption
<1>11. ASSUME Desired(l, n) < n, n <= MaxReplicas
       PROVE  Desired(l, n) = Clamp(l.capacity)
  <2>1. backlogged = 0 /\ queued = 0
    BY <1>1, <1>10, <1>11, ConfigAssumption
  <2>2. most = Clamp(l.capacity)
    BY <1>3, <2>1, ConfigAssumption DEF Greatest
  <2> QED BY <1>3, <1>6, <2>2, ClampBounds
<1> QED BY <1>7, <1>8, <1>10, <1>11

\* The target of a scale-down is less than what runs, and enough for the load.
LEMMA TargetSuffices ==
  ASSUME NEW l \in Loads, NEW n \in Nat \ {0}, Desired(l, n) < n
  PROVE  /\ Target(l, n) \in MinReplicas..MaxReplicas
         /\ Target(l, n) < n
         /\ Desired(l, Target(l, n)) <= Target(l, n)
<1> DEFINE t == Target(l, n)
<1>1. Desired(l, n) \in MinReplicas..MaxReplicas
  BY DesiredBounds
<1>2. t \in MinReplicas..MaxReplicas /\ t < n
  BY <1>1, ConfigAssumption DEF Target, Clamp, Least, Greatest
<1>3. t \in Nat \ {0}
  BY <1>2, ConfigAssumption
<1>4. Desired(l, t) \in MinReplicas..MaxReplicas
  BY <1>3, DesiredBounds
<1>5. CASE n > MaxReplicas
  <2>1. t = MaxReplicas
    BY <1>1, <1>5, ConfigAssumption DEF Target, Clamp, Least, Greatest
  <2> QED BY <1>2, <1>4, <2>1, ConfigAssumption
<1>6. CASE n <= MaxReplicas
  <2>1. Desired(l, n) = Clamp(l.capacity) /\ l.backlog < BacklogHigh /\ l.queue < QueueHigh
    BY <1>6, DesiredBounds
  <2>2. Desired(l, t) = Clamp(Greatest(Clamp(l.capacity), Greatest(0, 0)))
    BY <2>1, LoadTypes, ConfigAssumption DEF Desired
  <2>3. Desired(l, t) = Clamp(l.capacity)
    <3>1. Clamp(l.capacity) \in MinReplicas..MaxReplicas
      BY LoadTypes, ClampBounds
    <3>2. Greatest(Clamp(l.capacity), Greatest(0, 0)) = Clamp(l.capacity)
      BY <3>1, ConfigAssumption DEF Greatest
    <3> QED BY <2>2, <3>1, <3>2, ClampBounds
  <2>4. Desired(l, n) <= t
    BY <1>1, <1>6, ConfigAssumption DEF Target, Clamp, Least, Greatest
  <2> QED BY <1>2, <2>1, <2>3, <2>4
<1> QED BY <1>5, <1>6, ConfigAssumption

LEMMA CountLowType ==
  ASSUME TypeOK, NEW l \in Loads, NEW n \in Nat
  PROVE  /\ CountLow(l, n) \in 0..ScaleDownWindows
         /\ CountLow(l, n) = IF LowLoad(l, n) THEN Least(calm + 1, ScaleDownWindows) ELSE 0
         /\ CountLow(l, n) <= calm + 1
BY ConfigAssumption DEF TypeOK, CountLow, Least
-----------------------------------------------------------------------------
(* The invariant *)

LEMMA Initial == Init => IInv
<1> SUFFICES ASSUME Init PROVE IInv
  OBVIOUS
<1>1. replicas \in Nat
  BY SampleAssumption DEF Init
<1>2. decision \in Decision
  BY <1>1 DEF Init, Decision, Action
<1> QED BY <1>2, ConfigAssumption, OffsetAssumption DEF Init, IInv, TypeOK

\* Recommending an action, of either direction, for a number within the bounds.
LEMMA ActsPreserves ==
  ASSUME IInv, NEW offset \in Offsets, NEW action \in Action,
         NEW desired \in MinReplicas..MaxReplicas,
         Acts(offset, action, desired), low_windows' = 0, UNCHANGED <<load, replicas>>
  PROVE  IInv'
<1>1. desired \in Nat /\ desired \in Replicas
  BY ConfigAssumption, SampleAssumption
<1>2. decision' \in Decision
  BY <1>1 DEF Acts, Decides, Decision
<1>3. age' \in (-MaxOffset)..Cooldown /\ age' <= quiet' /\ quiet' \in 0..Cooldown
  BY ConfigAssumption, OffsetAssumption DEF Acts, Recorded
<1>4. low_windows' \in 0..ScaleDownWindows /\ low_windows' = calm'
  BY ConfigAssumption DEF Acts
<1>5. {replicas', ordered'} \subseteq Replicas /\ load' \in Loads
  BY <1>1 DEF Acts, IInv, TypeOK
<1> QED BY <1>2, <1>3, <1>4, <1>5 DEF IInv, TypeOK

LEMMA ScaleUpPreserves ==
  ASSUME IInv, NEW offset \in Offsets, ScaleUp(offset)
  PROVE  IInv'
<1>1. load \in Loads /\ replicas \in Nat \ {0}
  BY SampleAssumption DEF IInv, TypeOK
<1>2. Desired(load, replicas) \in MinReplicas..MaxReplicas
  BY <1>1, DesiredBounds
<1> QED BY <1>2, ActsPreserves DEF ScaleUp, Action

LEMMA ScaleDownPreserves ==
  ASSUME IInv, NEW offset \in Offsets, ScaleDown(offset)
  PROVE  IInv'
<1>1. load \in Loads /\ replicas \in Nat \ {0}
  BY SampleAssumption DEF IInv, TypeOK
<1>2. Desired(load, replicas) < replicas
  BY DEF ScaleDown, MayScaleDown, LowLoad
<1>3. Target(load, replicas) \in MinReplicas..MaxReplicas
  BY <1>1, <1>2, TargetSuffices
<1> QED BY <1>3, ActsPreserves DEF ScaleDown, Action

LEMMA HoldPreserves ==
  ASSUME IInv, NEW offset \in Offsets, Hold(offset)
  PROVE  IInv'
<1>1. load \in Loads /\ replicas \in Nat \ {0}
  BY SampleAssumption DEF IInv, TypeOK
<1>2. decision' \in Decision
  BY <1>1 DEF Hold, Decides, Decision, Action
<1>3. low_windows' \in 0..ScaleDownWindows /\ low_windows' = calm'
  BY <1>1, CountLowType DEF Hold, IInv
<1> QED BY <1>2, <1>3 DEF Hold, IInv, TypeOK

LEMMA SurroundingsPreserve ==
  ASSUME IInv, Tick \/ LoadChanges \/ Apply
  PROVE  IInv'
<1>1. CASE Tick
  <2>1. /\ age' \in (-MaxOffset)..Cooldown /\ quiet' \in 0..Cooldown
        /\ age' <= quiet'
    BY <1>1, ConfigAssumption, OffsetAssumption DEF Tick, IInv, TypeOK, Least
  <2> QED BY <1>1, <2>1 DEF Tick, IInv, TypeOK
<1>2. CASE LoadChanges
  BY <1>2 DEF LoadChanges, IInv, TypeOK
<1>3. CASE Apply
  BY <1>3 DEF Apply, IInv, TypeOK
<1> QED BY <1>1, <1>2, <1>3

LEMMA Inductive == IInv /\ [Next]_vars => IInv'
<1> SUFFICES ASSUME IInv, [Next]_vars PROVE IInv'
  OBVIOUS
<1>1. ASSUME NEW offset \in Offsets, Recommend(offset) PROVE IInv'
  BY <1>1, ScaleUpPreserves, ScaleDownPreserves, HoldPreserves DEF Recommend
<1>2. CASE Tick \/ LoadChanges \/ Apply
  BY <1>2, SurroundingsPreserve
<1>3. CASE UNCHANGED vars
  BY <1>3 DEF vars, IInv, TypeOK
<1> QED BY <1>1, <1>2, <1>3 DEF Next

-----------------------------------------------------------------------------
(* The theorems *)

\* The variables keep their types, and _low_windows counts what it should.
THEOREM TypeCorrect == Spec => []TypeOK
<1>1. IInv => TypeOK
  BY DEF IInv
<1> QED BY <1>1, Initial, Inductive, PTL DEF Spec

\* The cooldown is kept between any two actions, less the clocks' difference.
THEOREM CooldownKept == Spec => ActionsApart
<1> DEFINE A == (\E offset \in Offsets : ScaleUp(offset) \/ ScaleDown(offset))
                   => quiet >= Cooldown - MaxOffset
<1>1. IInv /\ [Next]_vars => [A]_vars
  <2> SUFFICES ASSUME IInv, NEW offset \in Offsets, ScaleUp(offset) \/ ScaleDown(offset)
               PROVE  quiet >= Cooldown - MaxOffset
    OBVIOUS
  <2>1. age + offset >= Cooldown
    BY DEF ScaleUp, ScaleDown, MayScaleDown, CooldownElapsed
  <2> QED BY <2>1, ConfigAssumption, OffsetAssumption DEF IInv, TypeOK
<1> QED BY <1>1, Initial, Inductive, PTL DEF Spec, ActionsApart

\* A scale-down is earned, and the same load does not call for its reversal.
THEOREM DownIsEarned == Spec => ScaleDownIsEarned
<1> DEFINE A == (\E offset \in Offsets : ScaleDown(offset))
                   => /\ calm + 1 >= ScaleDownWindows
                      /\ decision'.desired < replicas
                      /\ Desired(load, decision'.desired) <= decision'.desired
<1>1. IInv /\ [Next]_vars => [A]_vars
  <2> SUFFICES ASSUME IInv, NEW offset \in Offsets, ScaleDown(offset)
               PROVE  /\ calm + 1 >= ScaleDownWindows
                      /\ decision'.desired < replicas
                      /\ Desired(load, decision'.desired) <= decision'.desired
    OBVIOUS
  <2>1. load \in Loads /\ replicas \in Nat \ {0} /\ TypeOK
    BY SampleAssumption DEF IInv, TypeOK
  <2>2. decision'.desired = Target(load, replicas)
    BY DEF ScaleDown, Acts, Decides
  <2>3. Desired(load, replicas) < replicas /\ CountLow(load, replicas) >= ScaleDownWindows
    BY DEF ScaleDown, MayScaleDown, LowLoad
  <2>4. calm + 1 >= ScaleDownWindows
    BY <2>1, <2>3, CountLowType, ConfigAssumption DEF TypeOK
  <2> QED BY <2>1, <2>2, <2>3, <2>4, TargetSuffices
<1> QED BY <1>1, Initial, Inductive, PTL DEF Spec, ScaleDownIsEarned
=============================================================================
