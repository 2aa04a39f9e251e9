----------------------------- MODULE Autoscaler -----------------------------
(***************************************************************************)
(* Scaling recommendations: AudioBacklogAutoscaler of autoscaler.py, in a  *)
(* loop with what it is asked about and what follows its answers.          *)
(*                                                                         *)
(* One object serves every connection and remembers two things between     *)
(* calls: when it last recommended an action, and how many samples of low  *)
(* load it saw in a row.  recommend() does not suspend: a call is a step.  *)
(* The load changes at any time, and an orchestrator, which the repository *)
(* leaves to others, carries a recommendation out some time later; until   *)
(* then clients go on reporting the old number of replicas.                *)
(*                                                                         *)
(* A sample carries the time at which it was taken, by the client's clock, *)
(* or by the service's when it carries none (autoscaler.py:43).  Offsets   *)
(* says how far these clocks are ahead of the slowest of them.             *)
(* _last_action_at is kept as its age by the slowest clock: `age`, which   *)
(* stops growing at Cooldown, when it makes no more difference.            *)
(***************************************************************************)
EXTENDS Integers

CONSTANTS MinReplicas, MaxReplicas,   \* AutoscalerConfig
          BacklogHigh, BacklogLow, QueueHigh, Cooldown, ScaleDownWindows,
          Replicas,                   \* numbers of replicas that may be running
          Capacities,                 \* ceil(arrival * RTF / target utilisation)
          Backlogs, Queues,           \* backlog_seconds and queue_p95_ms
          Offsets, MaxOffset          \* of the clocks that stamp samples

ASSUME ConfigAssumption ==   \* AutoscalerConfig.__post_init__, and a sane BacklogHigh
    /\ MinReplicas \in Nat \ {0} /\ MaxReplicas \in Nat /\ MinReplicas <= MaxReplicas
    /\ ScaleDownWindows \in Nat \ {0} /\ BacklogHigh \in Nat \ {0}
    /\ BacklogLow \in Nat /\ QueueHigh \in Nat /\ Cooldown \in Nat
ASSUME SampleAssumption ==   \* what _validate() lets through
    /\ Replicas \subseteq Nat \ {0} /\ MinReplicas..MaxReplicas \subseteq Replicas
    /\ Capacities \subseteq Nat /\ Backlogs \subseteq Nat /\ Queues \subseteq Nat
ASSUME OffsetAssumption == MaxOffset \in Nat /\ Offsets \subseteq 0..MaxOffset

VARIABLES age,           \* clock minus _last_action_at, at most Cooldown
          low_windows,   \* _low_windows, at most ScaleDownWindows
          decision,      \* the ScalingDecision of the last call
          load,          \* what a sample taken now would report
          replicas,      \* how many are running
          ordered,       \* how many the orchestrator was last told to run
          quiet, calm    \* histories: time since an action was recommended, and
                         \* calls in a row that found low load and did nothing

vars == <<age, low_windows, decision, load, replicas, ordered, quiet, calm>>
-----------------------------------------------------------------------------
Loads == [capacity : Capacities, backlog : Backlogs, queue : Queues, idle : BOOLEAN]

Action == {"scale_up", "scale_down", "hold"}

Decision == [action : Action, desired : Nat]

Least(a, b) == IF a <= b THEN a ELSE b
Greatest(a, b) == IF a >= b THEN a ELSE b

Clamp(n) == Least(MaxReplicas, Greatest(MinReplicas, n))

\* ceil(backlog_seconds / backlog_high_seconds), at least 1.
Correction(backlog) == Greatest(1, (backlog + BacklogHigh - 1) \div BacklogHigh)

\* The number of replicas that a load calls for when n are running.
Desired(l, n) ==
    LET backlogged == IF l.backlog >= BacklogHigh THEN n + Correction(l.backlog) ELSE 0
        queued == IF l.queue >= QueueHigh THEN n + 1 ELSE 0
    IN  Clamp(Greatest(Clamp(l.capacity), Greatest(backlogged, queued)))

\* `idle` stands for worker_utilization < 0.65 * target_utilization.
X_LowAtDemand(l, n) == l.backlog <= BacklogLow /\ 2 * l.queue < QueueHigh /\ l.idle
LowLoad(l, n) == /\ Desired(l, n) < n
                 /\ l.backlog <= BacklogLow
                 /\ 2 * l.queue < QueueHigh
                 /\ l.idle

CooldownElapsed(offset) == age + offset >= Cooldown

\* What happens to _last_action_at when an action is recommended.
X_NotRecorded(offset) == age
Recorded(offset) == -offset

\* The number of replicas to scale down to.
X_StepsOfTwo(l, n) == Clamp(n - 2)
Target(l, n) == Clamp(Greatest(Desired(l, n), n - 1))

\* _low_windows after a call that does not scale down.
X_KeptOnOverload(l, n) == IF LowLoad(l, n) THEN Least(low_windows + 1, ScaleDownWindows)
                          ELSE IF Desired(l, n) > n THEN low_windows ELSE 0
CountLow(l, n) == IF LowLoad(l, n) THEN Least(low_windows + 1, ScaleDownWindows) ELSE 0
-----------------------------------------------------------------------------
(* recommend(sample): one action per kind of answer *)

Decides(action, desired) == decision' = [action |-> action, desired |-> desired]

Acts(offset, action, desired) == /\ Decides(action, desired) /\ ordered' = desired
                                 /\ age' = Recorded(offset) /\ quiet' = 0 /\ calm' = 0

ScaleUp(offset) ==
    /\ Desired(load, replicas) > replicas /\ CooldownElapsed(offset)
    /\ low_windows' = 0
    /\ Acts(offset, "scale_up", Desired(load, replicas))
    /\ UNCHANGED <<load, replicas>>

MayScaleDown(offset) == /\ LowLoad(load, replicas)
                        /\ CountLow(load, replicas) >= ScaleDownWindows
                        /\ CooldownElapsed(offset)

ScaleDown(offset) ==
    /\ MayScaleDown(offset)
    /\ low_windows' = 0
    /\ Acts(offset, "scale_down", Target(load, replicas))
    /\ UNCHANGED <<load, replicas>>

Hold(offset) ==
    /\ ~(Desired(load, replicas) > replicas /\ CooldownElapsed(offset))
    /\ ~MayScaleDown(offset)
    /\ low_windows' = CountLow(load, replicas)
    /\ calm' = IF LowLoad(load, replicas) THEN Least(calm + 1, ScaleDownWindows) ELSE 0
    /\ Decides("hold", replicas)
    /\ UNCHANGED <<age, load, replicas, ordered, quiet>>

Recommend(offset) == ScaleUp(offset) \/ ScaleDown(offset) \/ Hold(offset)
-----------------------------------------------------------------------------
(* The surroundings *)

Tick == /\ age' = Least(age + 1, Cooldown)
        /\ quiet' = Least(quiet + 1, Cooldown)
        /\ UNCHANGED <<low_windows, decision, load, replicas, ordered, calm>>

LoadChanges == /\ \E l \in Loads : load' = l
               /\ UNCHANGED <<age, low_windows, decision, replicas, ordered, quiet, calm>>

\* The orchestrator carries out the last action that was recommended.
Apply == /\ replicas # ordered /\ replicas' = ordered
         /\ UNCHANGED <<age, low_windows, decision, load, ordered, quiet, calm>>

Init == /\ age = Cooldown /\ quiet = Cooldown   \* _last_action_at is minus infinity
        /\ low_windows = 0 /\ calm = 0
        /\ load \in Loads /\ replicas \in Replicas /\ ordered = replicas
        /\ decision = [action |-> "hold", desired |-> replicas]

Next == \/ \E offset \in Offsets : Recommend(offset)
        \/ Tick \/ LoadChanges \/ Apply

\* Samples keep coming, time passes, and recommendations are carried out.
Fairness == /\ WF_vars(\E offset \in Offsets : Recommend(offset))
            /\ WF_vars(Tick) /\ WF_vars(Apply)

Spec == Init /\ [][Next]_vars /\ Fairness
-----------------------------------------------------------------------------
(* Properties *)

\* Type correctness; the counter of low samples is always the number of
\* samples that were low, were seen in a row and led to nothing.
TypeOK == /\ age \in (-MaxOffset)..Cooldown
          /\ low_windows \in 0..ScaleDownWindows /\ low_windows = calm
          /\ decision \in Decision /\ load \in Loads
          /\ {replicas, ordered} \subseteq Replicas /\ quiet \in 0..Cooldown

\* Recommended actions, of either direction, are apart by the cooldown less
\* what the clocks differ ("respects a cooldown", docs/architecture.md:59).
\* With unsynchronised clocks the second term is all that is left of it.
ActionsApart ==
    [][(\E offset \in Offsets : ScaleUp(offset) \/ ScaleDown(offset))
          => quiet >= Cooldown - MaxOffset]_vars

\* Replicas are taken away only after ScaleDownWindows low samples in a row,
\* without an action in between ("several consecutive low windows",
\* docs/architecture.md:58-59), and then so few that the same load, reported
\* again, does not call for them back.
ScaleDownIsEarned ==
    [][(\E offset \in Offsets : ScaleDown(offset))
          => /\ calm + 1 >= ScaleDownWindows
             /\ decision'.desired < replicas
             /\ Desired(load, decision'.desired) <= decision'.desired]_vars

Overloaded == Desired(load, replicas) > replicas

\* Under a load that stays the loop settles: every overload is answered in
\* the end, as far as MaxReplicas allows, and recommendations do not oscillate.
Settles == <>[][UNCHANGED load]_vars => <>[](~Overloaded /\ decision.action = "hold")
=============================================================================
