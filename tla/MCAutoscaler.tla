---------------------------- MODULE MCAutoscaler ----------------------------
(* Small values on both sides of every threshold of the configuration.       *)
EXTENDS Autoscaler

CONSTANTS LastReplica, LastCapacity, LastBacklog

MCReplicas == 1..LastReplica
MCCapacities == {0, MaxReplicas - 1, LastCapacity}
MCBacklogs == {0, BacklogHigh, LastBacklog}
MCQueues == {0, QueueHigh \div 2, QueueHigh}
MCOffsets == {0, MaxOffset}
=============================================================================
