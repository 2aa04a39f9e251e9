CONSTANTS
  MinReplicas = 2
  MaxReplicas = 4
  BacklogHigh = 2
  BacklogLow = 1
  QueueHigh = 2
  Cooldown = 2
  ScaleDownWindows = 2
  LastReplica = 5
  LastCapacity = 5
  LastBacklog = 3
  MaxOffset = 1
  Replicas <- MCReplicas
  Capacities <- MCCapacities
  Backlogs <- MCBacklogs
  Queues <- MCQueues
  Offsets <- MCOffsets
SPECIFICATION Spec
INVARIANT TypeOK
PROPERTIES ActionsApart ScaleDownIsEarned Settles
