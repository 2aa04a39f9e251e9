CONSTANTS
  LastEpoch = 1
  MidTime = 3
  Epochs <- MCEpochs
  Times <- MCTimes
  Sizes <- MCSizes
  Window = 3
  Hop = 2
  Frame = 1
  MinFlush = 2
  Tolerance = 1
  MaxSurplus = 1
  Retention = 2
  MaxSegments = 2
  Unknown = Unknown
  Alice = Alice
  Bob = Bob
  Speakers <- MCSpeakers
  Outcomes <- MCOutcomes
  Events <- MCEvents
SPECIFICATION Spec
INVARIANTS TypeOK OneStretch LabelsFollowAudio EveryHop LittleIsLost BestMatch
PROPERTY AnswersAreStable
