CONSTANTS
  Capacity = 3
  MaxWorkers = 3
  LearnAfter = 2
  MaxEpisodes <- TwoThenOne
  MaxSteps = 2
  MaxVersion = 2
  MaxBacklog = 2
  MaxFaults = 1
SPECIFICATION FairSpec
INVARIANTS
  TypeOK
  EpisodesInOrder
  HoldsLatest
  NextStateTrue
PROPERTIES
  LearnerStarts
  ActorLeaves
  ParametersArrive
CHECK_DEADLOCK FALSE
