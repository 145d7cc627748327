SPECIFICATION FairSpec
CONSTANTS
  MaxFrames = 2
  MaxBytes = 3
  Stride = 2
  UploadEvery = 2
  NumEpisodes = 2
  MaxTicks = 4
  PushToHub = TRUE
  MaxCorrections = 2
  MaxQueued = 1
INVARIANTS TypeOK NothingLost CorrectionsWhole PendingValid RingKeepsNewest PushDue AllPushed
PROPERTIES ImplementsEpisodeLog StopReleasesRobot
CHECK_DEADLOCK FALSE
