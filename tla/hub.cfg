SPECIFICATION Spec
CONSTANTS
  MaxFrames = 2
  MaxBytes = 3
  PushToHub = TRUE
  Stride = 1
  UploadEvery = 2
  NumEpisodes = 2
  MaxTicks = 2
  MaxCorrections = 2
  MaxQueued = 1
INVARIANT LeftReadable
CHECK_DEADLOCK FALSE
