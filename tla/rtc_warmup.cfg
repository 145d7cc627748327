SPECIFICATION FairSpec
CONSTANTS
  ChunkLen = 3
  Threshold = 1
  MaxDelay = 2
  Warmup = 2
  MaxErrors = 2
  MaxEra = 3
PROPERTIES WarmupEnds
