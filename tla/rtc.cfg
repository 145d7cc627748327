SPECIFICATION FairSpec
CONSTANTS
  ChunkLen = 4
  Threshold = 1
  MaxDelay = 3
  Warmup = 1
  MaxErrors = 3
  MaxEra = 3
INVARIANTS TypeOK QueueBounded
PROPERTIES ErasInOrder ImplementsActionBuffer StaleReplaced FailureEndsRollout
