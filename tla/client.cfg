SPECIFICATION Spec
CONSTANTS
  ActionsPerChunk = 3
  ThresholdNum = 1
  ThresholdDen = 2
  MaxStep = 4
  MaxRepeats = 2
INVARIANTS TypeOK QueueIncreasing NothingSkipped QueueBounded
PROPERTY ImplementsActionStream
