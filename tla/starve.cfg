SPECIFICATION JointSpec
CONSTANTS
  ActionsPerChunk = 2
  ThresholdNum = 1
  ThresholdDen = 2
  MaxStep = 2
  MaxRepeats = 0
  Workers = {w1, w2}
  Poses = {0}
  StartPose = 0
  Moves <- AtRest
  None = None
  MaxFaults = 0
PROPERTY EmptyQueueServed
