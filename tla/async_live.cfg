SPECIFICATION JointSpec
CONSTANTS
  ActionsPerChunk = 2
  ThresholdNum = 1
  ThresholdDen = 2
  MaxStep = 2
  MaxRepeats = 0
  Workers = {w1, w2}
  Poses = {0, 1, 2, 3}
  StartPose = 0
  Moves <- MovesOn
  None = None
  MaxFaults = 0
PROPERTIES NothingLost WaitingEnds
