SPECIFICATION Spec
CONSTANTS
  ActionsPerChunk = 3
  ThresholdNum = 1
  ThresholdDen = 2
  MaxStep = 4
  MaxRepeats = 2
INVARIANT ReceiverSurvives
