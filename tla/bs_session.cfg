SPECIFICATION FairSSpec
CONSTANTS
  Codes <- OneCode
  DetectionPresses = 2
  MaxPresses = 3
  ForkFails = TRUE
  MaxForks = 2
  MaxQueue = 2
INVARIANTS DetectionHasChild OneListener AddIsForDetected
PROPERTIES StoppedEnds PressesCount CancelDiscards
