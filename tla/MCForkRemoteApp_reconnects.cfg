CONSTANTS
  MaxGenerations = 6
  MaxFaults = 4
SPECIFICATION PageFairSpec
CHECK_DEADLOCK FALSE
INVARIANT SingleFlight
PROPERTY Reconnects
