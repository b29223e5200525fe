CONSTANTS
  Call = {"c1", "c2"}
  Evt = {"e1"}
  Late = {"c1", "e1"}
  EndsClient = TRUE
  MaxListens = 1
  MaxFires = 1
SPECIFICATION FairSpec
CHECK_DEADLOCK FALSE
INVARIANTS TypeOK AtMostOnce
PROPERTY EveryCallSettles
