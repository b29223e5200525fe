CONSTANTS
  Run = {r1, r2, r3}
  Entry = {e1, e2}
  Caller = {c1, c2}
  None = None
  TerminalLimit = 1
  MaxFaults = 1
SPECIFICATION Spec
SYMMETRY Symmetry
CHECK_DEADLOCK FALSE
INVARIANTS TypeOK SuccessorComes
PROPERTIES EngineStaysOwned SupersededIsSealed
