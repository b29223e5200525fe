CONSTANTS
  Run = {"a", "b"}
  Observer = "main"
  NoRun = "none"
  Request = {"a1", "a2", "m1"}
  OwnerOf <- Owners
  RetryAfters = {0, 1}
  MayAbort = {"a1"}
  Ceiling = 3
  IncreaseAfter = 2
  IdleReset = 2
SPECIFICATION Spec
INVARIANTS TypeOK ProvenLevelBelowCap SlotAccounting QueuesAgree
PROPERTIES GateHonoured OneCutPerBatch FirstComeFirstServed CapChangeHeard
