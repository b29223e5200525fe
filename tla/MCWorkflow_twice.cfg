CONSTANTS
  NCalls = 2
  NActors = 0
  Site = {"w"}
  SiteOf <- TwiceSite
  ActorOf <- TwiceActor
  After <- TwiceAfter
  Input <- TwiceInput
  Typed = {}
  Fatal = {}
  Final = {2}
  WorldRun = {1, 2}
  Import <- TwiceImport
  ImportWorld <- TwiceWorld
  MaxConcurrency = 1
  RepairAttempts = 0
  NudgeAttempts = 0
  Result = {"r"}
  Failure = "failed"
  None = "none"
  MaxLives = 2
SPECIFICATION Spec
CHECK_DEADLOCK FALSE
INVARIANT RecordsServedOnce
