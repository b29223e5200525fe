CONSTANTS
  NCalls = 4
  NActors = 2
  Site = {"s", "t"}
  SiteOf <- PipeSite
  ActorOf <- PipeActor
  After <- PipeAfter
  Input <- PipeInput
  Typed = {}
  Fatal = {}
  Final = {3, 4}
  WorldRun = {}
  Import <- PipeImport
  ImportWorld <- PipeWorld
  MaxConcurrency = 2
  RepairAttempts = 0
  NudgeAttempts = 0
  Result = {"r"}
  Failure = "failed"
  None = "none"
  MaxLives = 3
SPECIFICATION Spec
CHECK_DEADLOCK FALSE
INVARIANT AnswersFitInputs
