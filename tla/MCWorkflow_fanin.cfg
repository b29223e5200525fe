CONSTANTS
  NCalls = 5
  NActors = 2
  Site = {"s", "w", "t1", "t2"}
  SiteOf <- FanInSite
  ActorOf <- FanInActor
  After <- FanInAfter
  Input <- FanInInput
  Typed = {1}
  Fatal = {1}
  Final = {2, 4, 5}
  WorldRun = {3}
  Import <- FanInImport
  ImportWorld <- FanInWorld
  MaxConcurrency = 1
  RepairAttempts = 1
  NudgeAttempts = 1
  Result = {"r"}
  Failure = "failed"
  None = "none"
  MaxLives = 3
SPECIFICATION FairSpec
CHECK_DEADLOCK FALSE
INVARIANTS TypeOK ConversationInOrder InheritsPrefix
PROPERTIES DurablePromise StaleAnswersStayOut RunSettles
