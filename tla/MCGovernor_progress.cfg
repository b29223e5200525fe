CONSTANTS
  Run = {"a", "b"}
  Observer = "main"
  NoRun = "none"
  Request = {"a1", "a2", "b1"}
  OwnerOf <- Owners
  RetryAfters = {1}
  MayAbort = {}
  Ceiling = 2
  IncreaseAfter = 1
  IdleReset = 2
SPECIFICATION FairSpec
PROPERTY EveryWaiterLeaves
