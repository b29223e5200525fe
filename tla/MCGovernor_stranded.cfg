CONSTANTS
  Run = {"a", "b"}
  Observer = "main"
  NoRun = "none"
  Request = {"a1", "b1"}
  OwnerOf <- Owners
  RetryAfters = {0, 3}
  MayAbort = {"b1"}
  Ceiling = 2
  IncreaseAfter = 2
  IdleReset = 2
SPECIFICATION Spec
INVARIANTS NoLostWakeup
