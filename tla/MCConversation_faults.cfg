CONSTANTS
  MaxEvents = 2
  MaxEpochs = 2
  Plans <- Faults
  MaxMishaps = 2
  Retention = 1
  MaxBuffer = 1
  MaxAttempts = 3
  Hidden = {}
SPECIFICATION FairSpec
CHECK_DEADLOCK FALSE
INVARIANTS TypeOK SubscriptionsAgree OneMishapIsHealed
PROPERTY KeepsPromise Converges ClosedReleases
