CONSTANTS
  Command = {a, b}
  Limit = 1
  MaxAnswers = 4
  MaxCrashes = 1
SPECIFICATION Spec
SYMMETRY Ids
CHECK_DEADLOCK FALSE
INVARIANTS TypeOK PinnedWhileHeld AcceptedStaysKnown
PROPERTY FatePromise
