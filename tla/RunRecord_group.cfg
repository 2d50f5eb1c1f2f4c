SPECIFICATION Spec
CONSTANTS
  NSteps = 3
  Group = {1, 2}
  Metered = {1}
  NonBlocking = {}
  DeclaredReplay = {}
  RerunOnResume = {}
  MaxRetries <- RetryFirst
  Ceiling = 2
  Prices = {1}
  Invocations <- Plainly
  MaxAttempts = 3
  MaxSpend = 4
  MaxLives = 2
  MaxLost = 0
PROPERTIES
  GateHolds
  ClosedOnce
\* The run is over, or the bounds on lives and attempts are reached.
CHECK_DEADLOCK FALSE
