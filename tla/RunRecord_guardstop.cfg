SPECIFICATION Spec
CONSTANTS
  NSteps = 1
  Group = {}
  Metered = {1}
  NonBlocking = {}
  DeclaredReplay = {}
  RerunOnResume = {}
  MaxRetries <- NoRetry
  Ceiling = 2
  Prices = {1}
  Invocations <- Plainly
  MaxAttempts = 2
  MaxSpend = 4
  MaxLives = 2
  MaxLost = 0
PROPERTIES
  GuardStopSurvives
\* The run is over, or the bounds on lives and attempts are reached.
CHECK_DEADLOCK FALSE
