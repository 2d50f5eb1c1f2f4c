SPECIFICATION Spec
CONSTANTS
  NSteps = 2
  Group = {1, 2}
  Metered = {1}
  NonBlocking = {}
  DeclaredReplay = {}
  RerunOnResume = {}
  MaxRetries <- NoRetry
  Ceiling = 0
  Prices = {}
  Invocations <- Plainly
  MaxAttempts = 2
  MaxSpend = 0
  MaxLives = 1
  MaxLost = 0
PROPERTIES
  HandledSignalClosesAttempts
\* The run is over, or the bounds on lives and attempts are reached.
CHECK_DEADLOCK FALSE
