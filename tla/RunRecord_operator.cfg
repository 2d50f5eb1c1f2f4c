SPECIFICATION Spec
CONSTANTS
  NSteps = 2
  Group = {}
  Metered = {1}
  NonBlocking = {2}
  DeclaredReplay = {2}
  RerunOnResume = {}
  MaxRetries <- RetryFirst
  Ceiling = 2
  Prices = {1}
  Invocations <- AllInvocations
  MaxAttempts = 4
  MaxSpend = 4
  MaxLives = 2
  MaxLost = 0
INVARIANTS
  TypeOK
  PassIsComplete
  UnfinishedIsResumable
  VerdictKnown
  RestoredDoneIsFinished
\* The run is over, or the bounds on lives and attempts are reached.
CHECK_DEADLOCK FALSE
