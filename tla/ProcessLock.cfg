SPECIFICATION Spec
CONSTANTS
  a = a
  b = b
  c = c
  g = g
  NoFile = NoFile
  Procs = {a, b, c, g}
  Ghosts = {g}
  Pid <- Recycled
  StartTokens = TRUE
  Retries = 0
  MaxRounds = 3
  MaxCrashes = 1
INVARIANTS
  TypeOK
  MutualExclusionUnlessDisplaced
  BrokenElectionFirst
  HolderKeepsLock
PROPERTIES
  OnlyDeadOrOwnDiscarded
SYMMETRY LateComers
\* Every process ended: it holds nothing, was refused, or died.
CHECK_DEADLOCK FALSE
