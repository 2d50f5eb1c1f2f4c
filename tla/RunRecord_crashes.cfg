SPECIFICATION Spec
CONSTANTS
    NSteps = 2
    Group = {}
    Metered = {1}
    NonBlocking = {2}
    DeclaredReplay = {}
    RerunOnResume = {2}
    MaxRetries <- RetryFirst
    Ceiling = 2
    Prices = {1}
    Invocations <- PlainOrReplay
    MaxAttempts = 3
    MaxSpend = 4
    MaxLives = 3
    MaxLost = 1
INVARIANTS
    LedgerMatchesJournal
    ResumeIdempotent
    UncertaintyNeverLaundered
PROPERTIES
    SettledWorkNeverReplayed
    InterruptedNeedsAuthorization
    HandledSignalClosesAttempts
    AttemptNumbersFresh
\* The run is over, or the bounds on lives and attempts are reached.
CHECK_DEADLOCK FALSE
