SPECIFICATION Spec
CONSTANTS
    Unset = Unset
    p1 = p1
    stopHook = stopHook
    Parts = {"shares", "transport", "figures", "process", "failure", "resumed",
             "backends", "children", "unpriced", "finish", "ending", "bounded",
             "sessions", "words", "verdicts", "endings", "stream"}
INVARIANTS
    TypeOK SpendIsBounded EndingsAreHonest AgentsAreHeard
PROPERTIES
    ExecutionSteps
CHECK_DEADLOCK FALSE
