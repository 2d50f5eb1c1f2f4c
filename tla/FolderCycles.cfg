SPECIFICATION FairSpec
CONSTANTS
    Node = {a, b, c}
INVARIANTS
    TypeOK
    FindsEveryCycle
    StackReachesCall
PROPERTIES
    Promise
\* The search ends when every folder was visited.
CHECK_DEADLOCK FALSE
