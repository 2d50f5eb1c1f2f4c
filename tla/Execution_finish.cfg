SPECIFICATION Spec
CONSTANTS
    Unset = Unset
    p1 = p1
    stopHook = stopHook
    Parts = {"finish"}
INVARIANTS
    SecondFinishIsFree
CHECK_DEADLOCK FALSE
