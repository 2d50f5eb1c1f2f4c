--------------------------- MODULE MCProcessLock ---------------------------
(***************************************************************************)
(* Instances of ProcessLock: a, b, c contend; g and h died before.  The    *)
(* pid of g is the one a runs under, in Recycled.                          *)
(***************************************************************************)
EXTENDS ProcessLock, TLC
CONSTANTS a, b, c, g
OwnPids  == [p \in Procs |-> p]
LateComers == Permutations({b, c})
Recycled == [p \in Procs |-> IF p = g THEN a ELSE p]
=============================================================================
