----------------------------- MODULE Components -----------------------------
(***************************************************************************)
(* What the folder check promises: given a graph of folders, the members   *)
(* of every cycle are reported together, one cycle after the other, and    *)
(* nothing else is.  FolderCycles is the algorithm that does it.           *)
(***************************************************************************)
CONSTANT Node

VARIABLES edges,      \* the graph: a set of pairs, chosen at the start
          component   \* for each folder, the cycle it was reported in, or {}

(* m reaches n when every set that holds m and all it imports holds n.     *)
OneHop(S) == S \union {e[2] : e \in {x \in edges : x[1] \in S}}
Reaches(m, n) == \A S \in SUBSET Node : (m \in S /\ OneHop(S) = S) => n \in S
Together(n) == {m \in Node : Reaches(n, m) /\ Reaches(m, n)}
Cycles == {Together(n) : n \in {m \in Node : Together(m) # {m}}}
Reported == {component[n] : n \in Node} \ {{}}

Init == /\ edges \in SUBSET {e \in Node \X Node : e[1] # e[2]}
        /\ component = [n \in Node |-> {}]

Report == \E C \in Cycles \ Reported :
            /\ component' = [n \in Node |-> IF n \in C THEN C ELSE component[n]]
            /\ UNCHANGED edges

Spec == Init /\ [][Report]_<<edges, component>> /\ WF_<<edges, component>>(Report)
=============================================================================
