---------------------------- MODULE FolderCycles ----------------------------
(***************************************************************************)
(* The search for folder cycles of scripts/check-deps.mjs: Tarjan's        *)
(* strongly connected components over the graph of folders, one recursive  *)
(* call being a frame of the variable calls.  The order in which the       *)
(* folders and their successors are met is that of a Map, so any order.    *)
(***************************************************************************)
EXTENDS Integers, Sequences, SequencesExt

CONSTANT Node

VARIABLES edges, component,
          index,    \* the number each folder got when it was first met, or Unmet
          lowLink,  \* the lowest number known to be reached from it
          stack,    \* folders met whose component is not known
          calls,    \* the calls of visit in progress, innermost last
          counter

vars == <<edges, component, index, lowLink, stack, calls, counter>>

Unmet == -1
Successors(n) == {m \in Node : <<n, m>> \in edges}
Nodes == UNION {{e[1], e[2]} : e \in edges}
Smaller(a, b) == IF a < b THEN a ELSE b

Init ==
  /\ edges \in SUBSET {e \in Node \X Node : e[1] # e[2]}
  /\ component = [n \in Node |-> {}]
  /\ index = [n \in Node |-> Unmet] /\ lowLink = [n \in Node |-> Unmet]
  /\ stack = <<>> /\ calls = <<>> /\ counter = 0

(* Slip: two folders may get one number.                                   *)
EnterSame(n, below) ==
  /\ index' = [index EXCEPT ![n] = counter] /\ lowLink' = [lowLink EXCEPT ![n] = counter]
  /\ counter' = IF counter = 0 THEN 1 ELSE counter
  /\ stack' = Append(stack, n)
  /\ calls' = Append(below, [node |-> n, left |-> Successors(n)])
  /\ UNCHANGED <<edges, component>>

(* A call of visit: the folder gets its number and goes on the stack.      *)
Enter(n, below) ==
  /\ index' = [index EXCEPT ![n] = counter] /\ lowLink' = [lowLink EXCEPT ![n] = counter]
  /\ counter' = counter + 1
  /\ stack' = Append(stack, n)
  /\ calls' = Append(below, [node |-> n, left |-> Successors(n)])
  /\ UNCHANGED <<edges, component>>

VisitRoot(n) == calls = <<>> /\ n \in Nodes /\ index[n] = Unmet /\ Enter(n, <<>>)

Top == Last(calls)
Looked(m) == [calls EXCEPT ![Len(calls)].left = @ \ {m}]

(* The next successor was never met: it is visited first.                  *)
Descend(m) ==
  /\ calls # <<>> /\ m \in Top.left /\ index[m] = Unmet
  /\ Enter(m, Looked(m))

(* Slip: a folder whose component is known still lowers the link.          *)
LookBackAlways(m) ==
  /\ calls # <<>> /\ m \in Top.left /\ index[m] # Unmet
  /\ calls' = Looked(m)
  /\ lowLink' = [lowLink EXCEPT ![Top.node] = Smaller(@, index[m])]
  /\ UNCHANGED <<edges, component, index, stack, counter>>

(* It was met: if it is still on the stack, it is reached from here and    *)
(* reaches here.                                                           *)
LookBack(m) ==
  /\ calls # <<>> /\ m \in Top.left /\ index[m] # Unmet
  /\ calls' = Looked(m)
  /\ lowLink' = IF Contains(stack, m) THEN [lowLink EXCEPT ![Top.node] = Smaller(@, index[m])] ELSE lowLink
  /\ UNCHANGED <<edges, component, index, stack, counter>>

(* All successors seen: the folder that reaches nothing older closes a     *)
(* component, everything above it on the stack; then the call returns and  *)
(* the caller takes the lower link.                                        *)
Members(n) == ToSet(SubSeq(stack, CHOOSE i \in 1..Len(stack) : stack[i] = n, Len(stack)))
Below(n) == SubSeq(stack, 1, (CHOOSE i \in 1..Len(stack) : stack[i] = n) - 1)
Caller == calls[Len(calls) - 1].node

(* Slip: the caller does not take over the link of the folder it visited.  *)
ReturnAlone ==
  /\ calls # <<>> /\ Top.left = {}
  /\ LET n == Top.node  closes == lowLink[n] = index[n]  C == Members(n) IN
       /\ stack' = IF closes THEN Below(n) ELSE stack
       /\ component' = IF closes /\ C # {n} THEN [m \in Node |-> IF m \in C THEN C ELSE component[m]] ELSE component
  /\ calls' = Front(calls)
  /\ UNCHANGED <<edges, index, lowLink, counter>>

(* Slip: a component that was closed stays on the stack.                   *)
ReturnKept ==
  /\ calls # <<>> /\ Top.left = {}
  /\ LET n == Top.node  closes == lowLink[n] = index[n]  C == Members(n) IN
       /\ component' = IF closes /\ C # {n} THEN [m \in Node |-> IF m \in C THEN C ELSE component[m]] ELSE component
       /\ lowLink' = IF Len(calls) > 1 THEN [lowLink EXCEPT ![Caller] = Smaller(@, lowLink[n])] ELSE lowLink
  /\ calls' = Front(calls)
  /\ UNCHANGED <<edges, index, stack, counter>>

Return ==
  /\ calls # <<>> /\ Top.left = {}
  /\ LET n == Top.node  closes == lowLink[n] = index[n]  C == Members(n) IN
       /\ stack' = IF closes THEN Below(n) ELSE stack
       /\ component' = IF closes /\ C # {n} THEN [m \in Node |-> IF m \in C THEN C ELSE component[m]] ELSE component
       /\ lowLink' = IF Len(calls) > 1 THEN [lowLink EXCEPT ![Caller] = Smaller(@, lowLink[n])] ELSE lowLink
  /\ calls' = Front(calls)
  /\ UNCHANGED <<edges, index, counter>>

Next == Return \/ \E n \in Node : VisitRoot(n) \/ Descend(n) \/ LookBack(n)

Spec == Init /\ [][Next]_vars
FairSpec == Spec /\ WF_vars(Next)

---------------------------------------------------------------------------
Abstract == INSTANCE Components

Over == calls = <<>> /\ \A n \in Nodes : index[n] # Unmet

(* The edges the gate compares with its baseline: both ends in one cycle.  *)
CyclicEdges == {e \in edges : component[e[1]] # {} /\ component[e[1]] = component[e[2]]}

TypeOK ==
  /\ edges \subseteq Node \X Node /\ component \in [Node -> SUBSET Node]
  /\ index \in [Node -> 0..counter \union {Unmet}] /\ lowLink \in [Node -> 0..counter \union {Unmet}]
  /\ ToSet(stack) \subseteq Node /\ \A i \in 1..Len(calls) : calls[i].node \in Node
  /\ \A i, j \in 1..Len(stack) : i < j => index[stack[i]] < index[stack[j]]

(* A folder on the stack is still reached from every call in progress that *)
(* is older than it, or reaches one: what is on the stack in the order it  *)
(* was met can still close into one cycle.                                 *)
StackReachesCall ==
  \A i \in 1..Len(stack) : calls # <<>> =>
    \E k \in 1..Len(calls) : Abstract!Reaches(stack[i], calls[k].node)

(* When the search is over the cyclic edges are those whose two ends reach *)
(* one another: none is missed, none is accused.                           *)
FindsEveryCycle ==
  Over => CyclicEdges = {e \in edges : Abstract!Reaches(e[2], e[1])}

(* The search implements its promise, including that it ends with every    *)
(* cycle reported.                                                         *)
Promise == Abstract!Spec
=============================================================================
