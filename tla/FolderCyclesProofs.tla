------------------------- MODULE FolderCyclesProofs -------------------------
(***************************************************************************)
(* The folder check finds every cycle and accuses no other edge, for any   *)
(* graph of folders and any order of visit: the proofs of FolderCycles.    *)
(* Reachability is the one of Components, by closed sets of folders, so    *)
(* that no argument is an induction over paths.                            *)
(***************************************************************************)
EXTENDS FolderCycles, SequenceTheorems, TLAPS

Call == [node : Node, left : SUBSET Node]
Met == {n \in Node : index[n] # Unmet}
OnStack == ToSet(stack)
\* The folders whose component is known.
Closed == Met \ OnStack

\* No edge of the graph leaves S.
Shut(graph, S) == \A e \in graph : e[1] \in S => e[2] \in S
Leads(graph, m, n) == \A S \in SUBSET Node : m \in S /\ Shut(graph, S) => n \in S
Mutual(graph, n) == {m \in Node : Leads(graph, n, m) /\ Leads(graph, m, n)}

\* The calls looked at the edge from x to y.
Seen(x, y) ==
  /\ <<x, y>> \in edges /\ x \in Met
  /\ \A k \in 1..Len(calls) : calls[k].node = x => y \notin calls[k].left

\* Met since the k-th call, and not since the next one.
Span(k) ==
  {x \in OnStack : /\ index[calls[k].node] <= index[x]
                   /\ k < Len(calls) => index[x] < index[calls[k + 1].node]}

Typed ==
  /\ edges \subseteq Node \X Node /\ \A e \in edges : e[1] # e[2]
  /\ component \in [Node -> SUBSET Node]
  /\ index \in [Node -> Nat \union {Unmet}] /\ lowLink \in [Node -> Nat \union {Unmet}]
  /\ stack \in Seq(Node) /\ calls \in Seq(Call) /\ counter \in Nat

Numbered ==
  \A n \in Node : IF index[n] = Unmet THEN lowLink[n] = Unmet
                  ELSE index[n] < counter /\ lowLink[n] \in 0..index[n]

\* The stack and the calls are in the order of the numbers.
Stacked ==
  /\ \A i \in 1..Len(stack) : index[stack[i]] # Unmet
  /\ \A i, j \in 1..Len(stack) : i < j => index[stack[i]] < index[stack[j]]
Calling ==
  /\ \A k \in 1..Len(calls) : /\ calls[k].node \in OnStack
                              /\ calls[k].left \subseteq Successors(calls[k].node)
  /\ \A k, l \in 1..Len(calls) : k < l => index[calls[k].node] < index[calls[l].node]

\* An edge that was looked at leads to a folder met, and out of a closed
\* component to another one.
Followed ==
  /\ \A x, y \in Node : Seen(x, y) => y \in Met
  /\ Shut(edges, Closed)

\* A call reaches what was met since, and what is on the stack reaches a call
\* older than it.
Downward ==
  \A k \in 1..Len(calls), x \in OnStack :
    index[calls[k].node] <= index[x] => Leads(edges, calls[k].node, x)
Upward ==
  \A x \in OnStack : \E k \in 1..Len(calls) :
    index[calls[k].node] <= index[x] /\ Leads(edges, x, calls[k].node)

\* The link of a call is the number of a folder of the stack it reaches, and
\* no edge looked at since the call leads below it.
LinkReached ==
  \A k \in 1..Len(calls) : \E z \in OnStack :
    index[z] = lowLink[calls[k].node] /\ Leads(edges, calls[k].node, z)
LinkLowest ==
  \A k \in 1..Len(calls) : \A x \in Span(k), y \in OnStack :
    Seen(x, y) => lowLink[calls[k].node] <= index[y]

\* A closed folder has its component, the others have none yet.
Reporting ==
  \A x \in Node :
    component[x] = IF x \in Closed /\ Mutual(edges, x) # {x} THEN Mutual(edges, x) ELSE {}

SearchInv ==
  /\ Typed /\ Numbered /\ Stacked /\ Calling /\ Followed
  /\ Downward /\ Upward /\ LinkReached /\ LinkLowest /\ Reporting

----------------------------------------------------------------------------
(* Reachability.                                                           *)

LEMMA LeadsFacts ==
  ASSUME NEW graph
  PROVE  /\ \A n : Leads(graph, n, n)
         /\ \A m, n, o : Leads(graph, m, n) /\ Leads(graph, n, o) => Leads(graph, m, o)
         /\ \A m, n : <<m, n>> \in graph => Leads(graph, m, n)
         /\ \A S \in SUBSET Node : \A m, n : Shut(graph, S) /\ m \in S /\ Leads(graph, m, n) => n \in S
<1>1. ASSUME NEW m, NEW n, <<m, n>> \in graph PROVE Leads(graph, m, n)
  <2> SUFFICES ASSUME NEW S \in SUBSET Node, m \in S, Shut(graph, S) PROVE n \in S
    BY DEF Leads
  <2> DEFINE e == <<m, n>>
  <2>1. e[1] \in S => e[2] \in S
    BY <1>1 DEF Shut
  <2> QED BY <2>1
<1> QED BY <1>1 DEF Leads

\* The reachability of Components is this one.
LEMMA ReachesIsLeads ==
  ASSUME edges \subseteq Node \X Node
  PROVE  /\ \A m, n : Abstract!Reaches(m, n) <=> Leads(edges, m, n)
         /\ \A n : Abstract!Together(n) = Mutual(edges, n)
<1>1. ASSUME NEW S \in SUBSET Node PROVE Abstract!OneHop(S) = S <=> Shut(edges, S)
  BY DEF Abstract!OneHop, Shut
<1>2. \A m, n : Abstract!Reaches(m, n) <=> Leads(edges, m, n)
  BY <1>1 DEF Abstract!Reaches, Leads
<1> QED BY <1>2 DEF Abstract!Together, Mutual

\* The folders of one component have the same one.
LEMMA MutualIsShared ==
  ASSUME NEW graph, NEW m \in Node, NEW n \in Node, m \in Mutual(graph, n)
  PROVE  Mutual(graph, m) = Mutual(graph, n)
BY LeadsFacts DEF Mutual

----------------------------------------------------------------------------
(* The stack and the calls.                                                *)

LEMMA SeqSet ==
  ASSUME NEW T, NEW s \in Seq(T)
  PROVE  /\ Len(s) \in Nat /\ s \in [1..Len(s) -> T]
         /\ ToSet(s) = {s[i] : i \in 1..Len(s)}
         /\ (s = <<>> <=> Len(s) = 0)
BY EmptySeq DEF ToSet

\* The stack from n on holds what was met since n.
LEMMA StackCut ==
  ASSUME Typed, Stacked, NEW n \in OnStack
  PROVE  /\ Members(n) = {x \in OnStack : index[n] <= index[x]}
         /\ ToSet(Below(n)) = {x \in OnStack : index[x] < index[n]}
         /\ Below(n) \in Seq(Node) /\ Len(Below(n)) <= Len(stack)
         /\ \A i \in 1..Len(Below(n)) : Below(n)[i] = stack[i]
<1> DEFINE p == CHOOSE i \in 1..Len(stack) : stack[i] = n
           above == SubSeq(stack, p, Len(stack))
           below == SubSeq(stack, 1, p - 1)
<1>1. p \in 1..Len(stack) /\ stack[p] = n
  BY SeqSet DEF OnStack, Typed
<1>2. \A i \in 1..Len(stack) : index[stack[i]] \in Nat
  BY DEF Typed, Stacked
<1>3. \A i \in 1..Len(stack) : /\ i < p => index[stack[i]] < index[n]
                               /\ i >= p => index[n] <= index[stack[i]]
  BY <1>1, <1>2 DEF Stacked
<1>4. /\ above \in Seq(Node) /\ Len(above) = Len(stack) - p + 1
      /\ \A i \in 1..Len(above) : above[i] = stack[p + i - 1]
  BY <1>1, SubSeqProperties DEF Typed
<1>5. /\ below \in Seq(Node) /\ Len(below) = p - 1
      /\ \A i \in 1..Len(below) : below[i] = stack[i]
  BY <1>1, SubSeqProperties DEF Typed
<1>6. Members(n) = ToSet(above) /\ Below(n) = below
  BY DEF Members, Below
<1> HIDE DEF p, above, below
<1>0. /\ ToSet(above) = {above[i] : i \in 1..Len(above)}
      /\ ToSet(below) = {below[i] : i \in 1..Len(below)}
      /\ OnStack = {stack[i] : i \in 1..Len(stack)}
  BY <1>4, <1>5, SeqSet DEF OnStack, Typed
<1>7. ASSUME NEW x \in OnStack PROVE /\ x \in ToSet(above) <=> (index[n] <= index[x])
                                     /\ x \in ToSet(below) <=> (index[x] < index[n])
  <2>1. PICK i \in 1..Len(stack) : stack[i] = x
    BY SeqSet DEF OnStack, Typed
  <2>2. index[x] \in Nat /\ index[n] \in Nat
    BY <1>1, <1>2, <2>1
  <2>3. CASE i >= p
    <3>1. i - p + 1 \in 1..Len(above) /\ above[i - p + 1] = x
      <4>1. i - p + 1 \in 1..Len(above) /\ p + (i - p + 1) - 1 = i
        BY <1>1, <1>4, <2>3
      <4> QED BY <1>4, <2>1, <4>1
    <3>2. x \in ToSet(above)
      BY <1>0, <3>1
    <3>3. x \notin ToSet(below)
      <4> SUFFICES ASSUME NEW j \in 1..Len(below), below[j] = x PROVE FALSE
        BY <1>0
      <4>1. j \in 1..Len(stack) /\ j < p /\ stack[j] = x
        BY <1>1, <1>5
      <4> QED BY <1>3, <2>1, <2>2, <2>3, <4>1
    <3> QED BY <1>3, <2>1, <2>2, <2>3, <3>2, <3>3
  <2>4. CASE i < p
    <3>1. i \in 1..Len(below) /\ below[i] = x
      BY <1>1, <1>5, <2>1, <2>4
    <3>2. x \in ToSet(below)
      BY <1>0, <3>1
    <3>3. x \notin ToSet(above)
      <4> SUFFICES ASSUME NEW j \in 1..Len(above), above[j] = x PROVE FALSE
        BY <1>0
      <4>1. p + j - 1 \in 1..Len(stack) /\ p + j - 1 >= p /\ stack[p + j - 1] = x
        BY <1>1, <1>4
      <4> QED BY <1>3, <2>1, <2>2, <2>4, <4>1
    <3> QED BY <1>3, <2>1, <2>2, <2>4, <3>2, <3>3
  <2> QED BY <1>1, <2>1, <2>3, <2>4
<1>8. ToSet(above) \subseteq OnStack /\ ToSet(below) \subseteq OnStack
  <2>1. \A j \in 1..Len(above) : p + j - 1 \in 1..Len(stack)
    BY <1>1, <1>4
  <2>2. \A j \in 1..Len(below) : j \in 1..Len(stack)
    BY <1>1, <1>5
  <2> QED BY <1>0, <1>4, <1>5, <2>1, <2>2
<1> QED BY <1>1, <1>5, <1>6, <1>7, <1>8

\* A call that looks at a successor keeps the others.
LEMMA LookedCalls ==
  ASSUME NEW m, Typed, calls # <<>>
  PROVE  /\ Len(calls) \in Nat \ {0} /\ Top = calls[Len(calls)] /\ Top \in Call
         /\ Looked(m) \in Seq(Call) /\ Len(Looked(m)) = Len(calls)
         /\ \A k \in 1..Len(calls) :
              /\ calls[k] \in Call
              /\ Looked(m)[k].node = calls[k].node
              /\ Looked(m)[k].left = IF k = Len(calls) THEN calls[k].left \ {m} ELSE calls[k].left
<1>1. /\ Len(calls) \in Nat \ {0} /\ Top = calls[Len(calls)]
      /\ calls \in [1..Len(calls) -> Call]
  BY SeqSet DEF Typed, Top, Last
<1>2. \A k \in 1..Len(calls) : calls[k] \in Call
  BY <1>1
<1>3. Looked(m) = [k \in 1..Len(calls) |-> IF k = Len(calls) THEN [calls[k] EXCEPT !.left = @ \ {m}]
                                           ELSE calls[k]]
  BY <1>1 DEF Looked
<1>4. \A k \in 1..Len(calls) : [calls[k] EXCEPT !.left = @ \ {m}] \in Call
  BY <1>2 DEF Call
<1>5. Looked(m) \in [1..Len(calls) -> Call]
  BY <1>2, <1>3, <1>4
<1> QED BY <1>1, <1>2, <1>3, <1>5 DEF Call

\* The numbers of the stack.
LEMMA StackNumbers ==
  ASSUME SearchInv
  PROVE  /\ OnStack \subseteq Node
         /\ \A x \in OnStack : index[x] \in Nat /\ lowLink[x] \in 0..index[x]
         /\ \A k \in 1..Len(calls) : calls[k].node \in OnStack
<1>1. Typed
  BY DEF SearchInv
<1>2. OnStack = {stack[i] : i \in 1..Len(stack)} /\ stack \in [1..Len(stack) -> Node]
  BY <1>1, SeqSet DEF Typed, OnStack
<1>3. \A x \in OnStack : index[x] # Unmet /\ index[x] \in Nat \union {Unmet} /\ x \in Node
  BY <1>1, <1>2 DEF SearchInv, Stacked, Typed
<1>4. \A x \in OnStack : index[x] \in Nat /\ lowLink[x] \in 0..index[x]
  BY <1>3 DEF SearchInv, Numbered
<1> QED BY <1>3, <1>4 DEF SearchInv, Calling

\* Without a call nothing is on the stack.
LEMMA NoCallNoStack ==
  ASSUME Typed, Upward, calls = <<>>
  PROVE  stack = <<>> /\ OnStack = {}
<1>1. OnStack = {}
  BY DEF Upward
<1>2. OnStack = {stack[i] : i \in 1..Len(stack)} /\ Len(stack) \in Nat /\ (stack = <<>> <=> Len(stack) = 0)
  BY SeqSet DEF OnStack, Typed
<1>3. Len(stack) > 0 => stack[1] \in OnStack
  BY <1>2
<1> QED BY <1>1, <1>2, <1>3

----------------------------------------------------------------------------
(* A visit starts.                                                         *)

LEMMA EnterKeeps ==
  ASSUME SearchInv, NEW n \in Node, NEW below \in Seq(Call), Enter(n, below),
         index[n] = Unmet, Len(below) = Len(calls),
         \A k \in 1..Len(calls) : /\ below[k].node = calls[k].node
                                  /\ below[k].left \subseteq calls[k].left
                                  /\ calls[k].left \subseteq below[k].left \union {n},
         calls # <<>> => Leads(edges, Top.node, n)
  PROVE  SearchInv'
<1> DEFINE L == Len(calls)
           new == [node |-> n, left |-> Successors(n)]
<1>1. Typed /\ L \in Nat /\ (calls = <<>> <=> L = 0) /\ \A k \in 1..L : calls[k] \in Call
  BY SeqSet DEF SearchInv, Typed
<1>2. /\ calls' \in Seq(Call) /\ Len(calls') = L + 1 /\ calls'[L + 1] = new
      /\ \A k \in 1..L : calls'[k] = below[k]
  <2>1. new \in Call
    BY DEF Call, Successors
  <2> QED BY <2>1, AppendProperties DEF Enter
<1>3. /\ stack' \in Seq(Node) /\ Len(stack') = Len(stack) + 1 /\ stack'[Len(stack) + 1] = n
      /\ \A i \in 1..Len(stack) : stack'[i] = stack[i]
      /\ Len(stack) \in Nat /\ \A i \in 1..Len(stack) : stack[i] \in OnStack
      /\ OnStack \subseteq Node
  <2>1. /\ stack \in Seq(Node) /\ Len(stack) \in Nat /\ stack \in [1..Len(stack) -> Node]
        /\ OnStack = {stack[i] : i \in 1..Len(stack)}
    BY <1>1, SeqSet DEF Typed, OnStack
  <2>2. stack' = Append(stack, n)
    BY DEF Enter
  <2> QED BY <2>1, <2>2, AppendProperties
<1>4. OnStack' = OnStack \union {n}
  <2>1. OnStack = {stack[i] : i \in 1..Len(stack)} /\ OnStack' = {stack'[i] : i \in 1..Len(stack')}
    <3>1. OnStack = ToSet(stack) /\ OnStack' = ToSet(stack')
      BY DEF OnStack
    <3>2. stack \in Seq(Node) /\ stack' \in Seq(Node)
      BY <1>1, <1>3 DEF Typed
    <3> QED BY <3>1, <3>2, SeqSet
  <2> QED BY <1>3, <2>1
<1>5. /\ counter \in Nat /\ counter' = counter + 1 /\ edges' = edges /\ component' = component
      /\ \A x \in Node : /\ index'[x] = IF x = n THEN counter ELSE index[x]
                         /\ lowLink'[x] = IF x = n THEN counter ELSE lowLink[x]
                         /\ index[x] \in Nat \union {Unmet}
  BY <1>1 DEF Enter, Typed
<1>6. /\ \A x \in OnStack : x # n /\ index[x] \in Nat /\ index[x] < counter
      /\ \A k \in 1..L : calls[k].node \in OnStack
  <2>1. \A x \in OnStack : index[x] # Unmet
    BY <1>1, SeqSet DEF SearchInv, Stacked, OnStack, Typed
  <2> QED BY <1>3, <1>5, <2>1 DEF SearchInv, Numbered, Calling
<1>7. Met' = Met \union {n} /\ n \notin Met /\ Closed' = Closed
  <2>1. Met' = Met \union {n} /\ n \notin Met
    BY <1>5 DEF Met, Unmet
  <2> QED BY <1>4, <2>1 DEF Closed
<1>8. \A x, y \in Node : Seen(x, y)' => x # n /\ (Seen(x, y) \/ y = n)
  <2> SUFFICES ASSUME NEW x \in Node, NEW y \in Node, Seen(x, y)' PROVE x # n /\ (Seen(x, y) \/ y = n)
    OBVIOUS
  <2>1. <<x, y>> \in edges /\ x \in Met' /\ \A k \in 1..L + 1 : calls'[k].node = x => y \notin calls'[k].left
    BY <1>2, <1>5 DEF Seen
  <2>2. x # n
    BY <1>1, <1>2, <2>1 DEF Successors
  <2>3. \A k \in 1..L : calls[k].node = x => y \notin calls[k].left \/ y = n
    BY <1>1, <1>2, <2>1
  <2> QED BY <1>7, <2>1, <2>2, <2>3 DEF Seen
<1>9. Typed'
  BY <1>1, <1>2, <1>3, <1>5 DEF Typed, Enter
<1>10. Numbered'
  BY <1>5 DEF SearchInv, Numbered, Unmet
<1>11. Stacked'
  <2>1. \A i \in 1..Len(stack) : /\ index'[stack'[i]] = index[stack[i]] /\ index[stack[i]] # Unmet
                                 /\ index[stack[i]] < counter
    BY <1>3, <1>5, <1>6 DEF Unmet
  <2>2. index'[stack'[Len(stack) + 1]] = counter /\ counter # Unmet
    BY <1>3, <1>5 DEF Unmet
  <2>3. \A i, j \in 1..Len(stack) : i < j => index'[stack'[i]] < index'[stack'[j]]
    BY <2>1 DEF SearchInv, Stacked
  <2>4. \A i \in 1..Len(stack) + 1 : i \in 1..Len(stack) \/ i = Len(stack) + 1
    BY <1>3
  <2>5. ASSUME NEW i \in 1..Len(stack) + 1, NEW j \in 1..Len(stack) + 1, i < j
        PROVE  index'[stack'[i]] < index'[stack'[j]]
    <3>1. i \in 1..Len(stack)
      BY <1>3, <2>5
    <3> QED BY <2>1, <2>2, <2>3, <2>4, <2>5, <3>1
  <2> QED BY <1>3, <2>1, <2>2, <2>4, <2>5 DEF Stacked
<1>12. \A k \in 1..L : calls'[k].node = calls[k].node /\ calls'[k].left \subseteq calls[k].left
  BY <1>2
<1>13. Calling'
  <2>1. \A k \in 1..L + 1 : /\ calls'[k].node \in OnStack'
                            /\ calls'[k].left \subseteq Successors(calls'[k].node)
    <3>1. \A k \in 1..L : calls[k].left \subseteq Successors(calls[k].node)
      BY DEF SearchInv, Calling
    <3>2. ASSUME NEW k \in 1..L
          PROVE  calls'[k].node \in OnStack' /\ calls'[k].left \subseteq Successors(calls'[k].node)
      <4>1. calls'[k].node = calls[k].node /\ calls'[k].left \subseteq calls[k].left
        BY <1>12
      <4> QED BY <1>4, <1>6, <3>1, <4>1
    <3>3. calls'[L + 1].node \in OnStack' /\ calls'[L + 1].left \subseteq Successors(calls'[L + 1].node)
      BY <1>2, <1>4
    <3>4. \A k \in 1..L + 1 : k \in 1..L \/ k = L + 1
      BY <1>1
    <3> QED BY <3>2, <3>3, <3>4
  <2>2. \A k, l \in 1..L + 1 : k < l => index'[calls'[k].node] < index'[calls'[l].node]
    <3> SUFFICES ASSUME NEW k \in 1..L + 1, NEW l \in 1..L + 1, k < l
                 PROVE  index'[calls'[k].node] < index'[calls'[l].node]
      OBVIOUS
    <3>1. k \in 1..L /\ calls'[k].node = calls[k].node /\ index'[calls[k].node] = index[calls[k].node]
      BY <1>1, <1>3, <1>5, <1>6, <1>12
    <3>2. CASE l = L + 1
      <4>1. index'[calls'[l].node] = counter
        BY <1>2, <1>5, <3>2
      <4>2. index[calls[k].node] < counter /\ index[calls[k].node] \in Nat /\ counter \in Nat
        BY <1>5, <1>6, <3>1
      <4>3. index'[calls'[k].node] = index[calls[k].node]
        BY <3>1
      <4> QED BY <4>1, <4>2, <4>3
    <3>3. CASE l \in 1..L
      <4>1. calls'[l].node = calls[l].node /\ index'[calls[l].node] = index[calls[l].node]
        BY <1>3, <1>5, <1>6, <1>12, <3>3
      <4> QED BY <1>1, <3>1, <3>3, <4>1 DEF SearchInv, Calling
    <3>4. l = L + 1 \/ l \in 1..L
      BY <1>1
    <3> QED BY <3>2, <3>3, <3>4
  <2> QED BY <1>2, <1>5, <2>1, <2>2 DEF Calling, Successors
<1>14. Followed'
  BY <1>5, <1>7, <1>8 DEF SearchInv, Followed
<1>15. Downward'
  <2> SUFFICES ASSUME NEW k \in 1..L + 1, NEW x \in OnStack', index'[calls'[k].node] <= index'[x]
               PROVE  Leads(edges, calls'[k].node, x)
    BY <1>2, <1>5 DEF Downward
  <2>1. CASE k = L + 1
    <3>1. x = n
      <4>1. index'[calls'[k].node] = counter
        BY <1>2, <1>5, <2>1
      <4>2. x \in OnStack => index'[x] = index[x] /\ index[x] \in Nat /\ index[x] < counter
        BY <1>3, <1>5, <1>6
      <4>3. counter <= index'[x] /\ counter \in Nat
        BY <1>5, <4>1
      <4> QED BY <1>4, <4>2, <4>3
    <3>2. calls'[k].node = n
      BY <1>2, <2>1
    <3> QED BY <3>1, <3>2, LeadsFacts
  <2>2. CASE k \in 1..L
    <3>1. calls'[k].node = calls[k].node /\ index'[calls[k].node] = index[calls[k].node]
      BY <1>3, <1>5, <1>6, <1>12, <2>2
    <3>2. CASE x \in OnStack
      <4>1. index'[x] = index[x]
        BY <1>3, <1>5, <1>6, <3>2
      <4> QED BY <1>1, <2>2, <3>1, <3>2, <4>1 DEF SearchInv, Downward
    <3>3. CASE x = n
      <4>1. L \in 1..L /\ calls # <<>> /\ Top = calls[L] /\ calls[L].node \in OnStack
        BY <1>1, <1>6, <2>2 DEF Top, Last
      <4>2. index[calls[k].node] <= index[calls[L].node]
        BY <1>1, <1>6, <2>2, <4>1 DEF SearchInv, Calling
      <4>3. Leads(edges, calls[k].node, Top.node)
        BY <2>2, <4>1, <4>2 DEF SearchInv, Downward
      <4> QED BY <3>1, <3>3, <4>1, <4>3, LeadsFacts
    <3> QED BY <1>4, <3>2, <3>3
  <2> QED BY <1>1, <2>1, <2>2
<1>16. Upward'
  <2> SUFFICES ASSUME NEW x \in OnStack'
               PROVE  \E k \in 1..L + 1 : index'[calls'[k].node] <= index'[x] /\ Leads(edges, x, calls'[k].node)
    BY <1>2, <1>5 DEF Upward
  <2>1. CASE x = n
    <3>1. L + 1 \in 1..L + 1 /\ index'[calls'[L + 1].node] <= index'[x]
      BY <1>1, <1>2, <1>5, <2>1
    <3> QED BY <1>2, <2>1, <3>1, LeadsFacts
  <2>2. CASE x \in OnStack
    <3>1. PICK k \in 1..L : index[calls[k].node] <= index[x] /\ Leads(edges, x, calls[k].node)
      BY <2>2 DEF SearchInv, Upward
    <3>2. calls'[k].node = calls[k].node /\ index'[calls[k].node] = index[calls[k].node] /\ index'[x] = index[x]
      BY <1>3, <1>5, <1>6, <1>12, <2>2
    <3> QED BY <1>1, <3>1, <3>2
  <2> QED BY <1>4, <2>1, <2>2
<1>17. LinkReached'
  <2> SUFFICES ASSUME NEW k \in 1..L + 1
               PROVE  \E z \in OnStack' : index'[z] = lowLink'[calls'[k].node] /\ Leads(edges, calls'[k].node, z)
    BY <1>2, <1>5 DEF LinkReached
  <2>1. CASE k = L + 1
    <3>1. calls'[k].node = n /\ index'[n] = lowLink'[n] /\ n \in OnStack'
      BY <1>2, <1>4, <1>5, <2>1
    <3> QED BY <3>1, LeadsFacts
  <2>2. CASE k \in 1..L
    <3>1. PICK z \in OnStack : index[z] = lowLink[calls[k].node] /\ Leads(edges, calls[k].node, z)
      BY <2>2 DEF SearchInv, LinkReached
    <3>2. /\ calls'[k].node = calls[k].node /\ lowLink'[calls[k].node] = lowLink[calls[k].node]
          /\ index'[z] = index[z]
      BY <1>3, <1>5, <1>6, <1>12, <2>2
    <3> QED BY <1>4, <3>1, <3>2
  <2> QED BY <1>1, <2>1, <2>2
<1>18. LinkLowest'
  <2> SUFFICES ASSUME NEW k \in 1..L + 1, NEW x \in Span(k)', NEW y \in OnStack', Seen(x, y)'
               PROVE  lowLink'[calls'[k].node] <= index'[y]
    BY <1>2 DEF LinkLowest
  <2>1. /\ x \in OnStack' /\ index'[calls'[k].node] <= index'[x]
        /\ k < L + 1 => index'[x] < index'[calls'[k + 1].node]
    BY <1>2 DEF Span
  <2>2. x # n /\ x \in OnStack /\ (Seen(x, y) \/ y = n) /\ index'[x] = index[x]
    <3>1. x \in Node /\ y \in Node
      BY <1>3, <1>4, <2>1
    <3> QED BY <1>4, <1>5, <1>8, <2>1, <3>1
  <2>3. k \in 1..L
    <3>1. CASE k = L + 1
      BY <1>2, <1>5, <1>6, <2>1, <2>2, <3>1
    <3> QED BY <1>1, <3>1
  <2>4. /\ calls'[k].node = calls[k].node /\ lowLink'[calls[k].node] = lowLink[calls[k].node]
        /\ index'[calls[k].node] = index[calls[k].node]
        /\ lowLink[calls[k].node] \in 0..index[calls[k].node] /\ index[calls[k].node] < counter
    BY <1>3, <1>5, <1>6, <1>12, <2>3 DEF SearchInv, Numbered, Unmet
  <2>5. CASE y = n
    BY <1>5, <1>6, <2>3, <2>4, <2>5
  <2>6. CASE y # n
    <3>1. Seen(x, y) /\ y \in OnStack /\ index'[y] = index[y]
      BY <1>3, <1>4, <1>5, <2>2, <2>6
    <3>2. x \in Span(k)
      <4>1. ASSUME k < L PROVE index[x] < index[calls[k + 1].node]
        <5>1. k + 1 \in 1..L /\ k < L + 1
          BY <1>1, <2>3, <4>1
        <5> QED BY <1>3, <1>5, <1>6, <1>12, <2>1, <2>2, <5>1
      <4> QED BY <2>1, <2>2, <2>4, <4>1 DEF Span
    <3> QED BY <2>3, <2>4, <3>1, <3>2 DEF SearchInv, LinkLowest
  <2> QED BY <2>5, <2>6
<1>19. Reporting'
  BY <1>5, <1>7 DEF SearchInv, Reporting
<1> QED BY <1>9, <1>10, <1>11, <1>13, <1>14, <1>15, <1>16, <1>17, <1>18, <1>19 DEF SearchInv

----------------------------------------------------------------------------
(* A call looks at a folder that was met.                                  *)

LEMMA LookBackKeeps ==
  ASSUME SearchInv, NEW m \in Node, LookBack(m)
  PROVE  SearchInv'
<1> DEFINE L == Len(calls)
           n == Top.node
<1>1. /\ Typed /\ L \in Nat \ {0} /\ Top = calls[L] /\ Top \in Call /\ calls' = Looked(m)
      /\ calls' \in Seq(Call) /\ Len(calls') = L
      /\ \A k \in 1..L : /\ calls[k] \in Call /\ calls'[k].node = calls[k].node
                         /\ calls'[k].left = IF k = L THEN calls[k].left \ {m} ELSE calls[k].left
  BY LookedCalls DEF SearchInv, LookBack
<1>2. /\ edges' = edges /\ component' = component /\ index' = index /\ stack' = stack /\ counter' = counter
      /\ OnStack' = OnStack /\ Met' = Met /\ Closed' = Closed
  BY DEF LookBack, OnStack, Met, Closed
<1>3. /\ OnStack \subseteq Node /\ n \in OnStack /\ \A k \in 1..L : calls[k].node \in OnStack
      /\ \A x \in OnStack : index[x] \in Nat /\ lowLink[x] \in 0..index[x]
      /\ m \in Met /\ index[m] \in Nat /\ <<n, m>> \in edges
  <2>1. n \in OnStack
    BY <1>1, StackNumbers
  <2>2. Top.left \subseteq Successors(n)
    BY <1>1 DEF SearchInv, Calling
  <2>3. m \in Top.left /\ index[m] # Unmet
    BY DEF LookBack
  <2>4. m \in Met /\ index[m] \in Nat
    BY <1>1, <2>3 DEF Met, Typed
  <2> QED BY <2>1, <2>2, <2>3, <2>4, StackNumbers DEF Successors
<1>4. \A x \in Node : lowLink'[x] = IF x = n /\ m \in OnStack THEN Smaller(lowLink[n], index[m]) ELSE lowLink[x]
  <2>1. Contains(stack, m) <=> m \in OnStack
    <3>1. stack \in Seq(Node) /\ OnStack = ToSet(stack)
      BY <1>1 DEF OnStack, Typed
    <3>2. OnStack = {stack[i] : i \in 1..Len(stack)}
      BY <3>1, SeqSet
    <3> QED BY <3>2 DEF Contains
  <2> QED BY <1>1, <2>1 DEF LookBack, Typed
<1>5. \A x, y \in Node : Seen(x, y)' => Seen(x, y) \/ (x = n /\ y = m)
  <2> SUFFICES ASSUME NEW x \in Node, NEW y \in Node, Seen(x, y)' PROVE Seen(x, y) \/ (x = n /\ y = m)
    OBVIOUS
  <2>1. <<x, y>> \in edges /\ x \in Met /\ \A k \in 1..L : calls[k].node = x => y \notin calls'[k].left
    BY <1>1, <1>2 DEF Seen
  <2> QED BY <1>1, <2>1 DEF Seen
<1>6. Smaller(lowLink[n], index[m]) \in 0..index[n] /\ Smaller(lowLink[n], index[m]) <= lowLink[n]
      /\ Smaller(lowLink[n], index[m]) <= index[m] /\ index[n] \in Nat /\ lowLink[n] \in 0..index[n]
  BY <1>3 DEF Smaller
<1>7. Typed'
  <2>1. lowLink' \in [Node -> Nat \union {Unmet}]
    <3>1. lowLink' = [lowLink EXCEPT ![n] = Smaller(@, index[m])] \/ lowLink' = lowLink
      BY DEF LookBack
    <3> QED BY <1>1, <1>3, <1>6, <3>1 DEF Typed
  <2> QED BY <1>1, <1>2, <2>1 DEF Typed
<1>8. Numbered'
  BY <1>2, <1>3, <1>4, <1>6 DEF SearchInv, Numbered, Unmet
<1>9. Stacked'
  BY <1>2 DEF SearchInv, Stacked
<1>10. Calling'
  <2>1. \A k \in 1..L : calls'[k].left \subseteq calls[k].left
    BY <1>1
  <2>2. \A x : Successors(x) = {y \in Node : <<x, y>> \in edges}
    BY DEF Successors
  <2>3. \A k \in 1..L : /\ calls'[k].node \in OnStack
                        /\ calls'[k].left \subseteq Successors(calls'[k].node)
    BY <1>1, <2>1 DEF SearchInv, Calling
  <2>4. \A k, l \in 1..L : k < l => index[calls'[k].node] < index[calls'[l].node]
    BY <1>1 DEF SearchInv, Calling
  <2> QED BY <1>1, <1>2, <2>3, <2>4 DEF Calling, Successors
<1>11. Followed'
  BY <1>2, <1>3, <1>5 DEF SearchInv, Followed
<1>12. Downward' /\ Upward'
  BY <1>1, <1>2 DEF SearchInv, Downward, Upward
<1>13. LinkReached'
  <2> SUFFICES ASSUME NEW k \in 1..L
               PROVE  \E z \in OnStack : index[z] = lowLink'[calls[k].node] /\ Leads(edges, calls[k].node, z)
    BY <1>1, <1>2 DEF LinkReached
  <2>1. PICK z \in OnStack : index[z] = lowLink[calls[k].node] /\ Leads(edges, calls[k].node, z)
    BY DEF SearchInv, LinkReached
  <2>2. CASE lowLink'[calls[k].node] = lowLink[calls[k].node]
    BY <2>1, <2>2
  <2>3. CASE lowLink'[calls[k].node] # lowLink[calls[k].node]
    <3>1. calls[k].node = n /\ m \in OnStack /\ lowLink'[calls[k].node] = index[m]
      BY <1>3, <1>4, <2>3 DEF Smaller
    <3> QED BY <1>3, <3>1, LeadsFacts
  <2> QED BY <2>2, <2>3
<1>14. LinkLowest'
  <2> SUFFICES ASSUME NEW k \in 1..L, NEW x \in Span(k)', NEW y \in OnStack, Seen(x, y)'
               PROVE  lowLink'[calls[k].node] <= index[y]
    BY <1>1, <1>2 DEF LinkLowest
  <2>1. x \in Span(k) /\ x \in OnStack
    <3>1. /\ x \in OnStack /\ index[calls[k].node] <= index[x]
          /\ k < L => index[x] < index[calls'[k + 1].node]
      BY <1>1, <1>2 DEF Span
    <3>2. k < L => k + 1 \in 1..L
      BY <1>1
    <3> QED BY <1>1, <3>1, <3>2 DEF Span
  <2>2. lowLink'[calls[k].node] <= lowLink[calls[k].node] /\ calls[k].node \in OnStack
    BY <1>3, <1>4, <1>6
  <2>3. /\ index[y] \in Nat /\ lowLink[calls[k].node] \in Nat /\ lowLink'[calls[k].node] \in Nat
    BY <1>3, <1>4, <1>6
  <2>4. CASE Seen(x, y)
    <3>1. lowLink[calls[k].node] <= index[y]
      BY <2>1, <2>4 DEF SearchInv, LinkLowest
    <3> QED BY <2>2, <2>3, <3>1
  <2>5. CASE x = n /\ y = m
    <3>1. k = L
      <4> SUFFICES ASSUME k < L PROVE FALSE
        BY <1>1
      <4>1. k + 1 \in 1..L /\ index[n] < index[calls[k + 1].node] /\ calls[k + 1].node \in OnStack
        BY <1>1, <1>3, <2>1, <2>5 DEF Span
      <4>2. index[calls[k + 1].node] <= index[n]
        BY <1>1, <1>3, <4>1 DEF SearchInv, Calling
      <4> QED BY <1>3, <4>1, <4>2
    <3> QED BY <1>1, <1>3, <1>4, <1>6, <2>5, <3>1
  <2> QED BY <1>3, <1>5, <2>1, <2>4, <2>5
<1>15. Reporting'
  BY <1>2 DEF SearchInv, Reporting
<1> QED BY <1>7, <1>8, <1>9, <1>10, <1>11, <1>12, <1>13, <1>14, <1>15 DEF SearchInv

----------------------------------------------------------------------------
(* A call returns.                                                         *)

\* What a return finds: the innermost call is past all its successors.
LEMMA Returning ==
  ASSUME SearchInv, calls # <<>>, Top.left = {}
  PROVE  LET L == Len(calls) IN
         /\ Typed /\ L \in Nat \ {0} /\ Top = calls[L] /\ Top.node \in OnStack
         /\ Front(calls) \in Seq(Call) /\ Len(Front(calls)) = L - 1
         /\ \A k \in 1..L - 1 : Front(calls)[k] = calls[k] /\ k \in 1..L
         /\ OnStack \subseteq Node
         /\ \A x \in OnStack : index[x] \in Nat /\ lowLink[x] \in 0..index[x]
         /\ \A k \in 1..L : /\ calls[k].node \in OnStack /\ index[calls[k].node] <= index[Top.node]
                            /\ k < L => index[calls[k].node] < index[Top.node]
<1> DEFINE L == Len(calls)
<1>1. /\ Typed /\ L \in Nat \ {0} /\ Top = calls[L] /\ Top \in Call /\ \A k \in 1..L : calls[k] \in Call
  BY LookedCalls DEF SearchInv
<1>2. OnStack \subseteq Node /\ \A x \in OnStack : index[x] \in Nat /\ lowLink[x] \in 0..index[x]
  BY StackNumbers
<1>3. \A k \in 1..L : calls[k].node \in OnStack
  BY StackNumbers
<1>4. \A k \in 1..L : k < L => index[calls[k].node] < index[Top.node]
  BY <1>1 DEF SearchInv, Calling
<1>5. \A k \in 1..L : index[calls[k].node] <= index[Top.node]
  <2> SUFFICES ASSUME NEW k \in 1..L PROVE index[calls[k].node] <= index[Top.node]
    OBVIOUS
  <2>1. k < L \/ calls[k] = Top
    BY <1>1
  <2> QED BY <1>1, <1>2, <1>3, <1>4, <2>1
<1>6. /\ Front(calls) \in Seq(Call) /\ Len(Front(calls)) = L - 1
      /\ \A k \in 1..L - 1 : Front(calls)[k] = calls[k] /\ k \in 1..L
  <2> DEFINE m == L - 1
  <2>1. Front(calls) = SubSeq(calls, 1, m)
    BY DEF Front
  <2>2. m \in Nat /\ \A i \in 1..m : i \in 1..L /\ calls[i] \in Call
    BY <1>1
  <2>3. \A i \in 1..m : 1 + i - 1 = i
    BY <2>2
  <2> HIDE DEF m
  <2>4. /\ SubSeq(calls, 1, m) \in Seq(Call)
        /\ Len(SubSeq(calls, 1, m)) = IF 1 <= m THEN m - 1 + 1 ELSE 0
        /\ \A i \in 1..m - 1 + 1 : SubSeq(calls, 1, m)[i] = calls[1 + i - 1]
    BY <2>2, SubSeqProperties
  <2>5. Len(SubSeq(calls, 1, m)) = m /\ \A i \in 1..m : SubSeq(calls, 1, m)[i] = calls[i]
    BY <2>2, <2>3, <2>4
  <2> QED BY <2>1, <2>2, <2>4, <2>5 DEF m
<1> QED BY <1>1, <1>2, <1>3, <1>4, <1>5, <1>6

\* What a return that closes takes off the stack is one component, and no edge
\* leaves it but to the closed ones.
LEMMA ClosesComponent ==
  ASSUME SearchInv, calls # <<>>, Top.left = {}, lowLink[Top.node] = index[Top.node]
  PROVE  LET n == Top.node IN
         /\ n \in Members(n) /\ Members(n) \subseteq OnStack
         /\ ToSet(Below(n)) = OnStack \ Members(n)
         /\ \A x \in Members(n) : Mutual(edges, x) = Members(n)
         /\ Shut(edges, Closed \union Members(n))
<1> DEFINE L == Len(calls)
           n == Top.node
           C == Members(n)
<1>1. /\ Typed /\ L \in Nat \ {0} /\ Top = calls[L] /\ n \in OnStack /\ OnStack \subseteq Node
      /\ \A x \in OnStack : index[x] \in Nat
      /\ \A k \in 1..L : /\ calls[k].node \in OnStack /\ index[calls[k].node] <= index[n]
                         /\ k < L => index[calls[k].node] < index[n]
  BY Returning
<1>2. /\ C = {x \in OnStack : index[n] <= index[x]} /\ ToSet(Below(n)) = {x \in OnStack : index[x] < index[n]}
  BY <1>1, StackCut DEF SearchInv
<1> HIDE DEF C
<1>3. n \in C /\ C \subseteq OnStack /\ ToSet(Below(n)) = OnStack \ C
  BY <1>1, <1>2
<1>4. \A x \in C : Leads(edges, n, x) /\ Leads(edges, x, n)
  <2> SUFFICES ASSUME NEW x \in C PROVE Leads(edges, n, x) /\ Leads(edges, x, n)
    OBVIOUS
  <2>1. x \in OnStack /\ index[n] <= index[x] /\ L \in 1..L
    BY <1>1, <1>2
  <2>2. Leads(edges, n, x)
    BY <1>1, <2>1 DEF SearchInv, Downward
  <2>3. PICK k \in 1..L : index[calls[k].node] <= index[x] /\ Leads(edges, x, calls[k].node)
    BY <2>1 DEF SearchInv, Upward
  <2>4. Leads(edges, calls[k].node, n)
    BY <1>1 DEF SearchInv, Downward
  <2> QED BY <2>2, <2>3, <2>4, LeadsFacts
<1>5. Shut(edges, Closed \union C)
  <2> SUFFICES ASSUME NEW e \in edges, e[1] \in Closed \union C PROVE e[2] \in Closed \union C
    BY DEF Shut
  <2>1. CASE e[1] \in Closed
    BY <2>1 DEF SearchInv, Followed, Shut
  <2>2. CASE e[1] \in C
    <3>1. e = <<e[1], e[2]>> /\ e[1] \in Node /\ e[2] \in Node
      BY <1>1 DEF Typed
    <3>2. e[1] \in OnStack /\ index[n] <= index[e[1]] /\ e[1] \in Met
      BY <1>1, <1>2, <2>2 DEF Met, Unmet
    <3>3. ASSUME NEW k \in 1..L, calls[k].node = e[1] PROVE k = L
      BY <1>1, <3>2, <3>3
    <3>4. Seen(e[1], e[2])
      BY <1>1, <3>1, <3>2, <3>3 DEF Seen
    <3>5. e[2] \in Met
      BY <3>1, <3>4 DEF SearchInv, Followed
    <3>6. CASE e[2] \in OnStack
      <4>1. L \in 1..L /\ e[1] \in Span(L)
        BY <1>1, <3>2 DEF Span
      <4>2. lowLink[n] <= index[e[2]]
        BY <1>1, <3>4, <3>6, <4>1 DEF SearchInv, LinkLowest
      <4> QED BY <1>2, <3>6, <4>2
    <3> QED BY <3>5, <3>6 DEF Closed
  <2> QED BY <2>1, <2>2
<1>6. Mutual(edges, n) = C
  <2>1. C \subseteq Mutual(edges, n)
    BY <1>1, <1>3, <1>4 DEF Mutual
  <2>2. ASSUME NEW y \in Mutual(edges, n) PROVE y \in C
    <3>1. Leads(edges, n, y) /\ Leads(edges, y, n)
      BY <2>2 DEF Mutual
    <3>2. Closed \union C \in SUBSET Node /\ Closed \in SUBSET Node
      BY <1>1, <1>3 DEF Closed, Met
    <3>3. y \in Closed \union C
      BY <1>3, <1>5, <3>1, <3>2, LeadsFacts
    <3>4. y \notin Closed
      <4> SUFFICES ASSUME y \in Closed PROVE FALSE
        OBVIOUS
      <4>1. n \in Closed
        BY <3>1, <3>2, LeadsFacts DEF SearchInv, Followed
      <4> QED BY <1>1, <4>1 DEF Closed
    <3> QED BY <3>3, <3>4
  <2> QED BY <2>1, <2>2
<1>7. \A x \in C : Mutual(edges, x) = C
  BY <1>1, <1>3, <1>6, MutualIsShared
<1> QED BY <1>3, <1>5, <1>7 DEF C

LEMMA ReturnKeeps ==
  ASSUME SearchInv, Return
  PROVE  SearchInv'
<1> DEFINE L == Len(calls)
           n == Top.node
           closes == lowLink[n] = index[n]
<1>1. /\ Typed /\ L \in Nat \ {0} /\ Top = calls[L] /\ n \in OnStack /\ Top.left = {}
      /\ OnStack \subseteq Node
      /\ \A x \in OnStack : index[x] \in Nat /\ lowLink[x] \in 0..index[x]
      /\ \A k \in 1..L : /\ calls[k].node \in OnStack /\ index[calls[k].node] <= index[n]
                         /\ k < L => index[calls[k].node] < index[n]
  BY Returning DEF Return
<1>2. /\ calls' \in Seq(Call) /\ Len(calls') = L - 1
      /\ \A k \in 1..L - 1 : calls'[k] = calls[k] /\ k \in 1..L
  BY Returning DEF Return
<1>3. /\ edges' = edges /\ index' = index /\ counter' = counter /\ Met' = Met
  BY DEF Return, Met
<1>4. \A x \in Node : lowLink'[x] = IF L > 1 /\ x = Caller THEN Smaller(lowLink[x], lowLink[n]) ELSE lowLink[x]
  BY <1>1 DEF Return, Typed
<1>5. /\ L > 1 => L - 1 \in 1..L - 1 /\ Caller = calls[L - 1].node
      /\ \A k \in 1..L - 1 : /\ calls[k].node \in OnStack
                             /\ calls[k].node = Caller => k = L - 1
                             /\ index[calls[k].node] < index[n]
  <2>1. L > 1 => L - 1 \in 1..L - 1
    BY <1>1
  <2>2. ASSUME NEW k \in 1..L - 1
        PROVE  /\ calls[k].node \in OnStack
               /\ calls[k].node = Caller => k = L - 1
               /\ index[calls[k].node] < index[n]
    <3>1. k \in 1..L /\ k < L /\ L - 1 \in 1..L
      BY <1>1
    <3>2. k < L - 1 => index[calls[k].node] < index[calls[L - 1].node]
      BY <3>1 DEF SearchInv, Calling
    <3> QED BY <1>1, <3>1, <3>2 DEF Caller
  <2> QED BY <2>1, <2>2 DEF Caller
<1>6. \A k \in 1..L - 1 : /\ lowLink'[calls[k].node] <= lowLink[calls[k].node]
                          /\ lowLink'[calls[k].node] \in Nat /\ lowLink[calls[k].node] \in Nat
                          /\ k = L - 1 => lowLink'[calls[k].node] <= lowLink[n]
                          /\ lowLink'[calls[k].node] = lowLink[calls[k].node]
                               \/ (k = L - 1 /\ lowLink'[calls[k].node] = lowLink[n] /\ lowLink[n] < lowLink[calls[k].node])
  <2> SUFFICES ASSUME NEW k \in 1..L - 1
               PROVE  /\ lowLink'[calls[k].node] <= lowLink[calls[k].node]
                      /\ lowLink'[calls[k].node] \in Nat /\ lowLink[calls[k].node] \in Nat
                      /\ k = L - 1 => lowLink'[calls[k].node] <= lowLink[n]
                      /\ lowLink'[calls[k].node] = lowLink[calls[k].node]
                           \/ (k = L - 1 /\ lowLink'[calls[k].node] = lowLink[n] /\ lowLink[n] < lowLink[calls[k].node])
    OBVIOUS
  <2>1. lowLink[calls[k].node] \in Nat /\ lowLink[n] \in Nat /\ calls[k].node \in Node
    BY <1>1, <1>5
  <2>2. CASE k = L - 1
    <3>1. lowLink'[calls[k].node] = Smaller(lowLink[calls[k].node], lowLink[n])
      BY <1>1, <1>4, <1>5, <2>1, <2>2
    <3> QED BY <2>1, <2>2, <3>1 DEF Smaller
  <2>3. CASE k # L - 1
    <3>1. lowLink'[calls[k].node] = lowLink[calls[k].node]
      BY <1>4, <1>5, <2>1, <2>3
    <3> QED BY <2>1, <2>3, <3>1
  <2> QED BY <2>2, <2>3
<1>7. \A x, y \in Node : Seen(x, y)' => Seen(x, y)
  <2> SUFFICES ASSUME NEW x \in Node, NEW y \in Node, Seen(x, y)' PROVE Seen(x, y)
    OBVIOUS
  <2>1. <<x, y>> \in edges /\ x \in Met /\ \A k \in 1..L - 1 : calls'[k].node = x => y \notin calls'[k].left
    BY <1>2, <1>3 DEF Seen
  <2>2. ASSUME NEW k \in 1..L, calls[k].node = x PROVE y \notin calls[k].left
    <3>1. CASE k = L
      BY <1>1, <3>1
    <3>2. CASE k \in 1..L - 1
      BY <1>2, <2>1, <2>2, <3>2
    <3> QED BY <1>1, <3>1, <3>2
  <2> QED BY <2>1, <2>2 DEF Seen
<1>8. lowLink' \in [Node -> Nat \union {Unmet}]
  <2>1. lowLink' = lowLink \/ (L > 1 /\ lowLink' = [lowLink EXCEPT ![Caller] = Smaller(@, lowLink[n])])
    BY <1>1 DEF Return
  <2>2. L > 1 => Caller \in Node /\ lowLink[Caller] \in Nat /\ lowLink[n] \in Nat
    BY <1>1, <1>5
  <2> QED BY <1>1, <2>1, <2>2 DEF Typed, Smaller
<1>9. Numbered'
  <2> SUFFICES ASSUME NEW x \in Node
               PROVE  IF index[x] = Unmet THEN lowLink'[x] = Unmet
                      ELSE index[x] < counter /\ lowLink'[x] \in 0..index[x]
    BY <1>3 DEF Numbered
  <2>1. CASE L > 1 /\ x = Caller
    <3>1. /\ x \in OnStack /\ lowLink'[x] = Smaller(lowLink[x], lowLink[n])
          /\ lowLink[x] \in 0..index[x] /\ lowLink[n] \in Nat /\ index[x] \in Nat /\ index[x] # Unmet
      BY <1>1, <1>4, <1>5, <2>1 DEF Unmet
    <3> QED BY <3>1 DEF Smaller, SearchInv, Numbered
  <2>2. CASE ~(L > 1 /\ x = Caller)
    BY <1>4, <2>2 DEF SearchInv, Numbered
  <2> QED BY <2>1, <2>2
<1>10. ASSUME ~closes PROVE SearchInv'
  <2>1. stack' = stack /\ component' = component /\ OnStack' = OnStack /\ Closed' = Closed
    BY <1>10 DEF Return, OnStack, Closed, Met
  <2>2. Typed' /\ Stacked' /\ Reporting'
    BY <1>1, <1>2, <1>3, <1>8, <2>1 DEF SearchInv, Typed, Stacked, Reporting
  <2>3. Calling'
    <3>1. \A k \in 1..L - 1 : /\ calls'[k].node \in OnStack
                              /\ calls'[k].left \subseteq Successors(calls'[k].node)
      BY <1>2 DEF SearchInv, Calling
    <3>2. \A k, l \in 1..L - 1 : k < l => index[calls'[k].node] < index[calls'[l].node]
      BY <1>2 DEF SearchInv, Calling
    <3> QED BY <1>2, <1>3, <2>1, <3>1, <3>2 DEF Calling, Successors
  <2>4. Followed'
    BY <1>3, <1>7, <2>1 DEF SearchInv, Followed
  <2>5. Downward'
    BY <1>2, <1>3, <2>1 DEF SearchInv, Downward
  <2>6. PICK z \in OnStack : index[z] = lowLink[n] /\ Leads(edges, n, z)
    <3>1. L \in 1..L
      BY <1>1
    <3> QED BY <1>1, <3>1 DEF SearchInv, LinkReached
  <2>7. Upward'
    <3> SUFFICES ASSUME NEW x \in OnStack
                 PROVE  \E k \in 1..L - 1 : index[calls[k].node] <= index[x] /\ Leads(edges, x, calls[k].node)
      BY <1>2, <1>3, <2>1 DEF Upward
    <3>1. PICK k \in 1..L : index[calls[k].node] <= index[x] /\ Leads(edges, x, calls[k].node)
      BY DEF SearchInv, Upward
    <3>2. CASE k < L
      BY <1>1, <3>1, <3>2
    <3>3. CASE k = L
      <4>1. PICK j \in 1..L : index[calls[j].node] <= index[z] /\ Leads(edges, z, calls[j].node)
        BY <2>6 DEF SearchInv, Upward
      <4>2. index[z] < index[n] /\ index[n] <= index[x] /\ Leads(edges, x, n)
        BY <1>1, <1>10, <2>6, <3>1, <3>3
      <4>3. index[calls[j].node] <= index[x] /\ index[calls[j].node] < index[n]
        BY <1>1, <2>6, <4>1, <4>2
      <4>4. j \in 1..L - 1
        BY <1>1, <4>3
      <4>5. Leads(edges, x, calls[j].node)
        BY <2>6, <4>1, <4>2, LeadsFacts
      <4> QED BY <4>3, <4>4, <4>5
    <3> QED BY <1>1, <3>2, <3>3
  <2>8. LinkReached'
    <3> SUFFICES ASSUME NEW k \in 1..L - 1
                 PROVE  \E y \in OnStack : index[y] = lowLink'[calls[k].node] /\ Leads(edges, calls[k].node, y)
      BY <1>2, <1>3, <2>1 DEF LinkReached
    <3>1. CASE lowLink'[calls[k].node] = lowLink[calls[k].node]
      BY <1>2, <3>1 DEF SearchInv, LinkReached
    <3>2. CASE lowLink'[calls[k].node] = lowLink[n]
      <4>1. Leads(edges, calls[k].node, n)
        BY <1>1, <1>2 DEF SearchInv, Downward
      <4>2. Leads(edges, calls[k].node, z)
        BY <2>6, <4>1, LeadsFacts
      <4> QED BY <2>6, <3>2, <4>2
    <3> QED BY <1>6, <3>1, <3>2
  <2>9. LinkLowest'
    <3> SUFFICES ASSUME NEW k \in 1..L - 1, NEW x \in Span(k)', NEW y \in OnStack, Seen(x, y)'
                 PROVE  lowLink'[calls[k].node] <= index[y]
      BY <1>2, <1>3, <2>1 DEF LinkLowest
    <3>1. /\ x \in OnStack /\ index[calls[k].node] <= index[x] /\ k \in 1..L
          /\ k < L - 1 => index[x] < index[calls'[k + 1].node]
      BY <1>2, <1>3, <2>1 DEF Span
    <3>2. Seen(x, y) /\ index[y] \in Nat
      BY <1>1, <1>7, <3>1
    <3>3. CASE k < L - 1 \/ index[x] < index[n]
      <4>1. k < L - 1 => calls'[k + 1] = calls[k + 1]
        BY <1>1, <1>2
      <4>2. k < L => index[x] < index[calls[k + 1].node]
        BY <1>1, <3>1, <3>3, <4>1
      <4>3. lowLink[calls[k].node] <= index[y]
        BY <3>1, <3>2, <4>2 DEF SearchInv, LinkLowest, Span
      <4> QED BY <1>6, <3>2, <4>3
    <3>4. CASE k = L - 1 /\ index[n] <= index[x]
      <4>1. L \in 1..L /\ x \in Span(L)
        BY <1>1, <3>1, <3>4 DEF Span
      <4>2. lowLink[n] <= index[y] /\ lowLink[n] \in Nat
        BY <1>1, <3>2, <4>1 DEF SearchInv, LinkLowest
      <4> QED BY <1>6, <3>2, <3>4, <4>2
    <3> QED BY <1>1, <3>1, <3>3, <3>4
  <2> QED BY <1>9, <2>2, <2>3, <2>4, <2>5, <2>7, <2>8, <2>9 DEF SearchInv
<1>11. ASSUME closes PROVE SearchInv'
  <2> DEFINE C == Members(n)
  <2>1. /\ n \in C /\ C \subseteq OnStack /\ ToSet(Below(n)) = OnStack \ C
        /\ \A x \in C : Mutual(edges, x) = C
        /\ Shut(edges, Closed \union C)
    BY <1>11, ClosesComponent DEF Return
  <2>2. /\ C = {x \in OnStack : index[n] <= index[x]}
        /\ Below(n) \in Seq(Node) /\ Len(Below(n)) <= Len(stack)
        /\ \A i \in 1..Len(Below(n)) : Below(n)[i] = stack[i]
    BY <1>1, StackCut DEF SearchInv
  <2>3. /\ stack' = Below(n)
        /\ component' = IF C # {n} THEN [m \in Node |-> IF m \in C THEN C ELSE component[m]] ELSE component
    BY <1>11 DEF Return
  <2> HIDE DEF C
  <2>4. OnStack' = OnStack \ C /\ Closed' = Closed \union C
    <3>1. OnStack' = OnStack \ C
      BY <2>1, <2>3 DEF OnStack
    <3>2. C \subseteq Met
      BY <1>1, <2>1 DEF Met, Unmet
    <3> QED BY <1>3, <2>1, <3>1, <3>2 DEF Closed
  <2>5. \A k \in 1..L - 1 : /\ calls'[k].node \in OnStack' /\ calls'[k] = calls[k]
                            /\ lowLink'[calls[k].node] = lowLink[calls[k].node]
    <3> SUFFICES ASSUME NEW k \in 1..L - 1
                 PROVE  calls[k].node \in OnStack' /\ lowLink'[calls[k].node] = lowLink[calls[k].node]
      BY <1>2
    <3>1. calls[k].node \in OnStack /\ index[calls[k].node] < index[n]
      BY <1>5
    <3>2. calls[k].node \in OnStack'
      BY <1>1, <2>2, <2>4, <3>1
    <3>3. lowLink[calls[k].node] <= index[calls[k].node] /\ lowLink[n] = index[n]
      BY <1>1, <1>11, <3>1
    <3>4. ~(lowLink[n] < lowLink[calls[k].node])
      BY <1>1, <3>1, <3>3
    <3> QED BY <1>6, <3>2, <3>4
  <2>6. Typed'
    <3>1. component' \in [Node -> SUBSET Node]
      BY <1>1, <2>1, <2>3 DEF Typed
    <3> QED BY <1>1, <1>2, <1>3, <1>8, <2>2, <2>3, <3>1 DEF Typed
  <2>7. Stacked'
    <3>1. \A i \in 1..Len(Below(n)) : i \in 1..Len(stack)
      BY <1>1, <2>2, SeqSet DEF Typed
    <3> QED BY <1>3, <2>2, <2>3, <3>1 DEF SearchInv, Stacked
  <2>8. Calling'
    <3>1. \A k \in 1..L - 1 : calls'[k].left \subseteq Successors(calls'[k].node)
      BY <1>2 DEF SearchInv, Calling
    <3>2. \A k, l \in 1..L - 1 : k < l => index[calls'[k].node] < index[calls'[l].node]
      BY <1>2 DEF SearchInv, Calling
    <3> QED BY <1>2, <1>3, <2>5, <3>1, <3>2 DEF Calling, Successors
  <2>9. Followed'
    BY <1>3, <1>7, <2>1, <2>4 DEF SearchInv, Followed
  <2>10. Downward'
    BY <1>2, <1>3, <2>4, <2>5 DEF SearchInv, Downward
  <2>11. Upward'
    <3> SUFFICES ASSUME NEW x \in OnStack'
                 PROVE  \E k \in 1..L - 1 : index[calls[k].node] <= index[x] /\ Leads(edges, x, calls[k].node)
      BY <1>2, <1>3 DEF Upward
    <3>1. x \in OnStack /\ index[x] < index[n]
      BY <1>1, <2>2, <2>4
    <3>2. PICK k \in 1..L : index[calls[k].node] <= index[x] /\ Leads(edges, x, calls[k].node)
      BY <3>1 DEF SearchInv, Upward
    <3>3. k \in 1..L - 1
      BY <1>1, <3>1, <3>2
    <3> QED BY <3>2, <3>3
  <2>12. LinkReached'
    <3> SUFFICES ASSUME NEW k \in 1..L - 1
                 PROVE  \E z \in OnStack' : index[z] = lowLink[calls[k].node] /\ Leads(edges, calls[k].node, z)
      BY <1>2, <1>3, <2>5 DEF LinkReached
    <3>1. PICK z \in OnStack : index[z] = lowLink[calls[k].node] /\ Leads(edges, calls[k].node, z)
      BY <1>2 DEF SearchInv, LinkReached
    <3>2. /\ calls[k].node \in OnStack /\ index[calls[k].node] < index[n]
      BY <1>5
    <3>3. index[z] < index[n]
      BY <1>1, <3>1, <3>2
    <3>4. z \in OnStack'
      BY <1>1, <2>2, <2>4, <3>3
    <3> QED BY <3>1, <3>4
  <2>13. LinkLowest'
    <3> SUFFICES ASSUME NEW k \in 1..L - 1, NEW x \in Span(k)', NEW y \in OnStack', Seen(x, y)'
                 PROVE  lowLink[calls[k].node] <= index[y]
      BY <1>2, <1>3, <2>5 DEF LinkLowest
    <3>1. /\ x \in OnStack /\ index[x] < index[n] /\ index[calls[k].node] <= index[x] /\ k \in 1..L
          /\ k < L - 1 => index[x] < index[calls'[k + 1].node]
      BY <1>1, <1>2, <1>3, <2>2, <2>4 DEF Span
    <3>2. k < L - 1 => calls'[k + 1] = calls[k + 1]
      BY <1>1, <1>2
    <3>3. k < L => index[x] < index[calls[k + 1].node]
      BY <1>1, <3>1, <3>2
    <3>4. Seen(x, y) /\ y \in OnStack
      BY <1>1, <1>7, <2>4, <3>1
    <3> QED BY <3>1, <3>3, <3>4 DEF SearchInv, LinkLowest, Span
  <2>14. Reporting'
    <3> SUFFICES ASSUME NEW x \in Node
                 PROVE  component'[x] = IF x \in Closed' /\ Mutual(edges, x) # {x} THEN Mutual(edges, x) ELSE {}
      BY <1>3 DEF Reporting
    <3>1. component[x] = IF x \in Closed /\ Mutual(edges, x) # {x} THEN Mutual(edges, x) ELSE {}
      BY DEF SearchInv, Reporting
    <3>2. x \in C => x \notin Closed /\ Mutual(edges, x) = C /\ (C = {n} <=> C = {x})
      BY <2>1 DEF Closed
    <3> QED BY <1>1, <2>3, <2>4, <3>1, <3>2 DEF Typed
  <2> QED BY <1>9, <2>6, <2>7, <2>8, <2>9, <2>10, <2>11, <2>12, <2>13, <2>14 DEF SearchInv
<1> QED BY <1>10, <1>11

----------------------------------------------------------------------------
(* The search.                                                             *)

LEMMA InitSearch == Init => SearchInv
<1> SUFFICES ASSUME Init PROVE SearchInv
  OBVIOUS
<1>1. stack = <<>> /\ calls = <<>> /\ OnStack = {} /\ Len(stack) = 0 /\ Len(calls) = 0
  BY DEF Init, OnStack, ToSet
<1>2. Met = {} /\ Closed = {}
  BY DEF Init, Met, Closed
<1>3. Typed
  BY <1>1, EmptySeq DEF Init, Typed
<1>4. Numbered /\ Stacked /\ Calling /\ Followed
  BY <1>1, <1>2 DEF Init, Numbered, Stacked, Calling, Followed, Seen, Shut
<1>5. Downward /\ Upward /\ LinkReached /\ LinkLowest /\ Reporting
  BY <1>1, <1>2 DEF Init, Downward, Upward, LinkReached, LinkLowest, Reporting
<1> QED BY <1>3, <1>4, <1>5 DEF SearchInv

LEMMA NextSearch == SearchInv /\ [Next]_vars => SearchInv'
<1> SUFFICES ASSUME SearchInv, [Next]_vars PROVE SearchInv'
  OBVIOUS
<1>1. CASE Return
  BY <1>1, ReturnKeeps
<1>2. ASSUME NEW n \in Node, LookBack(n) PROVE SearchInv'
  BY <1>2, LookBackKeeps
<1>3. ASSUME NEW n \in Node, VisitRoot(n) PROVE SearchInv'
  <2>1. calls = <<>> /\ index[n] = Unmet /\ Enter(n, <<>>)
    BY <1>3 DEF VisitRoot
  <2>2. <<>> \in Seq(Call) /\ Len(calls) = 0 /\ Len(<<>>) = 0
    BY <2>1, EmptySeq
  <2>3. \A k \in 1..Len(calls) : FALSE
    BY <2>2
  <2> QED BY <2>1, <2>2, <2>3, EnterKeeps
<1>4. ASSUME NEW n \in Node, Descend(n) PROVE SearchInv'
  <2>1. calls # <<>> /\ n \in Top.left /\ index[n] = Unmet /\ Enter(n, Looked(n))
    BY <1>4 DEF Descend
  <2>2. /\ Len(calls) \in Nat \ {0} /\ Top = calls[Len(calls)]
        /\ Looked(n) \in Seq(Call) /\ Len(Looked(n)) = Len(calls)
        /\ \A k \in 1..Len(calls) :
             /\ Looked(n)[k].node = calls[k].node
             /\ Looked(n)[k].left = IF k = Len(calls) THEN calls[k].left \ {n} ELSE calls[k].left
    BY <2>1, LookedCalls DEF SearchInv
  <2>3. Leads(edges, Top.node, n)
    <3>1. Top.left \subseteq Successors(Top.node)
      BY <2>2 DEF SearchInv, Calling
    <3> QED BY <2>1, <3>1, LeadsFacts DEF Successors
  <2>4. \A k \in 1..Len(calls) : /\ Looked(n)[k].left \subseteq calls[k].left
                                 /\ calls[k].left \subseteq Looked(n)[k].left \union {n}
    BY <2>2
  <2> QED BY <2>1, <2>2, <2>3, <2>4, EnterKeeps
<1>5. CASE UNCHANGED vars
  <2>1. UNCHANGED <<edges, component, index, lowLink, stack, calls, counter>>
    BY <1>5 DEF vars
  <2>2. Typed' /\ Numbered' /\ Stacked'
    BY <2>1 DEF SearchInv, Typed, Numbered, Stacked
  <2>3. OnStack' = OnStack /\ Met' = Met /\ Closed' = Closed
    BY <2>1 DEF OnStack, Met, Closed
  <2>4. Calling'
    BY <2>1, <2>3 DEF SearchInv, Calling, Successors
  <2>5. \A x, y : Seen(x, y)' <=> Seen(x, y)
    BY <2>1, <2>3 DEF Seen
  <2>6. Followed'
    BY <2>1, <2>3, <2>5 DEF SearchInv, Followed
  <2>7. Downward' /\ Upward'
    BY <2>1, <2>3 DEF SearchInv, Downward, Upward
  <2>8. LinkReached' /\ Reporting'
    BY <2>1, <2>3 DEF SearchInv, LinkReached, Reporting
  <2>9. LinkLowest'
    <3>1. \A k : Span(k)' = Span(k)
      BY <2>1, <2>3 DEF Span
    <3> QED BY <2>1, <2>3, <2>5, <3>1 DEF SearchInv, LinkLowest
  <2> QED BY <2>2, <2>4, <2>6, <2>7, <2>8, <2>9 DEF SearchInv
<1> QED BY <1>1, <1>2, <1>3, <1>4, <1>5 DEF Next

LEMMA SearchInvariant == Spec => []SearchInv
BY InitSearch, NextSearch, PTL DEF Spec

\* The types hold of every graph, and the stack is in the order the folders
\* were met in, which is what lets visit cut a component off its end.
THEOREM SearchTypesCorrect == Spec => []TypeOK
<1>1. SearchInv => TypeOK
  <2> SUFFICES ASSUME SearchInv PROVE TypeOK
    OBVIOUS
  <2>1. Typed /\ Numbered /\ Stacked
    BY DEF SearchInv
  <2>2. /\ index \in [Node -> 0..counter \union {Unmet}]
        /\ lowLink \in [Node -> 0..counter \union {Unmet}]
    <3>1. \A n \in Node : /\ index[n] \in 0..counter \union {Unmet}
                          /\ lowLink[n] \in 0..counter \union {Unmet}
      BY <2>1 DEF Typed, Numbered, Unmet
    <3> QED BY <2>1, <3>1 DEF Typed
  <2>3. ToSet(stack) \subseteq Node /\ \A i \in 1..Len(calls) : calls[i].node \in Node
    <3>1. /\ stack \in [1..Len(stack) -> Node] /\ ToSet(stack) = {stack[i] : i \in 1..Len(stack)}
          /\ calls \in [1..Len(calls) -> Call]
      BY <2>1, SeqSet DEF Typed
    <3> QED BY <3>1 DEF Call
  <2> QED BY <2>1, <2>2, <2>3 DEF TypeOK, Typed, Stacked
<1> QED BY <1>1, SearchInvariant, PTL

\* What is on the stack still reaches a call in progress: nothing stays there
\* that could no longer close into a component.
THEOREM StackStaysOpen == Spec => []StackReachesCall
<1>1. SearchInv => StackReachesCall
  <2> SUFFICES ASSUME SearchInv, NEW i \in 1..Len(stack)
               PROVE  \E k \in 1..Len(calls) : Abstract!Reaches(stack[i], calls[k].node)
    BY DEF StackReachesCall
  <2>1. Typed /\ edges \subseteq Node \X Node
    BY DEF SearchInv, Typed
  <2>2. stack[i] \in OnStack
    BY <2>1, SeqSet DEF Typed, OnStack
  <2> QED BY <2>1, <2>2, ReachesIsLeads DEF SearchInv, Upward
<1> QED BY <1>1, SearchInvariant, PTL

\* For any graph and any order of visit: when multiNodeComponents returns, the
\* edges cyclicFolderEdges keeps are those whose two ends reach one another.
\* No cycle is missed, no edge is accused.
THEOREM EveryCycleIsFound == Spec => []FindsEveryCycle
<1>1. SearchInv => FindsEveryCycle
  <2> SUFFICES ASSUME SearchInv, Over
               PROVE  CyclicEdges = {e \in edges : Abstract!Reaches(e[2], e[1])}
    BY DEF FindsEveryCycle
  <2>1. Typed /\ edges \subseteq Node \X Node /\ \A e \in edges : e[1] # e[2]
    BY DEF SearchInv, Typed
  <2>2. OnStack = {}
    BY <2>1, NoCallNoStack DEF SearchInv, Over
  <2>3. ASSUME NEW e \in edges
        PROVE  (component[e[1]] # {} /\ component[e[1]] = component[e[2]]) <=> Leads(edges, e[2], e[1])
    <3>1. /\ e = <<e[1], e[2]>> /\ e[1] \in Node /\ e[2] \in Node /\ e[1] # e[2]
          /\ e[1] \in Nodes /\ e[2] \in Nodes
      BY <2>1 DEF Nodes
    <3>2. e[1] \in Closed /\ e[2] \in Closed
      BY <2>2, <3>1 DEF Over, Closed, Met
    <3>3. Leads(edges, e[1], e[2]) /\ e[1] \in Mutual(edges, e[1]) /\ e[2] \in Mutual(edges, e[2])
      BY <3>1, LeadsFacts DEF Mutual
    <3>4. /\ component[e[1]] = IF Mutual(edges, e[1]) # {e[1]} THEN Mutual(edges, e[1]) ELSE {}
          /\ component[e[2]] = IF Mutual(edges, e[2]) # {e[2]} THEN Mutual(edges, e[2]) ELSE {}
      BY <3>1, <3>2 DEF SearchInv, Reporting
    <3>5. ASSUME component[e[1]] # {}, component[e[1]] = component[e[2]] PROVE Leads(edges, e[2], e[1])
      <4>1. e[2] \in Mutual(edges, e[1])
        BY <3>3, <3>4, <3>5
      <4> QED BY <4>1 DEF Mutual
    <3>6. ASSUME Leads(edges, e[2], e[1])
          PROVE  component[e[1]] # {} /\ component[e[1]] = component[e[2]]
      <4>1. e[2] \in Mutual(edges, e[1])
        BY <3>1, <3>3, <3>6 DEF Mutual
      <4>2. Mutual(edges, e[1]) = Mutual(edges, e[2])
        BY <3>1, <4>1, MutualIsShared
      <4> QED BY <3>1, <3>3, <3>4, <4>1, <4>2
    <3> QED BY <3>5, <3>6
  <2> QED BY <2>1, <2>3, ReachesIsLeads DEF CyclicEdges
<1> QED BY <1>1, SearchInvariant, PTL

\* The search implements Components but for its fairness: each step of visit
\* reports one cycle that was not reported, whole, or reports nothing.
THEOREM SearchReportsCycles ==
  Spec => Abstract!Init /\ [][Abstract!Report]_<<edges, component>>
<1>1. Init => Abstract!Init
  BY DEF Init, Abstract!Init
<1>2. SearchInv /\ [Next]_vars => [Abstract!Report]_<<edges, component>>
  <2> SUFFICES ASSUME SearchInv, Next PROVE Abstract!Report \/ UNCHANGED <<edges, component>>
    BY DEF vars
  <2>1. CASE \E n \in Node : VisitRoot(n) \/ Descend(n) \/ LookBack(n)
    BY <2>1 DEF VisitRoot, Descend, LookBack, Enter
  <2>2. CASE Return
    <3> DEFINE n == Top.node
               C == Members(n)
    <3>1. edges' = edges /\ calls # <<>> /\ Top.left = {}
      BY <2>2 DEF Return
    <3>2. CASE lowLink[n] = index[n] /\ C # {n}
      <4>1. /\ n \in C /\ C \subseteq OnStack /\ \A x \in C : Mutual(edges, x) = C
        BY <3>1, <3>2, ClosesComponent
      <4>2. component' = [m \in Node |-> IF m \in C THEN C ELSE component[m]]
        BY <2>2, <3>2 DEF Return
      <4> HIDE DEF C
      <4>3. n \in Node /\ edges \subseteq Node \X Node
        BY <3>1, Returning DEF SearchInv, Typed
      <4>4. C \in Abstract!Cycles
        BY <3>2, <4>1, <4>3, ReachesIsLeads DEF Abstract!Cycles
      <4>5. C \notin Abstract!Reported
        <5> SUFFICES ASSUME NEW x \in Node, component[x] = C PROVE FALSE
          BY DEF Abstract!Reported
        <5>1. x \in Closed /\ C = Mutual(edges, x)
          BY <4>1 DEF SearchInv, Reporting
        <5>2. x \in C
          BY <5>1, LeadsFacts DEF Mutual
        <5> QED BY <4>1, <5>1, <5>2 DEF Closed
      <4> QED BY <3>1, <4>2, <4>4, <4>5 DEF Abstract!Report
    <3>3. CASE ~(lowLink[n] = index[n] /\ C # {n})
      BY <2>2, <3>1, <3>3 DEF Return
    <3> QED BY <3>2, <3>3
  <2> QED BY <2>1, <2>2 DEF Next
<1> QED BY <1>1, <1>2, SearchInvariant, PTL DEF Spec
=============================================================================
