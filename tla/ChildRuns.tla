----------------------------- MODULE ChildRuns -----------------------------
(***************************************************************************)
(* A forEachPipeline node and the child runs it composes.                  *)
(*   execution/step/pipeline-orchestration*.ts  the order of a child's life*)
(*   run/record/child-transitions.ts            the persisted references   *)
(*   run/record/cost-accounting.ts, budget.ts   charge, ceilings, gate     *)
(*                                                                         *)
(* mem is the parent in memory, snap its last snapshot; started stands for *)
(* the pipeline.child.started events of its journal.  A child is its run   *)
(* directory.  The parent may die between any two durable writes, and a    *)
(* child directory may be lost or damaged while it is dead.  A signal is a *)
(* death here.  Costs are small integers; an attempt of a child costs one  *)
(* of Prices, 0 standing for tokens nobody could price.  Durations, usage  *)
(* and the child's own steps are left out (RunRecord has them).            *)
(***************************************************************************)
EXTENDS Naturals, Sequences, FiniteSets, FiniteSetsExt, FiniteSetTheorems, WellFoundedInduction, TLAPS

CONSTANTS Lists,      \* the item lists the template may answer with
          AfterEach,  \* the node has an afterEach callback
          AfterAll,   \* the node has an afterAll callback
          Guarded,    \* the callbacks have a `when`
          Cap, Raised,\* the ceiling of the parent, and the one --budget gives it
          OwnMax,     \* the ceiling a child definition declares
          Prices,     \* what one attempt of a child may cost
          Unmetered,  \* --allow-unmetered
          MaxGens, MaxIds \* bounds: generations of the parent, child directories

VARIABLES
    mem, snap,  \* [items, refs, node, unknown]: see Fresh
    started,    \* child run ids the parent journal knows started
    kids,       \* by id, the child run directory
    pc, gen, max, approved,
    cumulative, \* the ledger of this generation
    ceiling,    \* max_cost_usd of the child in hand
    bill,       \* what the child in hand was just charged
    real, births, ran, yes, paid \* history: spend, creations, executions, answers, finishes
vars == <<mem, snap, started, kids, pc, gen, max, approved, cumulative, ceiling, bill, real, births, ran, yes, paid>>

history == <<bill, real, births, ran, yes, paid>>
Ids == 1..MaxIds
Keys == {<<"main", i>> : i \in 1..2} \cup {<<"each", i>> : i \in 1..2} \cup {<<"all", 0>>}
NoRef == [status |-> "none", call |-> "none", id |-> 0, acc |-> 0]
Fresh == [items |-> <<>>, refs |-> [k \in Keys |-> NoRef], node |-> 0, unknown |-> FALSE]
NoKid == [state |-> "none", status |-> "none", spent |-> 0, unpriced |-> FALSE]

\* The calls of a list in the order executeForEachPipeline makes them.
Calls(list) ==
    [n \in 1..(Len(list) * (IF AfterEach THEN 2 ELSE 1)) |->
        LET i == IF AfterEach THEN (n + 1) \div 2 ELSE n
        IN  IF AfterEach /\ n % 2 = 0 THEN <<"each", i>> ELSE <<"main", i>>]
    \o (IF AfterAll THEN <<<<"all", 0>>>> ELSE <<>>)
Item(list, k) == IF k[1] = "all" THEN "all" ELSE list[k[2]]
IsSettled(ref) == ref.status \in {"done", "skipped"}
Call(n) == Calls(mem.items)[n]
\* Slip: a finished call is entered again.
PendingAll == {n \in DOMAIN Calls(mem.items) : mem.refs[Call(n)].status # "skipped"}
\* The calls not settled: the settled ones answer at once, the first other is made.
Pending == {n \in DOMAIN Calls(mem.items) : ~IsSettled(mem.refs[Call(n)])}
Key == Call(Min(Pending))
Ref == mem.refs[Key]
Kid == kids[Ref.id]
Status(status) == [mem EXCEPT !.refs[Key].status = status]
Save(m) == mem' = m /\ snap' = m
Goto(label) == pc' = label

TypeOK ==
    /\ \A m \in {mem, snap} :
        /\ m.items \in Lists \cup {<<>>} /\ m.node \in Nat /\ m.unknown \in BOOLEAN
        /\ \A k \in Keys : /\ m.refs[k].status \in {"none", "pending", "running", "failed", "done", "skipped"}
                           /\ m.refs[k].id \in Ids \cup {0} /\ m.refs[k].acc \in Nat
                           /\ m.refs[k].status = "done" => m.refs[k].id # 0
    /\ \A i, j \in Keys : snap.refs[i].id = snap.refs[j].id /\ snap.refs[i].id # 0 => i = j
    /\ \A i \in Ids : kids[i].state \in {"none", "live", "damaged", "lost"} /\ kids[i].spent \in Nat
    /\ started \subseteq Ids /\ cumulative \in Nat /\ max \in {Cap, Raised}

-----------------------------------------------------------------------------
(* The parent. *)

Init ==
    /\ mem = Fresh /\ snap = Fresh /\ started = {} /\ kids = [i \in Ids |-> NoKid]
    /\ pc = "open" /\ gen = 1 /\ max = Cap /\ approved = FALSE /\ cumulative = 0 /\ ceiling = 0 /\ bill = 0
    /\ real = 0 /\ births = [i \in Ids |-> 0] /\ ran = [k \in Keys |-> {}]
    /\ yes = {k \in Keys : k[1] = "main" \/ ~Guarded} /\ paid = [k \in Keys |-> <<>>]

\* Slip: the template is evaluated again by every generation.
OpenAgain ==
    /\ pc = "open" /\ Goto("call")
    /\ \E l \in Lists : Save([mem EXCEPT !.items = l])
    /\ UNCHANGED <<started, kids, gen, max, approved, cumulative, ceiling, history>>
\* openOrchestration, and freezeOrchestrationItems once.
Open ==
    /\ pc = "open" /\ Goto("call")
    /\ IF mem.items = <<>> THEN \E l \in Lists : Save([mem EXCEPT !.items = l]) ELSE UNCHANGED <<mem, snap>>
    /\ UNCHANGED <<started, kids, gen, max, approved, cumulative, ceiling, history>>

NodeDone ==
    /\ pc = "call" /\ Pending = {} /\ Goto("done")
    /\ UNCHANGED <<mem, snap, started, kids, gen, max, approved, cumulative, ceiling, history>>

\* costGate over the parent's ledger.
GateShut == \/ cumulative >= max
            \/ mem.unknown /\ ~Unmetered
\* childLaunchGate: nothing is written, what was not reached stays pending.  A
\* callback is gated before it is declared, a child once it is.
Refuse ==
    /\ pc = "call" /\ Pending # {} /\ GateShut /\ Key[1] # "main"
    /\ Goto("halted")
    /\ UNCHANGED <<mem, snap, started, kids, gen, max, approved, cumulative, ceiling, history>>

\* declareChild: found, created, or refused when it names another call.
Declare ==
    /\ pc = "call" /\ Pending # {} /\ (~GateShut \/ Key[1] = "main")
    /\ CASE Ref.status = "none" ->
              /\ Save([mem EXCEPT !.refs[Key] =
                         [NoRef EXCEPT !.status = "pending", !.call = Item(mem.items, Key)]])
              /\ Goto(IF Key[1] = "main" THEN "gate" ELSE "when")
         [] Ref.status # "none" /\ Ref.call # Item(mem.items, Key) -> Goto("refused") /\ UNCHANGED <<mem, snap>>
         [] OTHER -> /\ Goto(IF Key[1] # "main" /\ Ref.status = "pending" THEN "when" ELSE "gate")
                     /\ UNCHANGED <<mem, snap>>
    /\ UNCHANGED <<started, kids, gen, max, approved, cumulative, ceiling, history>>

\* evaluatePredicate: the answer of a pending callback is persisted, a throw too.
When ==
    /\ pc = "when"
    /\ \/ Save(Status("running")) /\ Goto("gate") /\ yes' = yes \cup {Key}
       \/ Guarded /\ Save(Status("skipped")) /\ Goto("call") /\ yes' = yes
       \/ Guarded /\ Save(Status("failed")) /\ Goto("failed") /\ yes' = yes
    /\ UNCHANGED <<started, kids, gen, max, approved, cumulative, ceiling, bill, real, births, ran, paid>>

Smaller(a, b) == IF a < b THEN a ELSE b
Over(a, b) == IF a > b THEN a - b ELSE 0
\* Slip: a child runs under its own ceiling or the parent's, not what is left of it.
CeilingWhole == IF approved THEN max ELSE Smaller(max, OwnMax)
\* childCostCeiling: what is left, what this child was already charged put back.
Ceiling ==
    LET left == Over(max, cumulative) + Ref.acc
    IN  IF approved THEN left ELSE Smaller(left, OwnMax)
\* executeChild: the gate again, then the ceiling and the identity.
Gate ==
    /\ pc = "gate"
    /\ IF GateShut THEN Goto("halted") /\ UNCHANGED ceiling
       ELSE Goto("bind") /\ ceiling' = Ceiling
    /\ UNCHANGED <<mem, snap, started, kids, gen, max, approved, cumulative, history>>
\* Slip: the identity counts as used only while its snapshot is there.
UsedBySnapshot(i) == kids[i].state \in {"live", "damaged"}
\* An identity is used once the journal or a snapshot entry says so.
Used(i) == i \in started \/ kids[i].state \in {"live", "damaged"}
\* Slip: calls of one pipeline share a fresh identity.
IdentityShared == IF Ref.id # 0 THEN Ref.id ELSE 1
\* allocateRunId never returns an identity twice; hasJournaledChildStart and the
\* snapshot entry are read before bindChildRun saves.
Identity == IF Ref.id # 0 THEN Ref.id ELSE Min(Ids \ {mem.refs[k].id : k \in Keys})
Bind ==
    /\ pc = "bind"
    /\ Save([mem EXCEPT !.refs[Key].id = Identity, !.refs[Key].status = "running"])
    /\ Goto(IF ~Used(Identity) THEN "create" ELSE IF kids[Identity].state = "live" THEN "boot" ELSE "launchfailed")
    /\ UNCHANGED <<started, kids, gen, max, approved, cumulative, ceiling, history>>
\* A strict resume of a missing or damaged snapshot: failChildLaunch.
LaunchFailed ==
    /\ pc = "launchfailed" /\ Save(Status("failed")) /\ Goto("failed")
    /\ UNCHANGED <<started, kids, gen, max, approved, cumulative, ceiling, history>>
\* loadOrCreateRun creates the child: its first snapshot.
Create ==
    /\ pc = "create" /\ Goto("boot")
    /\ kids' = [kids EXCEPT ![Ref.id] = [NoKid EXCEPT !.state = "live", !.status = "RUNNING"]]
    /\ births' = [births EXCEPT ![Ref.id] = @ + 1]
    /\ UNCHANGED <<mem, snap, started, gen, max, approved, cumulative, ceiling, bill, real, ran, yes, paid>>
\* recordChildStarted; a child that owes nothing is only settled.
Boot ==
    /\ pc = "boot" /\ started' = started \cup {Ref.id}
    /\ Goto(IF Kid.status = "PASS" THEN "charge" ELSE "child")
    /\ ran' = [ran EXCEPT ![Key] = IF Kid.status = "PASS" THEN @ ELSE @ \cup {<<Ref.id, births[Ref.id]>>}]
    /\ UNCHANGED <<mem, snap, kids, gen, max, approved, cumulative, ceiling, bill, real, births, yes, paid>>

-----------------------------------------------------------------------------
(* The child under its ceiling. *)

ChildGateShut == Kid.spent >= ceiling \/ (Kid.unpriced /\ ~Unmetered)
Attempt ==
    /\ pc = "child" /\ ~ChildGateShut
    /\ \E c \in Prices :
        /\ kids' = [kids EXCEPT ![Ref.id].spent = @ + c, ![Ref.id].unpriced = @ \/ c = 0]
        /\ real' = real + c
    /\ UNCHANGED <<mem, snap, started, pc, gen, max, approved, cumulative, ceiling, bill, births, ran, yes, paid>>
\* Slip: a child at its ceiling reports nothing.
ChildEndsShort ==
    /\ pc = "child" /\ ~ChildGateShut /\ Goto("charge")
    /\ \E s \in {"PASS", "FAIL", "STOPPED"} : kids' = [kids EXCEPT ![Ref.id].status = s]
    /\ UNCHANGED <<mem, snap, started, gen, max, approved, cumulative, ceiling, history>>
\* Every step is settled; or a failure, a clean stop, its gate.
ChildEnds ==
    /\ pc = "child" /\ Goto("charge")
    /\ \E s \in {"PASS", "FAIL", "STOPPED"} :
        /\ ChildGateShut => s # "STOPPED"
        /\ kids' = [kids EXCEPT ![Ref.id].status = s]
    /\ UNCHANGED <<mem, snap, started, gen, max, approved, cumulative, ceiling, history>>

-----------------------------------------------------------------------------
(* Reconciliation, settlement. *)

\* Slip: the child's whole total is charged each time.
ChargeWhole ==
    /\ pc = "charge" /\ Goto("settle")
    /\ mem' = [mem EXCEPT !.refs[Key].acc = Kid.spent, !.node = @ + Kid.spent, !.unknown = @ \/ Kid.unpriced]
    /\ cumulative' = cumulative + Kid.spent
    /\ bill' = Kid.spent
    /\ UNCHANGED <<snap, started, kids, gen, max, approved, ceiling, real, births, ran, yes, paid>>
\* Slip: the uncertainty reaches the ledger of this generation only if it costs.
ChargeUnlatched ==
    LET delta == Over(Kid.spent, Ref.acc) IN
    /\ pc = "charge" /\ Goto("settle")
    /\ mem' = [mem EXCEPT !.refs[Key].acc = Kid.spent, !.node = @ + delta,
                          !.unknown = @ \/ (Kid.unpriced /\ delta > 0)]
    /\ cumulative' = cumulative + delta
    /\ bill' = delta
    /\ UNCHANGED <<snap, started, kids, gen, max, approved, ceiling, real, births, ran, yes, paid>>
\* chargeChildReconciliation: by difference, in memory and in the journal.
Charge ==
    LET delta == Over(Kid.spent, Ref.acc) IN
    /\ pc = "charge" /\ Goto("settle")
    /\ mem' = [mem EXCEPT !.refs[Key].acc = IF Kid.spent > @ THEN Kid.spent ELSE @, !.node = @ + delta,
                          !.unknown = @ \/ Kid.unpriced]
    /\ cumulative' = cumulative + delta
    /\ bill' = delta
    /\ UNCHANGED <<snap, started, kids, gen, max, approved, ceiling, real, births, ran, yes, paid>>
\* settleChild: the finish event, then the snapshot.
Finish ==
    /\ pc = "settle" /\ Goto("finished")
    /\ paid' = [paid EXCEPT ![Key] = Append(@, [total |-> Kid.spent, charged |-> bill])]
    /\ UNCHANGED <<mem, snap, started, kids, gen, max, approved, cumulative, ceiling, bill, real, births, ran, yes>>
Settle ==
    /\ pc = "finished"
    /\ Save(Status(IF Kid.status = "PASS" THEN "done" ELSE "failed"))
    /\ Goto(IF Kid.status = "PASS" THEN "call" ELSE IF Kid.status = "STOPPED" THEN "halted" ELSE "failed")
    /\ UNCHANGED <<started, kids, gen, max, approved, cumulative, ceiling, history>>

-----------------------------------------------------------------------------
(* Deaths and generations. *)

Ended == {"done", "halted", "failed", "refused", "dead"}
Die ==
    /\ pc \notin Ended /\ gen < MaxGens /\ Goto("dead")
    /\ UNCHANGED <<mem, snap, started, kids, gen, max, approved, cumulative, ceiling, history>>
\* A child directory is removed, or its snapshot damaged.
Lose(i) ==
    /\ pc = "dead" /\ kids[i].state = "live"
    /\ \E s \in {"lost", "damaged"} : kids' = [kids EXCEPT ![i].state = s]
    /\ UNCHANGED <<mem, snap, started, pc, gen, max, approved, cumulative, ceiling, history>>
\* The next generation: memory is the snapshot, the ledger what it was charged.
Resume ==
    /\ pc \in Ended \ {"done", "refused"} /\ gen < MaxGens
    /\ gen' = gen + 1 /\ mem' = snap /\ Goto("open") /\ cumulative' = snap.node
    /\ \E raise \in BOOLEAN : /\ max' = IF raise THEN Raised ELSE max
                              /\ approved' = (approved \/ raise)
    /\ UNCHANGED <<snap, started, kids, ceiling, history>>

Work == \/ Open \/ NodeDone \/ Refuse \/ Declare \/ When \/ Gate \/ Bind \/ LaunchFailed
        \/ Create \/ Boot \/ ChildEnds \/ Charge \/ Finish \/ Settle
Next == Work \/ Attempt \/ Die \/ Resume \/ \E i \in Ids : Lose(i)
Spec == Init /\ [][Next]_vars
Fairness == WF_vars(Work \/ Attempt) /\ WF_vars(ChildEnds)
LiveSpec == Spec /\ Fairness

-----------------------------------------------------------------------------
(* Properties. *)

Total(refs) ==
    LET acc(call, i) == refs[<<call, i>>].acc
    IN  acc("main", 1) + acc("main", 2) + acc("each", 1) + acc("each", 2) + acc("all", 0)
\* A call is executed by one child run only, which is created once, whatever
\* the deaths between its reservation and its settlement (bindChildRun,
\* hasJournaledChildStart).
OneChildPerCall == \A k \in Keys : Cardinality(ran[k]) <= 1
\* What the node was charged is the sum of what its calls were, in memory and in
\* the snapshot, and a settled call was charged all its child spent
\* (chargeChildReconciliation by difference across deaths).
ChargedExactly ==
    \A m \in {mem, snap} :
        /\ m.node = Total(m.refs)
        /\ \A k \in Keys : m.refs[k].status = "done" => m.refs[k].acc = kids[m.refs[k].id].spent
\* Deaths, retries and a raised ceiling together never let the children spend
\* past the ceiling by more than the attempt under way when it was reached.
BudgetHolds == real < max + Max(Prices)
\* Once a child holds spend nobody could price no other child starts an attempt,
\* unless the run accepts it (--allow-unmetered): the uncertainty is latched
\* before the next launch, also over a death.
UnpricedSpawnsNothing ==
    \A i, j \in Ids :
      kids'[i].spent > kids[i].spent /\ kids[j].unpriced => Unmetered
\* A node is never refused by its own earlier generation: its references name
\* the frozen items (declareChild refuses any other call).
ResumeNotRefused == pc # "refused"
\* A settled reference never changes again.
SettledIsFinal == \A k \in Keys : IsSettled(snap.refs[k]) => snap'.refs[k] = snap.refs[k]
\* The comment of executeCallback: the answer of `when` "is persisted as this
\* call's outcome (skipped, failed, or committed), and resume never reinterprets
\* it", so that a call is executed only when its predicate answered true.
GuardedCallsAnswered == \A k \in Keys : ran[k] # {} => k \in yes
\* The comment over settleChild: a generation that settles a finished child a
\* second time "is charged a zero delta".
SecondFinishIsFree ==
    \A k \in Keys : \A n \in 2..Len(paid[k]) :
        paid[k][n].total = paid[k][n - 1].total => paid[k][n].charged = 0

----------------------------------------------------------------------------
(* The proofs.  One call at most is under way, the first that is not       *)
(* settled; every other is untouched or settled for good, and what the     *)
(* parent has not been charged for yet is what the child of that call      *)
(* spent.  This holds in memory and in the snapshot, whatever the one      *)
(* knows that the other does not.                                          *)

\* What the tests and the DSL give a node: lists within the model's keys, an
\* identity for every call, costs and ceilings in small integers.
ChildRunsAssumption ==
    /\ \A l \in Lists : l \in Seq({l[i] : i \in DOMAIN l}) /\ Len(l) \in 1..2 /\ Len(Calls(l)) <= MaxIds
    /\ {AfterEach, AfterAll, Guarded, Unmetered} \subseteq BOOLEAN
    /\ {Cap, Raised, OwnMax, MaxGens, MaxIds} \subseteq Nat
    /\ Prices \subseteq Nat /\ \E p \in Prices : \A q \in Prices : q <= p

Words == {"none", "all"} \cup UNION {{l[i] : i \in DOMAIN l} : l \in Lists}
Settled == {"done", "skipped"}
RefTypes == [status: {"none", "pending", "running", "failed"} \cup Settled, call: Words, id: Ids \cup {0}, acc: Nat]
Snapshots == [items: Lists \cup {<<>>}, refs: [Keys -> RefTypes], node: Nat, unknown: BOOLEAN]
KidTypes == [state: {"none", "live", "damaged", "lost"}, status: {"none", "RUNNING", "PASS", "FAIL", "STOPPED"},
             spent: Nat, unpriced: BOOLEAN]
Labels == {"open", "call", "when", "gate", "bind", "create", "boot", "child", "launchfailed", "charge",
           "settle", "finished"} \cup Ended
Typed ==
    /\ mem \in Snapshots /\ snap \in Snapshots
    /\ started \subseteq Ids /\ kids \in [Ids -> KidTypes]
    /\ pc \in Labels /\ gen \in Nat /\ max \in {Cap, Raised} /\ approved \in BOOLEAN
    /\ cumulative \in Nat /\ ceiling \in Nat /\ real \in Nat
    /\ births \in [Ids -> Nat] /\ ran \in [Keys -> SUBSET (Ids \X Nat)]

\* The calls of a snapshot that are not settled, the one under way, its child.
Waiting(m) == {n \in DOMAIN Calls(m.items) : ~IsSettled(m.refs[Calls(m.items)[n]])}
Turn(m) == Calls(m.items)[Min(Waiting(m))]
Named(m, k) == m.refs[k].id
\* The references: one is open, and each names its call and its own child.
Tables(m) ==
    /\ \A k \in Keys : m.refs[k] = NoRef \/ IsSettled(m.refs[k]) \/ (Waiting(m) # {} /\ k = Turn(m))
    /\ \A k \in Keys : m.refs[k] # NoRef => m.refs[k].call = Item(m.items, k)
                                            /\ \E n \in DOMAIN Calls(m.items) : Calls(m.items)[n] = k
    /\ \A k \in Keys : /\ m.refs[k].status = "none" => m.refs[k] = NoRef
                       /\ m.refs[k].status \in {"pending", "skipped"} => Named(m, k) = 0
                       /\ m.refs[k].status = "done" => Named(m, k) # 0
                       /\ Named(m, k) = 0 => m.refs[k].acc = 0
    /\ m.items = <<>> => \A k \in Keys : m.refs[k] = NoRef
    /\ \A k, l \in Keys : Named(m, k) = Named(m, l) /\ Named(m, k) # 0 => k = l
\* A directory and a start are those of a child some call names, which was
\* charged no more than it spent, all of it once settled, and runs for it alone.
Children(m) ==
    /\ \A i \in Ids : kids[i].state # "none" \/ i \in started => \E k \in Keys : Named(m, k) = i
    /\ \A k \in Keys : Named(m, k) # 0 => m.refs[k].acc <= kids[Named(m, k)].spent
    /\ \A k \in Keys : m.refs[k].status = "done" => m.refs[k].acc = kids[Named(m, k)].spent
    /\ \A k \in Keys : ran[k] # {} => Named(m, k) \in started /\ ran[k] = {<<Named(m, k), births[Named(m, k)]>>}
\* What was spent is what was charged and what the child under way still owes.
Owing(m) == Waiting(m) # {} /\ Named(m, Turn(m)) # 0
Owed(m) == IF Owing(m) THEN kids[Named(m, Turn(m))].spent - m.refs[Turn(m)].acc ELSE 0
Spend(m) ==
    /\ real = m.node + Owed(m)
    /\ \A i \in Ids : kids[i].unpriced => m.unknown \/ (Owing(m) /\ i = Named(m, Turn(m)))
Sound(m) == Tables(m) /\ Children(m) /\ Spend(m)
\* A child spends once its start is journaled, in a directory of its own.
Started ==
    \A i \in Ids : /\ i \in started => kids[i].state # "none"
                   /\ i \notin started => kids[i].spent = 0 /\ kids[i].unpriced = FALSE
\* Memory is ahead of the snapshot between a charge and its settlement only.
Memory ==
    /\ pc \notin {"settle", "finished", "dead"} => mem = snap
    /\ \A k \in Keys : IsSettled(snap.refs[k]) => mem.refs[k] = snap.refs[k]
    /\ cumulative = mem.node
    /\ mem.items = <<>> => pc \in {"open", "dead"}
    /\ snap.items = <<>> => pc \in {"open", "dead"}
\* Where the node is: the call under way, and the gate it has passed.
Launching == {"bind", "create", "boot", "child"}
Placed ==
    /\ pc \in {"when", "gate", "launchfailed", "charge", "settle", "finished"} \cup Launching
          => Pending # {} /\ Ref.status # "none"
    /\ pc = "when" => Ref.status = "pending"
    /\ pc \in {"create", "boot", "child", "charge", "settle", "finished"} => Ref.status = "running"
    /\ pc \in {"create", "boot", "child", "charge", "launchfailed", "settle", "finished"} => Ref.id # 0
    /\ pc = "create" => ~Used(Ref.id)
    /\ pc \in {"boot", "child", "charge", "settle", "finished"} => Kid.state = "live"
    /\ pc \in {"child", "charge", "settle", "finished"} => Ref.id \in started
    /\ pc \in {"settle", "finished"} => Ref.acc = Kid.spent /\ (Kid.unpriced => mem.unknown)
    /\ pc \in Launching => ~GateShut
    /\ pc \in Launching => ceiling <= (max - cumulative) + Ref.acc
    /\ pc # "refused"
ChildRunsInv == Typed /\ Sound(mem) /\ Sound(snap) /\ Started /\ Memory /\ Placed

\* A nonempty set of naturals has a least element.
LEMMA NatMin ==
  ASSUME NEW T \in SUBSET Nat, T # {}
  PROVE \E x \in T : \A y \in T : x <= y
<1> DEFINE R == OpToRel(<, Nat)
<1>1. IsWellFoundedOn(R, Nat)
  BY NatLessThanWellFounded, Zenon
<1>3. \A x, y \in Nat : <<x,y>> \in R <=> x < y
  BY DEF OpToRel
<1> HIDE DEF R
<1>2. PICK x \in T : \A y \in T : ~ (<<y, x>> \in R)
  BY <1>1, WFMin
<1>4. \A y \in T : x <= y
  <2> TAKE y \in T
  <2>1. ~(y < x) /\ x \in Nat /\ y \in Nat
    BY <1>2, <1>3
  <2> QED BY <2>1
<1> QED BY <1>4

\* Induction for a set: one that holds 0 and is closed under successor holds
\* every natural.

LEMMA LeastOf ==
  ASSUME NEW T \in SUBSET Nat, T # {}
  PROVE Min(T) \in T
BY NatMin DEF Min

\* The dearest attempt is one of the prices.
LEMMA Dearest ==
  ASSUME ChildRunsAssumption
  PROVE Max(Prices) \in Nat /\ \A q \in Prices : q <= Max(Prices)
BY DEF ChildRunsAssumption, Max

\* The calls of a list are keys of the node, and each names an item of it.
LEMMA CallsAreKeys ==
  ASSUME ChildRunsAssumption, NEW l \in Lists \cup {<<>>}
  PROVE  /\ Calls(l) \in Seq(Keys)
         /\ \A n \in DOMAIN Calls(l) : Calls(l)[n] \in Keys
         /\ \A n \in DOMAIN Calls(l) : Item(l, Calls(l)[n]) \in Words
         /\ l # <<>> => Len(Calls(l)) <= MaxIds
<1> DEFINE mains == [n \in 1..(Len(l) * (IF AfterEach THEN 2 ELSE 1)) |->
        LET i == IF AfterEach THEN (n + 1) \div 2 ELSE n
        IN  IF AfterEach /\ n % 2 = 0 THEN <<"each", i>> ELSE <<"main", i>>]
           rest == IF AfterAll THEN <<<<"all", 0>>>> ELSE <<>>
<1>1. Len(l) \in 0..2 /\ AfterEach \in BOOLEAN /\ AfterAll \in BOOLEAN
      /\ (l # <<>> => Len(Calls(l)) <= MaxIds) /\ l \in Seq({l[i] : i \in DOMAIN l})
  <2>1. CASE l = <<>>
    <3>1. Len(l) = 0 /\ l \in Seq({l[i] : i \in DOMAIN l})
      BY <2>1
    <3> QED BY <2>1, <3>1 DEF ChildRunsAssumption
  <2>2. CASE l \in Lists
    <3>1. l \in Seq({l[i] : i \in DOMAIN l}) /\ Len(l) \in 1..2 /\ Len(Calls(l)) <= MaxIds
      BY <2>2 DEF ChildRunsAssumption
    <3> QED BY <3>1 DEF ChildRunsAssumption
  <2> QED BY <2>1, <2>2
<1>2. \A i \in 1..2 : <<"main", i>> \in Keys /\ <<"each", i>> \in Keys
  BY DEF Keys
<1>3. <<"all", 0>> \in Keys
  BY DEF Keys
<1>4. \A n \in 1..(Len(l) * (IF AfterEach THEN 2 ELSE 1)) :
        \E i \in 1..Len(l) : mains[n] = <<"main", i>> \/ mains[n] = <<"each", i>>
  <2> TAKE n \in 1..(Len(l) * (IF AfterEach THEN 2 ELSE 1))
  <2>1. CASE AfterEach
    <3>1. (n + 1) \div 2 \in 1..Len(l)
      BY <1>1, <2>1
    <3>2. mains[n] = <<"main", (n + 1) \div 2>> \/ mains[n] = <<"each", (n + 1) \div 2>>
      BY <2>1
    <3> QED BY <3>1, <3>2
  <2>2. CASE ~AfterEach
    <3>1. n \in 1..Len(l)
      BY <1>1, <2>2
    <3>2. mains[n] = <<"main", n>>
      BY <2>2
    <3> QED BY <3>1, <3>2
  <2> QED BY <2>1, <2>2
<1>5. mains \in Seq(Keys)
  <2> DEFINE size == Len(l) * (IF AfterEach THEN 2 ELSE 1)
  <2>1. size \in Nat
    BY <1>1
  <2>2. mains = [n \in 1..size |-> mains[n]]
    OBVIOUS
  <2>4. \A n \in 1..size : \E i \in 1..Len(l) : mains[n] = <<"main", i>> \/ mains[n] = <<"each", i>>
    BY <1>4
  <2> HIDE DEF mains, size
  <2>5. \A i \in 1..Len(l) : i \in 1..2
    <3> DEFINE top == Len(l)
    <3>1. top \in 0..2
      BY <1>1
    <3> HIDE DEF top
    <3>2. \A i \in 1..top : i \in 1..2
      BY <3>1
    <3> QED BY <3>2 DEF top
  <2>3. \A n \in 1..size : mains[n] \in Keys
    BY <1>2, <2>4, <2>5
  <2> QED BY <2>1, <2>2, <2>3
<1>6. rest \in Seq(Keys)
  BY <1>3
<1>7. Calls(l) = mains \o rest
  BY DEF Calls
<1>10. DOMAIN mains = 1..(Len(l) * (IF AfterEach THEN 2 ELSE 1))
  OBVIOUS
<1>11. \A n \in DOMAIN rest : rest[n] = <<"all", 0>>
  OBVIOUS
<1> HIDE DEF mains, rest
<1>8. Calls(l) \in Seq(Keys)
  BY <1>5, <1>6, <1>7
<1>9. ASSUME NEW n \in DOMAIN Calls(l)
      PROVE  Calls(l)[n] \in Keys /\ Item(l, Calls(l)[n]) \in Words
  <2>1. Calls(l)[n] \in Keys
    BY <1>8, <1>9
  <2>2. (n \in DOMAIN mains /\ Calls(l)[n] = mains[n]) \/ \E j \in DOMAIN rest : Calls(l)[n] = rest[j]
    <3>1. n \in 1..(Len(mains) + Len(rest))
      BY <1>5, <1>6, <1>7, <1>9
    <3>2. CASE n \in 1..Len(mains)
      BY <1>5, <1>6, <1>7, <3>2
    <3>3. CASE n \notin 1..Len(mains)
      <4>1. n - Len(mains) \in 1..Len(rest) /\ Calls(l)[n] = rest[n - Len(mains)]
        BY <1>5, <1>6, <1>7, <3>1, <3>3
      <4> QED BY <4>1, <1>6
    <3> QED BY <3>2, <3>3
  <2>3. CASE \E j \in DOMAIN rest : Calls(l)[n] = rest[j]
    BY <2>1, <2>3, <1>11 DEF Item, Words
  <2>4. CASE n \in DOMAIN mains /\ Calls(l)[n] = mains[n]
    <3>1. PICK i \in 1..Len(l) : mains[n] = <<"main", i>> \/ mains[n] = <<"each", i>>
      BY <1>4, <1>10, <2>4
    <3>2. Item(l, Calls(l)[n]) = l[i]
      BY <2>4, <3>1 DEF Item
    <3>3. l \in Lists
      BY <3>1
    <3>4. l[i] \in Words
      BY <1>1, <3>1, <3>3 DEF Words
    <3> QED BY <2>1, <3>2, <3>4
  <2> QED BY <2>2, <2>3, <2>4
<1> QED BY <1>1, <1>8, <1>9

\* The call under way is one of the calls, and is not settled.
LEMMA TurnIsOpen ==
  ASSUME ChildRunsAssumption, NEW m \in Snapshots, Waiting(m) # {}
  PROVE  /\ Turn(m) \in Keys /\ ~IsSettled(m.refs[Turn(m)])
         /\ \E n \in DOMAIN Calls(m.items) : Calls(m.items)[n] = Turn(m)
         /\ Item(m.items, Turn(m)) \in Words
<1>1. m.items \in Lists \cup {<<>>}
  BY DEF Snapshots
<1>2. Calls(m.items) \in Seq(Keys)
  BY <1>1, CallsAreKeys
<1>3. Waiting(m) \in SUBSET Nat
  BY <1>2 DEF Waiting
<1>4. Min(Waiting(m)) \in Waiting(m)
  BY <1>3, LeastOf
<1>5. Min(Waiting(m)) \in DOMAIN Calls(m.items) /\ ~IsSettled(m.refs[Turn(m)])
  BY <1>4 DEF Waiting, Turn
<1> QED BY <1>1, <1>5, CallsAreKeys DEF Turn

\* It is the same call as long as the same ones are settled.
LEMMA SameTurn ==
  ASSUME ChildRunsAssumption, NEW m \in Snapshots, NEW n \in Snapshots, m.items = n.items,
         \A k \in Keys : IsSettled(m.refs[k]) <=> IsSettled(n.refs[k])
  PROVE  Waiting(m) = Waiting(n) /\ Turn(m) = Turn(n)
<1>1. m.items \in Lists \cup {<<>>}
  BY DEF Snapshots
<1>2. \A i \in DOMAIN Calls(m.items) : Calls(m.items)[i] \in Keys
  BY <1>1, CallsAreKeys
<1>3. Waiting(m) = Waiting(n)
  BY <1>2 DEF Waiting
<1> QED BY <1>3 DEF Turn

LEMMA PendingIsWaiting ==
  Pending = Waiting(mem) /\ Key = Turn(mem) /\ Pending' = Waiting(mem') /\ Key' = Turn(mem')
BY DEF Pending, Waiting, Key, Turn, Call

With(m, r) == [m EXCEPT !.refs[Turn(m)] = r]
\* Saving a reference of the call under way: the others are left alone, the
\* call is the same unless it is settled, and then the next is untouched.
LEMMA PutReference ==
  ASSUME ChildRunsAssumption, NEW m \in Snapshots, Tables(m), Waiting(m) # {}, m.items # <<>>,
         NEW r \in RefTypes, r.status # "none", r.call = Item(m.items, Turn(m)),
         r.status \in {"pending", "skipped"} => r.id = 0,
         r.status = "done" => r.id # 0,
         r.id = 0 => r.acc = 0,
         \A k \in Keys : k # Turn(m) /\ r.id # 0 => Named(m, k) # r.id,
         NEW n, n = With(m, r)
  PROVE  /\ n \in Snapshots /\ n.items = m.items /\ n.node = m.node /\ n.unknown = m.unknown
         /\ n.refs[Turn(m)] = r /\ \A k \in Keys \ {Turn(m)} : n.refs[k] = m.refs[k]
         /\ Tables(n)
         /\ ~IsSettled(r) => Waiting(n) # {} /\ Turn(n) = Turn(m)
         /\ IsSettled(r) /\ Waiting(n) # {} => Turn(n) \in Keys \ {Turn(m)} /\ m.refs[Turn(n)] = NoRef
<1> DEFINE t == Turn(m)
<1>1. t \in Keys /\ ~IsSettled(m.refs[t]) /\ \E i \in DOMAIN Calls(m.items) : Calls(m.items)[i] = t
  BY TurnIsOpen
<1>2. n \in Snapshots /\ n.items = m.items /\ n.node = m.node /\ n.unknown = m.unknown
      /\ n.refs[t] = r /\ \A k \in Keys \ {t} : n.refs[k] = m.refs[k]
  BY <1>1 DEF Snapshots, With
<1>3. ~IsSettled(r) => Waiting(n) = Waiting(m) /\ Turn(n) = t
  <2> SUFFICES ASSUME ~IsSettled(r) PROVE Waiting(n) = Waiting(m) /\ Turn(n) = t
    OBVIOUS
  <2>1. \A k \in Keys : IsSettled(n.refs[k]) <=> IsSettled(m.refs[k])
    <3> TAKE k \in Keys
    <3>1. CASE k = t
      BY <1>1, <1>2, <3>1
    <3>2. CASE k # t
      BY <1>2, <3>2
    <3> QED BY <3>1, <3>2
  <2> QED BY <1>2, <2>1, SameTurn
<1>4. Waiting(n) # {} => Turn(n) \in Keys /\ ~IsSettled(n.refs[Turn(n)])
  BY <1>2, TurnIsOpen
<1>5. ASSUME NEW k \in Keys, k # t
      PROVE  m.refs[k] = NoRef \/ IsSettled(m.refs[k])
  BY <1>5 DEF Tables
<1>6. ASSUME IsSettled(r), Waiting(n) # {}
      PROVE  Turn(n) \in Keys \ {t} /\ m.refs[Turn(n)] = NoRef
  <2>1. Turn(n) # t
    BY <1>2, <1>4, <1>6
  <2> QED BY <1>2, <1>4, <1>5, <1>6, <2>1
<1>7. Tables(n)
  <2> HIDE DEF t
  <2>1. \A k \in Keys : n.refs[k] = NoRef \/ IsSettled(n.refs[k]) \/ (Waiting(n) # {} /\ k = Turn(n))
    <3> TAKE k \in Keys
    <3>1. CASE k = t
      BY <1>1, <1>2, <1>3, <3>1 DEF t
    <3>2. CASE k # t
      BY <1>2, <1>5, <3>2
    <3> QED BY <3>1, <3>2
  <2>2. \A k \in Keys : n.refs[k] # NoRef => n.refs[k].call = Item(n.items, k)
                                             /\ \E i \in DOMAIN Calls(n.items) : Calls(n.items)[i] = k
    <3> TAKE k \in Keys
    <3>1. CASE k = t
      BY <1>1, <1>2, <3>1 DEF t
    <3>2. CASE k # t
      BY <1>2, <3>2 DEF Tables
    <3> QED BY <3>1, <3>2
  <2>3. ASSUME NEW k \in Keys
        PROVE  /\ n.refs[k].status = "none" => n.refs[k] = NoRef
               /\ n.refs[k].status \in {"pending", "skipped"} => Named(n, k) = 0
               /\ n.refs[k].status = "done" => Named(n, k) # 0
               /\ Named(n, k) = 0 => n.refs[k].acc = 0
    <3>1. CASE k = t
      BY <1>2, <3>1 DEF Named
    <3>2. CASE k # t
      BY <1>2, <2>3, <3>2 DEF Tables, Named
    <3> QED BY <3>1, <3>2
  <2>4. n.items # <<>>
    BY <1>2
  <2>6. \A k, l \in Keys : Named(n, k) = Named(n, l) /\ Named(n, k) # 0 => k = l
    <3> SUFFICES ASSUME NEW k \in Keys, NEW l \in Keys, Named(n, k) = Named(n, l), Named(n, k) # 0
                 PROVE  k = l
      OBVIOUS
    <3>1. CASE k # t /\ l # t
      BY <1>2, <3>1 DEF Tables, Named
    <3>2. CASE k = t /\ l # t
      BY <1>2, <3>2 DEF Named, t
    <3>3. CASE k # t /\ l = t
      BY <1>2, <3>3 DEF Named, t
    <3> QED BY <3>1, <3>2, <3>3
  <2> QED BY <2>1, <2>2, <2>3, <2>4, <2>6 DEF Tables
<1> QED BY <1>2, <1>3, <1>4, <1>6, <1>7

\* What a reference may become: it keeps its charges and its child, may take a
\* child no call names yet, and settles when nothing is owed.
Becomes(m, r) ==
    /\ r.status # "none" /\ r.call = Item(m.items, Turn(m))
    /\ r.status \in {"pending", "skipped"} => r.id = 0
    /\ r.status = "done" => r.id # 0
    /\ r.acc = m.refs[Turn(m)].acc
    /\ Named(m, Turn(m)) # 0 => r.id = Named(m, Turn(m))
    /\ Named(m, Turn(m)) = 0 => \A k \in Keys : Named(m, k) # r.id \/ r.id = 0
    /\ IsSettled(r) /\ r.id # 0 => Named(m, Turn(m)) # 0 /\ r.acc = kids[r.id].spent
                                             /\ (kids[r.id].unpriced => m.unknown)

LEMMA SoundPut ==
  ASSUME ChildRunsAssumption, Typed, Started, NEW m \in Snapshots, Sound(m), Waiting(m) # {}, m.items # <<>>,
         NEW r \in RefTypes, Becomes(m, r), NEW n, n = With(m, r)
  PROVE  /\ n \in Snapshots /\ n.items = m.items /\ n.node = m.node /\ n.unknown = m.unknown
         /\ n.refs[Turn(m)] = r /\ \A k \in Keys \ {Turn(m)} : n.refs[k] = m.refs[k]
         /\ Sound(n)
         /\ ~IsSettled(r) => Waiting(n) # {} /\ Turn(n) = Turn(m)
<1> DEFINE t == Turn(m)
<1>1. t \in Keys /\ ~IsSettled(m.refs[t]) /\ m.refs \in [Keys -> RefTypes]
  BY TurnIsOpen DEF Snapshots
<1>2. Tables(m) /\ Children(m) /\ Spend(m)
  BY DEF Sound
<1>t. \A k \in Keys : Named(m, k) \in Ids \cup {0} /\ m.refs[k].acc \in Nat
  BY DEF Snapshots, RefTypes, Named
<1>r. r.id \in Ids \cup {0} /\ r.acc \in Nat /\ 0 \notin Ids
  BY DEF RefTypes, Ids
<1>k. kids \in [Ids -> KidTypes] /\ \A i \in Ids : kids[i].spent \in Nat
  BY DEF Typed, KidTypes
<1>3. r.id = 0 => r.acc = 0
  BY <1>1, <1>2, <1>t DEF Becomes, Tables
<1>4. \A k \in Keys : k # t /\ r.id # 0 => Named(m, k) # r.id
  BY <1>1, <1>2 DEF Becomes, Tables
<1>b. /\ r.status # "none" /\ r.call = Item(m.items, t)
      /\ r.status \in {"pending", "skipped"} => r.id = 0
      /\ r.status = "done" => r.id # 0
  BY DEF Becomes
<1>5. /\ n \in Snapshots /\ n.items = m.items /\ n.node = m.node /\ n.unknown = m.unknown
      /\ n.refs[t] = r /\ \A k \in Keys \ {t} : n.refs[k] = m.refs[k]
      /\ Tables(n)
      /\ ~IsSettled(r) => Waiting(n) # {} /\ Turn(n) = t
      /\ IsSettled(r) /\ Waiting(n) # {} => Turn(n) \in Keys \ {t} /\ m.refs[Turn(n)] = NoRef
  BY <1>2, <1>3, <1>4, <1>b, PutReference
<1>6. Named(n, t) = r.id /\ \A k \in Keys \ {t} : Named(n, k) = Named(m, k)
  BY <1>5 DEF Named
<1>n. Named(m, t) # 0 => r.id = Named(m, t)
  BY DEF Becomes
<1>a. r.acc = m.refs[t].acc
  BY DEF Becomes
\* A child the call has just taken has done nothing yet.
<1>7. Named(m, t) = 0 /\ r.id # 0 => r.id \notin started /\ kids[r.id].spent = 0 /\ kids[r.id].unpriced = FALSE
  <2> SUFFICES ASSUME Named(m, t) = 0, r.id # 0
               PROVE  r.id \notin started /\ kids[r.id].spent = 0 /\ kids[r.id].unpriced = FALSE
    OBVIOUS
  <2>1. r.id \in Ids /\ \A k \in Keys : Named(m, k) # r.id
    BY <1>r DEF Becomes
  <2>2. r.id \notin started
    BY <1>2, <2>1 DEF Children
  <2> QED BY <2>1, <2>2 DEF Started
<1>8. Named(m, t) = 0 => m.refs[t].acc = 0
  BY <1>1, <1>2 DEF Tables
<1> HIDE DEF t
<1>9. Children(n)
  <2>1. ASSUME NEW i \in Ids, kids[i].state # "none" \/ i \in started
        PROVE  \E k \in Keys : Named(n, k) = i
    <3>1. PICK k \in Keys : Named(m, k) = i
      BY <1>2, <2>1 DEF Children
    <3>2. CASE k = t
      BY <1>1, <1>6, <1>n, <1>r, <2>1, <3>1, <3>2
    <3>3. CASE k # t
      BY <1>6, <3>1, <3>3
    <3> QED BY <3>2, <3>3
  <2>2. ASSUME NEW k \in Keys, Named(n, k) # 0 PROVE n.refs[k].acc <= kids[Named(n, k)].spent
    <3>1. CASE k # t
      BY <1>2, <1>5, <1>6, <2>2, <3>1 DEF Children
    <3>2. CASE k = t /\ Named(m, t) # 0
      BY <1>1, <1>2, <1>5, <1>6, <1>n, <1>a, <3>2 DEF Children
    <3>3. CASE k = t /\ Named(m, t) = 0
      BY <1>1, <1>5, <1>6, <1>7, <1>8, <1>a, <2>2, <3>3
    <3> QED BY <3>1, <3>2, <3>3
  <2>3. ASSUME NEW k \in Keys, n.refs[k].status = "done" PROVE n.refs[k].acc = kids[Named(n, k)].spent
    <3>1. CASE k # t
      BY <1>2, <1>5, <1>6, <2>3, <3>1 DEF Children
    <3>2. CASE k = t
      <4>1. IsSettled(r) /\ r.id # 0
        BY <1>5, <2>3, <3>2 DEF Becomes, IsSettled
      <4> QED BY <1>5, <1>6, <3>2, <4>1 DEF Becomes
    <3> QED BY <3>1, <3>2
  <2>4. ASSUME NEW k \in Keys, ran[k] # {}
        PROVE  Named(n, k) \in started /\ ran[k] = {<<Named(n, k), births[Named(n, k)]>>}
    <3>1. Named(m, k) \in started /\ ran[k] = {<<Named(m, k), births[Named(m, k)]>>}
      BY <1>2, <2>4 DEF Children
    <3>2. Named(m, k) # 0
      BY <1>r, <3>1 DEF Typed
    <3>3. Named(n, k) = Named(m, k)
      BY <1>6, <1>n, <3>2
    <3> QED BY <3>1, <3>3
  <2> QED BY <2>1, <2>2, <2>3, <2>4 DEF Children
<1>10. Spend(n)
  <2>1. CASE ~IsSettled(r)
    <3>1. Owing(n) <=> r.id # 0
      BY <1>5, <1>6, <2>1 DEF Owing
    <3>2. Owing(m) <=> Named(m, t) # 0
      BY DEF Owing, t
    <3>3. Owed(n) = Owed(m)
      <4>1. CASE Named(m, t) # 0
        <5>1. r.id = Named(m, t) /\ Owing(n) /\ Owing(m)
          BY <1>n, <3>1, <3>2, <4>1
        <5> QED BY <1>5, <1>6, <1>a, <2>1, <5>1 DEF Owed, t
      <4>2. CASE Named(m, t) = 0 /\ r.id # 0
        <5>1. Owing(n) /\ ~Owing(m) /\ Turn(n) = t
          BY <1>5, <2>1, <3>1, <3>2, <4>2
        <5>2. Owed(n) = kids[r.id].spent - r.acc
          BY <1>5, <1>6, <5>1 DEF Owed
        <5>3. kids[r.id].spent = 0 /\ r.acc = 0
          BY <1>7, <1>8, <1>a, <4>2
        <5> QED BY <5>1, <5>2, <5>3 DEF Owed
      <4>3. CASE Named(m, t) = 0 /\ r.id = 0
        BY <3>1, <3>2, <4>3 DEF Owed
      <4> QED BY <4>1, <4>2, <4>3
    <3>4. ASSUME NEW i \in Ids, kids[i].unpriced
          PROVE  n.unknown \/ (Owing(n) /\ i = Named(n, Turn(n)))
      <4>1. m.unknown \/ (Owing(m) /\ i = Named(m, t))
        BY <1>2, <3>4 DEF Spend, t
      <4> QED BY <1>5, <1>6, <1>n, <2>1, <3>1, <3>2, <4>1
    <3> QED BY <1>2, <1>5, <3>3, <3>4 DEF Spend
  <2>2. CASE IsSettled(r)
    <3>1. ~Owing(n)
      <4>1. Waiting(n) # {} => Named(n, Turn(n)) = 0
        BY <1>5, <1>6, <2>2 DEF Named, NoRef
      <4> QED BY <4>1 DEF Owing
    <3>2. Owed(m) = 0
      <4>1. CASE Named(m, t) = 0
        BY <4>1 DEF Owed, Owing, t
      <4>2. CASE Named(m, t) # 0
        <5>1. r.id = Named(m, t) /\ r.acc = kids[r.id].spent
          BY <1>n, <2>2, <4>2 DEF Becomes
        <5> QED BY <1>a, <1>r, <5>1 DEF Owed, t
      <4> QED BY <4>1, <4>2
    <3>3. Owed(n) = 0
      BY <3>1 DEF Owed
    <3>4. ASSUME NEW i \in Ids, kids[i].unpriced PROVE n.unknown
      <4>1. m.unknown \/ (Owing(m) /\ i = Named(m, t))
        BY <1>2, <3>4 DEF Spend, t
      <4>2. CASE Owing(m) /\ i = Named(m, t)
        <5>1. Named(m, t) # 0 /\ r.id = i
          BY <1>n, <4>2 DEF Owing, t
        <5>2. m.unknown
          BY <2>2, <3>4, <4>2, <5>1 DEF Becomes
        <5> QED BY <1>5, <5>2
      <4> QED BY <1>5, <4>1, <4>2
    <3> QED BY <1>2, <1>5, <3>2, <3>3, <3>4 DEF Spend
  <2> QED BY <2>1, <2>2
<1> QED BY <1>5, <1>9, <1>10 DEF Sound, t

\* A snapshot is sound as long as nothing is spent, no directory appears that no
\* call names, no start is taken back and no run is made again.
LEMMA SoundStays ==
  ASSUME ChildRunsAssumption, Typed, NEW m \in Snapshots, Sound(m), real' = real, started' = started, ran' = ran,
         \A i \in Ids : kids'[i].spent = kids[i].spent /\ kids'[i].unpriced = kids[i].unpriced,
         \A i \in Ids : kids'[i].state # "none" => kids[i].state # "none" \/ \E k \in Keys : Named(m, k) = i,
         \A i \in started : births'[i] = births[i]
  PROVE  Sound(m)'
<1>1. Tables(m) /\ Children(m) /\ Spend(m)
  BY DEF Sound
<1>2. Tables(m)'
  BY <1>1
<1>t. \A k \in Keys : Named(m, k) \in Ids \cup {0}
  BY DEF Snapshots, RefTypes, Named
<1>3. Children(m)'
  <2>1. ASSUME NEW i \in Ids, kids'[i].state # "none" \/ i \in started'
        PROVE  \E k \in Keys : Named(m, k) = i
    BY <1>1, <2>1 DEF Children
  <2>2. ASSUME NEW k \in Keys, Named(m, k) # 0 PROVE m.refs[k].acc <= kids'[Named(m, k)].spent
    BY <1>1, <1>t, <2>2 DEF Children
  <2>3. ASSUME NEW k \in Keys, m.refs[k].status = "done" PROVE m.refs[k].acc = kids'[Named(m, k)].spent
    <3>1. Named(m, k) # 0 /\ m.refs[k].acc = kids[Named(m, k)].spent
      BY <1>1, <2>3 DEF Children, Tables
    <3> QED BY <1>t, <3>1
  <2>4. ASSUME NEW k \in Keys, ran'[k] # {}
        PROVE  Named(m, k) \in started' /\ ran'[k] = {<<Named(m, k), births'[Named(m, k)]>>}
    BY <1>1, <2>4 DEF Children
  <2> QED BY <2>1, <2>2, <2>3, <2>4 DEF Children, Named
<1>4. Spend(m)'
  <2>1. m.refs \in [Keys -> RefTypes] /\ (Owing(m) => Turn(m) \in Keys /\ Named(m, Turn(m)) # 0)
    BY TurnIsOpen DEF Snapshots, Owing
  <2>2. CASE Owing(m)
    <3>1. kids'[Named(m, Turn(m))].spent = kids[Named(m, Turn(m))].spent
      BY <1>t, <2>1, <2>2
    <3> QED BY <1>1, <2>2, <3>1 DEF Spend, Owed, Owing, Named
  <2>3. CASE ~Owing(m)
    BY <1>1, <2>3 DEF Spend, Owed, Owing, Named
  <2> QED BY <2>2, <2>3
<1> QED BY <1>2, <1>3, <1>4 DEF Sound

\* Memory or the snapshot is sound when the value it takes is.
LEMMA SoundSame ==
  ASSUME NEW m, Sound(m)'
  PROVE  (mem' = m => Sound(mem)') /\ (snap' = m => Sound(snap)')
<1>1. Tables(m)' /\ Children(m)' /\ Spend(m)'
  BY DEF Sound
<1>2. ASSUME mem' = m PROVE Tables(mem)' /\ Children(mem)' /\ Spend(mem)'
  <2>1. Tables(mem)'
    BY <1>1, <1>2
  <2>2. Children(mem)'
    BY <1>1, <1>2 DEF Children, Named
  <2>3. Spend(mem)'
    BY <1>1, <1>2 DEF Spend, Owed, Owing, Named
  <2> QED BY <2>1, <2>2, <2>3
<1>3. ASSUME snap' = m PROVE Tables(snap)' /\ Children(snap)' /\ Spend(snap)'
  <2>1. Tables(snap)'
    BY <1>1, <1>3
  <2>2. Children(snap)'
    BY <1>1, <1>3 DEF Children, Named
  <2>3. Spend(snap)'
    BY <1>1, <1>3 DEF Spend, Owed, Owing, Named
  <2> QED BY <2>1, <2>2, <2>3
<1> QED BY <1>2, <1>3 DEF Sound

\* Saving a sound change of the reference under way.
LEMMA SoundSave ==
  ASSUME ChildRunsAssumption, ChildRunsInv, Pending # {}, mem.items # <<>>,
         NEW r \in RefTypes, Becomes(mem, r), Save(With(mem, r)),
         UNCHANGED <<started, kids, real, births, ran>>
  PROVE  /\ mem' \in Snapshots /\ snap' = mem' /\ mem'.items = mem.items
         /\ mem'.node = mem.node /\ mem'.unknown = mem.unknown
         /\ Sound(mem)' /\ Sound(snap)'
         /\ ~IsSettled(r) => Pending' # {} /\ Key' = Key /\ Ref' = r
         /\ \A k \in Keys \ {Key} : mem'.refs[k] = mem.refs[k]
<1>1. PICK n : n = With(mem, r)
  OBVIOUS
<1>2. Waiting(mem) # {} /\ Turn(mem) = Key /\ mem \in Snapshots /\ Sound(mem) /\ Typed /\ Started
  BY PendingIsWaiting DEF ChildRunsInv, Typed
<1>3. /\ n \in Snapshots /\ n.items = mem.items /\ n.node = mem.node /\ n.unknown = mem.unknown
      /\ n.refs[Turn(mem)] = r /\ \A k \in Keys \ {Turn(mem)} : n.refs[k] = mem.refs[k]
      /\ Sound(n)
      /\ ~IsSettled(r) => Waiting(n) # {} /\ Turn(n) = Turn(mem)
  BY <1>1, <1>2, SoundPut
<1>4. mem' = n /\ snap' = n
  BY <1>1 DEF Save
<1>5. Sound(n)'
  BY <1>2, <1>3, SoundStays
<1>6. Sound(mem)' /\ Sound(snap)'
  BY <1>4, <1>5, SoundSame
<1>7. ~IsSettled(r) => Pending' # {} /\ Key' = Key /\ Ref' = r
  BY <1>2, <1>3, <1>4, PendingIsWaiting DEF Ref
<1> QED BY <1>2, <1>3, <1>4, <1>6, <1>7

\* A step that touches no reference, no child and no cost.
LEMMA SoundQuiet ==
  ASSUME ChildRunsAssumption, ChildRunsInv, UNCHANGED <<mem, snap, started, kids, real, births, ran>>
  PROVE  /\ Sound(mem)' /\ Sound(snap)' /\ Started'
         /\ Pending' = Pending /\ Key' = Key /\ Ref' = Ref
<1>1. PICK m, s : m = mem /\ s = snap
  OBVIOUS
<1>2. m \in Snapshots /\ s \in Snapshots /\ Sound(m) /\ Sound(s) /\ Typed
  BY <1>1 DEF ChildRunsInv, Typed
<1>3. Sound(m)' /\ Sound(s)'
  BY <1>2, SoundStays
<1>4. mem' = m /\ snap' = s
  BY <1>1
<1>5. Sound(mem)' /\ Sound(snap)'
  BY <1>3, <1>4, SoundSame
<1>6. Pending' = Pending /\ Key' = Key
  BY PendingIsWaiting
<1> QED BY <1>5, <1>6 DEF ChildRunsInv, Started, Ref

\* Where nothing is under way nothing is to be shown of the place.
LEMMA PlacedIdle ==
  ASSUME pc' \in {"open", "call", "done", "halted", "failed", "dead"}
  PROVE  Placed'
BY DEF Placed, Launching

LEMMA InitSound ==
  ASSUME ChildRunsAssumption, Init
  PROVE  ChildRunsInv
<1>1. Fresh \in Snapshots /\ Fresh.items = <<>> /\ Fresh.node = 0
  BY DEF Fresh, Snapshots, RefTypes, NoRef, Words
<1>2. \A k \in Keys : Fresh.refs[k] = NoRef
  BY DEF Fresh
<1>3. Cap \in Nat /\ 0 \notin Ids
  BY DEF ChildRunsAssumption, Ids
<1>4. Typed
  <2>1. kids \in [Ids -> KidTypes]
    BY DEF Init, KidTypes, NoKid
  <2>2. births \in [Ids -> Nat] /\ ran \in [Keys -> SUBSET (Ids \X Nat)]
    BY DEF Init
  <2> QED BY <1>1, <1>3, <2>1, <2>2 DEF Init, Typed, Labels
<1>5. Tables(Fresh)
  BY <1>2 DEF Tables, Named, NoRef
<1>6. Children(Fresh)
  <2>1. \A i \in Ids : kids[i].state = "none" /\ i \notin started
    BY DEF Init, NoKid
  <2>2. \A k \in Keys : Named(Fresh, k) = 0 /\ Fresh.refs[k].status = "none" /\ ran[k] = {}
    BY <1>2 DEF Init, Named, NoRef
  <2> QED BY <2>1, <2>2 DEF Children
<1>7. Spend(Fresh)
  <2>1. ~Owing(Fresh)
    BY <1>1, <1>2, TurnIsOpen DEF Owing, Named, NoRef
  <2> QED BY <1>1, <2>1 DEF Init, Spend, Owed, NoKid
<1>8. Started
  BY DEF Init, Started, NoKid
<1>9. Memory
  BY <1>1 DEF Init, Memory
<1>10. Placed
  BY DEF Init, Placed, Launching
<1> QED BY <1>4, <1>5, <1>6, <1>7, <1>8, <1>9, <1>10 DEF ChildRunsInv, Sound, Init

\* The facts a step starts from.
LEMMA Before ==
  ASSUME ChildRunsAssumption, ChildRunsInv, Pending # {}
  PROVE  /\ Key \in Keys /\ ~IsSettled(Ref) /\ Ref \in RefTypes /\ Item(mem.items, Key) \in Words
         /\ mem \in Snapshots /\ Turn(mem) = Key /\ Waiting(mem) # {} /\ Named(mem, Key) = Ref.id
         /\ Ref.status # "none" => Ref.call = Item(mem.items, Key)
         /\ Ref.status = "none" => Ref = NoRef
         /\ Ref.status = "pending" => Ref.id = 0
         /\ Ref.id # 0 => Ref.acc <= Kid.spent
         /\ Ref.id \in Ids \cup {0} /\ Ref.acc \in Nat /\ 0 \notin Ids
<1>1. mem \in Snapshots /\ Turn(mem) = Key /\ Waiting(mem) # {} /\ Sound(mem)
  BY PendingIsWaiting DEF ChildRunsInv, Typed
<1>2. Key \in Keys /\ ~IsSettled(mem.refs[Key]) /\ Item(mem.items, Key) \in Words
  BY <1>1, TurnIsOpen
<1>3. Ref \in RefTypes
  BY <1>1, <1>2 DEF Ref, Snapshots
<1>4. Ref.id \in Ids \cup {0} /\ Ref.acc \in Nat /\ 0 \notin Ids
  BY <1>3 DEF RefTypes, Ids
<1>5. Ref.status # "none" => Ref # NoRef
  BY DEF NoRef
<1>6. /\ Ref.status # "none" => Ref.call = Item(mem.items, Key)
      /\ Ref.status = "none" => Ref = NoRef
      /\ Ref.status = "pending" => Ref.id = 0
  BY <1>1, <1>2, <1>5 DEF Sound, Tables, Ref, Named
<1>7. Ref.id # 0 => Ref.acc <= Kid.spent
  BY <1>1, <1>2 DEF Sound, Children, Ref, Kid, Named
<1> QED BY <1>1, <1>2, <1>3, <1>4, <1>6, <1>7 DEF Ref, Named

\* Steps that only move on.
LEMMA Moving ==
  ASSUME ChildRunsAssumption, ChildRunsInv,
         UNCHANGED <<mem, snap, started, kids, real, births, ran, cumulative, max, gen, approved>>,
         pc' \in Labels, ceiling' \in Nat,
         mem = snap \/ pc' \in {"settle", "finished", "dead"},
         pc' \in {"open", "dead"} \/ (mem.items # <<>> /\ snap.items # <<>>),
         Placed'
  PROVE  ChildRunsInv'
<1>1. Typed'
  BY DEF ChildRunsInv, Typed
<1>2. Memory'
  BY DEF ChildRunsInv, Memory
<1> QED BY <1>1, <1>2, SoundQuiet DEF ChildRunsInv

\* Between the opening and the charge memory is the snapshot.
LEMMA Clean ==
  ASSUME ChildRunsInv, pc \notin {"settle", "finished", "dead"}
  PROVE  mem = snap /\ (pc # "open" => mem.items # <<>>)
BY DEF ChildRunsInv, Memory

LEMMA MovingSteps ==
  ASSUME ChildRunsAssumption, ChildRunsInv, NodeDone \/ Refuse \/ Gate \/ Finish \/ Die
  PROVE  ChildRunsInv'
<1>c. ceiling \in Nat /\ pc \in Labels
  BY DEF ChildRunsInv, Typed
<1>1. CASE NodeDone
  <2>1. Placed'
    BY <1>1, PlacedIdle DEF NodeDone, Goto
  <2>2. mem = snap /\ mem.items # <<>>
    BY <1>1, Clean DEF NodeDone
  <2> QED BY <1>1, <1>c, <2>1, <2>2, Moving DEF NodeDone, Goto, Labels, Ended, history
<1>2. CASE Refuse
  <2>1. Placed'
    BY <1>2, PlacedIdle DEF Refuse, Goto
  <2>2. mem = snap /\ mem.items # <<>>
    BY <1>2, Clean DEF Refuse
  <2> QED BY <1>2, <1>c, <2>1, <2>2, Moving DEF Refuse, Goto, Labels, Ended, history
<1>3. CASE Die
  <2>1. Placed'
    BY <1>3, PlacedIdle DEF Die, Goto
  <2>2. pc' = "dead" /\ pc' \in Labels
    BY <1>3 DEF Die, Goto, Labels, Ended
  <2>3. UNCHANGED <<mem, snap, started, kids, real, births, ran, cumulative, max, gen, approved>> /\ ceiling' \in Nat
    BY <1>3, <1>c DEF Die, history
  <2>4. mem = snap \/ pc' \in {"settle", "finished", "dead"}
    BY <2>2
  <2>5. pc' \in {"open", "dead"} \/ (mem.items # <<>> /\ snap.items # <<>>)
    BY <2>2
  <2> QED BY <2>1, <2>2, <2>3, <2>4, <2>5, Moving
<1>4. CASE Finish
  <2>1. Pending' = Pending /\ Key' = Key /\ Ref' = Ref /\ Kid' = Kid
    BY <1>4, SoundQuiet DEF Finish, Kid
  <2>2. Placed'
    BY <1>4, <2>1 DEF Finish, Goto, ChildRunsInv, Placed, Launching
  <2>3. mem.items # <<>> /\ snap.items # <<>>
    BY <1>4 DEF Finish, ChildRunsInv, Memory
  <2> QED BY <1>4, <1>c, <2>2, <2>3, Moving DEF Finish, Goto, Labels, Ended
<1>5. CASE Gate
  <2>1. mem = snap /\ mem.items # <<>>
    BY <1>5, Clean DEF Gate
  <2>2. Pending # {}
    BY <1>5 DEF Gate, ChildRunsInv, Placed
  <2>3. Pending' = Pending /\ Key' = Key /\ Ref' = Ref
    BY <1>5, SoundQuiet DEF Gate, history
  <2>4. Ref.acc \in Nat /\ max \in Nat /\ cumulative \in Nat /\ OwnMax \in Nat
    BY <2>2, Before DEF ChildRunsInv, Typed, ChildRunsAssumption
  <2>5. CASE GateShut
    <3>1. pc' = "halted" /\ UNCHANGED ceiling
      BY <1>5, <2>5 DEF Gate, Goto
    <3>2. Placed'
      BY <3>1, PlacedIdle
    <3> QED BY <1>5, <1>c, <2>1, <3>1, <3>2, Moving DEF Gate, Labels, Ended, history
  <2>6. CASE ~GateShut
    <3>1. pc' = "bind" /\ ceiling' = Ceiling
      BY <1>5, <2>6 DEF Gate, Goto
    <3>2. cumulative < max
      BY <2>4, <2>6 DEF GateShut
    <3>3. Ceiling \in Nat /\ Ceiling <= (max - cumulative) + Ref.acc
      BY <2>4, <3>2 DEF Ceiling, Over, Smaller
    <3>4. (~GateShut)'
      BY <1>5, <2>6 DEF Gate, GateShut
    <3>5. Ref.status # "none"
      BY <1>5 DEF Gate, ChildRunsInv, Placed
    <3>6. Placed'
      BY <1>5, <2>2, <2>3, <3>1, <3>3, <3>4, <3>5 DEF Gate, Placed, Launching
    <3> QED BY <1>5, <1>c, <2>1, <3>1, <3>3, <3>6, Moving DEF Gate, Labels, history
  <2> QED BY <2>5, <2>6
<1> QED BY <1>1, <1>2, <1>3, <1>4, <1>5

\* Steps that save a change of the reference under way.
LEMMA Saving ==
  ASSUME ChildRunsAssumption, ChildRunsInv, Pending # {}, mem.items # <<>>,
         NEW r \in RefTypes, Becomes(mem, r), Save(With(mem, r)),
         UNCHANGED <<started, kids, real, births, ran, cumulative, max, gen, approved, ceiling>>,
         pc' \in Labels, Placed'
  PROVE  ChildRunsInv'
<1>1. /\ mem' \in Snapshots /\ snap' = mem' /\ mem'.items = mem.items
      /\ mem'.node = mem.node /\ mem'.unknown = mem.unknown
      /\ Sound(mem)' /\ Sound(snap)'
  BY SoundSave
<1>2. Typed'
  BY <1>1 DEF ChildRunsInv, Typed
<1>3. Memory'
  BY <1>1 DEF ChildRunsInv, Memory
<1>4. Started'
  BY DEF ChildRunsInv, Started
<1> QED BY <1>1, <1>2, <1>3, <1>4 DEF ChildRunsInv

StatusOf(s) == [status |-> s, call |-> Ref.call, id |-> Ref.id, acc |-> Ref.acc]
LEMMA StatusIsPut ==
  ASSUME ChildRunsAssumption, ChildRunsInv, Pending # {}, NEW s \in {"running", "failed", "done", "skipped"}
  PROVE  Status(s) = With(mem, StatusOf(s)) /\ StatusOf(s) \in RefTypes
<1>1. Key \in Keys /\ Ref \in RefTypes /\ mem \in Snapshots /\ Turn(mem) = Key
  BY Before
<1>2. StatusOf(s) \in RefTypes
  BY <1>1 DEF RefTypes, StatusOf, Settled
<1>3. [mem.refs[Key] EXCEPT !.status = s] = StatusOf(s)
  BY <1>1 DEF RefTypes, StatusOf, Ref
<1>4. Status(s) = With(mem, StatusOf(s))
  BY <1>1, <1>3 DEF Status, With, Snapshots, Ref
<1> QED BY <1>2, <1>4

\* A new status of the reference under way, and where the node goes.
LEMMA NewStatus ==
  ASSUME ChildRunsAssumption, ChildRunsInv, Pending # {}, mem.items # <<>>, Ref.status # "none",
         NEW s \in {"running", "failed", "done", "skipped"}, Save(Status(s)),
         s = "skipped" => Ref.id = 0,
         s = "done" => Ref.id # 0 /\ Ref.acc = Kid.spent /\ (Kid.unpriced => mem.unknown),
         UNCHANGED <<started, kids, real, births, ran, cumulative, max, gen, approved, ceiling>>,
         pc' \in {"call", "halted", "failed"} \/ (pc' = "gate" /\ s = "running")
  PROVE  ChildRunsInv'
<1>1. PICK r : r = StatusOf(s)
  OBVIOUS
<1>2. Save(With(mem, r)) /\ r \in RefTypes
  BY <1>1, StatusIsPut
<1>3. /\ Ref.call = Item(mem.items, Key) /\ Turn(mem) = Key /\ Named(mem, Key) = Ref.id
      /\ Key \in Keys /\ Ref.id \in Ids \cup {0}
  BY Before
<1>4. r.status = s /\ r.call = Ref.call /\ r.id = Ref.id /\ r.acc = Ref.acc
  BY <1>1 DEF StatusOf
<1>5. Becomes(mem, r)
  <2>1. s = "done" => r.acc = kids[r.id].spent /\ (kids[r.id].unpriced => mem.unknown)
    BY <1>4 DEF Kid
  <2>2. Ref.id = 0 => \A k \in Keys : Named(mem, k) # r.id \/ r.id = 0
    BY <1>4
  <2> QED BY <1>3, <1>4, <2>1, <2>2 DEF Becomes, IsSettled, Ref
<1>6. pc' \in Labels
  BY DEF Labels, Ended
<1>7. Placed'
  <2>1. CASE pc' \in {"call", "halted", "failed"}
    BY <2>1, PlacedIdle
  <2>2. CASE pc' = "gate" /\ s = "running"
    <3>1. Pending' # {} /\ Ref' = r
      BY <1>2, <1>4, <1>5, <2>2, SoundSave DEF IsSettled
    <3> QED BY <1>4, <2>2, <3>1 DEF Placed, Launching
  <2> QED BY <2>1, <2>2
<1> QED BY <1>2, <1>5, <1>6, <1>7, Saving

LEMMA WhenKeeps ==
  ASSUME ChildRunsAssumption, ChildRunsInv, When
  PROVE  ChildRunsInv'
<1>1. pc = "when" /\ Pending # {} /\ Ref.status = "pending" /\ mem.items # <<>>
  BY Clean DEF When, ChildRunsInv, Placed
<1>2. Ref.id = 0
  BY <1>1, Before
<1>3. UNCHANGED <<started, kids, real, births, ran, cumulative, max, gen, approved, ceiling>>
  BY DEF When
<1>4. \/ Save(Status("running")) /\ pc' = "gate"
      \/ Save(Status("skipped")) /\ pc' = "call"
      \/ Save(Status("failed")) /\ pc' = "failed"
  BY DEF When, Goto
<1>5. CASE Save(Status("running")) /\ pc' = "gate"
  BY <1>1, <1>3, <1>5, NewStatus
<1>6. CASE Save(Status("skipped")) /\ pc' = "call"
  BY <1>1, <1>2, <1>3, <1>6, NewStatus
<1>7. CASE Save(Status("failed")) /\ pc' = "failed"
  BY <1>1, <1>3, <1>7, NewStatus
<1> QED BY <1>4, <1>5, <1>6, <1>7

LEMMA LaunchFailedKeeps ==
  ASSUME ChildRunsAssumption, ChildRunsInv, LaunchFailed
  PROVE  ChildRunsInv'
<1>1. pc = "launchfailed" /\ Pending # {} /\ Ref.status # "none" /\ mem.items # <<>>
  BY Clean DEF LaunchFailed, ChildRunsInv, Placed
<1>2. UNCHANGED <<started, kids, real, births, ran, cumulative, max, gen, approved, ceiling>>
  BY DEF LaunchFailed, history
<1>3. Save(Status("failed")) /\ pc' = "failed"
  BY DEF LaunchFailed, Goto
<1> QED BY <1>1, <1>2, <1>3, NewStatus

LEMMA SettleKeeps ==
  ASSUME ChildRunsAssumption, ChildRunsInv, Settle
  PROVE  ChildRunsInv'
<1>1. /\ pc = "finished" /\ Pending # {} /\ Ref.status # "none" /\ mem.items # <<>>
      /\ Ref.id # 0 /\ Ref.acc = Kid.spent /\ (Kid.unpriced => mem.unknown)
  BY DEF Settle, ChildRunsInv, Placed, Memory
<1>2. UNCHANGED <<started, kids, real, births, ran, cumulative, max, gen, approved, ceiling>>
  BY DEF Settle, history
<1>3. \/ Save(Status("done")) /\ pc' = "call"
      \/ Save(Status("failed")) /\ pc' \in {"halted", "failed"}
  <2>1. CASE Kid.status = "PASS"
    BY <2>1 DEF Settle, Goto
  <2>2. CASE Kid.status # "PASS"
    BY <2>2 DEF Settle, Goto
  <2> QED BY <2>1, <2>2
<1>4. CASE Save(Status("done")) /\ pc' = "call"
  BY <1>1, <1>2, <1>4, NewStatus
<1>5. CASE Save(Status("failed")) /\ pc' \in {"halted", "failed"}
  BY <1>1, <1>2, <1>5, NewStatus
<1> QED BY <1>3, <1>4, <1>5

LEMMA DeclareKeeps ==
  ASSUME ChildRunsAssumption, ChildRunsInv, Declare
  PROVE  ChildRunsInv'
<1>1. pc = "call" /\ Pending # {} /\ mem = snap /\ mem.items # <<>>
  BY Clean DEF Declare
<1>2. /\ Key \in Keys /\ ~IsSettled(Ref) /\ Ref \in RefTypes /\ Item(mem.items, Key) \in Words
      /\ mem \in Snapshots /\ Turn(mem) = Key /\ Named(mem, Key) = Ref.id
      /\ Ref.status # "none" => Ref.call = Item(mem.items, Key)
      /\ Ref.status = "none" => Ref = NoRef
  BY <1>1, Before
<1>3. UNCHANGED <<started, kids, real, births, ran, cumulative, max, gen, approved, ceiling>>
  BY DEF Declare, history
<1>4. CASE Ref.status = "none"
  <2>1. PICK r : r = [NoRef EXCEPT !.status = "pending", !.call = Item(mem.items, Key)]
    OBVIOUS
  <2>2. r.status = "pending" /\ r.call = Item(mem.items, Key) /\ r.id = 0 /\ r.acc = 0 /\ r \in RefTypes
    BY <1>2, <2>1 DEF NoRef, RefTypes
  <2>3. Save(With(mem, r)) /\ pc' \in {"gate", "when"}
    BY <1>2, <1>4, <2>1 DEF Declare, With, Goto
  <2>4. Becomes(mem, r)
    BY <1>2, <1>4, <2>2 DEF Becomes, IsSettled, NoRef, Ref
  <2>5. Pending' # {} /\ Ref' = r
    BY <1>1, <1>3, <2>2, <2>3, <2>4, SoundSave DEF IsSettled
  <2>6. Placed'
    BY <2>2, <2>3, <2>5 DEF Placed, Launching
  <2>7. pc' \in Labels
    BY <2>3 DEF Labels
  <2> QED BY <1>1, <1>3, <2>2, <2>3, <2>4, <2>6, <2>7, Saving
<1>5. CASE Ref.status # "none"
  <2>1. UNCHANGED <<mem, snap>> /\ (pc' = "gate" \/ (pc' = "when" /\ Ref.status = "pending"))
    BY <1>2, <1>5 DEF Declare, Goto
  <2>2. Pending' = Pending /\ Ref' = Ref
    BY <1>3, <2>1, SoundQuiet
  <2>3. Placed'
    BY <1>1, <1>5, <2>1, <2>2 DEF Placed, Launching
  <2>4. pc' \in Labels /\ ceiling' \in Nat
    BY <1>3, <2>1 DEF Labels, ChildRunsInv, Typed
  <2> QED BY <1>1, <1>3, <2>1, <2>3, <2>4, Moving
<1> QED BY <1>4, <1>5

LEMMA Positions ==
  ASSUME NEW n \in Nat, NEW i \in 1..n
  PROVE  /\ IsFiniteSet(1..n) /\ Cardinality(1..n) = n
         /\ IsFiniteSet((1..n) \ {i}) /\ Cardinality((1..n) \ {i}) = n - 1
<1>1. IsFiniteSet(1..n) /\ Cardinality(1..n) = n
  BY FS_Interval
<1> QED BY <1>1, FS_RemoveElement

\* Every call of a list can have a child of its own: a call that has none finds
\* an identity no other call names.
LEMMA FreshIdentity ==
  ASSUME ChildRunsAssumption, ChildRunsInv, Pending # {}, mem.items # <<>>, Ref.id = 0
  PROVE  Identity \in Ids /\ \A k \in Keys : mem.refs[k].id # Identity
<1> DEFINE used == {mem.refs[k].id : k \in Keys}
           calls == Calls(mem.items)
<1>1. Key \in Keys /\ mem \in Snapshots /\ Sound(mem) /\ Turn(mem) = Key /\ Waiting(mem) # {}
  BY Before DEF ChildRunsInv
<1>2. mem.items \in Lists
  BY <1>1 DEF Snapshots
<1>3. calls \in Seq(Keys) /\ Len(calls) <= MaxIds /\ MaxIds \in Nat
  BY <1>2, CallsAreKeys DEF ChildRunsAssumption
<1>4. PICK n \in DOMAIN calls : calls[n] = Key
  BY <1>1, TurnIsOpen
<1>5. DOMAIN calls = 1..Len(calls) /\ Len(calls) \in Nat /\ n \in 1..Len(calls)
  BY <1>3
<1> DEFINE others == (1..Len(calls)) \ {n}
           named == {mem.refs[calls[i]].id : i \in others}
<1>6. ASSUME NEW x \in Ids, x \in used PROVE x \in named
  <2>1. PICK k \in Keys : x = mem.refs[k].id
    BY <1>6
  <2>2. x # 0
    BY DEF Ids
  <2>3. mem.refs[k] # NoRef
    BY <2>1, <2>2 DEF NoRef
  <2>4. PICK i \in DOMAIN calls : calls[i] = k
    BY <1>1, <2>3 DEF Sound, Tables
  <2>5. k # Key
    BY <2>1, <2>2 DEF Ref
  <2> QED BY <1>4, <1>5, <2>1, <2>4, <2>5
<1>8. IsFiniteSet(others) /\ Cardinality(others) = Len(calls) - 1
  BY <1>5, Positions
<1>9. IsFiniteSet(named) /\ Cardinality(named) <= Cardinality(others)
  <2> DEFINE id(i) == mem.refs[calls[i]].id
  <2> HIDE DEF others
  <2>1. ASSUME NEW T, T = {id(i) : i \in others} PROVE IsFiniteSet(T) /\ Cardinality(T) <= Cardinality(others)
    <3> DEFINE f == [i \in others |-> id(i)]
    <3>1. f \in Surjection(others, T)
      BY <2>1 DEF Surjection
    <3> HIDE DEF f
    <3> QED BY <1>8, <3>1, FS_Surjection
  <2> QED BY <2>1
<1>10. IsFiniteSet(Ids) /\ Cardinality(Ids) = MaxIds
  <2>1. MaxIds \in Nat /\ (MaxIds # 0 => 1 \in 1..MaxIds)
    BY <1>3
  <2>2. MaxIds # 0
    BY <1>3, <1>5
  <2> QED BY <2>1, <2>2, Positions DEF Ids
<1> HIDE DEF named, others
<1>11. ~(Ids \subseteq named)
  <2> SUFFICES ASSUME Ids \subseteq named PROVE FALSE
    OBVIOUS
  <2>1. Cardinality(Ids) <= Cardinality(named)
    BY <1>9, FS_Subset
  <2>2. Cardinality(named) \in Nat
    BY <1>9, FS_CardinalityType
  <2> QED BY <1>3, <1>5, <1>8, <1>9, <1>10, <2>1, <2>2
<1>12. Ids \ used # {}
  BY <1>6, <1>11
<1> HIDE DEF used
<1>13. Ids \ used \in SUBSET Nat
  BY DEF Ids
<1>14. Min(Ids \ used) \in Ids \ used
  BY <1>12, <1>13, LeastOf
<1>15. Identity = Min(Ids \ used)
  BY DEF Identity, used
<1> QED BY <1>14, <1>15 DEF used

LEMMA BindKeeps ==
  ASSUME ChildRunsAssumption, ChildRunsInv, Bind
  PROVE  ChildRunsInv'
<1>1. /\ pc = "bind" /\ Pending # {} /\ Ref.status # "none" /\ mem.items # <<>>
      /\ ~GateShut /\ ceiling <= (max - cumulative) + Ref.acc
  BY Clean DEF Bind, ChildRunsInv, Placed, Launching
<1>2. /\ Key \in Keys /\ ~IsSettled(Ref) /\ Ref \in RefTypes
      /\ mem \in Snapshots /\ Turn(mem) = Key /\ Named(mem, Key) = Ref.id
      /\ Ref.call = Item(mem.items, Key) /\ Ref.id \in Ids \cup {0} /\ 0 \notin Ids
  BY <1>1, Before
<1>3. UNCHANGED <<started, kids, real, births, ran, cumulative, max, gen, approved, ceiling>>
  BY DEF Bind, history
<1>4. Identity \in Ids /\ (Ref.id # 0 => Identity = Ref.id)
      /\ (Ref.id = 0 => \A k \in Keys : mem.refs[k].id # Identity)
  <2>1. CASE Ref.id # 0
    BY <1>2, <2>1 DEF Identity
  <2>2. CASE Ref.id = 0
    BY <1>1, <2>2, FreshIdentity
  <2> QED BY <2>1, <2>2
<1>5. PICK r : r = [status |-> "running", call |-> Ref.call, id |-> Identity, acc |-> Ref.acc]
  OBVIOUS
<1>6. r.status = "running" /\ r.call = Ref.call /\ r.id = Identity /\ r.acc = Ref.acc /\ r \in RefTypes
  BY <1>2, <1>4, <1>5 DEF RefTypes
<1>7. Save(With(mem, r))
  <2> DEFINE Running(q, i) == [status |-> "running", call |-> q.call, id |-> i, acc |-> q.acc]
  <2>3. \A q \in RefTypes, i \in Ids : [[q EXCEPT !.id = i] EXCEPT !.status = "running"] = Running(q, i)
    <3> TAKE q \in RefTypes, i \in Ids
    <3>1. [q EXCEPT !.id = i] = [status |-> q.status, call |-> q.call, id |-> i, acc |-> q.acc]
      BY DEF RefTypes
    <3>2. [[status |-> q.status, call |-> q.call, id |-> i, acc |-> q.acc] EXCEPT !.status = "running"] = Running(q, i)
      OBVIOUS
    <3> QED BY <3>1, <3>2
  <2>1. [[mem.refs[Key] EXCEPT !.id = Identity] EXCEPT !.status = "running"] = r
    BY <1>2, <1>4, <1>5, <2>3 DEF Ref
  <2>2. [mem EXCEPT !.refs[Key].id = Identity, !.refs[Key].status = "running"] = With(mem, r)
    BY <1>2, <2>1 DEF With, Snapshots, Ref
  <2> QED BY <2>2 DEF Bind
<1>8. Becomes(mem, r)
  BY <1>2, <1>4, <1>6 DEF Becomes, IsSettled, Ref, Named
<1>9. Pending' # {} /\ Ref' = r /\ mem'.unknown = mem.unknown
  BY <1>1, <1>3, <1>6, <1>7, <1>8, SoundSave DEF IsSettled
<1>10. \/ pc' = "create" /\ ~Used(Identity)
       \/ pc' = "boot" /\ kids[Identity].state = "live"
       \/ pc' = "launchfailed"
  BY DEF Bind, Goto
<1>11. Ref'.id = Identity /\ Ref'.status = "running" /\ Ref'.acc = Ref.acc /\ Ref'.id # 0
  BY <1>2, <1>4, <1>6, <1>9
<1>12. (~GateShut)' /\ ceiling' <= (max' - cumulative') + Ref'.acc
  BY <1>1, <1>3, <1>9, <1>11 DEF GateShut
<1>13. Placed'
  <2>1. CASE pc' = "create" /\ ~Used(Identity)
    <3>1. ~Used(Ref.id)'
      BY <1>3, <1>11, <2>1 DEF Used
    <3> QED BY <1>9, <1>11, <1>12, <2>1, <3>1 DEF Placed, Launching
  <2>2. CASE pc' = "boot" /\ kids[Identity].state = "live"
    <3>1. Kid'.state = "live"
      BY <1>3, <1>11, <2>2 DEF Kid
    <3> QED BY <1>9, <1>11, <1>12, <2>2, <3>1 DEF Placed, Launching
  <2>3. CASE pc' = "launchfailed"
    BY <1>9, <1>11, <2>3 DEF Placed, Launching
  <2> QED BY <1>10, <2>1, <2>2, <2>3
<1>14. pc' \in Labels
  BY <1>10 DEF Labels
<1> QED BY <1>1, <1>3, <1>6, <1>7, <1>8, <1>13, <1>14, Saving

LEMMA OpenKeeps ==
  ASSUME ChildRunsAssumption, ChildRunsInv, Open
  PROVE  ChildRunsInv'
<1>1. pc = "open" /\ pc' = "call" /\ mem = snap /\ mem \in Snapshots /\ Sound(mem) /\ Typed /\ Started
  BY Clean DEF Open, Goto, ChildRunsInv, Typed
<1>2. UNCHANGED <<started, kids, real, births, ran, cumulative, max, gen, approved, ceiling>>
  BY DEF Open, history
<1>p. Placed'
  BY <1>1, PlacedIdle
<1>l. pc' \in Labels /\ ceiling' \in Nat
  BY <1>1, <1>2 DEF Labels, Typed
<1>3. CASE mem.items # <<>>
  BY <1>1, <1>2, <1>3, <1>p, <1>l, Moving DEF Open
<1>4. CASE mem.items = <<>>
  <2>1. PICK l \in Lists : Save([mem EXCEPT !.items = l])
    BY <1>4 DEF Open
  <2>2. l # <<>>
    <3>1. Len(l) \in 1..2
      BY DEF ChildRunsAssumption
    <3>2. Len(<<>>) = 0
      OBVIOUS
    <3> QED BY <3>1, <3>2
  <2>3. PICK n : n = [mem EXCEPT !.items = l]
    OBVIOUS
  <2>4. /\ n \in Snapshots /\ n.items = l /\ n.refs = mem.refs /\ n.node = mem.node /\ n.unknown = mem.unknown
        /\ mem' = n /\ snap' = n
    BY <1>1, <2>1, <2>3 DEF Snapshots, Save
  <2>5. \A k \in Keys : n.refs[k] = NoRef /\ mem.refs[k] = NoRef
    BY <1>1, <1>4, <2>4 DEF Sound, Tables
  <2>6. \A k \in Keys : Named(n, k) = 0 /\ Named(mem, k) = 0
    BY <2>5 DEF Named, NoRef
  <2>7. ~Owing(n) /\ ~Owing(mem)
    BY <1>1, <2>4, <2>6, TurnIsOpen DEF Owing
  <2>8. Tables(n)
    BY <2>2, <2>4, <2>5, <2>6 DEF Tables, NoRef
  <2>9. Children(n)
    BY <1>1, <2>4, <2>6 DEF Sound, Children
  <2>10. Spend(n)
    BY <1>1, <2>4, <2>7 DEF Sound, Spend, Owed
  <2>11. Sound(n)'
    BY <1>1, <1>2, <2>4, <2>8, <2>9, <2>10, SoundStays DEF Sound
  <2>12. Sound(mem)' /\ Sound(snap)'
    BY <2>4, <2>11, SoundSame
  <2>13. Typed'
    BY <1>1, <1>2, <1>l, <2>4 DEF Typed
  <2>14. Memory'
    BY <1>1, <1>2, <2>2, <2>4 DEF ChildRunsInv, Memory
  <2>15. Started'
    BY <1>1, <1>2 DEF Started
  <2> QED BY <1>p, <2>12, <2>13, <2>14, <2>15 DEF ChildRunsInv
<1> QED BY <1>3, <1>4

\* A step that changes child directories, not what they cost.
LEMMA Housing ==
  ASSUME ChildRunsAssumption, ChildRunsInv,
         UNCHANGED <<mem, snap, started, real, ran, cumulative, max, gen, approved, ceiling>>,
         kids' \in [Ids -> KidTypes], births' \in [Ids -> Nat], pc' \in Labels,
         \A i \in Ids : kids'[i].spent = kids[i].spent /\ kids'[i].unpriced = kids[i].unpriced,
         \A i \in Ids : kids[i].state # "none" => kids'[i].state # "none",
         \A i \in Ids : kids'[i].state # "none" =>
             kids[i].state # "none" \/ ((\E k \in Keys : Named(mem, k) = i) /\ (\E k \in Keys : Named(snap, k) = i)),
         \A i \in started : births'[i] = births[i],
         mem = snap \/ pc' \in {"settle", "finished", "dead"},
         pc' \in {"open", "dead"} \/ (mem.items # <<>> /\ snap.items # <<>>),
         Placed'
  PROVE  ChildRunsInv'
<1>1. PICK m, s : m = mem /\ s = snap
  OBVIOUS
<1>2. m \in Snapshots /\ s \in Snapshots /\ Sound(m) /\ Sound(s) /\ Typed /\ mem' = m /\ snap' = s
  BY <1>1 DEF ChildRunsInv, Typed
<1>3. /\ \A i \in Ids : kids'[i].state # "none" => kids[i].state # "none" \/ \E k \in Keys : Named(m, k) = i
      /\ \A i \in Ids : kids'[i].state # "none" => kids[i].state # "none" \/ \E k \in Keys : Named(s, k) = i
  BY <1>1
<1>4. Sound(m)' /\ Sound(s)'
  BY <1>2, <1>3, SoundStays
<1>5. Sound(mem)' /\ Sound(snap)'
  BY <1>2, <1>4, SoundSame
<1>6. Typed'
  BY DEF ChildRunsInv, Typed
<1>7. Memory'
  BY DEF ChildRunsInv, Memory
<1>8. Started'
  BY DEF ChildRunsInv, Started
<1> QED BY <1>5, <1>6, <1>7, <1>8 DEF ChildRunsInv

LEMMA CreateKeeps ==
  ASSUME ChildRunsAssumption, ChildRunsInv, Create
  PROVE  ChildRunsInv'
<1>1. /\ pc = "create" /\ pc' = "boot" /\ Pending # {} /\ Ref.id # 0 /\ mem = snap /\ mem.items # <<>>
      /\ Ref.status = "running" /\ ~Used(Ref.id) /\ ~GateShut /\ ceiling <= (max - cumulative) + Ref.acc
  BY Clean DEF Create, Goto, ChildRunsInv, Placed, Launching
<1>2. Ref.id \in Ids /\ Named(mem, Key) = Ref.id /\ Key \in Keys
  BY <1>1, Before
<1>3. UNCHANGED <<mem, snap, started, real, ran, cumulative, max, gen, approved, ceiling>>
  BY DEF Create
<1>4. Ref.id \notin started /\ kids[Ref.id].spent = 0 /\ kids[Ref.id].unpriced = FALSE
  BY <1>1, <1>2 DEF Used, ChildRunsInv, Started
<1>k. kids \in [Ids -> KidTypes] /\ births \in [Ids -> Nat]
  BY DEF ChildRunsInv, Typed
<1>5. PICK new : new = [NoKid EXCEPT !.state = "live", !.status = "RUNNING"]
  OBVIOUS
<1>6. new \in KidTypes /\ new.state = "live" /\ new.spent = 0 /\ new.unpriced = FALSE
  BY <1>5 DEF NoKid, KidTypes
<1>7. kids' = [kids EXCEPT ![Ref.id] = new]
  BY <1>5 DEF Create
<1>8. kids' \in [Ids -> KidTypes] /\ kids'[Ref.id] = new /\ \A i \in Ids \ {Ref.id} : kids'[i] = kids[i]
  BY <1>2, <1>6, <1>7, <1>k
<1>9. births' \in [Ids -> Nat] /\ \A i \in started : births'[i] = births[i]
  <2>1. births' = [births EXCEPT ![Ref.id] = @ + 1]
    BY DEF Create
  <2>2. started \subseteq Ids
    BY DEF ChildRunsInv, Typed
  <2> QED BY <1>2, <1>4, <1>k, <2>1, <2>2
<1>10. \A i \in Ids : kids'[i].spent = kids[i].spent /\ kids'[i].unpriced = kids[i].unpriced
  BY <1>4, <1>6, <1>8
<1>11. \A i \in Ids : kids[i].state # "none" => kids'[i].state # "none"
  BY <1>6, <1>8
<1>12. \A i \in Ids : kids'[i].state # "none" =>
          kids[i].state # "none" \/ ((\E k \in Keys : Named(mem, k) = i) /\ (\E k \in Keys : Named(snap, k) = i))
  BY <1>1, <1>2, <1>8
<1>13. Pending' = Pending /\ Key' = Key /\ Ref' = Ref
  BY <1>3, PendingIsWaiting DEF Ref
<1>14. Kid'.state = "live"
  BY <1>6, <1>8, <1>13 DEF Kid
<1>15. (~GateShut)'
  BY <1>1, <1>3 DEF GateShut
<1>16. Placed'
  BY <1>1, <1>3, <1>13, <1>14, <1>15 DEF Placed, Launching
<1>17. pc' \in Labels
  BY <1>1 DEF Labels
<1> QED BY <1>1, <1>3, <1>8, <1>9, <1>10, <1>11, <1>12, <1>16, <1>17, Housing

LEMMA ChildEndsKeeps ==
  ASSUME ChildRunsAssumption, ChildRunsInv, ChildEnds
  PROVE  ChildRunsInv'
<1>1. /\ pc = "child" /\ pc' = "charge" /\ Pending # {} /\ Ref.id # 0 /\ mem = snap /\ mem.items # <<>>
      /\ Ref.status = "running" /\ Ref.id \in started /\ Kid.state = "live"
  BY Clean DEF ChildEnds, Goto, ChildRunsInv, Placed, Launching
<1>2. Ref.id \in Ids
  BY <1>1, Before
<1>3. UNCHANGED <<mem, snap, started, real, ran, births, cumulative, max, gen, approved, ceiling>>
  BY DEF ChildEnds, history
<1>k. kids \in [Ids -> KidTypes] /\ births \in [Ids -> Nat]
  BY DEF ChildRunsInv, Typed
<1>4. PICK s \in {"PASS", "FAIL", "STOPPED"} : kids' = [kids EXCEPT ![Ref.id].status = s]
  BY DEF ChildEnds
<1>5. kids' \in [Ids -> KidTypes] /\ \A i \in Ids : /\ kids'[i].state = kids[i].state /\ kids'[i].spent = kids[i].spent
                                                     /\ kids'[i].unpriced = kids[i].unpriced
  BY <1>2, <1>4, <1>k DEF KidTypes
<1>6. Pending' = Pending /\ Key' = Key /\ Ref' = Ref
  BY <1>3, PendingIsWaiting DEF Ref
<1>7. Kid'.state = "live"
  BY <1>1, <1>2, <1>5, <1>6 DEF Kid
<1>8. Placed'
  BY <1>1, <1>3, <1>6, <1>7 DEF Placed, Launching
<1>9. pc' \in Labels
  BY <1>1 DEF Labels
<1> QED BY <1>1, <1>3, <1>5, <1>8, <1>9, <1>k, Housing

LEMMA LoseKeeps ==
  ASSUME ChildRunsAssumption, ChildRunsInv, NEW i \in Ids, Lose(i)
  PROVE  ChildRunsInv'
<1>1. UNCHANGED <<mem, snap, started, real, ran, births, cumulative, max, gen, approved, ceiling>> /\ pc' = "dead"
  BY DEF Lose, history
<1>k. kids \in [Ids -> KidTypes] /\ births \in [Ids -> Nat]
  BY DEF ChildRunsInv, Typed
<1>2. PICK s \in {"lost", "damaged"} : kids' = [kids EXCEPT ![i].state = s]
  BY DEF Lose
<1>3. kids[i].state = "live"
  BY DEF Lose
<1>4. kids' \in [Ids -> KidTypes] /\ \A j \in Ids : /\ kids'[j].spent = kids[j].spent /\ kids'[j].unpriced = kids[j].unpriced
                                                     /\ (kids'[j].state # "none" <=> kids[j].state # "none")
  <2>1. kids' \in [Ids -> KidTypes] /\ \A j \in Ids \ {i} : kids'[j] = kids[j]
    BY <1>2, <1>k DEF KidTypes
  <2>2. kids'[i].spent = kids[i].spent /\ kids'[i].unpriced = kids[i].unpriced /\ kids'[i].state = s
    BY <1>2, <1>k DEF KidTypes
  <2> QED BY <1>3, <2>1, <2>2
<1>5. Placed' /\ pc' \in Labels
  BY <1>1, PlacedIdle DEF Labels, Ended
<1>6. births' \in [Ids -> Nat] /\ \A j \in started : births'[j] = births[j]
  BY <1>1, <1>k
<1> QED BY <1>1, <1>4, <1>5, <1>6, Housing

LEMMA ResumeKeeps ==
  ASSUME ChildRunsAssumption, ChildRunsInv, Resume
  PROVE  ChildRunsInv'
<1>1. /\ mem' = snap /\ pc' = "open" /\ cumulative' = snap.node /\ gen' = gen + 1
      /\ UNCHANGED <<snap, started, kids, ceiling, real, births, ran>>
      /\ max' \in {Raised, max} /\ approved' \in BOOLEAN
  <2>1. PICK raise \in BOOLEAN : max' = (IF raise THEN Raised ELSE max) /\ approved' = (approved \/ raise)
    BY DEF Resume
  <2>2. max' \in {Raised, max}
    BY <2>1
  <2>3. approved' \in BOOLEAN
    BY <2>1, Zenon DEF ChildRunsInv, Typed
  <2> QED BY <2>2, <2>3 DEF Resume, Goto, history
<1>2. PICK s : s = snap
  OBVIOUS
<1>3. s \in Snapshots /\ Sound(s) /\ Typed /\ mem' = s /\ snap' = s
  BY <1>1, <1>2 DEF ChildRunsInv, Typed
<1>4. Sound(s)'
  BY <1>1, <1>3, SoundStays
<1>5. Sound(mem)' /\ Sound(snap)'
  BY <1>3, <1>4, SoundSame
<1>6. Typed'
  <2>1. snap.node \in Nat
    BY <1>2, <1>3 DEF Snapshots
  <2> QED BY <1>1, <1>3, <2>1 DEF Typed, Labels
<1>7. Memory'
  BY <1>1 DEF Memory
<1>8. Started' /\ Placed'
  BY <1>1, PlacedIdle DEF ChildRunsInv, Started
<1> QED BY <1>5, <1>6, <1>7, <1>8 DEF ChildRunsInv

LEMMA BootKeeps ==
  ASSUME ChildRunsAssumption, ChildRunsInv, Boot
  PROVE  ChildRunsInv'
<1>1. /\ pc = "boot" /\ pc' \in {"charge", "child"} /\ Pending # {} /\ Ref.id # 0 /\ mem = snap /\ mem.items # <<>>
      /\ Ref.status = "running" /\ ~GateShut /\ ceiling <= (max - cumulative) + Ref.acc /\ Kid.state = "live"
  BY Clean DEF Boot, Goto, ChildRunsInv, Placed, Launching
<1>2. /\ Ref.id \in Ids /\ Named(mem, Key) = Ref.id /\ Key \in Keys
      /\ mem \in Snapshots /\ Sound(mem) /\ Typed /\ Started
  BY <1>1, Before DEF ChildRunsInv
<1>3. UNCHANGED <<mem, snap, kids, real, births, cumulative, max, gen, approved, ceiling>>
  BY DEF Boot
<1>4. started' = started \cup {Ref.id}
  BY DEF Boot
<1>r. ran' = [ran EXCEPT ![Key] = IF Kid.status = "PASS" THEN @ ELSE @ \cup {<<Ref.id, births[Ref.id]>>}]
  BY DEF Boot
<1>5. /\ ran' \in [Keys -> SUBSET (Ids \X Nat)]
      /\ \A k \in Keys \ {Key} : ran'[k] = ran[k]
      /\ ran'[Key] = ran[Key] \/ ran'[Key] = ran[Key] \cup {<<Ref.id, births[Ref.id]>>}
  <2>1. <<Ref.id, births[Ref.id]>> \in Ids \X Nat
    BY <1>2 DEF Typed
  <2> QED BY <1>2, <1>r, <2>1 DEF Typed
<1>6. ran'[Key] = {} \/ ran'[Key] = {<<Ref.id, births[Ref.id]>>}
  <2>1. ran[Key] = {} \/ ran[Key] = {<<Ref.id, births[Ref.id]>>}
    BY <1>2 DEF Sound, Children
  <2> QED BY <1>5, <2>1
<1>7. Tables(mem)'
  BY <1>2, <1>3 DEF Sound
<1>8. Children(mem)'
  <2>1. ASSUME NEW i \in Ids, kids[i].state # "none" \/ i \in started'
        PROVE  \E k \in Keys : Named(mem, k) = i
    BY <1>2, <1>4, <2>1 DEF Sound, Children
  <2>2. ASSUME NEW k \in Keys, ran'[k] # {}
        PROVE  Named(mem, k) \in started' /\ ran'[k] = {<<Named(mem, k), births[Named(mem, k)]>>}
    <3>1. CASE k = Key
      BY <1>2, <1>4, <1>6, <2>2, <3>1
    <3>2. CASE k # Key
      BY <1>2, <1>4, <1>5, <2>2, <3>2 DEF Sound, Children
    <3> QED BY <3>1, <3>2
  <2>3. \A k \in Keys : Named(mem, k) # 0 => mem.refs[k].acc <= kids[Named(mem, k)].spent
    BY <1>2 DEF Sound, Children
  <2>4. \A k \in Keys : mem.refs[k].status = "done" => mem.refs[k].acc = kids[Named(mem, k)].spent
    BY <1>2 DEF Sound, Children
  <2>5. \A k \in Keys : Named(mem, k)' = Named(mem, k)
    BY <1>3 DEF Named
  <2> QED BY <1>3, <2>1, <2>2, <2>3, <2>4, <2>5 DEF Children
<1>9. Spend(mem)'
  BY <1>2, <1>3 DEF Sound, Spend, Owed, Owing, Named
<1>10. Sound(mem)' /\ snap' = mem'
  BY <1>1, <1>3, <1>7, <1>8, <1>9 DEF Sound
<1>11. Sound(snap)'
  <2>1. PICK n : n = mem'
    OBVIOUS
  <2>2. Sound(n)'
    BY <1>10, <2>1 DEF Sound, Children, Spend, Owed, Owing, Named
  <2> QED BY <1>10, <2>1, <2>2, SoundSame
<1>12. Typed'
  <2>1. pc' \in Labels /\ started' \subseteq Ids
    BY <1>1, <1>2, <1>4 DEF Labels, Typed
  <2> QED BY <1>2, <1>3, <1>5, <2>1 DEF Typed
<1>13. Started'
  BY <1>1, <1>2, <1>3, <1>4 DEF Started, Kid
<1>14. Memory'
  BY <1>1, <1>3 DEF ChildRunsInv, Memory
<1>15. Pending' = Pending /\ Key' = Key /\ Ref' = Ref /\ Kid' = Kid
  BY <1>3, PendingIsWaiting DEF Ref, Kid
<1>16. (~GateShut)' /\ Ref.id \in started'
  BY <1>1, <1>3, <1>4 DEF GateShut
<1>17. Placed'
  BY <1>1, <1>3, <1>15, <1>16 DEF Placed, Launching
<1> QED BY <1>10, <1>11, <1>12, <1>13, <1>14, <1>17 DEF ChildRunsInv

LEMMA AttemptKeeps ==
  ASSUME ChildRunsAssumption, ChildRunsInv, Attempt
  PROVE  ChildRunsInv'
<1>1. /\ pc = "child" /\ pc' = "child" /\ Pending # {} /\ Ref.id # 0 /\ mem = snap /\ mem.items # <<>>
      /\ Ref.status = "running" /\ ~GateShut /\ ceiling <= (max - cumulative) + Ref.acc /\ Kid.state = "live"
      /\ Ref.id \in started
  BY Clean DEF Attempt, ChildRunsInv, Placed, Launching
<1>2. /\ Ref.id \in Ids /\ Named(mem, Key) = Ref.id /\ Key \in Keys /\ Turn(mem) = Key /\ Waiting(mem) # {}
      /\ mem \in Snapshots /\ Sound(mem) /\ Typed /\ Started /\ Ref.acc \in Nat
  BY <1>1, Before DEF ChildRunsInv
<1>3. UNCHANGED <<mem, snap, started, ran, births, cumulative, max, gen, approved, ceiling>>
  BY DEF Attempt
<1>4. PICK c \in Prices : /\ kids' = [kids EXCEPT ![Ref.id].spent = @ + c, ![Ref.id].unpriced = @ \/ c = 0]
                          /\ real' = real + c
  BY DEF Attempt
<1>c. c \in Nat
  BY DEF ChildRunsAssumption
<1>k. kids \in [Ids -> KidTypes]
  BY <1>2 DEF Typed
<1>5. PICK u : u = (kids[Ref.id].unpriced \/ c = 0)
  OBVIOUS
<1>u. u \in BOOLEAN
  BY <1>5, Zenon
<1>6. /\ kids' \in [Ids -> KidTypes] /\ kids'[Ref.id].spent = kids[Ref.id].spent + c
      /\ kids'[Ref.id].state = kids[Ref.id].state /\ \A i \in Ids \ {Ref.id} : kids'[i] = kids[i]
  <2>1. PICK q : q = kids[Ref.id]
    OBVIOUS
  <2>2. q \in KidTypes
    BY <1>2, <1>k, <2>1
  <2>3. kids' = [kids EXCEPT ![Ref.id] = [[q EXCEPT !.spent = q.spent + c] EXCEPT !.unpriced = u]]
    BY <1>2, <1>4, <1>5, <1>k, <2>1
  <2>4. PICK new : new = [[q EXCEPT !.spent = q.spent + c] EXCEPT !.unpriced = u]
    OBVIOUS
  <2>5. new \in KidTypes /\ new.spent = q.spent + c /\ new.state = q.state
    <3>1. [q EXCEPT !.spent = q.spent + c]
            = [state |-> q.state, status |-> q.status, spent |-> q.spent + c, unpriced |-> q.unpriced]
      BY <2>2 DEF KidTypes
    <3>2. new = [state |-> q.state, status |-> q.status, spent |-> q.spent + c, unpriced |-> u]
      BY <2>4, <3>1
    <3> QED BY <1>c, <1>u, <2>2, <3>2 DEF KidTypes
  <2>6. kids'[Ref.id] = new /\ kids' \in [Ids -> KidTypes] /\ \A i \in Ids \ {Ref.id} : kids'[i] = kids[i]
    BY <1>2, <1>k, <2>3, <2>4, <2>5
  <2> QED BY <2>1, <2>5, <2>6
<1>7. /\ \A i \in Ids : kids'[i].state = kids[i].state /\ kids[i].spent <= kids'[i].spent
      /\ \A i \in Ids : kids[i].spent \in Nat /\ kids'[i].spent \in Nat
  <2>1. \A i \in Ids : kids[i].spent \in Nat /\ kids'[i].spent \in Nat
    BY <1>6, <1>k DEF KidTypes
  <2> QED BY <1>c, <1>6, <2>1
<1>t. \A k \in Keys : Named(mem, k) \in Ids \cup {0} /\ mem.refs[k].acc \in Nat
  BY <1>2 DEF Snapshots, RefTypes, Named
<1>8. Tables(mem)'
  BY <1>2, <1>3 DEF Sound
<1>9. Children(mem)'
  <2>1. ASSUME NEW i \in Ids, kids'[i].state # "none" \/ i \in started'
        PROVE  \E k \in Keys : Named(mem, k) = i
    BY <1>2, <1>3, <1>7, <2>1 DEF Sound, Children
  <2>2. ASSUME NEW k \in Keys, Named(mem, k) # 0 PROVE mem.refs[k].acc <= kids'[Named(mem, k)].spent
    <3>1. mem.refs[k].acc <= kids[Named(mem, k)].spent
      BY <1>2, <2>2 DEF Sound, Children
    <3> QED BY <1>7, <1>t, <2>2, <3>1
  <2>3. ASSUME NEW k \in Keys, mem.refs[k].status = "done" PROVE mem.refs[k].acc = kids'[Named(mem, k)].spent
    <3>1. mem.refs[k].acc = kids[Named(mem, k)].spent /\ Named(mem, k) # 0 /\ k # Key
      BY <1>1, <1>2, <2>3 DEF Sound, Children, Tables, Ref
    <3>2. Named(mem, k) # Ref.id
      BY <1>2, <3>1 DEF Sound, Tables
    <3> QED BY <1>6, <1>t, <3>1, <3>2
  <2>4. ASSUME NEW k \in Keys, ran'[k] # {}
        PROVE  Named(mem, k) \in started' /\ ran'[k] = {<<Named(mem, k), births'[Named(mem, k)]>>}
    BY <1>2, <1>3, <2>4 DEF Sound, Children
  <2>5. \A k \in Keys : Named(mem, k)' = Named(mem, k)
    BY <1>3 DEF Named
  <2> QED BY <1>3, <2>1, <2>2, <2>3, <2>4, <2>5 DEF Children
<1>10. Spend(mem)'
  <2>1. Owing(mem) /\ Named(mem, Turn(mem)) = Ref.id /\ mem.refs[Turn(mem)] = Ref
    BY <1>1, <1>2 DEF Owing, Ref
  <2>2. Waiting(mem') = Waiting(mem) /\ Turn(mem') = Turn(mem)
    BY <1>3
  <2>3. Owing(mem)' /\ Named(mem, Turn(mem))' = Ref.id
    BY <1>3, <2>1 DEF Owing, Named
  <2>4. Owed(mem) = kids[Ref.id].spent - Ref.acc
    BY <2>1 DEF Owed
  <2>5. Owed(mem)' = kids'[Ref.id].spent - Ref.acc
    BY <1>3, <2>1, <2>3 DEF Owed
  <2>6. real = mem.node + Owed(mem)
    BY <1>2 DEF Sound, Spend
  <2>7. real' = mem'.node + Owed(mem)'
    <3>1. mem.node \in Nat /\ real \in Nat
      BY <1>2 DEF Snapshots, Typed
    <3>2. kids[Ref.id].spent \in Nat
      BY <1>2, <1>7
    <3> QED BY <1>2, <1>3, <1>4, <1>6, <1>c, <2>4, <2>5, <2>6, <3>1, <3>2
  <2>8. ASSUME NEW i \in Ids, kids'[i].unpriced
        PROVE  mem'.unknown \/ (Owing(mem)' /\ i = Named(mem, Turn(mem))')
    <3>1. CASE i = Ref.id
      BY <2>3, <3>1
    <3>2. CASE i # Ref.id
      <4>1. kids[i].unpriced
        BY <1>6, <2>8, <3>2
      <4> QED BY <1>2, <1>3, <2>1, <3>2, <4>1 DEF Sound, Spend
    <3> QED BY <3>1, <3>2
  <2> QED BY <2>7, <2>8 DEF Spend
<1>11. Sound(mem)' /\ snap' = mem'
  BY <1>1, <1>3, <1>8, <1>9, <1>10 DEF Sound
<1>12. Sound(snap)'
  <2>1. PICK n : n = mem'
    OBVIOUS
  <2>2. Sound(n)'
    BY <1>11, <2>1 DEF Sound, Children, Spend, Owed, Owing, Named
  <2> QED BY <1>11, <2>1, <2>2, SoundSame
<1>13. Typed'
  <2>1. real' \in Nat
    BY <1>2, <1>4, <1>c DEF Typed
  <2>2. pc' \in Labels
    BY <1>1 DEF Labels
  <2> QED BY <1>2, <1>3, <1>6, <2>1, <2>2 DEF Typed
<1>14. Started'
  BY <1>1, <1>2, <1>3, <1>6 DEF Started, Kid
<1>15. Memory'
  BY <1>1, <1>3 DEF ChildRunsInv, Memory
<1>16. Pending' = Pending /\ Key' = Key /\ Ref' = Ref /\ Kid'.state = "live"
  <2>1. Pending' = Pending /\ Key' = Key /\ Ref' = Ref
    BY <1>3, PendingIsWaiting DEF Ref
  <2> QED BY <1>1, <1>6, <2>1 DEF Kid
<1>17. (~GateShut)'
  BY <1>1, <1>3 DEF GateShut
<1>18. Placed'
  BY <1>1, <1>3, <1>16, <1>17 DEF Placed, Launching
<1> QED BY <1>11, <1>12, <1>13, <1>14, <1>15, <1>18 DEF ChildRunsInv

LEMMA ChargeKeeps ==
  ASSUME ChildRunsAssumption, ChildRunsInv, Charge
  PROVE  ChildRunsInv'
<1>1. /\ pc = "charge" /\ pc' = "settle" /\ Pending # {} /\ Ref.id # 0 /\ mem = snap /\ mem.items # <<>>
      /\ Ref.status = "running" /\ Kid.state = "live" /\ Ref.id \in started
  BY Clean DEF Charge, Goto, ChildRunsInv, Placed, Launching
<1>2. /\ Ref.id \in Ids /\ Named(mem, Key) = Ref.id /\ Key \in Keys /\ Turn(mem) = Key /\ Waiting(mem) # {}
      /\ mem \in Snapshots /\ Sound(mem) /\ Typed /\ Started /\ Ref.acc \in Nat
      /\ Ref \in RefTypes /\ Ref.call = Item(mem.items, Key) /\ Ref.acc <= Kid.spent /\ Ref = mem.refs[Key]
  BY <1>1, Before DEF ChildRunsInv, Ref
<1>3. UNCHANGED <<snap, started, kids, real, births, ran, max, gen, approved, ceiling>>
  BY DEF Charge
<1>k. Kid.spent \in Nat /\ Kid.unpriced \in BOOLEAN /\ mem.node \in Nat /\ mem.unknown \in BOOLEAN
  BY <1>2 DEF Typed, KidTypes, Kid, Snapshots
<1>4. PICK r : r = [status |-> "running", call |-> Ref.call, id |-> Ref.id, acc |-> Kid.spent]
  OBVIOUS
<1>5. r.status = "running" /\ r.call = Ref.call /\ r.id = Ref.id /\ r.acc = Kid.spent /\ r \in RefTypes
  BY <1>2, <1>4, <1>k DEF RefTypes
<1>6. PICK u : u = (mem.unknown \/ Kid.unpriced)
  OBVIOUS
<1>u. u \in BOOLEAN /\ (Kid.unpriced => u) /\ (mem.unknown => u)
  BY <1>6, <1>k, Zenon
<1>7. /\ mem' \in Snapshots /\ mem'.items = mem.items /\ mem'.unknown = u
      /\ mem'.node = mem.node + (Kid.spent - Ref.acc) /\ cumulative' = cumulative + (Kid.spent - Ref.acc)
      /\ mem'.refs = With(mem, r).refs
  <2>1. Over(Kid.spent, Ref.acc) = Kid.spent - Ref.acc
    BY <1>2, <1>k DEF Over
  <2>2. (IF Kid.spent > Ref.acc THEN Kid.spent ELSE Ref.acc) = Kid.spent
    BY <1>2, <1>k
  <2>3. [Ref EXCEPT !.acc = Kid.spent] = r
    BY <1>1, <1>2, <1>4 DEF RefTypes
  <2>4. mem' = [mem EXCEPT !.refs[Key].acc = Kid.spent, !.node = @ + (Kid.spent - Ref.acc), !.unknown = u]
    <3>1. mem' = [mem EXCEPT !.refs[Key].acc = IF Kid.spent > @ THEN Kid.spent ELSE @,
                             !.node = @ + Over(Kid.spent, Ref.acc), !.unknown = @ \/ Kid.unpriced]
      BY DEF Charge
    <3>2. mem.refs \in [Keys -> RefTypes]
      BY <1>2 DEF Snapshots
    <3> QED BY <1>2, <1>6, <2>1, <2>2, <3>1, <3>2 DEF Snapshots
  <2>5. mem' = [items |-> mem.items, refs |-> [mem.refs EXCEPT ![Key] = r],
                node |-> mem.node + (Kid.spent - Ref.acc), unknown |-> u]
    BY <1>2, <2>3, <2>4 DEF Snapshots
  <2>6. With(mem, r).refs = [mem.refs EXCEPT ![Key] = r]
    BY <1>2 DEF With, Snapshots
  <2>7. mem.node + (Kid.spent - Ref.acc) \in Nat
    BY <1>2, <1>k
  <2>8. cumulative' = cumulative + (Kid.spent - Ref.acc)
    BY <2>1 DEF Charge
  <2> QED BY <1>2, <1>5, <1>u, <2>5, <2>6, <2>7, <2>8 DEF Snapshots
<1>8. PICK o : o = With(mem, r)
  OBVIOUS
<1>9. /\ o \in Snapshots /\ o.items = mem.items /\ Tables(o)
      /\ o.refs[Key] = r /\ \A k \in Keys \ {Key} : o.refs[k] = mem.refs[k]
      /\ Waiting(o) # {} /\ Turn(o) = Key
  <2>1. \A k \in Keys : k # Key /\ r.id # 0 => Named(mem, k) # r.id
    BY <1>1, <1>2, <1>5 DEF Sound, Tables
  <2>2. r.id # 0 /\ Tables(mem) /\ ~IsSettled(r)
    BY <1>1, <1>2, <1>5 DEF Sound, IsSettled
  <2>3. /\ r.status # "none" /\ r.call = Item(mem.items, Turn(mem))
        /\ r.status \in {"pending", "skipped"} => r.id = 0
        /\ r.status = "done" => r.id # 0
        /\ r.id = 0 => r.acc = 0
    BY <1>2, <1>5, <2>2
  <2> QED BY <1>1, <1>2, <1>5, <1>8, <2>1, <2>2, <2>3, PutReference
<1>10. PICK n : n = mem'
  OBVIOUS
<1>11. /\ n \in Snapshots /\ n.items = mem.items /\ n.unknown = u
       /\ n.node = mem.node + (Kid.spent - Ref.acc) /\ n.refs = o.refs
       /\ n.refs[Key] = r /\ \A k \in Keys \ {Key} : n.refs[k] = mem.refs[k]
  BY <1>7, <1>8, <1>9, <1>10
<1>12. Waiting(n) = Waiting(o) /\ Turn(n) = Turn(o)
  BY <1>9, <1>11 DEF Waiting, Turn
<1>13. Tables(n)
  BY <1>9, <1>11, <1>12 DEF Tables, Named
<1>14. \A k \in Keys : Named(n, k) = Named(mem, k)
  BY <1>2, <1>5, <1>11 DEF Named
<1>15. Children(n)
  <2>1. \A i \in Ids : kids[i].state # "none" \/ i \in started => \E k \in Keys : Named(n, k) = i
    BY <1>2, <1>14 DEF Sound, Children
  <2>2. ASSUME NEW k \in Keys, Named(n, k) # 0 PROVE n.refs[k].acc <= kids[Named(n, k)].spent
    <3>1. CASE k = Key
      BY <1>2, <1>5, <1>11, <1>14, <1>k, <3>1 DEF Kid
    <3>2. CASE k # Key
      BY <1>2, <1>11, <1>14, <2>2, <3>2 DEF Sound, Children
    <3> QED BY <3>1, <3>2
  <2>3. ASSUME NEW k \in Keys, n.refs[k].status = "done" PROVE n.refs[k].acc = kids[Named(n, k)].spent
    BY <1>2, <1>5, <1>11, <1>14, <2>3 DEF Sound, Children
  <2>4. \A k \in Keys : ran[k] # {} => Named(n, k) \in started /\ ran[k] = {<<Named(n, k), births[Named(n, k)]>>}
    BY <1>2, <1>14 DEF Sound, Children
  <2> QED BY <2>1, <2>2, <2>3, <2>4 DEF Children
<1>16. Spend(n)
  <2>1. Owing(n) /\ Owing(mem) /\ Turn(n) = Key
    BY <1>1, <1>2, <1>9, <1>12, <1>14 DEF Owing
  <2>2. Owed(n) = 0 /\ Owed(mem) = Kid.spent - Ref.acc
    BY <1>2, <1>5, <1>11, <1>14, <1>k, <2>1 DEF Owed, Kid
  <2>3. real = mem.node + Owed(mem)
    BY <1>2 DEF Sound, Spend
  <2>4. real = n.node + Owed(n)
    BY <1>2, <1>11, <1>k, <2>2, <2>3
  <2>5. ASSUME NEW i \in Ids, kids[i].unpriced PROVE n.unknown
    <3>1. mem.unknown \/ i = Ref.id
      BY <1>2, <2>5 DEF Sound, Spend
    <3> QED BY <1>11, <1>u, <2>5, <3>1 DEF Kid
  <2> QED BY <2>4, <2>5 DEF Spend
<1>17. Sound(n)'
  BY <1>2, <1>3, <1>11, <1>13, <1>15, <1>16, SoundStays DEF Sound
<1>18. Sound(mem)'
  BY <1>10, <1>17, SoundSame
<1>19. Sound(snap)'
  <2>1. PICK s : s = mem
    OBVIOUS
  <2>2. Sound(s)'
    BY <1>2, <1>3, <2>1, SoundStays
  <2> QED BY <1>1, <1>3, <2>1, <2>2, SoundSame
<1>20. Typed'
  <2>1. cumulative' \in Nat
    BY <1>2, <1>7, <1>k DEF Typed
  <2>2. pc' \in Labels
    BY <1>1 DEF Labels
  <2> QED BY <1>2, <1>3, <1>7, <2>1, <2>2 DEF Typed
<1>21. Started'
  BY <1>2, <1>3 DEF Started
<1>22. Memory'
  <2>1. \A k \in Keys : IsSettled(snap.refs[k]) => k # Key
    BY <1>1, <1>2 DEF IsSettled
  <2>2. cumulative' = mem'.node
    BY <1>2, <1>7, <1>k DEF ChildRunsInv, Memory, Typed
  <2> QED BY <1>1, <1>3, <1>7, <1>10, <1>11, <2>1, <2>2 DEF Memory
<1>23. Pending' # {} /\ Key' = Key /\ Ref' = r
  BY <1>9, <1>10, <1>11, <1>12, PendingIsWaiting DEF Ref
<1>24. Kid' = Kid /\ mem'.unknown = u
  BY <1>3, <1>5, <1>7, <1>23 DEF Kid
<1>25. Placed'
  BY <1>1, <1>3, <1>5, <1>23, <1>24, <1>u DEF Placed, Launching
<1> QED BY <1>18, <1>19, <1>20, <1>21, <1>22, <1>25 DEF ChildRunsInv

LEMMA StepKeeps ==
  ASSUME ChildRunsAssumption, ChildRunsInv, [Next]_vars
  PROVE  ChildRunsInv'
<1>1. ASSUME UNCHANGED vars PROVE ChildRunsInv'
  <2>1. Pending' = Pending /\ Key' = Key /\ Ref' = Ref /\ Kid' = Kid
    BY <1>1, PendingIsWaiting DEF vars, Ref, Kid
  <2>2. Placed'
    BY <1>1, <2>1 DEF vars, ChildRunsInv, Placed, Launching, GateShut, Used
  <2>3. Typed' /\ Memory' /\ Started'
    BY <1>1 DEF vars, ChildRunsInv, Typed, Memory, Started
  <2>4. Sound(mem)' /\ Sound(snap)'
    BY <1>1, SoundQuiet DEF vars
  <2> QED BY <2>2, <2>3, <2>4 DEF ChildRunsInv
<1>2. ASSUME Work PROVE ChildRunsInv'
  BY <1>2, OpenKeeps, MovingSteps, DeclareKeeps, WhenKeeps, BindKeeps, LaunchFailedKeeps, CreateKeeps, BootKeeps,
     ChildEndsKeeps, ChargeKeeps, SettleKeeps DEF Work
<1>3. ASSUME NEW i \in Ids, Lose(i) PROVE ChildRunsInv'
  BY <1>3, LoseKeeps
<1> QED BY <1>1, <1>2, <1>3, AttemptKeeps, ResumeKeeps, MovingSteps DEF Next

LEMMA SoundAlways == ChildRunsAssumption => (Spec => []ChildRunsInv)
<1> SUFFICES ASSUME ChildRunsAssumption PROVE Spec => []ChildRunsInv
  OBVIOUS
<1>1. Init => ChildRunsInv
  BY InitSound
<1>2. ChildRunsInv /\ [Next]_vars => ChildRunsInv'
  BY StepKeeps
<1> QED BY <1>1, <1>2, PTL DEF Spec

\* A child run belongs to one call, which executes no other and executes it as
\* one creation of it only, whatever the deaths between the reservation of its
\* identity, its first snapshot and the journal of its start, and whatever was
\* lost in between (bindChildRun, hasJournaledChildStart).
THEOREM EachCallRunsOneChild == ChildRunsAssumption => (Spec => [](TypeOK /\ OneChildPerCall))
<1> SUFFICES ASSUME ChildRunsAssumption PROVE Spec => [](TypeOK /\ OneChildPerCall)
  OBVIOUS
<1>1. ChildRunsInv => TypeOK
  <2> SUFFICES ASSUME ChildRunsInv PROVE TypeOK
    OBVIOUS
  <2>1. mem \in Snapshots /\ snap \in Snapshots /\ Tables(mem) /\ Tables(snap) /\ Typed
    BY DEF ChildRunsInv, Typed, Sound
  <2>2. ASSUME NEW m \in Snapshots, Tables(m)
        PROVE  /\ m.items \in Lists \cup {<<>>} /\ m.node \in Nat /\ m.unknown \in BOOLEAN
               /\ \A k \in Keys : /\ m.refs[k].status \in {"none", "pending", "running", "failed", "done", "skipped"}
                                  /\ m.refs[k].id \in Ids \cup {0} /\ m.refs[k].acc \in Nat
                                  /\ m.refs[k].status = "done" => m.refs[k].id # 0
    <3>1. \A k \in Keys : m.refs[k].status = "done" => m.refs[k].id # 0
      BY <2>2 DEF Tables, Named
    <3>2. \A k \in Keys : m.refs[k] \in RefTypes
      BY DEF Snapshots
    <3> QED BY <3>1, <3>2 DEF Snapshots, RefTypes, Settled
  <2>3. \A i, j \in Keys : snap.refs[i].id = snap.refs[j].id /\ snap.refs[i].id # 0 => i = j
    BY <2>1 DEF Tables, Named
  <2>4. \A i \in Ids : kids[i].state \in {"none", "live", "damaged", "lost"} /\ kids[i].spent \in Nat
    BY <2>1 DEF Typed, KidTypes
  <2>5. started \subseteq Ids /\ cumulative \in Nat /\ max \in {Cap, Raised}
    BY <2>1 DEF Typed
  <2> QED BY <2>1, <2>2, <2>3, <2>4, <2>5 DEF TypeOK
<1>2. ChildRunsInv => OneChildPerCall
  <2> SUFFICES ASSUME ChildRunsInv, NEW k \in Keys PROVE Cardinality(ran[k]) <= 1
    BY DEF OneChildPerCall
  <2>1. ran[k] = {} \/ ran[k] = {<<Named(mem, k), births[Named(mem, k)]>>}
    BY DEF ChildRunsInv, Sound, Children
  <2>2. Cardinality({}) = 0 /\ \A x : Cardinality({x}) = 1
    BY FS_EmptySet, FS_Singleton
  <2>3. Cardinality(ran[k]) \in {0, 1}
    BY <2>1, <2>2
  <2> QED BY <2>3
<1> QED BY <1>1, <1>2, SoundAlways, PTL

\* Saving: one reference changes, its charge does not.
LEMMA SavesOne ==
  ASSUME ChildRunsAssumption, ChildRunsInv, Declare \/ When \/ Bind \/ LaunchFailed \/ Settle
  PROVE  \/ UNCHANGED <<mem, snap>>
         \/ /\ snap' = mem' /\ mem'.node = mem.node /\ Pending # {}
            /\ \A k \in Keys \ {Key} : mem'.refs[k] = mem.refs[k]
            /\ \A k \in Keys : mem'.refs[k].acc = mem.refs[k].acc
<1>1. Pending # {} /\ mem.items # <<>>
  BY DEF Declare, When, Bind, LaunchFailed, Settle, ChildRunsInv, Placed, Launching, Memory
<1>2. /\ Key \in Keys /\ mem \in Snapshots /\ mem.refs \in [Keys -> RefTypes] /\ mem.refs[Key] \in RefTypes
      /\ Turn(mem) = Key /\ Ref = mem.refs[Key] /\ (Ref.status = "none" => Ref = NoRef)
  BY <1>1, Before DEF Snapshots, Ref
<1>3. ASSUME NEW r, r.acc = Ref.acc, Save(With(mem, r))
      PROVE  /\ snap' = mem' /\ mem'.node = mem.node
             /\ \A k \in Keys \ {Key} : mem'.refs[k] = mem.refs[k]
             /\ \A k \in Keys : mem'.refs[k].acc = mem.refs[k].acc
  <2>1. mem' = [mem EXCEPT !.refs[Key] = r] /\ snap' = mem'
    BY <1>2, <1>3 DEF Save, With
  <2>2. mem'.node = mem.node /\ mem'.refs = [mem.refs EXCEPT ![Key] = r]
    BY <1>2, <2>1 DEF Snapshots
  <2> QED BY <1>2, <1>3, <2>1, <2>2
<1>4. ASSUME NEW s \in {"running", "failed", "done", "skipped"}, Save(Status(s))
      PROVE  \E r : r.acc = Ref.acc /\ Save(With(mem, r))
  <2>1. Save(With(mem, StatusOf(s))) /\ StatusOf(s).acc = Ref.acc
    BY <1>1, <1>4, StatusIsPut DEF StatusOf
  <2> QED BY <2>1
<1>5. CASE When
  <2>1. \E s \in {"running", "failed", "done", "skipped"} : Save(Status(s))
    BY <1>5 DEF When
  <2> QED BY <1>1, <1>3, <1>4, <2>1
<1>6. CASE LaunchFailed
  BY <1>1, <1>3, <1>4, <1>6 DEF LaunchFailed
<1>7. CASE Settle
  <2>1. \E s \in {"running", "failed", "done", "skipped"} : Save(Status(s))
    BY <1>7 DEF Settle
  <2> QED BY <1>1, <1>3, <1>4, <2>1
<1>8. CASE Declare
  <2>1. CASE Ref.status = "none"
    <3>1. PICK r : r = [NoRef EXCEPT !.status = "pending", !.call = Item(mem.items, Key)]
      OBVIOUS
    <3>2. r.acc = Ref.acc
      BY <1>2, <2>1, <3>1 DEF NoRef
    <3>3. Save(With(mem, r))
      BY <1>2, <1>8, <2>1, <3>1 DEF Declare, With
    <3> QED BY <1>1, <1>3, <3>2, <3>3
  <2>2. CASE Ref.status # "none"
    BY <1>8, <2>2 DEF Declare
  <2> QED BY <2>1, <2>2
<1>9. CASE Bind
  <2>1. mem' = [mem EXCEPT !.refs[Key].id = Identity, !.refs[Key].status = "running"] /\ snap' = mem'
    BY <1>9 DEF Bind, Save
  <2>2. PICK r : r = [[mem.refs[Key] EXCEPT !.id = Identity] EXCEPT !.status = "running"]
    OBVIOUS
  <2>3. mem' = [mem EXCEPT !.refs[Key] = r]
    BY <1>2, <2>1, <2>2 DEF Snapshots
  <2>4. r.acc = Ref.acc
    BY <1>2, <2>2 DEF RefTypes
  <2>5. Save(With(mem, r))
    BY <1>2, <2>1, <2>3 DEF Save, With
  <2> QED BY <1>1, <1>3, <2>4, <2>5
<1> QED BY <1>5, <1>6, <1>7, <1>8, <1>9

\* A generation finds the calls the earlier ones left: it is never refused by
\* their references, and no settled reference is ever rewritten.
THEOREM SettledCallsAreKept == ChildRunsAssumption => (Spec => []ResumeNotRefused /\ [][SettledIsFinal]_vars)
<1> SUFFICES ASSUME ChildRunsAssumption PROVE Spec => []ResumeNotRefused /\ [][SettledIsFinal]_vars
  OBVIOUS
<1>1. ChildRunsInv => ResumeNotRefused
  BY DEF ChildRunsInv, Placed, ResumeNotRefused
<1>2. ChildRunsInv /\ [Next]_vars => [SettledIsFinal]_vars
  <2> SUFFICES ASSUME ChildRunsInv, Next PROVE SettledIsFinal
    OBVIOUS
  <2>1. CASE snap' = snap
    BY <2>1 DEF SettledIsFinal
  <2>2. CASE Declare \/ When \/ Bind \/ LaunchFailed \/ Settle
    <3>1. CASE UNCHANGED <<mem, snap>>
      BY <3>1 DEF SettledIsFinal
    <3>2. CASE snap' = mem' /\ Pending # {} /\ \A k \in Keys \ {Key} : mem'.refs[k] = mem.refs[k]
      <4>1. ASSUME NEW k \in Keys, IsSettled(snap.refs[k]) PROVE snap'.refs[k] = snap.refs[k]
        <5>1. mem.refs[k] = snap.refs[k]
          BY <4>1 DEF ChildRunsInv, Memory
        <5>2. k # Key
          BY <3>2, <4>1, <5>1, Before DEF Ref
        <5> QED BY <3>2, <5>1, <5>2
      <4> QED BY <4>1 DEF SettledIsFinal
    <3> QED BY <2>2, <3>1, <3>2, SavesOne
  <2>3. CASE Open
    <3>1. CASE mem.items # <<>>
      BY <2>3, <3>1 DEF Open, SettledIsFinal
    <3>2. CASE mem.items = <<>>
      <4>1. mem = snap
        BY <2>3, Clean DEF Open
      <4>2. \A k \in Keys : snap.refs[k] = NoRef
        BY <3>2, <4>1 DEF ChildRunsInv, Sound, Tables
      <4>3. ~IsSettled(NoRef)
        BY DEF IsSettled, NoRef
      <4> QED BY <4>2, <4>3 DEF SettledIsFinal
    <3> QED BY <3>1, <3>2
  <2>4. ASSUME NodeDone \/ Refuse \/ Gate \/ Create \/ Boot \/ ChildEnds \/ Charge \/ Finish \/ Attempt \/ Die \/ Resume
               \/ \E i \in Ids : Lose(i)
        PROVE  snap' = snap
    BY <2>4 DEF NodeDone, Refuse, Gate, Create, Boot, ChildEnds, Charge, Finish, Attempt, Die, Resume, Lose
  <2> QED BY <2>1, <2>2, <2>3, <2>4 DEF Next, Work
<1> QED BY <1>1, <1>2, SoundAlways, PTL DEF Spec

LEMMA TotalSame ==
  ASSUME NEW a, NEW b, \A k \in Keys : a[k].acc = b[k].acc
  PROVE  Total(a) = Total(b)
<1>1. /\ <<"main", 1>> \in Keys /\ <<"main", 2>> \in Keys /\ <<"each", 1>> \in Keys /\ <<"each", 2>> \in Keys
      /\ <<"all", 0>> \in Keys
  BY DEF Keys
<1> QED BY <1>1 DEF Total

LEMMA TotalMoves ==
  ASSUME NEW a, NEW b, NEW t \in Keys, \A k \in Keys : a[k].acc \in Nat /\ b[k].acc \in Nat,
         \A k \in Keys \ {t} : a[k].acc = b[k].acc
  PROVE  Total(b) = Total(a) + (b[t].acc - a[t].acc)
<1>1. /\ <<"main", 1>> \in Keys /\ <<"main", 2>> \in Keys /\ <<"each", 1>> \in Keys /\ <<"each", 2>> \in Keys
      /\ <<"all", 0>> \in Keys
  BY DEF Keys
<1>2. t \in {<<"main", 1>>, <<"main", 2>>, <<"each", 1>>, <<"each", 2>>, <<"all", 0>>}
  BY DEF Keys
<1>3. CASE t = <<"main", 1>>
  BY <1>1, <1>3 DEF Total
<1>4. CASE t = <<"main", 2>>
  BY <1>1, <1>4 DEF Total
<1>5. CASE t = <<"each", 1>>
  BY <1>1, <1>5 DEF Total
<1>6. CASE t = <<"each", 2>>
  BY <1>1, <1>6 DEF Total
<1>7. CASE t = <<"all", 0>>
  BY <1>1, <1>7 DEF Total
<1> QED BY <1>2, <1>3, <1>4, <1>5, <1>6, <1>7

\* The node's charge is the sum of its calls', on both sides of a death.
Booked == mem.node = Total(mem.refs) /\ snap.node = Total(snap.refs)

LEMMA BookedKept ==
  ASSUME ChildRunsAssumption, ChildRunsInv, Booked, [Next]_vars
  PROVE  Booked'
<1>1. CASE UNCHANGED <<mem, snap>>
  BY <1>1 DEF Booked
<1>2. CASE Declare \/ When \/ Bind \/ LaunchFailed \/ Settle
  <2>1. CASE /\ snap' = mem' /\ mem'.node = mem.node
             /\ \A k \in Keys : mem'.refs[k].acc = mem.refs[k].acc
    <3>1. Total(mem'.refs) = Total(mem.refs)
      BY <2>1, TotalSame
    <3> QED BY <2>1, <3>1 DEF Booked
  <2> QED BY <1>1, <1>2, <2>1, SavesOne
<1>3. CASE Open
  <2>1. CASE mem.items # <<>>
    BY <1>1, <1>3, <2>1 DEF Open
  <2>2. CASE mem.items = <<>>
    <3>1. PICK l \in Lists : mem' = [mem EXCEPT !.items = l] /\ snap' = mem'
      BY <1>3, <2>2 DEF Open, Save
    <3>2. mem'.refs = mem.refs /\ mem'.node = mem.node
      BY <3>1 DEF ChildRunsInv, Typed, Snapshots
    <3> QED BY <3>1, <3>2 DEF Booked
  <2> QED BY <2>1, <2>2
<1>4. CASE Resume
  BY <1>4 DEF Resume, Booked
<1>5. CASE Charge
  <2>1. /\ Pending # {} /\ mem \in Snapshots /\ Kid.spent \in Nat /\ Ref.id # 0
    <3>1. Pending # {} /\ Ref.id # 0
      BY <1>5 DEF Charge, ChildRunsInv, Placed
    <3>2. Ref.id \in Ids
      BY <3>1, Before
    <3> QED BY <3>1, <3>2 DEF ChildRunsInv, Typed, KidTypes, Kid
  <2>2. Key \in Keys /\ Ref.acc \in Nat /\ Ref.acc <= Kid.spent /\ Ref = mem.refs[Key] /\ Ref \in RefTypes
    BY <2>1, Before DEF Ref
  <2>3. mem.refs \in [Keys -> RefTypes] /\ mem.node \in Nat
    BY <2>1 DEF Snapshots
  <2>4. Over(Kid.spent, Ref.acc) = Kid.spent - Ref.acc /\ (IF Kid.spent > Ref.acc THEN Kid.spent ELSE Ref.acc) = Kid.spent
    BY <2>1, <2>2 DEF Over
  <2>5. mem' = [mem EXCEPT !.refs[Key].acc = IF Kid.spent > @ THEN Kid.spent ELSE @,
                           !.node = @ + Over(Kid.spent, Ref.acc), !.unknown = @ \/ Kid.unpriced]
    BY <1>5 DEF Charge
  <2>6. mem'.node = mem.node + (Kid.spent - Ref.acc)
    BY <2>1, <2>4, <2>5 DEF Snapshots
  <2>7. mem'.refs = [mem.refs EXCEPT ![Key] = [mem.refs[Key] EXCEPT !.acc = Kid.spent]]
    BY <2>1, <2>2, <2>3, <2>4, <2>5 DEF Snapshots
  <2>8. mem'.refs[Key].acc = Kid.spent /\ \A k \in Keys \ {Key} : mem'.refs[k] = mem.refs[k]
    BY <2>2, <2>3, <2>7 DEF RefTypes
  <2>9. \A k \in Keys : mem.refs[k].acc \in Nat /\ mem'.refs[k].acc \in Nat
    <3>1. \A k \in Keys : mem.refs[k].acc \in Nat
      BY <2>3 DEF RefTypes
    <3> QED BY <2>1, <2>8, <3>1
  <2>10. Total(mem'.refs) = Total(mem.refs) + (Kid.spent - Ref.acc)
    <3>1. PICK a, b, t : a = mem.refs /\ b = mem'.refs /\ t = Key
      OBVIOUS
    <3>2. /\ t \in Keys /\ \A k \in Keys : a[k].acc \in Nat /\ b[k].acc \in Nat
          /\ \A k \in Keys \ {t} : a[k].acc = b[k].acc
      BY <2>2, <2>8, <2>9, <3>1
    <3>3. Total(b) = Total(a) + (b[t].acc - a[t].acc)
      BY <3>2, TotalMoves
    <3> QED BY <2>2, <2>8, <3>1, <3>3
  <2>11. snap' = snap
    BY <1>5 DEF Charge
  <2> QED BY <2>6, <2>10, <2>11 DEF Booked
<1>6. ASSUME \/ UNCHANGED vars \/ NodeDone \/ Refuse \/ Gate \/ Create \/ Boot \/ ChildEnds \/ Finish \/ Attempt \/ Die
             \/ \E i \in Ids : Lose(i)
      PROVE  UNCHANGED <<mem, snap>>
  BY <1>6 DEF vars, NodeDone, Refuse, Gate, Create, Boot, ChildEnds, Finish, Attempt, Die, Lose
<1> QED BY <1>1, <1>2, <1>3, <1>4, <1>5, <1>6 DEF Next, Work

\* Whatever the deaths between a charge and the snapshot that saves it, a node is
\* charged what its calls are charged together, and a settled call everything
\* its child spent, once (chargeChildReconciliation by difference).
THEOREM ChargesAreExact == ChildRunsAssumption => (Spec => []ChargedExactly)
<1> SUFFICES ASSUME ChildRunsAssumption PROVE Spec => []ChargedExactly
  OBVIOUS
<1>1. Init => Booked
  <2> SUFFICES ASSUME Init PROVE Booked
    OBVIOUS
  <2>1. \A k \in Keys : Fresh.refs[k].acc = 0
    BY DEF Fresh, NoRef
  <2>2. Total(Fresh.refs) = 0
    BY <2>1 DEF Total, Keys
  <2> QED BY <2>2 DEF Init, Booked, Fresh
<1>2. ChildRunsInv /\ Booked /\ [Next]_vars => Booked'
  BY BookedKept
<1>3. ChildRunsInv /\ Booked => ChargedExactly
  <2> SUFFICES ASSUME ChildRunsInv, Booked, NEW m \in {mem, snap}
               PROVE  /\ m.node = Total(m.refs)
                      /\ \A k \in Keys : m.refs[k].status = "done" => m.refs[k].acc = kids[m.refs[k].id].spent
    BY DEF ChargedExactly
  <2>1. Children(m)
    BY DEF ChildRunsInv, Sound
  <2> QED BY <2>1 DEF Booked, Children, Named
<1> QED BY <1>1, <1>2, <1>3, SoundAlways, PTL DEF Spec

\* The attempt a child makes is made under a gate that was open, and by the one
\* child whose spend may not be latched yet: once a child holds spend nobody
\* could price, no other starts an attempt, unless the run accepts it
\* (chargeChildReconciliation latches it in the generation that saw it).
THEOREM UnpricedStopsTheNext == ChildRunsAssumption => (Spec => [][UnpricedSpawnsNothing]_vars)
<1> SUFFICES ASSUME ChildRunsAssumption PROVE Spec => [][UnpricedSpawnsNothing]_vars
  OBVIOUS
<1>1. ChildRunsInv /\ [Next]_vars => [UnpricedSpawnsNothing]_vars
  <2> SUFFICES ASSUME ChildRunsInv, Next, NEW i \in Ids, NEW j \in Ids,
                      kids'[i].spent > kids[i].spent, kids[j].unpriced
               PROVE  Unmetered
    BY DEF UnpricedSpawnsNothing
  <2>k. kids \in [Ids -> KidTypes] /\ kids[i].spent \in Nat
    BY DEF ChildRunsInv, Typed, KidTypes
  <2>1. CASE Attempt
    <3>1. /\ pc = "child" /\ Pending # {} /\ Ref.id # 0 /\ ~GateShut /\ ~ChildGateShut
      BY <2>1 DEF Attempt, ChildRunsInv, Placed, Launching
    <3>2. Ref.id \in Ids /\ Named(mem, Key) = Ref.id /\ Turn(mem) = Key
      BY <3>1, Before
    <3>3. mem.unknown \/ j = Ref.id
      BY <3>2 DEF ChildRunsInv, Sound, Spend
    <3>4. CASE mem.unknown
      BY <3>1, <3>4 DEF GateShut
    <3>5. CASE j = Ref.id
      BY <3>1, <3>5 DEF ChildGateShut, Kid
    <3> QED BY <3>3, <3>4, <3>5
  <2>2. CASE Create
    <3>1. Pending # {} /\ Ref.id # 0
      BY <2>2 DEF Create, ChildRunsInv, Placed, Launching
    <3>2. PICK new : new = [NoKid EXCEPT !.state = "live", !.status = "RUNNING"]
      OBVIOUS
    <3>3. new.spent = 0 /\ kids' = [kids EXCEPT ![Ref.id] = new]
      BY <2>2, <3>2 DEF Create, NoKid
    <3>4. kids'[i].spent \in {0, kids[i].spent}
      BY <2>k, <3>3
    <3> QED BY <2>k, <3>4
  <2>3. CASE ChildEnds
    <3>1. PICK s \in {"PASS", "FAIL", "STOPPED"} : kids' = [kids EXCEPT ![Ref.id].status = s]
      BY <2>3 DEF ChildEnds
    <3>2. kids'[i].spent = kids[i].spent
      BY <2>k, <3>1 DEF KidTypes
    <3> QED BY <2>k, <3>2
  <2>4. ASSUME NEW x \in Ids, Lose(x) PROVE FALSE
    <3>1. PICK s \in {"lost", "damaged"} : kids' = [kids EXCEPT ![x].state = s]
      BY <2>4 DEF Lose
    <3>2. kids'[i].spent = kids[i].spent
      BY <2>k, <3>1 DEF KidTypes
    <3> QED BY <2>k, <3>2
  <2>5. ASSUME Open \/ NodeDone \/ Refuse \/ Declare \/ When \/ Gate \/ Bind \/ LaunchFailed \/ Boot \/ Charge \/ Finish
               \/ Settle \/ Die \/ Resume
        PROVE  FALSE
    <3>1. kids' = kids
      BY <2>5 DEF Open, NodeDone, Refuse, Declare, When, Gate, Bind, LaunchFailed, Boot, Charge, Finish, Settle, Die, Resume
    <3> QED BY <2>k, <3>1
  <2> QED BY <2>1, <2>2, <2>3, <2>4, <2>5 DEF Next, Work
<1> QED BY <1>1, SoundAlways, PTL DEF Spec

\* The ceilings of a budget: there is one, and --budget raises it.
BudgetRaised == 0 < Cap /\ Cap <= Raised
\* What a child may spend under its ceiling is what is left of the parent's, over
\* deaths, retries and a raise: the children together overrun it by less than
\* the dearest attempt (childCostCeiling, costGate).
THEOREM BudgetIsKept == ChildRunsAssumption /\ BudgetRaised => (Spec => []BudgetHolds)
<1> SUFFICES ASSUME ChildRunsAssumption, BudgetRaised PROVE Spec => []BudgetHolds
  OBVIOUS
<1>m. Max(Prices) \in Nat /\ (\A q \in Prices : q <= Max(Prices)) /\ Cap \in Nat /\ Raised \in Nat /\ Prices \subseteq Nat
  BY Dearest DEF ChildRunsAssumption
<1>1. Init => BudgetHolds
  BY <1>m DEF Init, BudgetHolds, BudgetRaised
<1>2. ChildRunsInv /\ BudgetHolds /\ [Next]_vars => BudgetHolds'
  <2> SUFFICES ASSUME ChildRunsInv, BudgetHolds, [Next]_vars PROVE BudgetHolds'
    OBVIOUS
  <2>t. real \in Nat /\ max \in {Cap, Raised} /\ max \in Nat /\ cumulative \in Nat /\ ceiling \in Nat
    BY <1>m DEF ChildRunsInv, Typed
  <2>1. CASE real' = real /\ max' = max
    BY <2>1 DEF BudgetHolds
  <2>2. CASE Resume
    <3>1. real' = real /\ (max' = max \/ max' = Raised)
      BY <2>2 DEF Resume, history
    <3>2. max' \in Nat /\ max <= max'
      BY <1>m, <2>t, <3>1 DEF BudgetRaised
    <3> QED BY <1>m, <2>t, <3>1, <3>2 DEF BudgetHolds
  <2>3. CASE Attempt
    <3>1. /\ pc = "child" /\ Pending # {} /\ Ref.id # 0 /\ ~GateShut /\ ~ChildGateShut
          /\ ceiling <= (max - cumulative) + Ref.acc
      BY <2>3 DEF Attempt, ChildRunsInv, Placed, Launching
    <3>2. /\ Ref.id \in Ids /\ Named(mem, Key) = Ref.id /\ Turn(mem) = Key /\ Waiting(mem) # {} /\ Ref.acc \in Nat
      BY <3>1, Before
    <3>3. kids[Ref.id].spent \in Nat
      BY <3>2 DEF ChildRunsInv, Typed, KidTypes
    <3>4. real = cumulative + (kids[Ref.id].spent - Ref.acc)
      <4>1. real = mem.node + Owed(mem) /\ cumulative = mem.node
        BY DEF ChildRunsInv, Sound, Spend, Memory
      <4>2. Owed(mem) = kids[Ref.id].spent - Ref.acc
        BY <3>1, <3>2 DEF Owed, Owing, Ref
      <4> QED BY <4>1, <4>2
    <3>5. kids[Ref.id].spent < ceiling
      BY <2>t, <3>1, <3>3 DEF ChildGateShut, Kid
    <3>6. real < max
      BY <2>t, <3>1, <3>2, <3>3, <3>4, <3>5
    <3>7. PICK c \in Prices : real' = real + c
      BY <2>3 DEF Attempt
    <3>8. max' = max
      BY <2>3 DEF Attempt
    <3> QED BY <1>m, <2>t, <3>6, <3>7, <3>8 DEF BudgetHolds
  <2>4. ASSUME \/ UNCHANGED vars \/ Work \/ Die \/ \E i \in Ids : Lose(i)
        PROVE  real' = real /\ max' = max
    BY <2>4 DEF vars, Work, Open, NodeDone, Refuse, Declare, When, Gate, Bind, LaunchFailed, Create, Boot, ChildEnds,
                Charge, Finish, Settle, Die, Lose, history
  <2> QED BY <2>1, <2>2, <2>3, <2>4 DEF Next
<1> QED BY <1>1, <1>2, SoundAlways, PTL DEF Spec
=============================================================================
