--------------------------- MODULE AttemptFigures ---------------------------
(***************************************************************************)
(* The figures of one agent process, read twice: by the live guard as the  *)
(* stream arrives and by the parser once the process ended, for the three  *)
(* backends (src/agents/backends/*/execution.ts, events.ts, pricing.ts,    *)
(* result.ts), then stored (src/run/record/cost-figures.ts).               *)
(*                                                                         *)
(* Tokens and prices are small numbers: a message or a turn is one token   *)
(* or none, a rate is what a token costs.  One provider either prices all  *)
(* the steps of a process or writes zero, or nothing, in each of them.     *)
(***************************************************************************)
EXTENDS Naturals, Sequences, SequencesExt, FiniteSets

CONSTANTS
  None,
  Backends,    \* subset of {"claude", "codex", "opencode"}
  Rates,       \* rates of the model in the tables: a number, or None
  Budgets,     \* budgetRemaining: a number, or None
  Reports,     \* what a provider writes as the cost: "price", "zero", "nothing"
  Messages,    \* identities of the messages a CLI may stream twice
  MaxEvents,   \* bound: usage events of a process
  ClaudePrices \* the Claude CLI writes a price for what it ran, not a zero

FiguresAssumption ==
  /\ Backends \subseteq {"claude", "codex", "opencode"} /\ None \notin Nat
  /\ Rates \subseteq Nat \cup {None} /\ Budgets \subseteq Nat \cup {None}
  /\ Reports \subseteq {"price", "zero", "nothing"} /\ MaxEvents \in Nat /\ ClaudePrices \in BOOLEAN

VARIABLES
  scene,     \* backend, rate, what the provider reports, budget and strict accounting
  output,    \* the events the process wrote, in order
  read,      \* how many of them the live consumer was handed
  live,      \* its totals: tokens, cost, whether one was reported, messages seen
  published, \* last figure given to onLiveCost
  kill,      \* the first kill, or None
  firstEvent,\* the deadline of the first event is armed
  control    \* what is stored once the process ended, or None

vars == <<scene, output, read, live, published, kill, firstEvent, control>>

Claude == scene.backend = "claude"
Usage == [type: {"usage"}, id: Messages, tokens: 0..1, cost: Nat \cup {None}]
Kills == {"budget", "cost-unaccounted", "no-first-event", "timeout"}

TypeOK ==
  /\ scene \in [backend: Backends, rate: Rates, report: Reports, budget: Budgets, strict: BOOLEAN]
  /\ \A i \in 1..Len(output) : output[i].tokens \in 0..1 /\ output[i].cost \in Nat \cup {None}
  /\ read \in 0..Len(output) /\ kill \in Kills \cup {None} /\ firstEvent \in BOOLEAN
  /\ live \in [tokens: 0..MaxEvents, cost: Nat, reported: BOOLEAN, seen: SUBSET Messages]
  /\ published \in Nat \cup {None}
  /\ control = None \/ control \in [cost: Nat \cup {None}, tokens: Nat, estimated: BOOLEAN, unknown: BOOLEAN]

Empty == [tokens |-> 0, cost |-> 0, reported |-> FALSE, seen |-> {}]

Scenes == [backend: Backends, rate: Rates, report: Reports, budget: Budgets, strict: BOOLEAN]
\* Claude falls back to a rate of its own; Codex never reports a cost.
Possible(s) ==
  /\ s.backend = "claude" => s.rate # None /\ (ClaudePrices => s.report # "zero")
  /\ s.backend = "codex" => s.report = "nothing"
  /\ s.strict => s.budget # None

Init ==
  /\ scene \in {s \in Scenes : Possible(s)}
  /\ output = << >> /\ read = 0 /\ live = Empty /\ published = None /\ kill = None
  /\ firstEvent = (scene.backend = "opencode") /\ control = None

----------------------------------------------------------------------------
\* Slip: cached tokens are counted inside the input and beside it.
CountTwice(totals, e) ==
  [totals EXCEPT !.tokens = @ + 2 * e.tokens, !.cost = @ + (IF e.cost = None THEN 0 ELSE e.cost),
                 !.reported = @ \/ e.cost # None, !.seen = @ \cup {e.id}]
CountEach(totals, e) ==
  [totals EXCEPT !.tokens = @ + e.tokens, !.cost = @ + (IF e.cost = None THEN 0 ELSE e.cost),
                 !.reported = @ \/ e.cost # None, !.seen = @ \cup {e.id}]
\* addUsage, accumulateCodexUsage and the totals of opencode, in one fold.  The
\* messages of Claude carry an identity, and its result event the whole cost.
Count(totals, e) ==
  IF Claude /\ e.type = "usage" /\ e.id \in totals.seen THEN totals
  ELSE CountEach(totals, e)
Totals(events) == FoldLeft(Count, Empty, events)

Estimate(totals) == IF scene.rate = None THEN None ELSE totals.tokens * scene.rate

\* resolveOpencodeCost: a reported zero over consumed tokens is a missing price.
OpencodeCost(totals) ==
  IF totals.reported /\ (totals.cost > 0 \/ totals.tokens = 0)
  THEN [cost |-> totals.cost, estimated |-> FALSE, unknown |-> FALSE]
  ELSE IF scene.rate # None THEN [cost |-> Estimate(totals), estimated |-> TRUE, unknown |-> FALSE]
  ELSE [cost |-> IF totals.reported THEN 0 ELSE None, estimated |-> FALSE, unknown |-> TRUE]
CodexCost(totals) == [cost |-> Estimate(totals), estimated |-> scene.rate # None, unknown |-> FALSE]

\* Slip: the guard sums the costs the provider wrote, and nothing else.
ReportedOnly(totals) ==
  [cost |-> IF totals.reported THEN totals.cost ELSE None, estimated |-> FALSE, unknown |-> FALSE]
\* What the guard compares: Claude's reported cost wins over its estimate.
LiveFigure(totals) ==
  CASE scene.backend = "opencode" -> OpencodeCost(totals)
    [] scene.backend = "codex" -> CodexCost(totals)
    [] OTHER -> [cost |-> IF totals.reported THEN totals.cost ELSE Estimate(totals),
                 estimated |-> ~totals.reported, unknown |-> FALSE]

\* Slip: only a missing amount is unaccounted, not a zero.
NoAmount(figure, totals) == scene.strict /\ figure.cost = None /\ totals.tokens > 0
\* checkBudget: the accounting guard before the budget guard; the first kill stays.
Unaccounted(figure, totals) ==
  /\ scene.strict
  /\ \/ scene.backend = "opencode" /\ figure.unknown
     \/ scene.backend = "codex" /\ figure.cost = None /\ totals.tokens > 0
\* Slip: the bound itself kills.
AtBudget(figure) == scene.budget # None /\ figure.cost # None /\ figure.cost >= scene.budget
OverBudget(figure) ==
  scene.budget # None /\ figure.cost # None /\ ~figure.unknown /\ figure.cost > scene.budget

\* Slip: the accounting guard fires on a rate that is missing, usage or not.
Suspicion(totals) == IF scene.strict /\ scene.rate = None THEN "cost-unaccounted" ELSE None
Guard(totals) ==
  LET figure == LiveFigure(totals) IN
  IF Unaccounted(figure, totals) THEN "cost-unaccounted"
  ELSE IF OverBudget(figure) THEN "budget" ELSE None

FirstKill(next) == IF kill = None THEN next ELSE kill

\* The process writes a usage event: what it reports follows its provider.
Cost(tokens) ==
  CASE scene.report = "price" -> tokens * 2
    [] scene.report = "zero" -> 0
    [] OTHER -> None
\* The result event of Claude closes its stream.
Ended == \E i \in 1..Len(output) : output[i].type = "result"
Write ==
  /\ control = None /\ Len(output) < MaxEvents /\ ~Ended
  /\ \E id \in Messages, tokens \in 0..1 :
       /\ scene.backend = "opencode" /\ scene.report = "nothing" => tokens = 1
       /\ Claude => \A i \in 1..Len(output) : output[i].id = id => output[i].tokens = tokens
       /\ output' = Append(output, [type |-> "usage", id |-> id, tokens |-> tokens,
                                    cost |-> IF Claude THEN None ELSE Cost(tokens)])
  /\ UNCHANGED <<scene, read, live, published, kill, firstEvent, control>>

WriteResult ==
  /\ control = None /\ Claude /\ ~Ended /\ scene.report # "nothing"
  /\ output' = Append(output, [type |-> "result", id |-> CHOOSE m \in Messages : TRUE, tokens |-> 0,
                               cost |-> Cost(Totals(output).tokens)])
  /\ UNCHANGED <<scene, read, live, published, kill, firstEvent, control>>

\* A complete line reaches the consumer: counted, published, guarded.
Consume ==
  /\ control = None /\ read < Len(output)
  /\ read' = read + 1 /\ firstEvent' = FALSE
  /\ live' = Count(live, output[read + 1])
  /\ published' = LiveFigure(live').cost
  /\ kill' = FirstKill(Guard(live'))
  /\ UNCHANGED <<scene, output, control>>

\* The deadline of the first event, and the timeout of the step.
NoFirstEvent ==
  /\ control = None /\ firstEvent /\ kill' = FirstKill("no-first-event") /\ firstEvent' = FALSE
  /\ UNCHANGED <<scene, output, read, live, published, control>>
Timeout ==
  /\ control = None /\ kill = None /\ kill' = "timeout"
  /\ UNCHANGED <<scene, output, read, live, published, firstEvent, control>>

----------------------------------------------------------------------------
\* The parsers: the same totals folded over the whole output, and one final cost.
ClaudeCost(totals) ==
  LET usable == totals.reported /\ (totals.cost > 0 \/ totals.tokens = 0) IN
  [cost |-> IF usable THEN totals.cost ELSE IF totals.seen # {} THEN Estimate(totals)
            ELSE IF totals.reported THEN totals.cost ELSE None,
   estimated |-> ~usable /\ totals.seen # {}, unknown |-> FALSE]
FinalCost(totals) ==
  CASE scene.backend = "opencode" -> OpencodeCost(totals)
    [] scene.backend = "codex" -> IF totals.tokens = 0 THEN [cost |-> None, estimated |-> FALSE, unknown |-> FALSE]
                                  ELSE CodexCost(totals)
    [] OTHER -> ClaudeCost(totals)

\* Slip: only a missing price is unknown.
StoredAsIs(cost, tokens) ==
  [cost |-> cost.cost, tokens |-> tokens, estimated |-> cost.estimated, unknown |-> cost.unknown]
\* splitAttemptStats: tokens without a price, and a zero no table produced, are an
\* unknown spend.
Stored(cost, tokens) ==
  [cost |-> cost.cost, tokens |-> tokens, estimated |-> cost.estimated,
   unknown |-> \/ cost.unknown
               \/ cost.cost = None /\ tokens > 0
               \/ cost.cost = 0 /\ tokens > 0 /\ ~cost.estimated]

\* The process is gone and the pending line was flushed.
Close ==
  /\ control = None /\ read = Len(output)
  /\ control' = Stored(FinalCost(Totals(output)), Totals(output).tokens)
  /\ UNCHANGED <<scene, output, read, live, published, kill, firstEvent>>

Next == Write \/ WriteResult \/ Consume \/ NoFirstEvent \/ Timeout \/ Close
Spec == Init /\ [][Next]_vars

----------------------------------------------------------------------------
Closed == control # None
\* The figure an abort would have charged is the figure the process is charged:
\* the stream and the transcript are priced by one rule.
LiveFollowsFinal ==
  Closed /\ read > 0 => published = control.cost \/ (control.tokens = 0 /\ control.cost = None)

\* Consumed tokens are never stored as a free attempt, unless a table prices them zero.
NothingLooksFree ==
  Closed /\ control.tokens > 0 =>
    control.unknown \/ (control.cost # None /\ (control.cost > 0 \/ (control.estimated /\ scene.rate = 0)))

\* The accounting guard kills on proof: the attempt it kills did consume tokens
\* and its stored spend is unknown.
AccountingKillIsProof ==
  Closed /\ kill = "cost-unaccounted" => scene.strict /\ control.unknown /\ control.tokens > 0

\* Under strict accounting, no attempt that consumed tokens nobody can price
\* reaches its end unkilled, for the backends whose rate may be missing.
UnpricedIsStopped == Closed /\ scene.strict /\ control.unknown /\ control.tokens > 0 => kill # None

\* The budget guard kills only an attempt whose final figure is over the budget
\* (the price Claude reports in the end may be below the estimate that killed).
BudgetKillIsFinal == Closed /\ ~Claude /\ kill = "budget" => control.cost # None /\ control.cost > scene.budget
=============================================================================
