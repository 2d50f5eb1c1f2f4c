-------------------------- MODULE ClaudeTransport --------------------------
(***************************************************************************)
(* One attempt of a Claude step: the spawns it takes when the provider     *)
(* refuses them, and what the attempt is charged                           *)
(* (src/agents/backends/claude-code/transport.ts, cost-state.ts,           *)
(* execution.ts, result.ts).                                               *)
(*                                                                         *)
(* The CLI keeps a ledger per session.  A resumed process restores it and  *)
(* reports the whole session; the transcript may still miss the last       *)
(* record when the runner reads it.  Spend and time are small amounts, the *)
(* price estimated from the streamed tokens is the spend they stand for,   *)
(* and a process that ends without a price streamed all its usage or none. *)
(* The CLI, its transcript and the provider are external.                  *)
(***************************************************************************)
EXTENDS Naturals, TLC

CONSTANTS
  None,
  Budget,       \* budgetRemaining of the attempt, or None
  Ancestors,    \* the ledger of the session a fix pass resumes, or None
  Overloads,    \* length of the backoff delays
  MaxWaits,     \* MAX_RATE_LIMIT_WAITS
  MaxWait,      \* maxWaitMs
  Margin,       \* RATE_LIMIT_MARGIN_MS
  Resets,       \* bound: how far away a reset is announced
  MaxSpend,     \* bound: what one spawn spends
  KeepsLedger   \* the CLI writes cost-state and restores it (2.1 and later)

TransportAssumption ==
  /\ Budget \in Nat \cup {None} /\ Ancestors \in Nat \cup {None} /\ None \notin Nat
  /\ Overloads \in Nat /\ MaxWaits \in Nat /\ MaxWait \in Nat /\ Margin \in Nat \ {0}
  /\ Resets \subseteq Nat /\ MaxSpend \in Nat \ {0} /\ KeepsLedger \in BOOLEAN

VARIABLES
  phase,     \* "ready" to spawn, "running", "paused", "done" or "aborted"
  resumes,   \* the arguments hold --resume, not --session-id
  cli,       \* session: ledger and transcript of the CLI, and whether its file exists
  spawn,     \* the process: what it restored, spent and published, its baseline
  carried,   \* priorCost, expectedLedger and what is left of the budget
  patience,  \* overloads, rateLimitWaits, rateLimitWaitedMs
  live,      \* last figure given to onLiveCost
  charge,    \* what the attempt is charged: amount and unknown
  spent      \* history: what every spawn of the attempt really spent

vars == <<phase, resumes, cli, spawn, carried, patience, live, charge, spent>>

OrZero(x) == IF x = None THEN 0 ELSE x
Larger(a, b) == IF a > b THEN a ELSE b
Capped == Budget # None
Amount == 0..(OrZero(Ancestors) + MaxSpend * (Overloads + MaxWaits + 1))

TypeOK ==
  /\ phase \in {"ready", "running", "paused", "done", "aborted"} /\ resumes \in BOOLEAN
  /\ cli \in [ledger: Amount, persisted: Amount \cup {None}, exists: BOOLEAN]
  /\ spawn \in [restored: Amount, own: 0..MaxSpend, seen: 0..MaxSpend,
                baseline: Amount \cup {None}, killed: BOOLEAN]
  /\ carried \in [cost: Amount, ledger: Amount, budget: Nat \cup {None}, real: Amount]
  /\ patience \in [overloads: 0..Overloads, waits: 0..MaxWaits, waited: 0..MaxWait]
  /\ live \in Amount \cup {None} /\ spent \in Amount
  /\ charge \in [amount: Amount \cup {None}, unknown: BOOLEAN]

\* netCumulative: a figure below the baseline was not cumulative.
Net(reported, baseline) == IF reported >= baseline THEN reported - baseline ELSE reported

Init ==
  /\ phase = "ready" /\ resumes = (Ancestors # None)
  /\ cli = [ledger |-> OrZero(Ancestors), persisted |-> IF KeepsLedger THEN Ancestors ELSE None,
            exists |-> Ancestors # None]
  /\ spawn = [restored |-> 0, own |-> 0, seen |-> 0, baseline |-> None, killed |-> FALSE]
  /\ carried = [cost |-> 0, ledger |-> 0, budget |-> Budget, real |-> 0]
  /\ patience = [overloads |-> 0, waits |-> 0, waited |-> 0]
  /\ live = None /\ charge = [amount |-> None, unknown |-> FALSE] /\ spent = 0

\* Slip: the ledger read from the transcript is taken as it is.
PersistedBaseline == IF resumes THEN OrZero(cli.persisted) ELSE None
\* The ledger the process restores, floored at what the attempt charged already.
Baseline == IF resumes THEN Larger(OrZero(cli.persisted), carried.ledger) ELSE None

\* What the CLI starts from: the session of a resume, nothing in a new one.
Restored == IF resumes /\ KeepsLedger THEN cli.ledger ELSE 0

\* Slip: a fresh spawn forgets what the discarded ones spent.
LiveFromZero == None
LiveAtSpawn == IF carried.cost > 0 THEN carried.cost ELSE None

\* executeNode: the figure published by the last attempt is reset to the discarded ones.
Spawn ==
  /\ phase = "ready"
  /\ spawn' = [restored |-> Restored, own |-> 0, seen |-> 0, baseline |-> Baseline, killed |-> FALSE]
  /\ live' = LiveAtSpawn
  /\ phase' = "running"
  /\ UNCHANGED <<resumes, cli, carried, patience, charge, spent>>

\* The provider bills tokens; the process may end before it streams them.
Spend ==
  /\ phase = "running" /\ spawn.own < MaxSpend
  /\ spawn' = [spawn EXCEPT !.own = @ + 1] /\ spent' = spent + 1
  /\ UNCHANGED <<phase, resumes, cli, carried, patience, live, charge>>

\* consume: usage is counted, published on top of the discarded spawns, and guarded.
OverBudget(figure) == Capped /\ figure > carried.budget
Stream ==
  /\ phase = "running" /\ spawn.seen < spawn.own
  /\ spawn' = [spawn EXCEPT !.seen = @ + 1, !.killed = @ \/ OverBudget(spawn.seen + 1)]
  /\ live' = carried.cost + spawn.seen + 1
  /\ UNCHANGED <<phase, resumes, cli, carried, patience, charge, spent>>

\* The CLI writes its cost-state when it pleases, at the latest before it is resumed.
Flush ==
  /\ KeepsLedger /\ phase \in {"ready", "paused"} /\ cli.exists /\ cli.persisted # cli.ledger
  /\ cli' = [cli EXCEPT !.persisted = cli.ledger]
  /\ UNCHANGED <<phase, resumes, spawn, carried, patience, live, charge, spent>>

----------------------------------------------------------------------------
\* What the parsed result says: reported when the CLI wrote a result event with
\* a price, estimated when it wrote none or a zero over consumed tokens.
Priced == [amount |-> spawn.restored + spawn.own, estimated |-> FALSE]
Unpriced == [amount |-> IF spawn.seen > 0 THEN spawn.seen ELSE None, estimated |-> spawn.seen > 0]
\* Slip: a resumed spawn is measured with the whole session.
GrossCost(stats) == OrZero(stats.amount)
AttemptCost(stats) ==
  IF spawn.baseline = None \/ stats.estimated THEN OrZero(stats.amount)
  ELSE Net(OrZero(stats.amount), spawn.baseline)

\* mapClaudeExecutionResult: the discarded spawns are added; a final spawn that
\* measured nothing makes the sum a lower bound.
Closed(stats) ==
  /\ charge' = [amount |-> IF stats.amount = None /\ carried.cost = 0 THEN None
                           ELSE AttemptCost(stats) + carried.cost,
                unknown |-> stats.amount = None]
  /\ phase' = "done"
  /\ UNCHANGED <<resumes, carried, patience, spent>>

\* pauseAfter: how long the refusal is waited out, None when it ends the attempt.
Overload == [kind |-> "overload", reset |-> None]
RateLimit(r) == [kind |-> "rate-limit", reset |-> r]
Errors == {Overload, [kind |-> "other", reset |-> None]} \cup {RateLimit(r) : r \in Resets \cup {None}}
\* Slip: the delays are indexed one too far.
WaitsOnceMore(error) == error.kind = "overload" /\ patience.overloads <= Overloads
Waits(error) ==
  \/ error.kind = "overload" /\ patience.overloads < Overloads
  \/ /\ error.kind = "rate-limit" /\ error.reset # None /\ patience.waits < MaxWaits
     /\ patience.waited + error.reset + Margin <= MaxWait

\* Slip: a refusal is retried while the provider announces a reset.
KeepCount(error) == patience
Counted(error) ==
  IF error.kind = "overload" THEN [patience EXCEPT !.overloads = @ + 1]
  ELSE [patience EXCEPT !.waits = @ + 1, !.waited = @ + error.reset + Margin]

\* Slip: the retry is handed the allowance of the first spawn.
WholeBudget(cost) == carried.budget
BudgetLeft(cost) == IF Capped THEN carried.budget - cost ELSE None
Exhausted(cost) == Capped /\ cost >= carried.budget

\* The process ends: with a price, without one, or without a result at all.  The
\* CLI ledger moves only with a price it reported.
Exits(stats, exists) ==
  /\ phase = "running"
  /\ stats.estimated => spawn.seen = spawn.own
  /\ cli' = [cli EXCEPT !.exists = exists,
                        !.ledger = IF stats = Priced THEN stats.amount ELSE spawn.restored,
                        !.persisted = IF resumes \/ exists THEN @ ELSE None]
  /\ exists \/ ~cli.exists
  /\ live' = IF stats = Priced THEN carried.cost + AttemptCost(stats) ELSE live
  /\ spawn' = IF stats = Priced THEN [spawn EXCEPT !.seen = spawn.own, !.killed = @ \/ OverBudget(AttemptCost(stats))]
              ELSE spawn

\* A success, a crash, a kill or an error nothing waits for ends the attempt.
Finish ==
  \E stats \in {Priced, Unpriced}, exists \in BOOLEAN :
    Exits(stats, exists) /\ Closed(stats)

\* A refusal by the provider, in the result event: the attempt pauses, or ends when
\* it is not waited out or when it consumed the allowance.
Refused ==
  \E stats \in {Priced, Unpriced}, exists \in BOOLEAN, error \in Errors :
    /\ Exits(stats, exists)
    /\ IF ~Waits(error) THEN Closed(stats)
       ELSE IF Exhausted(AttemptCost(stats))
         THEN /\ charge' = [amount |-> AttemptCost(stats) + carried.cost, unknown |-> stats.amount = None]
              /\ patience' = Counted(error) /\ phase' = "done"
              /\ UNCHANGED <<resumes, carried, spent>>
       ELSE /\ stats.amount # None \/ spawn.own = 0
            /\ patience' = Counted(error) /\ phase' = "paused"
            /\ carried' = [cost |-> carried.cost + AttemptCost(stats),
                           ledger |-> OrZero(spawn.baseline) + (IF stats.estimated THEN 0 ELSE AttemptCost(stats)),
                           budget |-> BudgetLeft(AttemptCost(stats)),
                           real |-> spent]
            /\ UNCHANGED <<resumes, charge, spent>>

\* The pause is over: a session the first spawn created is resumed, since the CLI
\* would refuse to create it again.
Retry ==
  /\ phase = "paused"
  /\ resumes' = (resumes \/ cli.exists)
  /\ cli' = IF resumes' THEN cli ELSE [cli EXCEPT !.ledger = 0]
  /\ phase' = "ready"
  /\ UNCHANGED <<spawn, carried, patience, live, charge, spent>>

\* A signal closes the attempt on the last published figure.
Abort ==
  /\ phase \in {"ready", "running", "paused"}
  /\ charge' = [amount |-> live, unknown |-> live = None]
  /\ phase' = "aborted"
  /\ UNCHANGED <<resumes, cli, spawn, carried, patience, live, spent>>

Progress == Spawn \/ Finish \/ Refused \/ Retry
Next == Progress \/ Spend \/ Stream \/ Flush \/ Abort
Spec == Init /\ [][Next]_vars
\* A process ends, if only by its timeout, and a pause is a timer.
FairSpec == Spec /\ WF_vars(Progress)

----------------------------------------------------------------------------
\* What the attempt is charged is what its spawns spent: no ancestor of the session
\* and no discarded spawn is paid twice, and none is forgotten.  A spawn that died
\* before its usage was streamed leaves a lower bound that says so.
ChargedWhatWasSpent ==
  phase = "done" =>
    IF charge.unknown THEN OrZero(charge.amount) <= spent ELSE charge.amount = spent

\* An abort charges at least the discarded spawns and the usage that was streamed.
AbortForgetsNothing ==
  phase = "aborted" /\ carried.cost > 0 => charge.amount # None /\ charge.amount >= carried.real

\* A spawn is killed for the budget only when this attempt overspent it, whatever
\* the session it resumes had spent before.
KilledForItsOwnSpend == spawn.killed => spent > Budget

\* A retry is spawned only with allowance left, and with all that is left.
RetryWithinAllowance ==
  phase = "running" /\ Capped => carried.budget = Budget - carried.real /\ (carried.real > 0 => carried.budget > 0)

\* cost-state.ts: "A missing baseline means the attempt is charged in full".
NeverUnderCharged == phase = "done" /\ ~charge.unknown => charge.amount >= spent
=============================================================================
