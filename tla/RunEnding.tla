------------------------------ MODULE RunEnding ------------------------------
(***************************************************************************)
(* How a run ends, and what each reader says of it.                        *)
(*   run/record/run-status.ts        the meaning of a status, the endings  *)
(*   run/record/run-verdict.ts       the verdict from steps and signals    *)
(*   run/record/run-transitions.ts   step and run transitions, finalizeRun *)
(*   execution/step/step-loop.ts     the signals the loop returns          *)
(*   entry/composition/execution.ts  reportRun: finalize, report, exit     *)
(*   entry/output/run-report.ts, console-reporter.ts   the final report    *)
(*   dashboard/read-model/run-facts.ts   the facts the dashboard shows     *)
(*                                                                         *)
(* One run over several invocations: its steps are admitted in order, the  *)
(* members of a group run together, a signal or a death may come at any    *)
(* time, and the next invocation goes on.  Reasons are left out: an        *)
(* outcome keeps the step, the kinds and the stop it names.  The attempts  *)
(* of one step and its fixes are one result (FixLoop details them).        *)
(***************************************************************************)
EXTENDS Naturals, FiniteSets

CONSTANTS N, GroupOf, \* steps 1..N; the members of one group are consecutive
          Reconcile,   \* the pipeline declares .reconcile(): selections last one invocation
          Bounds,      \* what --until may name, 0 for nothing
          Results, Refusals, \* what a pass may answer, what an admission may answer but "run"
          MaxInvocations, \* bound
          KeptOrdinary \* ordinary steps the console keeps (8 in the code)

VARIABLES
    run,   \* the snapshot: [steps, status, aborted, stopped, outcome]
    cost,  \* [capped, authorized, over, latched, unpriced]
    loop,  \* the invocation: what it works on and what it was asked to stop for
    said,  \* what the last report and exit code said
    count  \* invocations
vars == <<run, cost, loop, said, count>>

Steps == 1..N
Settled == {"done", "skipped"}
NoOutcome == [phase |-> 0, kind |-> "none", cause |-> "none", stop |-> "none", stopKind |-> "none", resumable |-> TRUE]
NoAsk == [failed |-> FALSE, stopped |-> FALSE, budget |-> FALSE, cost |-> FALSE]
Pending == [st |-> "pending", kind |-> "none", cause |-> "none"]
Unfinished == {s \in Steps : run.steps[s].st \notin Settled}
FirstOf(S) == IF S = {} THEN 0 ELSE CHOOSE s \in S : \A t \in S : s <= t

TypeOK ==
    /\ \A s \in Steps : /\ run.steps[s].st \in {"pending", "running", "done", "failed", "aborted", "skipped"}
                        /\ run.steps[s].kind \in {"none", "technical", "verdict"}
                        /\ run.steps[s].cause \in {"none", "blocked"}
    /\ run.status \in {"RUNNING", "PASS", "FAIL", "STOPPED", "ABORTED", "UNKNOWN"}
    /\ run.outcome.phase \in 0..N
    /\ loop.at \in {"off", "admit", "pass"}
    /\ loop.inflight \subseteq Steps
    /\ loop.at = "off" => loop.inflight = {}

-----------------------------------------------------------------------------
(* run-status.ts: the two tables. *)

Meaning ==
    [verdict   |-> {"PASS", "FAIL", "STOPPED", "ABORTED"},
     completed |-> {"PASS"},
     failure   |-> {"FAIL", "ABORTED"},
     halted    |-> {"STOPPED", "ABORTED"},
     awaitsHuman |-> {"FAIL", "STOPPED", "ABORTED"},
     provisional |-> {"RUNNING", "ABORTED"},
     resumable |-> {"FAIL", "STOPPED", "ABORTED", "UNKNOWN"}]

CostStop(f) == IF f.budget THEN "budget-exceeded" ELSE IF f.costStop THEN "cost-unaccounted" ELSE "none"
Quiet(f) == IF f.cost THEN "failure" ELSE IF f.until THEN "until" ELSE "success"
StoppedOrFailed(f) == IF f.stopped THEN "STOPPED" ELSE "FAIL"

\* Slip: a settled run passes before its clean stop is looked at, and a failure before the budget.
RunEndingSwapped(f) ==
    LET is(kind, status, exit) == [kind |-> kind, status |-> status, exit |-> exit]
        c == CostStop(f)
    IN CASE f.aborted -> is("aborted", "ABORTED", "interrupted")
         [] ~f.aborted /\ f.stopped -> is("stopped", "STOPPED", Quiet(f))
         [] ~f.aborted /\ ~f.stopped /\ (f.failed \/ c # "none") -> is("failure", "FAIL", "failure")
         [] OTHER -> is("success", "PASS", Quiet(f))
\* runEnding: the first row of ENDINGS that matches.
RunEnding(f) ==
    LET is(kind, status, exit) == [kind |-> kind, status |-> status, exit |-> exit]
        c == CostStop(f)
    IN IF f.aborted THEN is("aborted", "ABORTED", "interrupted")
       ELSE IF c = "budget-exceeded" THEN is("budget", StoppedOrFailed(f), "failure")
       ELSE IF f.failed /\ c = "none" THEN is(IF f.verdict THEN "verdict" ELSE "failure", StoppedOrFailed(f), "failure")
       ELSE IF c = "cost-unaccounted" THEN is("cost", StoppedOrFailed(f), "failure")
       ELSE IF f.stopped THEN is("stopped", "STOPPED", Quiet(f))
       ELSE IF f.cost THEN is("unknown", "FAIL", "failure")
       ELSE IF f.settled THEN is("success", "PASS", Quiet(f))
       ELSE is("unknown", "UNKNOWN", Quiet(f))
NoFacts == [aborted |-> FALSE, stopped |-> FALSE, failed |-> FALSE, verdict |-> FALSE, budget |-> FALSE,
            cost |-> FALSE, costStop |-> FALSE, until |-> FALSE, settled |-> FALSE]

EffectiveStatus == IF run.status \in Meaning.verdict THEN run.status
                   ELSE IF loop.at # "off" THEN "RUNNING" ELSE "ABORTED"

-----------------------------------------------------------------------------
(* run-verdict.ts and run-transitions.ts *)

\* Slip: the verdict reads the headline of the row.
DeriveStatusKind(r, sig) ==
    RunEnding([NoFacts EXCEPT !.aborted = r.aborted \/ \E s \in Steps : r.steps[s].st = "aborted",
                              !.stopped = sig.stopped \/ r.stopped,
                              !.failed = sig.failed \/ \E s \in Steps : r.steps[s].st = "failed",
                              !.budget = sig.budget, !.cost = sig.cost,
                              !.settled = \A s \in Steps : r.steps[s].st \in Settled]).kind
\* deriveRunStatus
DeriveStatus(r, sig) ==
    RunEnding([NoFacts EXCEPT !.aborted = r.aborted \/ \E s \in Steps : r.steps[s].st = "aborted",
                              !.stopped = sig.stopped \/ r.stopped,
                              !.failed = sig.failed \/ \E s \in Steps : r.steps[s].st = "failed",
                              !.budget = sig.budget, !.cost = sig.cost,
                              !.settled = \A s \in Steps : r.steps[s].st \in Settled]).status

\* Slip: an aborted run still takes transitions.
UpdateStepAlways(r, s, st, kind, cause) ==
    [r EXCEPT !.steps[s] = [st |-> st, kind |-> kind, cause |-> cause],
              !.status = CASE st = "running" -> "RUNNING" [] st = "failed" -> "FAIL" [] OTHER -> @]
\* updateStep: nothing moves on an aborted run; running and skipped clear the failure.
UpdateStep(r, s, st, kind, cause) ==
    IF r.aborted THEN r
    ELSE [r EXCEPT !.steps[s] = [st |-> st, kind |-> kind, cause |-> cause],
                   !.status = CASE st = "running" -> "RUNNING" [] st = "failed" -> "FAIL" [] OTHER -> @,
                   !.outcome = IF st = "failed"
                               THEN [NoOutcome EXCEPT !.phase = s, !.kind = kind, !.cause = cause] ELSE @]
\* stopRun
StopRun(r, s, stop) ==
    IF r.aborted THEN r
    ELSE [r EXCEPT !.stopped = TRUE, !.status = "STOPPED", !.outcome = [NoOutcome EXCEPT !.phase = s, !.stop = stop]]
\* abortRun: what this process executes is aborted.
AbortRun(r, executing) ==
    LET cut == {s \in executing : r.steps[s].st = "running"}
    IN [r EXCEPT !.steps = [s \in Steps |-> IF s \in cut THEN [@[s] EXCEPT !.st = "aborted"] ELSE @[s]],
                 !.aborted = TRUE, !.status = "ABORTED", !.outcome = [NoOutcome EXCEPT !.phase = FirstOf(cut)]]

\* Slip: the outcome of a clean stop is rebuilt without what the step established.
FinalizeBare(r, sig) ==
    LET status == DeriveStatus(r, sig)
    IN [r EXCEPT !.status = status, !.outcome = [NoOutcome EXCEPT !.phase = r.outcome.phase,
                                                                  !.resumable = status \in Meaning.resumable]]
\* Slip: an interruption opts out of the next resume, as it once did.
FinalizeDiscards(r, sig) ==
    LET status == DeriveStatus(r, sig)
    IN [r EXCEPT !.status = status, !.outcome.resumable = status \in {"FAIL", "STOPPED", "UNKNOWN"}]
\* finalizeRun
FinalizeRun(r, sig) ==
    LET status == DeriveStatus(r, sig)
        failed == FirstOf({s \in Steps \ sig.setAside : r.steps[s].st = "failed"})
        kept(own, was) == IF failed # 0 /\ own # "none" THEN own ELSE was
        fk == kept(IF failed = 0 THEN "none" ELSE r.steps[failed].kind, r.outcome.kind)
        fc == kept(IF failed = 0 THEN "none" ELSE r.steps[failed].cause, r.outcome.cause)
        base == [NoOutcome EXCEPT !.phase = IF failed # 0 THEN failed ELSE r.outcome.phase,
                                  !.resumable = status \in Meaning.resumable]
        o == CASE status = "ABORTED" -> base
               [] status = "STOPPED" -> [base EXCEPT !.kind = fk, !.cause = fc, !.stop = r.outcome.stop]
               [] status = "FAIL" -> [base EXCEPT !.kind = fk, !.cause = fc, !.stopKind = CostStop(sig)]
               [] OTHER -> [base EXCEPT !.phase = 0]
    IN [r EXCEPT !.status = status, !.outcome = o]

-----------------------------------------------------------------------------
(* The ledger. *)

Strict == cost.capped /\ ~cost.authorized
\* costDecision
Decision(c) == CostStop([budget |-> c.latched \/ c.over, costStop |-> c.unpriced /\ c.capped /\ ~c.authorized])
\* ledgerStops: only unfinished work can be stopped.
LedgerStops(c, withheld, unfinished) ==
    LET unaccounted == unfinished /\ Decision(c) = "cost-unaccounted"
    IN [budget |-> c.latched /\ unfinished, cost |-> unaccounted, costStop |-> withheld /\ unaccounted]

-----------------------------------------------------------------------------
(* The loop. *)

NoLoop == [at |-> "off", next |-> 1, admitted |-> {}, inflight |-> {}, ask |-> NoAsk, halt |-> FALSE,
           withheld |-> FALSE, bound |-> 0, out |-> {}, setAside |-> {}, left |-> 0, reached |-> FALSE, ran |-> {}]
NothingSaid == [kind |-> "none"]
Asked(a) == loop' = [loop EXCEPT !.ask = a, !.halt = TRUE]
\* The run has steps to execute, or a verdict to stamp.
Owed == run.outcome.resumable /\ (Unfinished # {} \/ run.status \in Meaning.provisional)

\* A new invocation opens the run; --budget lifts the ceiling stop, --allow-unmetered the other.
Invoke ==
    /\ loop.at = "off" /\ count < MaxInvocations /\ Owed
    /\ \E b \in Bounds, out \in (IF Reconcile THEN SUBSET Steps ELSE {{}}), money, allow \in BOOLEAN :
          /\ loop' = [NoLoop EXCEPT !.at = "admit", !.bound = b, !.out = out]
          /\ cost' = [cost EXCEPT !.over = @ /\ ~money, !.latched = @ /\ ~money, !.authorized = @ \/ allow]
    /\ run' = [run EXCEPT !.status = "RUNNING", !.aborted = FALSE, !.stopped = FALSE, !.outcome = NoOutcome]
    /\ count' = count + 1 /\ said' = NothingSaid

Going == loop.at = "admit" /\ ~loop.halt /\ ~run.aborted
\* The unit of the admitted steps goes on with the next step.
SameUnit(s) == \A a \in loop.admitted : GroupOf[a] = GroupOf[s]
Reached(s) == /\ loop.bound # 0 /\ s > loop.bound
              /\ run.steps[loop.bound].st \in Settled \/ loop.bound \in loop.setAside
AtNext(s) == Going /\ s = loop.next /\ s \in Steps /\ SameUnit(s)

ReachBound(s) ==
    /\ AtNext(s) /\ Reached(s)
    /\ loop' = [loop EXCEPT !.reached = TRUE, !.halt = TRUE]
    /\ UNCHANGED <<run, cost, said, count>>

\* skipForOperatorSelection: an unfinished pass keeps its status.
LeaveOut(s) ==
    /\ AtNext(s) /\ ~Reached(s) /\ s \in loop.out
    /\ LET unfinished == run.steps[s].st \in {"failed", "aborted", "running"}
       IN /\ loop' = [loop EXCEPT !.next = s + 1, !.setAside = @ \cup {s},
                                  !.left = IF unfinished /\ @ = 0 THEN s ELSE @]
          /\ run' = IF unfinished \/ run.steps[s].st = "done" THEN run ELSE UpdateStep(run, s, "skipped", "none", "none")
    /\ UNCHANGED <<cost, said, count>>

\* admitStep, and admissionStop for a refusal.
Admit(s) ==
    /\ AtNext(s) /\ ~Reached(s) /\ s \notin loop.out
    /\ \/ /\ run.steps[s].st \in Settled
          /\ loop' = [loop EXCEPT !.next = s + 1] /\ run' = run
       \/ /\ run.steps[s].st \notin Settled /\ Decision(cost) # "none"
          /\ loop' = [loop EXCEPT !.halt = TRUE, !.withheld = @ \/ Decision(cost) = "cost-unaccounted",
                                  !.ask = IF Decision(cost) = "budget-exceeded" THEN [NoAsk EXCEPT !.budget = TRUE]
                                          ELSE [NoAsk EXCEPT !.cost = TRUE]]
          /\ run' = run
       \/ /\ run.steps[s].st \notin Settled /\ Decision(cost) = "none"
          /\ \/ loop' = [loop EXCEPT !.next = s + 1, !.admitted = @ \cup {s}] /\ run' = run
             \/ "skip" \in Refusals /\ loop' = [loop EXCEPT !.next = s + 1]
                /\ run' = UpdateStep(run, s, "skipped", "none", "none")
             \/ "gate" \in Refusals /\ Asked([NoAsk EXCEPT !.stopped = TRUE]) /\ run' = StopRun(run, s, "gate")
             \/ "refused" \in Refusals /\ Asked([NoAsk EXCEPT !.failed = TRUE])
                /\ run' = UpdateStep(run, s, "failed", "none", "none")
    /\ UNCHANGED <<cost, said, count>>

Launch ==
    /\ Going /\ loop.admitted # {} /\ (loop.next \in Steps => ~SameUnit(loop.next))
    /\ run' = [run EXCEPT !.status = "RUNNING",
                          !.steps = [s \in Steps |-> IF s \in loop.admitted THEN [Pending EXCEPT !.st = "running"] ELSE @[s]]]
    /\ loop' = [loop EXCEPT !.at = "pass", !.inflight = loop.admitted, !.admitted = {}, !.ran = @ \cup loop.admitted]
    /\ UNCHANGED <<cost, said, count>>

\* Slip: a failure beside a stop is not merged.
AfterPassStopOnly(res) == [loop.ask EXCEPT !.stopped = @ \/ res = "blocked",
                                           !.failed = (@ \/ res \in {"failed", "verdict", "killed"}) /\ ~loop.ask.stopped]
\* mergeStops of the members' passes.
AfterPass(res) == [loop.ask EXCEPT !.stopped = @ \/ res = "blocked", !.failed = @ \/ res \in {"failed", "verdict", "killed"}]

\* resolveOutcome: the attempts of a pass come to a result, unpriced or not, its retry withheld or not.
Settle(s, res) ==
    /\ loop.at = "pass" /\ s \in loop.inflight /\ res \in Results
    /\ \E u \in BOOLEAN, over \in BOOLEAN, w \in BOOLEAN :
         LET c == [cost EXCEPT !.unpriced = @ \/ u, !.over = (@ \/ over) /\ cost.capped, !.latched = @ \/ res = "killed"]
         IN /\ res = "killed" => cost.capped /\ ~over
            /\ w => res \in {"failed", "verdict"} /\ Decision(c) = "cost-unaccounted"
            /\ cost' = IF run.aborted THEN cost ELSE c
            /\ loop' = [loop EXCEPT !.inflight = @ \ {s}, !.withheld = @ \/ w,
                                    !.ask = IF run.aborted THEN @ ELSE AfterPass(res)]
    /\ run' = CASE res = "done" -> UpdateStep(run, s, "done", "none", "none")
                [] res \in {"failed", "killed"} -> UpdateStep(run, s, "failed", "technical", "none")
                [] res = "verdict" -> UpdateStep(run, s, "failed", "verdict", "none")
                [] res = "blocked" -> StopRun(UpdateStep(run, s, "failed", "technical", "blocked"), s, "blocked")
    /\ UNCHANGED <<said, count>>

\* Every member settled: the loop goes on or stops.
PassOver ==
    /\ loop.at = "pass" /\ loop.inflight = {}
    /\ loop' = [loop EXCEPT !.at = "admit", !.halt = @ \/ loop.ask # NoAsk]
    /\ UNCHANGED <<run, cost, said, count>>

\* SIGINT or SIGTERM; the results of what it killed still arrive.
Abort ==
    /\ loop.at # "off" /\ ~run.aborted
    /\ run' = AbortRun(run, loop.inflight)
    /\ UNCHANGED <<cost, loop, said, count>>

Die ==
    /\ loop.at # "off"
    /\ loop' = NoLoop
    /\ UNCHANGED <<run, cost, said, count>>

\* Slip: the last steps are kept, whatever they are.
ShownLast(r) ==
    LET executed == {s \in Steps : r.steps[s].st \notin {"pending", "skipped"}}
    IN {s \in executed : Cardinality({t \in executed : t > s}) < KeptOrdinary}
\* The console report keeps the last ordinary steps and every failure.
Shown(r) ==
    LET executed == {s \in Steps : r.steps[s].st \notin {"pending", "skipped"}}
        failures == {s \in executed : r.steps[s].st \in {"failed", "aborted"}}
        ordinary == executed \ failures
    IN failures \cup {s \in ordinary : Cardinality({t \in ordinary : t > s}) < KeptOrdinary}

\* executeRunSteps returns, then reportRun: finalize, report, exit code.  Nothing is awaited between.
End ==
    /\ loop.at = "admit" /\ (loop.halt \/ run.aborted \/ (loop.next > N /\ loop.admitted = {}))
    /\ LET unfinished == Unfinished # {}
           until == loop.reached /\ unfinished
           ranToEnd == loop.ask = NoAsk /\ ~until /\ ~run.aborted
           selection == ranToEnd /\ loop.left # 0
           r == CASE until -> StopRun(run, loop.bound, "until")
                  [] selection -> StopRun(run, loop.left, "needs-decision")
                  [] OTHER -> run
           led == LedgerStops(cost, loop.withheld, unfinished)
           sig == [failed |-> loop.ask.failed, stopped |-> loop.ask.stopped \/ until \/ selection, until |-> until,
                   budget |-> loop.ask.budget \/ led.budget, cost |-> loop.ask.cost \/ led.cost,
                   costStop |-> loop.ask.cost \/ led.costStop, setAside |-> loop.setAside]
           f == FinalizeRun(r, sig)
           facts == [NoFacts EXCEPT !.aborted = f.aborted, !.stopped = sig.stopped, !.failed = sig.failed,
                                    !.budget = sig.budget, !.cost = sig.cost, !.costStop = sig.costStop]
           \* reportKind: success is read from the verdict just stamped
           kind == RunEnding([facts EXCEPT !.verdict = f.outcome.kind = "verdict", !.settled = f.status \in Meaning.completed]).kind
           exit == RunEnding([facts EXCEPT !.until = sig.until]).exit
       IN /\ run' = f
          /\ said' = [kind |-> kind, exit |-> exit, status |-> f.status, shown |-> Shown(f), ran |-> loop.ran,
                      blocked |-> {s \in loop.ran : f.steps[s].cause = "blocked"}, bound |-> loop.bound,
                      failed |-> {s \in loop.ran : f.steps[s].st = "failed"}, left |-> loop.left]
    /\ loop' = NoLoop
    /\ UNCHANGED <<cost, count>>

Init ==
    /\ run = [steps |-> [s \in Steps |-> Pending], status |-> "RUNNING", aborted |-> FALSE, stopped |-> FALSE,
              outcome |-> NoOutcome]
    /\ cost \in [capped : BOOLEAN, authorized : {FALSE}, over : {FALSE}, latched : {FALSE}, unpriced : {FALSE}]
    /\ loop = NoLoop /\ said = NothingSaid /\ count = 0
Next ==
    \/ Invoke \/ Launch \/ PassOver \/ Abort \/ Die \/ End
    \/ \E s \in Steps : ReachBound(s) \/ LeaveOut(s) \/ Admit(s) \/ \E res \in Results : Settle(s, res)
Spec == Init /\ [][Next]_vars

-----------------------------------------------------------------------------
(* The dashboard's reading of a cost stop. *)

BudgetExceededOf == run.outcome.stopKind = "budget-exceeded" \/ (run.outcome.stopKind # "cost-unaccounted" /\ cost.latched)
\* Slip: the latch alone, without the ceiling or the work left.
CostUnaccountedLatch == cost.unpriced /\ run.outcome.stopKind = "none"
CostUnaccountedOf ==
    /\ Strict /\ Unfinished # {}
    /\ run.outcome.stopKind \in {"cost-unaccounted", "none"}
    /\ run.outcome.stopKind = "none" => cost.unpriced

Ended == loop.at = "off" /\ said # NothingSaid

-----------------------------------------------------------------------------
(* Properties. *)

SameEnding ==
    /\ said.kind = "success" <=> said.status = "PASS"
    /\ said.kind = "aborted" <=> said.status = "ABORTED"
    /\ said.kind = "aborted" <=> said.exit = "interrupted"
    /\ said.kind = "stopped" => said.status = "STOPPED" /\ said.exit \in {"success", "until", "failure"}
    /\ said.kind \in {"budget", "verdict", "failure", "cost"} => said.exit = "failure" /\ said.status \in {"FAIL", "STOPPED"}
Leftover == \E s \in Steps : run.steps[s].st = "aborted"
\* The status on disk, the headline of the report and the exit code tell one ending, although each
\* is computed by a call of its own from facts of its own (reportRun, reportKind, deriveRunStatus):
\* apart from an aborted step an earlier invocation left.
ReadingsAgree == Ended => (SameEnding \/ (Leftover /\ ~run.aborted))

\* The status, the report headline and the exit code of a run that ends are read from the same row
\* of one table, so no reader tells another ending.
OneEnding == Ended => SameEnding

\* An exit code that is no failure never covers a step that failed in this invocation, nor work
\* withheld because its spend cannot be priced.
QuietExitIsHonest ==
    Ended /\ said.exit \in {"success", "until"} =>
        /\ said.failed \subseteq said.blocked
        /\ ~(Strict /\ cost.unpriced /\ ~cost.over /\ ~cost.latched /\ Unfinished # {})

\* Whatever ends an invocation, a run with work left is resumed by the next one, and PASS has none left.
NothingStranded == loop.at = "off" => /\ Unfinished # {} => Owed
                                      /\ run.status = "PASS" => Unfinished = {}

\* A block that stops the run is still told as a block, with its structured stop, by the outcome
\* finalizeRun rebuilds: unless a step before it, or a member of its group, failed on its own.
BlockSurvives ==
    Ended /\ run.status = "STOPPED" /\ FirstOf({s \in Steps : run.steps[s].st = "failed"}) \in said.blocked =>
        /\ run.outcome.cause = "blocked" /\ run.outcome.phase \in said.blocked
        /\ said.failed \subseteq said.blocked => run.outcome.stop = "blocked"

\* The outcome of a run stopped by a block carries the block, so a composing parent sees it.
BlockIsTold == Ended /\ run.status = "STOPPED" /\ run.outcome.stop = "blocked" => run.outcome.cause = "blocked"

\* The outcome names the step the invocation stopped at, never a step that did not run in it.
OutcomeNamesRealStop ==
    Ended /\ run.status = "STOPPED" /\ run.outcome.stop = "until" => run.outcome.phase \in said.ran \cup {said.bound}

\* A run whose loop is live with a step in flight reads RUNNING.
LiveIsRunning == loop.inflight # {} /\ ~run.aborted => EffectiveStatus = "RUNNING"

\* The dashboard tells the operator which flag lifts a cost stop the report named.
WithheldIsTold == Ended => /\ said.kind = "cost" => CostUnaccountedOf /\ ~BudgetExceededOf
                           /\ said.kind = "budget" /\ cost.latched => BudgetExceededOf

\* Only a run that stopped because its spending could not be accounted for is told so.
CostBlame == Ended /\ CostUnaccountedOf => said.kind = "cost"

\* The console report shows every failed or interrupted step, however long the run.
FailuresShown == Ended => {s \in Steps : run.steps[s].st \in {"failed", "aborted"}} \subseteq said.shown

\* After the interruption the late result of a killed attempt moves nothing: no step changes and the
\* status stays ABORTED until the next invocation.
AbortSticks == run.aborted /\ loop.at # "off" => run'.steps = run.steps /\ run'.status = "ABORTED"
=============================================================================
