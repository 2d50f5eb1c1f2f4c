----------------------------- MODULE RunRecord -----------------------------
(***************************************************************************)
(* The durable record of one run: the snapshot state.json, the journal     *)
(* events.jsonl, and the process that executes the pipeline over them      *)
(* (src/run/record, and the step loop of src/execution/step).              *)
(*                                                                         *)
(* The runner is single-threaded and writes its files synchronously, so a  *)
(* transition is one action on memory and leaves its disk writes, in the   *)
(* order the code makes them, in outbox.  While outbox is not empty only   *)
(* Flush (one write reaches the disk) or Crash can happen: a SIGKILL may   *)
(* fall between any two writes, a signal handler may not.                  *)
(*                                                                         *)
(* Simplifications: an amount is a small natural and 0 is "no amount       *)
(* reported"; tokens is the fact that some were measured; a ceiling of 0   *)
(* is no ceiling; prose, timestamps, sessions and log paths are left out;  *)
(* run-level events, which no resume reads, are not kept.  The pipeline is *)
(* in legacy (non reconcile) mode, with plain steps.                       *)
(***************************************************************************)
EXTENDS Integers, Sequences, FiniteSets

Seqs == INSTANCE SequencesExt

CONSTANTS
  NSteps,           \* the steps are 1..NSteps, in pipeline order
  Group,            \* the members of the one parallelize group, {} for none
  Metered,          \* agent steps, whose silent failures cost an unknown amount
  NonBlocking,      \* steps declared blocking: false
  DeclaredReplay,   \* steps declared replayInterrupted: true
  RerunOnResume,    \* steps declared rerunOnResume
  MaxRetries,       \* [Steps -> Nat]: onFail retries, 0 for no onFail
  Ceiling,          \* max_cost_usd of the definition, 0 for none
  Prices,           \* what one attempt may cost
  Invocations,      \* the command lines an operator may resume with
  MaxAttempts,      \* bound: attempts of one step
  MaxSpend,         \* bound: dollars one run may be charged
  MaxLives,         \* bound: processes started on the run
  MaxLost           \* bound: journal appends that fail

Steps == 1..NSteps
Nums  == 1..MaxAttempts

Invocation == [budget: Nat, unmetered: BOOLEAN, replay: BOOLEAN,
               startAt: 0..NSteps, skip: SUBSET Steps, resuming: BOOLEAN]

ASSUME ConstantsAssumption ==
  /\ NSteps \in Nat \ {0} /\ MaxAttempts \in Nat \ {0}
  /\ MaxLives \in Nat /\ MaxLost \in Nat /\ Ceiling \in Nat /\ MaxSpend \in Nat
  /\ Prices \subseteq Nat \ {0}
  /\ MaxRetries \in [Steps -> Nat]
  /\ Group \subseteq Steps /\ Metered \subseteq Steps
  /\ NonBlocking \subseteq Steps /\ DeclaredReplay \subseteq Steps
  /\ RerunOnResume \subseteq Steps
  /\ Invocations \subseteq Invocation

\* The build refuses a group whose members are not declared together.
ASSUME GroupAssumption ==
  \A s, t \in Group, u \in Steps : s < u /\ u < t => u \in Group

Unit(s) == IF s \in Group THEN Group ELSE {s}
Ascending(S) == CHOOSE f \in [1..Cardinality(S) -> S] :
                  \A i, j \in 1..Cardinality(S) : i < j => f[i] < f[j]

----------------------------------------------------------------------------
(* Statuses, figures and records. *)

StepStatus == {"pending", "running", "done", "failed", "skipped", "aborted"}
Settled    == {"done", "skipped"}
OwesWork   == StepStatus \ Settled
RunStatus  == {"RUNNING", "PASS", "FAIL", "STOPPED", "ABORTED", "UNKNOWN"}
Verdicts   == {"PASS", "FAIL", "STOPPED", "ABORTED"}

Figure  == [cost: 0..MaxSpend, unknown: BOOLEAN, tokens: BOOLEAN]
Attempt == [status: {"none", "running", "done", "failed", "aborted"},
            fig: Figure, interrupted: BOOLEAN]
Step    == [status: StepStatus, last: 0..MaxAttempts, retries: Int,
            spend: Figure, replay: BOOLEAN]
Run     == [status: RunStatus, aborted: BOOLEAN, stopped: BOOLEAN,
            exceeded: BOOLEAN, unaccounted: BOOLEAN, unmetered: BOOLEAN,
            max: Nat, step: [Steps -> Step]]

NoFigure  == [cost |-> 0, unknown |-> FALSE, tokens |-> FALSE]
Silent    == [cost |-> 0, unknown |-> TRUE, tokens |-> FALSE]
Unpriced  == [cost |-> 0, unknown |-> TRUE, tokens |-> TRUE]
Priced(c) == [cost |-> c, unknown |-> FALSE, tokens |-> TRUE]

NoAttempt   == [status |-> "none", fig |-> NoFigure, interrupted |-> FALSE]
OpenRecord  == [NoAttempt EXCEPT !.status = "running"]
NoAttempts  == [s \in Steps |-> [n \in Nums |-> NoAttempt]]
NoRun       == [status |-> "none"]

\* mergeControl: amounts add up, the unknown mark is sticky.
Merge(f, g) == [cost |-> f.cost + g.cost, unknown |-> f.unknown \/ g.unknown,
                tokens |-> f.tokens \/ g.tokens]

\* isUnpricedSpend: the mark alone is a precaution, not evidence.
ProvesUnpriced(f) == f.unknown /\ (f.tokens \/ f.cost > 0)

Known(a) == {n \in Nums : a[n].status # "none"}
LastNum(a) == IF Known(a) = {} THEN 0
              ELSE CHOOSE n \in Known(a) : \A m \in Known(a) : m <= n

\* The sum of the figures of the attempts a journal projection holds.
SumAttempts(a) ==
  LET sum[n \in 0..MaxAttempts] ==
        IF n = 0 THEN NoFigure ELSE Merge(sum[n - 1], a[n].fig)
  IN  sum[MaxAttempts]

\* aggregateControl, the amount: what the steps of a run add up to.
RunCost(r) ==
  LET sum[n \in 0..NSteps] ==
        IF n = 0 THEN 0 ELSE sum[n - 1] + r.step[n].spend.cost
  IN  sum[NSteps]

\* The bound on spending, asked of every run an action computes.
WithinSpend(r) ==
  RunCost(r) \in 0..MaxSpend /\ \A s \in Steps : r.step[s].spend \in Figure

AllSettled(r) == \A s \in Steps : r.step[s].status \in Settled

\* remainingWork: a step to execute, or a verdict never stamped.
\* Slip: only a RUNNING run is owed its verdict, an interrupted one is not.
RunningOwed(r) == AllSettled(r) /\ r.status = "RUNNING"
VerdictOwed(r) == AllSettled(r) /\ r.status \in {"RUNNING", "ABORTED"}
Owed(r) == ~AllSettled(r) \/ VerdictOwed(r)

----------------------------------------------------------------------------
VARIABLES
  pc,         \* "off", "booted", "admit", "pass", "ending", "done"
  run,        \* the Run in memory, NoRun while no process executes it
  att,        \* the attempts in memory, by step and number
  budget,     \* the RunBudget ledger
  executing,  \* steps whose pass this process started
  stage,      \* where the pass of each step stands
  result,     \* what the last attempt of each step answered
  reruns,     \* steps whose current result is a rerun's
  cursor,     \* next step the loop looks at
  admitted,   \* members of the current unit admitted so far
  stop,       \* the StepLoopStop of this execution
  inv,        \* the command line of this process
  requested,  \* the abort scope received a signal
  outbox,     \* disk writes the current transition still has to make
  snap,       \* disk: state.json
  jStatus,    \* disk: last step.status.changed of each step
  jAtt,       \* disk: attempts projected from the journal
  jStops,     \* disk: live-guard stops journaled and not lifted since
  lives, lost, \* how many processes started, how many appends failed
  finished,   \* history: steps whose completion reached the disk
  died,       \* history: steps a hard death caught with an attempt in flight
  logs        \* history: attempts spawned, by step and number

memory  == <<pc, run, att, budget, executing, stage, result, reruns, cursor,
             admitted, stop, inv, requested>>
disk    == <<snap, jStatus, jAtt, jStops>>
history == <<lives, lost, finished, died, logs>>
vars    == <<memory, outbox, disk, history>>

NoStop   == [failed |-> FALSE, stopped |-> FALSE, exceeded |-> FALSE,
             unaccounted |-> FALSE]
NoBudget == [cum |-> 0, exceeded |-> FALSE, unknown |-> FALSE]
NoInvocation == [budget |-> 0, unmetered |-> FALSE, replay |-> FALSE,
                 startAt |-> 0, skip |-> {}, resuming |-> FALSE]
NoResult == [ok |-> FALSE, fig |-> NoFigure, cut |-> "none", blocked |-> FALSE]
Idle     == [s \in Steps |-> "idle"]
NoResults == [s \in Steps |-> NoResult]

----------------------------------------------------------------------------
(* What reaches the disk. *)

StatusEvent(s, st) == [kind |-> "status", step |-> s, status |-> st]
StartEvent(s, n)   == [kind |-> "start", step |-> s, n |-> n]
FinishEvent(s, n, a) == [kind |-> "finish", step |-> s, n |-> n, attempt |-> a]
GuardEvent(why)    == [kind |-> "guard", why |-> why]
SaveEntry(r)       == [kind |-> "save", run |-> r]

\* saveRun: after an abort only the ABORTED record may be written.
Saved(r) == IF r.aborted /\ r.status # "ABORTED" THEN <<>> ELSE <<SaveEntry(r)>>

\* updateStep, as the run it leaves and the writes it makes.
WithStatus(r, s, st) ==
  [r EXCEPT !.step[s].status = st,
            !.step[s].replay = IF st \in Settled THEN FALSE ELSE @,
            !.status = CASE st = "running" -> "RUNNING"
                         [] st = "failed"  -> "FAIL"
                         [] OTHER          -> @]
StatusWrites(r, s, st) == <<StatusEvent(s, st)>> \o Saved(WithStatus(r, s, st))

\* stopRun: the steps are the caller's.
Stopped(r) == [r EXCEPT !.stopped = TRUE, !.status = "STOPPED"]

UpdateStep(s, st) ==
  /\ run' = WithStatus(run, s, st)
  /\ executing' = IF st = "running" THEN executing \cup {s} ELSE executing \ {s}
  /\ outbox' = StatusWrites(run, s, st)

\* Slip: the gate lets the last dollar be spent twice.
LooseDecision(r, b) ==
  IF b.exceeded \/ (r.max # 0 /\ b.cum > r.max) THEN "exceeded"
  ELSE IF b.unknown /\ r.max # 0 /\ ~r.unmetered THEN "unaccounted" ELSE "none"

\* costDecision: a reached ceiling outranks uncertainty.
StrictAccounting(r) == r.max # 0 /\ ~r.unmetered
CostDecision(r, b) ==
  IF b.exceeded \/ (r.max # 0 /\ b.cum >= r.max) THEN "exceeded"
  ELSE IF b.unknown /\ StrictAccounting(r) THEN "unaccounted" ELSE "none"

\* deriveRunStatus, through the rows of ENDINGS that set a status.
DerivedStatus(r, sig) ==
  LET failed  == sig.failed \/ \E s \in Steps : r.step[s].status = "failed"
      stopped == sig.stopped \/ r.stopped
      halt    == IF stopped THEN "STOPPED" ELSE "FAIL"
  IN  IF r.aborted \/ \E s \in Steps : r.step[s].status = "aborted" THEN "ABORTED"
      ELSE IF sig.exceeded \/ failed THEN halt
      ELSE IF stopped THEN "STOPPED"
      ELSE IF sig.unaccounted THEN "FAIL"
      ELSE IF AllSettled(r) THEN "PASS" ELSE "UNKNOWN"

----------------------------------------------------------------------------
(* Opening the run: create, or restore the snapshot and its journal.       *)

Init ==
  /\ pc = "off" /\ run = NoRun /\ att = NoAttempts /\ budget = NoBudget
  /\ executing = {} /\ stage = Idle /\ result = NoResults /\ reruns = {}
  /\ cursor = 1 /\ admitted = {} /\ stop = NoStop /\ inv = NoInvocation
  /\ requested = FALSE /\ outbox = <<>>
  /\ snap = NoRun /\ jStatus = [s \in Steps |-> "none"] /\ jAtt = NoAttempts
  /\ jStops = {}
  /\ lives = 0 /\ lost = 0 /\ finished = {} /\ died = {} /\ logs = {}

\* --start-at leaves the earlier steps out and requeues the later ones.
Excludes(i, s) == IF i.startAt # 0 THEN s < i.startAt ELSE s \in i.skip
Replays(i, s)  == i.startAt # 0 /\ s >= i.startAt

NewStep(i, s) ==
  [status |-> IF Excludes(i, s) THEN "skipped" ELSE "pending",
   last |-> 0, retries |-> 0, spend |-> NoFigure,
   replay |-> ~Excludes(i, s) /\ Replays(i, s)]

Create(i) ==
  LET r == [status |-> "RUNNING", aborted |-> FALSE, stopped |-> FALSE,
            exceeded |-> FALSE, unaccounted |-> FALSE, unmetered |-> i.unmetered,
            max |-> IF i.budget # 0 THEN i.budget ELSE Ceiling,
            step |-> [s \in Steps |-> NewStep(i, s)]]
  IN  /\ pc = "off" /\ snap = NoRun /\ lives < MaxLives
      /\ pc' = "booted" /\ run' = r /\ inv' = i /\ lives' = lives + 1
      /\ outbox' = Saved(r)
      /\ UNCHANGED <<att, budget, executing, stage, result, reruns, cursor,
                     admitted, stop, requested, disk, lost, finished, died, logs>>

\* Slip: an operator's replay does not outlive the event of the earlier pass.
ReconciledOverReplay(st, ev) ==
  IF st.status \notin {"pending", "running"} \/ ev \notin {"done", "failed", "skipped", "aborted"}
  THEN st
  ELSE [st EXCEPT !.status = ev, !.replay = IF ev \in Settled THEN FALSE ELSE @]

\* Slip: the resume trusts the snapshot alone.
SnapshotOnly(st, ev) == st

\* reconcileStepStatus: a terminal event wins over an unfinished snapshot,
\* except over a replay the operator requeued and that has not started.
Reconciled(st, ev) ==
  IF \/ st.replay /\ st.status = "pending"
     \/ st.status \notin {"pending", "running"}
     \/ ev \notin {"done", "failed", "skipped", "aborted"}
  THEN st
  ELSE [st EXCEPT !.status = ev, !.replay = IF ev \in Settled THEN FALSE ELSE @]

\* Slips: the journal's spend is ignored; or added to the total it is part of.
SnapshotSpend(spend, a) == spend
AddedSpend(spend, a) == Merge(spend, SumAttempts(a))

\* projectStepSpend: the snapshot total, unless the journal knows of more.
ProjectedSpend(spend, a) ==
  LET sum == SumAttempts(a) IN
  IF Known(a) = {} \/ sum.cost <= spend.cost THEN spend
  ELSE [sum EXCEPT !.tokens = @ \/ spend.tokens]

\* applySelection
Selected(st, i, s) ==
  IF Replays(i, s) THEN [st EXCEPT !.status = "pending", !.replay = TRUE]
  ELSE IF Excludes(i, s) /\ st.status \in OwesWork THEN [st EXCEPT !.status = "skipped"]
  ELSE st

\* settleCrashedAttempts: an attempt with no producer left closes unpriced.
CrashFigure(s) == IF s \in Metered THEN Silent ELSE NoFigure
\* Slip: the closure of a crashed attempt forgets that it was interrupted.
PlainFailure(s) == [status |-> "failed", fig |-> CrashFigure(s), interrupted |-> FALSE]
Crashed(s)     == [status |-> "failed", fig |-> CrashFigure(s), interrupted |-> TRUE]
SettledAttempts(s, a) ==
  [n \in Nums |-> IF a[n].status = "running" THEN Crashed(s) ELSE a[n]]
HasOpen(a) == \E n \in Nums : a[n].status = "running"

\* Slip: a verdict survives the work an operator requeues under it.
KeptVerdict(r, terminal, i) ==
  [r EXCEPT !.exceeded = i.budget = 0 /\ @,
            !.max = IF i.budget # 0 THEN i.budget ELSE @,
            !.unmetered = @ \/ i.unmetered]

\* A run that is not over is live again: its verdict and its stop are lifted.
Reopened(r, terminal, i) ==
  [r EXCEPT !.status = IF terminal THEN @ ELSE "RUNNING",
            !.aborted = terminal /\ @, !.stopped = terminal /\ @,
            !.exceeded = i.budget = 0 /\ @,
            !.max = IF i.budget # 0 THEN i.budget ELSE @,
            !.unmetered = @ \/ i.unmetered]

\* The run a process with command line i restores from a snapshot and a journal.
Restored(saved, statuses, attempts, i) ==
  LET projected == [s \in Steps |->
        [Reconciled(saved.step[s], statuses[s])
           EXCEPT !.spend = ProjectedSpend(saved.step[s].spend, attempts[s])]]
      selected == [s \in Steps |-> Selected(projected[s], i, s)]
      tookWork == \E s \in Steps : Excludes(i, s) /\ projected[s].status \in OwesWork
      hydrated == [saved EXCEPT !.step = selected]
      terminal == AllSettled(hydrated) /\ ~tookWork /\ ~VerdictOwed(hydrated)
      live == Reopened(hydrated, terminal, i)
  IN  [live EXCEPT !.step = [s \in Steps |->
        IF HasOpen(attempts[s])
        THEN [live.step[s] EXCEPT !.spend = Merge(@, CrashFigure(s))]
        ELSE live.step[s]]]

\* The writes of that opening: a finish per crashed attempt, then the snapshot.
RestoreWrites(saved, attempts, r, i) ==
  LET crashed == {s \in Steps : HasOpen(attempts[s])}
      order   == Ascending(crashed)
      open(s) == CHOOSE n \in Nums : attempts[s][n].status = "running"
      finish(s) == FinishEvent(s, open(s), Crashed(s))
      changed == crashed # {} \/ (i.unmetered /\ ~saved.unmetered)
  IN  [k \in 1..Cardinality(crashed) |-> finish(order[k])]
        \o IF r.status = "RUNNING" \/ changed THEN Saved(r) ELSE <<>>

Resume(i) ==
  LET r == Restored(snap, jStatus, jAtt, i) IN
  /\ pc = "off" /\ snap # NoRun /\ lives < MaxLives
  /\ Owed(snap) \/ i.startAt # 0
  /\ WithinSpend(r)
  /\ pc' = "booted" /\ run' = r /\ lives' = lives + 1
  /\ inv' = [i EXCEPT !.resuming = TRUE]
  /\ att' = [s \in Steps |-> SettledAttempts(s, jAtt[s])]
  /\ outbox' = RestoreWrites(snap, jAtt, r, i)
  /\ jStops' = jStops \ ((IF i.budget # 0 THEN {"budget"} ELSE {})
                          \cup (IF i.unmetered THEN {"unpriced"} ELSE {}))
  /\ UNCHANGED <<budget, executing, stage, result, reruns, cursor, admitted,
                 stop, requested, snap, jStatus, jAtt, lost, finished, died, logs>>

\* Slip: the evidence is read from the step total, which the snapshot may lack.
TotalProvesUnpriced(s) == ProvesUnpriced(run.step[s].spend)

\* stepProvesUnpricedSpend: attempts are the evidence, the step total stands
\* in for them when the journal holds none.
StepProvesUnpriced(s) ==
  LET closed == {n \in Known(att[s]) : att[s][n].status # "running"} IN
  IF closed = {} THEN ProvesUnpriced(run.step[s].spend)
  ELSE \E n \in closed : ProvesUnpriced(att[s][n].fig)

\* openRunLedger
OpenLedger ==
  LET unknown == run.unaccounted \/ \E s \in Steps : StepProvesUnpriced(s) IN
  /\ pc = "booted" /\ outbox = <<>> /\ ~requested /\ WithinSpend(run)
  /\ budget' = [cum |-> RunCost(run), exceeded |-> run.exceeded, unknown |-> unknown]
  /\ run' = [run EXCEPT !.unaccounted = unknown]
  /\ pc' = "admit"
  /\ UNCHANGED <<att, executing, stage, result, reruns, cursor, admitted, stop,
                 inv, requested, outbox, disk, history>>

----------------------------------------------------------------------------
(* The step loop: admission of a unit, member after member.               *)

Stopping == run.aborted \/ requested

\* Work the synchronous code still has to do before anyone else runs.
Busy == outbox # <<>> \/ \E s \in Steps : stage[s] \in {"admitted", "started", "opened"}

Last(s) == LastNum(att[s])
LastPassInterrupted(s) ==
  /\ run.step[s].status \in OwesWork
  /\ Last(s) # 0 /\ att[s][Last(s)].interrupted

\* interruptedReplayAuthorization
Authorized(s) ==
  s \in DeclaredReplay \/ s \in RerunOnResume \/ inv.startAt = s \/ inv.replay

UnitClosed == admitted # {} /\ (cursor > NSteps \/ cursor \notin UNION {Unit(s) : s \in admitted})
LoopOver   == cursor > NSteps /\ admitted = {}

Settles(s) ==
  \/ run.step[s].status = "skipped"
  \/ run.step[s].status = "done" /\ ~(inv.resuming /\ s \in RerunOnResume)

\* The loop is about to decide on step s.
Considers(s) ==
  /\ pc = "admit" /\ outbox = <<>> /\ ~Stopping /\ cursor = s /\ ~UnitClosed

\* What admitting a step leaves alone.
AdmissionFrame ==
  UNCHANGED <<att, budget, stage, result, reruns, inv, requested, disk, history>>

PassOver(s) ==
  /\ Considers(s) /\ Settles(s)
  /\ cursor' = cursor + 1
  /\ UNCHANGED <<pc, run, executing, admitted, stop, outbox>> /\ AdmissionFrame

\* Slip: a stop of the admission is not reported to the ending.
SilentBreak(signals) ==
  /\ pc' = "ending" /\ admitted' = {} /\ stop' = NoStop /\ cursor' = cursor

\* Nothing of the unit is launched when one of its members stops the run.
BreakLoop(signals) ==
  /\ pc' = "ending" /\ admitted' = {} /\ stop' = signals /\ cursor' = cursor

CostStopsAdmission(s) ==
  LET d == CostDecision(run, budget) IN
  /\ Considers(s) /\ ~Settles(s) /\ d # "none"
  /\ BreakLoop([NoStop EXCEPT !.exceeded = d = "exceeded", !.unaccounted = d = "unaccounted"])
  /\ UNCHANGED <<run, executing, outbox>> /\ AdmissionFrame

Funded(s) == Considers(s) /\ ~Settles(s) /\ CostDecision(run, budget) = "none"

\* applyInputDecision, action skip: a done step stays done.
WhenSkips(s) ==
  /\ Funded(s)
  /\ UpdateStep(s, IF run.step[s].status = "done" THEN "done" ELSE "skipped")
  /\ cursor' = cursor + 1
  /\ UNCHANGED <<pc, admitted, stop>> /\ AdmissionFrame

WhenStops(s) ==
  /\ Funded(s)
  /\ run' = Stopped(run) /\ outbox' = Saved(run')
  /\ BreakLoop([NoStop EXCEPT !.stopped = TRUE])
  /\ UNCHANGED executing /\ AdmissionFrame

\* A refusing input, a throwing admission or a failed preflight.
AdmissionFails(s) ==
  /\ Funded(s) /\ s \notin NonBlocking
  /\ UpdateStep(s, "failed")
  /\ BreakLoop([NoStop EXCEPT !.failed = TRUE])
  /\ AdmissionFrame

\* rejectAdmission of a blocking: false step absorbs the failure.
AdmissionAbsorbed(s) ==
  /\ Funded(s) /\ s \in NonBlocking
  /\ UpdateStep(s, "done")
  /\ cursor' = cursor + 1
  /\ UNCHANGED <<pc, admitted, stop>> /\ AdmissionFrame

NeedsDecision(s) ==
  /\ Funded(s) /\ LastPassInterrupted(s) /\ ~Authorized(s)
  /\ run' = Stopped(run) /\ outbox' = Saved(run')
  /\ BreakLoop([NoStop EXCEPT !.stopped = TRUE])
  /\ UNCHANGED executing /\ AdmissionFrame

Admit(s) ==
  /\ Funded(s) /\ (LastPassInterrupted(s) => Authorized(s))
  /\ admitted' = admitted \cup {s} /\ cursor' = cursor + 1
  /\ UNCHANGED <<pc, run, executing, stop, outbox>> /\ AdmissionFrame

Launch ==
  /\ pc = "admit" /\ outbox = <<>> /\ ~Stopping /\ UnitClosed
  /\ pc' = "pass"
  /\ stage' = [s \in Steps |-> IF s \in admitted THEN "admitted" ELSE "idle"]
  /\ UNCHANGED <<run, att, budget, executing, result, reruns, cursor, admitted,
                 stop, inv, requested, outbox, disk, history>>

\* The loop ran to its end, or an interruption breaks it.
LeaveLoop ==
  /\ pc = "admit" /\ outbox = <<>> /\ (Stopping \/ LoopOver)
  /\ pc' = "ending" /\ admitted' = {}
  /\ UNCHANGED <<run, att, budget, executing, stage, result, reruns, cursor,
                 stop, inv, requested, outbox, disk, history>>

----------------------------------------------------------------------------
(* The pass of one step: attempts, and what their results settle.         *)

PassFrame == UNCHANGED <<pc, cursor, admitted, inv, requested, disk>>

\* The members of a unit start in order, in one synchronous stretch.
StartPass(s) ==
  /\ pc = "pass" /\ outbox = <<>> /\ stage[s] = "admitted"
  /\ \A t \in Steps : /\ stage[t] \notin {"started", "opened"}
                      /\ t < s => stage[t] # "admitted"
  /\ UpdateStep(s, "running")
  /\ stage' = [stage EXCEPT ![s] = "started"]
  /\ UNCHANGED <<att, budget, result, reruns, stop, history>> /\ PassFrame

\* Slip: the next number follows the journal alone.
JournalNumber(s) == Last(s) + 1
NextNumber(s) == IF run.step[s].last > Last(s) THEN run.step[s].last + 1 ELSE Last(s) + 1

\* openAttempt: journal and snapshot before the spawn.
OpenAttempt(s) ==
  LET n == NextNumber(s)
      r == [run EXCEPT !.step[s].last = n]
  IN  /\ pc = "pass" /\ outbox = <<>> /\ stage[s] = "started" /\ n \in Nums
      /\ att' = [att EXCEPT ![s][n] = OpenRecord]
      /\ run' = r /\ outbox' = <<StartEvent(s, n)>> \o Saved(r)
      /\ stage' = [stage EXCEPT ![s] = "opened"]
      /\ died' = died \ {s}
      /\ UNCHANGED <<budget, executing, result, reruns, stop, lives, lost, finished, logs>>
      /\ PassFrame

Spawn(s) ==
  /\ pc = "pass" /\ outbox = <<>> /\ stage[s] = "opened"
  /\ stage' = [stage EXCEPT ![s] = "spawned"]
  /\ logs' = logs \cup {<<s, Last(s)>>}
  /\ UNCHANGED <<run, att, budget, executing, result, reruns, stop, outbox,
                 lives, lost, finished, died>>
  /\ PassFrame

\* What an attempt may answer.  A guard only cuts under a ceiling, and the
\* accounting guard only under the strict policy.
Results(s) ==
  LET reported == {Priced(c) : c \in Prices} \cup (IF s \in Metered THEN {Unpriced} ELSE {NoFigure})
      silent   == {CrashFigure(s)}
      answers  == [ok: {TRUE}, fig: reported, cut: {"none"}, blocked: {FALSE}]
                    \cup [ok: {FALSE}, fig: reported \cup silent, cut: {"none"}, blocked: BOOLEAN]
      budgetCut == [ok: {FALSE}, fig: reported \cup silent, cut: {"budget"}, blocked: {FALSE}]
      priceCut == [ok: {FALSE}, fig: silent, cut: {"unpriced"}, blocked: {FALSE}]
  IN  answers \cup (IF run.max # 0 /\ s \in Metered THEN budgetCut ELSE {})
              \cup (IF StrictAccounting(run) /\ s \in Metered THEN priceCut ELSE {})

\* chargeAttemptToLedger and the stops a live guard established.
Charged(b, res) ==
  [b EXCEPT !.cum = @ + res.fig.cost,
            !.exceeded = @ \/ res.cut = "budget",
            !.unknown = @ \/ ProvesUnpriced(res.fig) \/ res.cut = "unpriced"]

GuardWrites(res) == IF res.cut = "none" THEN <<>> ELSE <<GuardEvent(res.cut)>>

\* Slip: a late result closes an attempt that another closer settled.
AlwaysOpen(s) == TRUE

\* closeAttempt accepts one closure.
StillOpen(s) == att[s][Last(s)].status = "running"

\* settleAttempt: the first closer wins, a later result charges nothing.
SettleAttempt(s) ==
  /\ pc = "pass" /\ ~Busy /\ stage[s] = "spawned"
  /\ stage' = [stage EXCEPT ![s] = IF Stopping THEN "ended" ELSE "settled"]
  /\ UNCHANGED <<executing, reruns, stop, history>> /\ PassFrame
  /\ LET n == Last(s) IN
     IF ~StillOpen(s)
     THEN UNCHANGED <<run, att, budget, result, outbox>>
     ELSE \E res \in Results(s) :
       LET a == [status |-> IF res.ok THEN "done" ELSE "failed", fig |-> res.fig,
                 interrupted |-> FALSE]
           b == Charged(budget, res)
           r == [run EXCEPT !.step[s].spend = Merge(@, res.fig),
                            !.exceeded = @ \/ res.cut = "budget",
                            !.unaccounted = @ \/ ProvesUnpriced(res.fig) \/ res.cut = "unpriced"]
       IN  /\ b.cum <= MaxSpend /\ WithinSpend(r)
           /\ att' = [att EXCEPT ![s][n] = a]
           /\ budget' = b /\ run' = r
           /\ result' = [result EXCEPT ![s] = IF Stopping THEN NoResult ELSE res]
           /\ outbox' = <<FinishEvent(s, n, a)>> \o GuardWrites(res) \o Saved(r)

Resolves(s) == pc = "pass" /\ ~Busy /\ stage[s] = "settled" /\ ~run.aborted
HasHandler(s) == MaxRetries[s] > 0

\* What settling the verdict of one pass leaves alone.
EndPass(s) ==
  /\ stage' = [stage EXCEPT ![s] = "ended"]
  /\ result' = [result EXCEPT ![s] = NoResult]
  /\ reruns' = reruns \ {s}
  /\ UNCHANGED <<att, budget, history>> /\ PassFrame

Succeed(s) ==
  /\ Resolves(s) /\ result[s].ok
  /\ UpdateStep(s, "done") /\ EndPass(s) /\ UNCHANGED stop

\* An interruption seen before the verdict: the step keeps its status.
Abandon(s) ==
  /\ pc = "pass" /\ ~Busy /\ stage[s] = "settled"
  /\ \/ run.aborted
     \/ requested /\ ~result[s].ok /\ result[s].cut = "none" /\ HasHandler(s)
  /\ EndPass(s) /\ UNCHANGED <<run, executing, stop, outbox>>

\* Slip: the quota is given back to an attempt that never took it.
RefundAlways(s) ==
  LET r == [run EXCEPT !.step[s].retries = @ - 1]
  IN  /\ Resolves(s) /\ ~result[s].ok /\ result[s].cut # "none"
      /\ run' = WithStatus(r, s, "failed") /\ executing' = executing \ {s}
      /\ outbox' = Saved(r) \o StatusWrites(r, s, "failed")
      /\ stop' = [stop EXCEPT !.failed = TRUE]
      /\ EndPass(s)

\* A guard kill is neither absorbed nor repaired; a rerun it cut short gives
\* its quota back first.
CutShort(s) ==
  LET refunded == [run EXCEPT !.step[s].retries = @ - 1]
      r == IF s \in reruns THEN refunded ELSE run
  IN  /\ Resolves(s) /\ ~result[s].ok /\ result[s].cut # "none"
      /\ run' = WithStatus(r, s, "failed") /\ executing' = executing \ {s}
      /\ outbox' = (IF s \in reruns THEN Saved(r) ELSE <<>>) \o StatusWrites(r, s, "failed")
      /\ stop' = [stop EXCEPT !.failed = TRUE]
      /\ EndPass(s)

Refused(s) == Resolves(s) /\ ~result[s].ok /\ result[s].cut = "none"
Blocked(s) == Refused(s) /\ result[s].blocked /\ s \notin reruns

\* An obstacle outside the code: the step fails, then the run stops, at once.
StopBlocked(s) ==
  LET failed  == WithStatus(run, s, "failed")
      stopped == Stopped(failed)
  IN  /\ Blocked(s) /\ s \notin NonBlocking
      /\ run' = stopped /\ executing' = executing \ {s}
      /\ outbox' = StatusWrites(run, s, "failed") \o Saved(stopped)
      /\ stop' = [stop EXCEPT !.stopped = TRUE]
      /\ EndPass(s)

\* Slip: off by one between the last rerun and giving up.
NeverExhausted(s) ==
  Refused(s) /\ ~Blocked(s) /\ ~requested /\ run.step[s].retries > MaxRetries[s]

Exhausted(s) ==
  Refused(s) /\ ~Blocked(s) /\ ~requested /\ run.step[s].retries >= MaxRetries[s]

\* absorbStepFailure: blocking: false, once blocked or out of retries.
Absorb(s) ==
  /\ Blocked(s) \/ Exhausted(s) \/ (Refused(s) /\ ~HasHandler(s))
  /\ s \in NonBlocking
  /\ UpdateStep(s, "done") /\ EndPass(s) /\ UNCHANGED stop

Fail(s) ==
  /\ Exhausted(s) \/ (Refused(s) /\ ~Blocked(s) /\ ~HasHandler(s))
  /\ s \notin NonBlocking
  /\ UpdateStep(s, "failed") /\ EndPass(s)
  /\ stop' = [stop EXCEPT !.failed = TRUE]

MayRetry(s) ==
  Refused(s) /\ ~Blocked(s) /\ ~requested /\ run.step[s].retries < MaxRetries[s]

\* The gate of the retry loop withholds the rerun: failed, never absorbed.
CostStopsRetry(s) ==
  /\ MayRetry(s) /\ CostDecision(run, budget) # "none"
  /\ UpdateStep(s, "failed") /\ EndPass(s)
  /\ stop' = [stop EXCEPT !.failed = TRUE]

\* consumeRetry: the quota is on disk before the rerun opens its attempt.
Rerun(s) ==
  LET r == [run EXCEPT !.step[s].retries = @ + 1] IN
  /\ MayRetry(s) /\ CostDecision(run, budget) = "none"
  /\ run' = r /\ outbox' = Saved(r)
  /\ stage' = [stage EXCEPT ![s] = "started"]
  /\ result' = [result EXCEPT ![s] = NoResult]
  /\ reruns' = reruns \cup {s}
  /\ UNCHANGED <<att, budget, executing, stop, history>> /\ PassFrame

UnitAnswered ==
  /\ pc = "pass" /\ ~Busy /\ \A s \in Steps : stage[s] \in {"idle", "ended"}

LeaveUnit ==
  /\ stage' = Idle /\ admitted' = {}
  /\ UNCHANGED <<att, budget, executing, result, reruns, cursor, inv, requested,
                 disk, history>>

\* The unit asked for nothing: the loop goes on.
NextUnit ==
  /\ UnitAnswered /\ ~Stopping /\ stop = NoStop
  /\ pc' = "admit" /\ LeaveUnit /\ UNCHANGED <<run, stop, outbox>>

UnitStops ==
  /\ UnitAnswered /\ (Stopping \/ stop # NoStop)
  /\ pc' = "ending" /\ LeaveUnit /\ UNCHANGED <<run, outbox>>
  /\ stop' = IF Stopping THEN NoStop ELSE stop

\* stopOnTreeWrites: members of a group wrote to the tree they may only read.
TreeWritesStop ==
  /\ UnitAnswered /\ ~Stopping /\ Cardinality(admitted) > 1
  /\ run' = Stopped(run) /\ outbox' = Saved(run')
  /\ stop' = [stop EXCEPT !.stopped = TRUE]
  /\ pc' = "ending" /\ LeaveUnit

----------------------------------------------------------------------------
(* The end of the run, the signal, the crash, and the disk.               *)

\* executeRunSteps' closing signals (ledgerStops reads unfinished work only),
\* then finalizeRun.
Finalize ==
  LET unfinished == ~AllSettled(run)
      d == CostDecision(run, budget)
      signals == [stop EXCEPT
        !.exceeded = @ \/ (budget.exceeded /\ unfinished),
        !.unaccounted = @ \/ (d = "unaccounted" /\ unfinished)]
      r == [run EXCEPT !.status = DerivedStatus(run, signals)]
  IN  /\ pc = "ending" /\ ~Busy
      /\ run' = r /\ outbox' = Saved(r) /\ pc' = "done"
      /\ UNCHANGED <<att, budget, executing, stage, result, reruns, cursor,
                     admitted, stop, inv, requested, disk, history>>

\* A process is gone: what it held in memory goes with it.
Gone ==
  /\ pc' = "off" /\ run' = NoRun /\ att' = NoAttempts /\ budget' = NoBudget
  /\ executing' = {} /\ stage' = Idle /\ result' = NoResults /\ reruns' = {}
  /\ cursor' = 1 /\ admitted' = {} /\ stop' = NoStop /\ inv' = NoInvocation
  /\ requested' = FALSE /\ outbox' = <<>>

\* The process ends: after its report, or from the signal handler.
Exit ==
  /\ pc # "off" /\ ~Busy /\ (pc = "done" \/ requested)
  /\ Gone /\ UNCHANGED <<disk, history>>

\* abortRun closes every step this process executes on its own estimate.
LiveFigure(s, e) == IF e > 0 THEN [NoFigure EXCEPT !.cost = e] ELSE CrashFigure(s)
Aborting == {s \in executing : run.step[s].status = "running"}
InFlight(s) == HasOpen(att[s])

Aborted(est) ==
  LET closes == {s \in Aborting : InFlight(s)} IN
  [run EXCEPT !.aborted = TRUE, !.status = "ABORTED",
     !.step = [s \in Steps |->
       IF s \notin Aborting THEN run.step[s]
       ELSE [run.step[s] EXCEPT !.status = "aborted",
              !.spend = IF s \in closes THEN Merge(@, LiveFigure(s, est[s])) ELSE @]]]

AbortedAttempt(s, e) == [status |-> "aborted", fig |-> LiveFigure(s, e), interrupted |-> FALSE]

\* Slip: the abort records the step and forgets its attempt.
StatusesOnly(est) ==
  LET order == Ascending(Aborting)
  IN  [k \in 1..Cardinality(Aborting) |-> StatusEvent(order[k], "aborted")] \o Saved(Aborted(est))

\* In pipeline order: the finish of the open attempt, then the step status.
AbortWrites(est) ==
  LET order == Ascending(Aborting)
      writes(s) ==
        (IF InFlight(s) THEN <<FinishEvent(s, Last(s), AbortedAttempt(s, est[s]))>> ELSE <<>>)
          \o <<StatusEvent(s, "aborted")>>
  IN  Seqs!FlattenSeq([k \in 1..Cardinality(Aborting) |-> writes(order[k])]) \o Saved(Aborted(est))

\* SIGINT or SIGTERM: the request is on the scope whatever the run says; a run
\* that already carries a verdict is left as it is.  Nothing is awaited between
\* an attempt that succeeded and its verdict.
Signal ==
  /\ pc \in {"booted", "admit", "pass", "done"} /\ ~Busy /\ ~requested
  /\ \A s \in Steps : ~(stage[s] = "settled" /\ result[s].ok)
  /\ requested' = TRUE
  /\ UNCHANGED <<pc, budget, stage, result, reruns, cursor, admitted, stop, inv,
                 disk, history>>
  /\ IF run.status \in Verdicts
     THEN UNCHANGED <<run, att, executing, outbox>>
     ELSE \E est \in [Steps -> {0} \cup Prices] :
       /\ \A s \in Steps : s \notin Metered \/ ~InFlight(s) => est[s] = 0
       /\ WithinSpend(Aborted(est))
       /\ run' = Aborted(est)
       /\ att' = [s \in Steps |->
            IF s \in Aborting /\ InFlight(s)
            THEN [att[s] EXCEPT ![Last(s)] = AbortedAttempt(s, est[s])]
            ELSE att[s]]
       /\ executing' = executing \ Aborting
       /\ outbox' = AbortWrites(est)

\* A hard death (SIGKILL, OOM, power loss), between any two writes.
Unsettled(s) ==
  \/ stage[s] = "spawned" /\ InFlight(s)
  \/ \E k \in 1..Len(outbox) : outbox[k].kind = "finish" /\ outbox[k].step = s

Crash ==
  /\ pc # "off" /\ Gone
  /\ died' = died \cup {s \in Steps : Unsettled(s)}
  /\ UNCHANGED <<disk, lives, lost, finished, logs>>

\* A step the disk now calls done: an event speaks of the pass that ended, a
\* failed admission that is absorbed did no work until a snapshot holds it.
Completes(e) ==
  CASE e.kind = "status" /\ e.status = "done" /\ stage[e.step] = "ended" -> {e.step}
    [] e.kind = "save" -> {s \in Steps : e.run.step[s].status = "done"}
    [] OTHER -> {}

\* A step --start-at owes again, once the disk knows.
Requeues(e) ==
  IF e.kind = "save"
  THEN {s \in Steps : e.run.step[s].replay /\ e.run.step[s].status = "pending"} ELSE {}

\* One write reaches the disk; the projection of the journal follows it.
Flush ==
  LET e == Head(outbox) IN
  /\ outbox # <<>>
  /\ outbox' = Tail(outbox)
  /\ snap'    = IF e.kind = "save" THEN e.run ELSE snap
  /\ jStatus' = IF e.kind = "status" THEN [jStatus EXCEPT ![e.step] = e.status] ELSE jStatus
  /\ jAtt'    = CASE e.kind = "start"  -> [jAtt EXCEPT ![e.step][e.n] = OpenRecord]
                  [] e.kind = "finish" -> [jAtt EXCEPT ![e.step][e.n] = e.attempt]
                  [] OTHER -> jAtt
  /\ jStops'  = IF e.kind = "guard" THEN jStops \cup {e.why} ELSE jStops
  /\ finished' = (finished \ Requeues(e)) \cup Completes(e)
  /\ UNCHANGED <<memory, lives, lost, died, logs>>

\* appendRunEvent swallows a failed append; saveRun does not.
LoseEvent ==
  /\ outbox # <<>> /\ Head(outbox).kind # "save" /\ lost < MaxLost
  /\ outbox' = Tail(outbox) /\ lost' = lost + 1
  /\ UNCHANGED <<memory, disk, lives, finished, died, logs>>

Open == \E i \in Invocations : Create(i) \/ Resume(i)
Admission ==
  \E s \in Steps :
    \/ PassOver(s) \/ CostStopsAdmission(s) \/ WhenSkips(s) \/ WhenStops(s)
    \/ AdmissionFails(s) \/ AdmissionAbsorbed(s) \/ NeedsDecision(s) \/ Admit(s)
Pass ==
  \E s \in Steps :
    \/ StartPass(s) \/ OpenAttempt(s) \/ Spawn(s) \/ SettleAttempt(s)
    \/ Succeed(s) \/ Abandon(s) \/ CutShort(s) \/ StopBlocked(s) \/ Absorb(s)
    \/ Fail(s) \/ CostStopsRetry(s) \/ Rerun(s)

\* What a process does of itself, unless it is signalled or killed.
Progress ==
  \/ OpenLedger \/ Admission \/ Launch \/ LeaveLoop \/ Pass
  \/ NextUnit \/ UnitStops \/ TreeWritesStop \/ Finalize \/ Exit \/ Flush

Next == Open \/ Progress \/ Signal \/ Crash \/ LoseEvent

Spec == Init /\ [][Next]_vars

\* Every command the runner spawns has a timeout (process-runner.ts,
\* bash-runner.ts), so a live process always has a next step and takes it.
FairSpec == Spec /\ WF_vars(Progress)

----------------------------------------------------------------------------
(* Types.                                                                  *)

Statuses == StepStatus \cup {"none"}
Write ==
  [kind: {"status"}, step: Steps, status: StepStatus]
    \cup [kind: {"start"}, step: Steps, n: Nums]
    \cup [kind: {"finish"}, step: Steps, n: Nums, attempt: Attempt]
    \cup [kind: {"guard"}, why: {"budget", "unpriced"}]
    \cup [kind: {"save"}, run: Run]

\* Every variable keeps its type; in particular a retry quota stays within
\* 0..max_retries whatever is refunded (step-bookkeeping.ts does not clamp).
TypeOK ==
  /\ pc \in {"off", "booted", "admit", "pass", "ending", "done"}
  /\ run \in Run \cup {NoRun} /\ snap \in Run \cup {NoRun}
  /\ pc # "off" => run # NoRun
  /\ run # NoRun => \A s \in Steps : run.step[s].retries \in 0..MaxRetries[s]
  /\ att \in [Steps -> [Nums -> Attempt]] /\ jAtt \in [Steps -> [Nums -> Attempt]]
  /\ budget \in [cum: 0..MaxSpend, exceeded: BOOLEAN, unknown: BOOLEAN]
  /\ executing \subseteq Steps /\ admitted \subseteq Steps /\ reruns \subseteq Steps
  /\ stage \in [Steps -> {"idle", "admitted", "started", "opened", "spawned",
                          "settled", "ended"}]
  /\ result \in [Steps -> [ok: BOOLEAN, fig: Figure, blocked: BOOLEAN,
                           cut: {"none", "budget", "unpriced"}]]
  /\ cursor \in 1..(NSteps + 1)
  /\ stop \in [failed: BOOLEAN, stopped: BOOLEAN, exceeded: BOOLEAN, unaccounted: BOOLEAN]
  /\ inv \in Invocation /\ requested \in BOOLEAN
  /\ outbox \in Seq(Write)
  /\ jStatus \in [Steps -> Statuses] /\ jStops \subseteq {"budget", "unpriced"}
  /\ lives \in 0..MaxLives /\ lost \in 0..MaxLost
  /\ finished \subseteq Steps /\ died \subseteq Steps /\ logs \subseteq Steps \X Nums

----------------------------------------------------------------------------
(* Safety.                                                                 *)

JournalCost ==
  LET sum[n \in 0..NSteps] ==
        IF n = 0 THEN 0 ELSE sum[n - 1] + SumAttempts(jAtt[n]).cost
  IN  sum[NSteps]

Opens(s)  == stage[s] # "opened" /\ stage'[s] = "opened"
Spawns(s) == stage[s] # "spawned" /\ stage'[s] = "spawned"
AtRest    == outbox = <<>> /\ run # NoRun /\ ~Stopping

\* Once the disk calls a step done, no process opens an attempt of it again,
\* through crashes in any write window: only --start-at requeues it, and only
\* rerunOnResume re-admits it on resume (run-projection.ts reconcileStepStatus).
SettledWorkNeverReplayed ==
  [][\A s \in Steps : Opens(s) => s \notin finished \/ (inv.resuming /\ s \in RerunOnResume)]_vars

\* The ledger that gates spending holds each journaled dollar exactly once,
\* however many crashes split a charge between journal and snapshot; a lost
\* append can only make it hold more (cost-accounting.ts projectStepSpend).
LedgerMatchesJournal ==
  AtRest /\ pc \in {"admit", "pass", "ending", "done"} =>
    /\ budget.cum >= JournalCost
    /\ lost = 0 => budget.cum = JournalCost

\* Two attempts of a step never share a number, hence a log file, even when the
\* journal lost a start or the snapshot missed one (run-timeline.ts).
AttemptNumbersFresh ==
  [][\A s \in Steps : Spawns(s) => <<s, LastNum(att'[s])>> \notin logs]_vars

\* A step a hard death caught with an attempt in flight is opened again only
\* with an authorization, through any number of further deaths, resumes and
\* skips (step-admission.ts interruptedReplayAuthorization).
InterruptedNeedsAuthorization ==
  [][\A s \in Steps : Opens(s) /\ s \in died /\ lost = 0 => Authorized(s)]_vars

\* A PASS on disk speaks of a run whose every step is settled and whose journal
\* leaves no attempt without a producer.
PassIsComplete ==
  snap # NoRun /\ snap.status = "PASS" /\ lost = 0 =>
    /\ \A s \in Steps : snap.step[s].status \in {"done", "skipped"}
    /\ \A s \in Steps, n \in Nums : jAtt[s][n].status # "running"

\* No process leaves a run it can neither have finished nor resume: without a
\* PASS there is work a resume accepts (run-predicates.ts resumeDecision).
UnfinishedIsResumable == snap # NoRun /\ snap.status # "PASS" => Owed(snap)

\* Every ending of the loop is one the report can name: UNKNOWN, the verdict of
\* a run nothing stopped and that did not complete, is never written.
VerdictKnown == snap # NoRun => snap.status # "UNKNOWN"

\* The first closer of an attempt wins: the journal never receives a second
\* finish, from the loop, the signal handler and the crash settlement together.
ClosedOnce ==
  [][outbox # <<>> /\ outbox' = Tail(outbox) /\ Head(outbox).kind = "finish" /\ lost' = 0
       => jAtt[Head(outbox).step][Head(outbox).n].status = "running"]_vars

\* An attempt is opened under a ceiling only while the journal, over all the
\* executions of the run, adds up to less than it: the siblings of a group and
\* the reruns they overlap included (cost-stop-events.ts costGate).
GateHolds ==
  [][\A s \in Steps : Opens(s) /\ run.max # 0 => JournalCost < run.max]_vars

\* Spending the journal proves unpriced is known to the ledger of every later
\* execution: no crash or resume launders it (openRunLedger).
UncertaintyNeverLaundered ==
  AtRest /\ pc \in {"admit", "pass"}
    /\ (\E s \in Steps, n \in Nums : ProvesUnpriced(jAtt[s][n].fig))
  => budget.unknown

\* Writes k of a resume that crashed: what the next resume reads.
AfterWrites(w, k, s) ==
  [n \in Nums |->
     IF \E j \in 1..k : w[j].kind = "finish" /\ w[j].step = s /\ w[j].n = n
     THEN Crashed(s) ELSE jAtt[s][n]]
Gist(r) == [status |-> r.status, max |-> r.max, cost |-> RunCost(r),
            exceeded |-> r.exceeded, unmetered |-> r.unmetered,
            steps |-> [s \in Steps |-> <<r.step[s].status, r.step[s].replay, r.step[s].retries>>]]

\* "Resuming is idempotent" (guide/persistence.md): a resume killed after any
\* number of its writes, then repeated, restores the same run and evidence.
ResumeIdempotent ==
  pc = "off" /\ snap # NoRun =>
    \A i \in Invocations :
      LET r == Restored(snap, jStatus, jAtt, i)
          w == RestoreWrites(snap, jAtt, r, i)
      IN  \A k \in 1..Len(w) :
            LET again == [s \in Steps |-> AfterWrites(w, k, s)]
                saved == IF w[k].kind = "save" THEN w[k].run ELSE snap
            IN  /\ Gist(Restored(saved, jStatus, again, i)) = Gist(r)
                /\ \A s \in Steps : SettledAttempts(s, again[s]) = SettledAttempts(s, jAtt[s])

\* What a resume takes for done is what completed and was not requeued since, or
\* a failure that is absorbed: the event of a pass before --start-at never settles
\* the replay, and a completion the disk holds anywhere is never owed again
\* (reconcileStepStatus).
RestoredDoneIsFinished ==
  pc = "off" /\ snap # NoRun /\ lost = 0 =>
    \A s \in Steps :
      LET done == Restored(snap, jStatus, jAtt, NoInvocation).step[s].status = "done" IN
      /\ done => s \in finished \/ s \in NonBlocking
      /\ s \in finished \ RerunOnResume => done

\* The signal handler leaves no attempt open: "what remains here is a hard
\* death" (run-projection.ts:126).
HandledSignalClosesAttempts ==
  [][Exit /\ lost = 0 => \A s \in Steps, n \in Nums : jAtt[s][n].status # "running"]_vars

\* A cost stop leaves work to resume: settling the run would "force the next
\* invocation to replay - and repay - every step already completed"
\* (step-admission.ts:303).
CostStopIsResumable == snap # NoRun /\ snap.status = "FAIL" => Owed(snap)

\* A live guard's stop outlives its process: without a --budget the next
\* execution opens nothing ("mirrored into run.budget_exceeded so a resume
\* without --budget stops the same way", budget.ts).
GuardStopSurvives ==
  [][\A s \in Steps : Opens(s) => "budget" \notin jStops]_vars

----------------------------------------------------------------------------
(* Liveness.                                                               *)

\* Every execution ends: no combination of admission, verdicts, quotas, cost
\* stops and signals leaves the loop waiting for a pass nobody will settle.
EveryExecutionEnds == (pc = "booted") ~> (pc = "off")

=============================================================================
