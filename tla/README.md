# Verification of lance-nuit

lance-nuit runs pipelines of shell commands and AI agents unattended, records
everything they do on disk, and resumes after any interruption. This directory
holds TLA+ models of the parts of it where an ordering, a crash or a limit can
go wrong in a way a unit test hardly reaches, the TLC configurations that check
them on small instances, and proofs checked by TLAPS. Paths are
relative to the repository; one that starts with `src/src/`, `src/guide/` or
`src/scripts/` has the repository itself as its first `src/`, as in `PROJECT.json`.

To run them: `tlc -config RunRecord_crashes.cfg MCRunRecord.tla` for a model
(the table of section 3 names the module and the configuration of each run), and
`tlapm RunRecordProofs.tla` for the proofs of a module. `PROJECT.json` lists the
runs, a mutant for each property, the lines each definition models, the hazards
with the properties that cover them, and the theorems.

## 1. The system

One process, the runner, is a single-threaded TypeScript program. It writes its
files synchronously. What is concurrent is around it: the processes it spawns
(agents, shell commands, up to one per member of a parallel group), the signals
and deaths that reach it at any time, the other runners of the same machine, the
person who edits the files of a ticket meanwhile, the tracker, and a dashboard
that reads the same files and launches runners of its own.

| Component | State it keeps | Operations | Interacts with |
|---|---|---|---|
| **Run record** `src/run/record` | `state.json` (snapshot), `events.jsonl` (journal), the run in memory | create, restore and reconcile a run; `updateStep`, open, settle and close attempts; absorb, stop, abort, finalize | called by the step loop and the signal handler; writes both stores, in an order that matters |
| **Cost ledger** `src/run/record/budget.ts`, `cost-*.ts` | spend, held shares, two latches (ceiling reached, unpriced spending) | seed on open, gate, charge, reserve, expect, release | read by admission, retries, live guards; restored from both files |
| **Step loop** `src/execution/step` | cursor, units, signals of the execution; retries and fixes of a step | admission, pass, outcome, retry, fix, escalation, parallel group | calls the record for each transition |
| **Single-instance lock** `src/shared/env/lock.ts` | the lock file, the `.reclaim` marker | acquire, elect a reclaimer, release | any number of processes, through the file system only |
| **Fix loop and escalation** `fix-loop*.ts`, `escalation.ts` | quotas of fixes, of timeout drains, sessions to resume | fix, re-ask, drain, promote | record, ledger |
| **Composition** `pipeline-orchestration*.ts`, `child-transitions.ts` | references to child runs | reserve, boot, settle, re-enter a child; charge its spend once | a child run is a run of its own |
| **Run directories and selection** `run-selection.ts`, `stores/*` | `latest` pointer, run directories | select, guard, open | precedes the opening of a run |
| **Run stores and readers** `stores/*`, `run-read.ts`, `journal-schema.ts` | files | atomic snapshot write, journal append, log write; validate and read | disk, dashboard |
| **Dispatch** `src/execution/dispatch` | the scan record | one child runner per ticket, interruption | spawns runners |
| **Provenance** `work-items/store/provenance.ts` | fingerprints of artifacts, in-flight marks | mark, vouch, adopt | attempts, freshness of a step |
| **Decisions** `work-items/store/decisions.ts` | approvals bound to bytes | record, read | human gates of the loop |
| **Trackers** `work-items/providers`, `builtin-steps` | a ticket on GitHub or Jira | comment, move, deliver | runs, people |
| **Process supervision and signals** `shared/process`, `entry/composition/signals.ts` | process groups, abort scope | spawn, time out, kill, shut down | attempts, run abort |
| **Composition root and boot** `src/entry` | worktree, services, command line | prepare, report, exit code | everything |
| **Agent backends and runners** `src/agents`, `execution/runners.ts` | provider sessions | spawn and parse a provider | an attempt's result |
| **Pipeline definition** `src/definition` | none | build and validate a pipeline | constants of a run |
| **History** `src/run/stats` | `runs.jsonl` | append or rewrite the line of a run, under a directory lock; sum | any number of runners |
| **Dashboard** `src/dashboard` | tmux sessions, launch records | open a terminal, launch a verb, read | reads the record, launches runners |
| **Architecture gate** `src/scripts` | two baselines | check the imports of the repository | developers |

### Why it is hard, and what would make each part correct

*Run record.* A transition writes the journal, then the snapshot. A SIGKILL may
fall between the two, so each file alone may lie: a step finished in the journal
and running in the snapshot, a charge in one and not in the other, an attempt
started that nobody will finish. Appends to the journal are allowed to fail
silently; snapshot writes are not. On top of that a resume is itself a sequence
of writes that may be cut, and an operator may requeue, skip, raise a budget or
authorize a replay at any resume. Correct means: work the disk calls done is
not done twice; a dollar is counted once; an attempt is closed once and never
shares its number; a side effect that may already have happened is not repeated
without authorization; a verdict is truthful; what is unfinished can be resumed;
repeating a resume changes nothing; every execution ends.

*Cost ledger.* The members of a group and their reruns share a ledger and read
it at different times; a ceiling met exactly, raised, or unknown decides whether
one more attempt opens. Correct means: no attempt opens once the ceiling is met,
and evidence of unpriced spending is never lost.

*Lock.* Every system call is a point where another process may replace the file
that was just observed; a holder may die at any of them; pids are recycled.
Correct means: one holder, a dead holder's lock goes to somebody, nobody removes
the lock of a living one.

*The others.* Fix loop: quotas and sessions across interleaved fixes, drains and
resumes. Composition: a crash between the reservation of a child, its boot and
the charge of its spend. Selection: two command lines that name one run.
Dispatch: a ticket that ends while the queue is interrupted. Provenance: an
input that changes while the attempt that read it runs. Decisions: an approval
read after its artifact was rewritten. Trackers: a call that took effect and
whose answer was lost. Supervision: an exit, a timeout and a shutdown at once,
with a process group that survives its leader. Backends: a retry that resumes a
session whose spending was already charged. History: a writer that dies with the
lock. Dashboard: a click on what has moved, a reading cut by a writer. The
40 hazards `PROJECT.json` lists give each of them its line.

## 2. Modules

Each part of the program is a module of its own, parameterised by constants.
They share no state: what one component promises another (a lock acquired, an
attempt answered, an allowance granted) is an input of the other model, a choice
over what the code of the first can answer. The components that do share state in
the code, the record, the ledger, the step loop, the signal handler and the two
files, are one module, `RunRecord`. `RunJourney` is shared by the two modules
that read the pauses of a run, `RunJournal` and `RunTimeline`; `FolderCycles` is
shown to implement `Components`.

| Component | Status | Modules |
|---|---|---|
| Run record: snapshot, journal, projection, opening, verdict | partly | `RunRecord`, `RunRecordProofs`, `RunSettledProofs`, `RunEnding` |
| Cost ledger and cost stops | partly | `RunRecord`, `Allowance` |
| Step loop, admission and step pass | partly | `RunRecord`, `RunEnding` |
| Single-instance lock | modelled | `ProcessLock`, `ProcessLockProofs` |
| Fix loop and escalation | modelled | `FixLoop` |
| Composition: child runs | modelled | `ChildRuns` |
| Run directories and selection | modelled | `RunSelection` |
| Run state, event and log stores | modelled | `RunRecord`, `RunJournal`, `RunLogs` |
| Snapshot and journal readers | partly | `RunReading`, `RunLogs`, `RunJournal`, `RunJourney` |
| Dispatch of a ticket queue (scan) | modelled | `Dispatch` |
| Artifact provenance and freshness | modelled | `Provenance` |
| Approval decisions | modelled | `Approvals` |
| Process supervision and signals | modelled | `RunRecord`, `Supervision`, `BashStream` |
| Composition root and boot | partly | `RunRecord`, `CommandLine`, `Worktree` |
| Agent backends and runners | partly | `ClaudeTransport`, `AttemptFigures`, `AgentLaunch`, `AgentOutcome` |
| Pipeline definition and DSL | partly | `PipelineDefinition`, `PipelineBuilder` |
| Dashboard | partly | `Terminals`, `TicketStats`, `Launching`, `WorkItemFiles`, `DeliveryReport`, `RunJourney`, `RunTimeline`, `InboxTimeline` |
| Architecture gate | modelled | `Components`, `FolderCycles`, `FolderCyclesProofs`, `ArchitectureGate` |
| Work-item gateways and tracker steps | modelled | `TrackerEffects` |
| Run history and statistics | modelled | `History` |

Definitions marked *Slip* in a module are wrong variants of the definition next
to them, the way a plausible mistake would write it. No specification uses them:
substituting the slip for its neighbour makes TLC find a counterexample, and
`PROJECT.json` lists one for each property a run checks; in a gathered property
it breaks one of the conjuncts, and the slips of the others stand in their modules.

### RunRecord

The state has three layers. *Memory* (`pc`, `run`, `att`, `budget`, `stage`,
`cursor`, `stop`, ...) is what one process holds, and goes with it. *Disk*
(`snap`, `jStatus`, `jAtt`, `jStops`) is the snapshot, and the journal as
`attempt-projection.ts` and `reconcileStepStatus` project it: the last status of
each step, and its attempts by number. *History* (`finished`, `died`, `logs`,
`lives`, `lost`) is what properties compare with and no action reads, the bounds
excepted.

Between memory and disk stands `outbox`: the writes the current transition still
has to make, in the order the code makes them. A transition is one action, since
nothing else runs in the process while it lasts; while `outbox` is not empty only
`Flush` (one write lands), `LoseEvent` (an append fails and is swallowed) or
`Crash` may happen. So a death falls between any two writes, and a signal
handler, which JavaScript runs between two turns, does not.

| Actions | Code |
|---|---|
| `Create`, `Resume`, `OpenLedger` | `run-opening.ts` `create`, `restore`, `hydrate`; `run-projection.ts`; `openRunLedger` |
| `PassOver`, `CostStopsAdmission`, `WhenSkips`, `WhenStops`, `AdmissionFails`, `AdmissionAbsorbed`, `NeedsDecision`, `Admit`, `Launch`, `LeaveLoop` | `step-loop.ts` `executeRunSteps`, `step-admission.ts` `admitStep`, in the order of its checks |
| `StartPass`, `OpenAttempt`, `Spawn`, `SettleAttempt` | `step-pass.ts`, `attempt-lifecycle.ts`, `attempt-closure.ts` |
| `Succeed`, `Abandon`, `CutShort`, `StopBlocked`, `Absorb`, `Fail`, `CostStopsRetry`, `Rerun` | `step-outcome.ts` `resolveOutcome`, `on-failure.ts` `retryStepCommand`, `step-bookkeeping.ts` |
| `NextUnit`, `UnitStops`, `TreeWritesStop` | `step-loop.ts`, `parallel-group.ts` |
| `Finalize`, `Exit`, `Signal` | `finalizeRun`, `run-status.ts` `runEnding`, `signals.ts`, `abortRun` |
| `Crash`, `Flush`, `LoseEvent` | the operating system; `run-journal.ts` `appendRunEvent` |

What is abstracted: an amount is a small natural and 0 means none was reported;
`tokens` is the fact that some were measured; prose, timestamps, sessions and
log paths are left out; run-level events are not kept, since no resume reads
them. A `when` clause, an input check and the answer of an attempt are choices.
The pipeline is in the default mode (not reconcile) and its steps are plain.

### ProcessLock

The file system holds two names, `lock` and `reclaim`. One action is one system
call of `acquireLock`, `takeIfSame` or `releaseLock`: an observation, a `link`
or a `rename`. A process is one incarnation and `Pid` says which pid it runs
under, so that a ghost (dead from the start) and a live process may share one.
`Retries` and `MaxRounds` are the parameters of the code; `StartTokens` says
whether the platform can read process start times. `taken` is the file a
mistaken `rename` brought back, until `Restore` puts it back or loses it:
the residual race the header of `lock.ts` describes.

Left out: waits (any step may come late), I/O errors other than ENOENT and
EEXIST, and bytes that do not parse.

### FolderCycles and Components

`Components` states what the folder check of `scripts/check-deps.mjs` promises:
the members of each cycle of folders are reported together, and nothing else.
`FolderCycles` is its search, Tarjan's algorithm with the recursion made a stack
of frames (`calls`), over any graph and in any order of the folders. The run
`folders` shows that it implements `Components` (`Promise`) and ends; `FolderCyclesProofs`
proves the search for every graph (section 4).

### The other components

The header of each module names the sources it models, what a step is, and what
is left out; the properties stand at its end, each under the sentence it states.

## 3. What the runs check

40 properties are checked by nine passing runs; three runs show a
disagreement.

| Run | Module, configuration | Instance | Shows |
|---|---|---|---|
| `crashes` | `MCRunRecord`, `RunRecord_crashes.cfg` | 2 sequential steps, one metered with a retry, one non-blocking and `rerunOnResume`; ceiling 2; three processes, plain and `--replay-interrupted`; one lost append | `LedgerMatchesJournal`, `ResumeIdempotent`, `UncertaintyNeverLaundered`, `SettledWorkNeverReplayed`, `InterruptedNeedsAuthorization`, `HandledSignalClosesAttempts`, `AttemptNumbersFresh` |
| `operator` | `MCRunRecord`, `RunRecord_operator.cfg` | 2 steps, one with a retry, one declared for replay; two processes, seven command lines | `TypeOK`, `PassIsComplete`, `UnfinishedIsResumable`, `VerdictKnown`, `RestoredDoneIsFinished` |
| `group` | `MCRunRecord`, `RunRecord_group.cfg` | a group of two with a retry, then a third step; ceiling 2; two processes | `GateHolds`, `ClosedOnce` |
| `lock` | `MCProcessLock`, `ProcessLock.cfg` | 3 contenders, a ghost whose pid one of them inherited, 1 crash, 3 rounds | `TypeOK`, `MutualExclusionUnlessDisplaced`, `BrokenElectionFirst`, `HolderKeepsLock`, `OnlyDeadOrOwnDiscarded` |
| `execution` | `MCExecution`, `Execution.cfg` | the parts below | `TypeOK`, `SpendIsBounded`, `EndingsAreHonest`, `AgentsAreHeard`, `ExecutionSteps` |
| `workspace` | `MCWorkspace`, `Workspace.cfg` | the parts below | `TypeOK`, `OneWriterEach`, `WorkIsVouchedFor`, `DefinitionsAreChecked`, `PeopleAreObeyed`, `WorkspaceSteps` |
| `dashboard` | `MCDashboard`, `Dashboard.cfg` | the parts below | `TypeOK`, `ClicksAreSafe`, `ReadingsAreTrue`, `DashboardSteps` |
| `live` | `MCLive`, `Live.cfg` | the parts below, under fairness | `RunsEnd`, `PeopleAreAnswered` |
| `folders` | `FolderCycles`, `FolderCycles.cfg` | every graph over three folders | `TypeOK`, `FindsEveryCycle`, `StackReachesCall`, `Promise` |

What the properties say is written above each of them in the modules.

*Composite runs.* `MCExecution`, `MCWorkspace`, `MCDashboard` and `MCLive` hold
one INSTANCE per part, with variables of its own. A behaviour chooses a part in
its initial state and is from then on a behaviour of that component, the
variables of the others staying at a value no component has. So one run of TLC
explores the components side by side, without the product of their states, and
each property is that of the component in every part that instantiates it
(a property that only holds of one instance names its part). A component that
appears twice is checked on two instances. What a run checks of its components
is stated property by property, and gathered in a few conjunctions:

| Property | Run | Gathers |
|---|---|---|
| `SpendIsBounded` | `execution` | `CeilingShared`, `NothingLeaks`, `ChargedWhatWasSpent`, `AbortForgetsNothing`, `KilledForItsOwnSpend`, `RetryWithinAllowance`, `LiveFollowsFinal`, `NothingLooksFree`, `AccountingKillIsProof`, `UnpricedIsStopped`, `BudgetKillIsFinal`, `OneChildPerCall`, `ChargedExactly`, `BudgetHolds`, `ResumeNotRefused` |
| `EndingsAreHonest` | `execution` | `ResolvedLeavesNothing`, `OneSignalSparesTheHook`, `NothingOutlivesRunner`, `ServicesStopLast`, `CostStopNeverAbsorbed`, `EscalatesOnTime`, `AttemptsBounded`, `DoneIsVerified`, `RepairSpeaksItsBackend`, `ResumeKeepsContext`, `ReadingsAgree`, `QuietExitIsHonest`, `NothingStranded`, `BlockSurvives`, `WithheldIsTold`, `FailuresShown` |
| `AgentsAreHeard` | `execution` | `SessionStaysHome`, `VerdictIsAsked`, `ScopeIsGranted`, `BlockedIsHeard`, `BlockedOnlyWhenSaid`, `RefusalStopsTheRun`, `OkIsSaid`, `StragglerIsTolerated`, `KillHasNoCause`, `CostStopIsReported`, `CapturesAreWhole`, `ChunksDoNotMatter`, `LinesAreWhole`, `ReasonNamesTheCause`, `KillIsAFailure` |
| `ExecutionSteps` | `execution` | `EqualFirstShares`, `CodeNamesFirstSignal`, `LadderClimbs`, `SettledIsFinal`, `UnpricedSpawnsNothing`, `AbortSticks`, `RepairLeavesTheSession` |
| `OneWriterEach` | `workspace` | `SingleWriter`, `InitializedOnce`, `NothingHeldOnRefusal`, `NoRefusalStrands`, `MutualExclusion`, `SomeoneWins`, `RoundCapUnreached`, `NoStopUnderAgents`, `WorkHasServices`, `OneInside`, `SkipNeedsTwo`, `WorkKept`, `OneRewriter`, `NoLineLost`, `TotalsHonest`, `SpentOnce`, `DeathReadable`, `NothingForgotten`, `ClosedMeansDone`, `FixedIsComplete` |
| `WorkIsVouchedFor` | `workspace` | `KeptIsGuaranteed`, `FreshFromItsInputs`, `GoodWorkIsKept`, `PublicFreshIsGuaranteed`, `PassedOnApproval`, `RejectionHolds`, `NoDeadEnd`, `RoundsBounded` |
| `DefinitionsAreChecked` | `workspace` | `GroupOrderFree`, `ResumedSessionExists`, `RepairProviderKnown`, `PrecedenceHolds`, `FixInheritsTheStep`, `SubjectsBindTheirGate`, `RejectionIsAnswered`, `BudgetsBelong`, `ReconcileDecides`, `ClaudeOptionsReachClaude`, `CapturesAreDelivered`, `CleanTreeIsOrdered`, `PassingDebtIsArgued`, `WrittenMatchesTree`, `ContextCycleBreaksDirection` |
| `PeopleAreObeyed` | `workspace` | `VerbsAccepted`, `CreateReadsAll`, `ChildAccepted`, `OneDecision`, `NoSweepGrants`, `NoteOnce`, `NeverOutOfQueues`, `OnlyMissingIsSent`, `NotBothStates`, `AnswersReach`, `ToldAsItIs`, `StopIsAnnounced` |
| `WorkspaceSteps` | `workspace` | `AuthorKept`, `LatestMovesOnOpening`, `BadIsKept`, `OverridesNeverThrow`, `WriteKeepsArguments` |
| `ClicksAreSafe` | `dashboard` | `OneCommand`, `NoHalfSession`, `InputInOrder`, `EndedHasNoClient`, `OffersAdmitted`, `AWayOn`, `BusyIsReal`, `JournaledOnce` |
| `ReadingsAreTrue` | `dashboard` | `SnapshotOneBehind`, `RunningWasHeld`, `HeldIsNeverDead`, `MovedIsShown`, `PeriodsAddUp`, `CardsAddUp`, `OpenedIsListed`, `ReadsStayInside`, `FailureIsDiagnosable`, `GateSurvivesTruncation`, `ShownIsOfTheRun`, `StaleIsSilent`, `NothingDropsSilently`, `OneComplaintPerEntry`, `ReasonIsTheFirst`, `TearLosesOne`, `PausesTellTheirStop`, `NumbersNeverReused`, `TailAgrees`, `LogsShowTheAttempt`, `CurrentRunIsShown`, `ChildrenAreShown`, `EpisodesTile`, `BarsApart`, `WaitsHoldNoWork`, `MinorHidesNothing`, `ScaleKeepsOrder`, `TicksGiveWay`, `NightsAreNights`, `ReadsBackInTime`, `RangeHoldsRows`, `SummaryIsOfTheLatest` |
| `DashboardSteps` | `dashboard` | `FinishedReadsFinished`, `OfferMatchesAdmission`, `EachRootOnce`, `ShownIsSpent`, `BoundIsTold`, `PassStays`, `KindStays`, `CopyStandsForTheLog`, `KeepFailedKeeps` |
| `RunsEnd` | `live` | `RunUnitsEnd`, `TransportEnds`, `Settles`, `SignalEnds`, `ExitSettles`, `NodeSettles`, `EveryAttemptAnswers`, `EveryExecutionEnds` |
| `PeopleAreAnswered` | `live` | `ScanEnds`, `Finishes`, `EveryWriterEnds`, `LeavingDetaches`, `EndIsTold`, `Answered`, `DeadIsTold`, `EventuallyFree`, `RecordsClose` |

Parts of `execution`:

| Part | Module | Instance |
|---|---|---|
| `shares` | `Allowance` | A group of two and then a lone step, under a ceiling of six units: one member of the group has no live guard. |
| `transport` | `ClaudeTransport` | A fix spawned again over overloads and session limits, under the allowances of its ancestors; one tick is an hour. |
| `figures` | `AttemptFigures` | An attempt of each backend, priced, free or unpriced, with and without a budget. |
| `process` | `Supervision` | One process of the steps and the stop hook, under two signals. |
| `failure` | `FixLoop` | Every shape of on_failure, in one generation of the run. |
| `resumed` | `FixLoop` | The shorter loops, over a death and a resume. |
| `backends` | `FixLoop` | Every backend and session a repair may find. |
| `children` | `ChildRuns` | Two items with a child each, over deaths, under a ceiling that may be raised once. |
| `unpriced` | `ChildRuns` | One item with the calls after it and after all, guarded, with spend of unknown price not authorized. |
| `finish` | `ChildRuns` | One item and one child, priced, over a death: for the finding on a second settlement. |
| `ending` | `RunEnding` | A group after a step, with every answer a pass and an admission may give. |
| `bounded` | `RunEnding` | The same under --until, for a pipeline that reconciles. |
| `sessions` | `AgentLaunch` | Three attempts of a step that may change backend or resume a session. |
| `words` | `AgentLaunch` | One attempt with every prompt, role, grant and verdict mode. |
| `verdicts` | `AgentOutcome` | What an agent may say, in two messages, and what its CLI may fail with. |
| `endings` | `AgentOutcome` | What may kill an attempt of a step or of a fix that owes two captures. |
| `stream` | `BashStream` | A bash step that writes three characters in chunks of every size. |

Parts of `workspace`:

| Part | Module | Instance |
|---|---|---|
| `amend` | `Provenance` | A plan made of an issue and a source, and the step that amends it with a note. |
| `seed` | `Provenance` | A step without input and the one that revises its output, in a pipeline that reconciles. |
| `subjects` | `Approvals` | A plan whose versions ask for one approval or for another. |
| `rounds` | `Approvals` | Two people whose commands overlap, beside a plan that is rejected, made again, edited by hand, and may need no approval. |
| `scan` | `Dispatch` | Two scans of two tickets, with a valid limit, an invalid one or none. |
| `disk` | `Dispatch` | The same beside a disk that refuses writes. |
| `select` | `RunSelection` | Two runners that choose a directory and take its lock, one of whose snapshots may be damaged. |
| `unusable` | `RunSelection` | The same beside a run whose lock cannot be made. |
| `lock` | `ProcessLock` | Two processes and the lock of a third that died under the pid of one of them. |
| `clean` | `Worktree` | Two runners of a worktree that a third person cleans. |
| `stop` | `Worktree` | Two runners under three signals. |
| `kept` | `Worktree` | A runner, a cleaning and somebody who edits. |
| `lines` | `CommandLine` | Every command line of three options. |
| `sweeps` | `CommandLine` | Longer command lines of the options of a sweep. |
| `writers` | `History` | Four writers of the history, one of which may die with the lock for the others to reclaim. |
| `totals` | `History` | Two root runs whose steps report every measure, dated or not. |
| `spent` | `History` | A root run that ends twice and its child. |
| `github` | `TrackerEffects` | Two passes against GitHub, whose labels are edited one by one. |
| `jira` | `TrackerEffects` | Passes against Jira, with every artifact a step may leave. |
| `reconcile` | `TrackerEffects` | A pipeline that reconciles and reruns its effects. |
| `groups` | `PipelineDefinition` | Pipelines with a group, without configuration. |
| `repairs` | `PipelineDefinition` | Pipelines with a repair. |
| `broad` | `PipelineDefinition` | Every axis of a step, under overrides for every step. |
| `exact` | `PipelineDefinition` | The same under an override for the step. |
| `gates` | `PipelineBuilder` | Pipelines of up to four calls with review gates. |
| `policies` | `PipelineBuilder` | Every failure policy. |
| `debt` | `ArchitectureGate` | Files and imports that come and go, a baseline that is written by hand or by the script. |
| `contexts` | `ArchitectureGate` | Files of every context. |

Parts of `dashboard`:

| Part | Module | Instance |
|---|---|---|
| `open` | `Terminals` | Two requests on one item, a shell that exits, a tmux command that fails; no viewer. |
| `viewers` | `Terminals` | Two browser panes on the terminal one request opens; one key in each. |
| `keys` | `Terminals` | One pane that types twice. |
| `verbs` | `Launching` | One reader, every verb, every ending, a server that restarts and drops old records. |
| `two` | `Launching` | Two readers decide on one gate. |
| `reads` | `RunReading` | A runner starts, stops and dies under one reader, which may close the run. |
| `polls` | `RunReading` | The dashboard's polls over a runner process. |
| `counts` | `TicketStats` | Two runs of a ticket and a child: counted once, whatever moves. |
| `shipped` | `TicketStats` | Handovers and kinds over the same runs. |
| `listed` | `WorkItemFiles` | Listing and opening, with a run inside or outside the work item, while one thing changes on disk. |
| `gates` | `WorkItemFiles` | A listing of four entries at most, over every way to name the artifact. |
| `report` | `DeliveryReport` | Two runs, two reports, written, replaced and read in every order. |
| `documents` | `DeliveryReport` | Every document, written once and read. |
| `spans` | `RunTimeline` | Two attempts over three lives: the spans drawn. |
| `scale` | `RunTimeline` | One attempt over three lives on a long clock: the scale and its axis. |
| `forward` | `InboxTimeline` | The clock goes forward in the fourth night. |
| `back` | `InboxTimeline` | The clock goes back in the fourth night. |
| `torn` | `RunJournal` | Two lives, a torn write, lines of the feed and of a later release. |
| `pauses` | `RunJournal` | Three lives, no torn write, a backend that streams whole lines. |
| `numbers` | `RunJournal` | Two lives, a torn write, a refused append: the numbers attempts are given. |
| `tail` | `RunJournal` | Two lives, a torn write, a backend whose records are cut anywhere. |
| `cleaning` | `RunLogs` | One run of two attempts, a death, and cleanings that overlap it. |
| `trees` | `RunLogs` | Three runs over two pipelines, composed and resumed in every order. |

Parts of `live`:

| Part | Module | Instance |
|---|---|---|
| `shares` | `Allowance` | A group of two and then a lone step, under a ceiling of four units. |
| `transport` | `ClaudeTransport` | A fix spawned again over overloads and session limits. |
| `repair` | `FixLoop` | A step that is repaired and one that reruns, over a death. |
| `signals` | `Supervision` | One process of the steps and the stop hook, under a signal. |
| `node` | `ChildRuns` | One item, with a child and a guarded call after it. |
| `attempt` | `AgentOutcome` | What may end an attempt that owes two captures. |
| `record` | `RunRecord` | Two steps in a group, one of which is retried. |
| `scan` | `Dispatch` | Two scans of two tickets. |
| `tree` | `Worktree` | A runner and a runner inside the worktree. |
| `writers` | `History` | Two writers, one of which may die with the lock, and a lock that grows old. |
| `panes` | `Terminals` | One pane that leaves and comes back, a shell that exits. |
| `polls` | `RunReading` | The dashboard's polls over a runner that dies. |
| `verbs` | `Launching` | Runners that end, a server that stops and is started again. |

*The bounds and why they are enough.* Three processes on a run are the least
that show a resume of a resume: one dies, the second restores and dies in its own
writes, the third reads what both left. Two steps are the least where one is
settled while another is owed; a group takes two members, and a third step shows
what follows it. A price of 1 under a ceiling of 2 reaches the ceiling
exactly, and a group overshoots it by one attempt. Attempts (3 or 4) leave room
for one more than the processes and the quota of one rerun use in the scenarios
of a run; `MaxSpend` 4 is above what those attempts cost at price 1 in the
interesting histories, and histories that would exceed it are cut. One lost
append is enough to make journal and snapshot disagree on a number, a start, a
finish or a status. For the lock, the nested races of three contenders need one
round of each process, hence 3 rounds; the part `lock` of `workspace` has two
contenders and the code's own bound of 16 rounds, `8 + 4 * (retries + 1)` for one
retry, so that `RoundCapUnreached` speaks of the code's own cap. With three and
few retries all of them can be refused, a matter of retries and not of safety:
`SomeoneWins` is claimed of two. Two is also the number of runs, writers,
readers, clicks, tickets or items of the other components, the least that
overlap, with one death each where the code handles deaths, and one more value
than the code compares.

`UnfinishedIsResumable` is checked without `rerunOnResume` and without a group in
the last unit, `HandledSignalClosesAttempts` without a group: those limits are
disagreements, below. `StartTokens` is TRUE in the lock's runs; where no start
token can be read a recycled pid keeps a dead lock alive, which invariant I7
in the header of `lock.ts` accepts. The proofs cover both.

Deadlock checking is off because the systems stop: a run is over or its bounds
on lives and attempts are reached; every lock process ends.

*Fairness.* `live` has, for each part, weak fairness of what that component does
of itself, `WF_<its variables>(part = <it> /\ <its progress>)`, and `folders` of
the steps of the search. No crash, signal, lost write, edit, click or operator is
ever fair. For the record (`Progress`) the event loop runs what is ready, and the
one action that waits for another process, `SettleAttempt`, waits for a command
that is killed at a deadline (`process-runner.ts:101`, 900 s by default;
`bash-runner.ts`, 600 s by default; `runners.ts:167` and `:233` pass the step's
own timeout). The supervision part has the timers of the code as actions, and
fairness of those that are armed. Nothing is assumed of an answer: in particular
not that an attempt ever succeeds, nor that a tracker answers. The bounds of
`live` are larger than its fair behaviours can use, so that a bound never stands
in for an end.

### Findings

Three runs check one statement of the repository that the code contradicts.

- `signalgroup` — a member of a group that fails writes FAIL on the run while
  its sibling runs. The signal handler leaves a run with a verdict alone, so the
  sibling's attempt stays open, and the next resume takes it for the hard death
  `run-projection.ts:125` says is all that can remain.
- `guardstop` — a live guard's stop is journaled before the snapshot that carries
  it, and no resume reads the journal's copy. A death in between loses the stop,
  and the next execution without `--budget` opens attempts, against `budget.ts:57`.
- `children_finish` — a parent that dies after `pipeline.child.finished` and
  before its snapshot settles the child again and charges the whole difference a
  second time, where the comment at `child-transitions.ts:298` says it is
  "charged a zero delta".

Other statements of the docs or comments the code contradicts were met while
modelling. Each is kept as a definition of its module, next to the properties,
and no run checks it. Where the definition is also a property of a run, the
instance of that run leaves the case out (a provider without prices, a browser
that leaves during a lookup, and so on).

Three races the code does not exclude are in the runs, and the properties they
touch name them as their one exception, by what happened and not by a constant:
two commands that read one decision file before either writes it (`AuthorKept`,
`RoundsBounded`), a removal meant for an old lock of the history that meets a new
one (`OneRewriter`, `NoLineLost`), and a process id that goes to another program
(`BusyIsReal`). The statements without the exception are `AuthorAlwaysKept`,
`RoundsCounted`, `OneRewriterAlways` and `BusyForOurs`. In `live` no process id
is handed to another program (`Strangers` FALSE): such a program may live for
ever, and an item with it stays busy.

| Module | Definition | Where | What the code does |
|---|---|---|---|
| `RunRecord` | `UnfinishedIsResumable` | `src/src/execution/step/parallel-group.ts:72` | stopOnTreeWrites stops the run after its members settled: when the group is the last unit, the snapshot is STOPPED with every step done and resumeDecision answers "settled" (run-predicates.ts:118), so the next invocation starts a new run. |
| `RunRecord` | `CostStopIsResumable` | `src/src/execution/step/step-admission.ts:295` | A step that is done and declares rerunOnResume is admitted again on resume and meets the cost gate before its freshness: the run ends FAIL with every step settled, and resumeDecision rejects it as "settled". |
| `ClaudeTransport` | `NeverUnderCharged` | `src/src/agents/backends/claude-code/transport.ts:115` | With no cost-state in the transcript the code still nets the floor expectedLedger out of the report of the retry, so a process that restored nothing and spends more than the discarded spawn is charged the difference only. |
| `AttemptFigures` | `LiveFollowsFinal` | `src/src/agents/backends/claude-code/execution.ts:66` | Once the CLI reports a cost of 0 over consumed tokens, the live figure is 0 (reportedCost wins whatever its value), while parseClaudeEvents (events.ts:252-260) falls back to the estimate. |
| `Supervision` | `SecondSignalSkipsHook` | `src/src/entry/composition/signals.ts:95` | The handler reaches stackStop.skip() at line 95 only when the stop is not in progress (line 50 returns otherwise), so the scope of the hook is empty there and skip() kills nothing: after a second Ctrl+C during the grace period the hook is still started and runs, up to its own deadline, until a further signal. |
| `FixLoop` | `CostStopNeverAbsorbed` | `src/src/execution/step/on-failure.ts:247` | drainTimeouts keeps only the output and the reason of the drain and drops costStopped when the cut attempt did not time out; runFixRetryLoop then finds the quota spent before it asks the gate (fix-loop-strategies.ts:37) and absorbs the step as done. |
| `FixLoop` | `CostStopNeverAbsorbed` | `src/src/execution/step/step-outcome.ts:98` | A re-ask the cost gate withholds returns undefined, and a non-blocking step without on_failure is then absorbed as done (step-outcome.ts:214). |
| `FixLoop` | `TimeoutsAreDrained` | `src/src/execution/step/fix-loop-strategies.ts:141` | A replay that timed out feeds its output to the next repair. |
| `FixLoop` | `BlockedEndsRepair` | `src/src/execution/step/fix-loop-strategies.ts:132` | The loops never read failCause: after a replay or a drained rerun that ended blocked the next repair is spawned. |
| `FixLoop` | `RepairsOnlyExtracted` | `src/src/execution/step/on-failure.ts:315` | Only the extraction of the initial attempt is read, and none exists when it timed out: a drained rerun or a replay without extracted errors is repaired. |
| `Provenance` | `FreshFromItsInputs` | `src/src/work-items/store/provenance.ts:391` | mergeProvenance overwrites the fingerprint of an input the producer read too, so a producer whose input moved before the revision reads fresh against an input it never saw. |
| `ChildRuns` | `GuardedCallsAnswered` | `src/src/execution/step/pipeline-orchestration.ts:86` | executeCallback evaluates `when` only while the reference is `pending`; a predicate that threw leaves it `failed`, so the next generation falls through to executeChild and launches the call although no predicate ever answered true. |
| `Approvals` | `AuthorAlwaysKept` | `src/src/work-items/store/decisions.ts:128` | recordApproval reads the decision and writes it back without a lock, so two overlapping approvals of the same bytes both write, and the file names the second person. |
| `Approvals` | `RoundsCounted` | `src/src/work-items/store/decisions.ts:167` | recordRejection reads the decision and writes it back without a lock, so two overlapping rejections of different versions both open round 1, and more versions than maxRounds can be rejected. |
| `Dispatch` | `RunIdIsProduced` | `src/src/execution/dispatch/loop.ts:45` | classify names the run the latest link points at, so a child that dies before writing a snapshot leaves the ticket with the runId of an older run. |
| `Dispatch` | `HaltLeavesWork` | `src/src/execution/dispatch/loop.ts:108` | betweenTickets also runs after the last ticket, and a refusal there records an abort though every ticket was processed. |
| `RunSelection` | `CleanTreeForNew` | `src/src/entry/composition/execution.ts:99` | The guard is skipped when a resume is predicted; when the lock of that run cannot be used, or the run settles before the selection, a new run starts on the dirty tree. |
| `RunSelection` | `NothingHeldOnRefusal` | `src/src/run/record/run-opening.ts:410` | hydrate refuses a definition that dropped a persisted step outside the try that releases the lock. |
| `RunEnding` | `OneEnding` | `src/src/run/record/run-verdict.ts:36` | A resume that stops at --until before a step an earlier interruption aborted is stamped ABORTED, while its report says stopped and its exit code is the --until one. |
| `RunEnding` | `OutcomeNamesRealStop` | `src/src/run/record/run-transitions.ts:392` | Only a selection in reconcile mode takes a failed step out; one beyond --until is still named. |
| `RunEnding` | `BlockIsTold` | `src/src/run/record/run-transitions.ts:418` | The cause is read from the first failed step of the run, so in a group the failure of an earlier member drops the cause of the one that blocked. |
| `RunEnding` | `LiveIsRunning` | `src/src/run/record/run-transitions.ts:111` | updateStep stamps FAIL, and stopRun STOPPED, while the other members of a group run; readers take either as the verdict without asking for the holder. |
| `RunEnding` | `CostBlame` | `src/src/dashboard/read-model/run-facts.ts:134` | A step that fails for its own reason writes no stopKind, so the latch of an unpriced attempt answers yes. |
| `Terminals` | `OneCommand` | `src/src/dashboard/ui/terminals.ts:327` | A request keeps addressing its session by name: when the shell exits early and another request takes the name, both commands are typed into the second session. |
| `Terminals` | `ListedIsComplete` | `src/src/dashboard/ui/terminals.ts:317` | Options are set one tmux command at a time and ln-kind is the last, so a listing in between shows an agent session as a run with no command. |
| `Terminals` | `ReadOnlyWhileRunning` | `src/src/dashboard/ui/terminals.ts:437` | Whether the run works is read once, before tmux is asked: a run that starts in between works beside an agent that can edit. |
| `Terminals` | `LeavingDetaches` | `src/src/dashboard/ui/routes/terminals.ts:84` | The close of the request is listened to after findTerminal was awaited: a browser that left meanwhile keeps its viewer and its tmux client. |
| `Terminals` | `EndedMeansGone` | `src/src/dashboard/ui/routes/terminals.ts:68` | exit is sent for every end of the tmux client, a detach from the keyboard included, while the session runs on. |
| `Terminals` | `AlreadyOpenIsMine` | `src/src/dashboard/ui/terminals.ts:105` | Project and ticket are joined by a dash and other characters become _, so two items may share a name: one is answered with the terminal of the other. |
| `History` | `OneRewriterAlways` | `src/src/run/stats/run-stats-sink.ts:29` | The age of the lock is read and the lock removed in two steps: a second writer that saw the same old lock removes the one the first just made, and both rewrite the file. |
| `History` | `NoLineLost` | `src/src/run/stats/run-stats-sink.ts:104` | A line is appended without looking at how the file ends: after a death in the middle of an append, the next new run's line joins the torn one and is lost as well. |
| `RunReading` | `InterruptedMeansDied` | `src/src/run/record/run-read.ts:68` | runReadOf judges a snapshot read earlier by a lock asked later: a runner that stamps its verdict and releases its lock in between leaves the reader with RUNNING and no holder, so the run that passed is told ABORTED and interrupted, its failure being INTERRUPTED_REASON. |
| `Launching` | `BusyForOurs` | `src/src/dashboard/home/launch-store.ts:102` | describeLaunch calls an unclosed launch alive when its process id answers, and reconcile keeps it open for the same reason, so a launch that ended while no server was watching keeps its item busy once the id went to another program. |
| `Launching` | `BusyWhileAlive` | `src/src/dashboard/read-model/launches.ts:26` | latestLaunchByItem keeps the newest launch of an item only, so when two clicks launch at once and the newer one ends on the holder or on an error before the older one took the run, isBusy is false while a launch lives. |
| `Launching` | `AppliedToSeen` | `src/src/dashboard/ui/routes/actions.ts:61` | The run id is compared when the item is read, and the spawned runner resolves the latest run later, so a fresh start clicked at the same time makes the rerun resume a run its reader never saw. |
| `Launching` | `HolderResumes` | `src/src/entry/composition/startup.ts:185` | A decision recorded after the holder read its gate, and before it released the run, is answered by a launch that ends well because the run is held; the holder then stops at the gate. |
| `Launching` | `ConsumedIsJournaled` | `src/src/entry/composition/startup.ts:192` | The invocation that wrote the decision finds the run held by one that kept it, ends without opening the run, and no run journals the decision. |
| `CommandLine` | `GrantsMeanARun` | `src/src/entry/cli/parse.ts:160` | The options --budget, --allow-unmetered and --replay-interrupted are refused beside five commands only, so --close, --reopen, --stats, --ui, --worktree-clean and the lint and type commands take a line that holds one and ignore it. |
| `Worktree` | `WorksInAWorktree` | `src/src/entry/env/worktree.ts:416` | setupWorktreeAsync runs before the lock of the worktree is taken, so a runner that passed the registration check keeps setting up while a clean removes the worktree; its mkdir brings the directory back, unknown to git, and the run works there. |
| `Worktree` | `ReplacedIsDisposable` | `src/src/entry/env/worktree.ts:271` | The copy is compared and then removed with no lock held: what a runner inside the worktree writes in between is destroyed. |
| `Worktree` | `InterruptReachesStop` | `src/src/runner.ts:50` | stackStop is NO_STACK_STOP until startup has returned, so a signal or an error during the rest of the boot leaves the services the preflight started. |
| `Worktree` | `RefusedLeavesStack` | `src/src/entry/env/worktree.ts:456` | An edit made while the teardown hook runs makes git refuse the removal after the hook has stopped the services. |
| `PipelineDefinition` | `FixRolesAreValidated` | `src/src/definition/dsl/profiles.ts:206` | A fix role is resolved against its backend only by applyFixProfile, while the steps before it are already materialized: no rule of the chain looks at fix_profile. |
| `PipelineDefinition` | `BackendsAreValidated` | `src/src/definition/validation/output-contract.ts:43` | A backend whose factory throws on its options is passed over by the output-contract rule. |
| `PipelineDefinition` | `GroupsOnlyRead` | `src/src/contracts/backends.ts:214` | The opencode factory has no describeWriteGrant, though its options name the agent and the runner's agent has every tool (src/src/agents/backends/opencode/config.ts:37), so a group accepts a member that writes. |
| `AgentLaunch` | `FieldsAreAsked` | `src/src/agents/backends/opencode/args.ts:66` | The instruction of a step with captured fields is appended only when the prompt does not contain json:verdict, so a prompt that spells the verdict out is launched without its fields. |
| `AgentOutcome` | `FieldWinsOverPrefix` | `src/src/execution/runners.ts:120` | verdictFromObject keeps `blocked: false` out of the verdict, so the failure has no cause and normalizeAgentResult reads the prefix of its reason again and sets "blocked". |
| `AgentOutcome` | `OneCascade` | `src/src/agents/backends/claude-code/result.ts:72` | Claude's mapper reads the structured output first and the fence otherwise, and never tries the whole text, where codex and opencode read the fence first. |
| `BashStream` | `ErrorsAreRetained` | `src/src/shared/process/bash-runner.ts:103` | collapseCR keeps what follows the last carriage return of a line, which is nothing for a line ended by CR LF, so every line of such a tool is emptied. |
| `WorkItemFiles` | `NeverTheWrongGate` | `src/src/dashboard/read-model/explorer.ts:238` | A stop whose recorded artifact is gone falls through to the naming of its subject and flags artifacts/plan.md for a gate on artifacts/design.md. |
| `RunLogs` | `LiveLogsAreKept` | `src/src/entry/commands/diagnostics-readers.ts:399` | A run is old when its snapshot was last saved before the cutoff; a step running longer than that saves nothing, so a cleaning unlinks the output.log it still writes, and the rest of its lines goes to a file without a name. |
| `RunLogs` | `RemovedLogsAreCompressed` | `src/src/entry/commands/diagnostics-readers.ts:361` | A cleaning killed while writing output.log.gz leaves a cut file; the next one sees a copy there, writes none and removes the log. |
| `DeliveryReport` | `DroppedCriterionIsNamed` | `src/src/dashboard/read-model/report.ts:66` | Warnings past MAX_WARNINGS are not recorded, and links and delivered facts come before criteria: broken ones fill the list and a dropped criterion is named nowhere. |
| `RunJournal` | `RemainderSurvives` | `src/src/run/record/stores/file-run-event-store.ts:99` | appendAt never looks at how the file ends: after a death in the middle of a write, the first event of the resume (the settle of the crashed attempt, or run.resumed) joins the torn line, and both are skipped as one unreadable line. |
| `RunJournal` | `NoLineIsDiscarded` | `src/src/agents/backends/codex/execution.ts:100` | The codex and opencode hosts append stdout to the run journal as it arrives, cut anywhere (src/src/agents/backends/host-helpers.ts:33 "A chunk rarely ends on a line boundary"): the event written after a chunk cut in the middle of a record, such as the step.attempt.finished of an attempt whose backend was killed, joins that line and is skipped. |
| `RunJournal` | `GapIsShown` | `src/src/dashboard/read-model/run-journey.ts:45` | A resume settles the crashed attempt before it journals run.resumed, so the last line before the resume is the settle's, written at the same instant: the pause lasts nothing and the timeline drops it. |
| `RunTimeline` | `WorkExcludesWaits` | `src/src/dashboard/ui/app/lib/run-timeline.ts:136` | An attempt its runner died in is settled by the resume, so its end is the instant of the resume and the wait counts as its work (and no pause is drawn for it). |
| `InboxTimeline` | `EarlierIsBefore` | `src/src/dashboard/ui/app/lib/inbox-timeline.ts:162` | The earlier section says "before" the day the seventh night back began, but holds the runs of that day up to 18:00, which belong to the eighth: a row dated the 17th is listed under "before Fri 17". |
| `TrackerEffects` | `StopIsAnnounced` | `src/src/execution/step/step-loop.ts:189` | On a resume in the default mode a step that was skipped is passed over even when it declares rerunOnResume, so an escalation skipped by the first pass stays skipped when the reviewed artifact has come to block since, and the gate, which was done and is asked again, stops the run with no note and with the ticket still in its work queue. |
| `TrackerEffects` | `NoteNeverHolds` | `src/src/definition/builtin-steps/lib/work-item-steps.ts:263` | An escalation whose note callback throws, or returns a note that is not valid, throws before applyWorkItemEffects: the move is not attempted, the failure is absorbed as a warning, and the ticket stays in its queue. |
| `TrackerEffects` | `AnswersReach` | `src/src/contracts/note.ts:20` | A comment is dropped from what the next run reads when it contains "[pipeline:" anywhere, so a person's answer that quotes the note (on Jira the marker is visible text) is dropped whole. |

## 4. What is proved

### The lock

`ProcessLockProofs.tla` proves, for any set of contenders and ghosts, any
assignment of pids, any retries and rounds and any number of crashes:

| Theorem | States |
|---|---|
| `LockTypesCorrect` | `Spec => []TypeOK` |
| `HoldersKeepTheirLock` | `Spec => []HolderKeepsLock` |
| `ExclusionUnlessDisplaced` | `Spec => []MutualExclusionUnlessDisplaced` |
| `DiscardsAreJustified` | `Spec => OnlyDeadOrOwnDiscarded` |
| `ElectionsBreakFirst` | `Spec => []BrokenElectionFirst` |
| `ExclusionUnlessElectionBroken` | `Spec => [](movedMarkers = {} => MutualExclusion)` |

The only assumption is `LockAssumption`, the types of the constants: it does not
say that pids are distinct, that start tokens can be read, or how many processes
crash.

*The argument.* Types need one strengthening: the election tokens of a process
are bounded because each election costs a round (`RoundsOK`). Safety rests on
four facts that hold together.

- `LockNamed`: what stands under the lock's name is the lock of somebody who was
  born. Markers never get there.
- `PidsApart`: two live processes have different pids. Then a lock that
  `IsHeld` rejects belongs to a process that is over, even when its pid is that
  of the reader.
- `Chosen`: a process about to take a lock file away chose its own or one whose
  publisher is over. The dead stay dead, so the choice is never stale. This is
  the fact that makes the design work, and the reason it is not enough to check
  the file at the time of the rename.
- `Kept`: what a process took off the lock's name by mistake is a lock, and stays
  in its hands until it restores or loses it.

From these, `OwnerKeepsLock`: whoever published and was not refused since finds
its file under the name, or is displaced. The mutual exclusion theorem follows,
since one name holds one file.

The last two theorems make the comment of `lock.ts` on "two nested races" exact.
`Unbroken` holds as long as no marker was renamed away by mistake, and says then
that no lock was either:

- `Aimed`: a `takeIfSame` is after a marker of its own or of a process that is
  over, after the lock of a process that is over (the elected), or after its
  own lock (`takeOwn`).
- `ElectionHeld`: the marker of an elected process stands under the marker's
  name, so one process is elected at a time. The others only detach markers of
  the dead, and find there what they observed.
- `DetachSure`: between the recheck of a lock and its rename, nobody else takes
  it: the dead one's lock is after one elected process, a living one's lock
  after its owner. The rename therefore brings what was observed, and nothing is
  ever to be put back.

The first mistake is thus always a marker's: a process that observed a dead marker
renames the one a later process published in between. That TLC finds
(`MutualExclusion` fails with three contenders), and the proof shows it is the
only way in. All the parts are also invariants that TLC was given before they
were proved.

### The run record

For any pipeline, group, quotas, ceiling, prices, command lines, and any bounds
on attempts, spending, processes and lost appends:

| Theorem | States | In |
|---|---|---|
| `RunTypesCorrect` | `Spec => []TypeOK` | `RunRecordProofs` |
| `NumbersAreFresh` | `Spec => AttemptNumbersFresh` | `RunRecordProofs` |
| `AttemptsClosedOnce` | `Spec => ClosedOnce` | `RunRecordProofs` |
| `InterruptedReplayAuthorized` | `Spec => InterruptedNeedsAuthorization` | `RunRecordProofs` |
| `EvidenceKept` | `Spec => []UncertaintyNeverLaundered` | `RunRecordProofs` |
| `SettledStaysSettled` | `Spec => SettledWorkNeverReplayed` | `RunSettledProofs` |
| `RestoredDoneFinished` | `Spec => []RestoredDoneIsFinished` | `RunSettledProofs` |
| `PassSpeaksOfTheWhole` | `Spec => []PassIsComplete` | `RunSettledProofs` |
| `EveryEndNamed` | `Spec => []VerdictKnown` | `RunSettledProofs` |
| `LedgerIsTheJournal` | `Spec => []LedgerMatchesJournal` | `RunSettledProofs` |
| `GateIsHeld` | `Spec => GateHolds` | `RunSettledProofs` |
| `OnlyAVerdictKeepsOpen` | `HandledSignalClosesAttempts`, of an exit with no verdict but the signal's | `RunSettledProofs` |
| `HandledSignalLeavesNoneOpen` | `Group = {} => (Spec => HandledSignalClosesAttempts)` | `RunSettledProofs` |
| `FailureIsResumable` | `RerunOnResume = {} => (Spec => []CostStopIsResumable)` | `RunSettledProofs` |
| `NothingIsStranded` | `Group = {} /\ RerunOnResume = {} => (Spec => []UnfinishedIsResumable)` | `RunSettledProofs` |
| `ResumeIsIdempotent` | `Spec => []ResumeIdempotent` | `RunSettledProofs` |

The only assumption used is `ConstantsAssumption`, the types of the constants.

*Types.* `TypeOK` is more than types in one place: a retry quota stays within
`0..max_retries` although `step-bookkeeping.ts` clamps neither the refund of a
rerun that a guard cut short nor the quota a resume reads back. It needs three
strengthenings, in `TypeInv`.

- The runs of memory, of the snapshot *and of every snapshot still to be
  written* have quotas within bounds (`SoundRun`, `SoundWrite`): a crash makes
  any of them the run of the next process. Hence what a resume restores is sound
  for any journal (`RestoredSound`).
- `Refundable`: a rerun in progress has consumed the quota that may be given
  back to it, even after its sibling's verdict or a signal.
- `Numbered`: a pass that opened an attempt has it. The signal handler and
  `settleAttempt` name the attempt they close by the greatest number.

*Numbers.* The proof shows why the journal is not needed for the numbers to be
fresh. Every number used is at most `last_attempt` on disk, in memory and in each
snapshot still to be written (`NumbersBelow`), and `nextAttemptNumber` is above
that of memory. Between `openAttempt` and the spawn, the number is new and a
snapshot holds it, or is about to (`Fresh`); the spawn waits for the write.
That `openAttempt` is not denied its save needs `Undisturbed`: no abort falls
between the admission of a unit and its spawns. Had the spawn not waited for the
snapshot, or had the number followed the journal alone, the induction would fail
at `SpawnNumbers` or at `OpenAttemptNumbers`; the mutant of that property is the
latter.

*Attempts.* The last three theorems of `RunRecordProofs` need the journal's side of
the attempts. `StepKinds` sorts the steps of a process: most are *quiet*, they
neither open nor close an attempt and write no event of one, whatever they do to
the run; the others are an opening, a closure, a resume, a signal, a crash, and
one write reaching the disk, each described once by a lemma.

- `Mirror`, while no append failed: memory holds the attempts of the journal, but
  for those an event of the outbox announces, one per step at most; what a
  finish announces, the journal still holds open; what runs is the last attempt of
  its step, and its pass is past the opening. `ClosedOnce` follows. A lost start
  really breaks it: the finish then closes an attempt the journal never saw, which
  is why the theorem, like the property, speaks of `lost = 0`.
- `DiedInv`: between two processes the last attempt of a step that died is
  open in the journal, or closed as interrupted (`Wounded`); a resume reads it as
  interrupted (`Scarred`), and from then on the step is not past `started`, and
  is a member of the unit only when `Authorized`. Only opening it ends this. A
  death between the finish of an attempt and the snapshot counts as one, which is
  where the argument needs `Mirror`: a finish not yet written is of an attempt
  the journal holds open.
- `Uncertain`, for any lost appends: only a closed attempt is evidence
  (`ClosedEvidence`); the closures the runner makes of its own, of a crash or
  a signal, are none; a booted process has read all the evidence there is
  (`EvidenceRead`), opening the ledger takes it over, and each later finish is
  charged before it is written (`EvidenceCharged`).

*Completion.* The first two theorems of `RunSettledProofs` follow from `SettledInv`, and
one lemma, `TurnSettled`, is its induction step for every transition of a live
process: a transition changes the status of no step, or of steps that were not
done, and what it writes says so. Its parts:

- `FinishedHeld`: a completion that reached the disk is in the snapshot, or in
  the journal next to a snapshot that calls the step running (`Held`), which
  `reconcileStepStatus` reads as done. Memory agrees, but for the instant between
  a resume that requeues the step and the write that tells the disk.
- `UnderWay` and `Completing` make the second case the only one: a pass is in
  the snapshot before it can end, because its start and the opening of its
  attempts are saved before anything else runs. An abort would suppress those
  saves; it also forbids the verdict.
- `AdmittedOwed`: a member of a unit was not done when it was admitted, and the
  loop is past it, so that it is not decided upon again before it starts.
- `WritesTruthful`: a snapshot still to be written says of each step what memory
  says. The exception is the refund of a rerun a guard cut short, saved while
  the step is still running; the invariant had to name it.
- `JournalFresh`, while no append failed: an event that says done never stands
  next to a step that is at work again and not finished. The first write of a
  pass is its status, so a crash leaves either the old pass or the new one. A
  lost append breaks this, and with it `RestoredDoneIsFinished`, which speaks of
  `lost = 0`; `SettledStaysSettled` does not.

*Verdicts.* Two more follow from `VerdictInv`, which speaks of the loop
rather than of the disk.

- `LoopCleared`: unless something stops it, what the loop has left behind is
  settled, or a member of the unit whose pass is not over. At the last step that
  is the whole run.
- `VerdictHeld` and `StopAccounted`: a verdict read back from the snapshot, or
  left by a step that failed, is never one that work has since made stale; with
  a signal or a verdict in place there is something for `deriveRunStatus` to name.
  `EndExplained` says so of every end: the `StepLoopStop` holds a reason, or the
  run does (`Explained`).
- `RunOver` and `DiskOver`: a PASS is written by a process that is done; on disk it
  is older than any work, because the first write of a process that finds some
  to do takes it back before anything starts.

*Money.* The two on the ledger and the gate follow from `SpendingInv`, which holds next to `Mirror`.

- `Counted`: a live process holds of each step at least what its attempts cost,
  and just that while no append failed. An answer is charged to the attempt, the
  step and the ledger in one transition; the estimate of an abort to the attempt
  and the step only, which is why the ledger is spoken of while the run is not
  aborted.
- `Ordered` and `SnapCounted`: a transition writes the finish of an attempt before
  the run that counts it, so that the snapshot on disk never counts what the
  journal does not hold. A resume takes of each step the greater of the two
  (`ProjectedCost`, `RestoredSpend`), which is then the journal: nothing is paid
  twice, nothing is forgotten. An append that failed leaves the snapshot ahead,
  and the inequality.
- `AttemptCosts`: what is not closed costs nothing, and the journal holds of an
  attempt no more than memory does. This is where `projectStepSpend` ignoring the
  attempts in flight is shown to lose nothing.
- `LedgerIs` and `Gate`: the ledger is what the steps of the run spent, and a step
  admitted, or started again, is below the ceiling *now*. No answer comes between
  the gate and the opening: the openings of a unit are one synchronous turn
  (`Busy`), and the answers of siblings wait for it. Without that, the overlapping
  reruns of a group would break `Gate` in `AnsweredLedger`.

*Signals.* `HandledSignalClosesAttempts` holds of the code without a group, and run
`signalgroup` refutes it with one. The proof says what the difference is, in
`SignalInv`, next to `Mirror`: an attempt the journal holds open is open in memory.

- `Executed`: the handler walks the executing steps, and every pass under way is
  of one, until an abort. So an abort closes every attempt (`NoneOpen`).
- `Uncontested`: `abortRun` aborts unless the run has its verdict. A verdict in
  the middle of a pass is a sibling's (`StopsAlone`: without a group, a run that
  stops has no other pass under way), and it is the only exception:
  `OnlyAVerdictKeepsOpen` assumes no group.

*Resumability.* The code breaks `CostStopIsResumable` with a step declared
`rerunOnResume` and `UnfinishedIsResumable` with a group (section 3): the two theorems say that these are the only
ways. Both follow from `OwingInv`, next to `SettledInv` and `VerdictInv`.

- `Honest`: of a step nobody is at work on, either the work is settled or it is
  owed by the run *and* by what a resume would restore of it: no event in the
  journal, and none still to be written, settles what its run gave up.
- `StopSpoilt` and `EndOwes`: a loop that stops without its verdict has a pass
  that failed, or leaves a step to execute; so has every end that is not a PASS.
- `RunOwes`, `WritesOwe` and `DiskOwes` carry this from memory to each snapshot
  still to be written, and to the disk at any crash between two writes, events
  that land after the snapshot included. `RestoredOwing` is the resume: a run
  that owes work is live again and owes it still.
- `rerunOnResume` is excluded in one place (`BreaksOwing`): there the loop may
  stop, on cost or for the operator, at a step that is done. A group is excluded
  because `stopOnTreeWrites` may stop a run that is complete (`Grave`).

*Resume repeated.* `ResumeIdempotent` compares the run a resume restores with the
one its repetition would, from the disk as each of its writes leaves it. Two facts
about the pure operators carry it, whatever the journal and the snapshot hold.

- `RestoreShape`: each write of a resume is the closure of an attempt the death
  left in flight, or the restored run itself. A step is read twice as once
  (`ReadTwice`): what `reconcileStepStatus` settled it settles again.
- `SameProjection`: closing an attempt in flight changes neither its number nor
  what `projectStepSpend` adds up, since it had cost nothing (`AttemptCosts`, the
  only place where the reachable states are needed).

The sums of the record are recursive functions over a bounded domain.
`RecursionExists` proves by the least-element principle that such a function
exists, hence that the one `CHOOSE` picks obeys its equations (`SumTotal`,
`RunCostTotal`, `JournalCostTotal`); a sum that changes in one place changes by
as much (`TotalChange`), and one that is less everywhere is less (`TotalLess`).

*Induction.* The induction theorems of the library are parameterised by a
predicate, which the installed provers cannot instantiate. `RunRecordProofs` proves
the least-element principle for a set from well-foundedness of `<` instead, and
from it that a set of numbers has a greatest element and an increasing
enumeration (`Ascending`), and that a concatenation of writes is one
(`FlattenSeq`).

### The folder cycles

`FolderCyclesProofs.tla` proves Tarjan's search, as `multiNodeComponents` writes it,
for every graph of folders and every order of visit, with no assumption at all:

| Theorem | States |
|---|---|
| `SearchTypesCorrect` | `Spec => []TypeOK` |
| `StackStaysOpen` | `Spec => []StackReachesCall` |
| `EveryCycleIsFound` | `Spec => []FindsEveryCycle` |
| `SearchReportsCycles` | `Spec => Abstract!Init /\ [][Abstract!Report]_<<edges, component>>` |

The third is the correctness of the gate's edges: none is missed, none is accused.
The fourth is the refinement of `Components` without its fairness; that the
search ends is what run `folders` checks (`Promise`).

*The argument.* Reachability is that of `Components`: every set of folders closed under
edges that holds the one holds the other. Transitivity and "no edge leaves the
closed components" are then facts about sets, and nothing is an induction over
paths. `SearchInv` says, of the calls of `visit` in progress and the stack:

- `Stacked`, `Calling`: both are in the order of the numbers, and a call's folder
  is on the stack until it returns. So what a return cuts off the end of the
  stack is what was met since its folder (`StackCut`).
- `Downward`, `Upward`: a call reaches everything on the stack that was met since
  it, and everything on the stack reaches a call that is no younger. Of the
  innermost call, the two make what is above it one component.
- `LinkReached`: the link of a call is the number of a folder of the stack that it
  reaches. This keeps `Upward` when a call returns without closing: its folder
  reaches something older, hence an older call.
- `LinkLowest`: no edge looked at since a call, and before the next one, leads to
  the stack below the link of the call. A return merges the two spans, and that
  is why the caller takes the lower of the two links. When the link is the folder's own
  number, no edge leaves what was met since but to closed components
  (`ClosesComponent`): the component is whole.
- `Followed`, `Reporting`: an edge that was looked at leads to a folder met, no
  edge leaves the closed folders but to one of them, and each of these has its component.

### The other proofs

The proofs of `Supervision`, `FixLoop`, `Allowance` and `ChildRuns` stand at the end
of these modules, after the properties. Each has one inductive invariant, of which
TLC was given every part on the instances of section 3 before it was proved; the
composite runs evaluate the assumptions on the constants they give.

### Supervision

For any processes of the steps and any number of signals:

| Theorem | States |
|---|---|
| `NothingIsLeftBehind` | `Spec => [](TypeOK /\ ResolvedLeavesNothing /\ NothingOutlivesRunner)` |
| `ServicesStopInOrder` | `Spec => [](ServicesStopLast /\ OneSignalSparesTheHook)` |
| `CodeIsDecidedOnce` | `Spec => [][CodeNamesFirstSignal]_vars` |

`SupervisionAssumption` says that the hook is not one of the steps' processes. The
invariant, `SupervisionInv`:

- `Phased`: a process, the promise of its call and its kill are in step. A kill
  starts once, whether a policy or a cleanup asked for it.
- `Gone`: a kill that is over, a call that ends without one, a call that resolved:
  the whole tree is gone, descendants of the group included. What lives is
  `tracked`, which is why `shutdown` misses nobody.
- `Ended`: while the hook is up no process of the steps lives and none can be
  spawned, because the steps are reported or aborted; what shuts the default
  scope down is the stop or the interruption. After `exited`, nothing lives.
- `Answered`: every signal counted by the stop is one received, besides the one
  that interrupted the steps; the code of a runner that was interrupted is that of
  its first signal.

### The fix loop

For any set of step definitions, any providers, and any number of executions:

| Theorem | States |
|---|---|
| `QuotasAndVerdictsHold` | `Spec => [](TypeOK /\ AttemptsBounded /\ DoneIsVerified)` |
| `EscalationClimbsOnTime` | `Spec => []EscalatesOnTime /\ [][LadderClimbs]_vars` |
| `RepairFindsItsSession` | `Spec => [](RepairSpeaksItsBackend /\ ResumeKeepsContext)` |
| `CostStopIsLeftToResume` | `NoReaskAbsorbed => (Spec => []CostLeft)` |

`FixLoopAssumption` gives the fields of a definition their types, a fix loop at
least one attempt, and allows a `fix_backend` only to a step without a backend of
its own whose repair resumes no session, as the checks of a pipeline do. `FixLoopInv`:

- `Counted`: the quotas on disk are what the attempts not refunded consumed, at
  every death between an attempt and its write: `AttemptsBounded` follows.
- `Verified`: a step settles as done after its own command, with no repair since.
- `Latched`: without a timeout the rung moves only past the threshold, and has
  moved for the attempt in flight. A timeout is the only other way up.
- `Placed`, `Resumed`: which of the loops an attempt belongs to; the repair in
  flight is in the session it was asked for.

`CostStopNeverAbsorbed` is one of the statements the code contradicts (section 3):
the last theorem says that these are the only ways. A step that is not blocking
absorbs a stop on cost when a re-ask was withheld (excluded by `NoReaskAbsorbed`),
or when a fix loop that has consumed its quota is resumed (`CostLeft` speaks of the
first execution, or of another loop). `CostInv` has the reason: in the first
execution a stop on cost comes before any quota is consumed, or ends the loop as
a stop.

### The allowances

For any pipeline of units of any size, any costs, ceiling and number of reruns:

| Theorem | States |
|---|---|
| `CeilingIsShared` | `Spec => [](CeilingShared /\ NothingLeaks)` |
| `FirstSharesAreEqual` | `Spec => [][EqualFirstShares]_vars` |

`AllowanceAssumption` gives the constants their types. The invariant has two parts
beside `Typed`: `CeilingShared` itself, and `Fair`: while a group starts nothing
else moves, those that have not asked yet are awaited, and what is left of the
room covers an equal share for each of them. One member's share is the room left
divided by those still awaited, so it takes no more than leaves the others theirs
(`ShareCovers`). The sum of the allowances held is a fold over a finite set;
`FoldIsSum` proves that it obeys the equations of a sum (the library's theorem on
folds takes operators as parameters), by induction on subsets, and `TotalGrows`
that it grows by what one member takes. The bound the model's `TypeOK` puts on the
amounts of the ledger, `Amounts`, is one of the instance and stays with TLC.

### Child runs

For any prices, ceilings, identities, items to run over (one or two), and any
number of generations, deaths and lost directories:

| Theorem | States |
|---|---|
| `EachCallRunsOneChild` | `Spec => [](TypeOK /\ OneChildPerCall)` |
| `SettledCallsAreKept` | `Spec => []ResumeNotRefused /\ [][SettledIsFinal]_vars` |
| `ChargesAreExact` | `Spec => []ChargedExactly` |
| `UnpricedStopsTheNext` | `Spec => [][UnpricedSpawnsNothing]_vars` |
| `BudgetIsKept` | `BudgetRaised => (Spec => []BudgetHolds)` |

`ChildRunsAssumption` gives the constants their types, a list one or two items,
which is what the five keys of the model name, as many identities as calls, and the
prices a dearest one. `BudgetRaised` says that the ceiling is not zero and that
`--max-cost` raises it: a lower one may already have been exceeded when it is given.

*The argument.* A death makes the snapshot the memory of the next generation, so
the invariant `Sound` is stated of both, with the children as they are now. It
has three parts.

- `Tables`: the calls are settled in their order. One at most is open, those
  before it are settled, those after it untouched; each names the frozen item it
  is for, and no two name one child.
- `Children`: a directory and a journaled start are those of a child some call
  names, so a child is never run for nobody; a child was charged no more than it
  spent, and exactly that once settled; whatever ran for a call is the child it
  names, born once. A new name is fresh because one call more than those named is
  always left (`FreshIdentity`, by counting).
- `Spend`: what all the children spent is what the node was charged, plus what the
  child under way spent since its last charge. The same sentence holds of the
  snapshot, where a death may lose a charge and keep what was spent: charging by
  difference (`chargeChildReconciliation`) pays it then, once.

`Memory` bounds how far memory is ahead of the snapshot, to the transition of one
charge. `Placed` says what each program point has behind it: the gate passed and
the ceiling computed since (`childCostCeiling`), the start journaled before the
child spends. From these, `real` is below the ceiling before each attempt, and
`BudgetHolds` is one price more. `ChargedExactly` has an invariant of its own,
`Booked`: the node's sum is changed with the call's.

### Only model-checked

For the lock, of two contenders: `MutualExclusion`, `SomeoneWins` and
`RoundCapUnreached`. For the run record: the liveness, and,
where they may fail, `HandledSignalClosesAttempts` with a group and
`UnfinishedIsResumable` with a group or a `rerunOnResume`. For the folder cycles:
that the search ends. For the last four components: their liveness (`NodeSettles`
among it), and what the code contradicts (section 3). The other components:
everything, on the instances of section 3. Liveness and ENABLED are out of the
provers' reach. No module has a RECURSIVE operator.

## 5. What is not modelled, and the plan

| Part | Why not |
|---|---|
| Reconcile mode, sessions and freshness checks inside `RunRecord` | `Provenance`, `FixLoop` and `RunEnding` have them on their own; the product with every crash window is out of TLC's reach |
| Shape checks of stored JSON (`schema.ts`, `journal-schema.ts`), configuration schema, registries, extensions | parsing of data: what they refuse is an input of the models |
| Prompts, templates, rendering, wording of reports and of the console | no property is about them |
| The pages, styles and markdown of the dashboard, and the routes that only forward | rendering; the read models behind them are modelled |
| Parsing of the payloads of `gh` and `acli` | external formats; what a call may answer is a choice in `TrackerEffects` |
| The CLIs of the agents, tmux, git, docker | external: modelled by what the code relies on, and marked so in `PROJECT.json` |

Next: the safety invariants of the components only instances speak for, the ones
with the longest interleavings first: `Dispatch`, `Provenance`, `Approvals`,
`RunSelection`, `History`.
