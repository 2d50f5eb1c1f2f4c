---------------------------- MODULE MCWorkspace ----------------------------
(***************************************************************************)
(* Instances of the components around the runs, for TLC: the definition of *)
(* a pipeline, the command line, the directories and records a run keeps,  *)
(* the decisions of people, the tracker, the queue of tickets and the      *)
(* worktree.                                                               *)
(*                                                                         *)
(* They share files, not state: what one of them leaves on disk is an      *)
(* input of the next. So one run of TLC explores them side by side: a      *)
(* behaviour chooses a part and is a behaviour of its component, with the  *)
(* variables of the other components off.                                  *)
(***************************************************************************)
EXTENDS Naturals, Sequences, FiniteSets, TLC

CONSTANTS
    Parts,       \* the parts a run explores
    p1, p2, ghost, \* processes that contend for a lock; ghost died before, and p1 runs under its pid
    Vacant       \* an absent lock

VARIABLES
    part,   \* which part a behaviour explores: it never changes
    \* The variables of the components; two parts share one of a common name,
    \* and it is off in the others.
    approvals, artifact, ask, at, att, baseline, body, builders, built, by, calls,
    child, claim, comments, crashes, crossed, cycles, damaged, deaths, definition,
    died, dir, edits, errors, file, gate, granted, guards, imports, inits, inv,
    invoked, judged, latest, ledger, left, line, lock, lost, lostLocks, made, mem,
    mine, mode, movedMarkers, newOnDirty, open, opts, outcome, parts, passed, path,
    pc, phase, pipeline, present, queue, rec, record, refusedHolding, registered,
    reworks, robbed, round, runs, scans, settled, snap, sound, spawned, stack,
    stale, status, step, stopped, streak, tags, taken, target, text, tree, tries,
    unread, verdict, visits, w, warned, why, written, wrote

vars ==
    <<part, approvals, artifact, ask, at, att, baseline, body, builders, built, by,
      calls, child, claim, comments, crashes, crossed, cycles, damaged, deaths,
      definition, died, dir, edits, errors, file, gate, granted, guards, imports,
      inits, inv, invoked, judged, latest, ledger, left, line, lock, lost,
      lostLocks, made, mem, mine, mode, movedMarkers, newOnDirty, open, opts,
      outcome, parts, passed, path, pc, phase, pipeline, present, queue, rec,
      record, refusedHolding, registered, reworks, robbed, round, runs, scans,
      settled, snap, sound, spawned, stack, stale, status, step, stopped, streak,
      tags, taken, target, text, tree, tries, unread, verdict, visits, w, warned,
      why, written, wrote>>

-----------------------------------------------------------------------------
\* Provenance: a plan and the step that amends it; a step without input beside one
\* that revises its output and makes another.
AmendReads == [plan |-> {"issue", "tree"}, amend |-> {"note", "spec"}]
AmendMakes == [plan |-> {"spec"}, amend |-> {"spec"}]
AmendContents == [issue |-> {1, 2}, note |-> {1}, tree |-> {0, 1}, spec |-> 0..2]
SeedReads == [plan |-> {}, amend |-> {"note", "spec"}]
SeedMakes == [plan |-> {"spec"}, amend |-> {"spec", "report"}]
SeedContents == [note |-> {0, 1}, spec |-> 0..2, report |-> {0, 1}]

\* History: two processes end one root run after the other, one its child, one another
\* root; a file an older version wrote holds a line that does not parse and two lines
\* of one run.
RunOf == [w1 |-> "root", w2 |-> "child", w3 |-> "root", w4 |-> "other"]
ParentOf == [root |-> "none", child |-> "root", other |-> "none"]
Torn == [run |-> "none"]
OldLine == [run |-> "root", parent |-> "none", status |-> "PASS", at |-> 0, steps |-> <<"exact", "exact">>,
            usd |-> {0}, costStatus |-> "known", costUnknown |-> FALSE]
OldFiles == {<<>>, <<Torn>>, <<OldLine, Torn, OldLine>>}

\* CommandLine: the options the parser reads.
AllOptions ==
    {"types-install", "pipeline", "ticket", "steps", "skip", "start-at", "until", "base-branch", "watch",
     "watch-auto-close", "fresh", "scan", "limit", "budget", "allow-unmetered", "replay-interrupted",
     "allow-dirty", "worktree", "lint-config", "lint-pipeline", "approve", "approve-only", "reject", "reason",
     "reject-only", "close", "reopen", "inspect", "logs", "run", "step", "clean", "worktree-clean", "stats",
     "ui", "port", "cors-origin", "since", "failures", "include-children", "logs-only", "older-than",
     "keep-failed", "help", "version", "wrapper-help", "typecheck", "create", "command", "template",
     "template!", "user"}

\* PipelineDefinition: the three backends the runner ships, two an extension adds
\* ("plain" translates no axis, "broken" refuses its options), and three families of
\* pipelines: groups, repairs and axes.
Backend(supports, translates, builds, names) ==
    [supports |-> supports, translates |-> translates, structured |-> TRUE, builds |-> builds, names |-> names]
Both == {"model", "effort"}
Registry ==
    [claude |-> Backend(Both, TRUE, TRUE, FALSE), codex |-> Backend(Both, TRUE, TRUE, TRUE),
     opencode |-> Backend(Both, TRUE, TRUE, FALSE), plain |-> Backend(Both, FALSE, TRUE, FALSE),
     modelOnly |-> Backend({"model"}, TRUE, TRUE, FALSE), broken |-> Backend({"model"}, TRUE, FALSE, FALSE)]
Axes(model, effort) == [model |-> model, effort |-> effort]
NoAxes == Axes("", "")
Nothing == [none |-> TRUE]
Roles ==
    <<"coder", "plain">> :> Axes("p", "") @@ <<"coder", "modelOnly">> :> Axes("m", "high")
    @@ <<"planner", "codex">> :> Axes("luna", "") @@ <<"coder", "claude">> :> Axes("", "max")
    @@ <<"coder", "broken">> :> Axes("b", "")
Id(within, name) == [within |-> within, name |-> name]
StepOf(id, runner) ==
    [id |-> id, runner |-> runner, backend |-> "", profile |-> "", options |-> NoAxes, grants |-> FALSE,
     capability |-> NoAxes, forked |-> FALSE, group |-> "", outputs |-> {}, sources |-> {}, reports |-> {},
     extractor |-> "", fix |-> FALSE, retries |-> 1, resume |-> Nothing, fixBackend |-> "", fixProfile |-> "",
     fixOptions |-> Nothing, escalates |-> FALSE, rework |-> FALSE, captures |-> <<>>, json |-> FALSE,
     orchestration |-> runner = "pipeline", action |-> runner = "fn", rerun |-> FALSE]
AgentOf(id, backend, profile) ==
    [StepOf(id, "agent") EXCEPT !.backend = backend, !.profile = profile, !.json = TRUE]
PipelineOf(steps) == [name |-> "p", steps |-> steps, maxCost |-> 0, perItem |-> 0, reconcile |-> FALSE]

\* A plan, two members of a group beside or around a step, what they read and leave,
\* one member that may resume, repair, rework or write.
Inputs == {{}, {[name |-> "plan", external |-> FALSE]}, {[name |-> "notes", external |-> FALSE]},
           {[name |-> "notes", external |-> TRUE]}}
Planner == [AgentOf(Id("", "plan"), "claude", "planner") EXCEPT !.outputs = {"plan"}]
Member(name, sources, outputs) ==
    [AgentOf(Id("g", name), "codex", "reviewer") EXCEPT !.group = "g", !.sources = sources, !.outputs = outputs]
Flawed(s) ==
    {s, [s EXCEPT !.fix = TRUE], [s EXCEPT !.rework = TRUE], [s EXCEPT !.grants = TRUE],
     [s EXCEPT !.fix = TRUE, !.resume = Id("g", "a")], [s EXCEPT !.resume = Id("g", "a")],
     [s EXCEPT !.id = Id("", "b")], [s EXCEPT !.reports = {"r"}, !.extractor = "ts"]}
GroupPipelines ==
    {PipelineOf(steps) : steps \in
       UNION {{<<Planner, m, n>>, <<m, Planner, n>>, <<m, n>>, <<Planner, n, m>>}
              : m \in {Member("a", i, {o}) : i \in Inputs, o \in {"notes", "review"}},
                n \in UNION {Flawed(Member("b", i, {o})) : i \in Inputs, o \in {"notes", "second"}}}}

\* A gate that repairs, before or after the agent whose session it may resume.
Repairs ==
    {[StepOf(Id("", "tests"), "bash") EXCEPT !.fix = f, !.resume = r, !.fixBackend = b, !.fixProfile = p,
                                             !.escalates = e, !.retries = k]
     : f \in BOOLEAN, r \in {Nothing, Id("", "code"), Id("", "tests"), Id("", "gone")},
       b \in {"", "codex", "gone"}, p \in {"", "coder", "relay"}, e \in BOOLEAN, k \in {0, 1}}
Repairable == {r \in Repairs : r.fixBackend = "codex" => r.fixProfile # "relay"}
RepairPipelines ==
    {PipelineOf(steps) : steps \in
       UNION {{<<AgentOf(Id("", "code"), b, "coder"), r>>, <<r, AgentOf(Id("", "code"), b, "coder")>>,
               <<StepOf(Id("", "code"), "bash"), r>>} : r \in Repairable, b \in {"claude", "codex"}}}

\* Every backend, role, capability and option.
Coded ==
    {[AgentOf(Id("", "code"), b, p) EXCEPT !.capability = c, !.forked = k, !.options = o,
                                           !.fix = x # "", !.fixProfile = x, !.fixOptions = y]
     : b \in {"claude", "codex", "plain", "modelOnly", "gone"}, p \in {"coder", "relay"},
       c \in {NoAxes, Axes("skill", "")}, k \in BOOLEAN, o \in {NoAxes, Axes("mine", "")},
       x \in {"", "extractor", "planner"}, y \in {Nothing, NoAxes, Axes("", "low")}}
AxesPipelines ==
    {PipelineOf(<<s>>) : s \in {s \in Coded :
        s.fixProfile # "" => s.backend \in {"claude", "codex"} /\ s.fixOptions = Nothing}}
    \cup {PipelineOf(<<s, StepOf(Id("", "tests"), "bash")>>)
          : s \in {s \in Coded : s.fixProfile = "" /\ s.fixOptions = Nothing}}
Override(pipe, where) == [pipeline |-> pipe, step |-> where]
BroadConfig ==
    Override("*", Id("", "*")) :> Axes("any", "low") @@ Override("p", Id("", "*")) :> Axes("mine", "")
    @@ Override("q", Id("", "code")) :> Axes("other", "other")
ExactConfig ==
    Override("*", Id("", "*")) :> Axes("", "low") @@ Override("p", Id("", "*")) :> Axes("all", "high")
    @@ Override("p", Id("", "code")) :> Axes("exact", "")

\* PipelineBuilder: a catalog for the review gates and one for the failure policies.
Line(id, runner) ==
    [id |-> id, runner |-> runner, backend |-> "", outputs |-> {}, inputs |-> {}, captures |-> {}, rerun |-> FALSE,
     source |-> "", approval |-> Nothing, policy |-> Nothing, extractor |-> FALSE, blocking |-> TRUE]
Writes(id, document) == [Line(id, "agent") EXCEPT !.backend = "claude", !.outputs = {document}]
Ticket == [Line("ticket", "fn") EXCEPT !.source = "bugTodo"]
Gate(id, subjects, document, guarded, rework) ==
    [Line(id, "fn") EXCEPT !.rerun = TRUE,
       !.approval = [subjects |-> subjects, artifact |-> document, guarded |-> guarded, rework |-> rework]]
GateCatalog ==
    {Writes("plan", "plan.md"), Writes("spec", "spec.md"), Ticket, Line("branch", "bash"),
     Gate("gate", <<"plan">>, "plan.md", FALSE, "plan"), Gate("spec-gate", <<"plan">>, "spec.md", FALSE, "spec"),
     Gate("choice", <<"plan", "split">>, "plan.md", TRUE, "plan"), Gate("self", <<"spec">>, "spec.md", FALSE, "spec"),
     Gate("twice", <<"split", "split">>, "plan.md", TRUE, "")}
Policies ==
    {[fix |-> f, retries |-> k, resume |-> r, fixBackend |-> x, claude |-> c, options |-> o, extracted |-> e, replay |-> y]
     : f \in BOOLEAN, k \in {99, 0, 2}, r \in {"", "code"}, x \in {"", "codex"}, c \in BOOLEAN,
       o \in BOOLEAN, e \in BOOLEAN, y \in BOOLEAN}
PolicyCatalog ==
    {Writes("code", "code.md"), [Writes("codex", "notes.md") EXCEPT !.backend = "codex"], Ticket,
     [Line("odd", "bash") EXCEPT !.captures = {"x"}], [Line("reader", "bash") EXCEPT !.inputs = {"x"}],
     [Line("capture", "agent") EXCEPT !.backend = "codex", !.captures = {"c.json"}]}
    \cup {[Line("tests", "bash") EXCEPT !.policy = p, !.extractor = e, !.blocking = e] : p \in Policies, e \in BOOLEAN}
    \cup {[Writes("edit", "e.md") EXCEPT !.policy = p, !.backend = x]
          : p \in {p \in Policies : p.retries = 99 /\ ~p.extracted}, x \in {"claude", "codex"}}

\* ArchitectureGate: a few files of the repository and imports between them.
SourceFile(name, context, levels, folder, modules, opens) ==
    [name |-> name, contexts |-> {context}, levels |-> levels, folder |-> folder, modules |-> modules, opens |-> opens]
Runner == SourceFile("runner.ts", "entry", {}, "runner.ts", {}, {})
Def    == SourceFile("definition/index.ts", "definition", {}, "definition/index.ts", {"definition"}, {"definition"})
Run    == SourceFile("run/index.ts", "run", {}, "run/index.ts", {"run"}, {"run"})
Rec    == SourceFile("run/record/index.ts", "run", {}, "run/record", {"run", "run-record"}, {"run-record"})
Led    == SourceFile("run/record/ledger.ts", "run", {}, "run/record", {"run", "run-record"}, {})
Stats  == SourceFile("run/stats/index.ts", "run", {}, "run/stats", {"run", "run-stats"}, {"run-stats"})
Agents == SourceFile("agents/claude/runner.ts", "agents", {}, "agents/claude", {"agents"}, {})
Steps  == SourceFile("execution/step/step-loop.ts", "execution", {}, "execution/step", {"execution", "step"}, {"step"})
Items  == SourceFile("work-items/index.ts", "work-items", {}, "work-items/index.ts", {"work-items"}, {"work-items"})
Lib    == SourceFile("shared/lib/x.ts", "shared", {0}, "shared/lib", {}, {})
Env    == SourceFile("shared/env/y.ts", "shared", {3}, "shared/env", {}, {})
Stray  == [Lib EXCEPT !.name = "shared/new.ts", !.levels = {}]
FewEdges == {<<Runner, Led>>, <<Rec, Led>>, <<Led, Rec>>}
ManyEdges == {<<Runner, Steps>>, <<Steps, Run>>, <<Run, Def>>, <<Def, Items>>, <<Items, Lib>>, <<Lib, Env>>,
              <<Def, Run>>, <<Items, Rec>>, <<Agents, Steps>>, <<Lib, Items>>}

\* A plan made of an issue and a source, and the step that amends it with a note.
Amend == INSTANCE Provenance WITH
    Steps <- {"plan", "amend"}, Artifacts <- {"issue", "note", "spec"},
    Sources <- {"tree"}, Reads <- AmendReads, Makes <- AmendMakes,
    Reconcile <- FALSE, Contents <- AmendContents

\* A step without input and the one that revises its output, in a pipeline that reconciles.
Seed == INSTANCE Provenance WITH
    Steps <- {"plan", "amend"}, Artifacts <- {"note", "spec", "report"},
    Sources <- {}, Reads <- SeedReads, Makes <- SeedMakes, Reconcile <- TRUE,
    Contents <- SeedContents

\* A plan whose versions ask for one approval or for another.
TwoSubjects == INSTANCE Approvals WITH
    Subjects <- {"budget", "split"}, People <- {"ann"}, Reasons <- {"none", "why"},
    Versions <- {1, 2}, Verdict <- <<"budget", "split">>, MaxRounds <- 1,
    MaxEdits <- 0, MaxVisits <- 1

\* Two people whose commands overlap, beside a plan that is rejected, made again, edited by
\* hand, and may need no approval.
Rounds == INSTANCE Approvals WITH
    Subjects <- {"budget"}, People <- {"ann", "ben"}, Reasons <- {"none", "why"},
    Versions <- {1, 2}, Verdict <- <<"budget", "ok">>, MaxRounds <- 1,
    MaxEdits <- 1, MaxVisits <- 1

\* Two scans of two tickets, with a valid limit, an invalid one or none.
Scan == INSTANCE Dispatch WITH
    Tickets <- {"t1", "t2"}, CliLimits <- {0, 1}, SourceLimit <- 2,
    DiskFails <- FALSE, MaxScans <- 2, MaxRuns <- 2

\* The same beside a disk that refuses writes.
Disk == INSTANCE Dispatch WITH
    Tickets <- {"t1", "t2"}, CliLimits <- {0}, SourceLimit <- 1, DiskFails <- TRUE,
    MaxScans <- 2, MaxRuns <- 2

\* Two runners that choose a directory and take its lock, one of whose snapshots may be
\* damaged.
Select == INSTANCE RunSelection WITH
    Runners <- {"ann", "ben"}, MaxRuns <- 2, MaxInvocations <- 3, MaxDamage <- 1,
    Unusable <- {}, Dirties <- {FALSE}, DefinitionMoves <- FALSE

\* The same beside a run whose lock cannot be made.
UnusableRun == INSTANCE RunSelection WITH
    Runners <- {"ann", "ben"}, MaxRuns <- 2, MaxInvocations <- 3, MaxDamage <- 0,
    Unusable <- {1}, Dirties <- {TRUE, FALSE}, DefinitionMoves <- FALSE

\* Two processes and the lock of a third that died under the pid of one of them.
Lock == INSTANCE ProcessLock WITH
    Procs <- {p1, p2, ghost}, Ghosts <- {ghost},
    Pid <- [p \in {p1, p2, ghost} |-> IF p = ghost THEN p1 ELSE p],
    StartTokens <- TRUE, Retries <- 1, MaxRounds <- 16, MaxCrashes <- 2,
    NoFile <- Vacant

\* Two runners of a worktree that a third person cleans.
Clean == INSTANCE Worktree WITH
    Runners <- {"R1", "R2"}, Insiders <- {}, Cleaners <- {"C1"}, Polls <- 1,
    MaxSignals <- 0, Editor <- FALSE

\* Two runners under three signals.
Stop == INSTANCE Worktree WITH
    Runners <- {"R1", "R2"}, Insiders <- {}, Cleaners <- {}, Polls <- 1,
    MaxSignals <- 3, Editor <- FALSE

\* A runner, a cleaning and somebody who edits.
Kept == INSTANCE Worktree WITH
    Runners <- {"R1"}, Insiders <- {}, Cleaners <- {"C1"}, Polls <- 0,
    MaxSignals <- 1, Editor <- TRUE

\* Every command line of three options.
Lines == INSTANCE CommandLine WITH
    Typed <- AllOptions, MaxTyped <- 3

\* Longer command lines of the options of a sweep.
Sweeps == INSTANCE CommandLine WITH
    Typed <- {"scan", "ticket", "steps", "skip", "until", "base-branch", "fresh", "limit", "run", "budget", "approve", "allow-dirty"},
    MaxTyped <- 6

\* Four writers of the history, one of which may die with the lock for the others to reclaim.
FourWriters == INSTANCE History WITH
    Writers <- {"w1", "w2", "w3", "w4"}, RunOf <- RunOf, ParentOf <- ParentOf,
    Roots <- {"root", "other"}, Children <- {"child"}, NoRun <- "none",
    OldFiles <- OldFiles, Measures <- {"exact"}, Statuses <- {"PASS"}, Dates <- {0},
    MaxDeaths <- 1, TornAppends <- FALSE

\* Two root runs whose steps report every measure, dated or not.
Totals == INSTANCE History WITH
    Writers <- {"w1", "w4"}, RunOf <- RunOf, ParentOf <- ParentOf,
    Roots <- {"root", "other"}, Children <- {}, NoRun <- "none", OldFiles <- {<<>>},
    Measures <- {"none", "exact", "mixed", "unpriced", "cut"},
    Statuses <- {"PASS", "FAIL"}, Dates <- {0}, MaxDeaths <- 0, TornAppends <- FALSE

\* A root run that ends twice and its child.
Spent == INSTANCE History WITH
    Writers <- {"w1", "w2", "w3"}, RunOf <- RunOf, ParentOf <- ParentOf,
    Roots <- {"root"}, Children <- {"child"}, NoRun <- "none", OldFiles <- {<<>>},
    Measures <- {"exact", "unpriced"}, Statuses <- {"PASS"}, Dates <- {0},
    MaxDeaths <- 0, TornAppends <- FALSE

\* Two passes against GitHub, whose labels are edited one by one.
GitHub == INSTANCE TrackerEffects WITH
    Provider <- "github", Reconcile <- FALSE, Reruns <- {"escalate", "gate"},
    UrlDeclared <- TRUE, Artifacts <- {"fine", "blocks"}, BusyEdits <- TRUE,
    Quotes <- FALSE, MaxPasses <- 2, MaxFaults <- 2, MaxCrashes <- 1, MaxEdits <- 1

\* Passes against Jira, with every artifact a step may leave.
Jira == INSTANCE TrackerEffects WITH
    Provider <- "jira", Reconcile <- FALSE, Reruns <- {"escalate", "gate"},
    UrlDeclared <- FALSE, Artifacts <- {"absent", "bad", "fine", "blocks", "odd"},
    BusyEdits <- TRUE, Quotes <- FALSE, MaxPasses <- 2, MaxFaults <- 2,
    MaxCrashes <- 1, MaxEdits <- 1

\* A pipeline that reconciles and reruns its effects.
Reconciled == INSTANCE TrackerEffects WITH
    Provider <- "github", Reconcile <- TRUE,
    Reruns <- {"escalate", "gate", "work", "deliver"}, UrlDeclared <- TRUE,
    Artifacts <- {"absent", "fine", "blocks"}, BusyEdits <- FALSE, Quotes <- FALSE,
    MaxPasses <- 2, MaxFaults <- 1, MaxCrashes <- 1, MaxEdits <- 1

\* Pipelines with a group, without configuration.
Groups == INSTANCE PipelineDefinition WITH
    Registry <- Registry, DefaultBackend <- "claude", ProfileConfig <- <<>>,
    StepConfig <- <<>>, Extractors <- {"ts"}, Authored <- GroupPipelines

\* Pipelines with a repair.
RepairsOf == INSTANCE PipelineDefinition WITH
    Registry <- Registry, DefaultBackend <- "claude", ProfileConfig <- <<>>,
    StepConfig <- <<>>, Extractors <- {"ts"}, Authored <- RepairPipelines

\* Every axis of a step, under overrides for every step.
Broad == INSTANCE PipelineDefinition WITH
    Registry <- Registry, DefaultBackend <- "claude", ProfileConfig <- Roles,
    StepConfig <- BroadConfig, Extractors <- {"ts"}, Authored <- AxesPipelines

\* The same under an override for the step.
Exact == INSTANCE PipelineDefinition WITH
    Registry <- Registry, DefaultBackend <- "claude", ProfileConfig <- Roles,
    StepConfig <- ExactConfig, Extractors <- {"ts"}, Authored <- AxesPipelines

\* Pipelines of up to four calls with review gates.
Gates == INSTANCE PipelineBuilder WITH
    Catalog <- GateCatalog, DefaultBackend <- "claude",
    Providers <- {"claude", "codex"}, MaxCalls <- 4

\* Every failure policy.
PoliciesOf == INSTANCE PipelineBuilder WITH
    Catalog <- PolicyCatalog, DefaultBackend <- "claude",
    Providers <- {"claude", "codex"}, MaxCalls <- 1

\* Files and imports that come and go, a baseline that is written by hand or by the script.
Debt == INSTANCE ArchitectureGate WITH
    File <- {Runner, Run, Rec, Led, Stray}, Candidates <- FewEdges,
    Moves <- {"tree", "file", "hand", "write"}

\* Files of every context.
Contexts == INSTANCE ArchitectureGate WITH
    File <- {Runner, Def, Run, Rec, Agents, Steps, Items, Lib, Env},
    Candidates <- ManyEdges, Moves <- {"tree"}

\* The constants of every part satisfy what its component asks of them.
ASSUME PartsAssumption ==
    /\ Lock!LockAssumption /\ Clean!WorktreeAssumption
    /\ Stop!WorktreeAssumption /\ Kept!WorktreeAssumption
    /\ GitHub!TrackerAssumption /\ Jira!TrackerAssumption
    /\ Reconciled!TrackerAssumption /\ Debt!GateAssumption
    /\ Contexts!GateAssumption

-----------------------------------------------------------------------------
\* What a part leaves aside is off, and stays so.
Off == "off"
Aside(own) ==
    /\ IF "approvals" \in own THEN TRUE ELSE approvals = Off
    /\ IF "artifact" \in own THEN TRUE ELSE artifact = Off
    /\ IF "ask" \in own THEN TRUE ELSE ask = Off
    /\ IF "at" \in own THEN TRUE ELSE at = Off
    /\ IF "att" \in own THEN TRUE ELSE att = Off
    /\ IF "baseline" \in own THEN TRUE ELSE baseline = Off
    /\ IF "body" \in own THEN TRUE ELSE body = Off
    /\ IF "builders" \in own THEN TRUE ELSE builders = Off
    /\ IF "built" \in own THEN TRUE ELSE built = Off
    /\ IF "by" \in own THEN TRUE ELSE by = Off
    /\ IF "calls" \in own THEN TRUE ELSE calls = Off
    /\ IF "child" \in own THEN TRUE ELSE child = Off
    /\ IF "claim" \in own THEN TRUE ELSE claim = Off
    /\ IF "comments" \in own THEN TRUE ELSE comments = Off
    /\ IF "crashes" \in own THEN TRUE ELSE crashes = Off
    /\ IF "crossed" \in own THEN TRUE ELSE crossed = Off
    /\ IF "cycles" \in own THEN TRUE ELSE cycles = Off
    /\ IF "damaged" \in own THEN TRUE ELSE damaged = Off
    /\ IF "deaths" \in own THEN TRUE ELSE deaths = Off
    /\ IF "definition" \in own THEN TRUE ELSE definition = Off
    /\ IF "died" \in own THEN TRUE ELSE died = Off
    /\ IF "dir" \in own THEN TRUE ELSE dir = Off
    /\ IF "edits" \in own THEN TRUE ELSE edits = Off
    /\ IF "errors" \in own THEN TRUE ELSE errors = Off
    /\ IF "file" \in own THEN TRUE ELSE file = Off
    /\ IF "gate" \in own THEN TRUE ELSE gate = Off
    /\ IF "granted" \in own THEN TRUE ELSE granted = Off
    /\ IF "guards" \in own THEN TRUE ELSE guards = Off
    /\ IF "imports" \in own THEN TRUE ELSE imports = Off
    /\ IF "inits" \in own THEN TRUE ELSE inits = Off
    /\ IF "inv" \in own THEN TRUE ELSE inv = Off
    /\ IF "invoked" \in own THEN TRUE ELSE invoked = Off
    /\ IF "judged" \in own THEN TRUE ELSE judged = Off
    /\ IF "latest" \in own THEN TRUE ELSE latest = Off
    /\ IF "ledger" \in own THEN TRUE ELSE ledger = Off
    /\ IF "left" \in own THEN TRUE ELSE left = Off
    /\ IF "line" \in own THEN TRUE ELSE line = Off
    /\ IF "lock" \in own THEN TRUE ELSE lock = Off
    /\ IF "lost" \in own THEN TRUE ELSE lost = Off
    /\ IF "lostLocks" \in own THEN TRUE ELSE lostLocks = Off
    /\ IF "made" \in own THEN TRUE ELSE made = Off
    /\ IF "mem" \in own THEN TRUE ELSE mem = Off
    /\ IF "mine" \in own THEN TRUE ELSE mine = Off
    /\ IF "mode" \in own THEN TRUE ELSE mode = Off
    /\ IF "movedMarkers" \in own THEN TRUE ELSE movedMarkers = Off
    /\ IF "newOnDirty" \in own THEN TRUE ELSE newOnDirty = Off
    /\ IF "open" \in own THEN TRUE ELSE open = Off
    /\ IF "opts" \in own THEN TRUE ELSE opts = Off
    /\ IF "outcome" \in own THEN TRUE ELSE outcome = Off
    /\ IF "parts" \in own THEN TRUE ELSE parts = Off
    /\ IF "passed" \in own THEN TRUE ELSE passed = Off
    /\ IF "path" \in own THEN TRUE ELSE path = Off
    /\ IF "pc" \in own THEN TRUE ELSE pc = Off
    /\ IF "phase" \in own THEN TRUE ELSE phase = Off
    /\ IF "pipeline" \in own THEN TRUE ELSE pipeline = Off
    /\ IF "present" \in own THEN TRUE ELSE present = Off
    /\ IF "queue" \in own THEN TRUE ELSE queue = Off
    /\ IF "rec" \in own THEN TRUE ELSE rec = Off
    /\ IF "record" \in own THEN TRUE ELSE record = Off
    /\ IF "refusedHolding" \in own THEN TRUE ELSE refusedHolding = Off
    /\ IF "registered" \in own THEN TRUE ELSE registered = Off
    /\ IF "reworks" \in own THEN TRUE ELSE reworks = Off
    /\ IF "robbed" \in own THEN TRUE ELSE robbed = Off
    /\ IF "round" \in own THEN TRUE ELSE round = Off
    /\ IF "runs" \in own THEN TRUE ELSE runs = Off
    /\ IF "scans" \in own THEN TRUE ELSE scans = Off
    /\ IF "settled" \in own THEN TRUE ELSE settled = Off
    /\ IF "snap" \in own THEN TRUE ELSE snap = Off
    /\ IF "sound" \in own THEN TRUE ELSE sound = Off
    /\ IF "spawned" \in own THEN TRUE ELSE spawned = Off
    /\ IF "stack" \in own THEN TRUE ELSE stack = Off
    /\ IF "stale" \in own THEN TRUE ELSE stale = Off
    /\ IF "status" \in own THEN TRUE ELSE status = Off
    /\ IF "step" \in own THEN TRUE ELSE step = Off
    /\ IF "stopped" \in own THEN TRUE ELSE stopped = Off
    /\ IF "streak" \in own THEN TRUE ELSE streak = Off
    /\ IF "tags" \in own THEN TRUE ELSE tags = Off
    /\ IF "taken" \in own THEN TRUE ELSE taken = Off
    /\ IF "target" \in own THEN TRUE ELSE target = Off
    /\ IF "text" \in own THEN TRUE ELSE text = Off
    /\ IF "tree" \in own THEN TRUE ELSE tree = Off
    /\ IF "tries" \in own THEN TRUE ELSE tries = Off
    /\ IF "unread" \in own THEN TRUE ELSE unread = Off
    /\ IF "verdict" \in own THEN TRUE ELSE verdict = Off
    /\ IF "visits" \in own THEN TRUE ELSE visits = Off
    /\ IF "w" \in own THEN TRUE ELSE w = Off
    /\ IF "warned" \in own THEN TRUE ELSE warned = Off
    /\ IF "why" \in own THEN TRUE ELSE why = Off
    /\ IF "written" \in own THEN TRUE ELSE written = Off
    /\ IF "wrote" \in own THEN TRUE ELSE wrote = Off
Still(own) ==
    /\ UNCHANGED part
    /\ IF "approvals" \in own THEN TRUE ELSE UNCHANGED approvals
    /\ IF "artifact" \in own THEN TRUE ELSE UNCHANGED artifact
    /\ IF "ask" \in own THEN TRUE ELSE UNCHANGED ask
    /\ IF "at" \in own THEN TRUE ELSE UNCHANGED at
    /\ IF "att" \in own THEN TRUE ELSE UNCHANGED att
    /\ IF "baseline" \in own THEN TRUE ELSE UNCHANGED baseline
    /\ IF "body" \in own THEN TRUE ELSE UNCHANGED body
    /\ IF "builders" \in own THEN TRUE ELSE UNCHANGED builders
    /\ IF "built" \in own THEN TRUE ELSE UNCHANGED built
    /\ IF "by" \in own THEN TRUE ELSE UNCHANGED by
    /\ IF "calls" \in own THEN TRUE ELSE UNCHANGED calls
    /\ IF "child" \in own THEN TRUE ELSE UNCHANGED child
    /\ IF "claim" \in own THEN TRUE ELSE UNCHANGED claim
    /\ IF "comments" \in own THEN TRUE ELSE UNCHANGED comments
    /\ IF "crashes" \in own THEN TRUE ELSE UNCHANGED crashes
    /\ IF "crossed" \in own THEN TRUE ELSE UNCHANGED crossed
    /\ IF "cycles" \in own THEN TRUE ELSE UNCHANGED cycles
    /\ IF "damaged" \in own THEN TRUE ELSE UNCHANGED damaged
    /\ IF "deaths" \in own THEN TRUE ELSE UNCHANGED deaths
    /\ IF "definition" \in own THEN TRUE ELSE UNCHANGED definition
    /\ IF "died" \in own THEN TRUE ELSE UNCHANGED died
    /\ IF "dir" \in own THEN TRUE ELSE UNCHANGED dir
    /\ IF "edits" \in own THEN TRUE ELSE UNCHANGED edits
    /\ IF "errors" \in own THEN TRUE ELSE UNCHANGED errors
    /\ IF "file" \in own THEN TRUE ELSE UNCHANGED file
    /\ IF "gate" \in own THEN TRUE ELSE UNCHANGED gate
    /\ IF "granted" \in own THEN TRUE ELSE UNCHANGED granted
    /\ IF "guards" \in own THEN TRUE ELSE UNCHANGED guards
    /\ IF "imports" \in own THEN TRUE ELSE UNCHANGED imports
    /\ IF "inits" \in own THEN TRUE ELSE UNCHANGED inits
    /\ IF "inv" \in own THEN TRUE ELSE UNCHANGED inv
    /\ IF "invoked" \in own THEN TRUE ELSE UNCHANGED invoked
    /\ IF "judged" \in own THEN TRUE ELSE UNCHANGED judged
    /\ IF "latest" \in own THEN TRUE ELSE UNCHANGED latest
    /\ IF "ledger" \in own THEN TRUE ELSE UNCHANGED ledger
    /\ IF "left" \in own THEN TRUE ELSE UNCHANGED left
    /\ IF "line" \in own THEN TRUE ELSE UNCHANGED line
    /\ IF "lock" \in own THEN TRUE ELSE UNCHANGED lock
    /\ IF "lost" \in own THEN TRUE ELSE UNCHANGED lost
    /\ IF "lostLocks" \in own THEN TRUE ELSE UNCHANGED lostLocks
    /\ IF "made" \in own THEN TRUE ELSE UNCHANGED made
    /\ IF "mem" \in own THEN TRUE ELSE UNCHANGED mem
    /\ IF "mine" \in own THEN TRUE ELSE UNCHANGED mine
    /\ IF "mode" \in own THEN TRUE ELSE UNCHANGED mode
    /\ IF "movedMarkers" \in own THEN TRUE ELSE UNCHANGED movedMarkers
    /\ IF "newOnDirty" \in own THEN TRUE ELSE UNCHANGED newOnDirty
    /\ IF "open" \in own THEN TRUE ELSE UNCHANGED open
    /\ IF "opts" \in own THEN TRUE ELSE UNCHANGED opts
    /\ IF "outcome" \in own THEN TRUE ELSE UNCHANGED outcome
    /\ IF "parts" \in own THEN TRUE ELSE UNCHANGED parts
    /\ IF "passed" \in own THEN TRUE ELSE UNCHANGED passed
    /\ IF "path" \in own THEN TRUE ELSE UNCHANGED path
    /\ IF "pc" \in own THEN TRUE ELSE UNCHANGED pc
    /\ IF "phase" \in own THEN TRUE ELSE UNCHANGED phase
    /\ IF "pipeline" \in own THEN TRUE ELSE UNCHANGED pipeline
    /\ IF "present" \in own THEN TRUE ELSE UNCHANGED present
    /\ IF "queue" \in own THEN TRUE ELSE UNCHANGED queue
    /\ IF "rec" \in own THEN TRUE ELSE UNCHANGED rec
    /\ IF "record" \in own THEN TRUE ELSE UNCHANGED record
    /\ IF "refusedHolding" \in own THEN TRUE ELSE UNCHANGED refusedHolding
    /\ IF "registered" \in own THEN TRUE ELSE UNCHANGED registered
    /\ IF "reworks" \in own THEN TRUE ELSE UNCHANGED reworks
    /\ IF "robbed" \in own THEN TRUE ELSE UNCHANGED robbed
    /\ IF "round" \in own THEN TRUE ELSE UNCHANGED round
    /\ IF "runs" \in own THEN TRUE ELSE UNCHANGED runs
    /\ IF "scans" \in own THEN TRUE ELSE UNCHANGED scans
    /\ IF "settled" \in own THEN TRUE ELSE UNCHANGED settled
    /\ IF "snap" \in own THEN TRUE ELSE UNCHANGED snap
    /\ IF "sound" \in own THEN TRUE ELSE UNCHANGED sound
    /\ IF "spawned" \in own THEN TRUE ELSE UNCHANGED spawned
    /\ IF "stack" \in own THEN TRUE ELSE UNCHANGED stack
    /\ IF "stale" \in own THEN TRUE ELSE UNCHANGED stale
    /\ IF "status" \in own THEN TRUE ELSE UNCHANGED status
    /\ IF "step" \in own THEN TRUE ELSE UNCHANGED step
    /\ IF "stopped" \in own THEN TRUE ELSE UNCHANGED stopped
    /\ IF "streak" \in own THEN TRUE ELSE UNCHANGED streak
    /\ IF "tags" \in own THEN TRUE ELSE UNCHANGED tags
    /\ IF "taken" \in own THEN TRUE ELSE UNCHANGED taken
    /\ IF "target" \in own THEN TRUE ELSE UNCHANGED target
    /\ IF "text" \in own THEN TRUE ELSE UNCHANGED text
    /\ IF "tree" \in own THEN TRUE ELSE UNCHANGED tree
    /\ IF "tries" \in own THEN TRUE ELSE UNCHANGED tries
    /\ IF "unread" \in own THEN TRUE ELSE UNCHANGED unread
    /\ IF "verdict" \in own THEN TRUE ELSE UNCHANGED verdict
    /\ IF "visits" \in own THEN TRUE ELSE UNCHANGED visits
    /\ IF "w" \in own THEN TRUE ELSE UNCHANGED w
    /\ IF "warned" \in own THEN TRUE ELSE UNCHANGED warned
    /\ IF "why" \in own THEN TRUE ELSE UNCHANGED why
    /\ IF "written" \in own THEN TRUE ELSE UNCHANGED written
    /\ IF "wrote" \in own THEN TRUE ELSE UNCHANGED wrote

ProvenanceOwns ==
    {"text", "rec", "status", "settled", "att", "sound", "parts", "wrote"}
ApprovalsOwns ==
    {"body", "file", "ask", "step", "gate", "edits", "visits", "unread", "streak",
     "granted", "passed"}
DispatchOwns ==
    {"at", "opts", "queue", "record", "file", "latest", "child", "scans", "runs",
     "stale", "spawned", "died"}
RunSelectionOwns ==
    {"snap", "lock", "latest", "made", "inv", "invoked", "damaged", "inits",
     "refusedHolding", "newOnDirty"}
ProcessLockOwns ==
    {"path", "pc", "claim", "target", "taken", "round", "tries", "crashes",
     "lostLocks", "movedMarkers"}
WorktreeOwns ==
    {"registered", "dir", "made", "tree", "lock", "stack", "pc", "mine", "warned",
     "lost"}
CommandLineOwns ==
    {"line", "by", "judged"}
HistoryOwns ==
    {"file", "open", "lock", "w", "ledger", "deaths", "robbed", "wrote"}
TrackerEffectsOwns ==
    {"tags", "comments", "artifact", "pc", "at", "status", "errors", "mem",
     "stopped", "crossed", "left"}
PipelineDefinitionOwns ==
    {"pipeline", "phase", "at", "why"}
PipelineBuilderOwns ==
    {"mode", "definition", "builders", "approvals", "guards", "reworks", "calls",
     "outcome", "built"}
ArchitectureGateOwns ==
    {"present", "imports", "baseline", "cycles", "verdict", "written"}

Init ==
    /\ part \in Parts
    /\ \/ part = "amend"     /\ Amend!Init /\ Aside(ProvenanceOwns)
       \/ part = "seed"      /\ Seed!Init /\ Aside(ProvenanceOwns)
       \/ part = "subjects"  /\ TwoSubjects!Init /\ Aside(ApprovalsOwns)
       \/ part = "rounds"    /\ Rounds!Init /\ Aside(ApprovalsOwns)
       \/ part = "scan"      /\ Scan!Init /\ Aside(DispatchOwns)
       \/ part = "disk"      /\ Disk!Init /\ Aside(DispatchOwns)
       \/ part = "select"    /\ Select!Init /\ Aside(RunSelectionOwns)
       \/ part = "unusable"  /\ UnusableRun!Init /\ Aside(RunSelectionOwns)
       \/ part = "lock"      /\ Lock!Init /\ Aside(ProcessLockOwns)
       \/ part = "clean"     /\ Clean!Init /\ Aside(WorktreeOwns)
       \/ part = "stop"      /\ Stop!Init /\ Aside(WorktreeOwns)
       \/ part = "kept"      /\ Kept!Init /\ Aside(WorktreeOwns)
       \/ part = "lines"     /\ Lines!Init /\ Aside(CommandLineOwns)
       \/ part = "sweeps"    /\ Sweeps!Init /\ Aside(CommandLineOwns)
       \/ part = "writers"   /\ FourWriters!Init /\ Aside(HistoryOwns)
       \/ part = "totals"    /\ Totals!Init /\ Aside(HistoryOwns)
       \/ part = "spent"     /\ Spent!Init /\ Aside(HistoryOwns)
       \/ part = "github"    /\ GitHub!Init /\ Aside(TrackerEffectsOwns)
       \/ part = "jira"      /\ Jira!Init /\ Aside(TrackerEffectsOwns)
       \/ part = "reconcile" /\ Reconciled!Init /\ Aside(TrackerEffectsOwns)
       \/ part = "groups"    /\ Groups!Init /\ Aside(PipelineDefinitionOwns)
       \/ part = "repairs"   /\ RepairsOf!Init /\ Aside(PipelineDefinitionOwns)
       \/ part = "broad"     /\ Broad!Init /\ Aside(PipelineDefinitionOwns)
       \/ part = "exact"     /\ Exact!Init /\ Aside(PipelineDefinitionOwns)
       \/ part = "gates"     /\ Gates!Init /\ Aside(PipelineBuilderOwns)
       \/ part = "policies"  /\ PoliciesOf!Init /\ Aside(PipelineBuilderOwns)
       \/ part = "debt"      /\ Debt!Init /\ Aside(ArchitectureGateOwns)
       \/ part = "contexts"  /\ Contexts!Init /\ Aside(ArchitectureGateOwns)
Next ==
    \/ part = "amend"     /\ Amend!Next /\ Still(ProvenanceOwns)
    \/ part = "seed"      /\ Seed!Next /\ Still(ProvenanceOwns)
    \/ part = "subjects"  /\ TwoSubjects!Next /\ Still(ApprovalsOwns)
    \/ part = "rounds"    /\ Rounds!Next /\ Still(ApprovalsOwns)
    \/ part = "scan"      /\ Scan!Next /\ Still(DispatchOwns)
    \/ part = "disk"      /\ Disk!Next /\ Still(DispatchOwns)
    \/ part = "select"    /\ Select!Next /\ Still(RunSelectionOwns)
    \/ part = "unusable"  /\ UnusableRun!Next /\ Still(RunSelectionOwns)
    \/ part = "lock"      /\ Lock!Next /\ Still(ProcessLockOwns)
    \/ part = "clean"     /\ Clean!Next /\ Still(WorktreeOwns)
    \/ part = "stop"      /\ Stop!Next /\ Still(WorktreeOwns)
    \/ part = "kept"      /\ Kept!Next /\ Still(WorktreeOwns)
    \/ part = "lines"     /\ Lines!Next /\ Still(CommandLineOwns)
    \/ part = "sweeps"    /\ Sweeps!Next /\ Still(CommandLineOwns)
    \/ part = "writers"   /\ FourWriters!Next /\ Still(HistoryOwns)
    \/ part = "totals"    /\ Totals!Next /\ Still(HistoryOwns)
    \/ part = "spent"     /\ Spent!Next /\ Still(HistoryOwns)
    \/ part = "github"    /\ GitHub!Next /\ Still(TrackerEffectsOwns)
    \/ part = "jira"      /\ Jira!Next /\ Still(TrackerEffectsOwns)
    \/ part = "reconcile" /\ Reconciled!Next /\ Still(TrackerEffectsOwns)
    \/ part = "groups"    /\ Groups!Next /\ Still(PipelineDefinitionOwns)
    \/ part = "repairs"   /\ RepairsOf!Next /\ Still(PipelineDefinitionOwns)
    \/ part = "broad"     /\ Broad!Next /\ Still(PipelineDefinitionOwns)
    \/ part = "exact"     /\ Exact!Next /\ Still(PipelineDefinitionOwns)
    \/ part = "gates"     /\ Gates!Next /\ Still(PipelineBuilderOwns)
    \/ part = "policies"  /\ PoliciesOf!Next /\ Still(PipelineBuilderOwns)
    \/ part = "debt"      /\ Debt!Next /\ Still(ArchitectureGateOwns)
    \/ part = "contexts"  /\ Contexts!Next /\ Still(ArchitectureGateOwns)
Spec == Init /\ [][Next]_vars

-----------------------------------------------------------------------------
\* The variables of the part explored have the types of its component.
TypeOK ==
    /\ part = "amend"     => Amend!TypeOK
    /\ part = "seed"      => Seed!TypeOK
    /\ part = "subjects"  => TwoSubjects!TypeOK
    /\ part = "rounds"    => Rounds!TypeOK
    /\ part = "scan"      => Scan!TypeOK
    /\ part = "disk"      => Disk!TypeOK
    /\ part = "select"    => Select!TypeOK
    /\ part = "unusable"  => UnusableRun!TypeOK
    /\ part = "lock"      => Lock!TypeOK
    /\ part = "clean"     => Clean!TypeOK
    /\ part = "stop"      => Stop!TypeOK
    /\ part = "kept"      => Kept!TypeOK
    /\ part = "lines"     => Lines!TypeOK
    /\ part = "sweeps"    => Sweeps!TypeOK
    /\ part = "writers"   => FourWriters!TypeOK
    /\ part = "totals"    => Totals!TypeOK
    /\ part = "spent"     => Spent!TypeOK
    /\ part = "github"    => GitHub!TypeOK
    /\ part = "jira"      => Jira!TypeOK
    /\ part = "reconcile" => Reconciled!TypeOK
    /\ part = "groups"    => Groups!TypeOK
    /\ part = "repairs"   => RepairsOf!TypeOK
    /\ part = "broad"     => Broad!TypeOK
    /\ part = "exact"     => Exact!TypeOK
    /\ part = "gates"     => Gates!TypeOK
    /\ part = "policies"  => PoliciesOf!TypeOK
    /\ part = "debt"      => Debt!TypeOK
    /\ part = "contexts"  => Contexts!TypeOK

\* Bytes an attempt left without succeeding, or that a revision built on such bytes, are kept
\* by nobody but that revision: whatever runs, deaths, marks and hand edits came in between,
\* admission runs the step that owes them. (Provenance)
KeptIsGuaranteed ==
    /\ part = "amend" => Amend!KeptIsGuaranteed
    /\ part = "seed" => Seed!KeptIsGuaranteed

\* A step is told its output is fresh only when its own part of it came from the inputs that
\* are there now, whatever moved during the attempt. (Provenance)
FreshFromItsInputs == part = "amend" => Amend!FreshFromItsInputs

\* Good work is not paid twice: while the bytes and the inputs of a step are those it succeeded
\* over, its output is fresh, even after revisions by other steps, and after revisions that
\* failed or died without writing. (Provenance)
GoodWorkIsKept == part = "amend" => Amend!GoodWorkIsKept

\* What a pipeline is told through freshness() never exceeds what finished attempts vouch for.
\* (Provenance)
PublicFreshIsGuaranteed == part = "seed" => Seed!PublicFreshIsGuaranteed

\* A version that blocks passes the gate only when somebody who read those very bytes approved
\* them under the subject they offer, whatever was written to the artifact and to the decision
\* in between. (Approvals)
PassedOnApproval ==
    /\ part = "subjects" => TwoSubjects!PassedOnApproval
    /\ part = "rounds" => Rounds!PassedOnApproval

\* A rejection holds the gate until somebody approves a new version, even one the verdict lets
\* through: no evaluation that began over a rejected subject passes. (Approvals)
RejectionHolds ==
    /\ part = "subjects" => TwoSubjects!RejectionHolds
    /\ part = "rounds" => Rounds!RejectionHolds

\* Whoever is told by the gate which subject lifts it can answer: as long as neither the
\* artifact nor the decisions moved, the command is accepted and validated (the hint and the
\* guard agree). (Approvals)
NoDeadEnd ==
    /\ part = "subjects" => TwoSubjects!NoDeadEnd
    /\ part = "rounds" => Rounds!NoDeadEnd

\* The rework loop is bounded across runs, whoever rejects: of versions rejected in a row, each
\* by a command that had read the rejection before it, there are no more than MaxRounds. A
\* rejection written unread starts the count again: see RoundsCounted. (Approvals)
RoundsBounded == part = "rounds" => Rounds!RoundsBounded

\* The same approval reaches the runner from several hands, and hands on the artifact in
\* between: the author of an approval is never replaced by whoever repeats it, except by a
\* command that overlaps and had read the file before that approval was written: see
\* AuthorAlwaysKept. (Approvals)
AuthorKept == part = "rounds" => Rounds!AuthorKept

\* A record the disk took tells apart, at whatever moment the scan dies, the ticket in flight,
\* the tickets no child ever got, and those a child came back from (scan-record.ts, "the four
\* states are deliberately distinct"). (Dispatch)
DeathReadable ==
    /\ part = "scan" => Scan!DeathReadable
    /\ part = "disk" => Disk!DeathReadable

\* Every discovered ticket is accounted for, cut by the limit or not, and no ticket beyond the
\* limit is ever handed to a child. (Dispatch)
NothingForgotten ==
    /\ part = "scan" => Scan!NothingForgotten
    /\ part = "disk" => Disk!NothingForgotten

\* A record closed without an abort left no selected ticket behind, also when earlier writes of
\* it failed; one closed by a live scan is never left open. (Dispatch)
ClosedMeansDone ==
    /\ part = "scan" => Scan!ClosedMeansDone
    /\ part = "disk" => Disk!ClosedMeansDone

\* A ticket recorded as fixed has a run that passed, until a later child reopens it; what is
\* skipped as complete is never recorded as failed. (Dispatch)
FixedIsComplete == part = "scan" => Scan!FixedIsComplete

\* A run has one writer: between the claim and the end of the process no other runner opens or
\* works in its directory, as long as its lock can be used (claimRunDir, "two runners
\* interleave snapshots and journal entries"). (RunSelection)
SingleWriter ==
    /\ part = "select" => Select!SingleWriter
    /\ part = "unusable" => UnusableRun!SingleWriter

\* A run is initialised at most once, by the runner that made its directory: a selected
\* snapshot that is deleted or damaged meanwhile is never started over ("so a deletion or
\* corruption race cannot initialize a run"). (RunSelection)
InitializedOnce ==
    /\ part = "select" => Select!InitializedOnce
    /\ part = "unusable" => UnusableRun!InitializedOnce

\* A runner that refuses to go on keeps no lock it took for it: the next one is not told of a
\* writer that does not exist. (RunSelection)
NothingHeldOnRefusal ==
    /\ part = "select" => Select!NothingHeldOnRefusal
    /\ part = "unusable" => UnusableRun!NothingHeldOnRefusal

\* latest never strands an invocation: while nobody damaged anything, a selected run without a
\* snapshot is one whose maker is still at it, or died in between; a refusal never leaves one
\* behind. (RunSelection)
NoRefusalStrands == part = "select" => Select!NoRefusalStrands

\* latest moves to a run that already existed only when an invocation that named it opened it:
\* one that was refused after its claim moves nothing. (RunSelection)
LatestMovesOnOpening ==
    /\ part = "select" => Select!LatestMovesOnOpening
    /\ part = "unusable" => UnusableRun!LatestMovesOnOpening

\* Two processes never hold the lock together. (ProcessLock)
MutualExclusion == part = "lock" => Lock!MutualExclusion

\* Contention never refuses everyone: a dead holder's lock goes to somebody. (ProcessLock)
SomeoneWins == part = "lock" => Lock!SomeoneWins

\* "Every branch below either returns or makes progress": the hard stop of the loop is for a
\* pathological environment, not for contention. (ProcessLock)
RoundCapUnreached == part = "lock" => Lock!RoundCapUnreached

\* No project service is stopped under a live agent: neither by the stop hook of the run
\* itself, nor by a run that ended, nor by a teardown. (Worktree)
NoStopUnderAgents ==
    /\ part = "clean" => Clean!NoStopUnderAgents
    /\ part = "stop" => Stop!NoStopUnderAgents

\* The first step of a run finds its services ready, and they stay so for as long as the run
\* works. (Worktree)
WorkHasServices ==
    /\ part = "clean" => Clean!WorkHasServices
    /\ part = "stop" => Stop!WorkHasServices

\* One process at a time runs or cleans in the worktree: the lock lives in the directory that
\* clean deletes and setup brings back, and still two processes are never inside together.
\* (Worktree)
OneInside == part = "clean" => Clean!OneInside

\* The stop hook is killed half way only by somebody who pressed Ctrl+C twice. (Worktree)
SkipNeedsTwo == part = "stop" => Stop!SkipNeedsTwo

\* Removing or provisioning the worktree destroys no uncommitted change, no commit, and no item
\* data nobody was warned about. (Worktree)
WorkKept == part = "kept" => Kept!WorkKept

\* Every verb of the dashboard is a line the runner accepts, and starts what its label says:
\* the argument builder and the parser agree. (CommandLine)
VerbsAccepted == part = "lines" => Lines!VerbsAccepted

\* A creation that is accepted ignores no option that was typed. (CommandLine)
CreateReadsAll == part = "lines" => Lines!CreateReadsAll

\* A sweep that was accepted launches lines its children accept, each as a run of its ticket:
\* no child refuses what its parent took, or does something else. (CommandLine)
ChildAccepted ==
    /\ part = "lines" => Lines!ChildAccepted
    /\ part = "sweeps" => Sweeps!ChildAccepted

\* A decision that starts a run is the only decision of its line, names a ticket and selects no
\* fresh history to delete. (CommandLine)
OneDecision ==
    /\ part = "lines" => Lines!OneDecision
    /\ part = "sweeps" => Sweeps!OneDecision

\* What a person grants to one run: none of it reaches a sweep, on the parent's line or on a
\* child's. (CommandLine)
NoSweepGrants == part = "sweeps" => Sweeps!NoSweepGrants

\* The read and the rewrite of the file are one writer's at a time, whoever dies, waits and
\* reclaims: two meet there only once a removal meant for a dead writer's lock took one that
\* was just made. (History)
OneRewriter == part = "writers" => FourWriters!OneRewriter

\* A line that was written stays until its own run writes it again, and a run has one line,
\* whoever else writes and dies meanwhile, as long as no lock that was just made is removed for
\* an old one. (History)
NoLineLost == part = "writers" => FourWriters!NoLineLost

\* A line that does not parse is nobody's to remove. (History)
BadIsKept == part = "writers" => FourWriters!BadIsKept

\* Nothing is printed bare of a total that holds a guess: a floor, an estimate or a run left
\* out is told. (History)
TotalsHonest == part = "totals" => Totals!TotalsHonest

\* Every dollar a root run recorded is in the total once: a run resumed is not added to itself,
\* nor a child to its parent. (History)
SpentOnce == part = "spent" => Spent!SpentOnce

\* Over retries, resumes, deaths, lost answers and new runs of the ticket, a step publishes its
\* note once. (TrackerEffects)
NoteOnce ==
    /\ part = "github" => GitHub!NoteOnce
    /\ part = "jira" => Jira!NoteOnce

\* Wherever the move is cut, the ticket is in some queue, unless a person moved it under the
\* move. (TrackerEffects)
NeverOutOfQueues ==
    /\ part = "github" => GitHub!NeverOutOfQueues
    /\ part = "jira" => Jira!NeverOutOfQueues

\* A command is only sent for what the ticket still lacks, so that a replay completes what an
\* earlier pass left and repeats nothing. (TrackerEffects)
OnlyMissingIsSent ==
    /\ part = "github" => GitHub!OnlyMissingIsSent
    /\ part = "jira" => Jira!OnlyMissingIsSent

\* At no moment does an issue carry both state labels, unless a person moved it under the move.
\* (TrackerEffects)
NotBothStates == part = "github" => GitHub!NotBothStates

\* The comments the next run reads are those that people wrote. (TrackerEffects)
AnswersReach == part = "github" => GitHub!AnswersReach

\* When a step settles: a note and a move reported as done are there; and a move that met no
\* refusal is done even when the note failed, on GitHub even when answers were lost.
\* (TrackerEffects)
ToldAsItIs ==
    /\ part = "github" => GitHub!ToldAsItIs
    /\ part = "jira" => Jira!ToldAsItIs
    /\ part = "reconcile" => Reconciled!ToldAsItIs

\* A gate that stopped the run stands on a ticket that was escalated: the note is there and no
\* scan hands the ticket out, or a warning says why not. (TrackerEffects)
StopIsAnnounced == part = "reconcile" => Reconciled!StopIsAnnounced

\* parallelize: in whatever order the members end, each of them reads what the same steps
\* wrote, none resumes the session of a sibling and each artifact or report is left by one
\* member only (parallel-group.ts and structure.ts). (PipelineDefinition)
GroupOrderFree == part = "groups" => Groups!GroupOrderFree

\* A step that resumes the session of another one starts after that one has ended, and that one
\* records sessions (resume-session.ts): the target is an agent, declared earlier, and not one
\* that runs at the same time. (PipelineDefinition)
ResumedSessionExists ==
    /\ part = "groups" => Groups!ResumedSessionExists
    /\ part = "repairs" => RepairsOf!ResumedSessionExists

\* The session a repair resumes lives on the backend the repair's escalation model was written
\* for (resumed-fix-escalation.ts), and a repair that starts a session of its own runs on a
\* backend the run knows (fix-backend.ts). (PipelineDefinition)
RepairProviderKnown == part = "repairs" => RepairsOf!RepairProviderKnown

\* The axes a step runs with are those of the most specific of: its exact key, the key of its
\* pipeline, the key of every step, its role in the configuration, its role as shipped; and
\* none where a capability imposes the axis (step-overrides.ts "Resolve capability > steps >
\* profile/backend"). (PipelineDefinition)
PrecedenceHolds ==
    /\ part = "broad" => Broad!PrecedenceHolds
    /\ part = "exact" => Exact!PrecedenceHolds

\* A fix that borrows a role starts from the options its step runs with (profiles.ts
\* applyFixProfile): an axis the fix role says nothing of is the one the role of the step gave.
\* (PipelineDefinition)
FixInheritsTheStep == part = "broad" => Broad!FixInheritsTheStep

\* The loader never rejects a configuration the chain, and so --lint-config, called consistent
\* (step-overrides.ts applyStepOverrides): once validated, nothing throws while the overrides
\* are written. (PipelineDefinition)
OverridesNeverThrow == part = "broad" => Broad!OverridesNeverThrow

\* The artifact an approval hashes is the one the gate that reads it reviews, whatever other
\* gate or call declared the subject, and a subject its gate guards is accepted by no other
\* declaration (dsl-pipeline.ts approval, appendStep). (PipelineBuilder)
SubjectsBindTheirGate == part = "gates" => Gates!SubjectsBindTheirGate

\* A rejection of a subject replays a step declared before the gate that will ask again, and
\* that step writes the artifact the gate reviews (bindReworks). (PipelineBuilder)
RejectionIsAnswered == part = "gates" => Gates!RejectionIsAnswered

\* A pipeline has one budget at most, and the one of each work item only with the loop that
\* reads them, whose source is one of the steps. (PipelineBuilder)
BudgetsBelong == part = "gates" => Gates!BudgetsBelong

\* Whatever the order of the calls, every step of a reconcile pipeline that the author
\* classifies has something the mode can decide on. (PipelineBuilder)
ReconcileDecides == part = "gates" => Gates!ReconcileDecides

\* Options written for Claude only reach a repair that runs on Claude, wherever the session a
\* repair resumes lives (dsl-steps.ts onFail, build). (PipelineBuilder)
ClaudeOptionsReachClaude == part = "policies" => PoliciesOf!ClaudeOptionsReachClaude

\* Every artifact a capture persists is one the step delivers. (PipelineBuilder)
CapturesAreDelivered == part = "policies" => PoliciesOf!CapturesAreDelivered

\* A tree that passes with two empty baselines has no import cycle, no cycle of folders, and no
\* way into a module but its entries, nested modules included. (ArchitectureGate)
CleanTreeIsOrdered ==
    /\ part = "debt" => Debt!CleanTreeIsOrdered
    /\ part = "contexts" => Contexts!CleanTreeIsOrdered

\* A tree that passes owes nothing that is not argued, and argues nothing that is not there.
\* (ArchitectureGate)
PassingDebtIsArgued == part = "debt" => Debt!PassingDebtIsArgued

\* What --write-baseline wrote needs only its arguments: nothing in it is new to the gate, or
\* stale. (ArchitectureGate)
WrittenMatchesTree == part = "debt" => Debt!WrittenMatchesTree

\* Rewriting the baseline drops no argument of an edge still there. (ArchitectureGate)
WriteKeepsArguments == part = "debt" => Debt!WriteKeepsArguments

\* Contexts that import one another are caught by a direction rule, so the folder check only
\* has to look inside a context. (ArchitectureGate)
ContextCycleBreaksDirection == part = "contexts" => Contexts!ContextCycleBreaksDirection

\* What several processes share has one writer at a time and loses nothing to a death: the run
\* of a selection, the lock, the services of the worktree, the history of runs, the scan of a
\* queue.
OneWriterEach ==
    /\ SingleWriter /\ InitializedOnce /\ NothingHeldOnRefusal
    /\ NoRefusalStrands /\ MutualExclusion /\ SomeoneWins
    /\ RoundCapUnreached /\ NoStopUnderAgents /\ WorkHasServices
    /\ OneInside /\ SkipNeedsTwo /\ WorkKept
    /\ OneRewriter /\ NoLineLost /\ TotalsHonest
    /\ SpentOnce /\ DeathReadable /\ NothingForgotten
    /\ ClosedMeansDone /\ FixedIsComplete

\* What a run takes as done, fresh or approved is what a step guaranteed and a person approved,
\* for the bytes that were read.
WorkIsVouchedFor ==
    /\ KeptIsGuaranteed /\ FreshFromItsInputs /\ GoodWorkIsKept
    /\ PublicFreshIsGuaranteed /\ PassedOnApproval /\ RejectionHolds
    /\ NoDeadEnd /\ RoundsBounded

\* A pipeline that is accepted, and a baseline that is written, mean what they say: gates,
\* groups, sessions, overrides and the debt of imports.
DefinitionsAreChecked ==
    /\ GroupOrderFree /\ ResumedSessionExists /\ RepairProviderKnown
    /\ PrecedenceHolds /\ FixInheritsTheStep /\ SubjectsBindTheirGate
    /\ RejectionIsAnswered /\ BudgetsBelong /\ ReconcileDecides
    /\ ClaudeOptionsReachClaude /\ CapturesAreDelivered /\ CleanTreeIsOrdered
    /\ PassingDebtIsArgued /\ WrittenMatchesTree /\ ContextCycleBreaksDirection

\* A command line means one thing to the parent and to its child, and a tracker is told once
\* and truly where a ticket stands.
PeopleAreObeyed ==
    /\ VerbsAccepted /\ CreateReadsAll /\ ChildAccepted
    /\ OneDecision /\ NoSweepGrants /\ NoteOnce
    /\ NeverOutOfQueues /\ OnlyMissingIsSent /\ NotBothStates
    /\ AnswersReach /\ ToldAsItIs /\ StopIsAnnounced

\* What a step of the components that share the disk may never do.
WorkspaceSteps ==
    [][
      /\ AuthorKept /\ LatestMovesOnOpening /\ BadIsKept
      /\ OverridesNeverThrow /\ WriteKeepsArguments]_vars
=============================================================================
