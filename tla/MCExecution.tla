---------------------------- MODULE MCExecution ----------------------------
(***************************************************************************)
(* Instances of the components at work inside one run, for TLC.            *)
(*                                                                         *)
(* They share no state in the models: what one of them promises another is *)
(* an input of the other. So one run of TLC explores them side by side: a  *)
(* behaviour chooses a part and is a behaviour of its component, with the  *)
(* variables of the other components off.                                  *)
(***************************************************************************)
EXTENDS Naturals, Sequences, FiniteSets, TLC

CONSTANTS
    Parts,       \* the parts a run explores
    Unset,       \* no figure, no allowance, no ceiling
    p1, stopHook \* a process of the steps and the stop hook

VARIABLES
    part,   \* which part a behaviour explores: it never changes
    \* The variables of the components; two parts share one of a common name,
    \* and it is off in the others.
    abort, answer, applied, approved, awaiting, backend, bill, births, buf, carried,
    ceiling, charge, child, cli, clock, code, control, cost, count, cumulative, cut,
    deaf, def, drainCuts, drained, drains, error, firstEvent, fixed, forced, format,
    gen, group, handler, held, intent, kids, kill, killer, last, launched, ledger,
    left, live, loop, main, max, mem, messages, output, over, overshoot, paid,
    patience, pc, phase, pipe, published, ran, read, real, repairCuts, repairs,
    result, resumes, retries, run, rung, running, said, scene, sent, session,
    sessions, settle, setup, shutdown, signals, skipped, slow, snap, spawn, spent,
    stage, started, status, stderrTail, step, stop, stopSignals, stuck, termed,
    timedOut, tracked, unit, written, yes

vars ==
    <<part, abort, answer, applied, approved, awaiting, backend, bill, births, buf,
      carried, ceiling, charge, child, cli, clock, code, control, cost, count,
      cumulative, cut, deaf, def, drainCuts, drained, drains, error, firstEvent,
      fixed, forced, format, gen, group, handler, held, intent, kids, kill, killer,
      last, launched, ledger, left, live, loop, main, max, mem, messages, output,
      over, overshoot, paid, patience, pc, phase, pipe, published, ran, read, real,
      repairCuts, repairs, result, resumes, retries, run, rung, running, said,
      scene, sent, session, sessions, settle, setup, shutdown, signals, skipped,
      slow, snap, spawn, spent, stage, started, status, stderrTail, step, stop,
      stopSignals, stuck, termed, timedOut, tracked, unit, written, yes>>

-----------------------------------------------------------------------------
\* FixLoop: what the policies of the DSL allow: replay: false only with one retry of
\* a non-blocking step, no fix without a retry.
FixStep == [kind |-> "fix", blocking |-> TRUE, max |-> 2, after |-> 1, ladder |-> {"effort", "model"},
            replay |-> TRUE, only |-> FALSE, again |-> TRUE, capture |-> TRUE, resumable |-> TRUE]
FixShapes ==
    {[FixStep EXCEPT !.kind = k, !.blocking = b] : k \in {"rerun", "fix"}, b \in BOOLEAN}
    \cup {[FixStep EXCEPT !.kind = "none", !.blocking = b, !.capture = FALSE] : b \in BOOLEAN}
    \cup {[FixStep EXCEPT !.only = TRUE], [FixStep EXCEPT !.kind = "rerun", !.max = 0],
          [FixStep EXCEPT !.replay = FALSE, !.blocking = FALSE, !.max = 1],
          [FixStep EXCEPT !.max = 3, !.after = 2, !.resumable = FALSE],
          [FixStep EXCEPT !.kind = "rerun", !.max = 3, !.ladder = {"model"}],
          [FixStep EXCEPT !.kind = "rerun", !.max = 3, !.ladder = {"effort"}]}
\* A bash step or an agent step, a fix_backend (never with a resumed session), a
\* session of either provider, or of one that is not registered.
FixSetup == [declared |-> "none", fixBackend |-> "none", target |-> "none", role |-> "none", fits |-> TRUE]
FixSetups ==
    {[FixSetup EXCEPT !.declared = d, !.target = t, !.role = r, !.fits = f] :
        d \in {"none", "default", "other"}, t \in {"none", "default", "other", "unknown"},
        r \in {"none", "default", "any"}, f \in BOOLEAN}
    \cup {[FixSetup EXCEPT !.fixBackend = "other", !.role = r] : r \in {"none", "any"}}

\* ChildRuns: two items whose order a tracker may change between two evaluations.
Pair == {<<"ada", "bob">>, <<"bob", "ada">>}

\* RunEnding: a first step, then the members of a group.
Grouped == <<1, 2, 2>>

\* AgentOutcome: what the CLI says of its failure, what the agent puts in its verdict.
Failure(http, words) == [status |-> http, wording |-> words]
Verdict(s, b, r, f) ==
    [success |-> s, blocked |-> b, reason |-> r, field |-> f]
Verdicts ==
    {Verdict("true", "absent", "plain", "good"), Verdict("true", "true", "plain", "refused"),
     Verdict("false", "true", "plain", "none"), Verdict("false", "absent", "prefixed", "none"),
     Verdict("false", "false", "prefixed", "none"), Verdict("false", "absent", "plain", "none"),
     Verdict("absent", "absent", "none", "none")}
FewVerdicts ==
    {Verdict("true", "absent", "plain", "good"), Verdict("true", "absent", "plain", "none"),
     Verdict("false", "absent", "prefixed", "none")}

\* A group of two and then a lone step, under a ceiling of six units: one member of the group
\* has no live guard.
Shares == INSTANCE Allowance WITH
    Steps <- {"a", "b", "d"}, Units <- <<{"a", "b"}, {"d"}>>, Ceiling <- 6,
    NoCeiling <- Unset, Guarded <- {"a", "d"}, Unmetered <- FALSE, MaxCost <- 4,
    Retries <- 1

\* A fix spawned again over overloads and session limits, under the allowances of its
\* ancestors; one tick is an hour.
Transport == INSTANCE ClaudeTransport WITH
    None <- Unset, Budget <- 4, Ancestors <- 2, Overloads <- 2, MaxWaits <- 2,
    MaxWait <- 4, Margin <- 1, Resets <- {0, 2}, MaxSpend <- 2, KeepsLedger <- TRUE

\* An attempt of each backend, priced, free or unpriced, with and without a budget.
Figures == INSTANCE AttemptFigures WITH
    None <- Unset, Backends <- {"claude", "codex", "opencode"},
    Rates <- {Unset, 0, 3}, Budgets <- {Unset, 2},
    Reports <- {"price", "zero", "nothing"}, Messages <- {"m1", "m2"},
    MaxEvents <- 3, ClaudePrices <- TRUE

\* One process of the steps and the stop hook, under two signals.
Process == INSTANCE Supervision WITH
    Procs <- {p1}, Hook <- stopHook, MaxSignals <- 2

\* Every shape of on_failure, in one generation of the run.
Failing == INSTANCE FixLoop WITH
    Defs <- FixShapes, Setups <- {FixSetup}, MaxGens <- 1

\* The shorter loops, over a death and a resume.
Resumed == INSTANCE FixLoop WITH
    Defs <- {d \in FixShapes : d.max < 3}, Setups <- {FixSetup}, MaxGens <- 2

\* Every backend and session a repair may find.
FixBackends == INSTANCE FixLoop WITH
    Defs <- {[FixStep EXCEPT !.max = 1, !.capture = FALSE]}, Setups <- FixSetups,
    MaxGens <- 1

\* Two items with a child each, over deaths, under a ceiling that may be raised once.
Children == INSTANCE ChildRuns WITH
    Lists <- Pair, AfterEach <- FALSE, AfterAll <- FALSE, Guarded <- FALSE,
    Cap <- 3, Raised <- 4, OwnMax <- 2, Prices <- {0, 2}, Unmetered <- TRUE,
    MaxGens <- 2, MaxIds <- 2

\* One item with the calls after it and after all, guarded, with spend of unknown price not
\* authorized.
Unpriced == INSTANCE ChildRuns WITH
    Lists <- {<<"ada">>}, AfterEach <- TRUE, AfterAll <- TRUE, Guarded <- TRUE,
    Cap <- 2, Raised <- 3, OwnMax <- 2, Prices <- {0, 1}, Unmetered <- FALSE,
    MaxGens <- 2, MaxIds <- 3

\* One item and one child, priced, over a death: for the finding on a second settlement.
Finish == INSTANCE ChildRuns WITH
    Lists <- {<<"ada">>}, AfterEach <- FALSE, AfterAll <- FALSE, Guarded <- FALSE,
    Cap <- 3, Raised <- 3, OwnMax <- 3, Prices <- {1}, Unmetered <- FALSE,
    MaxGens <- 2, MaxIds <- 1

\* A group after a step, with every answer a pass and an admission may give.
Ending == INSTANCE RunEnding WITH
    N <- 3, GroupOf <- Grouped, Reconcile <- FALSE, Bounds <- {0},
    Results <- {"done", "failed", "verdict", "blocked", "killed"},
    Refusals <- {"gate", "skip", "refused"}, MaxInvocations <- 2, KeptOrdinary <- 1

\* The same under --until, for a pipeline that reconciles.
Bounded == INSTANCE RunEnding WITH
    N <- 3, GroupOf <- Grouped, Reconcile <- TRUE, Bounds <- {1, 2},
    Results <- {"done", "failed"}, Refusals <- {}, MaxInvocations <- 2,
    KeptOrdinary <- 1

\* Three attempts of a step that may change backend or resume a session.
Sessions == INSTANCE AgentLaunch WITH
    Backends <- {"claude", "codex", "opencode"}, Roles <- {"none"},
    Prompts <- {"plain"}, VerdictModes <- {"schema"}, Fields <- {{}},
    Grants <- {"none"}, MaxAttempts <- 3

\* One attempt with every prompt, role, grant and verdict mode.
Words == INSTANCE AgentLaunch WITH
    Backends <- {"claude", "codex", "opencode"}, Roles <- {"none", "extractor"},
    Prompts <- {"plain", "asks", "slash", "fork"},
    VerdictModes <- {"schema", "text"}, Fields <- {{}, {"summary"}},
    Grants <- {"none", "write"}, MaxAttempts <- 1

\* What an agent may say, in two messages, and what its CLI may fail with.
Outcome == INSTANCE AgentOutcome WITH
    Backends <- {"claude", "codex", "opencode", "extension"}, Intents <- {"step"},
    Values <- Verdicts, Shapes <- {"prose", "fence", "cut", "object", "structured"},
    Errors <- {Failure("401", "plain"), Failure("none", "login"), Failure("529", "plain")},
    Kills <- {"signal"}, Captures <- <<>>, MaxMessages <- 2, Timeout <- 1,
    FirstEvent <- 1

\* What may kill an attempt of a step or of a fix that owes two captures.
Killed == INSTANCE AgentOutcome WITH
    Backends <- {"claude", "codex", "opencode"}, Intents <- {"step", "fix"},
    Values <- FewVerdicts, Shapes <- {"prose", "fence"},
    Errors <- {Failure("529", "plain")},
    Kills <- {"budget", "cost-unaccounted", "signal"},
    Captures <- <<"plan", "summary">>, MaxMessages <- 1, Timeout <- 3,
    FirstEvent <- 2

\* A bash step that writes three characters in chunks of every size.
Stream == INSTANCE BashStream WITH
    Chars <- {"x", "y", "%", "nl", "cr"}, MaxChars <- 3, TailLines <- 1

\* The constants of every part satisfy what its component asks of them.
ASSUME PartsAssumption ==
    /\ Shares!AllowanceAssumption /\ Transport!TransportAssumption
    /\ Figures!FiguresAssumption /\ Process!SupervisionAssumption
    /\ Sessions!LaunchAssumption /\ Words!LaunchAssumption
    /\ Outcome!TimeoutAssumption /\ Killed!TimeoutAssumption
    /\ Stream!BashAssumption
    /\ Failing!FixLoopAssumption /\ Resumed!FixLoopAssumption
    /\ FixBackends!FixLoopAssumption
    /\ Children!ChildRunsAssumption /\ Children!BudgetRaised
    /\ Unpriced!ChildRunsAssumption /\ Finish!ChildRunsAssumption

-----------------------------------------------------------------------------
\* What a part leaves aside is off, and stays so.
Off == "off"
Aside(own) ==
    /\ IF "abort" \in own THEN TRUE ELSE abort = Off
    /\ IF "answer" \in own THEN TRUE ELSE answer = Off
    /\ IF "applied" \in own THEN TRUE ELSE applied = Off
    /\ IF "approved" \in own THEN TRUE ELSE approved = Off
    /\ IF "awaiting" \in own THEN TRUE ELSE awaiting = Off
    /\ IF "backend" \in own THEN TRUE ELSE backend = Off
    /\ IF "bill" \in own THEN TRUE ELSE bill = Off
    /\ IF "births" \in own THEN TRUE ELSE births = Off
    /\ IF "buf" \in own THEN TRUE ELSE buf = Off
    /\ IF "carried" \in own THEN TRUE ELSE carried = Off
    /\ IF "ceiling" \in own THEN TRUE ELSE ceiling = Off
    /\ IF "charge" \in own THEN TRUE ELSE charge = Off
    /\ IF "child" \in own THEN TRUE ELSE child = Off
    /\ IF "cli" \in own THEN TRUE ELSE cli = Off
    /\ IF "clock" \in own THEN TRUE ELSE clock = Off
    /\ IF "code" \in own THEN TRUE ELSE code = Off
    /\ IF "control" \in own THEN TRUE ELSE control = Off
    /\ IF "cost" \in own THEN TRUE ELSE cost = Off
    /\ IF "count" \in own THEN TRUE ELSE count = Off
    /\ IF "cumulative" \in own THEN TRUE ELSE cumulative = Off
    /\ IF "cut" \in own THEN TRUE ELSE cut = Off
    /\ IF "deaf" \in own THEN TRUE ELSE deaf = Off
    /\ IF "def" \in own THEN TRUE ELSE def = Off
    /\ IF "drainCuts" \in own THEN TRUE ELSE drainCuts = Off
    /\ IF "drained" \in own THEN TRUE ELSE drained = Off
    /\ IF "drains" \in own THEN TRUE ELSE drains = Off
    /\ IF "error" \in own THEN TRUE ELSE error = Off
    /\ IF "firstEvent" \in own THEN TRUE ELSE firstEvent = Off
    /\ IF "fixed" \in own THEN TRUE ELSE fixed = Off
    /\ IF "forced" \in own THEN TRUE ELSE forced = Off
    /\ IF "format" \in own THEN TRUE ELSE format = Off
    /\ IF "gen" \in own THEN TRUE ELSE gen = Off
    /\ IF "group" \in own THEN TRUE ELSE group = Off
    /\ IF "handler" \in own THEN TRUE ELSE handler = Off
    /\ IF "held" \in own THEN TRUE ELSE held = Off
    /\ IF "intent" \in own THEN TRUE ELSE intent = Off
    /\ IF "kids" \in own THEN TRUE ELSE kids = Off
    /\ IF "kill" \in own THEN TRUE ELSE kill = Off
    /\ IF "killer" \in own THEN TRUE ELSE killer = Off
    /\ IF "last" \in own THEN TRUE ELSE last = Off
    /\ IF "launched" \in own THEN TRUE ELSE launched = Off
    /\ IF "ledger" \in own THEN TRUE ELSE ledger = Off
    /\ IF "left" \in own THEN TRUE ELSE left = Off
    /\ IF "live" \in own THEN TRUE ELSE live = Off
    /\ IF "loop" \in own THEN TRUE ELSE loop = Off
    /\ IF "main" \in own THEN TRUE ELSE main = Off
    /\ IF "max" \in own THEN TRUE ELSE max = Off
    /\ IF "mem" \in own THEN TRUE ELSE mem = Off
    /\ IF "messages" \in own THEN TRUE ELSE messages = Off
    /\ IF "output" \in own THEN TRUE ELSE output = Off
    /\ IF "over" \in own THEN TRUE ELSE over = Off
    /\ IF "overshoot" \in own THEN TRUE ELSE overshoot = Off
    /\ IF "paid" \in own THEN TRUE ELSE paid = Off
    /\ IF "patience" \in own THEN TRUE ELSE patience = Off
    /\ IF "pc" \in own THEN TRUE ELSE pc = Off
    /\ IF "phase" \in own THEN TRUE ELSE phase = Off
    /\ IF "pipe" \in own THEN TRUE ELSE pipe = Off
    /\ IF "published" \in own THEN TRUE ELSE published = Off
    /\ IF "ran" \in own THEN TRUE ELSE ran = Off
    /\ IF "read" \in own THEN TRUE ELSE read = Off
    /\ IF "real" \in own THEN TRUE ELSE real = Off
    /\ IF "repairCuts" \in own THEN TRUE ELSE repairCuts = Off
    /\ IF "repairs" \in own THEN TRUE ELSE repairs = Off
    /\ IF "result" \in own THEN TRUE ELSE result = Off
    /\ IF "resumes" \in own THEN TRUE ELSE resumes = Off
    /\ IF "retries" \in own THEN TRUE ELSE retries = Off
    /\ IF "run" \in own THEN TRUE ELSE run = Off
    /\ IF "rung" \in own THEN TRUE ELSE rung = Off
    /\ IF "running" \in own THEN TRUE ELSE running = Off
    /\ IF "said" \in own THEN TRUE ELSE said = Off
    /\ IF "scene" \in own THEN TRUE ELSE scene = Off
    /\ IF "sent" \in own THEN TRUE ELSE sent = Off
    /\ IF "session" \in own THEN TRUE ELSE session = Off
    /\ IF "sessions" \in own THEN TRUE ELSE sessions = Off
    /\ IF "settle" \in own THEN TRUE ELSE settle = Off
    /\ IF "setup" \in own THEN TRUE ELSE setup = Off
    /\ IF "shutdown" \in own THEN TRUE ELSE shutdown = Off
    /\ IF "signals" \in own THEN TRUE ELSE signals = Off
    /\ IF "skipped" \in own THEN TRUE ELSE skipped = Off
    /\ IF "slow" \in own THEN TRUE ELSE slow = Off
    /\ IF "snap" \in own THEN TRUE ELSE snap = Off
    /\ IF "spawn" \in own THEN TRUE ELSE spawn = Off
    /\ IF "spent" \in own THEN TRUE ELSE spent = Off
    /\ IF "stage" \in own THEN TRUE ELSE stage = Off
    /\ IF "started" \in own THEN TRUE ELSE started = Off
    /\ IF "status" \in own THEN TRUE ELSE status = Off
    /\ IF "stderrTail" \in own THEN TRUE ELSE stderrTail = Off
    /\ IF "step" \in own THEN TRUE ELSE step = Off
    /\ IF "stop" \in own THEN TRUE ELSE stop = Off
    /\ IF "stopSignals" \in own THEN TRUE ELSE stopSignals = Off
    /\ IF "stuck" \in own THEN TRUE ELSE stuck = Off
    /\ IF "termed" \in own THEN TRUE ELSE termed = Off
    /\ IF "timedOut" \in own THEN TRUE ELSE timedOut = Off
    /\ IF "tracked" \in own THEN TRUE ELSE tracked = Off
    /\ IF "unit" \in own THEN TRUE ELSE unit = Off
    /\ IF "written" \in own THEN TRUE ELSE written = Off
    /\ IF "yes" \in own THEN TRUE ELSE yes = Off
Still(own) ==
    /\ UNCHANGED part
    /\ IF "abort" \in own THEN TRUE ELSE UNCHANGED abort
    /\ IF "answer" \in own THEN TRUE ELSE UNCHANGED answer
    /\ IF "applied" \in own THEN TRUE ELSE UNCHANGED applied
    /\ IF "approved" \in own THEN TRUE ELSE UNCHANGED approved
    /\ IF "awaiting" \in own THEN TRUE ELSE UNCHANGED awaiting
    /\ IF "backend" \in own THEN TRUE ELSE UNCHANGED backend
    /\ IF "bill" \in own THEN TRUE ELSE UNCHANGED bill
    /\ IF "births" \in own THEN TRUE ELSE UNCHANGED births
    /\ IF "buf" \in own THEN TRUE ELSE UNCHANGED buf
    /\ IF "carried" \in own THEN TRUE ELSE UNCHANGED carried
    /\ IF "ceiling" \in own THEN TRUE ELSE UNCHANGED ceiling
    /\ IF "charge" \in own THEN TRUE ELSE UNCHANGED charge
    /\ IF "child" \in own THEN TRUE ELSE UNCHANGED child
    /\ IF "cli" \in own THEN TRUE ELSE UNCHANGED cli
    /\ IF "clock" \in own THEN TRUE ELSE UNCHANGED clock
    /\ IF "code" \in own THEN TRUE ELSE UNCHANGED code
    /\ IF "control" \in own THEN TRUE ELSE UNCHANGED control
    /\ IF "cost" \in own THEN TRUE ELSE UNCHANGED cost
    /\ IF "count" \in own THEN TRUE ELSE UNCHANGED count
    /\ IF "cumulative" \in own THEN TRUE ELSE UNCHANGED cumulative
    /\ IF "cut" \in own THEN TRUE ELSE UNCHANGED cut
    /\ IF "deaf" \in own THEN TRUE ELSE UNCHANGED deaf
    /\ IF "def" \in own THEN TRUE ELSE UNCHANGED def
    /\ IF "drainCuts" \in own THEN TRUE ELSE UNCHANGED drainCuts
    /\ IF "drained" \in own THEN TRUE ELSE UNCHANGED drained
    /\ IF "drains" \in own THEN TRUE ELSE UNCHANGED drains
    /\ IF "error" \in own THEN TRUE ELSE UNCHANGED error
    /\ IF "firstEvent" \in own THEN TRUE ELSE UNCHANGED firstEvent
    /\ IF "fixed" \in own THEN TRUE ELSE UNCHANGED fixed
    /\ IF "forced" \in own THEN TRUE ELSE UNCHANGED forced
    /\ IF "format" \in own THEN TRUE ELSE UNCHANGED format
    /\ IF "gen" \in own THEN TRUE ELSE UNCHANGED gen
    /\ IF "group" \in own THEN TRUE ELSE UNCHANGED group
    /\ IF "handler" \in own THEN TRUE ELSE UNCHANGED handler
    /\ IF "held" \in own THEN TRUE ELSE UNCHANGED held
    /\ IF "intent" \in own THEN TRUE ELSE UNCHANGED intent
    /\ IF "kids" \in own THEN TRUE ELSE UNCHANGED kids
    /\ IF "kill" \in own THEN TRUE ELSE UNCHANGED kill
    /\ IF "killer" \in own THEN TRUE ELSE UNCHANGED killer
    /\ IF "last" \in own THEN TRUE ELSE UNCHANGED last
    /\ IF "launched" \in own THEN TRUE ELSE UNCHANGED launched
    /\ IF "ledger" \in own THEN TRUE ELSE UNCHANGED ledger
    /\ IF "left" \in own THEN TRUE ELSE UNCHANGED left
    /\ IF "live" \in own THEN TRUE ELSE UNCHANGED live
    /\ IF "loop" \in own THEN TRUE ELSE UNCHANGED loop
    /\ IF "main" \in own THEN TRUE ELSE UNCHANGED main
    /\ IF "max" \in own THEN TRUE ELSE UNCHANGED max
    /\ IF "mem" \in own THEN TRUE ELSE UNCHANGED mem
    /\ IF "messages" \in own THEN TRUE ELSE UNCHANGED messages
    /\ IF "output" \in own THEN TRUE ELSE UNCHANGED output
    /\ IF "over" \in own THEN TRUE ELSE UNCHANGED over
    /\ IF "overshoot" \in own THEN TRUE ELSE UNCHANGED overshoot
    /\ IF "paid" \in own THEN TRUE ELSE UNCHANGED paid
    /\ IF "patience" \in own THEN TRUE ELSE UNCHANGED patience
    /\ IF "pc" \in own THEN TRUE ELSE UNCHANGED pc
    /\ IF "phase" \in own THEN TRUE ELSE UNCHANGED phase
    /\ IF "pipe" \in own THEN TRUE ELSE UNCHANGED pipe
    /\ IF "published" \in own THEN TRUE ELSE UNCHANGED published
    /\ IF "ran" \in own THEN TRUE ELSE UNCHANGED ran
    /\ IF "read" \in own THEN TRUE ELSE UNCHANGED read
    /\ IF "real" \in own THEN TRUE ELSE UNCHANGED real
    /\ IF "repairCuts" \in own THEN TRUE ELSE UNCHANGED repairCuts
    /\ IF "repairs" \in own THEN TRUE ELSE UNCHANGED repairs
    /\ IF "result" \in own THEN TRUE ELSE UNCHANGED result
    /\ IF "resumes" \in own THEN TRUE ELSE UNCHANGED resumes
    /\ IF "retries" \in own THEN TRUE ELSE UNCHANGED retries
    /\ IF "run" \in own THEN TRUE ELSE UNCHANGED run
    /\ IF "rung" \in own THEN TRUE ELSE UNCHANGED rung
    /\ IF "running" \in own THEN TRUE ELSE UNCHANGED running
    /\ IF "said" \in own THEN TRUE ELSE UNCHANGED said
    /\ IF "scene" \in own THEN TRUE ELSE UNCHANGED scene
    /\ IF "sent" \in own THEN TRUE ELSE UNCHANGED sent
    /\ IF "session" \in own THEN TRUE ELSE UNCHANGED session
    /\ IF "sessions" \in own THEN TRUE ELSE UNCHANGED sessions
    /\ IF "settle" \in own THEN TRUE ELSE UNCHANGED settle
    /\ IF "setup" \in own THEN TRUE ELSE UNCHANGED setup
    /\ IF "shutdown" \in own THEN TRUE ELSE UNCHANGED shutdown
    /\ IF "signals" \in own THEN TRUE ELSE UNCHANGED signals
    /\ IF "skipped" \in own THEN TRUE ELSE UNCHANGED skipped
    /\ IF "slow" \in own THEN TRUE ELSE UNCHANGED slow
    /\ IF "snap" \in own THEN TRUE ELSE UNCHANGED snap
    /\ IF "spawn" \in own THEN TRUE ELSE UNCHANGED spawn
    /\ IF "spent" \in own THEN TRUE ELSE UNCHANGED spent
    /\ IF "stage" \in own THEN TRUE ELSE UNCHANGED stage
    /\ IF "started" \in own THEN TRUE ELSE UNCHANGED started
    /\ IF "status" \in own THEN TRUE ELSE UNCHANGED status
    /\ IF "stderrTail" \in own THEN TRUE ELSE UNCHANGED stderrTail
    /\ IF "step" \in own THEN TRUE ELSE UNCHANGED step
    /\ IF "stop" \in own THEN TRUE ELSE UNCHANGED stop
    /\ IF "stopSignals" \in own THEN TRUE ELSE UNCHANGED stopSignals
    /\ IF "stuck" \in own THEN TRUE ELSE UNCHANGED stuck
    /\ IF "termed" \in own THEN TRUE ELSE UNCHANGED termed
    /\ IF "timedOut" \in own THEN TRUE ELSE UNCHANGED timedOut
    /\ IF "tracked" \in own THEN TRUE ELSE UNCHANGED tracked
    /\ IF "unit" \in own THEN TRUE ELSE UNCHANGED unit
    /\ IF "written" \in own THEN TRUE ELSE UNCHANGED written
    /\ IF "yes" \in own THEN TRUE ELSE UNCHANGED yes

AllowanceOwns ==
    {"unit", "phase", "ledger", "held", "awaiting", "left", "run", "overshoot"}
ClaudeTransportOwns ==
    {"phase", "resumes", "cli", "spawn", "carried", "patience", "live", "charge",
     "spent"}
AttemptFiguresOwns ==
    {"scene", "output", "read", "live", "published", "kill", "firstEvent",
     "control"}
SupervisionOwns ==
    {"child", "group", "pipe", "deaf", "termed", "applied", "killer", "settle",
     "tracked", "shutdown", "forced", "abort", "handler", "stop", "stopSignals",
     "skipped", "main", "code", "signals"}
FixLoopOwns ==
    {"def", "setup", "gen", "pc", "status", "retries", "drains", "rung", "timedOut",
     "last", "fixed", "over", "session", "cut", "slow", "stuck", "repairs",
     "repairCuts", "drained", "drainCuts"}
ChildRunsOwns ==
    {"mem", "snap", "started", "kids", "pc", "gen", "max", "approved", "cumulative",
     "ceiling", "bill", "real", "births", "ran", "yes", "paid"}
RunEndingOwns ==
    {"run", "cost", "loop", "said", "count"}
AgentLaunchOwns ==
    {"step", "sessions", "launched", "running"}
AgentOutcomeOwns ==
    {"backend", "intent", "format", "messages", "error", "clock", "kill", "code",
     "result", "written"}
BashStreamOwns ==
    {"sent", "pipe", "buf", "output", "stderrTail", "kill", "code", "stage",
     "answer"}

Init ==
    /\ part \in Parts
    /\ \/ part = "shares"    /\ Shares!Init /\ Aside(AllowanceOwns)
       \/ part = "transport" /\ Transport!Init /\ Aside(ClaudeTransportOwns)
       \/ part = "figures"   /\ Figures!Init /\ Aside(AttemptFiguresOwns)
       \/ part = "process"   /\ Process!Init /\ Aside(SupervisionOwns)
       \/ part = "failure"   /\ Failing!Init /\ Aside(FixLoopOwns)
       \/ part = "resumed"   /\ Resumed!Init /\ Aside(FixLoopOwns)
       \/ part = "backends"  /\ FixBackends!Init /\ Aside(FixLoopOwns)
       \/ part = "children"  /\ Children!Init /\ Aside(ChildRunsOwns)
       \/ part = "unpriced"  /\ Unpriced!Init /\ Aside(ChildRunsOwns)
       \/ part = "finish"    /\ Finish!Init /\ Aside(ChildRunsOwns)
       \/ part = "ending"    /\ Ending!Init /\ Aside(RunEndingOwns)
       \/ part = "bounded"   /\ Bounded!Init /\ Aside(RunEndingOwns)
       \/ part = "sessions"  /\ Sessions!Init /\ Aside(AgentLaunchOwns)
       \/ part = "words"     /\ Words!Init /\ Aside(AgentLaunchOwns)
       \/ part = "verdicts"  /\ Outcome!Init /\ Aside(AgentOutcomeOwns)
       \/ part = "endings"   /\ Killed!Init /\ Aside(AgentOutcomeOwns)
       \/ part = "stream"    /\ Stream!Init /\ Aside(BashStreamOwns)
Next ==
    \/ part = "shares"    /\ Shares!Next /\ Still(AllowanceOwns)
    \/ part = "transport" /\ Transport!Next /\ Still(ClaudeTransportOwns)
    \/ part = "figures"   /\ Figures!Next /\ Still(AttemptFiguresOwns)
    \/ part = "process"   /\ Process!Next /\ Still(SupervisionOwns)
    \/ part = "failure"   /\ Failing!Next /\ Still(FixLoopOwns)
    \/ part = "resumed"   /\ Resumed!Next /\ Still(FixLoopOwns)
    \/ part = "backends"  /\ FixBackends!Next /\ Still(FixLoopOwns)
    \/ part = "children"  /\ Children!Next /\ Still(ChildRunsOwns)
    \/ part = "unpriced"  /\ Unpriced!Next /\ Still(ChildRunsOwns)
    \/ part = "finish"    /\ Finish!Next /\ Still(ChildRunsOwns)
    \/ part = "ending"    /\ Ending!Next /\ Still(RunEndingOwns)
    \/ part = "bounded"   /\ Bounded!Next /\ Still(RunEndingOwns)
    \/ part = "sessions"  /\ Sessions!Next /\ Still(AgentLaunchOwns)
    \/ part = "words"     /\ Words!Next /\ Still(AgentLaunchOwns)
    \/ part = "verdicts"  /\ Outcome!Next /\ Still(AgentOutcomeOwns)
    \/ part = "endings"   /\ Killed!Next /\ Still(AgentOutcomeOwns)
    \/ part = "stream"    /\ Stream!Next /\ Still(BashStreamOwns)
Spec == Init /\ [][Next]_vars

-----------------------------------------------------------------------------
\* The variables of the part explored have the types of its component.
TypeOK ==
    /\ part = "shares"    => Shares!TypeOK
    /\ part = "transport" => Transport!TypeOK
    /\ part = "figures"   => Figures!TypeOK
    /\ part = "process"   => Process!TypeOK
    /\ part = "failure"   => Failing!TypeOK
    /\ part = "resumed"   => Resumed!TypeOK
    /\ part = "backends"  => FixBackends!TypeOK
    /\ part = "children"  => Children!TypeOK
    /\ part = "unpriced"  => Unpriced!TypeOK
    /\ part = "finish"    => Finish!TypeOK
    /\ part = "ending"    => Ending!TypeOK
    /\ part = "bounded"   => Bounded!TypeOK
    /\ part = "sessions"  => Sessions!TypeOK
    /\ part = "words"     => Words!TypeOK
    /\ part = "verdicts"  => Outcome!TypeOK
    /\ part = "endings"   => Killed!TypeOK
    /\ part = "stream"    => Stream!TypeOK

\* What is spent and what is promised to attempts in flight stays under the ceiling, but for
\* what closed attempts spent beyond their own allowance: the invariant reserveAllowance names,
\* with the overshoot no guard can prevent. (Allowance)
CeilingShared == part = "shares" => Shares!CeilingShared

\* Only a running attempt holds an allowance, and nobody is awaited once a group has started:
\* nothing is lost to the steps that follow. (Allowance)
NothingLeaks == part = "shares" => Shares!NothingLeaks

\* The first attempt of a group member finds an equal share of what was left when the group
\* started, whatever the order of the members. (Allowance)
EqualFirstShares == part = "shares" => Shares!EqualFirstShares

\* What the attempt is charged is what its spawns spent: no ancestor of the session and no
\* discarded spawn is paid twice, and none is forgotten. A spawn that died before its usage was
\* streamed leaves a lower bound that says so. (ClaudeTransport)
ChargedWhatWasSpent == part = "transport" => Transport!ChargedWhatWasSpent

\* An abort charges at least the discarded spawns and the usage that was streamed.
\* (ClaudeTransport)
AbortForgetsNothing == part = "transport" => Transport!AbortForgetsNothing

\* A spawn is killed for the budget only when this attempt overspent it, whatever the session
\* it resumes had spent before. (ClaudeTransport)
KilledForItsOwnSpend == part = "transport" => Transport!KilledForItsOwnSpend

\* A retry is spawned only with allowance left, and with all that is left. (ClaudeTransport)
RetryWithinAllowance == part = "transport" => Transport!RetryWithinAllowance

\* The figure an abort would have charged is the figure the process is charged: the stream and
\* the transcript are priced by one rule. (AttemptFigures)
LiveFollowsFinal == part = "figures" => Figures!LiveFollowsFinal

\* Consumed tokens are never stored as a free attempt, unless a table prices them zero.
\* (AttemptFigures)
NothingLooksFree == part = "figures" => Figures!NothingLooksFree

\* The accounting guard kills on proof: the attempt it kills did consume tokens and its stored
\* spend is unknown. (AttemptFigures)
AccountingKillIsProof == part = "figures" => Figures!AccountingKillIsProof

\* Under strict accounting, no attempt that consumed tokens nobody can price reaches its end
\* unkilled, for the backends whose rate may be missing. (AttemptFigures)
UnpricedIsStopped == part = "figures" => Figures!UnpricedIsStopped

\* The budget guard kills only an attempt whose final figure is over the budget (the price
\* Claude reports in the end may be below the estimate that killed). (AttemptFigures)
BudgetKillIsFinal == part = "figures" => Figures!BudgetKillIsFinal

\* A call that resolved left nothing behind: neither the process nor a descendant in its group,
\* whichever of exit, close, drain, deadline, cleanup and shutdown came first. (Supervision)
ResolvedLeavesNothing == part = "process" => Process!ResolvedLeavesNothing

\* One Ctrl+C never cuts the stop of the services short. (Supervision)
OneSignalSparesTheHook == part = "process" => Process!OneSignalSparesTheHook

\* An interrupted run exits with the code of the signal that interrupted its steps, and a
\* signal after the report never changes the code of the report. (Supervision)
CodeNamesFirstSignal == part = "process" => Process!CodeNamesFirstSignal

\* Nothing the runner spawned outlives it, the hook included: whoever reaches process.exit
\* first, main or the interruption. (Supervision)
NothingOutlivesRunner == part = "process" => Process!NothingOutlivesRunner

\* The services stop after the last process of the steps: a hook in flight never runs beside a
\* live child or descendant. (Supervision)
ServicesStopLast == part = "process" => Process!ServicesStopLast

\* A cost stop is the run's decision: the step it cut, or whose next attempt it withheld, is
\* left to a resume and never absorbed as a warning. (FixLoop)
CostStopNeverAbsorbed == part = "failure" => Failing!CostStopNeverAbsorbed

\* The same escalate_after names the same attempt in the rerun and in the fix loop: without a
\* timeout, exactly the attempts past it are escalated. (FixLoop)
EscalatesOnTime == part = "failure" => Failing!EscalatesOnTime

\* Within a loop the ladder only climbs, and without a timeout it never offers the dearer model
\* before more effort. (FixLoop)
LadderClimbs == part = "failure" => Failing!LadderClimbs

\* Over every generation, deaths included, the repairs that were not cut by a guard stay within
\* the quota, and the reruns that drain timeouts within a quota of their own. (FixLoop)
AttemptsBounded ==
    /\ part = "failure" => Failing!AttemptsBounded
    /\ part = "resumed" => Resumed!AttemptsBounded

\* A step is done only when its own command was the last thing to run and ended well: a repair
\* never stands for a verdict. (FixLoop)
DoneIsVerified ==
    /\ part = "failure" => Failing!DoneIsVerified
    /\ part = "resumed" => Resumed!DoneIsVerified

\* A repair in flight runs on the provider whose session it resumes, with no options shaped for
\* another one. (FixLoop)
RepairSpeaksItsBackend == part = "backends" => FixBackends!RepairSpeaksItsBackend

\* A repair resumes the session it was asked to resume whenever that session fits and the
\* policy can be applied where it lives. (FixLoop)
ResumeKeepsContext == part = "backends" => FixBackends!ResumeKeepsContext

\* A call is executed by one child run only, which is created once, whatever the deaths between
\* its reservation and its settlement (bindChildRun, hasJournaledChildStart). (ChildRuns)
OneChildPerCall == part = "children" => Children!OneChildPerCall

\* What the node was charged is the sum of what its calls were, in memory and in the snapshot,
\* and a settled call was charged all its child spent (chargeChildReconciliation by difference
\* across deaths). (ChildRuns)
ChargedExactly == part = "children" => Children!ChargedExactly

\* Deaths, retries and a raised ceiling together never let the children spend past the ceiling
\* by more than the attempt under way when it was reached. (ChildRuns)
BudgetHolds == part = "children" => Children!BudgetHolds

\* A node is never refused by its own earlier generation: its references name the frozen items
\* (declareChild refuses any other call). (ChildRuns)
ResumeNotRefused == part = "children" => Children!ResumeNotRefused

\* A settled reference never changes again. (ChildRuns)
SettledIsFinal == part = "children" => Children!SettledIsFinal

\* Once a child holds spend nobody could price no other child starts an attempt, unless the run
\* accepts it (--allow-unmetered): the uncertainty is latched before the next launch, also over
\* a death. (ChildRuns)
UnpricedSpawnsNothing == part = "unpriced" => Unpriced!UnpricedSpawnsNothing

\* The status on disk, the headline of the report and the exit code tell one ending, although
\* each is computed by a call of its own from facts of its own (reportRun, reportKind,
\* deriveRunStatus): apart from an aborted step an earlier invocation left. (RunEnding)
ReadingsAgree ==
    /\ part = "ending" => Ending!ReadingsAgree
    /\ part = "bounded" => Bounded!ReadingsAgree

\* An exit code that is no failure never covers a step that failed in this invocation, nor work
\* withheld because its spend cannot be priced. (RunEnding)
QuietExitIsHonest ==
    /\ part = "ending" => Ending!QuietExitIsHonest
    /\ part = "bounded" => Bounded!QuietExitIsHonest

\* Whatever ends an invocation, a run with work left is resumed by the next one, and PASS has
\* none left. (RunEnding)
NothingStranded ==
    /\ part = "ending" => Ending!NothingStranded
    /\ part = "bounded" => Bounded!NothingStranded

\* A block that stops the run is still told as a block, with its structured stop, by the
\* outcome finalizeRun rebuilds: unless a step before it, or a member of its group, failed on
\* its own. (RunEnding)
BlockSurvives ==
    /\ part = "ending" => Ending!BlockSurvives
    /\ part = "bounded" => Bounded!BlockSurvives

\* The dashboard tells the operator which flag lifts a cost stop the report named. (RunEnding)
WithheldIsTold ==
    /\ part = "ending" => Ending!WithheldIsTold
    /\ part = "bounded" => Bounded!WithheldIsTold

\* The console report shows every failed or interrupted step, however long the run. (RunEnding)
FailuresShown ==
    /\ part = "ending" => Ending!FailuresShown
    /\ part = "bounded" => Bounded!FailuresShown

\* After the interruption the late result of a killed attempt moves nothing: no step changes
\* and the status stays ABORTED until the next invocation. (RunEnding)
AbortSticks ==
    /\ part = "ending" => Ending!AbortSticks
    /\ part = "bounded" => Bounded!AbortSticks

\* Whatever the step ran on before, a session is only resumed by the CLI of the provider that
\* holds it (runners.ts resolveSession). (AgentLaunch)
SessionStaysHome == part = "sessions" => Sessions!SessionStaysHome

\* An opencode repair never writes in the session it was handed, so the one of the step stays
\* as the step left it (opencode/backend.ts run, args.ts). (AgentLaunch)
RepairLeavesTheSession == part = "sessions" => Sessions!RepairLeavesTheSession

\* An attempt whose verdict is required is told to give one, by a schema, by the runner or by
\* the prompt (args.ts of each backend). (AgentLaunch)
VerdictIsAsked == part = "words" => Words!VerdictIsAsked

\* The first launch of a session is granted the work item that lies outside the workspace, for
\* the CLIs that confine their agent (artifact-scope.ts). (AgentLaunch)
ScopeIsGranted == part = "words" => Words!ScopeIsGranted

\* An agent that says one thing only, that it is blocked, in a shape every backend reads, is
\* heard through to the step loop, whatever it printed before and after and whatever its exit
\* code; an extension backend, which only has its reason to say it with, is heard by its
\* prefix. (AgentOutcome)
BlockedIsHeard == part = "verdicts" => Outcome!BlockedIsHeard

\* A step stopped as blocked was either said so by its agent, in the field or in the prose, or
\* turned away by the provider's login or quota. (AgentOutcome)
BlockedOnlyWhenSaid == part = "verdicts" => Outcome!BlockedOnlyWhenSaid

\* A provider that refuses the login or the quota stops the run; a fix pass could repair
\* neither (claude-code/result.ts, failReasonFor). (AgentOutcome)
RefusalStopsTheRun == part = "verdicts" => Outcome!RefusalStopsTheRun

\* A json step passes only on a passing verdict the agent wrote, last among its fences when it
\* wrote several, over a process that ended well. (AgentOutcome)
OkIsSaid == part = "verdicts" => Outcome!OkIsSaid

\* A straggler left in the group of a Claude that reported its result does not cost the step
\* its verdict. (AgentOutcome)
StragglerIsTolerated == part = "verdicts" => Outcome!StragglerIsTolerated

\* A blocked verdict left in the output of an attempt that was killed says nothing about why it
\* ended: no kill is ever read as an obstacle, nor as the agent's own verdict (result-
\* helpers.ts, resolveVerdictOutcome). (AgentOutcome)
KillHasNoCause == part = "endings" => Killed!KillHasNoCause

\* A cost stop reaches the ledger whether a step or a repair pass spent: both projections of
\* the result carry the flag of its kill, and no other. (AgentOutcome)
CostStopIsReported == part = "endings" => Killed!CostStopIsReported

\* A refused capture leaves nothing on disk, and an attempt that passes has written every one:
\* a fix pass erases nothing, so a partial object would reach the repair as if it were good.
\* (AgentOutcome)
CapturesAreWhole == part = "endings" => Killed!CapturesAreWhole

\* Wherever the pipe cuts the stream, the same lines come out, in order, a progress tick never
\* and a redraw by what it leaves (pump, flush). (BashStream)
ChunksDoNotMatter == part = "stream" => Stream!ChunksDoNotMatter

\* While both streams run, a line of one is never cut by a line of the other. (BashStream)
LinesAreWhole == part = "stream" => Stream!LinesAreWhole

\* A command that fails says why: the last thing it wrote to stderr closes the reason, unless
\* it was killed, which is then the reason. (BashStream)
ReasonNamesTheCause == part = "stream" => Stream!ReasonNamesTheCause

\* A killed command never passes, whatever code it still returned; a straggler left behind by a
\* command that passed does not fail it. (BashStream)
KillIsAFailure == part = "stream" => Stream!KillIsAFailure

\* The comment over settleChild: a generation that settles a finished child a second
\* time "is charged a zero delta". (ChildRuns)
SecondFinishIsFree == part = "finish" => Finish!SecondFinishIsFree

\* What is spent inside a run is bounded, charged once and never taken for free, whichever
\* attempt, transport, backend or child run spends it.
SpendIsBounded ==
    /\ CeilingShared /\ NothingLeaks /\ ChargedWhatWasSpent
    /\ AbortForgetsNothing /\ KilledForItsOwnSpend /\ RetryWithinAllowance
    /\ LiveFollowsFinal /\ NothingLooksFree /\ AccountingKillIsProof
    /\ UnpricedIsStopped /\ BudgetKillIsFinal /\ OneChildPerCall
    /\ ChargedExactly /\ BudgetHolds /\ ResumeNotRefused

\* What stops is stopped for good and told as it is: processes and their groups, the repairs of
\* a step, the exit code and the status of a run.
EndingsAreHonest ==
    /\ ResolvedLeavesNothing /\ OneSignalSparesTheHook /\ NothingOutlivesRunner
    /\ ServicesStopLast /\ CostStopNeverAbsorbed /\ EscalatesOnTime
    /\ AttemptsBounded /\ DoneIsVerified /\ RepairSpeaksItsBackend
    /\ ResumeKeepsContext /\ ReadingsAgree /\ QuietExitIsHonest
    /\ NothingStranded /\ BlockSurvives /\ WithheldIsTold
    /\ FailuresShown

\* A step launches the agent it was declared with, and what the agent or the command says, or
\* what killed it, is what the step is settled with.
AgentsAreHeard ==
    /\ SessionStaysHome /\ VerdictIsAsked /\ ScopeIsGranted
    /\ BlockedIsHeard /\ BlockedOnlyWhenSaid /\ RefusalStopsTheRun
    /\ OkIsSaid /\ StragglerIsTolerated /\ KillHasNoCause
    /\ CostStopIsReported /\ CapturesAreWhole /\ ChunksDoNotMatter
    /\ LinesAreWhole /\ ReasonNamesTheCause /\ KillIsAFailure

\* What a step of the components of a run may never do.
ExecutionSteps ==
    [][
      /\ EqualFirstShares /\ CodeNamesFirstSignal /\ LadderClimbs
      /\ SettledIsFinal /\ UnpricedSpawnsNothing /\ AbortSticks
      /\ RepairLeavesTheSession]_vars
=============================================================================
