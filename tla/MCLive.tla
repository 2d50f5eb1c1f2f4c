------------------------------- MODULE MCLive -------------------------------
(***************************************************************************)
(* The liveness of the components, for TLC: what must eventually happen in *)
(* each of them, under the fairness its scheduling justifies.              *)
(*                                                                         *)
(* A behaviour chooses a part and is a behaviour of its component, with    *)
(* the variables of the other components off. The part never changes, so   *)
(* the fairness of several components may share a condition: in each part  *)
(* only the disjunct of that part can ever be enabled.                     *)
(***************************************************************************)
EXTENDS Naturals, Sequences, FiniteSets, TLC

CONSTANTS
    Parts,       \* the parts a run explores
    Unset,       \* no figure, no allowance, no ceiling
    Blank        \* no item and no request

VARIABLES
    part,   \* which part a behaviour explores: it never changes
    \* The variables of the components; two parts share one of a common name,
    \* and it is off in the others.
    abort, admitted, applied, approved, at, att, authored, awaiting, backend, bill,
    births, budget, busy, carried, ceiling, charge, child, cli, clock, closed,
    closes, closure, code, cumulative, cursor, cut, deaf, deaths, decision, def,
    died, dir, drainCuts, drained, drains, ends, error, executing, exits, failures,
    file, finished, fixed, forced, format, gen, group, handler, held, intent, inv,
    item, jAtt, journal, journaled, jStatus, jStops, key, kids, kill, killer, last,
    latest, ledger, left, live, lives, lock, logs, lost, made, main, max, mem,
    messages, mine, op, open, opens, opts, outbox, over, overshoot, paid, pane,
    patience, pc, phase, pipe, proc, queue, quiet, ran, reader, real, rec, record,
    registered, repairCuts, repairs, req, requested, reruns, result, resumes,
    retries, robbed, run, rung, runs, scans, sess, session, settle, setup, shutdown,
    signals, skipped, slow, snap, spawn, spawned, spent, stack, stage, stale,
    started, status, stop, stopSignals, stuck, termed, timedOut, tracked, tree,
    truths, unit, up, w, warned, watched, written, wrote, yes

vars ==
    <<part, abort, admitted, applied, approved, at, att, authored, awaiting,
      backend, bill, births, budget, busy, carried, ceiling, charge, child, cli,
      clock, closed, closes, closure, code, cumulative, cursor, cut, deaf, deaths,
      decision, def, died, dir, drainCuts, drained, drains, ends, error, executing,
      exits, failures, file, finished, fixed, forced, format, gen, group, handler,
      held, intent, inv, item, jAtt, journal, journaled, jStatus, jStops, key, kids,
      kill, killer, last, latest, ledger, left, live, lives, lock, logs, lost, made,
      main, max, mem, messages, mine, op, open, opens, opts, outbox, over,
      overshoot, paid, pane, patience, pc, phase, pipe, proc, queue, quiet, ran,
      reader, real, rec, record, registered, repairCuts, repairs, req, requested,
      reruns, result, resumes, retries, robbed, run, rung, runs, scans, sess,
      session, settle, setup, shutdown, signals, skipped, slow, snap, spawn,
      spawned, spent, stack, stage, stale, started, status, stop, stopSignals,
      stuck, termed, timedOut, tracked, tree, truths, unit, up, w, warned, watched,
      written, wrote, yes>>

-----------------------------------------------------------------------------
\* FixLoop: a step that reruns, one that is repaired.
Repaired == [kind |-> "fix", blocking |-> TRUE, max |-> 2, after |-> 1, ladder |-> {"effort", "model"},
             replay |-> TRUE, only |-> FALSE, again |-> TRUE, capture |-> TRUE, resumable |-> TRUE]
Rerunning == [Repaired EXCEPT !.kind = "rerun", !.blocking = FALSE]
OwnSession == [declared |-> "none", fixBackend |-> "none", target |-> "none", role |-> "none", fits |-> TRUE]

\* AgentOutcome: a verdict, and none.
Verdict(s, r, f) == [success |-> s, blocked |-> "absent", reason |-> r, field |-> f]

\* RunRecord: one retry of the first step, started without an option.
FirstRetries == <<1, 0>>
Plainly == {[budget |-> 0, unmetered |-> FALSE, replay |-> FALSE, startAt |-> 0, skip |-> {}, resuming |-> FALSE]}

\* History: a root run and its child.
RunsOf == [w1 |-> "root", w2 |-> "child"]
ParentsOf == [root |-> "none", child |-> "root"]

\* Terminals: an item is a project and a ticket.
OneItem == {[project |-> <<"food">>, ticket |-> <<"FOOD", "1">>]}
Suffix(kind) == CASE kind = "run" -> <<>> [] kind = "coder" -> <<"__coder">> [] OTHER -> <<"__verify-1">>
SessionOf(i, kind) == i.project \o i.ticket \o Suffix(kind)

\* RunReading: a run of two steps, the second of which composes a run of one.
PlansOf == "root" :> <<"write", "compose">> @@ "kid" :> <<"test">>

\* A group of two and then a lone step, under a ceiling of four units.
Shares == INSTANCE Allowance WITH
    Steps <- {"a", "b", "d"}, Units <- <<{"a", "b"}, {"d"}>>, Ceiling <- 4,
    NoCeiling <- Unset, Guarded <- {"a", "d"}, Unmetered <- FALSE, MaxCost <- 2,
    Retries <- 1

\* A fix spawned again over overloads and session limits.
Transport == INSTANCE ClaudeTransport WITH
    None <- Unset, Budget <- 4, Ancestors <- 2, Overloads <- 2, MaxWaits <- 2,
    MaxWait <- 4, Margin <- 1, Resets <- {0, 2}, MaxSpend <- 2, KeepsLedger <- TRUE

\* A step that is repaired and one that reruns, over a death.
Repair == INSTANCE FixLoop WITH
    Defs <- {Repaired, Rerunning}, Setups <- {OwnSession}, MaxGens <- 2

\* One process of the steps and the stop hook, under a signal.
Signals == INSTANCE Supervision WITH
    Procs <- {"p1"}, Hook <- "hook", MaxSignals <- 1

\* One item, with a child and a guarded call after it.
Node == INSTANCE ChildRuns WITH
    Lists <- {<<"ada">>}, AfterEach <- TRUE, AfterAll <- FALSE, Guarded <- TRUE,
    Cap <- 3, Raised <- 3, OwnMax <- 3, Prices <- {1, 2}, Unmetered <- FALSE,
    MaxGens <- 1, MaxIds <- 2

\* What may end an attempt that owes two captures.
Attempt == INSTANCE AgentOutcome WITH
    Backends <- {"claude", "codex", "opencode"}, Intents <- {"step"},
    Values <- {Verdict("true", "plain", "good"), Verdict("false", "prefixed", "none")},
    Shapes <- {"prose", "fence"},
    Errors <- {[status |-> "529", wording |-> "plain"]},
    Kills <- {"budget", "signal"}, Captures <- <<"plan", "summary">>,
    MaxMessages <- 1, Timeout <- 3, FirstEvent <- 2

\* Two steps in a group, one of which is retried.
Record == INSTANCE RunRecord WITH
    NSteps <- 2, Group <- {1, 2}, Metered <- {1}, NonBlocking <- {2},
    DeclaredReplay <- {}, RerunOnResume <- {}, MaxRetries <- FirstRetries,
    Ceiling <- 1, Prices <- {1}, Invocations <- Plainly, MaxAttempts <- 3,
    MaxSpend <- 3, MaxLives <- 1, MaxLost <- 0

\* Two scans of two tickets.
Scan == INSTANCE Dispatch WITH
    Tickets <- {"t1", "t2"}, CliLimits <- {0}, SourceLimit <- 1, DiskFails <- FALSE,
    MaxScans <- 2, MaxRuns <- 2

\* A runner and a runner inside the worktree.
Tree == INSTANCE Worktree WITH
    Runners <- {"R1"}, Insiders <- {"I1"}, Cleaners <- {}, Polls <- 1,
    MaxSignals <- 0, Editor <- FALSE

\* Two writers, one of which may die with the lock, and a lock that grows old.
Writing == INSTANCE History WITH
    Writers <- {"w1", "w2"}, RunOf <- RunsOf, ParentOf <- ParentsOf,
    Roots <- {"root"}, Children <- {"child"}, NoRun <- "none", OldFiles <- {<<>>},
    Measures <- {"exact"}, Statuses <- {"PASS"}, Dates <- {0}, MaxDeaths <- 1,
    TornAppends <- FALSE

\* One pane that leaves and comes back, a shell that exits.
Shown == INSTANCE Terminals WITH
    Ops <- {"o1"}, Items <- OneItem, NoItem <- Blank, NameOf <- SessionOf,
    Panes <- {"left"}, Keys <- 1, MaxFailures <- 1, MaxExits <- 1,
    EarlyExit <- FALSE, EarlyClose <- FALSE, Detaching <- FALSE, MaxOpens <- 2

\* The dashboard's polls over a runner that dies.
Polled == INSTANCE RunReading WITH
    ROOT <- "root", KID <- "kid", PlanOf <- PlansOf, COMPOSE <- "compose",
    Pollers <- {"poll"}, Others <- {}, Launches <- {FALSE}, MaxStarts <- 1,
    MaxCloses <- 0

\* Runners that end, a server that stops and is started again.
Started == INSTANCE Launching WITH
    People <- {"ann"}, Verbs <- {"rerun", "fresh"}, Pids <- {"p1", "p2"},
    MaxLaunches <- 2, MaxRuns <- 3, MaxEnds <- 3, Endings <- {"gate", "blocked"},
    MaxStarts <- 1, Expire <- TRUE, Strangers <- FALSE

\* The constants of every part satisfy what its component asks of them.
ASSUME PartsAssumption ==
    /\ Shares!AllowanceAssumption /\ Transport!TransportAssumption
    /\ Repair!FixLoopAssumption /\ Signals!SupervisionAssumption
    /\ Node!ChildRunsAssumption /\ Attempt!TimeoutAssumption
    /\ Record!ConstantsAssumption /\ Record!GroupAssumption
    /\ Tree!WorktreeAssumption /\ Polled!PlanAssumption

-----------------------------------------------------------------------------
\* What a part leaves aside is off, and stays so.
Off == "off"
Aside(own) ==
    /\ IF "abort" \in own THEN TRUE ELSE abort = Off
    /\ IF "admitted" \in own THEN TRUE ELSE admitted = Off
    /\ IF "applied" \in own THEN TRUE ELSE applied = Off
    /\ IF "approved" \in own THEN TRUE ELSE approved = Off
    /\ IF "at" \in own THEN TRUE ELSE at = Off
    /\ IF "att" \in own THEN TRUE ELSE att = Off
    /\ IF "authored" \in own THEN TRUE ELSE authored = Off
    /\ IF "awaiting" \in own THEN TRUE ELSE awaiting = Off
    /\ IF "backend" \in own THEN TRUE ELSE backend = Off
    /\ IF "bill" \in own THEN TRUE ELSE bill = Off
    /\ IF "births" \in own THEN TRUE ELSE births = Off
    /\ IF "budget" \in own THEN TRUE ELSE budget = Off
    /\ IF "busy" \in own THEN TRUE ELSE busy = Off
    /\ IF "carried" \in own THEN TRUE ELSE carried = Off
    /\ IF "ceiling" \in own THEN TRUE ELSE ceiling = Off
    /\ IF "charge" \in own THEN TRUE ELSE charge = Off
    /\ IF "child" \in own THEN TRUE ELSE child = Off
    /\ IF "cli" \in own THEN TRUE ELSE cli = Off
    /\ IF "clock" \in own THEN TRUE ELSE clock = Off
    /\ IF "closed" \in own THEN TRUE ELSE closed = Off
    /\ IF "closes" \in own THEN TRUE ELSE closes = Off
    /\ IF "closure" \in own THEN TRUE ELSE closure = Off
    /\ IF "code" \in own THEN TRUE ELSE code = Off
    /\ IF "cumulative" \in own THEN TRUE ELSE cumulative = Off
    /\ IF "cursor" \in own THEN TRUE ELSE cursor = Off
    /\ IF "cut" \in own THEN TRUE ELSE cut = Off
    /\ IF "deaf" \in own THEN TRUE ELSE deaf = Off
    /\ IF "deaths" \in own THEN TRUE ELSE deaths = Off
    /\ IF "decision" \in own THEN TRUE ELSE decision = Off
    /\ IF "def" \in own THEN TRUE ELSE def = Off
    /\ IF "died" \in own THEN TRUE ELSE died = Off
    /\ IF "dir" \in own THEN TRUE ELSE dir = Off
    /\ IF "drainCuts" \in own THEN TRUE ELSE drainCuts = Off
    /\ IF "drained" \in own THEN TRUE ELSE drained = Off
    /\ IF "drains" \in own THEN TRUE ELSE drains = Off
    /\ IF "ends" \in own THEN TRUE ELSE ends = Off
    /\ IF "error" \in own THEN TRUE ELSE error = Off
    /\ IF "executing" \in own THEN TRUE ELSE executing = Off
    /\ IF "exits" \in own THEN TRUE ELSE exits = Off
    /\ IF "failures" \in own THEN TRUE ELSE failures = Off
    /\ IF "file" \in own THEN TRUE ELSE file = Off
    /\ IF "finished" \in own THEN TRUE ELSE finished = Off
    /\ IF "fixed" \in own THEN TRUE ELSE fixed = Off
    /\ IF "forced" \in own THEN TRUE ELSE forced = Off
    /\ IF "format" \in own THEN TRUE ELSE format = Off
    /\ IF "gen" \in own THEN TRUE ELSE gen = Off
    /\ IF "group" \in own THEN TRUE ELSE group = Off
    /\ IF "handler" \in own THEN TRUE ELSE handler = Off
    /\ IF "held" \in own THEN TRUE ELSE held = Off
    /\ IF "intent" \in own THEN TRUE ELSE intent = Off
    /\ IF "inv" \in own THEN TRUE ELSE inv = Off
    /\ IF "item" \in own THEN TRUE ELSE item = Off
    /\ IF "jAtt" \in own THEN TRUE ELSE jAtt = Off
    /\ IF "journal" \in own THEN TRUE ELSE journal = Off
    /\ IF "journaled" \in own THEN TRUE ELSE journaled = Off
    /\ IF "jStatus" \in own THEN TRUE ELSE jStatus = Off
    /\ IF "jStops" \in own THEN TRUE ELSE jStops = Off
    /\ IF "key" \in own THEN TRUE ELSE key = Off
    /\ IF "kids" \in own THEN TRUE ELSE kids = Off
    /\ IF "kill" \in own THEN TRUE ELSE kill = Off
    /\ IF "killer" \in own THEN TRUE ELSE killer = Off
    /\ IF "last" \in own THEN TRUE ELSE last = Off
    /\ IF "latest" \in own THEN TRUE ELSE latest = Off
    /\ IF "ledger" \in own THEN TRUE ELSE ledger = Off
    /\ IF "left" \in own THEN TRUE ELSE left = Off
    /\ IF "live" \in own THEN TRUE ELSE live = Off
    /\ IF "lives" \in own THEN TRUE ELSE lives = Off
    /\ IF "lock" \in own THEN TRUE ELSE lock = Off
    /\ IF "logs" \in own THEN TRUE ELSE logs = Off
    /\ IF "lost" \in own THEN TRUE ELSE lost = Off
    /\ IF "made" \in own THEN TRUE ELSE made = Off
    /\ IF "main" \in own THEN TRUE ELSE main = Off
    /\ IF "max" \in own THEN TRUE ELSE max = Off
    /\ IF "mem" \in own THEN TRUE ELSE mem = Off
    /\ IF "messages" \in own THEN TRUE ELSE messages = Off
    /\ IF "mine" \in own THEN TRUE ELSE mine = Off
    /\ IF "op" \in own THEN TRUE ELSE op = Off
    /\ IF "open" \in own THEN TRUE ELSE open = Off
    /\ IF "opens" \in own THEN TRUE ELSE opens = Off
    /\ IF "opts" \in own THEN TRUE ELSE opts = Off
    /\ IF "outbox" \in own THEN TRUE ELSE outbox = Off
    /\ IF "over" \in own THEN TRUE ELSE over = Off
    /\ IF "overshoot" \in own THEN TRUE ELSE overshoot = Off
    /\ IF "paid" \in own THEN TRUE ELSE paid = Off
    /\ IF "pane" \in own THEN TRUE ELSE pane = Off
    /\ IF "patience" \in own THEN TRUE ELSE patience = Off
    /\ IF "pc" \in own THEN TRUE ELSE pc = Off
    /\ IF "phase" \in own THEN TRUE ELSE phase = Off
    /\ IF "pipe" \in own THEN TRUE ELSE pipe = Off
    /\ IF "proc" \in own THEN TRUE ELSE proc = Off
    /\ IF "queue" \in own THEN TRUE ELSE queue = Off
    /\ IF "quiet" \in own THEN TRUE ELSE quiet = Off
    /\ IF "ran" \in own THEN TRUE ELSE ran = Off
    /\ IF "reader" \in own THEN TRUE ELSE reader = Off
    /\ IF "real" \in own THEN TRUE ELSE real = Off
    /\ IF "rec" \in own THEN TRUE ELSE rec = Off
    /\ IF "record" \in own THEN TRUE ELSE record = Off
    /\ IF "registered" \in own THEN TRUE ELSE registered = Off
    /\ IF "repairCuts" \in own THEN TRUE ELSE repairCuts = Off
    /\ IF "repairs" \in own THEN TRUE ELSE repairs = Off
    /\ IF "req" \in own THEN TRUE ELSE req = Off
    /\ IF "requested" \in own THEN TRUE ELSE requested = Off
    /\ IF "reruns" \in own THEN TRUE ELSE reruns = Off
    /\ IF "result" \in own THEN TRUE ELSE result = Off
    /\ IF "resumes" \in own THEN TRUE ELSE resumes = Off
    /\ IF "retries" \in own THEN TRUE ELSE retries = Off
    /\ IF "robbed" \in own THEN TRUE ELSE robbed = Off
    /\ IF "run" \in own THEN TRUE ELSE run = Off
    /\ IF "rung" \in own THEN TRUE ELSE rung = Off
    /\ IF "runs" \in own THEN TRUE ELSE runs = Off
    /\ IF "scans" \in own THEN TRUE ELSE scans = Off
    /\ IF "sess" \in own THEN TRUE ELSE sess = Off
    /\ IF "session" \in own THEN TRUE ELSE session = Off
    /\ IF "settle" \in own THEN TRUE ELSE settle = Off
    /\ IF "setup" \in own THEN TRUE ELSE setup = Off
    /\ IF "shutdown" \in own THEN TRUE ELSE shutdown = Off
    /\ IF "signals" \in own THEN TRUE ELSE signals = Off
    /\ IF "skipped" \in own THEN TRUE ELSE skipped = Off
    /\ IF "slow" \in own THEN TRUE ELSE slow = Off
    /\ IF "snap" \in own THEN TRUE ELSE snap = Off
    /\ IF "spawn" \in own THEN TRUE ELSE spawn = Off
    /\ IF "spawned" \in own THEN TRUE ELSE spawned = Off
    /\ IF "spent" \in own THEN TRUE ELSE spent = Off
    /\ IF "stack" \in own THEN TRUE ELSE stack = Off
    /\ IF "stage" \in own THEN TRUE ELSE stage = Off
    /\ IF "stale" \in own THEN TRUE ELSE stale = Off
    /\ IF "started" \in own THEN TRUE ELSE started = Off
    /\ IF "status" \in own THEN TRUE ELSE status = Off
    /\ IF "stop" \in own THEN TRUE ELSE stop = Off
    /\ IF "stopSignals" \in own THEN TRUE ELSE stopSignals = Off
    /\ IF "stuck" \in own THEN TRUE ELSE stuck = Off
    /\ IF "termed" \in own THEN TRUE ELSE termed = Off
    /\ IF "timedOut" \in own THEN TRUE ELSE timedOut = Off
    /\ IF "tracked" \in own THEN TRUE ELSE tracked = Off
    /\ IF "tree" \in own THEN TRUE ELSE tree = Off
    /\ IF "truths" \in own THEN TRUE ELSE truths = Off
    /\ IF "unit" \in own THEN TRUE ELSE unit = Off
    /\ IF "up" \in own THEN TRUE ELSE up = Off
    /\ IF "w" \in own THEN TRUE ELSE w = Off
    /\ IF "warned" \in own THEN TRUE ELSE warned = Off
    /\ IF "watched" \in own THEN TRUE ELSE watched = Off
    /\ IF "written" \in own THEN TRUE ELSE written = Off
    /\ IF "wrote" \in own THEN TRUE ELSE wrote = Off
    /\ IF "yes" \in own THEN TRUE ELSE yes = Off
Still(own) ==
    /\ UNCHANGED part
    /\ IF "abort" \in own THEN TRUE ELSE UNCHANGED abort
    /\ IF "admitted" \in own THEN TRUE ELSE UNCHANGED admitted
    /\ IF "applied" \in own THEN TRUE ELSE UNCHANGED applied
    /\ IF "approved" \in own THEN TRUE ELSE UNCHANGED approved
    /\ IF "at" \in own THEN TRUE ELSE UNCHANGED at
    /\ IF "att" \in own THEN TRUE ELSE UNCHANGED att
    /\ IF "authored" \in own THEN TRUE ELSE UNCHANGED authored
    /\ IF "awaiting" \in own THEN TRUE ELSE UNCHANGED awaiting
    /\ IF "backend" \in own THEN TRUE ELSE UNCHANGED backend
    /\ IF "bill" \in own THEN TRUE ELSE UNCHANGED bill
    /\ IF "births" \in own THEN TRUE ELSE UNCHANGED births
    /\ IF "budget" \in own THEN TRUE ELSE UNCHANGED budget
    /\ IF "busy" \in own THEN TRUE ELSE UNCHANGED busy
    /\ IF "carried" \in own THEN TRUE ELSE UNCHANGED carried
    /\ IF "ceiling" \in own THEN TRUE ELSE UNCHANGED ceiling
    /\ IF "charge" \in own THEN TRUE ELSE UNCHANGED charge
    /\ IF "child" \in own THEN TRUE ELSE UNCHANGED child
    /\ IF "cli" \in own THEN TRUE ELSE UNCHANGED cli
    /\ IF "clock" \in own THEN TRUE ELSE UNCHANGED clock
    /\ IF "closed" \in own THEN TRUE ELSE UNCHANGED closed
    /\ IF "closes" \in own THEN TRUE ELSE UNCHANGED closes
    /\ IF "closure" \in own THEN TRUE ELSE UNCHANGED closure
    /\ IF "code" \in own THEN TRUE ELSE UNCHANGED code
    /\ IF "cumulative" \in own THEN TRUE ELSE UNCHANGED cumulative
    /\ IF "cursor" \in own THEN TRUE ELSE UNCHANGED cursor
    /\ IF "cut" \in own THEN TRUE ELSE UNCHANGED cut
    /\ IF "deaf" \in own THEN TRUE ELSE UNCHANGED deaf
    /\ IF "deaths" \in own THEN TRUE ELSE UNCHANGED deaths
    /\ IF "decision" \in own THEN TRUE ELSE UNCHANGED decision
    /\ IF "def" \in own THEN TRUE ELSE UNCHANGED def
    /\ IF "died" \in own THEN TRUE ELSE UNCHANGED died
    /\ IF "dir" \in own THEN TRUE ELSE UNCHANGED dir
    /\ IF "drainCuts" \in own THEN TRUE ELSE UNCHANGED drainCuts
    /\ IF "drained" \in own THEN TRUE ELSE UNCHANGED drained
    /\ IF "drains" \in own THEN TRUE ELSE UNCHANGED drains
    /\ IF "ends" \in own THEN TRUE ELSE UNCHANGED ends
    /\ IF "error" \in own THEN TRUE ELSE UNCHANGED error
    /\ IF "executing" \in own THEN TRUE ELSE UNCHANGED executing
    /\ IF "exits" \in own THEN TRUE ELSE UNCHANGED exits
    /\ IF "failures" \in own THEN TRUE ELSE UNCHANGED failures
    /\ IF "file" \in own THEN TRUE ELSE UNCHANGED file
    /\ IF "finished" \in own THEN TRUE ELSE UNCHANGED finished
    /\ IF "fixed" \in own THEN TRUE ELSE UNCHANGED fixed
    /\ IF "forced" \in own THEN TRUE ELSE UNCHANGED forced
    /\ IF "format" \in own THEN TRUE ELSE UNCHANGED format
    /\ IF "gen" \in own THEN TRUE ELSE UNCHANGED gen
    /\ IF "group" \in own THEN TRUE ELSE UNCHANGED group
    /\ IF "handler" \in own THEN TRUE ELSE UNCHANGED handler
    /\ IF "held" \in own THEN TRUE ELSE UNCHANGED held
    /\ IF "intent" \in own THEN TRUE ELSE UNCHANGED intent
    /\ IF "inv" \in own THEN TRUE ELSE UNCHANGED inv
    /\ IF "item" \in own THEN TRUE ELSE UNCHANGED item
    /\ IF "jAtt" \in own THEN TRUE ELSE UNCHANGED jAtt
    /\ IF "journal" \in own THEN TRUE ELSE UNCHANGED journal
    /\ IF "journaled" \in own THEN TRUE ELSE UNCHANGED journaled
    /\ IF "jStatus" \in own THEN TRUE ELSE UNCHANGED jStatus
    /\ IF "jStops" \in own THEN TRUE ELSE UNCHANGED jStops
    /\ IF "key" \in own THEN TRUE ELSE UNCHANGED key
    /\ IF "kids" \in own THEN TRUE ELSE UNCHANGED kids
    /\ IF "kill" \in own THEN TRUE ELSE UNCHANGED kill
    /\ IF "killer" \in own THEN TRUE ELSE UNCHANGED killer
    /\ IF "last" \in own THEN TRUE ELSE UNCHANGED last
    /\ IF "latest" \in own THEN TRUE ELSE UNCHANGED latest
    /\ IF "ledger" \in own THEN TRUE ELSE UNCHANGED ledger
    /\ IF "left" \in own THEN TRUE ELSE UNCHANGED left
    /\ IF "live" \in own THEN TRUE ELSE UNCHANGED live
    /\ IF "lives" \in own THEN TRUE ELSE UNCHANGED lives
    /\ IF "lock" \in own THEN TRUE ELSE UNCHANGED lock
    /\ IF "logs" \in own THEN TRUE ELSE UNCHANGED logs
    /\ IF "lost" \in own THEN TRUE ELSE UNCHANGED lost
    /\ IF "made" \in own THEN TRUE ELSE UNCHANGED made
    /\ IF "main" \in own THEN TRUE ELSE UNCHANGED main
    /\ IF "max" \in own THEN TRUE ELSE UNCHANGED max
    /\ IF "mem" \in own THEN TRUE ELSE UNCHANGED mem
    /\ IF "messages" \in own THEN TRUE ELSE UNCHANGED messages
    /\ IF "mine" \in own THEN TRUE ELSE UNCHANGED mine
    /\ IF "op" \in own THEN TRUE ELSE UNCHANGED op
    /\ IF "open" \in own THEN TRUE ELSE UNCHANGED open
    /\ IF "opens" \in own THEN TRUE ELSE UNCHANGED opens
    /\ IF "opts" \in own THEN TRUE ELSE UNCHANGED opts
    /\ IF "outbox" \in own THEN TRUE ELSE UNCHANGED outbox
    /\ IF "over" \in own THEN TRUE ELSE UNCHANGED over
    /\ IF "overshoot" \in own THEN TRUE ELSE UNCHANGED overshoot
    /\ IF "paid" \in own THEN TRUE ELSE UNCHANGED paid
    /\ IF "pane" \in own THEN TRUE ELSE UNCHANGED pane
    /\ IF "patience" \in own THEN TRUE ELSE UNCHANGED patience
    /\ IF "pc" \in own THEN TRUE ELSE UNCHANGED pc
    /\ IF "phase" \in own THEN TRUE ELSE UNCHANGED phase
    /\ IF "pipe" \in own THEN TRUE ELSE UNCHANGED pipe
    /\ IF "proc" \in own THEN TRUE ELSE UNCHANGED proc
    /\ IF "queue" \in own THEN TRUE ELSE UNCHANGED queue
    /\ IF "quiet" \in own THEN TRUE ELSE UNCHANGED quiet
    /\ IF "ran" \in own THEN TRUE ELSE UNCHANGED ran
    /\ IF "reader" \in own THEN TRUE ELSE UNCHANGED reader
    /\ IF "real" \in own THEN TRUE ELSE UNCHANGED real
    /\ IF "rec" \in own THEN TRUE ELSE UNCHANGED rec
    /\ IF "record" \in own THEN TRUE ELSE UNCHANGED record
    /\ IF "registered" \in own THEN TRUE ELSE UNCHANGED registered
    /\ IF "repairCuts" \in own THEN TRUE ELSE UNCHANGED repairCuts
    /\ IF "repairs" \in own THEN TRUE ELSE UNCHANGED repairs
    /\ IF "req" \in own THEN TRUE ELSE UNCHANGED req
    /\ IF "requested" \in own THEN TRUE ELSE UNCHANGED requested
    /\ IF "reruns" \in own THEN TRUE ELSE UNCHANGED reruns
    /\ IF "result" \in own THEN TRUE ELSE UNCHANGED result
    /\ IF "resumes" \in own THEN TRUE ELSE UNCHANGED resumes
    /\ IF "retries" \in own THEN TRUE ELSE UNCHANGED retries
    /\ IF "robbed" \in own THEN TRUE ELSE UNCHANGED robbed
    /\ IF "run" \in own THEN TRUE ELSE UNCHANGED run
    /\ IF "rung" \in own THEN TRUE ELSE UNCHANGED rung
    /\ IF "runs" \in own THEN TRUE ELSE UNCHANGED runs
    /\ IF "scans" \in own THEN TRUE ELSE UNCHANGED scans
    /\ IF "sess" \in own THEN TRUE ELSE UNCHANGED sess
    /\ IF "session" \in own THEN TRUE ELSE UNCHANGED session
    /\ IF "settle" \in own THEN TRUE ELSE UNCHANGED settle
    /\ IF "setup" \in own THEN TRUE ELSE UNCHANGED setup
    /\ IF "shutdown" \in own THEN TRUE ELSE UNCHANGED shutdown
    /\ IF "signals" \in own THEN TRUE ELSE UNCHANGED signals
    /\ IF "skipped" \in own THEN TRUE ELSE UNCHANGED skipped
    /\ IF "slow" \in own THEN TRUE ELSE UNCHANGED slow
    /\ IF "snap" \in own THEN TRUE ELSE UNCHANGED snap
    /\ IF "spawn" \in own THEN TRUE ELSE UNCHANGED spawn
    /\ IF "spawned" \in own THEN TRUE ELSE UNCHANGED spawned
    /\ IF "spent" \in own THEN TRUE ELSE UNCHANGED spent
    /\ IF "stack" \in own THEN TRUE ELSE UNCHANGED stack
    /\ IF "stage" \in own THEN TRUE ELSE UNCHANGED stage
    /\ IF "stale" \in own THEN TRUE ELSE UNCHANGED stale
    /\ IF "started" \in own THEN TRUE ELSE UNCHANGED started
    /\ IF "status" \in own THEN TRUE ELSE UNCHANGED status
    /\ IF "stop" \in own THEN TRUE ELSE UNCHANGED stop
    /\ IF "stopSignals" \in own THEN TRUE ELSE UNCHANGED stopSignals
    /\ IF "stuck" \in own THEN TRUE ELSE UNCHANGED stuck
    /\ IF "termed" \in own THEN TRUE ELSE UNCHANGED termed
    /\ IF "timedOut" \in own THEN TRUE ELSE UNCHANGED timedOut
    /\ IF "tracked" \in own THEN TRUE ELSE UNCHANGED tracked
    /\ IF "tree" \in own THEN TRUE ELSE UNCHANGED tree
    /\ IF "truths" \in own THEN TRUE ELSE UNCHANGED truths
    /\ IF "unit" \in own THEN TRUE ELSE UNCHANGED unit
    /\ IF "up" \in own THEN TRUE ELSE UNCHANGED up
    /\ IF "w" \in own THEN TRUE ELSE UNCHANGED w
    /\ IF "warned" \in own THEN TRUE ELSE UNCHANGED warned
    /\ IF "watched" \in own THEN TRUE ELSE UNCHANGED watched
    /\ IF "written" \in own THEN TRUE ELSE UNCHANGED written
    /\ IF "wrote" \in own THEN TRUE ELSE UNCHANGED wrote
    /\ IF "yes" \in own THEN TRUE ELSE UNCHANGED yes

AllowanceOwns ==
    {"unit", "phase", "ledger", "held", "awaiting", "left", "run", "overshoot"}
ClaudeTransportOwns ==
    {"phase", "resumes", "cli", "spawn", "carried", "patience", "live", "charge",
     "spent"}
FixLoopOwns ==
    {"def", "setup", "gen", "pc", "status", "retries", "drains", "rung", "timedOut",
     "last", "fixed", "over", "session", "cut", "slow", "stuck", "repairs",
     "repairCuts", "drained", "drainCuts"}
SupervisionOwns ==
    {"child", "group", "pipe", "deaf", "termed", "applied", "killer", "settle",
     "tracked", "shutdown", "forced", "abort", "handler", "stop", "stopSignals",
     "skipped", "main", "code", "signals"}
ChildRunsOwns ==
    {"mem", "snap", "started", "kids", "pc", "gen", "max", "approved", "cumulative",
     "ceiling", "bill", "real", "births", "ran", "yes", "paid"}
AgentOutcomeOwns ==
    {"backend", "intent", "format", "messages", "error", "clock", "kill", "code",
     "result", "written"}
RunRecordOwns ==
    {"pc", "run", "att", "budget", "executing", "stage", "result", "reruns",
     "cursor", "admitted", "stop", "inv", "requested", "outbox", "snap", "jStatus",
     "jAtt", "jStops", "lives", "lost", "finished", "died", "logs"}
DispatchOwns ==
    {"at", "opts", "queue", "record", "file", "latest", "child", "scans", "runs",
     "stale", "spawned", "died"}
WorktreeOwns ==
    {"registered", "dir", "made", "tree", "lock", "stack", "pc", "mine", "warned",
     "lost"}
HistoryOwns ==
    {"file", "open", "lock", "w", "ledger", "deaths", "robbed", "wrote"}
TerminalsOwns ==
    {"sess", "op", "busy", "pane", "key", "opens", "failures", "exits", "wrote"}
RunReadingOwns ==
    {"snap", "journal", "lock", "proc", "closure", "reader", "item", "truths",
     "quiet", "closes"}
LaunchingOwns ==
    {"run", "closed", "decision", "authored", "journaled", "proc", "rec", "watched",
     "up", "req", "ends", "applied"}

Init ==
    /\ part \in Parts
    /\ \/ part = "shares"    /\ Shares!Init /\ Aside(AllowanceOwns)
       \/ part = "transport" /\ Transport!Init /\ Aside(ClaudeTransportOwns)
       \/ part = "repair"    /\ Repair!Init /\ Aside(FixLoopOwns)
       \/ part = "signals"   /\ Signals!Init /\ Aside(SupervisionOwns)
       \/ part = "node"      /\ Node!Init /\ Aside(ChildRunsOwns)
       \/ part = "attempt"   /\ Attempt!Init /\ Aside(AgentOutcomeOwns)
       \/ part = "record"    /\ Record!Init /\ Aside(RunRecordOwns)
       \/ part = "scan"      /\ Scan!Init /\ Aside(DispatchOwns)
       \/ part = "tree"      /\ Tree!Init /\ Aside(WorktreeOwns)
       \/ part = "writers"   /\ Writing!Init /\ Aside(HistoryOwns)
       \/ part = "panes"     /\ Shown!Init /\ Aside(TerminalsOwns)
       \/ part = "polls"     /\ Polled!Init /\ Aside(RunReadingOwns)
       \/ part = "verbs"     /\ Started!Init /\ Aside(LaunchingOwns)
Next ==
    \/ part = "shares"    /\ Shares!Next /\ Still(AllowanceOwns)
    \/ part = "transport" /\ Transport!Next /\ Still(ClaudeTransportOwns)
    \/ part = "repair"    /\ Repair!Next /\ Still(FixLoopOwns)
    \/ part = "signals"   /\ Signals!Next /\ Still(SupervisionOwns)
    \/ part = "node"      /\ Node!Next /\ Still(ChildRunsOwns)
    \/ part = "attempt"   /\ Attempt!Next /\ Still(AgentOutcomeOwns)
    \/ part = "record"    /\ Record!Next /\ Still(RunRecordOwns)
    \/ part = "scan"      /\ Scan!Next /\ Still(DispatchOwns)
    \/ part = "tree"      /\ Tree!Next /\ Still(WorktreeOwns)
    \/ part = "writers"   /\ Writing!Next /\ Still(HistoryOwns)
    \/ part = "panes"     /\ Shown!Next /\ Still(TerminalsOwns)
    \/ part = "polls"     /\ Polled!Next /\ Still(RunReadingOwns)
    \/ part = "verbs"     /\ Started!Next /\ Still(LaunchingOwns)
Spec == Init /\ [][Next]_vars
\* The variables of the component of a part.
SharesVars == <<unit, phase, ledger, held, awaiting, left, run, overshoot>>
TransportVars == <<phase, resumes, cli, spawn, carried, patience, live, charge, spent>>
RepairVars == <<def, setup, gen, pc, status, retries, drains, rung, timedOut, last, fixed,
    over, session, cut, slow, stuck, repairs, repairCuts, drained, drainCuts>>
SignalsVars == <<child, group, pipe, deaf, termed, applied, killer, settle, tracked,
    shutdown, forced, abort, handler, stop, stopSignals, skipped, main, code, signals>>
NodeVars == <<mem, snap, started, kids, pc, gen, max, approved, cumulative, ceiling, bill,
    real, births, ran, yes, paid>>
AttemptVars == <<backend, intent, format, messages, error, clock, kill, code, result,
    written>>
RecordVars == <<pc, run, att, budget, executing, stage, result, reruns, cursor, admitted,
    stop, inv, requested, outbox, snap, jStatus, jAtt, jStops, lives, lost, finished, died,
    logs>>
ScanVars == <<at, opts, queue, record, file, latest, child, scans, runs, stale, spawned,
    died>>
TreeVars == <<registered, dir, made, tree, lock, stack, pc, mine, warned, lost>>
WritingVars == <<file, open, lock, w, ledger, deaths, robbed, wrote>>
ShownVars == <<sess, op, busy, pane, key, opens, failures, exits, wrote>>
PolledVars == <<snap, journal, lock, proc, closure, reader, item, truths, quiet, closes>>
StartedVars == <<run, closed, decision, authored, journaled, proc, rec, watched, up, req,
    ends, applied>>

\* The steps that go on while they can, component by component.  A person's choice, a
\* death, a signal that may never come are left unfair.
Fairness ==
    /\ WF_SharesVars(part = "shares" /\ Shares!Progress)
    /\ WF_TransportVars(part = "transport" /\ Transport!Progress)
    /\ WF_RepairVars(part = "repair" /\ Repair!Pass)
    /\ WF_SignalsVars(part = "signals" /\ Signals!Runner("p1"))
    /\ WF_SignalsVars(part = "signals" /\ Signals!Runner("hook"))
    /\ WF_SignalsVars(part = "signals" /\ Signals!ChildObeys("p1"))
    /\ WF_SignalsVars(part = "signals" /\ Signals!ChildObeys("hook"))
    /\ WF_SignalsVars(part = "signals" /\ Signals!GroupObeys("p1"))
    /\ WF_SignalsVars(part = "signals" /\ Signals!GroupObeys("hook"))
    /\ WF_SignalsVars(part = "signals" /\ Signals!PolicyKill("hook"))
    /\ WF_SignalsVars(part = "signals" /\ Signals!ShutdownOver)
    /\ WF_SignalsVars(part = "signals" /\ Signals!HookOver)
    /\ WF_SignalsVars(part = "signals" /\ Signals!InterruptionExits)
    /\ WF_NodeVars(part = "node" /\ (Node!Work \/ Node!Attempt))
    /\ WF_NodeVars(part = "node" /\ Node!ChildEnds)
    /\ WF_AttemptVars(part = "attempt" /\ Attempt!Tick)
    /\ WF_AttemptVars(part = "attempt" /\ Attempt!Settle)
    /\ WF_AttemptVars(part = "attempt" /\ Attempt!ReadCaptures)
    /\ WF_AttemptVars(part = "attempt" /\ Attempt!WriteCapture)
    /\ WF_AttemptVars(part = "attempt" /\ (\E c \in {"0", "null"} : Attempt!Reap(c)))
    /\ WF_AttemptVars(part = "attempt" /\ (\E landed \in BOOLEAN : Attempt!Require(landed)))
    /\ WF_RecordVars(part = "record" /\ Record!Progress)
    /\ WF_ScanVars(part = "scan" /\ (Scan!Discover(<<>>) \/ Scan!DiscoveryFails))
    /\ WF_ScanVars(part = "scan" /\ (\E t \in {"t1", "t2"} : Scan!Skip(t) \/ Scan!Start(t)))
    /\ WF_ScanVars(part = "scan" /\ (\E s \in Scan!Statuses : Scan!ChildEnds(s)))
    /\ WF_ScanVars(part = "scan" /\ Scan!Finish)
    /\ WF_ScanVars(part = "scan" /\ (Scan!Checkout \/ Scan!Halt))
    /\ WF_ScanVars(part = "scan" /\ Scan!Report)
    /\ WF_TreeVars(part = "tree" /\ (Tree!Alive("R1") /\ Tree!Own("R1")))
    /\ WF_TreeVars(part = "tree" /\ (Tree!Alive("I1") /\ Tree!Own("I1")))
    /\ WF_WritingVars(part = "writers" /\ Writing!GrowOld)
    /\ WF_WritingVars(part = "writers" /\ Writing!Emitting("w1"))
    /\ WF_WritingVars(part = "writers" /\ Writing!Emitting("w2"))
    /\ SF_WritingVars(part = "writers" /\ Writing!GiveUp("w1"))
    /\ SF_WritingVars(part = "writers" /\ Writing!GiveUp("w2"))
    /\ WF_ShownVars(part = "panes" /\ Shown!Streaming("left"))
    /\ WF_ShownVars(part = "panes" /\ Shown!ClientEnds("left"))
    /\ WF_ShownVars(part = "panes" /\ Shown!Flush("left"))
    /\ WF_ShownVars(part = "panes" /\ Shown!Deliver("left"))
    /\ WF_ShownVars(part = "panes" /\ Shown!Opening("o1"))
    /\ WF_PolledVars(part = "polls" /\ (Polled!Poll("poll") /\ Polled!Remember))
    /\ WF_PolledVars(part = "polls" /\ (Polled!StartRead("poll", "root") /\ Polled!Remember))
    /\ WF_PolledVars(part = "polls" /\ (Polled!BuildItem("poll") /\ Polled!Remember))
    /\ WF_StartedVars(part = "verbs" /\ Started!Start)
    /\ WF_StartedVars(part = "verbs" /\ Started!Runner("p1"))
    /\ WF_StartedVars(part = "verbs" /\ Started!Runner("p2"))
    /\ WF_StartedVars(part = "verbs" /\ Started!Hear(1))
    /\ WF_StartedVars(part = "verbs" /\ Started!Hear(2))
FairSpec == Spec /\ Fairness

-----------------------------------------------------------------------------
\* Every execution that a signal does not cut settles each of its steps: no pair of attempts
\* waits for what the other holds. (Allowance)
RunUnitsEnd == <>(part = "shares" => Shares!Settled /\ (run # "going" \/ unit > 2))

\* However the provider answers, the attempt ends. (ClaudeTransport)
TransportEnds == <>(part = "transport" => phase \in {"done", "aborted"})

\* Whatever the attempts answer, the step is settled. (FixLoop)
Settles == (part = "repair" /\ pc = "initial") ~> (part = "repair" => pc = "over")

\* The runner ends after a signal, whatever ignores TERM or holds a pipe. (Supervision)
SignalEnds == (part = "signals" /\ abort # "none") ~> (part = "signals" => main = "exited")

\* A process that exited is settled, even when its pipe is never closed, unless the runner is
\* gone. (Supervision)
ExitSettles ==
    \A p \in {"p1", "hook"} :
        (part = "signals" /\ settle[p] = "drain")
        ~> (part = "signals" => settle[p] = "resolved" \/ main = "exited")

\* Without a death a node always comes to an end: its calls done, a failure, its gate.
\* (ChildRuns)
NodeSettles == (part = "node" /\ pc = "open") ~> (part = "node" => pc \in Node!Ended)

\* Every attempt answers: a command line that says nothing, or never ends, is killed by its
\* deadline and reaped. (AgentOutcome)
EveryAttemptAnswers == <>(part = "attempt" => Attempt!Answered)

\* Every execution ends: no combination of admission, verdicts, quotas, cost stops and
\* signals leaves the loop waiting for a pass nobody will settle. (RunRecord)
EveryExecutionEnds == (part = "record" /\ pc = "booted") ~> (part = "record" => pc = "off")

\* A scan that starts comes to its end: some record is closed, or discovery failed, or the
\* parent died, whatever children and checkouts do. (Dispatch)
ScanEnds == (part = "scan" /\ at = "discover") ~> (part = "scan" => at = "idle")

\* A process that was started ends, and does not stay at the probes of its services or at the
\* lock for ever. (Worktree)
Finishes ==
    \A p \in {"R1", "I1"} :
        (part = "tree" /\ Tree!Alive(p))
        ~> (part = "tree" => pc[p] \in Tree!Ended \cup {"work"})

\* A writer ends, written or not: a lock left behind holds nobody for good. (History)
EveryWriterEnds ==
    \A p \in {"w1", "w2"} :
        (part = "writers" /\ w[p].at = "asking")
        ~> (part = "writers" => w[p].at \in {"done", "lost", "dead"})

\* A reader that leaves is detached in the end, and its tmux client goes with it. (Terminals)
LeavingDetaches ==
    (part = "panes" /\ pane["left"].left)
        ~> (part = "panes" => pane["left"].client = "none" \/ ~pane["left"].left)

\* The end of a session is told as its end to every viewer that watches it. (Terminals)
EndIsTold ==
    (part = "panes" /\ Shown!WatchesDead("left"))
        ~> (part = "panes" => pane["left"].status \in {"ended", "closed", "lost"} \/ sess[pane["left"].on].live)

\* Every request is answered: the pane is open with its command typed, or the request was
\* refused. (Terminals)
Answered ==
    (part = "panes" /\ op["o1"].at = "asked")
        ~> (part = "panes" => op["o1"].at \in {"done", "refused"})

\* A run whose runner died is told so: once the dead run is left alone, the polls come to
\* show it interrupted, and go on showing it. (RunReading)
DeadIsTold == <>[](part = "polls" /\ Polled!DeadRun) => <>[](part = "polls" => item.interrupted)

\* No launch keeps an item busy for ever: with the runners ending and the server restarted, a
\* busy item becomes free. (Launching)
EventuallyFree ==
    (part = "verbs" /\ Started!LatestAlive)
        ~> (part = "verbs" => ~Started!LatestAlive)

\* No record stays open once its process is gone and a server looked. (Launching)
RecordsClose ==
    \A l \in {1, 2} :
        (part = "verbs" /\ rec[l].open /\ l \in watched)
        ~> (part = "verbs" => ~rec[l].open \/ ~up.now)

\* What runs comes to its end, inside a run: attempts, transports, repairs, nodes, processes
\* and the execution itself.
RunsEnd ==
    /\ RunUnitsEnd /\ TransportEnds /\ Settles
    /\ SignalEnds /\ ExitSettles /\ NodeSettles
    /\ EveryAttemptAnswers /\ EveryExecutionEnds

\* What is asked for is answered, around the runs: scans, starts, the lines of the history,
\* terminals, launches and what the dashboard shows of the dead.
PeopleAreAnswered ==
    /\ ScanEnds /\ Finishes /\ EveryWriterEnds
    /\ LeavingDetaches /\ EndIsTold /\ Answered
    /\ DeadIsTold /\ EventuallyFree /\ RecordsClose
=============================================================================
