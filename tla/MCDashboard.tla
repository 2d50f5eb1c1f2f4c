---------------------------- MODULE MCDashboard ----------------------------
(***************************************************************************)
(* Instances of what the dashboard reads and does, for TLC: terminals,     *)
(* verbs launched as processes, readers of snapshots and journals, cards,  *)
(* statistics, the file explorer, the delivery report, the timelines and   *)
(* logs.                                                                   *)
(*                                                                         *)
(* Each of them reads the disk at an instant of its own and keeps no state *)
(* of another. So one run of TLC explores them side by side: a behaviour   *)
(* chooses a part and is a behaviour of its component, with the variables  *)
(* of the other components off.                                            *)
(***************************************************************************)
EXTENDS Integers, Sequences, FiniteSets, TLC

CONSTANTS
    Parts,       \* the parts a run explores
    Blank        \* no item and no request

VARIABLES
    part,   \* which part a behaviour explores: it never changes
    \* The variables of the components; two parts share one of a common name,
    \* and it is off in the others.
    answer, applied, archive, artifact, authored, busy, changes, cleaner, closed,
    closes, closure, current, deaths, decision, disk, ended, ends, events, exits,
    failures, feed, file, got, item, items, journal, journaled, key, latest, lock,
    logs, missing, now, op, opens, pane, proc, quiet, reader, rec, refused, req,
    run, runner, sess, shown, size, snap, spawned, spent, stream, tears, tree,
    truths, up, watched, writer, writes, written, wrote

vars ==
    <<part, answer, applied, archive, artifact, authored, busy, changes, cleaner,
      closed, closes, closure, current, deaths, decision, disk, ended, ends, events,
      exits, failures, feed, file, got, item, items, journal, journaled, key,
      latest, lock, logs, missing, now, op, opens, pane, proc, quiet, reader, rec,
      refused, req, run, runner, sess, shown, size, snap, spawned, spent, stream,
      tears, tree, truths, up, watched, writer, writes, written, wrote>>

-----------------------------------------------------------------------------
\* Terminals: an item is a project and a ticket, each a sequence of words joined by
\* dashes.
OneItem == {[project |-> <<"food">>, ticket |-> <<"FOOD", "1">>]}
Suffix(kind) == CASE kind = "run" -> <<>> [] kind = "coder" -> <<"__coder">> [] OTHER -> <<"__verify-1">>
SessionOf(i, kind) == i.project \o i.ticket \o Suffix(kind)

\* RunReading: a run of two steps, the second of which composes a run of one.
PlansOf == "root" :> <<"write", "compose">> @@ "kid" :> <<"test">>

\* TicketStats: two runs of a ticket and a child of the first.
FactOf(ticket, folder, pipeline, parent) ==
    [ticket |-> ticket, folder |-> folder, pipeline |-> pipeline, parent |-> parent]
CountedRuns == {"first", "child", "second"}
CountedFacts ==
    [r \in CountedRuns |->
        CASE r = "first"  -> FactOf("T", "T-old", "fix", "none")
          [] r = "child"  -> FactOf("T", "T-old", "check", "first")
          [] r = "second" -> FactOf("T", "T", "build", "none")]
KindsOf == [p \in {"fix", "check", "build"} |-> IF p = "fix" THEN "bug" ELSE "other"]

\* WorkItemFiles: what a work item may hold, and what a run may have ended on.
Node(path, kind) == [path |-> path, kind |-> kind, target |-> <<>>]
LinkTo(path, target) == [path |-> path, kind |-> "link", target |-> target]
ItemRun == <<"item", "runs", "r1">>
Elsewhere == <<"else", "r1">>
ItemNodes ==
    {Node(<<"item", "artifacts">>, "dir"), Node(<<"item", "artifacts", "plan.md">>, "file"), Node(<<"item", "runs">>, "dir"), Node(ItemRun, "dir"),
     Node(ItemRun \o <<"state.json">>, "file"), LinkTo(<<"item", "runs", "latest">>, ItemRun),
     LinkTo(<<"item", "out">>, <<"home", "shot.png">>), Node(<<"home", "shot.png">>, "file"),
     Node(<<"else", "r1">>, "dir"), Node(Elsewhere \o <<"state.json">>, "file")}
FewNodes ==
    {Node(<<"item", "artifacts">>, "dir"), Node(<<"item", "artifacts", "plan.md">>, "file"),
     Node(<<"item", "artifacts", "design.md">>, "file"), Node(<<"item", "artifacts", "plan.json">>, "file"),
     Node(<<"item", "decisions">>, "dir"), Node(<<"item", "decisions", "plan.json">>, "file"),
     Node(<<"item", "runs">>, "dir"), Node(ItemRun, "dir"), Node(<<"item", "notes">>, "dir"),
     Node(<<"item", "artifacts", ".provenance">>, "file")}
NamesInOrder ==
    <<"artifacts", "decisions", "design.md", "else", "item", "latest", "notes", "out", "plan.json", "plan.md",
      "r1", "runs", "shot.png", "state.json">>
StopOn(recorded, decided, subject) == [recorded |-> recorded, decision |-> decided, subject |-> subject]
PlanFile == <<"artifacts", "plan.md">>
DesignFile == <<"artifacts", "design.md">>
OneStop == {StopOn(PlanFile, <<>>, "plan")}
ManyStops ==
    {StopOn(PlanFile, <<>>, ""), StopOn(<<>>, <<>>, "plan"), StopOn(<<>>, DesignFile, "plan"), StopOn(<<>>, <<>>, "")}

\* DeliveryReport: documents with the faults a report may have.
Good == [object |-> TRUE, bad |-> {}, unknown |-> 0, inner |-> <<>>]
NotAnObject == [Good EXCEPT !.object = FALSE]
Bad(fields) == [Good EXCEPT !.bad = fields]
ListOf(entries) == [present |-> TRUE, list |-> TRUE, entries |-> entries]
Missing == [present |-> FALSE, list |-> FALSE, entries |-> <<>>]
NotAList == [Missing EXCEPT !.present = TRUE]
Sections == {"criteria", "captures", "forReview", "links", "delivered", "followUps", "notes"}
Plain == [name \in Sections |-> IF name = "criteria" THEN ListOf(<<Good, Good>>) ELSE Missing]
Criteria ==
    {Good, NotAnObject, Bad({"met"}), Bad({"text", "met"}), Bad({"proof", "id"}),
     [Good EXCEPT !.unknown = 2], [Bad({"met"}) EXCEPT !.unknown = 1]}
Captured == {<<Good>>, <<Bad({"name"}), NotAnObject>>, <<Good, Bad({"acs"})>>}
CaptureGroups ==
    {[entry EXCEPT !.inner = within] : entry \in {Good, Bad({"dir"}), Bad({"files"}), NotAnObject}, within \in Captured}
Reviews ==
    {[entry EXCEPT !.inner = within] : entry \in {Good, Bad({"title", "items"}), Bad({"items"}), NotAnObject},
                                       within \in {<<Good>>, <<Bad({"text"}), NotAnObject>>}}
ManyDocuments ==
    {[Plain EXCEPT !["criteria"] = ListOf(<<a, b>>)] : a \in Criteria, b \in Criteria}
    \cup {[Plain EXCEPT !["captures"] = ListOf(<<a, b>>)] : a \in CaptureGroups, b \in {Good, NotAnObject}}
    \cup {[Plain EXCEPT !["forReview"] = ListOf(<<a>>)] : a \in Reviews}
    \cup {[Plain EXCEPT ![name] = value] : name \in {"links", "delivered", "followUps", "notes"},
                                           value \in {Missing, NotAList, ListOf(<<Good, NotAnObject>>)}}
    \cup {[Plain EXCEPT !["links"] = ListOf(<<a, b>>), !["criteria"] = ListOf(<<c, Good>>)] :
            a, b \in {Good, Bad({"url"})}, c \in {Good, Bad({"met"})}}
FewDocuments == {Plain, [Plain EXCEPT !["criteria"] = ListOf(<<Good, Bad({"met"})>>)]}

\* RunTimeline: a step of the main model and a gate.
PlanOfTwo == <<"code", "check">>
ModelOfStep == "code" :> "large" @@ "check" :> "none"
CostOfStep == "code" :> 1 @@ "check" :> 0

\* InboxTimeline: hours on both sides of the start of a night, in days around a week.
Hours == {24 * day + hour : day \in {3, 4, 11}, hour \in {9, 17, 18}}

\* Two requests on one item, a shell that exits, a tmux command that fails; no viewer.
Opening == INSTANCE Terminals WITH
    Ops <- {"o1", "o2"}, Items <- OneItem, NoItem <- Blank, NameOf <- SessionOf,
    Panes <- {}, Keys <- 0, MaxFailures <- 1, MaxExits <- 1, EarlyExit <- FALSE,
    EarlyClose <- FALSE, Detaching <- FALSE, MaxOpens <- 0

\* Two browser panes on the terminal one request opens; one key in each.
Viewers == INSTANCE Terminals WITH
    Ops <- {"o1"}, Items <- OneItem, NoItem <- Blank, NameOf <- SessionOf,
    Panes <- {"left", "right"}, Keys <- 1, MaxFailures <- 0, MaxExits <- 1,
    EarlyExit <- FALSE, EarlyClose <- FALSE, Detaching <- FALSE, MaxOpens <- 2

\* One pane that types twice.
Keyboard == INSTANCE Terminals WITH
    Ops <- {"o1"}, Items <- OneItem, NoItem <- Blank, NameOf <- SessionOf,
    Panes <- {"left"}, Keys <- 2, MaxFailures <- 0, MaxExits <- 1,
    EarlyExit <- FALSE, EarlyClose <- FALSE, Detaching <- FALSE, MaxOpens <- 2

\* One reader, every verb, every ending, a server that restarts and drops old records.
OneBrowser == INSTANCE Launching WITH
    People <- {"ann"},
    Verbs <- {"approve-and-rerun", "approve", "reject-and-rerun", "rerun", "replay-interrupted", "budget", "fresh", "close", "reopen"},
    Pids <- {"p1", "p2"}, MaxLaunches <- 2, MaxRuns <- 2, MaxEnds <- 2,
    Endings <- {"gate", "blocked", "cut", "fail", "budget", "pass"}, MaxStarts <- 1,
    Expire <- TRUE, Strangers <- TRUE

\* Two readers decide on one gate.
TwoBrowsers == INSTANCE Launching WITH
    People <- {"ann", "bob"}, Verbs <- {"approve-and-rerun", "reject-and-rerun"},
    Pids <- {"p1", "p2"}, MaxLaunches <- 2, MaxRuns <- 1, MaxEnds <- 2,
    Endings <- {"gate", "fail"}, MaxStarts <- 0, Expire <- FALSE, Strangers <- TRUE

\* A runner starts, stops and dies under one reader, which may close the run.
OneReader == INSTANCE RunReading WITH
    ROOT <- "root", KID <- "kid", PlanOf <- PlansOf, COMPOSE <- "compose",
    Pollers <- {}, Others <- {"other"}, Launches <- {FALSE}, MaxStarts <- 1,
    MaxCloses <- 1

\* The dashboard's polls over a runner process.
Polls == INSTANCE RunReading WITH
    ROOT <- "root", KID <- "kid", PlanOf <- PlansOf, COMPOSE <- "compose",
    Pollers <- {"poll"}, Others <- {}, Launches <- {TRUE}, MaxStarts <- 1,
    MaxCloses <- 0

\* Two runs of a ticket and a child: counted once, whatever moves.
Counts == INSTANCE TicketStats WITH
    Runs <- CountedRuns, FactsOf <- CountedFacts, PipelineKinds <- KindsOf,
    Deliveries <- {}, ShipRule <- FALSE, Answers <- {}, Ships <- {},
    Endings <- {"PASS", "FAIL"}, MaxEvents <- 4

\* Handovers and kinds over the same runs.
Shipped == INSTANCE TicketStats WITH
    Runs <- CountedRuns, FactsOf <- CountedFacts, PipelineKinds <- KindsOf,
    Deliveries <- {"build"}, ShipRule <- TRUE, Answers <- {"other"},
    Ships <- {"done", "skipped"}, Endings <- {"PASS", "FAIL"}, MaxEvents <- 3

\* Listing and opening, with a run inside or outside the work item, while one thing changes on
\* disk.
Listed == INSTANCE WorkItemFiles WITH
    Nodes <- ItemNodes, NameOrder <- NamesInOrder, DotNames <- {".provenance"},
    Images <- {"shot.png"}, MaxEntries <- 30, MaxDepth <- 4, MaxChanges <- 1,
    RunPlaces <- {ItemRun, Elsewhere}, Stops <- OneStop

\* A listing of four entries at most, over every way to name the artifact.
GateFiles == INSTANCE WorkItemFiles WITH
    Nodes <- FewNodes, NameOrder <- NamesInOrder, DotNames <- {".provenance"},
    Images <- {"shot.png"}, MaxEntries <- 4, MaxDepth <- 4, MaxChanges <- 0,
    RunPlaces <- {ItemRun}, Stops <- ManyStops

\* Two runs, two reports, written, replaced and read in every order.
Report == INSTANCE DeliveryReport WITH
    Documents <- FewDocuments, MaxRun <- 2, MaxWrites <- 2, Cap <- 3

\* Every document, written once and read.
Faulty == INSTANCE DeliveryReport WITH
    Documents <- ManyDocuments, MaxRun <- 1, MaxWrites <- 1, Cap <- 3

\* Two attempts over three lives: the spans drawn.
Spans == INSTANCE RunTimeline WITH
    Plan <- PlanOfTwo, ModelOf <- ModelOfStep, CostOf <- CostOfStep,
    MainModel <- "large", NotableMs <- 2, TickSteps <- <<1, 2>>, MinWidth <- 1,
    StartMs <- 3, MaxNow <- 6, MaxAttempts <- 2, MaxLives <- 3

\* One attempt over three lives on a long clock: the scale and its axis.
Scale == INSTANCE RunTimeline WITH
    Plan <- PlanOfTwo, ModelOf <- ModelOfStep, CostOf <- CostOfStep,
    MainModel <- "large", NotableMs <- 2, TickSteps <- <<1, 2>>, MinWidth <- 1,
    StartMs <- 3, MaxNow <- 6, MaxAttempts <- 1, MaxLives <- 3

\* The clock goes forward in the fourth night.
Forward == INSTANCE InboxTimeline WITH
    Items <- {1, 2}, Instants <- Hours, Shift <- 1, ShiftAt <- 99, Skew <- 10

\* The clock goes back in the fourth night.
Back == INSTANCE InboxTimeline WITH
    Items <- {1, 2}, Instants <- Hours, Shift <- -1, ShiftAt <- 99, Skew <- 10

\* Two lives, a torn write, lines of the feed and of a later release.
Torn == INSTANCE RunJournal WITH
    MaxAttempts <- 1, MaxLives <- 2, MaxTears <- 1, MaxRefused <- 0, MaxFeed <- 1,
    Odd <- {TRUE, FALSE}, Streams <- FALSE

\* Three lives, no torn write, a backend that streams whole lines.
Pauses == INSTANCE RunJournal WITH
    MaxAttempts <- 1, MaxLives <- 3, MaxTears <- 0, MaxRefused <- 0, MaxFeed <- 1,
    Odd <- {FALSE}, Streams <- FALSE

\* Two lives, a torn write, a refused append: the numbers attempts are given.
Numbers == INSTANCE RunJournal WITH
    MaxAttempts <- 2, MaxLives <- 2, MaxTears <- 1, MaxRefused <- 1, MaxFeed <- 0,
    Odd <- {FALSE}, Streams <- FALSE

\* Two lives, a torn write, a backend whose records are cut anywhere.
TailRead == INSTANCE RunJournal WITH
    MaxAttempts <- 1, MaxLives <- 2, MaxTears <- 1, MaxRefused <- 0, MaxFeed <- 1,
    Odd <- {FALSE}, Streams <- TRUE

\* One run of two attempts, a death, and cleanings that overlap it.
Cleaning == INSTANCE RunLogs WITH
    Runs <- {"r1"}, Pipelines <- {"feature"}, Attempts <- {1, 2}, MaxTime <- 2,
    MaxLines <- 2, Age <- 1, Deaths <- 1, Keeps <- {TRUE, FALSE}

\* Three runs over two pipelines, composed and resumed in every order.
Trees == INSTANCE RunLogs WITH
    Runs <- {"r1", "r2", "r3"}, Pipelines <- {"feature", "quality"},
    Attempts <- {1}, MaxTime <- 1, MaxLines <- 1, Age <- 2, Deaths <- 1, Keeps <- {}

\* The constants of every part satisfy what its component asks of them.
ASSUME PartsAssumption ==
    /\ OneReader!PlanAssumption /\ Polls!PlanAssumption
    /\ Listed!ExplorerAssumption /\ GateFiles!ExplorerAssumption
    /\ Report!ReportAssumption /\ Faulty!ReportAssumption
    /\ Spans!TimelineAssumption /\ Scale!TimelineAssumption
    /\ Forward!InboxAssumption /\ Back!InboxAssumption
    /\ Torn!JournalAssumption /\ Pauses!JournalAssumption
    /\ Numbers!JournalAssumption /\ TailRead!JournalAssumption
    /\ Cleaning!LogsAssumption /\ Trees!LogsAssumption

-----------------------------------------------------------------------------
\* What a part leaves aside is off, and stays so.
Off == "off"
Aside(own) ==
    /\ IF "answer" \in own THEN TRUE ELSE answer = Off
    /\ IF "applied" \in own THEN TRUE ELSE applied = Off
    /\ IF "archive" \in own THEN TRUE ELSE archive = Off
    /\ IF "artifact" \in own THEN TRUE ELSE artifact = Off
    /\ IF "authored" \in own THEN TRUE ELSE authored = Off
    /\ IF "busy" \in own THEN TRUE ELSE busy = Off
    /\ IF "changes" \in own THEN TRUE ELSE changes = Off
    /\ IF "cleaner" \in own THEN TRUE ELSE cleaner = Off
    /\ IF "closed" \in own THEN TRUE ELSE closed = Off
    /\ IF "closes" \in own THEN TRUE ELSE closes = Off
    /\ IF "closure" \in own THEN TRUE ELSE closure = Off
    /\ IF "current" \in own THEN TRUE ELSE current = Off
    /\ IF "deaths" \in own THEN TRUE ELSE deaths = Off
    /\ IF "decision" \in own THEN TRUE ELSE decision = Off
    /\ IF "disk" \in own THEN TRUE ELSE disk = Off
    /\ IF "ended" \in own THEN TRUE ELSE ended = Off
    /\ IF "ends" \in own THEN TRUE ELSE ends = Off
    /\ IF "events" \in own THEN TRUE ELSE events = Off
    /\ IF "exits" \in own THEN TRUE ELSE exits = Off
    /\ IF "failures" \in own THEN TRUE ELSE failures = Off
    /\ IF "feed" \in own THEN TRUE ELSE feed = Off
    /\ IF "file" \in own THEN TRUE ELSE file = Off
    /\ IF "got" \in own THEN TRUE ELSE got = Off
    /\ IF "item" \in own THEN TRUE ELSE item = Off
    /\ IF "items" \in own THEN TRUE ELSE items = Off
    /\ IF "journal" \in own THEN TRUE ELSE journal = Off
    /\ IF "journaled" \in own THEN TRUE ELSE journaled = Off
    /\ IF "key" \in own THEN TRUE ELSE key = Off
    /\ IF "latest" \in own THEN TRUE ELSE latest = Off
    /\ IF "lock" \in own THEN TRUE ELSE lock = Off
    /\ IF "logs" \in own THEN TRUE ELSE logs = Off
    /\ IF "missing" \in own THEN TRUE ELSE missing = Off
    /\ IF "now" \in own THEN TRUE ELSE now = Off
    /\ IF "op" \in own THEN TRUE ELSE op = Off
    /\ IF "opens" \in own THEN TRUE ELSE opens = Off
    /\ IF "pane" \in own THEN TRUE ELSE pane = Off
    /\ IF "proc" \in own THEN TRUE ELSE proc = Off
    /\ IF "quiet" \in own THEN TRUE ELSE quiet = Off
    /\ IF "reader" \in own THEN TRUE ELSE reader = Off
    /\ IF "rec" \in own THEN TRUE ELSE rec = Off
    /\ IF "refused" \in own THEN TRUE ELSE refused = Off
    /\ IF "req" \in own THEN TRUE ELSE req = Off
    /\ IF "run" \in own THEN TRUE ELSE run = Off
    /\ IF "runner" \in own THEN TRUE ELSE runner = Off
    /\ IF "sess" \in own THEN TRUE ELSE sess = Off
    /\ IF "shown" \in own THEN TRUE ELSE shown = Off
    /\ IF "size" \in own THEN TRUE ELSE size = Off
    /\ IF "snap" \in own THEN TRUE ELSE snap = Off
    /\ IF "spawned" \in own THEN TRUE ELSE spawned = Off
    /\ IF "spent" \in own THEN TRUE ELSE spent = Off
    /\ IF "stream" \in own THEN TRUE ELSE stream = Off
    /\ IF "tears" \in own THEN TRUE ELSE tears = Off
    /\ IF "tree" \in own THEN TRUE ELSE tree = Off
    /\ IF "truths" \in own THEN TRUE ELSE truths = Off
    /\ IF "up" \in own THEN TRUE ELSE up = Off
    /\ IF "watched" \in own THEN TRUE ELSE watched = Off
    /\ IF "writer" \in own THEN TRUE ELSE writer = Off
    /\ IF "writes" \in own THEN TRUE ELSE writes = Off
    /\ IF "written" \in own THEN TRUE ELSE written = Off
    /\ IF "wrote" \in own THEN TRUE ELSE wrote = Off
Still(own) ==
    /\ UNCHANGED part
    /\ IF "answer" \in own THEN TRUE ELSE UNCHANGED answer
    /\ IF "applied" \in own THEN TRUE ELSE UNCHANGED applied
    /\ IF "archive" \in own THEN TRUE ELSE UNCHANGED archive
    /\ IF "artifact" \in own THEN TRUE ELSE UNCHANGED artifact
    /\ IF "authored" \in own THEN TRUE ELSE UNCHANGED authored
    /\ IF "busy" \in own THEN TRUE ELSE UNCHANGED busy
    /\ IF "changes" \in own THEN TRUE ELSE UNCHANGED changes
    /\ IF "cleaner" \in own THEN TRUE ELSE UNCHANGED cleaner
    /\ IF "closed" \in own THEN TRUE ELSE UNCHANGED closed
    /\ IF "closes" \in own THEN TRUE ELSE UNCHANGED closes
    /\ IF "closure" \in own THEN TRUE ELSE UNCHANGED closure
    /\ IF "current" \in own THEN TRUE ELSE UNCHANGED current
    /\ IF "deaths" \in own THEN TRUE ELSE UNCHANGED deaths
    /\ IF "decision" \in own THEN TRUE ELSE UNCHANGED decision
    /\ IF "disk" \in own THEN TRUE ELSE UNCHANGED disk
    /\ IF "ended" \in own THEN TRUE ELSE UNCHANGED ended
    /\ IF "ends" \in own THEN TRUE ELSE UNCHANGED ends
    /\ IF "events" \in own THEN TRUE ELSE UNCHANGED events
    /\ IF "exits" \in own THEN TRUE ELSE UNCHANGED exits
    /\ IF "failures" \in own THEN TRUE ELSE UNCHANGED failures
    /\ IF "feed" \in own THEN TRUE ELSE UNCHANGED feed
    /\ IF "file" \in own THEN TRUE ELSE UNCHANGED file
    /\ IF "got" \in own THEN TRUE ELSE UNCHANGED got
    /\ IF "item" \in own THEN TRUE ELSE UNCHANGED item
    /\ IF "items" \in own THEN TRUE ELSE UNCHANGED items
    /\ IF "journal" \in own THEN TRUE ELSE UNCHANGED journal
    /\ IF "journaled" \in own THEN TRUE ELSE UNCHANGED journaled
    /\ IF "key" \in own THEN TRUE ELSE UNCHANGED key
    /\ IF "latest" \in own THEN TRUE ELSE UNCHANGED latest
    /\ IF "lock" \in own THEN TRUE ELSE UNCHANGED lock
    /\ IF "logs" \in own THEN TRUE ELSE UNCHANGED logs
    /\ IF "missing" \in own THEN TRUE ELSE UNCHANGED missing
    /\ IF "now" \in own THEN TRUE ELSE UNCHANGED now
    /\ IF "op" \in own THEN TRUE ELSE UNCHANGED op
    /\ IF "opens" \in own THEN TRUE ELSE UNCHANGED opens
    /\ IF "pane" \in own THEN TRUE ELSE UNCHANGED pane
    /\ IF "proc" \in own THEN TRUE ELSE UNCHANGED proc
    /\ IF "quiet" \in own THEN TRUE ELSE UNCHANGED quiet
    /\ IF "reader" \in own THEN TRUE ELSE UNCHANGED reader
    /\ IF "rec" \in own THEN TRUE ELSE UNCHANGED rec
    /\ IF "refused" \in own THEN TRUE ELSE UNCHANGED refused
    /\ IF "req" \in own THEN TRUE ELSE UNCHANGED req
    /\ IF "run" \in own THEN TRUE ELSE UNCHANGED run
    /\ IF "runner" \in own THEN TRUE ELSE UNCHANGED runner
    /\ IF "sess" \in own THEN TRUE ELSE UNCHANGED sess
    /\ IF "shown" \in own THEN TRUE ELSE UNCHANGED shown
    /\ IF "size" \in own THEN TRUE ELSE UNCHANGED size
    /\ IF "snap" \in own THEN TRUE ELSE UNCHANGED snap
    /\ IF "spawned" \in own THEN TRUE ELSE UNCHANGED spawned
    /\ IF "spent" \in own THEN TRUE ELSE UNCHANGED spent
    /\ IF "stream" \in own THEN TRUE ELSE UNCHANGED stream
    /\ IF "tears" \in own THEN TRUE ELSE UNCHANGED tears
    /\ IF "tree" \in own THEN TRUE ELSE UNCHANGED tree
    /\ IF "truths" \in own THEN TRUE ELSE UNCHANGED truths
    /\ IF "up" \in own THEN TRUE ELSE UNCHANGED up
    /\ IF "watched" \in own THEN TRUE ELSE UNCHANGED watched
    /\ IF "writer" \in own THEN TRUE ELSE UNCHANGED writer
    /\ IF "writes" \in own THEN TRUE ELSE UNCHANGED writes
    /\ IF "written" \in own THEN TRUE ELSE UNCHANGED written
    /\ IF "wrote" \in own THEN TRUE ELSE UNCHANGED wrote

TerminalsOwns ==
    {"sess", "op", "busy", "pane", "key", "opens", "failures", "exits", "wrote"}
LaunchingOwns ==
    {"run", "closed", "decision", "authored", "journaled", "proc", "rec", "watched",
     "up", "req", "ends", "applied"}
RunReadingOwns ==
    {"snap", "journal", "lock", "proc", "closure", "reader", "item", "truths",
     "quiet", "closes"}
TicketStatsOwns ==
    {"disk", "archive", "artifact", "got", "shown", "now", "spent", "missing"}
WorkItemFilesOwns ==
    {"disk", "size", "run", "tree", "answer", "changes"}
DeliveryReportOwns ==
    {"current", "file", "writes", "reader", "shown"}
RunTimelineOwns ==
    {"events", "now", "runner", "ended", "up"}
InboxTimelineOwns ==
    {"items", "now"}
RunJournalOwns ==
    {"file", "written", "writer", "stream", "spawned", "tears", "refused", "feed"}
RunLogsOwns ==
    {"now", "run", "latest", "logs", "cleaner", "deaths"}

Init ==
    /\ part \in Parts
    /\ \/ part = "open"      /\ Opening!Init /\ Aside(TerminalsOwns)
       \/ part = "viewers"   /\ Viewers!Init /\ Aside(TerminalsOwns)
       \/ part = "keys"      /\ Keyboard!Init /\ Aside(TerminalsOwns)
       \/ part = "verbs"     /\ OneBrowser!Init /\ Aside(LaunchingOwns)
       \/ part = "two"       /\ TwoBrowsers!Init /\ Aside(LaunchingOwns)
       \/ part = "reads"     /\ OneReader!Init /\ Aside(RunReadingOwns)
       \/ part = "polls"     /\ Polls!Init /\ Aside(RunReadingOwns)
       \/ part = "counts"    /\ Counts!Init /\ Aside(TicketStatsOwns)
       \/ part = "shipped"   /\ Shipped!Init /\ Aside(TicketStatsOwns)
       \/ part = "listed"    /\ Listed!Init /\ Aside(WorkItemFilesOwns)
       \/ part = "gates"     /\ GateFiles!Init /\ Aside(WorkItemFilesOwns)
       \/ part = "report"    /\ Report!Init /\ Aside(DeliveryReportOwns)
       \/ part = "documents" /\ Faulty!Init /\ Aside(DeliveryReportOwns)
       \/ part = "spans"     /\ Spans!Init /\ Aside(RunTimelineOwns)
       \/ part = "scale"     /\ Scale!Init /\ Aside(RunTimelineOwns)
       \/ part = "forward"   /\ Forward!Init /\ Aside(InboxTimelineOwns)
       \/ part = "back"      /\ Back!Init /\ Aside(InboxTimelineOwns)
       \/ part = "torn"      /\ Torn!Init /\ Aside(RunJournalOwns)
       \/ part = "pauses"    /\ Pauses!Init /\ Aside(RunJournalOwns)
       \/ part = "numbers"   /\ Numbers!Init /\ Aside(RunJournalOwns)
       \/ part = "tail"      /\ TailRead!Init /\ Aside(RunJournalOwns)
       \/ part = "cleaning"  /\ Cleaning!Init /\ Aside(RunLogsOwns)
       \/ part = "trees"     /\ Trees!Init /\ Aside(RunLogsOwns)
Next ==
    \/ part = "open"      /\ Opening!Next /\ Still(TerminalsOwns)
    \/ part = "viewers"   /\ Viewers!Next /\ Still(TerminalsOwns)
    \/ part = "keys"      /\ Keyboard!Next /\ Still(TerminalsOwns)
    \/ part = "verbs"     /\ OneBrowser!Next /\ Still(LaunchingOwns)
    \/ part = "two"       /\ TwoBrowsers!Next /\ Still(LaunchingOwns)
    \/ part = "reads"     /\ OneReader!Next /\ Still(RunReadingOwns)
    \/ part = "polls"     /\ Polls!Next /\ Still(RunReadingOwns)
    \/ part = "counts"    /\ Counts!Next /\ Still(TicketStatsOwns)
    \/ part = "shipped"   /\ Shipped!Next /\ Still(TicketStatsOwns)
    \/ part = "listed"    /\ Listed!Next /\ Still(WorkItemFilesOwns)
    \/ part = "gates"     /\ GateFiles!Next /\ Still(WorkItemFilesOwns)
    \/ part = "report"    /\ Report!Next /\ Still(DeliveryReportOwns)
    \/ part = "documents" /\ Faulty!Next /\ Still(DeliveryReportOwns)
    \/ part = "spans"     /\ Spans!Next /\ Still(RunTimelineOwns)
    \/ part = "scale"     /\ Scale!Next /\ Still(RunTimelineOwns)
    \/ part = "forward"   /\ Forward!Next /\ Still(InboxTimelineOwns)
    \/ part = "back"      /\ Back!Next /\ Still(InboxTimelineOwns)
    \/ part = "torn"      /\ Torn!Next /\ Still(RunJournalOwns)
    \/ part = "pauses"    /\ Pauses!Next /\ Still(RunJournalOwns)
    \/ part = "numbers"   /\ Numbers!Next /\ Still(RunJournalOwns)
    \/ part = "tail"      /\ TailRead!Next /\ Still(RunJournalOwns)
    \/ part = "cleaning"  /\ Cleaning!Next /\ Still(RunLogsOwns)
    \/ part = "trees"     /\ Trees!Next /\ Still(RunLogsOwns)
Spec == Init /\ [][Next]_vars

-----------------------------------------------------------------------------
\* The variables of the part explored have the types of its component.
TypeOK ==
    /\ part = "open"      => Opening!TypeOK
    /\ part = "viewers"   => Viewers!TypeOK
    /\ part = "keys"      => Keyboard!TypeOK
    /\ part = "verbs"     => OneBrowser!TypeOK
    /\ part = "two"       => TwoBrowsers!TypeOK
    /\ part = "reads"     => OneReader!TypeOK
    /\ part = "polls"     => Polls!TypeOK
    /\ part = "counts"    => Counts!TypeOK
    /\ part = "shipped"   => Shipped!TypeOK
    /\ part = "listed"    => Listed!TypeOK
    /\ part = "gates"     => GateFiles!TypeOK
    /\ part = "report"    => Report!TypeOK
    /\ part = "documents" => Faulty!TypeOK
    /\ part = "spans"     => Spans!TypeOK
    /\ part = "scale"     => Scale!TypeOK
    /\ part = "forward"   => Forward!TypeOK
    /\ part = "back"      => Back!TypeOK
    /\ part = "torn"      => Torn!TypeOK
    /\ part = "pauses"    => Pauses!TypeOK
    /\ part = "numbers"   => Numbers!TypeOK
    /\ part = "tail"      => TailRead!TypeOK
    /\ part = "cleaning"  => Cleaning!TypeOK
    /\ part = "trees"     => Trees!TypeOK

\* Only the request that created a session types into it, and nothing answers "done" for a
\* session another one made. (Terminals)
OneCommand == part = "open" => Opening!OneCommand

\* A request that was refused leaves nothing of its own behind for a later one to trip on.
\* (Terminals)
NoHalfSession == part = "open" => Opening!NoHalfSession

\* The keys of a viewer reach its terminal in the order they were typed, none twice, however
\* the posts race. (Terminals)
InputInOrder ==
    /\ part = "viewers" => Viewers!InputInOrder
    /\ part = "keys" => Keyboard!InputInOrder

\* A pane tells "ended" only of a client that is gone, and keeps no viewer. (Terminals)
EndedHasNoClient ==
    /\ part = "viewers" => Viewers!EndedHasNoClient
    /\ part = "keys" => Keyboard!EndedHasNoClient

\* Every verb the sheet draws on a quiet item is one `buildArgv` admits: no button answers with
\* a refusal while nothing moved. (Launching)
OffersAdmitted == part = "verbs" => OneBrowser!OffersAdmitted

\* A run that waits on somebody, closed by nobody, is always offered a verb that goes on with
\* it: never only the one that starts over or gives up. (Launching)
AWayOn == part = "verbs" => OneBrowser!AWayOn

\* An item is busy only while its run is held or a process launched here lives, or while the
\* process id of a launch nobody closed is another program's: a button is not disabled by what
\* ended, over endings no server heard, restarts and ids that come back. (Launching)
BusyIsReal == part = "verbs" => OneBrowser!BusyIsReal

\* One decision is journaled at most once, however many people take it. (Launching)
JournaledOnce == part = "two" => TwoBrowsers!JournaledOnce

\* run-read.ts: the snapshot is at most one event behind its journal, and a verdict is written
\* after every event of its pass -- which is why a reader may leave the journal of a live or
\* judged run unread. (RunReading)
SnapshotOneBehind == part = "reads" => OneReader!SnapshotOneBehind

\* effectiveStatus: a run told RUNNING was held by a live process at some moment of the read,
\* so a dead runner's `RUNNING` is never shown for longer. (RunReading)
RunningWasHeld == part = "reads" => OneReader!RunningWasHeld

\* isRunHeld: a run a live process held without a break during the whole read, on its own lock
\* or through the run that composed it, is never told interrupted. (RunReading)
HeldIsNeverDead == part = "reads" => OneReader!HeldIsNeverDead

\* closure.ts: a closure hides the snapshot it was taken on and no later one: once the run
\* moves, no later read of it is hidden by the closure taken before. (RunReading)
MovedIsShown == part = "reads" => OneReader!MovedIsShown

\* run-read.ts: "a step the journal knows finished reads finished everywhere". Read after the
\* runner's death, a run shows each step as its journal ends it. (RunReading)
FinishedReadsFinished == part = "reads" => OneReader!FinishedReadsFinished

\* items.ts: with no process about, the replay is offered exactly when a resume would refuse
\* the next attempt of some step without that authorization. (RunReading)
OfferMatchesAdmission == part = "polls" => Polls!OfferMatchesAdmission

\* app/lib/stats.ts: two periods that follow each other hold each ticket once, so "the periods
\* add up". (TicketStats)
PeriodsAddUp == part = "counts" => Counts!PeriodsAddUp

\* readStats: a root run known when the read began is in exactly one ticket, once, even when it
\* is exported and its folder removed in the middle of the read. (TicketStats)
EachRootOnce == part = "counts" => Counts!EachRootOnce

\* With nothing spent during the read and every word exported before its removal, the tickets
\* add up to what was spent, the children's spend counted once. (TicketStats)
ShownIsSpent == part = "counts" => Counts!ShownIsSpent

\* A spend nobody could price is told of its ticket, and of the card it is in. (TicketStats)
BoundIsTold == part = "counts" => Counts!BoundIsTold

\* totalsOf: the three cards hold every ticket once and all of its cost. (TicketStats)
CardsAddUp == part = "shipped" => Shipped!CardsAddUp

\* outcomeOf: a ticket that passed by its handover stays passed whatever its later runs do, as
\* long as none of its runs was lost. (TicketStats)
PassStays == part = "shipped" => Shipped!PassStays

\* ticketKind: a classified ticket does not go back to `other` when another pipeline runs on it
\* or its folder is exported and removed. (TicketStats)
KindStays == part = "shipped" => Shipped!KindStays

\* The path the tree gives comes back to the very file it listed, in either root: opening it
\* later reads that file or reports it gone, and is never answered with another file nor
\* refused (unless an image is asked of it). (WorkItemFiles)
OpenedIsListed == part = "listed" => Listed!OpenedIsListed

\* Whatever path a page was given, the file it reads is under the work item, or under the run
\* directory when that one sits outside. (WorkItemFiles)
ReadsStayInside == part = "listed" => Listed!ReadsStayInside

\* A failed run leads to its snapshot, where the reason of a technical failure is written,
\* wherever its directory is, as long as the listing was not cut short and the snapshot exists.
\* (WorkItemFiles)
FailureIsDiagnosable == part = "listed" => Listed!FailureIsDiagnosable

\* A tree that grew past its cap still shows the artifact a gate waits on: the artifacts are
\* listed before the reports and the runs. (WorkItemFiles)
GateSurvivesTruncation == part = "gates" => GateFiles!GateSurvivesTruncation

\* A report is shown for the run that was resolved when the reading began, never that of a run
\* before it, however files and runs change meanwhile. (DeliveryReport)
ShownIsOfTheRun == part = "report" => Report!ShownIsOfTheRun

\* The report of another run is no error: a sheet complains only of a file that is broken,
\* misplaced or too large. (DeliveryReport)
StaleIsSilent == part = "report" => Report!StaleIsSilent

\* A report shown with fewer entries than it was written with says so. (DeliveryReport)
NothingDropsSilently == part = "documents" => Faulty!NothingDropsSilently

\* Each entry that is dropped is complained of once: a warning never names a place inside an
\* entry another warning says is gone. (DeliveryReport)
OneComplaintPerEntry == part = "documents" => Faulty!OneComplaintPerEntry

\* The reason given is that of the first field at fault, in the order a person reads the entry.
\* (DeliveryReport)
ReasonIsTheFirst == part = "documents" => Faulty!ReasonIsTheFirst

\* The episodes tile the run: they follow each other from its start to its end, work and wait
\* in turn. (RunTimeline)
EpisodesTile == part = "spans" => Spans!EpisodesTile

\* Attempts of one run follow each other: no two of their bars overlap. (RunTimeline)
BarsApart == part = "spans" => Spans!BarsApart

\* A wait that ends a stop holds no instant of a runner, and a bar whose attempt passed none of
\* a wait. (RunTimeline)
WaitsHoldNoWork == part = "spans" => Spans!WaitsHoldNoWork

\* What a takeaway names is among the steps drawn on lanes of their own; only a replay too
\* short to note may be a dot. (RunTimeline)
MinorHidesNothing == part = "spans" => Spans!MinorHidesNothing

\* The scale keeps the order of time, from the left edge to the right one, compressed or not,
\* whatever pauses touch each other or the ends. (RunTimeline)
ScaleKeepsOrder == part = "scale" => Scale!ScaleKeepsOrder

\* Ends and starts of pauses have the axis before any tick: one without a label is too close to
\* another of them. (RunTimeline)
TicksGiveWay == part = "scale" => Scale!TicksGiveWay

\* A row is in the section of its own night, through a change of the clock and with a date in
\* the future; a date that does not parse is in none. (InboxTimeline)
NightsAreNights == part = "forward" => Forward!NightsAreNights

\* Read from the top, the sections of the finished go back in time, within each and from one to
\* the next. (InboxTimeline)
ReadsBackInTime == part = "forward" => Forward!ReadsBackInTime

\* The days a section of nights names hold the day of each of its rows that does not lie in the
\* future. (InboxTimeline)
RangeHoldsRows == part = "back" => Back!RangeHoldsRows

\* The summary is of the section that holds the latest finished run, and what it counts as
\* delivered nobody closed. (InboxTimeline)
SummaryIsOfTheLatest == part = "back" => Back!SummaryIsOfTheLatest

\* A death in the middle of a write costs at most one event that was written whole, the next
\* one; a payload of a later release costs none. (RunJournal)
TearLosesOne == part = "torn" => Torn!TearLosesOne

\* A pause begins after the one before it ended and has no end only while nothing follows it;
\* its reason is that of a stop of the work before it, and its decision the one of the
\* invocation that ended it. (RunJournal)
PausesTellTheirStop == part = "pauses" => Pauses!PausesTellTheirStop

\* No two attempts of a step that ran bear one number, so none writes in the log of another:
\* not after a torn line, a refused append, nor a death before the snapshot. (RunJournal)
NumbersNeverReused == part = "numbers" => Numbers!NumbersNeverReused

\* What a page of the end shows is the end of what the whole file shows, wherever the window
\* falls: the rest of a cut line is never an event. (RunJournal)
TailAgrees == part = "tail" => TailRead!TailAgrees

\* The log a diagnostic prints for a step being executed is the one being written, never that
\* of an earlier attempt, unless a cleaning removed it. (RunLogs)
LogsShowTheAttempt == part = "cleaning" => Cleaning!LogsShowTheAttempt

\* The cleaning that compresses a log takes it away only once the copy is whole: no order of
\* its steps, and no failure of one, loses lines it read. (RunLogs)
CopyStandsForTheLog == part = "cleaning" => Cleaning!CopyStandsForTheLog

\* With --keep-failed a cleaning leaves the logs of a run that awaited a person when it began,
\* one whose runner died without a verdict included. (RunLogs)
KeepFailedKeeps == part = "cleaning" => Cleaning!KeepFailedKeeps

\* The run a resume continues is the current one of its pipeline, whatever the dates of the
\* others say: an inspection shows it, in its own right or in the tree of its parent. (RunLogs)
CurrentRunIsShown == part = "trees" => Trees!CurrentRunIsShown

\* A run that composes children never hides one: what is shown is closed under composition.
\* (RunLogs)
ChildrenAreShown == part = "trees" => Trees!ChildrenAreShown

\* What people do in the dashboard reaches one session, once and in order, and a runner it
\* launches is told as what it is.
ClicksAreSafe ==
    /\ OneCommand /\ NoHalfSession /\ InputInOrder
    /\ EndedHasNoClient /\ OffersAdmitted /\ AWayOn
    /\ BusyIsReal /\ JournaledOnce

\* What is read of a run, a ticket or the inbox, while others write the files, is what
\* happened: nothing dead is held, nothing is counted twice, nothing is shown of another run;
\* the timelines place each attempt and each wait when it was.
ReadingsAreTrue ==
    /\ SnapshotOneBehind /\ RunningWasHeld /\ HeldIsNeverDead
    /\ MovedIsShown /\ PeriodsAddUp /\ CardsAddUp
    /\ OpenedIsListed /\ ReadsStayInside /\ FailureIsDiagnosable
    /\ GateSurvivesTruncation /\ ShownIsOfTheRun /\ StaleIsSilent
    /\ NothingDropsSilently /\ OneComplaintPerEntry /\ ReasonIsTheFirst
    /\ TearLosesOne /\ PausesTellTheirStop /\ NumbersNeverReused
    /\ TailAgrees /\ LogsShowTheAttempt /\ CurrentRunIsShown
    /\ ChildrenAreShown /\ EpisodesTile /\ BarsApart
    /\ WaitsHoldNoWork /\ MinorHidesNothing /\ ScaleKeepsOrder
    /\ TicksGiveWay /\ NightsAreNights /\ ReadsBackInTime
    /\ RangeHoldsRows /\ SummaryIsOfTheLatest

\* What a step of the dashboard, or of the program it reads, may never do.
DashboardSteps ==
    [][
      /\ FinishedReadsFinished /\ OfferMatchesAdmission /\ EachRootOnce
      /\ ShownIsSpent /\ BoundIsTold /\ PassStays
      /\ KindStays /\ CopyStandsForTheLog /\ KeepFailedKeeps]_vars
=============================================================================
