------------------------------ MODULE Dispatch ------------------------------
(***************************************************************************)
(* The dispatch of a ticket queue (--scan): discovery, the limit, one child *)
(* runner per ticket, the checkout between tickets, and the durable record. *)
(*   execution/dispatch/loop.ts                the loop                     *)
(*   execution/dispatch/scan.ts                the scan strategy            *)
(*   execution/dispatch/scan-record-writer.ts  the record, best effort      *)
(*   execution/dispatch/file-scan-store.ts     one file, rewritten in full  *)
(*                                                                         *)
(* A scan may die anywhere and another may follow it.  The record is the   *)
(* copy in memory; file is what the disk holds, and each write may fail.   *)
(* A child is known by what it leaves: an exit code and its ticket's latest *)
(* run, a record [id, status], which an earlier child may have left.       *)
(***************************************************************************)
EXTENDS Naturals, Sequences, FiniteSets, SequencesExt

CONSTANTS Tickets, CliLimits, SourceLimit, DiskFails,
          MaxScans, MaxRuns \* bounds: scans, runs the children create

VARIABLES
    at,       \* where the parent is: idle, discover, loop, child, hook, report
    opts,     \* [fresh, limit] of the scan
    queue,    \* tickets still to process
    record,   \* the record in memory
    file,     \* the record on disk, at most one
    latest,   \* by ticket, its latest run, at most one
    child,    \* of the ticket in flight: [exit, run], run the one the child wrote in this spawn
    scans, runs,
    stale,    \* history: a write of this scan failed since its last successful one
    spawned,  \* history: tickets this scan handed to a child
    died      \* history: the scan ended by a death
vars == <<at, opts, queue, record, file, latest, child, scans, runs, stale, spawned, died>>

Outcomes == {"fixed", "escalated", "until", "failed"}
Statuses == {"running", "pass", "escalated", "until", "fail"}
Runs == [id : 1..MaxRuns, status : Statuses]
NoScan == [discovered |-> {}, tickets |-> <<>>, finished |-> FALSE, abort |-> "none"]
NoChild == [exit |-> "none", run |-> {}]
\* A ticket's entry; ran says startedAt differs from finishedAt.
Entry(state, ran, outcome, run) == [state |-> state, ran |-> ran, outcome |-> outcome, run |-> run]
Pending == Entry("pending", FALSE, "none", {})
Deferred == Entry("deferred", FALSE, "none", {})
Running == Entry("running", TRUE, "none", {})
Known(r) == DOMAIN r.tickets
InState(r, s) == {t \in Known(r) : r.tickets[t].state = s}

TypeOK ==
    /\ at \in {"idle", "discover", "loop", "child", "hook", "report"}
    /\ \A t \in Known(record) :
          /\ record.tickets[t].state \in {"pending", "deferred", "running", "done"}
          /\ (record.tickets[t].state = "done") = (record.tickets[t].outcome \in Outcomes)
    /\ Cardinality(file) <= 1
    /\ \A t \in Tickets : Cardinality(latest[t]) <= 1 /\ latest[t] \subseteq Runs
    /\ child.exit \in {"none", "busy", "ok", "until", "error"}
    /\ at = "child" => queue # <<>> /\ record.tickets[Head(queue)].state = "running"
    /\ at = "hook" => queue # <<>> /\ record.tickets[Head(queue)].state = "done"

-----------------------------------------------------------------------------
(* The record. *)

\* publish: best effort, the whole record at once.
Publish(r) ==
    /\ record' = r
    /\ \E fails \in IF DiskFails THEN BOOLEAN ELSE {FALSE} :
          /\ file' = IF fails THEN file ELSE {r}
          /\ stale' = fails

\* resolveScanLimit: invalid candidates are ignored; 0 stands for no limit.
ResolveLimit(cli) == LET valid == SelectSeq(<<cli, SourceLimit>>, LAMBDA l : l >= 1)
                     IN IF valid = <<>> THEN 0 ELSE Head(valid)
\* Slip: the tickets beyond the limit are forgotten.
KeptOnly(all, selected) == [t \in selected |-> Pending]
\* discovered
Kept(all, selected) == [t \in all |-> IF t \in selected THEN Pending ELSE Deferred]
\* ticketFinished: an entry that never was running took no time of its own.
TicketFinished(r, t, outcome, run) ==
    [r EXCEPT !.tickets[t] = Entry("done", r.tickets[t].state = "running", outcome, run)]

-----------------------------------------------------------------------------
(* The runs of the tickets. *)

\* isPersistedRunComplete
Complete(t) == \E r \in latest[t] : r.status = "pass"
Resumable(r) == r.status \in {"running", "until", "fail"}
\* Slip: the exit code alone decides.
ClassifiedByCode(exit, run) == CASE exit = "until" -> "until" [] exit = "error" -> "failed" [] OTHER -> "fixed"
\* classifyPersistedRunOutcome
Classified(exit, run) ==
    IF exit = "until" THEN "until"
    ELSE IF exit = "error" THEN "failed"
    ELSE IF \E r \in run : r.status = "escalated" THEN "escalated"
    ELSE "fixed"
\* outcomeOf and latestRunFor: the run named is the ticket's latest.
RunNamed(t) == {r.id : r \in latest[t]}

-----------------------------------------------------------------------------
(* The scan. *)

Begin(fresh, cli) ==
    /\ at = "idle" /\ scans < MaxScans
    /\ scans' = scans + 1
    /\ opts' = [fresh |-> fresh, limit |-> ResolveLimit(cli)]
    /\ record' = NoScan
    /\ \E fails \in IF DiskFails THEN BOOLEAN ELSE {FALSE} :
          /\ file' = IF fails THEN {} ELSE {NoScan} \* a new scan, a new file
          /\ stale' = fails
    /\ at' = "discover" /\ spawned' = {} /\ died' = FALSE
    /\ UNCHANGED <<queue, latest, child, runs>>

\* Slip: an empty queue leaves the record open.
DiscoverOpen(all) ==
    LET selected == IF opts.limit = 0 THEN all ELSE SubSeq(all, 1, IF opts.limit < Len(all) THEN opts.limit ELSE Len(all)) IN
    /\ at = "discover"
    /\ queue' = selected
    /\ Publish([record EXCEPT !.discovered = {ToSet(all)}, !.tickets = Kept(ToSet(all), ToSet(selected))])
    /\ at' = IF selected = <<>> THEN "idle" ELSE "loop"
    /\ UNCHANGED <<opts, latest, child, scans, runs, spawned, died>>
\* The limit cuts the list after discovery; an empty queue is a complete scan.
Discover(all) ==
    LET selected == IF opts.limit = 0 THEN all ELSE SubSeq(all, 1, IF opts.limit < Len(all) THEN opts.limit ELSE Len(all)) IN
    /\ at = "discover"
    /\ queue' = selected
    /\ Publish([record EXCEPT !.discovered = {ToSet(all)}, !.tickets = Kept(ToSet(all), ToSet(selected)),
                              !.finished = (selected = <<>>)])
    /\ at' = IF selected = <<>> THEN "idle" ELSE "loop"
    /\ UNCHANGED <<opts, latest, child, scans, runs, spawned, died>>

DiscoveryFails ==
    /\ at = "discover"
    /\ Publish([record EXCEPT !.abort = "discovery"])
    /\ at' = "idle"
    /\ UNCHANGED <<opts, queue, latest, child, scans, runs, spawned, died>>

Skipped(t) == ~opts.fresh /\ Complete(t)

\* Slip: the ticket skipped is looked at again.
SkipAgain(t) ==
    /\ at = "loop" /\ queue # <<>> /\ Head(queue) = t /\ Skipped(t)
    /\ Publish(TicketFinished(record, t, Classified("ok", latest[t]), RunNamed(t)))
    /\ UNCHANGED <<at, opts, queue, latest, child, scans, runs, spawned, died>>
\* A complete run is skipped; no checkout follows it.
Skip(t) ==
    /\ at = "loop" /\ queue # <<>> /\ Head(queue) = t /\ Skipped(t)
    /\ Publish(TicketFinished(record, t, Classified("ok", latest[t]), RunNamed(t)))
    /\ queue' = Tail(queue)
    /\ UNCHANGED <<at, opts, latest, child, scans, runs, spawned, died>>

\* Slip: the record is written only once the child is back.
StartQuietly(t) ==
    /\ at = "loop" /\ queue # <<>> /\ Head(queue) = t /\ ~Skipped(t)
    /\ child' = [exit |-> "busy", run |-> {}]
    /\ at' = "child" /\ spawned' = spawned \cup {t}
    /\ UNCHANGED <<opts, queue, record, file, stale, latest, scans, runs, died>>
\* onTicketStarted, then the spawn.
Start(t) ==
    /\ at = "loop" /\ queue # <<>> /\ Head(queue) = t /\ ~Skipped(t)
    /\ Publish([record EXCEPT !.tickets[t] = Running])
    /\ child' = [exit |-> "busy", run |-> {}]
    /\ at' = "child" /\ spawned' = spawned \cup {t}
    /\ UNCHANGED <<opts, queue, latest, scans, runs, died>>

\* The child opens its run: the latest when it may go on, else a new one.
ChildOpens ==
    /\ at = "child" /\ child.exit = "busy" /\ child.run = {}
    /\ LET t == Head(queue)
           resumed == {r \in latest[t] : ~opts.fresh /\ Resumable(r)}
       IN IF resumed # {}
          THEN \E r \in resumed : /\ latest' = [latest EXCEPT ![t] = {[r EXCEPT !.status = "running"]}]
                                  /\ child' = [child EXCEPT !.run = {r.id}]
                                  /\ UNCHANGED runs
          ELSE /\ runs < MaxRuns /\ runs' = runs + 1
               /\ latest' = [latest EXCEPT ![t] = {[id |-> runs + 1, status |-> "running"]}]
               /\ child' = [child EXCEPT !.run = {runs + 1}]
    /\ UNCHANGED <<at, opts, queue, record, file, scans, stale, spawned, died>>

\* The child ends with its verdict, dies in its run, or fails before it has one.
ChildEnds(status) ==
    /\ at = "child" /\ child.exit = "busy"
    /\ IF child.run = {} THEN status = "running" /\ UNCHANGED latest
       ELSE latest' = [latest EXCEPT ![Head(queue)] = {[r EXCEPT !.status = status] : r \in latest[Head(queue)]}]
    /\ child' = [child EXCEPT !.exit = CASE status \in {"pass", "escalated"} -> "ok"
                                         [] status = "until" -> "until"
                                         [] OTHER -> "error"]
    /\ UNCHANGED <<at, opts, queue, record, file, scans, runs, stale, spawned, died>>

Finish ==
    /\ at = "child" /\ child.exit # "busy"
    /\ LET t == Head(queue)
       IN Publish(TicketFinished(record, t, Classified(child.exit, latest[t]), RunNamed(t)))
    /\ at' = "hook"
    /\ UNCHANGED <<opts, queue, latest, child, scans, runs, spawned, died>>

Checkout ==
    /\ at = "hook" /\ at' = "loop"
    /\ queue' = Tail(queue) /\ child' = NoChild
    /\ UNCHANGED <<opts, record, file, latest, scans, runs, stale, spawned, died>>
\* Slip: a refused checkout breaks the loop and says nothing.
HaltSilently ==
    /\ at = "hook" /\ at' = "report"
    /\ queue' = Tail(queue) /\ child' = NoChild
    /\ UNCHANGED <<opts, record, file, latest, scans, runs, stale, spawned, died>>
\* betweenTickets refuses: noteHaltDetail, onHalted, and the loop breaks.
Halt ==
    /\ at = "hook" /\ at' = "report"
    /\ Publish([record EXCEPT !.abort = "between-tickets"])
    /\ queue' = Tail(queue) /\ child' = NoChild
    /\ UNCHANGED <<opts, latest, scans, runs, spawned, died>>

Report ==
    /\ at = "report" \/ (at = "loop" /\ queue = <<>>)
    /\ Publish([record EXCEPT !.finished = TRUE])
    /\ at' = "idle" /\ queue' = <<>>
    /\ UNCHANGED <<opts, latest, child, scans, runs, spawned, died>>

\* The parent dies, its child with it.
Die ==
    /\ at # "idle" /\ at' = "idle" /\ died' = TRUE
    /\ queue' = <<>> /\ child' = NoChild
    /\ UNCHANGED <<opts, record, file, latest, scans, runs, stale, spawned>>

Init ==
    /\ at = "idle" /\ opts = [fresh |-> FALSE, limit |-> 0]
    /\ queue = <<>> /\ record = NoScan /\ file = {}
    /\ latest = [t \in Tickets |-> {}]
    /\ child = NoChild /\ scans = 0 /\ runs = 0
    /\ stale = FALSE /\ spawned = {} /\ died = FALSE

\* What a tracker may answer: tickets in an order, none twice.
Answers == UNION {SetToSeqs(S) : S \in SUBSET Tickets}
ScanStep ==
    \/ \E fresh \in BOOLEAN, cli \in CliLimits : Begin(fresh, cli)
    \/ \E all \in Answers : Discover(all)
    \/ DiscoveryFails
    \/ \E t \in Tickets : Skip(t) \/ Start(t)
    \/ Finish \/ Checkout \/ Halt \/ Report
ChildStep == ChildOpens \/ \E s \in Statuses : ChildEnds(s)
Next == ScanStep \/ ChildStep \/ Die
Spec == Init /\ [][Next]_vars
FairSpec == Spec /\ WF_vars(Discover(<<>>) \/ DiscoveryFails) /\ WF_vars(\E t \in Tickets : Skip(t) \/ Start(t))
                 /\ WF_vars(\E s \in Statuses : ChildEnds(s)) /\ WF_vars(Finish) /\ WF_vars(Checkout \/ Halt) /\ WF_vars(Report)

-----------------------------------------------------------------------------
(* Properties. *)

(* A record the disk took tells apart, at whatever moment the scan dies, the  *)
(* ticket in flight, the tickets no child ever got, and those a child came    *)
(* back from (scan-record.ts, "the four states are deliberately distinct").   *)
DeathReadable ==
    ~stale => \A f \in file :
        /\ InState(f, "running") \cup {t \in InState(f, "done") : f.tickets[t].ran} = spawned
        /\ InState(f, "running") # {} => (\E t \in spawned : InState(f, "running") = {t})
        /\ at = "child" => InState(f, "running") = {Head(queue)}

(* Every discovered ticket is accounted for, cut by the limit or not, and no  *)
(* ticket beyond the limit is ever handed to a child.                         *)
NothingForgotten ==
    \A f \in file : \A all \in f.discovered :
        /\ Known(f) = all
        /\ InState(f, "deferred") \cap spawned = {}
        /\ opts.limit > 0 => Cardinality(all \ InState(f, "deferred")) <= opts.limit
        /\ opts.limit = 0 => InState(f, "deferred") = {}

(* A record closed without an abort left no selected ticket behind, also when *)
(* earlier writes of it failed; one closed by a live scan is never left open. *)
ClosedMeansDone ==
    /\ \A f \in file : f.finished /\ f.abort = "none" => InState(f, "pending") \cup InState(f, "running") = {}
    /\ at = "idle" /\ scans > 0 /\ ~died /\ ~stale =>
          \A f \in file : f.finished \/ f.abort = "discovery"

(* A ticket recorded as fixed has a run that passed, until a later child      *)
(* reopens it; what is skipped as complete is never recorded as failed.       *)
FixedIsComplete ==
    at # "child" => \A t \in InState(record, "done") :
        /\ record.tickets[t].outcome = "fixed" => Complete(t)
        /\ ~record.tickets[t].ran => record.tickets[t].outcome = "fixed"

(* "The child's runId when it wrote a snapshot" (persistence.md:664): the run *)
(* the record names for a ticket that ran is one its child wrote.             *)
RunIdIsProduced ==
    at = "hook" => record.tickets[Head(queue)].run \subseteq child.run

(* "The loop stopped early": an abort between tickets is recorded only when   *)
(* a selected ticket was left.                                                *)
HaltLeavesWork ==
    \A f \in file : f.abort = "between-tickets" => InState(f, "pending") # {}
=============================================================================
