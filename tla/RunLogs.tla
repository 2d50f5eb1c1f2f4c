------------------------------- MODULE RunLogs -------------------------------
(***************************************************************************)
(* The step logs of the runs of a work item: attempts write them, a        *)
(* diagnostic reads the latest, a cleaning compresses and removes the old  *)
(* ones while runs go on.  Sources: src/entry/commands                     *)
(* (diagnostics-readers.ts, diagnostics.ts) and src/run/record/stores      *)
(* (file-run-log-store.ts, file-run-snapshot-catalog.ts).                  *)
(*                                                                         *)
(* A run has one step.  A log is a number of lines; "total" counts the     *)
(* lines its attempt ever wrote, "raw" those in the file that bears its    *)
(* name, "gz" those in its compressed copy, and "open" says whether the    *)
(* attempt still holds the file it opened.  Time is a counter bounded by   *)
(* MaxTime, lines by MaxLines and kills by Deaths; Keeps holds the values  *)
(* of --keep-failed the cleanings of an instance are given.                *)
(***************************************************************************)
EXTENDS Integers, FiniteSets

CONSTANTS Runs, Pipelines, Attempts, MaxTime, MaxLines, Age, Deaths, Keeps

LogsAssumption ==
  /\ MaxTime \in Nat /\ MaxLines \in Nat /\ Age \in Nat /\ Deaths \in Nat
  /\ Attempts \subseteq Nat \ {0} /\ Keeps \subseteq BOOLEAN

VARIABLES now, run, latest, logs, cleaner, deaths

vars == <<now, run, latest, logs, cleaner, deaths>>

None == "none"
Absent == [status |-> "absent", pipeline |-> None, parent |-> None, held |-> FALSE, at |-> 0, attempt |-> 0]
NoLog == [raw |-> 0, gz |-> 0, total |-> 0, cut |-> FALSE, open |-> FALSE, at |-> 0]
Idle == [stage |-> "idle", keep |-> FALSE, cutoff |-> 0, listed |-> [r \in Runs |-> Absent],
         log |-> <<>>, copying |-> FALSE]

Existing == {r \in Runs : run[r].status # "absent"}

(***************************************************************************)
(* Reading the runs: a snapshot without a verdict that no live process     *)
(* holds reads as interrupted.                                             *)
(***************************************************************************)
Effective(rec) == IF rec.status = "RUNNING" /\ ~rec.held THEN "ABORTED" ELSE rec.status
SlipAwaitsHuman(status) == status \in {"FAIL", "STOPPED"}
AwaitsHuman(status) == status \in {"FAIL", "STOPPED", "ABORTED"}

\* The runs that answer for the ticket on their own: a child belongs to the
\* tree of its parent, unless that parent's snapshot is gone.
TopLevel == {r \in Existing : run[r].parent \notin Existing}
ChildrenOf(r) == {c \in Existing : run[c].parent = r}

SlipLatestOf(p, records) ==
  LET of == {r \in records : run[r].pipeline = p}
  IN  IF of = {} THEN None ELSE CHOOSE r \in of : \A q \in of : run[q].at <= run[r].at
\* The latest link is the selector of a pipeline; dates only serve when it
\* points at none of the records.
LatestOf(p, records) ==
  LET of == {r \in records : run[r].pipeline = p}
  IN  IF of = {} THEN None
      ELSE IF latest[p] \in of THEN latest[p]
      ELSE CHOOSE r \in of : \A q \in of : run[q].at <= run[r].at

LatestPerPipeline(records) == {LatestOf(p, records) : p \in Pipelines} \ {None}

SlipTree(roots) == roots \cup UNION {ChildrenOf(r) : r \in roots}
Tree(roots) == roots \cup UNION {ChildrenOf(r) : r \in roots}
               \cup UNION {ChildrenOf(c) : c \in UNION {ChildrenOf(r) : r \in roots}}
Inspected == Tree(LatestPerPipeline(TopLevel))

\* The last attempt whose log still bears its name.
SlipFindLatest(r) == IF \E a \in Attempts : logs[r, a].raw > 0
                     THEN CHOOSE a \in Attempts : logs[r, a].raw > 0 /\ \A b \in Attempts : b < a => logs[r, b].raw = 0 ELSE 0
FindLatest(r) ==
  LET kept == {a \in Attempts : logs[r, a].raw > 0}
  IN  IF kept = {} THEN 0 ELSE CHOOSE a \in kept : \A b \in kept : b <= a

(***************************************************************************)
(* The runner.                                                             *)
(***************************************************************************)
Init ==
  /\ now = 1 /\ run = [r \in Runs |-> Absent] /\ latest = [p \in Pipelines |-> None]
  /\ logs = [k \in Runs \X Attempts |-> NoLog] /\ cleaner = Idle /\ deaths = 0

\* A run starts, composed or not, and takes the latest link of its pipeline.
Start(r, p, parent) ==
  /\ run[r].status = "absent"
  /\ IF parent = None THEN TRUE ELSE run[parent].held
  /\ run' = [run EXCEPT ![r] = [Absent EXCEPT !.status = "RUNNING", !.pipeline = p, !.parent = parent,
                                              !.held = TRUE, !.at = now]]
  /\ latest' = [latest EXCEPT ![p] = r]
  /\ UNCHANGED <<now, logs, cleaner, deaths>>

Resume(r) ==
  /\ AwaitsHuman(Effective(run[r]))
  /\ run' = [run EXCEPT ![r].status = "RUNNING", ![r].held = TRUE, ![r].at = now]
  /\ latest' = [latest EXCEPT ![run[r].pipeline] = r]
  /\ UNCHANGED <<now, logs, cleaner, deaths>>

Writing(r) == run[r].attempt # 0 /\ logs[r, run[r].attempt].open

\* The next attempt allocates and opens its log; the snapshot is saved.
Open(r) ==
  /\ run[r].held /\ ~Writing(r) /\ run[r].attempt + 1 \in Attempts
  /\ run' = [run EXCEPT ![r].attempt = @ + 1, ![r].at = now]
  /\ logs' = [logs EXCEPT ![r, run[r].attempt + 1] = [NoLog EXCEPT !.raw = 1, !.total = 1, !.open = TRUE, !.at = now]]
  /\ UNCHANGED <<now, latest, cleaner, deaths>>

\* A line goes to the file that was opened, which may bear no name any more.
Append(r) ==
  /\ run[r].held /\ Writing(r)
  /\ LET log == logs[r, run[r].attempt]
     IN  /\ log.total < MaxLines
         /\ logs' = [logs EXCEPT ![r, run[r].attempt] =
              [log EXCEPT !.total = @ + 1, !.raw = IF log.raw > 0 THEN @ + 1 ELSE 0, !.at = now]]
  /\ UNCHANGED <<now, run, latest, cleaner, deaths>>

\* The attempt closes; the run goes on, or takes its verdict.
Close(r, status) ==
  /\ run[r].held /\ Writing(r)
  /\ logs' = [logs EXCEPT ![r, run[r].attempt].open = FALSE]
  /\ run' = [run EXCEPT ![r].status = status, ![r].held = status = "RUNNING", ![r].at = now]
  /\ UNCHANGED <<now, latest, cleaner, deaths>>

Die(r) ==
  /\ run[r].held /\ deaths < Deaths /\ deaths' = deaths + 1
  /\ run' = [run EXCEPT ![r].held = FALSE]
  /\ logs' = [k \in DOMAIN logs |-> IF k[1] = r THEN [logs[k] EXCEPT !.open = FALSE] ELSE logs[k]]
  /\ UNCHANGED <<now, latest, cleaner>>

Tick == now < MaxTime /\ now' = now + 1 /\ UNCHANGED <<run, latest, logs, cleaner, deaths>>

(***************************************************************************)
(* The cleaning: the runs are listed once, then each log of an old one is  *)
(* compressed, unless a copy is there already, and removed.                *)
(***************************************************************************)
Clean(keep) ==
  /\ cleaner.stage = "idle" /\ Existing # {}
  /\ cleaner' = [stage |-> "listed", keep |-> keep, cutoff |-> now - Age, listed |-> run,
                  log |-> <<>>, copying |-> FALSE]
  /\ UNCHANGED <<now, run, latest, logs, deaths>>

\* The date of a run is the one its snapshot was last saved at.
Prunable(r) ==
  LET rec == cleaner.listed[r]
  IN  /\ rec.status # "absent" /\ rec.at <= cleaner.cutoff
      /\ ~(cleaner.keep /\ AwaitsHuman(Effective(rec)))

Compress(r, a) ==
  LET log == logs[r, a]
  IN  /\ cleaner.stage = "listed" /\ Prunable(r) /\ log.raw > 0
      /\ LET copying == log.gz = 0 /\ ~log.cut
         IN  /\ cleaner' = [cleaner EXCEPT !.stage = "writing", !.log = <<r, a>>, !.copying = copying]
             /\ logs' = IF copying THEN [logs EXCEPT ![r, a].cut = TRUE] ELSE logs
      /\ UNCHANGED <<now, run, latest, deaths>>

SlipCopied ==
  LET log == logs[cleaner.log]
  IN  /\ cleaner.stage = "writing"
      /\ cleaner' = [cleaner EXCEPT !.stage = "removing"]
      /\ logs' = IF cleaner.copying THEN [logs EXCEPT ![cleaner.log].gz = @ + log.raw + 1, ![cleaner.log].cut = FALSE] ELSE logs
      /\ UNCHANGED <<now, run, latest, deaths>>
\* The copy holds what the log held when it was read; one that was there
\* already is left as it is.
Copied ==
  LET log == logs[cleaner.log]
  IN  /\ cleaner.stage = "writing"
      /\ cleaner' = [cleaner EXCEPT !.stage = "removing"]
      /\ logs' = IF cleaner.copying THEN [logs EXCEPT ![cleaner.log].gz = log.raw, ![cleaner.log].cut = FALSE] ELSE logs
      /\ UNCHANGED <<now, run, latest, deaths>>

SlipRemoved ==
  /\ cleaner.stage = "writing"
  /\ cleaner' = [cleaner EXCEPT !.stage = "listed", !.log = <<>>]
  /\ logs' = [logs EXCEPT ![cleaner.log].raw = 0]
  /\ UNCHANGED <<now, run, latest, deaths>>
Removed ==
  /\ cleaner.stage = "removing"
  /\ cleaner' = [cleaner EXCEPT !.stage = "listed", !.log = <<>>]
  /\ logs' = [logs EXCEPT ![cleaner.log].raw = 0]
  /\ UNCHANGED <<now, run, latest, deaths>>

\* A log that cannot be compressed or removed is left to the next cleaning,
\* with the part of its copy that was written, if any.
Skip ==
  /\ cleaner.stage \in {"writing", "removing"}
  /\ cleaner' = [cleaner EXCEPT !.stage = "done", !.log = <<>>]
  /\ \E cut \in {FALSE, logs[cleaner.log].cut} : logs' = [logs EXCEPT ![cleaner.log].cut = cut]
  /\ UNCHANGED <<now, run, latest, deaths>>

Cleaned ==
  /\ cleaner.stage \in {"listed", "done"} /\ cleaner' = Idle
  /\ UNCHANGED <<now, run, latest, logs, deaths>>

\* The cleaning is killed; what it was writing stays as it is.
Killed ==
  /\ cleaner.stage # "idle" /\ deaths < Deaths /\ deaths' = deaths + 1
  /\ cleaner' = Idle
  /\ UNCHANGED <<now, run, latest, logs>>

Next ==
  \/ \E r \in Runs, p \in Pipelines, parent \in Runs \cup {None} : Start(r, p, parent)
  \/ \E r \in Runs : Resume(r) \/ Open(r) \/ Append(r) \/ Die(r)
  \/ \E r \in Runs, s \in {"RUNNING", "PASS", "FAIL"} : Close(r, s)
  \/ Tick
  \/ \E keep \in Keeps : Clean(keep)
  \/ \E r \in Runs, a \in Attempts : Compress(r, a)
  \/ Copied \/ Removed \/ Skip \/ Cleaned \/ Killed

Spec == Init /\ [][Next]_vars

----------------------------------------------------------------------------
\* Shape of the state; a log never holds more than its attempt wrote.
TypeOK ==
  /\ now \in 1..MaxTime /\ deaths \in 0..Deaths
  /\ \A k \in DOMAIN logs : logs[k].raw <= logs[k].total /\ logs[k].gz <= logs[k].total
  /\ cleaner.stage \in {"idle", "listed", "writing", "removing", "done"}

\* The cleaning that compresses a log takes it away only once the copy is
\* whole: no order of its steps, and no failure of one, loses lines it read.
CopyStandsForTheLog ==
  \A k \in DOMAIN logs :
    (logs[k].raw > 0 /\ logs'[k].raw = 0 /\ cleaner.copying) => logs[k].gz > 0 /\ ~logs[k].cut

\* With --keep-failed a cleaning leaves the logs of a run that awaited a
\* person when it began, one whose runner died without a verdict included.
KeepFailedKeeps ==
  \A r \in Runs, a \in Attempts :
    (cleaner.keep /\ logs[r, a].raw > 0 /\ logs'[r, a].raw = 0) =>
      cleaner.listed[r].status \notin {"FAIL", "STOPPED"}
      /\ ~(cleaner.listed[r].status = "RUNNING" /\ ~cleaner.listed[r].held)

\* The run a resume continues is the current one of its pipeline, whatever
\* the dates of the others say: an inspection shows it, in its own right or
\* in the tree of its parent.
CurrentRunIsShown ==
  \A p \in Pipelines : (latest[p] # None /\ latest[p] \in TopLevel) => latest[p] \in Inspected

\* A run that composes children never hides one: what is shown is closed
\* under composition.
ChildrenAreShown == \A r \in Inspected : ChildrenOf(r) \subseteq Inspected

\* The log a diagnostic prints for a step being executed is the one being
\* written, never that of an earlier attempt, unless a cleaning removed it.
LogsShowTheAttempt ==
  \A r \in Existing : (Writing(r) /\ logs[r, run[r].attempt].raw > 0) => FindLatest(r) = run[r].attempt

\* persistence.md says a cleaning compresses and removes old per-attempt
\* logs: a log its attempt still writes keeps its lines.
LiveLogsAreKept ==
  \A r \in Existing : (Writing(r) /\ deaths = 0) => logs[r, run[r].attempt].raw = logs[r, run[r].attempt].total

\* ... and a removed log was compressed, whatever stopped an earlier pass.
RemovedLogsAreCompressed ==
  \A k \in DOMAIN logs : (logs[k].total > 0 /\ logs[k].raw = 0 /\ ~logs[k].open) => ~logs[k].cut
=============================================================================
