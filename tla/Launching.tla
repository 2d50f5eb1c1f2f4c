------------------------------ MODULE Launching ------------------------------
(***************************************************************************)
(* The verbs of one work item, from the click to the runner it starts.      *)
(*   dashboard/ui/verbs.ts               what is offered, what is admitted  *)
(*   dashboard/ui/routes/actions.ts      one posted verb                    *)
(*   dashboard/ui/launcher.ts            the detached runner and its record *)
(*   dashboard/home/launch-store.ts      the records, closed and reconciled *)
(*   entry/composition/startup.ts        the decision, then the resume      *)
(*   entry/commands/closure.ts           closing by hand                    *)
(*                                                                          *)
(* A request reads the item in one stretch, waits for the decision file and *)
(* judges and launches in a second one.  A launched runner goes through     *)
(* "boot" (record the decision), "ask" (look for a holder), "open" (take    *)
(* the run), "work", "judged" (past its gate).  Runs of one pipeline only;  *)
(* a run is a number, its data are those of the last one.  Identities,      *)
(* budgets and reasons are valid; a runner is killed, never the machine.    *)
(***************************************************************************)
EXTENDS Naturals, FiniteSets, FiniteSetsExt

CONSTANTS
    People,      \* browsers
    Verbs,       \* bound: the verbs they click
    Pids,        \* process ids the system hands out again
    MaxLaunches, \* bound: launches recorded
    MaxRuns,     \* bound: runs opened by a fresh start
    MaxEnds,     \* bound: endings of runs
    Endings,     \* bound: how a run may end
    MaxStarts,   \* bound: restarts of the server
    Expire,      \* whether records grow older than their retention
    Strangers    \* whether a pid of ours may go to another program

VARIABLES
    run,       \* [id, status, why, holder]: the latest run
    closed,    \* whether a current closure stands beside it
    decision,  \* the decision file of the gate's subject
    authored,  \* decisions written so far, and the number of the one that stands
    journaled, \* decision number -> times some run journaled it
    proc,      \* pid -> the process that has it
    rec,       \* launch -> its record
    watched,   \* launches whose exit the living server will hear
    up,        \* whether the server runs, and how often it was started
    req,       \* person -> the request under way
    ends, applied

vars == <<run, closed, decision, authored, journaled, proc, rec, watched, up, req, ends, applied>>

NONE     == "none"
Launches == 1..MaxLaunches
NoRec    == [verb |-> NONE, pid |-> NONE, open |-> FALSE]
NoReq    == [at |-> "idle"]
Free     == [at |-> "free", verb |-> NONE, mine |-> 0, seen |-> 0, launch |-> 0]

(***************************************************************************)
(* The item, as the read model tells it.                                    *)
(***************************************************************************)
StatusOf == IF run.status = "RUNNING" /\ run.holder = NONE THEN "ABORTED" ELSE run.status
AwaitsHuman(status) == status \in {"FAIL", "STOPPED", "ABORTED"}
IsPidAlive(p) == p # NONE /\ proc[p].at # "free"
\* Slip: the record is trusted.
AliveTrusted(l) == rec[l].open
Alive(l)      == rec[l].open /\ IsPidAlive(rec[l].pid)
\* Only the newest record of the item is looked at.
LatestAlive == LET known == {l \in Launches : rec[l] # NoRec}
               IN  known # {} /\ Alive(Max(known))

Item == [id      |-> run.id,
         status  |-> StatusOf,
         gate    |-> StatusOf = "STOPPED" /\ run.why = "gate",
         cut     |-> (StatusOf = "ABORTED" \/ StatusOf = "STOPPED") /\ run.why = "cut",
         failure |-> StatusOf \in {"ABORTED", "FAIL"},
         budget  |-> run.why = "budget",
         closed  |-> closed /\ AwaitsHuman(StatusOf),
         launch  |-> LatestAlive,
         approval |-> decision]

IsBusy(item)        == item.status = "RUNNING" \/ item.launch
ApprovedGate(item)  == item.gate /\ item.approval = "fresh"
RejectedGate(item)  == item.gate /\ item.approval = "rejected"
UndecidedGate(item) == item.gate /\ ~ApprovedGate(item) /\ ~RejectedGate(item)
Resumable(item)     == item.status = "STOPPED" /\ (~item.gate \/ ApprovedGate(item) \/ RejectedGate(item))

(* Slip: only an approval counts as a decision taken.                       *)
BuildArgvApproved(item, verb) ==
    CASE verb \in {"approve-and-rerun", "approve", "reject-and-rerun"} -> item.gate
      [] verb = "rerun" -> ~item.cut /\ ((item.status = "STOPPED" /\ (~item.gate \/ ApprovedGate(item))) \/ item.failure)
      [] verb = "replay-interrupted" -> item.cut /\ ~item.closed
      [] verb = "budget" -> item.budget
      [] verb = "fresh" -> TRUE
      [] verb = "close" -> AwaitsHuman(item.status) /\ ~item.closed
      [] verb = "reopen" -> item.closed

\* `buildArgv` of a quiet item.
BuildArgv(item, verb) ==
    CASE verb \in {"approve-and-rerun", "approve", "reject-and-rerun"} -> item.gate
      [] verb = "rerun" -> ~item.cut /\ (Resumable(item) \/ item.failure)
      [] verb = "replay-interrupted" -> item.cut /\ ~item.closed
      [] verb = "budget" -> item.budget
      [] verb = "fresh" -> TRUE
      [] verb = "close" -> AwaitsHuman(item.status) /\ ~item.closed
      [] verb = "reopen" -> item.closed

(* Slip: a rejected gate still waits for its approval only.                 *)
VerbsForUnread(item) ==
    IF item.closed THEN {"reopen", "fresh"}
    ELSE (IF UndecidedGate(item) THEN {"approve-and-rerun", "approve", "reject-and-rerun"} ELSE {})
         \cup (IF item.cut THEN {"replay-interrupted"}
               ELSE IF (item.status = "STOPPED" /\ (~item.gate \/ ApprovedGate(item))) \/ item.failure
                    THEN {"rerun"} ELSE {})
         \cup (IF item.budget THEN {"budget"} ELSE {})
         \cup (IF AwaitsHuman(item.status) THEN {"close"} ELSE {})
         \cup (IF item.status # "RUNNING" THEN {"fresh"} ELSE {})

VerbsFor(item) ==
    IF item.closed THEN {"reopen", "fresh"}
    ELSE (IF UndecidedGate(item) THEN {"approve-and-rerun", "approve", "reject-and-rerun"} ELSE {})
         \cup (IF item.cut THEN {"replay-interrupted"}
               ELSE IF Resumable(item) \/ item.failure THEN {"rerun"} ELSE {})
         \cup (IF item.budget THEN {"budget"} ELSE {})
         \cup (IF AwaitsHuman(item.status) THEN {"close"} ELSE {})
         \cup (IF item.status # "RUNNING" THEN {"fresh"} ELSE {})

Init ==
    /\ run \in {[id |-> 1, status |-> "STOPPED", why |-> w, holder |-> NONE] : w \in Endings \cap {"gate", "blocked", "cut"}}
    /\ closed = FALSE /\ decision = "absent" /\ authored = 0
    /\ journaled = [n \in 1..MaxLaunches |-> 0]
    /\ proc = [p \in Pids |-> Free]
    /\ rec = [l \in Launches |-> NoRec] /\ watched = {}
    /\ up = [now |-> TRUE, starts |-> 0]
    /\ req = [p \in People |-> NoReq]
    /\ ends = 0 /\ applied = {}

runs  == <<run, closed, decision, authored, journaled, ends, applied>>
board == <<rec, watched, up, req>>

(***************************************************************************)
(* One posted verb.                                                         *)
(***************************************************************************)
\* The sheet is drawn, the reader picks one of its verbs.
Click(p, verb) ==
    /\ req[p].at = "idle" /\ up.now
    /\ ~IsBusy(Item) /\ verb \in VerbsFor(Item)
    /\ req' = [req EXCEPT ![p] = [at |-> "sent", verb |-> verb, id |-> run.id]]
    /\ UNCHANGED <<runs, proc, rec, watched, up>>

\* `readModel.item` up to the wait for the decision file.
Look(p) ==
    /\ req[p].at = "sent" /\ up.now
    /\ req' = [req EXCEPT ![p] = [at |-> "read", verb |-> @.verb, id |-> @.id, item |-> Item]]
    /\ UNCHANGED <<runs, proc, rec, watched, up>>

NextLaunch == {l \in Launches : rec[l] = NoRec /\ \A k \in 1..(l - 1) : rec[k] # NoRec}

Admitted(p, item) ==
    /\ item.id = req[p].id
    /\ ~IsBusy(item)
    /\ BuildArgv(item, req[p].verb)

\* The rest of the request: the checks, the process, its record.
Serve(p) ==
    /\ req[p].at = "read" /\ up.now
    /\ req' = [req EXCEPT ![p] = NoReq]
    /\ LET item == [req[p].item EXCEPT !.approval = decision]
       IN  IF ~Admitted(p, item) THEN UNCHANGED <<proc, rec, watched>>
           ELSE \E l \in NextLaunch, pid \in {q \in Pids : proc[q].at = "free"} :
                  /\ proc' = [proc EXCEPT ![pid] =
                         [at |-> "boot", verb |-> req[p].verb, mine |-> 0, seen |-> req[p].id, launch |-> l]]
                  /\ rec' = [rec EXCEPT ![l] = [verb |-> req[p].verb, pid |-> pid, open |-> TRUE]]
                  /\ watched' = watched \cup {l}
    /\ UNCHANGED <<runs, up>>

(***************************************************************************)
(* The launched runner.                                                     *)
(***************************************************************************)
Step(pid, at) == proc' = [proc EXCEPT ![pid].at = at]
Exit(pid)     == proc' = [proc EXCEPT ![pid] = Free]

\* `closeLatestRun`, `reopenLatestRun`: commands that take no lock.
Closure(pid) ==
    /\ proc[pid].at = "boot" /\ proc[pid].verb \in {"close", "reopen"}
    /\ closed' = IF proc[pid].verb = "reopen" THEN FALSE ELSE AwaitsHuman(StatusOf) \/ closed
    /\ Exit(pid)
    /\ UNCHANGED <<run, decision, authored, journaled, ends, applied, board>>

\* recordApproval keeps a decision that still stands; a rejection is always written.
Written(verb) == verb = "reject-and-rerun" \/ decision # "fresh"

\* Slip: a kept decision is handed on like a written one.
DecidedKept(verb) == authored + (IF Written(verb) THEN 1 ELSE 0)
\* The decision this invocation wrote, 0 when it kept one.
Decided(verb) == IF Written(verb) THEN authored + 1 ELSE 0

\* `applyApproval`, `applyRejection` up to the file; "approve" alone ends here.
Decide(pid) ==
    /\ proc[pid].at = "boot" /\ proc[pid].verb \in {"approve-and-rerun", "approve", "reject-and-rerun"}
    /\ decision' = IF proc[pid].verb = "reject-and-rerun" THEN "rejected" ELSE "fresh"
    /\ authored' = IF Written(proc[pid].verb) THEN authored + 1 ELSE authored
    /\ IF proc[pid].verb = "approve" THEN Exit(pid)
       ELSE proc' = [proc EXCEPT ![pid] = [@ EXCEPT !.at = "ask", !.mine = Decided(proc[pid].verb)]]
    /\ UNCHANGED <<run, closed, journaled, ends, applied, board>>

\* `resumeAfterDecision`: a held run is left to its holder.
AskHolder(pid) ==
    /\ proc[pid].at = "ask"
    /\ IF run.holder # NONE THEN Exit(pid) ELSE Step(pid, "open")
    /\ UNCHANGED <<runs, board>>

Boot(pid) ==
    /\ proc[pid].at = "boot" /\ proc[pid].verb \in {"rerun", "replay-interrupted", "budget", "fresh"}
    /\ Step(pid, "open")
    /\ UNCHANGED <<runs, board>>

\* `loadOrCreateRun` then `recordDecision`: a held run makes the launch fail.
Open(pid) ==
    /\ proc[pid].at = "open"
    /\ LET fresh == proc[pid].verb = "fresh" \/ run.status = "PASS"
           mine  == proc[pid].mine
       IN  IF run.holder # NONE /\ ~fresh THEN Exit(pid) /\ UNCHANGED <<run, closed, journaled, applied>>
           ELSE /\ fresh => run.id < MaxRuns
                /\ run' = [id     |-> IF fresh THEN run.id + 1 ELSE run.id,
                           status |-> "RUNNING", holder |-> pid,
                           why    |-> IF ~fresh /\ run.why = "cut" /\ proc[pid].verb # "replay-interrupted"
                                      THEN "cut" ELSE NONE]
                /\ closed' = FALSE
                /\ journaled' = IF mine = 0 THEN journaled ELSE [journaled EXCEPT ![mine] = @ + 1]
                /\ applied' = applied \cup (IF fresh THEN {} ELSE {[on |-> run.id, seen |-> proc[pid].seen]})
                /\ Step(pid, "work")
    /\ UNCHANGED <<decision, authored, ends, board>>

\* The gate step reads the decision; a rejected artifact is reworked.
ReadGate(pid) ==
    /\ proc[pid].at = "work" /\ run.holder = pid /\ run.why # "cut"
    /\ Step(pid, IF decision = "fresh" THEN "passed" ELSE "judged")
    /\ decision' = IF decision = "rejected" THEN "stale" ELSE decision
    /\ UNCHANGED <<run, closed, authored, journaled, ends, applied, board>>

\* How a run may end from where its runner is.
EndsAs(pid) ==
    CASE proc[pid].at = "work" /\ run.why = "cut" -> {"cut"}
      [] proc[pid].at = "work" /\ run.why # "cut" -> Endings \ {"gate", "cut", "pass"}
      [] proc[pid].at = "judged" -> {"gate"} \cap Endings
      [] OTHER -> Endings \ {"gate", "cut"}

EndRun(pid) ==
    /\ proc[pid].at \in {"work", "judged", "passed"} /\ run.holder = pid /\ ends < MaxEnds
    /\ \E why \in EndsAs(pid) :
         run' = [run EXCEPT !.holder = NONE, !.why = why,
                    !.status = CASE why = "pass" -> "PASS" [] why = "fail" -> "FAIL" [] OTHER -> "STOPPED"]
    /\ ends' = ends + 1
    /\ Exit(pid)
    /\ UNCHANGED <<closed, decision, authored, journaled, applied, board>>

\* A runner whose run was replaced by a fresh one ends on its own directory.
EndOld(pid) ==
    /\ proc[pid].at \in {"work", "judged", "passed"} /\ run.holder # pid
    /\ Exit(pid)
    /\ UNCHANGED <<runs, board>>

\* A runner dies inside a step attempt, the snapshot still says RUNNING.
Killed(pid) ==
    /\ proc[pid].at = "work" /\ run.holder = pid /\ "cut" \in Endings /\ ends < MaxEnds
    /\ run' = [run EXCEPT !.holder = NONE, !.why = "cut"]
    /\ ends' = ends + 1
    /\ Exit(pid)
    /\ UNCHANGED <<closed, decision, authored, journaled, applied, board>>

(***************************************************************************)
(* The records and the server.                                              *)
(***************************************************************************)
\* Slip: the newest launch is closed, whichever ended.
HearNewest(l) ==
    /\ up.now /\ l \in watched /\ rec[l].open /\ (proc[rec[l].pid].at = "free" \/ proc[rec[l].pid].launch # l)
    /\ rec' = [rec EXCEPT ![Max(watched)].open = FALSE]
    /\ watched' = watched \ {l}
    /\ UNCHANGED <<runs, proc, up, req>>

\* The exit event of a child this server spawned: `close`, once.
Hear(l) ==
    /\ up.now /\ l \in watched /\ rec[l].open /\ (proc[rec[l].pid].at = "free" \/ proc[rec[l].pid].launch # l)
    /\ rec' = [rec EXCEPT ![l].open = FALSE]
    /\ watched' = watched \ {l}
    /\ UNCHANGED <<runs, proc, up, req>>

\* Slip: the next server believes it hears the exits of the last one's children.
StopWatching ==
    /\ up.now /\ up.starts < MaxStarts
    /\ up' = [up EXCEPT !.now = FALSE]
    /\ req' = [p \in People |-> NoReq]
    /\ UNCHANGED <<runs, proc, rec, watched>>

\* The server ends: requests are lost, exits go unheard, runners live on.
Stop ==
    /\ up.now /\ up.starts < MaxStarts
    /\ up' = [up EXCEPT !.now = FALSE]
    /\ watched' = {} /\ req' = [p \in People |-> NoReq]
    /\ UNCHANGED <<runs, proc, rec>>

Reconcile(l) == IF rec[l].open /\ ~Alive(l) THEN [rec[l] EXCEPT !.open = FALSE] ELSE rec[l]

\* The start of a server closes what is gone and drops what expired.
Start ==
    /\ ~up.now
    /\ up' = [now |-> TRUE, starts |-> up.starts + 1]
    /\ \E old \in {0} \cup (IF Expire THEN Launches ELSE {}) :
         rec' = [l \in Launches |->
                   IF rec[l] = NoRec THEN NoRec
                   ELSE IF l <= old THEN [verb |-> "dropped", pid |-> NONE, open |-> FALSE] ELSE Reconcile(l)]
    /\ UNCHANGED <<runs, proc, watched, req>>

\* A process id of ours that ended goes to another program, which may end.
Stranger(p) ==
    /\ Strangers
    /\ \/ /\ proc[p].at = "free" /\ \E l \in Launches : rec[l].pid = p
          /\ proc' = [proc EXCEPT ![p] = [Free EXCEPT !.at = "other"]]
       \/ proc[p].at = "other" /\ Exit(p)
    /\ UNCHANGED <<runs, board>>

Runner(pid) == Closure(pid) \/ Decide(pid) \/ AskHolder(pid) \/ Boot(pid) \/ Open(pid)
                 \/ ReadGate(pid) \/ EndRun(pid) \/ EndOld(pid)

Next ==
    \/ \E p \in People : (\E v \in Verbs : Click(p, v)) \/ Look(p) \/ Serve(p)
    \/ \E pid \in Pids : Runner(pid) \/ Killed(pid) \/ Stranger(pid)
    \/ \E l \in Launches : Hear(l)
    \/ Stop \/ Start

Spec == Init /\ [][Next]_vars
\* Runners and the server's event loop run on; a stopped server is started again.
FairSpec ==
    /\ Spec /\ WF_vars(Start)
    /\ \A pid \in Pids : WF_vars(Runner(pid))
    /\ \A l \in Launches : WF_vars(Hear(l))

(***************************************************************************)
(* Properties.                                                              *)
(***************************************************************************)
TypeOK ==
    /\ run.id \in 1..MaxRuns /\ run.status \in {"RUNNING", "STOPPED", "FAIL", "PASS"}
    /\ run.holder = NONE \/ (run.status = "RUNNING" /\ proc[run.holder].at \in {"work", "judged", "passed"})
    /\ decision \in {"absent", "fresh", "rejected", "stale"}
    /\ watched \subseteq {l \in Launches : rec[l].open}
    /\ \A p \in People : req[p].at \in {"idle", "sent", "read"}

\* Every verb the sheet draws on a quiet item is one `buildArgv` admits: no
\* button answers with a refusal while nothing moved.
OffersAdmitted == ~IsBusy(Item) => \A v \in VerbsFor(Item) : BuildArgv(Item, v)

\* A run that waits on somebody, closed by nobody, is always offered a verb that
\* goes on with it: never only the one that starts over or gives up.
AWayOn ==
    (~IsBusy(Item) /\ AwaitsHuman(StatusOf) /\ ~Item.closed) =>
        VerbsFor(Item) \ {"fresh", "close", "budget"} # {}

\* One decision is journaled at most once, however many people take it.
JournaledOnce == \A n \in DOMAIN journaled : journaled[n] <= 1

\* An item is busy only while its run is held or a process launched here lives, or
\* while the process id of a launch nobody closed is another program's: a button is
\* not disabled by what ended, over endings no server heard, restarts and ids that
\* come back.
Ours(pid) == proc[pid].at \notin {"free", "other"}
Reused == \E l \in Launches : rec[l].open /\ rec[l].pid # NONE /\ proc[rec[l].pid].at = "other"
BusyIsReal == IsBusy(Item) => (run.holder # NONE \/ Reused \/ \E pid \in Pids : Ours(pid))

\* Contradicted by a reused process id, and checked by no run: "the runner is
\* running, or a launch of ours is still alive" (verbs.ts:49).
BusyForOurs == IsBusy(Item) => (run.holder # NONE \/ \E pid \in Pids : Ours(pid))

\* The converse: while a process launched here lives, the item is busy.
BusyWhileAlive == (\E pid \in Pids : Ours(pid)) => IsBusy(Item)

\* A verb resumes the run its reader saw.
AppliedToSeen == \A a \in applied : a.on = a.seen

\* A decision that says the holder resumes with it finds a holder that has not
\* read the gate yet.
HolderResumes ==
    \A pid \in Pids : (AskHolder(pid) /\ run.holder # NONE) =>
       (proc[run.holder].at # "judged")

\* The run that consumes a decision some invocation wrote has it in its journal.
ConsumedIsJournaled ==
    (decision = "fresh" /\ run.holder # NONE /\ proc[run.holder].at = "passed"
        /\ \A pid \in Pids : proc[pid].mine # authored)
    => journaled[authored] > 0

=============================================================================
