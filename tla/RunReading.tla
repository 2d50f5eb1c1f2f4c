----------------------------- MODULE RunReading -----------------------------
(***************************************************************************)
(* How the rest of the program reads a run while its runner is alive, dying *)
(* or gone: run/record/run-read.ts, run-status.ts, closure.ts, the holder   *)
(* walk of stores/run-storage.ts, the `close` command, and the readers of   *)
(* dashboard/read-model (runs, items, steps, run-facts).                    *)
(*                                                                          *)
(* A run is two files and a lock: the journal, written first, the snapshot, *)
(* written right after each event, and the lock, which only the directory   *)
(* the process was started on carries.  A composed child has no lock of its *)
(* own, so its holder is looked for up its lineage.  A reader takes none of *)
(* the three together: it reads the snapshot, asks the locks one by one,    *)
(* then reads the journal, while runners start, write, stop and die.        *)
(*                                                                          *)
(* Two runs: a root whose node COMPOSE runs the child.  Times are a counter *)
(* of writes, attempts are reduced to the last one of each step, and the    *)
(* run's figures, its failure's words and its files are left out.           *)
(***************************************************************************)
EXTENDS Naturals, Sequences, FiniteSets, SequencesExt

CONSTANTS
    ROOT, KID,      \* the two runs
    PlanOf,         \* run -> the sequence of its steps
    COMPOSE,        \* the step of ROOT that composes KID
    Pollers,        \* readers that build the dashboard's item, over and over
    Others,         \* readers that answer one request: a recap, `close`
    Launches,       \* whether processes are started by the dashboard
    MaxStarts,      \* bound: processes started
    MaxCloses       \* bound: closures written

PlanAssumption ==
    /\ DOMAIN PlanOf = {ROOT, KID}
    /\ COMPOSE \in ToSet(PlanOf[ROOT])

Runs      == {ROOT, KID}
StepsOf(r) == ToSet(PlanOf[r])
Readers   == Pollers \cup Others
Settled   == {"done", "skipped"}
NONE      == "none"

VARIABLES
    snap,      \* run -> state.json: [status, at, steps, stop]
    journal,   \* run -> what its last attempts say, step by step
    lock,      \* run -> the process number in its lock file, 0 for no file
    proc,      \* the runner process, alive or dead
    closure,   \* run -> closure.json: the `updatedAt` it was taken on, 0 none
    reader,    \* reader -> what it is reading and has read
    item,      \* the item the dashboard shows of ROOT
    truths,    \* reader -> every status the run really had during its read
    quiet,     \* reader -> no process was alive at any moment of its read
    closes     \* closures written

vars == <<snap, journal, lock, proc, closure, reader, item, truths, quiet, closes>>

(***************************************************************************)
(* What a status means, and the one status every reader shows.              *)
(***************************************************************************)
HasVerdict(status)  == status \in {"PASS", "FAIL", "STOPPED", "ABORTED"}
IsFailure(status)   == status \in {"FAIL", "ABORTED"}
IsCompleted(status) == status = "PASS"
AwaitsHuman(status) == status \in {"FAIL", "STOPPED", "ABORTED"}

OwesWork(status)    == status \notin Settled
Owing(r, steps)     == {s \in StepsOf(r) : OwesWork(steps[s])}

(* Slip: a snapshot that says RUNNING is believed.                          *)
BelieveRunning(status, held) ==
    IF status = "RUNNING" THEN [status |-> "RUNNING", interrupted |-> FALSE]
    ELSE [status |-> status, interrupted |-> FALSE]

EffectiveStatus(status, held) ==
    CASE HasVerdict(status) -> [status |-> status,    interrupted |-> FALSE]
      [] ~HasVerdict(status) /\ held -> [status |-> "RUNNING", interrupted |-> FALSE]
      [] OTHER -> [status |-> "ABORTED", interrupted |-> TRUE]

(***************************************************************************)
(* The projection of a journal over a snapshot: a step the journal ended is *)
(* that, one it started is running, any other keeps what the snapshot says. *)
(***************************************************************************)
Projected(r, steps) ==
    [s \in StepsOf(r) |->
        CASE journal[r][s] = "open"                        -> "running"
          [] journal[r][s] \in {"done", "failed", "aborted"} -> journal[r][s]
          [] OTHER                                         -> steps[s]]

(* Slip: a run is read from its snapshot alone.                             *)
SnapshotOnly(r, steps, interrupted) == steps

ProjectedSteps(r, steps, interrupted) ==
    IF ~interrupted \/ Owing(r, steps) = {} THEN steps ELSE Projected(r, steps)

(* A step still running in a run whose runner died runs nowhere.            *)
StepStatusOf(status, interrupted) ==
    IF status = "running" /\ interrupted THEN "aborted" ELSE status

AliveHolder(p) == proc.alive /\ p = proc.pid
RunLockHolder(r) == lock[r] # 0 /\ AliveHolder(lock[r])
ParentRunDir(r) == IF r = KID /\ snap[ROOT].status # NONE THEN ROOT ELSE NONE

\* Whether the run is held right now: both lock files looked at in one moment.
IsRunHeld(r) ==
    RunLockHolder(r) \/ (ParentRunDir(r) # NONE /\ RunLockHolder(ROOT))

\* What a reader that took everything at once would say.
Truths == [r \in Runs |-> IF HasVerdict(snap[r].status) THEN snap[r].status
                          ELSE IF IsRunHeld(r) THEN "RUNNING" ELSE "ABORTED"]

(***************************************************************************)
(* The initial state: nothing ran.                                          *)
(***************************************************************************)
NoSnap(r) == [status |-> NONE, at |-> 0, stop |-> FALSE,
              steps |-> [s \in StepsOf(r) |-> "pending"]]
NoProc == [pid |-> 0, alive |-> FALSE, on |-> ROOT, cur |-> ROOT,
           mem |-> [s \in StepsOf(ROOT) |-> "pending"], replay |-> FALSE,
           at |-> "gone", ours |-> FALSE, ended |-> NONE, entered |-> FALSE]
NoRead == [phase |-> "idle", run |-> ROOT, snap |-> NoSnap(ROOT), launch |-> FALSE,
           seen |-> [status |-> NONE, interrupted |-> FALSE],
           steps |-> [s \in StepsOf(ROOT) |-> "pending"]]
NoItem == [group |-> NONE, status |-> NONE, interrupted |-> FALSE, step |-> NONE,
           closed |-> FALSE, at |-> 0]

Init ==
    /\ snap = [r \in Runs |-> NoSnap(r)]
    /\ journal = [r \in Runs |-> [s \in StepsOf(r) |-> NONE]]
    /\ lock = [r \in Runs |-> 0]
    /\ proc = NoProc
    /\ closure = [r \in Runs |-> 0]
    /\ reader = [i \in Readers |-> NoRead]
    /\ item = NoItem
    /\ truths = [i \in Readers |-> {}]
    /\ quiet = [i \in Readers |-> TRUE]
    /\ closes = 0

(***************************************************************************)
(* The runner.  The snapshot is written right after each event: `mem` is    *)
(* the process's steps, and nothing else happens until they are saved.      *)
(***************************************************************************)
Fresh(r) == snap[r].status = NONE
Resumable(r) == ~Fresh(r) /\ Owing(r, snap[r].steps) # {} /\ snap[r].status # "PASS"
SavedNow == proc.mem = snap[proc.cur].steps

Write(r, status, steps, stop) ==
    snap' = [snap EXCEPT ![r] = [status |-> status, at |-> @.at + 1,
                                 stop |-> stop, steps |-> steps]]

\* A process is started, by the dashboard or from a terminal, with or without
\* the authorization to replay an interrupted attempt.
Spawn(r, ours, replay) ==
    /\ ~proc.alive
    /\ proc.pid < MaxStarts
    /\ IF r = KID THEN Resumable(KID) ELSE Fresh(ROOT) \/ Resumable(ROOT)
    /\ proc' = [proc EXCEPT !.pid = @ + 1, !.alive = TRUE, !.on = r, !.cur = r,
                            !.replay = replay, !.at = "spawned", !.ours = ours,
                            !.ended = NONE, !.entered = FALSE]
    /\ UNCHANGED <<snap, journal, lock, closure, item, closes>>

Claim ==
    /\ proc.alive /\ proc.at = "spawned"
    /\ lock' = [lock EXCEPT ![proc.on] = proc.pid]
    /\ proc' = [proc EXCEPT !.at = "claimed"]
    /\ UNCHANGED <<snap, journal, closure, item, closes>>

\* The snapshot as a resume opens it: projected, an attempt the death cut is
\* settled, a running step owes its work again.
Reopened(r) ==
    [s \in StepsOf(r) |->
        IF Projected(r, snap[r].steps)[s] = "running" THEN "pending"
        ELSE Projected(r, snap[r].steps)[s]]
CutAttempts(r) ==
    [s \in StepsOf(r) |-> IF journal[r][s] # "open" THEN journal[r][s]
                          ELSE IF s = COMPOSE THEN NONE ELSE "cut"]

OpenRun(r) ==
    /\ Write(r, "RUNNING", Reopened(r), FALSE)
    /\ journal' = [journal EXCEPT ![r] = CutAttempts(r)]
    /\ proc' = [proc EXCEPT !.at = "running", !.cur = r, !.mem = Reopened(r),
                            !.entered = TRUE]

Open ==
    /\ proc.alive /\ proc.at = "claimed"
    /\ OpenRun(proc.on)
    /\ UNCHANGED <<lock, closure, item, closes>>

\* The first step of the run at hand that owes work.
NextStep == LET plan == PlanOf[proc.cur]
            IN  SelectInSeq(plan, LAMBDA s : OwesWork(proc.mem[s]))
Running == proc.alive /\ proc.at = "running"
(* Slip: the next event does not wait for the save of the one before.       *)
AtStepUnsaved(s) == Running /\ NextStep # 0 /\ PlanOf[proc.cur][NextStep] = s
AtStep(s) == Running /\ SavedNow /\ NextStep # 0 /\ PlanOf[proc.cur][NextStep] = s

\* An attempt begins: in the journal first, in the snapshot by the next Save.
Begin(s) ==
    /\ AtStep(s) /\ proc.mem[s] # "running" /\ proc.ended # s
    /\ journal[proc.cur][s] = "cut" => proc.replay
    /\ journal' = [journal EXCEPT ![proc.cur][s] = "open"]
    /\ proc' = [proc EXCEPT !.mem[s] = "running",
                            !.entered = IF s = COMPOSE THEN FALSE ELSE @]
    /\ UNCHANGED <<snap, lock, closure, item, closes>>

\* An attempt ends; the node that composes the child ends with its verdict.
End(s, how) ==
    /\ AtStep(s) /\ proc.mem[s] = "running"
    /\ s = COMPOSE => /\ proc.entered \/ IsCompleted(snap[KID].status)
                      /\ (how = "done") = IsCompleted(snap[KID].status)
    /\ journal' = [journal EXCEPT ![proc.cur][s] = how]
    /\ proc' = [proc EXCEPT !.mem[s] = how, !.ended = s]
    /\ UNCHANGED <<snap, lock, closure, item, closes>>

Save ==
    /\ Running /\ ~SavedNow
    /\ Write(proc.cur, "RUNNING", proc.mem, FALSE)
    /\ UNCHANGED <<journal, lock, proc, closure, item, closes>>

(* Slip: a composed child's directory is locked too.                        *)
EnterLocked ==
    /\ AtStep(COMPOSE) /\ proc.cur = ROOT /\ proc.mem[COMPOSE] = "running"
    /\ ~proc.entered /\ ~IsCompleted(snap[KID].status)
    /\ OpenRun(KID)
    /\ lock' = [lock EXCEPT ![KID] = proc.pid]
    /\ UNCHANGED <<closure, item, closes>>

\* The node at hand is the composing one: its child opens in the same process,
\* on a directory this process does not lock.
EnterChild ==
    /\ AtStep(COMPOSE) /\ proc.cur = ROOT /\ proc.mem[COMPOSE] = "running"
    /\ ~proc.entered /\ ~IsCompleted(snap[KID].status)
    /\ OpenRun(KID)
    /\ UNCHANGED <<lock, closure, item, closes>>

\* How a pass can end: every step done, one failed, or it stopped, on a gate or
\* on an attempt a death cut that nobody authorized it to replay.
CutUnreplayed(s) == journal[proc.cur][s] = "cut" /\ ~proc.replay
Verdicts ==
    {status \in {"PASS", "FAIL", "STOPPED"} :
        CASE status = "PASS" -> NextStep = 0
          [] status = "FAIL" -> NextStep # 0 /\ proc.ended = PlanOf[proc.cur][NextStep]
          [] OTHER -> NextStep # 0 /\ proc.mem[PlanOf[proc.cur][NextStep]] # "running"}
GateStop == NextStep # 0 /\ ~CutUnreplayed(PlanOf[proc.cur][NextStep])

Stamp(status) ==
    /\ Running /\ SavedNow
    /\ status \in Verdicts
    /\ Write(proc.cur, status, proc.mem, status = "STOPPED" /\ GateStop)
    /\ proc' = IF proc.cur = proc.on
               THEN [proc EXCEPT !.at = "stamped"]
               ELSE [proc EXCEPT !.cur = ROOT, !.mem = snap[ROOT].steps]
    /\ UNCHANGED <<journal, lock, closure, item, closes>>

\* A signal the runner lives to record: the step in hand is aborted, in the
\* composed child first.
AbortRun ==
    /\ proc.alive /\ proc.at \in {"running", "aborting"} /\ SavedNow
    /\ LET r     == proc.cur
           steps == [s \in StepsOf(r) |->
                        IF proc.mem[s] = "running" THEN "aborted" ELSE proc.mem[s]]
       IN  /\ Write(r, "ABORTED", steps, FALSE)
           /\ journal' = [journal EXCEPT ![r] =
                  [s \in StepsOf(r) |-> IF @[s] = "open" THEN "aborted" ELSE @[s]]]
           /\ proc' = IF r = proc.on
                      THEN [proc EXCEPT !.at = "stamped", !.mem = steps]
                      ELSE [proc EXCEPT !.at = "aborting", !.cur = ROOT,
                                        !.mem = snap[ROOT].steps]
    /\ UNCHANGED <<lock, closure, item, closes>>

Dead == [NoProc EXCEPT !.pid = proc.pid]

Release ==
    /\ proc.alive /\ proc.at = "stamped"
    /\ lock' = [lock EXCEPT ![proc.on] = 0]
    /\ proc' = Dead
    /\ UNCHANGED <<snap, journal, closure, item, closes>>

\* The process dies; its lock file stays.
Die ==
    /\ proc.alive
    /\ proc' = Dead
    /\ UNCHANGED <<snap, journal, lock, closure, item, closes>>

(***************************************************************************)
(* A reader: the snapshot, then each lock up the lineage, then the journal, *)
(* each at a moment of its own.                                             *)
(***************************************************************************)
At(i, phase) == reader[i].phase = phase
Unwritten == UNCHANGED <<snap, journal, lock, proc>>
Move(i, record) == reader' = [reader EXCEPT ![i] = record]

\* `latest` of the ticket's pipeline for the dashboard and `close`; a child is
\* read by the recap and the explorer of its parent.
StartRead(i, r) ==
    /\ At(i, "idle") /\ ~Fresh(r)
    /\ i \in Pollers => r = ROOT
    /\ Move(i, [NoRead EXCEPT !.phase = IF HasVerdict(snap[r].status) THEN "judged" ELSE "own",
                              !.run = r, !.snap = snap[r],
                              !.launch = proc.ours /\ proc.alive,
                              !.seen = EffectiveStatus(snap[r].status, FALSE),
                              !.steps = snap[r].steps])
    /\ Unwritten /\ UNCHANGED <<closure, item, closes>>

Held(i, held) ==
    [reader[i] EXCEPT !.phase = IF held THEN "judged" ELSE "journal",
                      !.seen = EffectiveStatus(reader[i].snap.status, held)]

(* Slip: only the lock of the run's own directory is asked.                 *)
AskOnlyOwnLock(i) ==
    /\ At(i, "own")
    /\ Move(i, Held(i, RunLockHolder(reader[i].run)))
    /\ Unwritten /\ UNCHANGED <<closure, item, closes>>

AskOwnLock(i) ==
    /\ At(i, "own")
    /\ IF ~RunLockHolder(reader[i].run) /\ ParentRunDir(reader[i].run) # NONE
       THEN Move(i, [reader[i] EXCEPT !.phase = "parent"])
       ELSE Move(i, Held(i, RunLockHolder(reader[i].run)))
    /\ Unwritten /\ UNCHANGED <<closure, item, closes>>

AskParentLock(i) ==
    /\ At(i, "parent")
    /\ Move(i, Held(i, RunLockHolder(ROOT)))
    /\ Unwritten /\ UNCHANGED <<closure, item, closes>>

\* `projectedSteps`, for an interrupted run that owes work.
ReadJournal(i) ==
    /\ At(i, "journal")
    /\ Move(i, [reader[i] EXCEPT !.phase = "judged",
           !.steps = ProjectedSteps(reader[i].run, @, reader[i].seen.interrupted)])
    /\ Unwritten /\ UNCHANGED <<closure, item, closes>>

(***************************************************************************)
(* What is made of a run once read: the dashboard's item, a closure.        *)
(***************************************************************************)
(* Slip: a closure holds until somebody removes it.                         *)
ClosureForever(taken, state) == taken # 0

ClosureCurrent(taken, state) == taken = state.at
ClosureOf(r, state, status) ==
    AwaitsHuman(status) /\ closure[r] # 0 /\ ClosureCurrent(closure[r], state)

(* Slip: any step shown aborted is offered.                                 *)
OfferShown(r, steps, seen, state) ==
    {s \in StepsOf(r) \ {COMPOSE} : StepStatusOf(steps[s], seen.interrupted) = "aborted"}

\* `interruptedStepOf`: a dead run's step whose attempt is open, or the step a
\* plain resume stopped on, its attempt settled as cut.  The journal is read now.
ReplayOffered(r, steps, seen, state) ==
    {s \in StepsOf(r) \ {COMPOSE} :
        /\ seen.interrupted \/ (seen.status = "STOPPED" /\ ~state.stop)
        /\ OwesWork(steps[s])
        /\ journal[r][s] = "cut" \/ (seen.interrupted /\ journal[r][s] = "open")}

InterruptedStepOf(r, steps, seen, state) ==
    LET offered == ReplayOffered(r, steps, seen, state)
        first   == SelectInSeq(PlanOf[r], LAMBDA s : s \in offered)
    IN  IF first = 0 THEN NONE ELSE PlanOf[r][first]

GroupOf(status) ==
    CASE IsFailure(status)   -> "failure"
      [] IsCompleted(status) -> "done"
      [] status = "STOPPED"  -> "decision"
      [] OTHER               -> "running"

ItemGroup(status, launch, closed) ==
    IF launch THEN "running" ELSE IF closed THEN "done" ELSE GroupOf(status)

\* The answer: nothing is kept of the read but what it said.
Told(i) == [NoRead EXCEPT !.phase = "told", !.run = reader[i].run, !.seen = reader[i].seen]

BuildItem(i) ==
    /\ At(i, "judged") /\ i \in Pollers
    /\ LET got    == reader[i]
           closed == ClosureOf(ROOT, got.snap, got.seen.status)
       IN  item' = [group       |-> ItemGroup(got.seen.status, got.launch, closed),
                    status      |-> got.seen.status,
                    interrupted |-> got.seen.interrupted,
                    step        |-> InterruptedStepOf(ROOT, got.steps, got.seen, got.snap),
                    closed      |-> closed,
                    at          |-> got.snap.at]
    /\ Move(i, Told(i))
    /\ Unwritten /\ UNCHANGED <<closure, closes>>

\* The recap of a parent, `--inspect`: the run is shown as it was read.
Show(i) ==
    /\ At(i, "judged") /\ i \in Others
    /\ Move(i, Told(i))
    /\ Unwritten /\ UNCHANGED <<closure, item, closes>>

\* The `close` command on the run it read; refused on a run nobody waits on.
Close(i) ==
    /\ At(i, "judged") /\ i \in Others /\ reader[i].run = ROOT
    /\ closes < MaxCloses
    /\ AwaitsHuman(reader[i].seen.status)
    /\ closure' = [closure EXCEPT ![ROOT] = reader[i].snap.at]
    /\ closes' = closes + 1
    /\ Move(i, Told(i))
    /\ Unwritten /\ UNCHANGED item

Reopen ==
    /\ closure[ROOT] # 0
    /\ closure' = [closure EXCEPT ![ROOT] = 0]
    /\ Unwritten /\ UNCHANGED <<reader, item, closes>>

\* The answer is given and the reader free for the next request.
EndRead(i) ==
    /\ At(i, "told")
    /\ Move(i, NoRead)
    /\ Unwritten /\ UNCHANGED <<closure, item, closes>>

(***************************************************************************)
(* Every step, and what the steps are remembered by.                        *)
(***************************************************************************)
Runner ==
    /\ \/ \E r \in Runs, ours \in Launches, replay \in BOOLEAN : Spawn(r, ours, replay)
       \/ Claim \/ Open \/ Save \/ EnterChild \/ AbortRun \/ Release \/ Die
       \/ \E s \in StepsOf(ROOT) \cup StepsOf(KID) :
             Begin(s) \/ \E how \in {"done", "failed"} : End(s, how)
       \/ \E status \in {"PASS", "FAIL", "STOPPED"} : Stamp(status)
    /\ UNCHANGED reader

Poll(i) == AskOwnLock(i) \/ AskParentLock(i) \/ ReadJournal(i) \/ EndRead(i)
Read(i) ==
    \/ \E r \in Runs : StartRead(i, r)
    \/ Poll(i) \/ BuildItem(i) \/ Show(i) \/ Close(i)

InRead(i) == reader'[i].phase # "idle"
Remember ==
    /\ truths' = [i \in Readers |->
          IF ~InRead(i) THEN {}
          ELSE (IF At(i, "told") THEN truths[i]
                ELSE truths[i] \cup {Truths'[reader'[i].run]})]
    /\ quiet' = [i \in Readers |->
          IF ~InRead(i) THEN TRUE
          ELSE IF At(i, "told") THEN quiet[i] ELSE quiet[i] /\ ~proc'.alive]

Next ==
    /\ Runner \/ Reopen \/ \E i \in Readers : Read(i)
    /\ Remember

Spec == Init /\ [][Next]_vars

\* The dashboard polls: every one of its reads goes on to its item.
FairSpec ==
    /\ Spec
    /\ \A i \in Pollers :
          /\ WF_vars(Poll(i) /\ Remember)
          /\ WF_vars(StartRead(i, ROOT) /\ Remember)
          /\ WF_vars(BuildItem(i) /\ Remember)

-----------------------------------------------------------------------------
Statuses == {NONE, "RUNNING", "PASS", "FAIL", "STOPPED", "ABORTED"}
StepStatuses == {"pending", "running", "done", "failed", "aborted"}

\* Types, and what ties the files together: only a saved run has a journal or a
\* closure, and a composed child never carries its parent's lock.
TypeOK ==
    /\ \A r \in Runs :
         /\ snap[r].status \in Statuses
         /\ \A s \in StepsOf(r) : /\ snap[r].steps[s] \in StepStatuses
                                   /\ journal[r][s] \in {NONE, "open", "done", "failed", "aborted", "cut"}
         /\ lock[r] \in 0..MaxStarts
         /\ Fresh(r) => closure[r] = 0 /\ \A s \in StepsOf(r) : journal[r][s] = NONE
    /\ proc.alive /\ proc.on = ROOT => lock[KID] # proc.pid
    /\ \A i \in Readers : reader[i].phase \in
          {"idle", "own", "parent", "journal", "judged", "told"}

\* run-read.ts: the snapshot is at most one event behind its journal, and a
\* verdict is written after every event of its pass -- which is why a reader may
\* leave the journal of a live or judged run unread.
SnapshotOneBehind ==
    \A r \in Runs :
        LET behind == {s \in StepsOf(r) : Projected(r, snap[r].steps)[s] # snap[r].steps[s]}
        IN  /\ Cardinality(behind) <= 1
            /\ HasVerdict(snap[r].status) => behind = {}

\* effectiveStatus: a run told RUNNING was held by a live process at some moment
\* of the read, so a dead runner's `RUNNING` is never shown for longer.
RunningWasHeld ==
    \A i \in Readers :
        At(i, "told") /\ reader[i].seen.status = "RUNNING" => "RUNNING" \in truths[i]

\* isRunHeld: a run a live process held without a break during the whole read, on
\* its own lock or through the run that composed it, is never told interrupted.
HeldIsNeverDead ==
    \A i \in Readers :
        At(i, "told") /\ reader[i].seen.interrupted => truths[i] # {"RUNNING"}

\* run-read.ts: "a step the journal knows finished reads finished everywhere".
\* Read after the runner's death, a run shows each step as its journal ends it.
FinishedReadsFinished ==
    \A i \in Readers :
     At(i, "judged") /\ reader'[i].phase = "told" /\ quiet[i] /\ ~proc.alive =>
         \A s \in StepsOf(reader[i].run) :
             journal[reader[i].run][s] \in {"done", "failed", "aborted"} =>
                 reader[i].steps[s] = journal[reader[i].run][s]

\* items.ts: with no process about, the replay is offered exactly when a resume
\* would refuse the next attempt of some step without that authorization.
OfferMatchesAdmission ==
    \A i \in Readers :
     BuildItem(i) /\ quiet[i] /\ ~proc.alive /\ ~ClosureOf(ROOT, snap[ROOT], item'.status) =>
         (item'.step # NONE <=>
            /\ item'.interrupted \/ (snap[ROOT].status = "STOPPED" /\ ~snap[ROOT].stop)
            /\ \E s \in StepsOf(ROOT) \ {COMPOSE} :
                  CutAttempts(ROOT)[s] = "cut" /\ OwesWork(snap[ROOT].steps[s]))


\* closure.ts: a closure hides the snapshot it was taken on and no later one: once
\* the run moves, no later read of it is hidden by the
\* closure taken before.
MovedIsShown ==
    \A i \in Readers :
        At(i, "judged") /\ reader[i].run = ROOT /\ closure[ROOT] # 0
            /\ closure[ROOT] < reader[i].snap.at =>
                ~ClosureOf(ROOT, reader[i].snap, reader[i].seen.status)

\* A run whose runner died is told so: once the dead run is left alone, the polls
\* come to show it interrupted, and go on showing it.
DeadRun == ~proc.alive /\ ~Fresh(ROOT) /\ ~HasVerdict(snap[ROOT].status)

\* run-read.ts:43 says an interrupted reading means "the runner died": then no
\* run that has its verdict by then was ever told interrupted.
InterruptedMeansDied ==
    \A i \in Readers :
        At(i, "told") /\ reader[i].seen.interrupted => "ABORTED" \in truths[i]
=============================================================================
