---------------------------- MODULE Supervision ----------------------------
(***************************************************************************)
(* Process supervision and the end of the runner under signals:            *)
(*   shared/process/process-supervision.ts  ProcessScope, settling         *)
(*   shared/process/process-runner.ts       spawnSupervisedProcess         *)
(*   entry/composition/signals.ts, stack-stop.ts, execution.ts, runner.ts  *)
(*                                                                         *)
(* A process leads a group that may hold a descendant after it exited; its *)
(* output pipe may be held by that descendant or by a daemon that left the *)
(* group; the child, or its descendants only, may ignore TERM.  Timers     *)
(* (deadline, grace, drain) may expire at any instant they are armed.      *)
(* KILL is taken to have effect within the force wait (250 ms), so the     *)
(* force phase is the instant of the KILL.  The stop hook of the worktree  *)
(* is one more process, in a scope of its own.  Handlers and microtasks    *)
(* that follow one another without an await of a timer are one action.     *)
(***************************************************************************)
EXTENDS Naturals, FiniteSets, TLAPS

CONSTANTS Procs,       \* the processes the steps may spawn
          Hook,        \* the worktree-stop.sh hook
          MaxSignals   \* bound: SIGINT/SIGTERM received

SupervisionAssumption ==
    Hook \notin Procs /\ IsFiniteSet(Procs) /\ MaxSignals \in Nat

All == Procs \cup {Hook}

VARIABLES
    child,     \* "none", "running", "exited"
    group,     \* a descendant of the process lives in its group
    pipe,      \* who keeps its stdout open after it exited: "free", "group", "daemon"
    deaf,      \* who ignores TERM: "none", "descendant", "all"
    termed,    \* TERM was delivered to the tree
    applied,   \* the kill its supervisor applied: "none", "policy", "cleanup"
    killer,    \* its gracefulKill: "none", "grace", "over"
    settle,    \* its settle promise: "idle", "waiting", "drain", "finish", "resolved"
    tracked,   \* ProcessScope.processes, of both scopes
    shutdown,  \* shutdown of the default scope: "none", "grace"
    forced,    \* forceRequested of the default scope
    abort,     \* the first signal received during the steps, or "none"
    handler,   \* the interruption: "none", "shutdown", "stopping"
    stop,      \* StackStop: "absent", "idle", "waiting", "hook"
    stopSignals, \* signalsDuringStop
    skipped,   \* skip() killed a hook in flight
    main,      \* the runner: "steps", "reported", "exited"
    code,      \* the code reportRun returned, and process.exit took
    signals    \* signals received, all told

tree == <<child, group, pipe, deaf, termed>>
call == <<applied, killer, settle, tracked>>
end  == <<shutdown, forced, abort, handler, stop, stopSignals, skipped, main, code, signals>>
vars == <<tree, call, end>>

Sigs == {"SIGINT", "SIGTERM"}
\* Slip: the number of the signal, without the 128 of the shell convention.
BareCodeOf(s) == IF s = "SIGTERM" THEN 15 ELSE 2
CodeOf(s) == IF s = "SIGTERM" THEN 143 ELSE 130

TypeOK ==
    /\ child \in [All -> {"none", "running", "exited"}]
    /\ group \in [All -> BOOLEAN] /\ termed \in [All -> BOOLEAN]
    /\ pipe \in [All -> {"free", "group", "daemon"}]
    /\ deaf \in [All -> {"none", "descendant", "all"}]
    /\ applied \in [All -> {"none", "policy", "cleanup"}]
    /\ killer \in [All -> {"none", "grace", "over"}]
    /\ settle \in [All -> {"idle", "waiting", "drain", "finish", "resolved"}]
    /\ tracked \subseteq All /\ shutdown \in {"none", "grace"} /\ forced \in BOOLEAN
    /\ abort \in Sigs \cup {"none"} /\ handler \in {"none", "shutdown", "stopping"}
    /\ stop \in {"absent", "idle", "waiting", "hook"}
    /\ stopSignals \in 0..MaxSignals /\ signals \in 0..MaxSignals /\ skipped \in BOOLEAN
    /\ main \in {"steps", "reported", "exited"} /\ code \in {0, 1, 130, 143}

-----------------------------------------------------------------------------
(* ProcessScope. *)

\* targetIsAlive: the direct child, or a descendant left in its group.
Alive(p) == group[p] \/ child[p] = "running"

\* prune: a record leaves the set once its whole target is gone.
Pruned(s) == {p \in s : Alive(p)}
Visible == Pruned(tracked \cap Procs)

\* killTarget(SIGTERM) and killTarget(SIGKILL) on every process of s.
Term(s) == termed' = [p \in All |-> termed[p] \/ p \in s]
Kill(s) ==
    /\ child' = [p \in All |-> IF p \in s /\ child[p] = "running" THEN "exited" ELSE child[p]]
    /\ group' = [p \in All |-> group[p] /\ p \notin s]
    /\ settle' = [p \in All |-> IF p \in s /\ settle[p] = "waiting" THEN "drain" ELSE settle[p]]
    /\ tracked' = tracked \ s

-----------------------------------------------------------------------------
(* One supervised process. *)

\* The steps spawn a process unless the run was aborted.
Spawn(p) ==
    /\ main = "steps" /\ abort = "none" /\ child[p] = "none"
    /\ child' = [child EXCEPT ![p] = "running"]
    /\ group' \in {[group EXCEPT ![p] = g] : g \in BOOLEAN}
    /\ pipe' \in {[pipe EXCEPT ![p] = h] : h \in {"free", "group", "daemon"}}
    /\ deaf' \in {[deaf EXCEPT ![p] = d] : d \in {"none", "descendant", "all"}}
    /\ settle' = [settle EXCEPT ![p] = "waiting"]
    /\ tracked' = tracked \cup {p}
    /\ UNCHANGED <<termed, applied, killer, end>>

\* A missing binary: `error` settles the call with nothing to tear down.
SpawnFails(p) ==
    /\ main = "steps" /\ abort = "none" /\ child[p] = "none"
    /\ child' = [child EXCEPT ![p] = "exited"]
    /\ settle' = [settle EXCEPT ![p] = "resolved"]
    /\ UNCHANGED <<group, pipe, deaf, termed, applied, killer, tracked, end>>

\* Slip: the record is dropped at `exit`, whatever its group holds.
ExitsForgotten(p) ==
    /\ child[p] = "running"
    /\ child' = [child EXCEPT ![p] = "exited"]
    /\ settle' = [settle EXCEPT ![p] = "drain"]
    /\ tracked' = tracked \ {p}
    /\ UNCHANGED <<group, pipe, deaf, termed, applied, killer, end>>
\* The direct child exits: `exit` prunes its record and arms the drain timer.
Exits(p) ==
    /\ child[p] = "running"
    /\ child' = [child EXCEPT ![p] = "exited"]
    /\ settle' = [settle EXCEPT ![p] = "drain"]
    /\ tracked' = IF group[p] THEN tracked ELSE tracked \ {p}
    /\ UNCHANGED <<group, pipe, deaf, termed, applied, killer, end>>

ChildExits(p) == Exits(p)
ChildObeys(p) == termed[p] /\ deaf[p] # "all" /\ Exits(p)
GroupExits(p) ==
    /\ group[p] /\ group' = [group EXCEPT ![p] = FALSE]
    /\ UNCHANGED <<child, pipe, deaf, termed, call, end>>
GroupObeys(p) == termed[p] /\ deaf[p] = "none" /\ GroupExits(p)

\* gracefulKill: TERM, then poll until the tree is gone or the grace is over.
GracefulKill(p, cause) ==
    /\ applied' = [applied EXCEPT ![p] = cause]
    /\ killer' = [killer EXCEPT ![p] = IF Alive(p) THEN "grace" ELSE "over"]
    /\ tracked' = IF Alive(p) THEN tracked \cup {p} ELSE tracked \ {p}
    /\ Term(IF Alive(p) THEN {p} ELSE {})

\* finish: nothing was applied and the group still holds a descendant.
Finish(p) ==
    /\ settle' = [settle EXCEPT ![p] = "finish"]
    /\ IF applied[p] = "none" /\ Alive(p) THEN GracefulKill(p, "cleanup")
                                          ELSE UNCHANGED <<applied, killer, tracked, termed>>
    /\ UNCHANGED <<child, group, pipe, deaf, end>>

\* `close`: the last holder of the pipe is gone.
Closes(p) ==
    /\ settle[p] = "drain"
    /\ \/ pipe[p] = "free"
       \/ pipe[p] = "group" /\ ~group[p]
    /\ Finish(p)
\* Slip: the call waits for `close`, as exit alone would truncate the output.
WaitsForClose(p) == FALSE /\ settle[p] = "drain" /\ Finish(p)
\* The drain timer: `close` did not come within DEFAULT_EXIT_DRAIN_MS.
DrainExpires(p) == settle[p] = "drain" /\ Finish(p)

\* The deadline, a budget or a guard of the caller kills the tree: the first
\* kill wins, and the timer stays armed through the drain.
PolicyKill(p) ==
    /\ settle[p] \in {"waiting", "drain"} /\ applied[p] = "none" /\ main # "exited"
    /\ GracefulKill(p, "policy")
    /\ UNCHANGED <<child, group, pipe, deaf, settle, end>>

\* waitForChild: the tree is gone within the grace period, or is killed.
KillerSeesEnd(p) ==
    /\ killer[p] = "grace" /\ ~Alive(p)
    /\ killer' = [killer EXCEPT ![p] = "over"] /\ tracked' = tracked \ {p}
    /\ UNCHANGED <<tree, applied, settle, end>>
\* Slip: the wait gives up after the grace period.
GraceGivesUp(p) ==
    /\ killer[p] = "grace" /\ Alive(p) /\ main # "exited"
    /\ killer' = [killer EXCEPT ![p] = "over"]
    /\ UNCHANGED <<tree, settle, tracked, applied, end>>
GraceExpires(p) ==
    /\ killer[p] = "grace" /\ Alive(p) /\ main # "exited"
    /\ killer' = [killer EXCEPT ![p] = "over"] /\ Kill({p})
    /\ UNCHANGED <<pipe, deaf, termed, applied, end>>

\* The finalization waits for the kill in progress, then resolves.
\* Slip: it resolves while the escalation still runs.
ResolvesEarly(p) ==
    /\ settle[p] = "finish"
    /\ settle' = [settle EXCEPT ![p] = "resolved"]
    /\ UNCHANGED <<tree, applied, killer, tracked, end>>
Resolves(p) ==
    /\ settle[p] = "finish" /\ killer[p] # "grace"
    /\ settle' = [settle EXCEPT ![p] = "resolved"]
    /\ UNCHANGED <<tree, applied, killer, tracked, end>>

-----------------------------------------------------------------------------
(* Shutdown of the default scope, the stop of the services, the exit. *)

\* shutdown(): idempotent while one runs; TERM to every visible target.
StartShutdown ==
    IF shutdown = "none"
    THEN shutdown' = "grace" /\ forced' = FALSE /\ Term(Visible)
    ELSE UNCHANGED <<shutdown, forced, termed>>

\* StackStop.run(): once per process; it waits for the children, then runs the
\* hook.  Without an entered worktree it has nothing to do.
RunStop ==
    IF stop = "idle" THEN stop' = "waiting" /\ StartShutdown
                     ELSE UNCHANGED <<stop, shutdown, forced, termed>>
StopInProgress == stop \in {"waiting", "hook"}


\* process.exit: the `exit` listener kills the groups the default scope sees.
ExitWith(c) == main' = "exited" /\ code' = c /\ Kill(Visible)

\* Slip: the survivors of the grace period are left to the exit listener.
NoSurvivors == {}
\* The shutdown loop ends: no live child, a forced kill, or the grace is over
\* and the survivors are killed.  The stop waiting on it spawns the hook; the
\* interruption waiting on it calls stackStop.run(), and exits if none is left.
Survivors == Visible

ShutdownOver ==
    /\ shutdown = "grace" /\ main # "exited" /\ ~(handler = "shutdown" /\ stop = "absent")
    /\ LET victims == Survivors
           hook == stop = "waiting"
       IN /\ child' = [p \in All |-> IF p = Hook /\ hook THEN "running"
                                     ELSE IF p \in victims /\ child[p] = "running" THEN "exited"
                                     ELSE child[p]]
          /\ group' = [p \in All |-> group[p] /\ p \notin victims]
          /\ deaf' \in IF hook THEN {[deaf EXCEPT ![Hook] = d] : d \in {"none", "all"}} ELSE {deaf}
          /\ settle' = [p \in All |-> IF p = Hook /\ hook THEN "waiting"
                                      ELSE IF p \in victims /\ settle[p] = "waiting" THEN "drain"
                                      ELSE settle[p]]
          /\ tracked' = (Pruned(tracked) \ victims) \cup IF hook THEN {Hook} ELSE {}
          /\ stop' = IF hook THEN "hook" ELSE "waiting"
          /\ shutdown' = IF hook THEN "none" ELSE "grace"
    /\ forced' = FALSE
    /\ handler' = IF handler = "shutdown" THEN "stopping" ELSE handler
    /\ UNCHANGED <<pipe, termed, applied, killer, abort, stopSignals, skipped, main, code, signals>>

InterruptionExits ==
    /\ shutdown = "grace" /\ main # "exited" /\ handler = "shutdown" /\ stop = "absent"
    /\ ExitWith(CodeOf(abort))
    /\ UNCHANGED <<pipe, deaf, termed, applied, killer, shutdown, forced, abort, handler, stop,
                   stopSignals, skipped, signals>>

\* The hook settled: whoever awaits the stop exits in the same turn, main with
\* the code of its report, the interruption with that of its signal.
\* Slip: an interruption is always exit code 130.
FinalCodeInt == IF main = "reported" THEN code ELSE 130
FinalCode == IF main = "reported" THEN code ELSE CodeOf(abort)
HookOver ==
    /\ stop = "hook" /\ settle[Hook] = "resolved" /\ main # "exited"
    /\ ExitWith(FinalCode)
    /\ UNCHANGED <<pipe, deaf, termed, applied, killer, shutdown, forced, abort, handler, stop,
                   stopSignals, skipped, signals>>

\* reportRun, then stackStop.run() unless the run passed.  A run that passed,
\* or a runner without a stop, exits in the same turn.
Settled(p) == settle[p] \in {"idle", "resolved"}
ReportCodes == IF abort # "none" THEN {CodeOf(abort)} ELSE {0, 1}
Reports ==
    /\ main = "steps" /\ \A p \in Procs : Settled(p)
    /\ \E c \in ReportCodes :
           IF c = 0 \/ stop = "absent"
           THEN ExitWith(c) /\ UNCHANGED <<stop, shutdown, forced, termed>>
           ELSE main' = "reported" /\ code' = c /\ RunStop
                /\ UNCHANGED <<child, group, settle, tracked>>
    /\ UNCHANGED <<pipe, deaf, applied, killer, abort, handler, stopSignals, skipped, signals>>

\* A signal while the stop runs: the first one warns, the second one skips the
\* hook, and so does the first after an interruption.
\* Slip: every signal during the stop skips it.
SkipsAtOnce == TRUE
Skips == stopSignals > 0 \/ handler # "none"

SignalDuringStop ==
    /\ StopInProgress /\ stopSignals' = stopSignals + 1
    /\ IF Skips /\ Hook \in Pruned(tracked) THEN Kill({Hook}) /\ skipped' = TRUE
                                            ELSE UNCHANGED <<child, group, settle, tracked, skipped>>
    /\ UNCHANGED <<pipe, deaf, termed, applied, killer, shutdown, forced, abort, handler, stop, main, code>>

\* The first signal during the steps: the abort is requested and recorded, the
\* children get TERM.  What follows is ShutdownOver, then HandlerExits.
FirstSignal(s) ==
    /\ ~StopInProgress /\ handler = "none"
    /\ abort' = s /\ handler' = "shutdown" /\ StartShutdown
    /\ UNCHANGED <<child, group, pipe, deaf, call, stop, stopSignals, skipped, main, code>>

\* requestAbort keeps the first signal.
NextSignal(s) ==
    /\ ~StopInProgress /\ handler # "none"
    /\ forced' = TRUE /\ Kill(Visible)
    /\ UNCHANGED <<pipe, deaf, termed, applied, killer, shutdown, abort, handler, stop, stopSignals,
                   skipped, main, code>>

Signal ==
    /\ main # "exited" /\ signals < MaxSignals /\ signals' = signals + 1
    /\ SignalDuringStop \/ \E s \in Sigs : FirstSignal(s) \/ NextSignal(s)

-----------------------------------------------------------------------------
Init ==
    /\ child = [p \in All |-> "none"] /\ group = [p \in All |-> FALSE]
    /\ pipe = [p \in All |-> "free"] /\ deaf = [p \in All |-> "none"]
    /\ termed = [p \in All |-> FALSE] /\ applied = [p \in All |-> "none"]
    /\ killer = [p \in All |-> "none"] /\ settle = [p \in All |-> "idle"]
    /\ tracked = {} /\ shutdown = "none" /\ forced = FALSE /\ abort = "none"
    /\ handler = "none" /\ stop \in {"absent", "idle"} /\ stopSignals = 0
    /\ skipped = FALSE /\ main = "steps" /\ code = 0 /\ signals = 0

Runner(p) == Closes(p) \/ DrainExpires(p) \/ KillerSeesEnd(p) \/ GraceExpires(p) \/ Resolves(p)
Next ==
    \/ \E p \in Procs : Spawn(p) \/ SpawnFails(p)
    \/ \E p \in All : ChildExits(p) \/ GroupExits(p) \/ ChildObeys(p) \/ GroupObeys(p)
    \/ \E p \in All : PolicyKill(p) \/ Runner(p)
    \/ ShutdownOver \/ HookOver \/ InterruptionExits \/ Reports \/ Signal

\* Timers fire, polls run and promises continue; a deadline of the hook too.
\* Nothing makes a child exit by itself, and no signal has to come.
Fairness ==
    /\ \A p \in All : WF_vars(Runner(p)) /\ WF_vars(ChildObeys(p)) /\ WF_vars(GroupObeys(p))
    /\ WF_vars(PolicyKill(Hook)) /\ WF_vars(ShutdownOver) /\ WF_vars(HookOver)
    /\ WF_vars(InterruptionExits)

Spec == Init /\ [][Next]_vars /\ Fairness

-----------------------------------------------------------------------------
\* A call that resolved left nothing behind: neither the process nor a
\* descendant in its group, whichever of exit, close, drain, deadline, cleanup
\* and shutdown came first.
ResolvedLeavesNothing ==
    \A p \in All : settle[p] = "resolved" => ~Alive(p)

\* Nothing the runner spawned outlives it, the hook included: whoever reaches
\* process.exit first, main or the interruption.
NothingOutlivesRunner == main = "exited" => \A p \in All : ~Alive(p)

\* The services stop after the last process of the steps: a hook in flight
\* never runs beside a live child or descendant.
ServicesStopLast == child[Hook] = "running" => \A p \in Procs : ~Alive(p)

\* An interrupted run exits with the code of the signal that interrupted its
\* steps, and a signal after the report never changes the code of the report.
CodeNamesFirstSignal ==
    /\ abort # "none" => abort' = abort
    /\ main = "reported" => abort' = abort /\ code' = code
    /\ main' = "exited" /\ abort' # "none" => code' = CodeOf(abort')

\* One Ctrl+C never cuts the stop of the services short.
OneSignalSparesTheHook == skipped => signals >= 2

\* A second signal means the hook is skipped: it is not started afterwards.
SecondSignalSkipsHook ==
    signals >= 2 /\ child[Hook] = "none" => child'[Hook] = "none"

----------------------------------------------------------------------------
(* The proofs: each action keeps the five parts of SupervisionInv.         *)

\* What a call waits for and what was killed follow the process.
Phased ==
    \A p \in All :
        /\ child[p] = "none" <=> settle[p] = "idle"
        /\ child[p] = "running" <=> settle[p] = "waiting"
        /\ child[p] = "none" => ~group[p] /\ killer[p] = "none"
        /\ applied[p] = "none" <=> killer[p] = "none"
\* A kill that is over, a call that ends without one, a call that resolved: the
\* whole tree is gone.  What lives is tracked.
Gone ==
    \A p \in All :
        /\ killer[p] = "over" => ~Alive(p)
        /\ settle[p] = "finish" /\ applied[p] = "none" => ~Alive(p)
        /\ settle[p] = "resolved" => ~Alive(p)
        /\ Alive(p) => p \in tracked
\* The hook runs once its stop killed what the steps left, and nothing is spawned
\* beside it: the steps are reported, or aborted.
Ended ==
    /\ child[Hook] # "none" <=> stop = "hook"
    /\ stop = "hook" => shutdown = "none" /\ \A p \in Procs : ~Alive(p)
    /\ StopInProgress => main # "steps" \/ abort # "none"
    /\ shutdown = "grace" => stop = "waiting" \/ abort # "none"
    /\ main = "exited" => \A p \in All : ~Alive(p)
\* The code of a runner that reported is that of its first signal; every signal
\* during the stop is counted, and so is the one that interrupted the steps.
Answered ==
    /\ handler = "none" <=> abort = "none"
    /\ main = "reported" => StopInProgress
    /\ main # "steps" /\ abort # "none" => code = CodeOf(abort)
    /\ stopSignals + (IF handler = "none" THEN 0 ELSE 1) <= signals
    /\ skipped => signals >= 2
SupervisionInv == TypeOK /\ Phased /\ Gone /\ Ended /\ Answered

\* killTarget(SIGKILL) leaves nothing of what it is given and touches nothing else.
LEMMA KillTypes ==
    ASSUME SupervisionInv, NEW s \in SUBSET All, Kill(s)
    PROVE  /\ child' \in [All -> {"none", "running", "exited"}]
           /\ group' \in [All -> BOOLEAN]
           /\ settle' \in [All -> {"idle", "waiting", "drain", "finish", "resolved"}]
           /\ tracked' \subseteq All
           /\ \A p \in All :
                /\ child'[p] = IF p \in s /\ child[p] = "running" THEN "exited" ELSE child[p]
                /\ group'[p] <=> group[p] /\ p \notin s
                /\ settle'[p] = IF p \in s /\ settle[p] = "waiting" THEN "drain" ELSE settle[p]
                /\ p \in tracked' <=> p \in tracked /\ p \notin s
<1>1. /\ child \in [All -> {"none", "running", "exited"}] /\ group \in [All -> BOOLEAN]
      /\ settle \in [All -> {"idle", "waiting", "drain", "finish", "resolved"}]
      /\ tracked \subseteq All
  BY DEF SupervisionInv, TypeOK
<1>2. child' \in [All -> {"none", "running", "exited"}]
  BY <1>1 DEF Kill
<1>3. group' \in [All -> BOOLEAN]
  BY DEF Kill
<1>4. settle' \in [All -> {"idle", "waiting", "drain", "finish", "resolved"}]
  BY <1>1 DEF Kill
<1>5. tracked' \subseteq All
  BY <1>1 DEF Kill
<1>6. \A p \in All : /\ child'[p] = IF p \in s /\ child[p] = "running" THEN "exited" ELSE child[p]
                     /\ group'[p] <=> group[p] /\ p \notin s
                     /\ settle'[p] = IF p \in s /\ settle[p] = "waiting" THEN "drain" ELSE settle[p]
                     /\ p \in tracked' <=> p \in tracked /\ p \notin s
  BY DEF Kill
<1> QED BY <1>2, <1>3, <1>4, <1>5, <1>6

\* A KILL that changes nothing else of the calls.
LEMMA KillKeeps ==
    ASSUME SupervisionInv, NEW s \in SUBSET All, Kill(s), UNCHANGED <<applied, killer>>
    PROVE  /\ Phased' /\ Gone'
           /\ \A p \in All : (Alive(p)' => Alive(p)) /\ (p \in s => ~Alive(p)')
           /\ child'[Hook] # "none" <=> child[Hook] # "none"
<1>1. Phased'
  BY KillTypes DEF SupervisionInv, Phased
<1>2. \A p \in All : (Alive(p)' => Alive(p)) /\ (p \in s => ~Alive(p)')
  BY KillTypes DEF SupervisionInv, TypeOK, Alive
<1>3. Gone'
  BY <1>2, KillTypes DEF SupervisionInv, Phased, Gone
<1> QED BY <1>1, <1>2, <1>3, KillTypes DEF All

LEMMA SupervisionInit == SupervisionAssumption /\ Init => SupervisionInv
<1> SUFFICES ASSUME SupervisionAssumption, Init PROVE SupervisionInv
  OBVIOUS
<1>1. TypeOK
  <2>1. group \in [All -> BOOLEAN] /\ termed \in [All -> BOOLEAN]
    BY DEF Init
  <2>2. 0 \in 0..MaxSignals
    BY DEF SupervisionAssumption
  <2> QED BY <2>1, <2>2 DEF Init, TypeOK
<1>2. \A p \in All : ~Alive(p)
  BY DEF Init, Alive
<1>3. Phased /\ Gone
  BY <1>2 DEF Init, Phased, Gone
<1>4. Ended /\ Answered
  BY <1>2 DEF Init, Ended, Answered, StopInProgress, All
<1> QED BY <1>1, <1>3, <1>4 DEF SupervisionInv

\* One process, outside of a shutdown: its steps leave `end` alone.
LEMMA ProcessKeeps ==
    ASSUME SupervisionInv, UNCHANGED end, Phased', Gone',
           child' \in [All -> {"none", "running", "exited"}], group' \in [All -> BOOLEAN],
           pipe' \in [All -> {"free", "group", "daemon"}],
           deaf' \in [All -> {"none", "descendant", "all"}], termed' \in [All -> BOOLEAN],
           applied' \in [All -> {"none", "policy", "cleanup"}],
           killer' \in [All -> {"none", "grace", "over"}],
           settle' \in [All -> {"idle", "waiting", "drain", "finish", "resolved"}],
           tracked' \subseteq All,
           \A p \in All : Alive(p)' => Alive(p) \/ (p \in Procs /\ main = "steps" /\ abort = "none"),
           child'[Hook] # "none" <=> child[Hook] # "none"
    PROVE  SupervisionInv'
<1>1. TypeOK'
  BY DEF SupervisionInv, TypeOK, end
<1>2. Ended'
  BY DEF SupervisionInv, Ended, end, StopInProgress, All
<1>3. Answered'
  BY DEF SupervisionInv, Answered, end, StopInProgress
<1> QED BY <1>1, <1>2, <1>3 DEF SupervisionInv

LEMMA SpawnKeeps ==
    ASSUME SupervisionAssumption, SupervisionInv, NEW p \in Procs, Spawn(p) \/ SpawnFails(p)
    PROVE  SupervisionInv'
<1>1. p \in All /\ p # Hook
  BY DEF SupervisionAssumption, All
<1>2. CASE Spawn(p)
  <2>1. PICK g \in BOOLEAN, h \in {"free", "group", "daemon"}, d \in {"none", "descendant", "all"} :
          group' = [group EXCEPT ![p] = g] /\ pipe' = [pipe EXCEPT ![p] = h] /\ deaf' = [deaf EXCEPT ![p] = d]
    BY <1>2 DEF Spawn
  <2>2. Phased' /\ Gone'
    BY <1>1, <1>2, <2>1 DEF Spawn, SupervisionInv, TypeOK, Phased, Gone, Alive
  <2> QED BY <1>1, <1>2, <2>1, <2>2, ProcessKeeps DEF Spawn, SupervisionInv, TypeOK, Alive, All
<1>3. CASE SpawnFails(p)
  <2>2. Phased' /\ Gone'
    BY <1>1, <1>3 DEF SpawnFails, SupervisionInv, TypeOK, Phased, Gone, Alive
  <2> QED BY <1>1, <1>3, <2>2, ProcessKeeps DEF SpawnFails, SupervisionInv, TypeOK, Alive, All
<1> QED BY <1>2, <1>3

LEMMA ExitKeeps ==
    ASSUME SupervisionInv, NEW p \in All, Exits(p) \/ GroupExits(p)
    PROVE  SupervisionInv'
<1>1. CASE Exits(p)
  <2>1. Phased' /\ Gone'
    BY <1>1 DEF Exits, SupervisionInv, TypeOK, Phased, Gone, Alive
  <2> QED BY <1>1, <2>1, ProcessKeeps DEF Exits, SupervisionInv, TypeOK, Alive
<1>2. CASE GroupExits(p)
  <2>1. Phased' /\ Gone'
    BY <1>2 DEF GroupExits, call, SupervisionInv, TypeOK, Phased, Gone, Alive
  <2> QED BY <1>2, <2>1, ProcessKeeps DEF GroupExits, call, SupervisionInv, TypeOK, Alive
<1> QED BY <1>1, <1>2

\* gracefulKill, from a deadline or a guard, or for the cleanup of a call.
LEMMA GracefulKillTypes ==
    ASSUME SupervisionInv, NEW p \in All, NEW cause \in {"policy", "cleanup"}, GracefulKill(p, cause)
    PROVE  /\ applied' \in [All -> {"none", "policy", "cleanup"}]
           /\ killer' \in [All -> {"none", "grace", "over"}]
           /\ tracked' \subseteq All /\ termed' \in [All -> BOOLEAN]
           /\ applied'[p] # "none" /\ killer'[p] # "none" /\ (killer'[p] = "over" => ~Alive(p))
           /\ \A q \in All : /\ q # p => applied'[q] = applied[q] /\ killer'[q] = killer[q]
                             /\ Alive(q) => q \in tracked'
BY DEF GracefulKill, Term, SupervisionInv, TypeOK, Gone

LEMMA CallKeeps ==
    ASSUME SupervisionInv, NEW p \in All,
           Closes(p) \/ DrainExpires(p) \/ PolicyKill(p) \/ KillerSeesEnd(p) \/ Resolves(p)
    PROVE  SupervisionInv'
<1>1. CASE settle[p] = "drain" /\ Finish(p)
  <2>1. CASE applied[p] = "none" /\ Alive(p)
    <3>1. GracefulKill(p, "cleanup")
      BY <1>1, <2>1 DEF Finish
    <3>2. Phased' /\ Gone'
      BY <1>1, <2>1, <3>1, GracefulKillTypes DEF Finish, SupervisionInv, TypeOK, Phased, Gone, Alive
    <3> QED BY <1>1, <3>1, <3>2, GracefulKillTypes, ProcessKeeps DEF Finish, SupervisionInv, TypeOK, Alive
  <2>2. CASE ~(applied[p] = "none" /\ Alive(p))
    <3>1. UNCHANGED <<applied, killer, tracked, termed>>
      BY <1>1, <2>2 DEF Finish
    <3>2. Phased' /\ Gone'
      BY <1>1, <2>2, <3>1 DEF Finish, SupervisionInv, TypeOK, Phased, Gone, Alive
    <3> QED BY <1>1, <3>1, <3>2, ProcessKeeps DEF Finish, SupervisionInv, TypeOK, Alive
  <2> QED BY <2>1, <2>2
<1>2. CASE PolicyKill(p)
  <2>1. GracefulKill(p, "policy")
    BY <1>2 DEF PolicyKill
  <2>2. Phased' /\ Gone'
    BY <1>2, <2>1, GracefulKillTypes DEF PolicyKill, SupervisionInv, TypeOK, Phased, Gone, Alive
  <2> QED BY <1>2, <2>1, <2>2, GracefulKillTypes, ProcessKeeps DEF PolicyKill, SupervisionInv, TypeOK, Alive
<1>3. CASE KillerSeesEnd(p)
  <2>1. Phased' /\ Gone'
    BY <1>3 DEF KillerSeesEnd, tree, SupervisionInv, TypeOK, Phased, Gone, Alive
  <2> QED BY <1>3, <2>1, ProcessKeeps DEF KillerSeesEnd, tree, SupervisionInv, TypeOK, Alive
<1>4. CASE Resolves(p)
  <2>1. Phased' /\ Gone'
    BY <1>4 DEF Resolves, tree, SupervisionInv, TypeOK, Phased, Gone, Alive
  <2> QED BY <1>4, <2>1, ProcessKeeps DEF Resolves, tree, SupervisionInv, TypeOK, Alive
<1> QED BY <1>1, <1>2, <1>3, <1>4 DEF Closes, DrainExpires

LEMMA GraceKeeps ==
    ASSUME SupervisionInv, NEW p \in All, GraceExpires(p)
    PROVE  SupervisionInv'
<1>1. Kill({p})
  BY DEF GraceExpires
<1>2. Phased' /\ Gone'
  BY <1>1, KillTypes DEF GraceExpires, SupervisionInv, TypeOK, Phased, Gone, Alive
<1> QED BY <1>1, <1>2, KillTypes, ProcessKeeps DEF GraceExpires, SupervisionInv, TypeOK, Alive, All

\* process.exit kills what the default scope sees, which is what lives when the
\* hook does not.
LEMMA ExitWithKeeps ==
    ASSUME SupervisionInv, NEW c \in {0, 1, 130, 143}, ExitWith(c), ~Alive(Hook), main # "exited",
           abort # "none" => c = CodeOf(abort),
           UNCHANGED <<pipe, deaf, applied, killer, abort, handler, stopSignals, skipped, signals>>,
           UNCHANGED <<termed, shutdown, forced, stop>>
    PROVE  SupervisionInv'
<1>1. Kill(Visible) /\ main' = "exited" /\ code' = c /\ Visible \subseteq All
  BY DEF ExitWith, Visible, Pruned, All
<1>2. /\ Phased' /\ Gone'
      /\ \A p \in All : (Alive(p)' => Alive(p)) /\ (p \in Visible => ~Alive(p)')
      /\ child'[Hook] # "none" <=> child[Hook] # "none"
  BY <1>1, KillKeeps
<1>3. TypeOK'
  BY <1>1, KillTypes DEF SupervisionInv, TypeOK
<1>4. \A p \in All : ~Alive(p)'
  <2>1. \A p \in Procs : Alive(p) => p \in Visible
    BY DEF SupervisionInv, Gone, Visible, Pruned, All
  <2> QED BY <1>2, <2>1 DEF All
<1>5. Ended'
  BY <1>1, <1>2, <1>4 DEF SupervisionInv, Ended, StopInProgress, All
<1>6. Answered'
  BY <1>1 DEF SupervisionInv, Answered
<1> QED BY <1>2, <1>3, <1>5, <1>6 DEF SupervisionInv

\* shutdown() starts, or runs already.
LEMMA ShutdownStarts ==
    ASSUME SupervisionInv, StartShutdown
    PROVE  /\ shutdown' = "grace" /\ forced' \in BOOLEAN
           /\ termed' \in [All -> BOOLEAN]
<1>1. shutdown \in {"none", "grace"} /\ forced \in BOOLEAN /\ termed \in [All -> BOOLEAN]
  BY DEF SupervisionInv, TypeOK
<1>2. CASE shutdown = "none"
  <2>1. shutdown' = "grace" /\ forced' = FALSE /\ Term(Visible)
    BY <1>2 DEF StartShutdown
  <2>2. termed' \in [All -> BOOLEAN]
    BY <2>1 DEF Term
  <2> QED BY <2>1, <2>2
<1>3. CASE shutdown # "none"
  BY <1>1, <1>3 DEF StartShutdown
<1> QED BY <1>2, <1>3

\* The shutdown is over: its survivors are killed, then the hook starts or the
\* interruption asks for the stop.
LEMMA ShutdownOverKeeps ==
    ASSUME SupervisionAssumption, SupervisionInv, ShutdownOver
    PROVE  SupervisionInv'
<1> DEFINE hook == stop = "waiting"
           s == Visible
<1>1. /\ shutdown = "grace" /\ main # "exited"
      /\ s \subseteq Procs /\ Hook \notin s /\ Hook \in All
      /\ \A p \in Procs : Alive(p) => p \in s
  BY DEF ShutdownOver, SupervisionAssumption, Visible, Pruned, All, SupervisionInv, Gone
<1>2. /\ child[Hook] = "none" /\ stop # "hook"
      /\ hook \/ abort # "none"
  BY <1>1 DEF SupervisionInv, Ended
<1>3. /\ \A p \in All :
           /\ child'[p] = IF p = Hook /\ hook THEN "running"
                          ELSE IF p \in s /\ child[p] = "running" THEN "exited" ELSE child[p]
           /\ group'[p] <=> group[p] /\ p \notin s
           /\ settle'[p] = IF p = Hook /\ hook THEN "waiting"
                           ELSE IF p \in s /\ settle[p] = "waiting" THEN "drain" ELSE settle[p]
      /\ tracked' = (Pruned(tracked) \ s) \cup IF hook THEN {Hook} ELSE {}
      /\ stop' = (IF hook THEN "hook" ELSE "waiting")
      /\ shutdown' = (IF hook THEN "none" ELSE "grace")
      /\ forced' = FALSE /\ handler' = IF handler = "shutdown" THEN "stopping" ELSE handler
      /\ UNCHANGED <<pipe, termed, applied, killer, abort, stopSignals, skipped, main, code, signals>>
  BY DEF ShutdownOver, Survivors
<1>4. \A p \in Procs : ~Alive(p)'
  BY <1>1, <1>3 DEF Alive, All, SupervisionAssumption, SupervisionInv, TypeOK
<1>5. TypeOK'
  <2>1. /\ child' \in [All -> {"none", "running", "exited"}] /\ group' \in [All -> BOOLEAN]
        /\ settle' \in [All -> {"idle", "waiting", "drain", "finish", "resolved"}]
        /\ deaf' \in [All -> {"none", "descendant", "all"}]
    BY DEF ShutdownOver, SupervisionInv, TypeOK
  <2>2. tracked' \subseteq All
    BY <1>1, <1>3 DEF Pruned, SupervisionInv, TypeOK
  <2>3. /\ stop' \in {"absent", "idle", "waiting", "hook"} /\ shutdown' \in {"none", "grace"}
        /\ forced' \in BOOLEAN
        /\ UNCHANGED <<pipe, termed, applied, killer, abort, stopSignals, skipped, main, code, signals>>
    BY <1>3
  <2>4. handler' \in {"none", "shutdown", "stopping"}
    <3>1. handler \in {"none", "shutdown", "stopping"}
      BY DEF SupervisionInv, TypeOK
    <3> QED BY <1>3, <3>1
  <2>5. TypeOK
    BY DEF SupervisionInv
  <2> QED BY <2>1, <2>2, <2>3, <2>4, <2>5 DEF TypeOK
<1>6. Phased'
  BY <1>1, <1>2, <1>3 DEF SupervisionInv, Phased
<1>7. Gone'
  <2>1. Alive(Hook)' => hook
    BY <1>1, <1>2, <1>3 DEF Alive, SupervisionInv, Phased
  <2>2. \A p \in Procs : p \in All /\ p # Hook
    BY DEF SupervisionAssumption, All
  <2>3. ASSUME NEW p \in Procs
        PROVE  /\ killer'[p] = "over" => ~Alive(p)'
               /\ settle'[p] = "finish" /\ applied'[p] = "none" => ~Alive(p)'
               /\ settle'[p] = "resolved" => ~Alive(p)'
               /\ Alive(p)' => p \in tracked'
    BY <1>4
  <2>4. /\ killer'[Hook] = "none" /\ settle'[Hook] \in {"idle", "waiting"}
        /\ Alive(Hook)' => Hook \in tracked'
    BY <1>1, <1>2, <1>3, <2>1 DEF SupervisionInv, Phased
  <2> QED BY <2>3, <2>4 DEF Gone, All
<1>8. Ended'
  BY <1>1, <1>2, <1>3, <1>4 DEF SupervisionInv, Ended, StopInProgress
<1>9. Answered'
  BY <1>1, <1>2, <1>3 DEF SupervisionInv, Answered, StopInProgress
<1> QED BY <1>5, <1>6, <1>7, <1>8, <1>9 DEF SupervisionInv

LEMMA CodesTyped == \A s \in Sigs : CodeOf(s) \in {130, 143}
BY DEF Sigs, CodeOf

\* The runner exits: from an interruption with nothing to stop, after the hook,
\* or from its report.
LEMMA EndKeeps ==
    ASSUME SupervisionAssumption, SupervisionInv, InterruptionExits \/ HookOver \/ Reports
    PROVE  SupervisionInv'
<1>1. /\ Hook \in All /\ (stop # "hook" => ~Alive(Hook))
      /\ abort # "none" => CodeOf(abort) \in {130, 143}
      /\ code \in {0, 1, 130, 143}
  BY CodesTyped DEF All, SupervisionInv, TypeOK, Ended, Phased, Alive
<1>2. CASE InterruptionExits
  <2>1. handler # "none" /\ abort # "none" /\ stop = "absent" /\ main # "exited"
    BY <1>2 DEF InterruptionExits, SupervisionInv, Answered
  <2> QED BY <1>1, <1>2, <2>1, ExitWithKeeps DEF InterruptionExits
<1>3. CASE HookOver
  <2>1. ~Alive(Hook) /\ main # "exited" /\ ExitWith(FinalCode)
    BY <1>1, <1>3 DEF HookOver, SupervisionInv, Gone
  <2>2. FinalCode \in {0, 1, 130, 143} /\ (abort # "none" => FinalCode = CodeOf(abort))
    BY <1>1, <1>3, <2>1 DEF HookOver, FinalCode, SupervisionInv, Answered, Ended, StopInProgress, TypeOK
  <2> QED BY <1>3, <2>1, <2>2, ExitWithKeeps DEF HookOver
<1>4. CASE Reports
  <2>1. PICK c \in ReportCodes :
          IF c = 0 \/ stop = "absent"
          THEN ExitWith(c) /\ UNCHANGED <<stop, shutdown, forced, termed>>
          ELSE main' = "reported" /\ code' = c /\ RunStop /\ UNCHANGED <<child, group, settle, tracked>>
    BY <1>4 DEF Reports
  <2>2. /\ main = "steps"
        /\ UNCHANGED <<pipe, deaf, applied, killer, abort, handler, stopSignals, skipped, signals>>
    BY <1>4 DEF Reports
  <2>3. c \in {0, 1, 130, 143} /\ (abort # "none" => c = CodeOf(abort) /\ c # 0)
    BY <1>1 DEF ReportCodes
  <2>4. CASE c = 0 \/ stop = "absent"
    <3>1. stop # "hook"
      BY <2>2, <2>3, <2>4 DEF SupervisionInv, Ended, StopInProgress
    <3> QED BY <1>1, <2>1, <2>2, <2>3, <2>4, <3>1, ExitWithKeeps
  <2>5. CASE ~(c = 0 \/ stop = "absent")
    <3>1. main' = "reported" /\ code' = c /\ RunStop /\ UNCHANGED <<child, group, settle, tracked>>
      BY <2>1, <2>5
    <3>2. /\ stop' = IF stop = "idle" THEN "waiting" ELSE stop
          /\ stop' \in {"waiting", "hook"}
          /\ shutdown' = IF stop = "idle" THEN "grace" ELSE shutdown
          /\ forced' \in BOOLEAN /\ termed' \in [All -> BOOLEAN]
      BY <2>5, <3>1, ShutdownStarts DEF RunStop, SupervisionInv, TypeOK
    <3>3. \A p \in All : Alive(p)' <=> Alive(p)
      BY <3>1 DEF Alive
    <3>4. TypeOK' /\ Phased' /\ Gone'
      BY <2>2, <2>3, <3>1, <3>2, <3>3 DEF SupervisionInv, TypeOK, Phased, Gone
    <3>5. Ended' /\ Answered'
      BY <2>2, <2>3, <3>1, <3>2, <3>3 DEF SupervisionInv, TypeOK, Ended, Answered, StopInProgress, All
    <3> QED BY <3>4, <3>5 DEF SupervisionInv
  <2> QED BY <2>4, <2>5
<1> QED BY <1>2, <1>3, <1>4

\* A signal: during the stop, the first of the steps, the next ones.
LEMMA SignalKeeps ==
    ASSUME SupervisionAssumption, SupervisionInv, Signal
    PROVE  SupervisionInv'
<1>1. /\ main # "exited" /\ signals < MaxSignals /\ signals' = signals + 1
      /\ signals \in Nat /\ stopSignals \in Nat /\ MaxSignals \in Nat /\ Hook \in All
  BY DEF Signal, SupervisionAssumption, SupervisionInv, TypeOK, All
<1>2. CASE SignalDuringStop
  <2>1. /\ StopInProgress /\ stopSignals' = stopSignals + 1
        /\ UNCHANGED <<pipe, deaf, termed, applied, killer, shutdown, forced, abort, handler, stop, main, code>>
    BY <1>2 DEF SignalDuringStop
  <2>2. stopSignals' \in 0..MaxSignals /\ signals' \in 0..MaxSignals
    BY <1>1, <2>1 DEF SupervisionInv, Answered
  <2>3. CASE Skips /\ Hook \in Pruned(tracked)
    <3>1. Kill({Hook}) /\ skipped' = TRUE
      BY <1>2, <2>3 DEF SignalDuringStop
    <3>2. /\ Phased' /\ Gone' /\ \A p \in All : Alive(p)' => Alive(p)
          /\ child'[Hook] # "none" <=> child[Hook] # "none"
      BY <1>1, <2>1, <3>1, KillKeeps
    <3>3. TypeOK'
      BY <1>1, <2>1, <2>2, <3>1, KillTypes DEF SupervisionInv, TypeOK
    <3>4. Ended'
      BY <1>1, <2>1, <3>2 DEF SupervisionInv, Ended, StopInProgress, All
    <3>5. Answered'
      BY <1>1, <2>1, <2>3, <3>1 DEF SupervisionInv, Answered, StopInProgress, Skips
    <3> QED BY <3>2, <3>3, <3>4, <3>5 DEF SupervisionInv
  <2>4. CASE ~(Skips /\ Hook \in Pruned(tracked))
    <3>1. UNCHANGED <<child, group, settle, tracked, skipped>>
      BY <1>2, <2>4 DEF SignalDuringStop
    <3>2. \A p \in All : Alive(p)' <=> Alive(p)
      BY <3>1 DEF Alive
    <3>3. TypeOK' /\ Phased' /\ Gone'
      BY <2>1, <2>2, <3>1, <3>2 DEF SupervisionInv, TypeOK, Phased, Gone
    <3>4. Ended'
      BY <1>1, <2>1, <3>1, <3>2 DEF SupervisionInv, Ended, StopInProgress, All
    <3>5. Answered'
      BY <1>1, <2>1, <3>1 DEF SupervisionInv, Answered, StopInProgress
    <3> QED BY <3>3, <3>4, <3>5 DEF SupervisionInv
  <2> QED BY <2>3, <2>4
<1>3. ASSUME NEW s \in Sigs, FirstSignal(s)
      PROVE  SupervisionInv'
  <2>1. /\ ~StopInProgress /\ handler = "none" /\ abort = "none" /\ abort' = s /\ s # "none"
        /\ handler' = "shutdown" /\ shutdown' = "grace" /\ forced' \in BOOLEAN /\ termed' \in [All -> BOOLEAN]
        /\ UNCHANGED <<child, group, pipe, deaf, call, stop, stopSignals, skipped, main, code>>
    BY <1>3, ShutdownStarts DEF FirstSignal, Sigs, SupervisionInv, Answered
  <2>2. main = "steps"
    BY <1>1, <2>1 DEF SupervisionInv, Answered, TypeOK
  <2>3. \A p \in All : Alive(p)' <=> Alive(p)
    BY <2>1 DEF Alive
  <2>4. TypeOK' /\ Phased' /\ Gone'
    BY <1>1, <2>1, <2>3 DEF SupervisionInv, TypeOK, Phased, Gone, call
  <2>5. Ended'
    BY <1>1, <2>1, <2>2, <2>3 DEF SupervisionInv, Ended, StopInProgress, All
  <2>6. Answered'
    BY <1>1, <2>1, <2>2 DEF SupervisionInv, Answered, StopInProgress
  <2> QED BY <2>4, <2>5, <2>6 DEF SupervisionInv
<1>4. ASSUME NEW s \in Sigs, NextSignal(s)
      PROVE  SupervisionInv'
  <2>1. /\ ~StopInProgress /\ handler # "none" /\ forced' = TRUE /\ Kill(Visible)
        /\ UNCHANGED <<pipe, deaf, termed, applied, killer, shutdown, abort, handler, stop, stopSignals,
                       skipped, main, code>>
    BY <1>4 DEF NextSignal
  <2>2. Visible \subseteq All
    BY DEF Visible, Pruned, All
  <2>3. /\ Phased' /\ Gone' /\ \A p \in All : Alive(p)' => Alive(p)
        /\ child'[Hook] # "none" <=> child[Hook] # "none"
    BY <2>1, <2>2, KillKeeps
  <2>4. TypeOK'
    BY <1>1, <2>1, <2>2, KillTypes DEF SupervisionInv, TypeOK
  <2>5. Ended'
    BY <1>1, <2>1, <2>3 DEF SupervisionInv, Ended, StopInProgress, All
  <2>6. Answered'
    BY <1>1, <2>1 DEF SupervisionInv, Answered, StopInProgress
  <2> QED BY <2>3, <2>4, <2>5, <2>6 DEF SupervisionInv
<1> QED BY <1>2, <1>3, <1>4 DEF Signal

LEMMA SupervisionNext == SupervisionAssumption /\ SupervisionInv /\ [Next]_vars => SupervisionInv'
<1> SUFFICES ASSUME SupervisionAssumption, SupervisionInv, [Next]_vars
             PROVE  SupervisionInv'
  OBVIOUS
<1>1. CASE \E p \in Procs : Spawn(p) \/ SpawnFails(p)
  BY <1>1, SpawnKeeps
<1>2. CASE \E p \in All : ChildExits(p) \/ GroupExits(p) \/ ChildObeys(p) \/ GroupObeys(p)
  BY <1>2, ExitKeeps DEF ChildExits, ChildObeys, GroupObeys
<1>3. CASE \E p \in All : PolicyKill(p) \/ Runner(p)
  BY <1>3, CallKeeps, GraceKeeps DEF Runner
<1>4. CASE ShutdownOver \/ HookOver \/ InterruptionExits \/ Reports \/ Signal
  BY <1>4, ShutdownOverKeeps, EndKeeps, SignalKeeps
<1>5. CASE UNCHANGED vars
  BY <1>5 DEF SupervisionInv, TypeOK, Phased, Gone, Ended, Answered, Alive, StopInProgress,
              vars, tree, call, end
<1> QED BY <1>1, <1>2, <1>3, <1>4, <1>5 DEF Next

LEMMA SupervisionInvariant == SupervisionAssumption => (Spec => []SupervisionInv)
<1> SUFFICES ASSUME SupervisionAssumption PROVE Spec => []SupervisionInv
  OBVIOUS
<1>1. Init => SupervisionInv
  BY SupervisionInit
<1>2. SupervisionInv /\ [Next]_vars => SupervisionInv'
  BY SupervisionNext
<1> QED BY <1>1, <1>2, PTL DEF Spec

\* Whatever processes the steps spawn and whatever signals come, the states keep
\* their types, a call that resolved left nothing of its tree, and nothing at all
\* outlives the runner.
THEOREM NothingIsLeftBehind ==
    SupervisionAssumption => (Spec => [](TypeOK /\ ResolvedLeavesNothing /\ NothingOutlivesRunner))
<1>1. SupervisionInv => TypeOK /\ ResolvedLeavesNothing /\ NothingOutlivesRunner
  BY DEF SupervisionInv, Gone, Ended, ResolvedLeavesNothing, NothingOutlivesRunner
<1> QED BY <1>1, SupervisionInvariant, PTL

\* The stop of the services comes after the last process of the steps, and takes
\* two signals to be cut short.
THEOREM ServicesStopInOrder ==
    SupervisionAssumption => (Spec => [](ServicesStopLast /\ OneSignalSparesTheHook))
<1>1. SupervisionInv => ServicesStopLast /\ OneSignalSparesTheHook
  BY DEF SupervisionInv, Ended, Answered, ServicesStopLast, OneSignalSparesTheHook
<1> QED BY <1>1, SupervisionInvariant, PTL

\* The exit code of an interrupted run is that of its first signal, and that of a
\* reported one is that of its report.
THEOREM CodeIsDecidedOnce == SupervisionAssumption => (Spec => [][CodeNamesFirstSignal]_vars)
<1>1. ASSUME SupervisionInv, SupervisionInv', Next
      PROVE  CodeNamesFirstSignal
  <2>1. abort # "none" => abort' = abort
    <3>1. CASE Signal
      BY <1>1, <3>1 DEF Signal, SignalDuringStop, FirstSignal, NextSignal, SupervisionInv, Answered
    <3>2. CASE ~Signal
      BY <1>1, <3>2 DEF Next, Spawn, SpawnFails, ChildExits, ChildObeys, GroupObeys, Exits, GroupExits,
                       PolicyKill, Runner, Closes, DrainExpires, Finish, KillerSeesEnd, GraceExpires,
                       Resolves, ShutdownOver, HookOver, InterruptionExits, Reports, end
    <3> QED BY <3>1, <3>2
  <2>2. ASSUME main = "reported"
        PROVE  abort' = abort /\ code' = code
    <3>1. StopInProgress /\ stop # "absent"
      BY <1>1, <2>2 DEF SupervisionInv, Answered, StopInProgress
    <3>2. CASE Signal
      BY <3>1, <3>2 DEF Signal, SignalDuringStop, FirstSignal, NextSignal
    <3>3. CASE HookOver
      BY <2>2, <3>3 DEF HookOver, ExitWith, FinalCode
    <3>4. CASE ~Signal /\ ~HookOver
      BY <1>1, <2>2, <3>1, <3>4 DEF Next, Spawn, SpawnFails, ChildExits, ChildObeys, GroupObeys, Exits, GroupExits,
                       PolicyKill, Runner, Closes, DrainExpires, Finish, KillerSeesEnd, GraceExpires,
                       Resolves, ShutdownOver, InterruptionExits, Reports, end
    <3> QED BY <3>2, <3>3, <3>4
  <2>3. main' = "exited" /\ abort' # "none" => code' = CodeOf(abort')
    BY <1>1 DEF SupervisionInv, Answered, CodeOf
  <2> QED BY <2>1, <2>2, <2>3 DEF CodeNamesFirstSignal
<1>2. SupervisionInv /\ SupervisionInv' /\ [Next]_vars => [CodeNamesFirstSignal]_vars
  BY <1>1
<1> QED BY <1>2, SupervisionInvariant, PTL DEF Spec
=============================================================================
