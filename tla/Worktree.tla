------------------------------ MODULE Worktree ------------------------------
(***************************************************************************)
(* The dedicated worktree of a ticket and the processes that share it.     *)
(*                                                                         *)
(* Models src/entry/env/worktree.ts and docker-stack.ts, the boot steps of *)
(* src/entry/boot, src/entry/composition/stack-stop.ts, the two ends of    *)
(* src/runner.ts, the part of signals.ts that spares the stop hook, and    *)
(* src/entry/commands/worktree-clean.ts.                                   *)
(*                                                                         *)
(* There is one ticket.  Runners are started with --worktree from the main *)
(* clone, Insiders without it from inside the worktree, and Cleaners are   *)
(* "worktree clean".  Each process runs once; several runners stand for    *)
(* the resumes of a ticket.  The tree is clean or dirty, its branch has    *)
(* commits of its own or not, and the work-item directory inside it is     *)
(* absent, a link to the main clone, a copy of what the clone holds, or    *)
(* the only holder of something.  A directory carries the number of its    *)
(* creation, so a process whose cwd was deleted is told from one whose cwd *)
(* was created again.  The protocol of the lock file itself is             *)
(* ProcessLock: here acquiring is one step, and a dead holder is replaced. *)
(***************************************************************************)
EXTENDS Naturals, FiniteSets

CONSTANTS Runners, Insiders, Cleaners,  \* the processes, by what started them
          Polls,       \* how many probes fit in the readiness timeout
          MaxSignals,  \* how many Ctrl+C one process gets
          Editor       \* TRUE: somebody also edits the tree by hand

Procs == Runners \union Insiders \union Cleaners

WorktreeAssumption ==
  /\ IsFiniteSet(Procs)
  /\ Runners \intersect (Insiders \union Cleaners) = {} /\ Insiders \intersect Cleaners = {}
  /\ Polls \in Nat /\ MaxSignals \in Nat /\ Editor \in BOOLEAN

VARIABLES
  registered,  \* git worktree list names the path
  dir,         \* 0: no directory there; otherwise the number of its creation
  made,        \* how many directories were created there
  tree,        \* [dirty, branch, item]: what the directory and its branch hold
  lock,        \* what the lock file in the directory names, or "none"
  stack,       \* the services of the worktree: "down", "starting" or "up"
  pc,          \* where each process is
  mine,        \* what each process remembers
  warned,      \* somebody was told that the item directory is not shared
  lost         \* what was destroyed: "changes", "commits" or "item"

vars == <<registered, dir, made, tree, lock, stack, pc, mine, warned, lost>>
place == <<registered, dir, made, tree, warned, lost>>

NoOne == "none"
Ended == {"out", "dead"}
Setting == {"add", "init", "provision", "replace", "setup", "enter"}
Booting == {"stack", "poll", "ready", "prelude"}
Running == Booting \union {"work", "halt", "stop"}
Cleaning == {"status", "teardown", "remove"}
Inside == Running \union Cleaning

Alive(p) == pc[p] \notin Ended \union {"off"}
Holds(p) == lock = p
Free == lock = NoOne \/ ~Alive(lock)

Nothing == [cwd |-> 0, has |-> FALSE, reached |-> FALSE, agents |-> FALSE, left |-> 0,
            signals |-> 0, inStop |-> 0, hook |-> "none", code |-> 0]

Init ==
  /\ \/ registered = FALSE /\ dir = 0 /\ made = 0
        /\ tree \in [dirty : {FALSE}, branch : {"none", "own"}, item : {"absent"}]
     \/ registered = TRUE /\ dir = 1 /\ made = 1
        /\ tree \in [dirty : BOOLEAN, branch : {"merged", "own"}, item : {"link", "shadow"}]
  /\ lock = NoOne /\ stack = "down"
  /\ pc = [p \in Procs |-> "off"] /\ mine = [p \in Procs |-> Nothing]
  /\ warned = FALSE /\ lost = {}

Goto(p, where) == pc' = [pc EXCEPT ![p] = where]
Note(p, field, value) == mine' = [mine EXCEPT ![p][field] = value]

(* A process that ends forgets all but how it ended; its exit handler      *)
(* removes the lock file when that file still names it.                    *)
EndWith(p, code) ==
  /\ Goto(p, "out")
  /\ mine' = [mine EXCEPT ![p] = [Nothing EXCEPT !.code = code, !.hook = mine[p].hook, !.signals = mine[p].signals]]
  /\ lock' = IF Holds(p) THEN NoOne ELSE lock
Stay(p, code) == EndWith(p, code) /\ UNCHANGED <<place, stack>>

(* Slip: a directory brought back passes for the one that was there.       *)
MaterializeAgain == dir' = (IF dir = 0 THEN made + 1 ELSE dir) /\ made' = made

(* mkdir -p below the worktree: it brings back a directory that is gone,   *)
(* empty and unknown to git.                                               *)
Materialize ==
  /\ dir' = IF dir = 0 THEN made + 1 ELSE dir
  /\ made' = IF dir = 0 THEN made + 1 ELSE made
BareTree == IF dir = 0 THEN [tree EXCEPT !.dirty = FALSE, !.item = "absent"] ELSE tree

---------------------------------------------------------------------------
(* Setting the worktree up, before any lock.                               *)

(* An already registered worktree is reused; a stray directory refuses.    *)
EnsureWorktree(p) ==
  /\ pc[p] = "off" /\ p \in Runners
  /\ IF registered THEN Goto(p, "init") /\ UNCHANGED <<mine, lock>>
     ELSE IF dir # 0 THEN EndWith(p, 1)
     ELSE Goto(p, "add") /\ Note(p, "has", tree.branch # "none") /\ UNCHANGED lock
  /\ UNCHANGED <<place, stack>>

(* git worktree add: the checkout may bring a copy of the item directory.  *)
AddWorktree(p) ==
  /\ pc[p] = "add"
  /\ IF registered \/ dir # 0 \/ mine[p].has # (tree.branch # "none") THEN Stay(p, 1)
     ELSE /\ registered' = TRUE /\ dir' = made + 1 /\ made' = made + 1
          /\ \E item \in {"absent", "shadow"} :
               tree' = [dirty |-> FALSE, item |-> item,
                        branch |-> IF tree.branch = "none" THEN "merged" ELSE tree.branch]
          /\ Goto(p, "init")
          /\ UNCHANGED <<lock, stack, mine, warned, lost>>

(* worktree-init.sh: whatever it returns the run goes on.                  *)
InitHook(p) == pc[p] = "init" /\ Goto(p, "provision") /\ UNCHANGED <<place, lock, stack, mine>>

(* What an item directory becomes: absent, it is linked; a link is left    *)
(* alone; a copy is marked for replacement; anything else is kept, and the *)
(* user is told.                                                           *)
Provision(p) ==
  /\ pc[p] = "provision"
  /\ Materialize
  /\ LET now == BareTree IN
       /\ tree' = [now EXCEPT !.item = IF @ = "absent" THEN "link" ELSE @]
       /\ Goto(p, IF now.item = "shadow" THEN "replace" ELSE "setup")
       /\ warned' = (warned \/ now.item = "own")
  /\ UNCHANGED <<registered, lock, stack, mine, lost>>

(* rm -r of the copy, then the link: whatever was written since the        *)
(* comparison goes with it.                                                *)
ReplaceShadow(p) ==
  /\ pc[p] = "replace"
  /\ Materialize
  /\ tree' = [BareTree EXCEPT !.item = "link"]
  /\ lost' = IF tree.item = "own" THEN lost \union {"item"} ELSE lost
  /\ Goto(p, "setup")
  /\ UNCHANGED <<registered, lock, stack, mine, warned>>

SetupHook(p) == pc[p] = "setup" /\ Goto(p, "enter") /\ UNCHANGED <<place, lock, stack, mine>>

(* The run directory is made local once more, then the process moves in.   *)
EnterWorktree(p) ==
  /\ pc[p] = "enter"
  /\ Materialize
  /\ tree' = BareTree
  /\ Note(p, "cwd", dir') /\ Goto(p, "lock")
  /\ UNCHANGED <<registered, lock, stack, warned, lost>>

(* A runner started inside the worktree sets nothing up.                   *)
StartInside(p) ==
  /\ pc[p] = "off" /\ p \in Insiders /\ dir # 0
  /\ Note(p, "cwd", dir) /\ Goto(p, "lock")
  /\ UNCHANGED <<place, lock, stack>>

---------------------------------------------------------------------------
(* The lock, the services and the ready hook.                              *)

Take(p, next) ==
  IF Free THEN lock' = p /\ Goto(p, next) /\ UNCHANGED <<mine, place, stack>>
  ELSE Stay(p, 1)

(* Slip: a runner does not look for a holder.                              *)
LockStepBlind(p) ==
  /\ pc[p] = "lock"
  /\ IF mine[p].cwd = dir THEN lock' = p /\ Goto(p, "stack") /\ UNCHANGED <<mine, place, stack>> ELSE Stay(p, 1)

(* Taking the lock of the cwd fails when the cwd is gone.                  *)
LockStep(p) ==
  /\ pc[p] = "lock"
  /\ IF mine[p].cwd = dir THEN Take(p, "stack") ELSE Stay(p, 1)

(* ensureStackReady: one probe, then the start command, which may time out *)
(* or leave services on their way.                                         *)
StackStep(p) ==
  /\ pc[p] = "stack"
  /\ IF stack = "up" THEN Goto(p, "ready") /\ UNCHANGED <<place, lock, stack, mine>>
     ELSE \/ Goto(p, "poll") /\ Note(p, "left", Polls)
             /\ stack' \in {stack, "starting", "up"} /\ UNCHANGED <<place, lock>>
          \/ EndWith(p, 1) /\ stack' \in {stack, "starting"} /\ UNCHANGED place

(* Slip: the probes have no deadline.                                      *)
PollStackForever(p) ==
  /\ pc[p] = "poll"
  /\ IF stack = "up" THEN Goto(p, "ready") ELSE Goto(p, "poll")
  /\ UNCHANGED <<place, lock, stack, mine>>

(* Slip: the exit code of the start command stands for readiness.          *)
PollStackTrusting(p) ==
  /\ pc[p] = "poll" /\ Goto(p, "ready") /\ UNCHANGED <<place, lock, stack, mine>>

(* The probe alone decides, until the deadline.                            *)
PollStack(p) ==
  /\ pc[p] = "poll"
  /\ IF stack = "up" THEN Goto(p, "ready") /\ UNCHANGED <<place, lock, stack, mine>>
     ELSE IF mine[p].left = 0 THEN Stay(p, 1)
     ELSE Note(p, "left", mine[p].left - 1) /\ UNCHANGED <<place, lock, stack, pc>>

(* worktree-ready.sh, for a process that entered: its failure ends the boot.*)
ReadyHook(p) ==
  /\ pc[p] = "ready"
  /\ \/ Goto(p, "prelude") /\ UNCHANGED <<place, lock, stack, mine>>
     \/ p \in Runners /\ Stay(p, 1)

(* The rest of startup and the preparation of the run: the definition may  *)
(* not load, a command-line check may refuse, before or after the stop of  *)
(* the stack is armed.                                                     *)
Prelude(p) ==
  /\ pc[p] = "prelude"
  /\ \/ Stay(p, 1)
     \/ /\ \E agents \in BOOLEAN :
             mine' = [mine EXCEPT ![p] = [@ EXCEPT !.reached = p \in Runners, !.agents = agents,
                                          !.code = IF agents THEN 0 ELSE 1]]
        /\ Goto(p, IF mine'[p].agents THEN "work" ELSE "halt")
        /\ UNCHANGED <<place, lock, stack>>

---------------------------------------------------------------------------
(* The run and its end.                                                    *)

(* An agent edits, commits, writes in the item directory.                  *)
Edit ==
  \/ tree' = [tree EXCEPT !.dirty = TRUE]
  \/ tree.dirty /\ tree' = [tree EXCEPT !.dirty = FALSE, !.branch = "own"]
WriteItem == tree.item \in {"absent", "shadow"} /\ tree' = [tree EXCEPT !.item = "own"]
AgentWrites(p) ==
  /\ pc[p] = "work" /\ mine[p].agents /\ mine[p].cwd = dir
  /\ (Edit \/ WriteItem)
  /\ UNCHANGED <<registered, dir, made, lock, stack, pc, mine, warned, lost>>

(* The loop returns: a pass leaves the services up, anything else stops    *)
(* them; what a step left running may still live.                          *)
FinishRun(p) ==
  /\ pc[p] = "work"
  /\ \/ Stay(p, 0)
     \/ \E survivors \in BOOLEAN :
          /\ mine' = [mine EXCEPT ![p].code = 1, ![p].agents = survivors]
          /\ Goto(p, "halt") /\ UNCHANGED <<place, lock, stack>>

(* Slip: the hook starts while agents still run.                           *)
HaltChildrenLater(p) ==
  /\ pc[p] = "halt"
  /\ IF mine[p].reached
     THEN mine' = [mine EXCEPT ![p].hook = "running"] /\ Goto(p, "stop") /\ UNCHANGED <<place, lock, stack>>
     ELSE Stay(p, mine[p].code)

(* Slip: the lock goes before the services are stopped.                    *)
HaltChildrenUnlocked(p) ==
  /\ pc[p] = "halt"
  /\ IF mine[p].reached
     THEN /\ mine' = [mine EXCEPT ![p].agents = FALSE, ![p].hook = "running"] /\ Goto(p, "stop")
          /\ lock' = NoOne /\ UNCHANGED <<place, stack>>
     ELSE Stay(p, mine[p].code)

(* First every child of the run is gone; then the hook starts, in a scope  *)
(* of its own, if this process entered the worktree.                       *)
HaltChildren(p) ==
  /\ pc[p] = "halt"
  /\ IF mine[p].reached
     THEN mine' = [mine EXCEPT ![p].agents = FALSE, ![p].hook = "running"]
          /\ Goto(p, "stop") /\ UNCHANGED <<place, lock, stack>>
     ELSE Stay(p, mine[p].code)


(* worktree-stop.sh ends, or is killed half way; then the process exits.   *)
StopHookEnds(p) ==
  /\ pc[p] = "stop"
  /\ EndWith(p, mine[p].code)
  /\ stack' \in IF mine[p].hook = "running" THEN {"down", stack} ELSE {stack}
  /\ UNCHANGED place

(* Slip: the hook runs in the scope that the first signal sweeps.          *)
SignalSweeps(p) ==
  /\ p \notin Cleaners /\ Alive(p) /\ mine[p].signals < MaxSignals
  /\ IF pc[p] \in {"halt", "stop"}
     THEN mine' = [mine EXCEPT ![p] = [@ EXCEPT !.signals = @ + 1, !.hook = IF @ = "running" THEN "killed" ELSE @]]
          /\ UNCHANGED <<pc, lock>>
     ELSE IF pc[p] = "work"
     THEN mine' = [mine EXCEPT ![p] = [@ EXCEPT !.signals = @ + 1, !.code = 130]] /\ Goto(p, "halt") /\ UNCHANGED lock
     ELSE EndWith(p, 130)
  /\ UNCHANGED <<place, stack>>

(* Ctrl+C.  During the stop the first one is a warning, and the next, or   *)
(* the first after an interruption, kills the hook; during the run it      *)
(* kills the children and stops the stack; before the run it only exits.   *)
Interrupt(p) ==
  /\ p \notin Cleaners /\ Alive(p) /\ mine[p].signals < MaxSignals
  /\ IF pc[p] \in {"halt", "stop"} /\ mine[p].reached
     THEN /\ LET second == mine[p].inStop > 0 \/ mine[p].code = 130 IN
               mine' = [mine EXCEPT ![p] = [@ EXCEPT !.signals = @ + 1, !.inStop = @ + 1,
                          !.hook = IF second /\ @ = "running" THEN "killed" ELSE @]]
          /\ UNCHANGED <<pc, lock>>
     ELSE IF pc[p] = "work"
     THEN mine' = [mine EXCEPT ![p] = [@ EXCEPT !.signals = @ + 1, !.code = 130]] /\ Goto(p, "halt") /\ UNCHANGED lock
     ELSE EndWith(p, 130)
  /\ UNCHANGED <<place, stack>>

(* SIGKILL: nothing runs, the lock file stays.                             *)
Die(p) ==
  /\ Alive(p)
  /\ Goto(p, "dead") /\ mine' = [mine EXCEPT ![p] = Nothing]
  /\ UNCHANGED <<place, lock, stack>>

---------------------------------------------------------------------------
(* worktree clean.                                                         *)

CheckRegistered(p) ==
  /\ pc[p] = "off" /\ p \in Cleaners
  /\ IF registered THEN Goto(p, "claim") /\ UNCHANGED <<place, lock, stack, mine>> ELSE Stay(p, 1)

(* Slip: clean does not take the lock of the worktree.                     *)
ClaimWorktreeUnlocked(p) == pc[p] = "claim" /\ Goto(p, "status") /\ UNCHANGED <<place, lock, stack, mine>>

(* The lock of the worktree, in the directory it makes if it has to.       *)
ClaimWorktree(p) ==
  /\ pc[p] = "claim"
  /\ IF Free
     THEN Materialize /\ tree' = BareTree /\ lock' = p /\ Goto(p, "status")
          /\ UNCHANGED <<registered, stack, mine, warned, lost>>
     ELSE Stay(p, 1)


RefuseUncommitted(p) ==
  /\ pc[p] = "status"
  /\ IF registered /\ ~tree.dirty THEN Goto(p, "teardown") /\ UNCHANGED <<place, lock, stack, mine>> ELSE Stay(p, 1)

TeardownHook(p) ==
  /\ pc[p] = "teardown"
  /\ \/ stack' = "down" /\ Goto(p, "remove") /\ UNCHANGED <<place, lock, mine>>
     \/ stack' \in {"down", stack} /\ EndWith(p, 1) /\ UNCHANGED place

(* Slip: git worktree remove --force.                                      *)
RemoveForced(p) ==
  /\ pc[p] = "remove"
  /\ registered' = FALSE /\ dir' = 0 /\ lock' = NoOne /\ Goto(p, "branch")
  /\ lost' = lost \union (IF tree.dirty THEN {"changes"} ELSE {})
  /\ tree' = [tree EXCEPT !.dirty = FALSE, !.item = "absent"]
  /\ UNCHANGED <<made, stack, mine, warned>>

(* git refuses a dirty tree; ignored files and the lock go with the rest.  *)
RemoveWorktree(p) ==
  /\ pc[p] = "remove"
  /\ IF registered /\ ~tree.dirty
     THEN /\ registered' = FALSE /\ dir' = 0 /\ lock' = NoOne /\ Goto(p, "branch")
          /\ lost' = lost \union (IF tree.item = "own" /\ ~warned THEN {"item"} ELSE {})
          /\ tree' = [tree EXCEPT !.item = "absent"]
          /\ UNCHANGED <<made, stack, mine, warned>>
     ELSE Stay(p, 1)

(* Slip: git branch -D.                                                    *)
DeleteBranchAnyway(p) ==
  /\ pc[p] = "branch"
  /\ EndWith(p, 0)
  /\ tree' = [tree EXCEPT !.branch = "none"]
  /\ lost' = IF tree.branch = "own" THEN lost \union {"commits"} ELSE lost
  /\ UNCHANGED <<registered, dir, made, stack, warned>>

(* git branch -d: a branch with commits of its own, or checked out again,  *)
(* is kept.                                                                *)
DeleteBranch(p) ==
  /\ pc[p] = "branch"
  /\ EndWith(p, 0)
  /\ tree' = IF tree.branch = "merged" /\ ~registered THEN [tree EXCEPT !.branch = "none"] ELSE tree
  /\ UNCHANGED <<registered, dir, made, stack, warned, lost>>

---------------------------------------------------------------------------
(* Containers come up in their own time; a person edits the tree.          *)
Converge == stack = "starting" /\ stack' = "up" /\ UNCHANGED <<place, lock, pc, mine>>
HandEdit == Editor /\ dir # 0 /\ registered /\ Edit
            /\ UNCHANGED <<registered, dir, made, lock, stack, pc, mine, warned, lost>>

SetUp(p) == EnsureWorktree(p) \/ AddWorktree(p) \/ InitHook(p) \/ Provision(p) \/ ReplaceShadow(p)
            \/ SetupHook(p) \/ EnterWorktree(p) \/ StartInside(p)
Boot(p) == LockStep(p) \/ StackStep(p) \/ PollStack(p) \/ ReadyHook(p) \/ Prelude(p)
EndRun(p) == FinishRun(p) \/ HaltChildren(p) \/ StopHookEnds(p)
Clean(p) == CheckRegistered(p) \/ ClaimWorktree(p) \/ RefuseUncommitted(p) \/ TeardownHook(p)
            \/ RemoveWorktree(p) \/ DeleteBranch(p)
Own(p) == SetUp(p) \/ Boot(p) \/ EndRun(p) \/ Clean(p)

Next ==
  \/ \E p \in Procs : Own(p) \/ AgentWrites(p) \/ Interrupt(p) \/ Die(p)
  \/ Converge \/ HandEdit

Spec == Init /\ [][Next]_vars
FairSpec == Spec /\ \A p \in Procs : WF_vars(Alive(p) /\ Own(p))

---------------------------------------------------------------------------
(* What must hold.                                                         *)

TypeOK ==
  /\ registered \in BOOLEAN /\ warned \in BOOLEAN
  /\ made \in Nat /\ dir \in 0..made
  /\ tree \in [dirty : BOOLEAN, branch : {"none", "merged", "own"}, item : {"absent", "link", "shadow", "own"}]
  /\ lock \in Procs \union {NoOne} /\ stack \in {"down", "starting", "up"}
  /\ pc \in [Procs -> {"off", "lock", "claim", "branch"} \union Setting \union Inside \union Ended]
  /\ lost \subseteq {"changes", "commits", "item"}

(* One process at a time runs or cleans in the worktree: the lock lives in *)
(* the directory that clean deletes and setup brings back, and still two   *)
(* processes are never inside together.                                    *)
OneInside == \A p, q \in Procs : (pc[p] \in Inside /\ pc[q] \in Inside) => p = q

(* No project service is stopped under a live agent: neither by the stop   *)
(* hook of the run itself, nor by a run that ended, nor by a teardown.     *)
NoStopUnderAgents ==
  \A p, q \in Procs : (pc[p] = "teardown" \/ (pc[p] = "stop" /\ mine[p].hook = "running"))
                        => ~(mine[q].agents /\ Alive(q))

(* The first step of a run finds its services ready, and they stay so for  *)
(* as long as the run works.                                               *)
WorkHasServices == \A p \in Procs : pc[p] = "work" => stack = "up"

(* Removing or provisioning the worktree destroys no uncommitted change,   *)
(* no commit, and no item data nobody was warned about.                    *)
WorkKept == lost = {}

(* The stop hook is killed half way only by somebody who pressed Ctrl+C    *)
(* twice.                                                                  *)
SkipNeedsTwo == \A p \in Procs : mine[p].hook = "killed" => mine[p].signals >= 2

---------------------------------------------------------------------------
(* What the repository says and the code does not do.                      *)

(* "No run can start mid-teardown": a run works in a registered worktree.  *)
WorksInAWorktree == \A p \in Procs : pc[p] = "work" => registered

(* The copy that setup replaces by a link holds no data at stake.          *)
ReplacedIsDisposable == \A p \in Procs : (pc[p] = "replace" /\ pc'[p] = "setup") => tree.item # "own"

(* The handlers installed before startup returns reach the stop of the     *)
(* worktree this process entered: interrupted, a runner that started       *)
(* services does not leave them up.                                        *)
InterruptReachesStop ==
  \A p \in Runners : (pc[p] \in {"poll", "ready", "prelude"} /\ mine'[p].code = 130) => pc'[p] # "out"

(* A refused removal leaves the stack as it was.                           *)
RefusedLeavesStack ==
  \A p \in Cleaners : (pc[p] = "remove" /\ pc'[p] = "out") => ~tree.dirty
=============================================================================
