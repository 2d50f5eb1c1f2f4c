---------------------------- MODULE RunSelection ----------------------------
(***************************************************************************)
(* Which run directory an invocation works in, and who else may.           *)
(*   run/record/stores/run-storage.ts    latest, run locks, resolution     *)
(*   run/record/run-selection.ts         --run                             *)
(*   run/record/run-opening.ts           the strict read before opening    *)
(*   entry/composition/execution.ts      the clean-tree guard, commit, release *)
(*                                                                         *)
(* Runners of one pipeline and ticket: two clones may share its runs.      *)
(* A snapshot is missing, damaged, owes work ("owed"), has a verdict       *)
(* ("settled") or has one that forbids an automatic resume ("dropped"); a   *)
(* settled run that owes its verdict counts as "owed".  lock[r] is a live   *)
(* runner, "stale" for one that is gone (the reclaim is in ProcessLock),   *)
(* or "unusable".  The reads of one step are one step.                     *)
(***************************************************************************)
EXTENDS Naturals, FiniteSets

CONSTANTS Runners, MaxRuns, \* bound: directories allocated
          MaxInvocations, MaxDamage, \* bounds: invocations, damages by hand
          Unusable, \* run directories whose lock path cannot be used
          Dirties, DefinitionMoves \* trees a guard may see; may a definition drop a persisted step

VARIABLES
    snap,     \* by run, its snapshot
    lock,     \* by run, its lock
    latest,   \* the run latest selects, 0 without a link
    made,     \* runs whose directory exists
    inv,      \* by runner, its invocation: [at, mode, on, dirty, resumes, acquired]
    invoked, damaged,
    inits,    \* history: by run, how many times it was initialised
    refusedHolding, \* history: runners that refused and still hold a lock they took
    newOnDirty      \* history: a new run was created by a runner whose tree is dirty
vars == <<snap, lock, latest, made, inv, invoked, damaged, inits, refusedHolding, newOnDirty>>

RunIds == 1..MaxRuns
Modes == {"auto", "fresh", "run", "replay"}
Idle == [at |-> "idle", mode |-> "auto", on |-> 0, dirty |-> FALSE, resumes |-> FALSE, acquired |-> FALSE]

Valid(r) == snap[r] \in {"owed", "settled", "dropped"}
\* isPersistedRunResumable
Resumable(r) == snap[r] = "owed"
Explicit(p) == inv[p].mode \in {"run", "replay"}
Working(p) == inv[p].at = "running"

TypeOK ==
    /\ \A r \in RunIds : /\ snap[r] \in {"none", "bad", "owed", "settled", "dropped"}
                         /\ lock[r] \in Runners \cup {"free", "stale", "unusable"}
    /\ latest \in made \cup {0}
    /\ \A p \in Runners : /\ inv[p].at \in {"idle", "look", "claimRun", "guard", "select", "claim", "link",
                                             "create", "reread", "open", "running", "refused"}
                          /\ inv[p].mode \in Modes
                          /\ inv[p].acquired => lock[inv[p].on] = p

-----------------------------------------------------------------------------
(* The lock of a run directory. *)

\* Slip: a stale-looking check is enough, a live holder is not asked.
ClaimBlind(p, r) == IF lock[r] = "unusable" THEN "unusable" ELSE "ok"
\* claimRunDir: the lock is re-entrant, a live holder refuses, an unusable path is no obligation.
Claim(p, r) == CASE lock[r] = "unusable" -> "unusable"
                 [] lock[r] \in Runners \ {p} -> "held"
                 [] OTHER -> "ok"
Held(p) == {r \in RunIds : lock[r] = p}
\* The lock of a runner that is gone is stale.
Abandoned(p) == [r \in RunIds |-> IF lock[r] = p THEN "stale" ELSE lock[r]]

Step(p, f) == inv' = [inv EXCEPT ![p] = f]
To(p, at) == [inv[p] EXCEPT !.at = at]

\* Slip: the runner still takes for its own a lock it has released.
RefuseForgetting(p, free) ==
    /\ Step(p, To(p, "refused"))
    /\ lock' = IF free /\ inv[p].acquired THEN [lock EXCEPT ![inv[p].on] = "free"] ELSE lock
    /\ UNCHANGED <<snap, latest, made, inits, newOnDirty, refusedHolding>>
\* The runner stops before its run is live; free says it releases what it took.
Refuse(p, free) ==
    /\ Step(p, [To(p, "refused") EXCEPT !.acquired = FALSE])
    /\ lock' = IF free /\ inv[p].acquired THEN [lock EXCEPT ![inv[p].on] = "free"] ELSE lock
    /\ refusedHolding' = IF inv[p].acquired /\ ~free THEN refusedHolding \cup {p} ELSE refusedHolding
    /\ UNCHANGED <<snap, latest, made, inits, newOnDirty>>

-----------------------------------------------------------------------------
(* prepareRun: the selection, the guard, the opening. *)

Invoke(p) ==
    /\ inv[p].at = "idle" /\ invoked < MaxInvocations
    /\ \E m \in Modes, d \in Dirties, r \in made \cup {0} :
          /\ (m \in {"run", "replay"}) = (r # 0)
          /\ Step(p, [Idle EXCEPT !.at = "look", !.mode = m, !.on = r, !.dirty = d])
    /\ invoked' = invoked + 1
    /\ UNCHANGED <<snap, lock, latest, made, inits, refusedHolding, newOnDirty, damaged>>

\* discardedResumeNotice and wouldResumeLatest; a damaged selection is an error.
LookLatest(p) ==
    /\ inv[p].at = "look" /\ ~Explicit(p)
    /\ IF inv[p].mode = "auto" /\ latest # 0 /\ ~Valid(latest)
       THEN Refuse(p, TRUE)
       ELSE /\ Step(p, [To(p, "guard") EXCEPT !.resumes = inv[p].mode = "auto" /\ latest # 0 /\ Resumable(latest)])
            /\ UNCHANGED <<snap, lock, latest, made, inits, refusedHolding, newOnDirty>>
\* selectExplicitRun up to the claim: naming a run lifts a discarded outcome, a replay also a verdict.
LookExplicit(p) ==
    /\ inv[p].at = "look" /\ Explicit(p)
    /\ IF Valid(inv[p].on) /\ (inv[p].mode = "replay" \/ snap[inv[p].on] # "settled")
       THEN /\ Step(p, To(p, "claimRun"))
            /\ UNCHANGED <<snap, lock, latest, made, inits, refusedHolding, newOnDirty>>
       ELSE Refuse(p, TRUE)
\* Slip: latest moves as soon as the run is claimed.
ClaimExplicitCommits(p) ==
    /\ inv[p].at = "claimRun"
    /\ IF Claim(p, inv[p].on) = "ok"
       THEN /\ lock' = [lock EXCEPT ![inv[p].on] = p] /\ latest' = inv[p].on
            /\ Step(p, [To(p, "guard") EXCEPT !.acquired = TRUE, !.resumes = TRUE])
            /\ UNCHANGED <<snap, made, inits, refusedHolding, newOnDirty>>
       ELSE Refuse(p, TRUE)
ClaimExplicit(p) ==
    /\ inv[p].at = "claimRun"
    /\ IF Claim(p, inv[p].on) = "ok"
       THEN /\ lock' = [lock EXCEPT ![inv[p].on] = p]
            /\ Step(p, [To(p, "guard") EXCEPT !.acquired = TRUE, !.resumes = TRUE])
            /\ UNCHANGED <<snap, latest, made, inits, refusedHolding, newOnDirty>>
       ELSE Refuse(p, TRUE)

\* enforceCleanTree, before any directory exists; a load of the definition may fail too.
Guard(p) ==
    /\ inv[p].at = "guard"
    /\ \/ Refuse(p, TRUE)
       \/ /\ inv[p].dirty => inv[p].resumes
          /\ Step(p, To(p, IF Explicit(p) THEN "reread" ELSE "select"))
          /\ UNCHANGED <<snap, lock, latest, made, inits, refusedHolding, newOnDirty>>

\* A directory nobody has, claimed by its maker whatever the claim says.
MakeDir(p) ==
    \E r \in RunIds : /\ r = Cardinality(made) + 1 /\ made' = made \cup {r}
                      /\ lock' = IF lock[r] = "unusable" THEN lock ELSE [lock EXCEPT ![r] = p]
                      /\ Step(p, [To(p, "link") EXCEPT !.on = r])

\* resolveRunDirSelection: latest is read again.
Select(p) ==
    /\ inv[p].at = "select"
    /\ CASE inv[p].mode = "auto" /\ latest # 0 /\ ~Valid(latest) -> Refuse(p, TRUE)
         [] inv[p].mode = "auto" /\ latest # 0 /\ Resumable(latest) ->
                /\ Step(p, [To(p, "claim") EXCEPT !.on = latest])
                /\ UNCHANGED <<snap, lock, latest, made, inits, refusedHolding, newOnDirty>>
         [] OTHER -> MakeDir(p) /\ UNCHANGED <<snap, latest, inits, refusedHolding, newOnDirty>>
ClaimLatest(p) ==
    /\ inv[p].at = "claim"
    /\ LET c == Claim(p, inv[p].on)
       IN CASE c = "ok" -> /\ lock' = [lock EXCEPT ![inv[p].on] = p]
                           /\ Step(p, [To(p, "reread") EXCEPT !.acquired = TRUE])
                           /\ UNCHANGED <<snap, latest, made, inits, refusedHolding, newOnDirty>>
            [] c = "held" -> Refuse(p, TRUE)
            [] OTHER -> MakeDir(p) /\ UNCHANGED <<snap, latest, inits, refusedHolding, newOnDirty>>
\* updateLatestSymlink, atomic.
Link(p) ==
    /\ inv[p].at = "link" /\ latest' = inv[p].on
    /\ Step(p, To(p, "create"))
    /\ UNCHANGED <<snap, lock, made, inits, refusedHolding, newOnDirty>>
\* Slip: the guard asks once the directory is there.
CreateGuarded(p) ==
    /\ inv[p].at = "create"
    /\ \/ inv[p].dirty /\ Refuse(p, TRUE)
       \/ /\ snap' = [snap EXCEPT ![inv[p].on] = "owed"]
          /\ inits' = [inits EXCEPT ![inv[p].on] = @ + 1]
          /\ newOnDirty' = (newOnDirty \/ inv[p].dirty)
          /\ Step(p, To(p, "running"))
          /\ UNCHANGED <<lock, latest, made, refusedHolding>>
\* create: the first save.
Create(p) ==
    /\ inv[p].at = "create"
    /\ snap' = [snap EXCEPT ![inv[p].on] = "owed"]
    /\ inits' = [inits EXCEPT ![inv[p].on] = @ + 1]
    /\ newOnDirty' = (newOnDirty \/ inv[p].dirty)
    /\ Step(p, To(p, "running"))
    /\ UNCHANGED <<lock, latest, made, refusedHolding>>

\* Slip: a snapshot that is gone by now is a run to start.
RereadTolerant(p) ==
    /\ inv[p].at = "reread"
    /\ IF Valid(inv[p].on) \/ snap[inv[p].on] = "none"
       THEN /\ Step(p, To(p, IF Valid(inv[p].on) THEN "open" ELSE "create"))
            /\ UNCHANGED <<snap, lock, latest, made, inits, refusedHolding, newOnDirty>>
       ELSE Refuse(p, TRUE)
\* selectDirectory: the strict read of what was selected.
Reread(p) ==
    /\ inv[p].at = "reread"
    /\ IF Valid(inv[p].on)
       THEN /\ Step(p, To(p, "open"))
            /\ UNCHANGED <<snap, lock, latest, made, inits, refusedHolding, newOnDirty>>
       ELSE Refuse(p, TRUE)
\* Slip: a refused opening keeps its lock.
OpenKeeping(p) ==
    /\ inv[p].at = "open"
    /\ \/ Refuse(p, FALSE)
       \/ /\ latest' = IF Explicit(p) THEN inv[p].on ELSE latest
          /\ Step(p, To(p, "running"))
          /\ UNCHANGED <<snap, lock, made, inits, refusedHolding, newOnDirty>>
\* restore: the selection may be refused, and the definition may have dropped a
\* persisted step; an opened run owes work unless it is opened with its verdict.
Open(p) ==
    /\ inv[p].at = "open"
    /\ \/ Refuse(p, TRUE)
       \/ DefinitionMoves /\ Refuse(p, Explicit(p))
       \/ /\ snap' = [snap EXCEPT ![inv[p].on] = IF @ = "settled" /\ inv[p].mode # "replay" THEN @ ELSE "owed"]
          /\ latest' = IF Explicit(p) THEN inv[p].on ELSE latest
          /\ Step(p, To(p, "running"))
          /\ UNCHANGED <<lock, made, inits, refusedHolding, newOnDirty>>

\* The run saves its snapshot.
Save(p) ==
    /\ Working(p)
    /\ \E s \in {"owed", "settled", "dropped"} : snap' = [snap EXCEPT ![inv[p].on] = s]
    /\ UNCHANGED <<lock, latest, made, inv, inits, refusedHolding, newOnDirty>>
\* The process ends, or dies: nothing releases its lock.
Exit(p) ==
    /\ inv[p].at # "idle"
    /\ Step(p, Idle) /\ lock' = Abandoned(p)
    /\ refusedHolding' = refusedHolding \ {p}
    /\ UNCHANGED <<snap, latest, made, inits, newOnDirty>>

Damage(r) ==
    /\ damaged < MaxDamage /\ snap[r] # "none"
    /\ \E s \in {"none", "bad"} : snap' = [snap EXCEPT ![r] = s]
    /\ damaged' = damaged + 1
    /\ UNCHANGED <<lock, latest, made, inv, invoked, inits, refusedHolding, newOnDirty>>

Init ==
    /\ snap = [r \in RunIds |-> "none"] /\ latest = 0 /\ made = {}
    /\ lock = [r \in RunIds |-> IF r \in Unusable THEN "unusable" ELSE "free"]
    /\ inv = [p \in Runners |-> Idle]
    /\ invoked = 0 /\ damaged = 0 /\ inits = [r \in RunIds |-> 0]
    /\ refusedHolding = {} /\ newOnDirty = FALSE

Next ==
    \/ \E p \in Runners :
          \/ Invoke(p)
          \/ /\ \/ LookLatest(p) \/ LookExplicit(p) \/ ClaimExplicit(p) \/ Guard(p)
                \/ Select(p) \/ ClaimLatest(p) \/ Link(p) \/ Create(p)
                \/ Reread(p) \/ Open(p) \/ Save(p) \/ Exit(p)
             /\ UNCHANGED <<invoked, damaged>>
    \/ \E r \in RunIds : Damage(r)
Spec == Init /\ [][Next]_vars

-----------------------------------------------------------------------------
(* Properties. *)

(* A run has one writer: between the claim and the end of the process no     *)
(* other runner opens or works in its directory, as long as its lock can be   *)
(* used (claimRunDir, "two runners interleave snapshots and journal entries"). *)
SingleWriter ==
    \A p, q \in Runners : p # q /\ inv[p].at \in {"reread", "open", "create", "running"}
                                /\ inv[q].at \in {"reread", "open", "create", "running"}
                          => inv[p].on # inv[q].on

(* A run is initialised at most once, by the runner that made its directory:  *)
(* a selected snapshot that is deleted or damaged meanwhile is never started  *)
(* over ("so a deletion or corruption race cannot initialize a run").         *)
InitializedOnce == \A r \in RunIds : inits[r] <= 1

(* A runner that refuses to go on keeps no lock it took for it: the next one  *)
(* is not told of a writer that does not exist.                               *)
NothingHeldOnRefusal == refusedHolding = {}

(* latest moves to a run that already existed only when an invocation that    *)
(* named it opened it: one that was refused after its claim moves nothing.    *)
LatestMovesOnOpening ==
    (latest' # latest /\ inits[latest'] > 0) =>
       \E p \in Runners : inv[p].at = "open" /\ inv'[p].at = "running" /\ inv[p].on = latest' /\ Explicit(p) 

(* latest never strands an invocation: while nobody damaged anything, a       *)
(* selected run without a snapshot is one whose maker is still at it, or died *)
(* in between; a refusal never leaves one behind.                             *)
NoRefusalStrands ==
    damaged = 0 => \A p \in Runners :
        inv[p].at = "refused" /\ ~Explicit(p) /\ latest # 0 /\ snap[latest] = "none" => inv[p].on # latest

(* "A fresh run requires a clean tree" (execution.ts:91): no new run is       *)
(* created by an invocation whose tree is dirty.                              *)
CleanTreeForNew == ~newOnDirty
=============================================================================
