---------------------------- MODULE ProcessLock ----------------------------
(***************************************************************************)
(* The stale-safe single-instance lock (src/shared/env/lock.ts) that keeps *)
(* two runners off one project directory and off one run directory.        *)
(*                                                                         *)
(* Two paths carry the protocol: the lock, and the .reclaim marker that    *)
(* elects the one process allowed to replace the lock of a dead holder.    *)
(* One action is one system call on one of them: an observation (open,     *)
(* fstat, read), a publication (link) or a detach (rename).  A process is  *)
(* one incarnation: Pid says which pid it runs under, and a pid is reused  *)
(* once its process is gone.                                               *)
(*                                                                         *)
(* A published file is what its bytes say: its publisher's nonce, for a    *)
(* lock; a fresh token, for a marker.  Inodes are taken to be recycled at  *)
(* once, so two locks of one incarnation are the same file.  A probe of    *)
(* liveness is joined with the read it follows.  Waits are left out: any   *)
(* step may come late.  Errors other than ENOENT and EEXIST are left out.  *)
(***************************************************************************)
EXTENDS Naturals, FiniteSets

CONSTANTS
  Procs,        \* process incarnations
  Ghosts,       \* incarnations dead from the start
  Pid,          \* [Procs -> pids]
  StartTokens,  \* whether start tokens can be read on this platform
  Retries,      \* options.retries
  MaxRounds,    \* rounds of acquireLock before it throws
  MaxCrashes,   \* bound: processes that die without warning
  NoFile        \* an absent path

File == [by: Procs, n: 0..MaxRounds]
Paths == {"lock", "reclaim"}

ASSUME LockAssumption ==
  /\ Ghosts \subseteq Procs /\ Pid \in [Procs -> Procs] /\ StartTokens \in BOOLEAN
  /\ Retries \in Nat /\ MaxRounds \in Nat \ {0} /\ MaxCrashes \in Nat
  /\ NoFile \notin File

VARIABLES
  path,     \* the file under each name
  pc,       \* where each process stands
  claim,    \* elections each process has entered, which number its tokens
  target,   \* the takeIfSame in progress: a path, a file, and what follows
  taken,    \* a file detached by mistake, in its temporary name
  round, tries, \* round and contentionAttempt of acquireLock
  crashes,  \* how many processes died
  lostLocks,    \* history: holders whose lock a failed restore dropped
  movedMarkers  \* history: marker publishers whose marker was detached by mistake

local   == <<claim, target, taken, round, tries>>
history == <<crashes, lostLocks, movedMarkers>>
vars    == <<path, pc, local, history>>

LockOf(p)   == [by |-> p, n |-> 0]
MarkerOf(p) == [by |-> p, n |-> claim[p]]
NoTarget    == [path |-> "lock", file |-> NoFile, then |-> "none"]

Live == {p \in Procs : pc[p] \notin {"unborn", "dead", "gone"}}
PidTaken(pid) == \E q \in Live : Pid[q] = pid

\* Slip: the publisher's own pid is taken to be the publisher itself.
PidHeld(p, f) ==
  f # NoFile /\ (IF StartTokens /\ Pid[f.by] # Pid[p] THEN f.by \in Live ELSE PidTaken(Pid[f.by]))
\* isHeld: our own pid on a lock we did not publish is a dead publisher; a start
\* token tells a recycled pid from its publisher, where one can be read.
IsHeld(p, f) ==
  /\ f # NoFile
  /\ IF Pid[f.by] = Pid[p] THEN f.by = p
     ELSE IF StartTokens THEN f.by \in Live ELSE PidTaken(Pid[f.by])

\* liveReclaim, and not our own pid: the marker carries no start token.
LiveReclaim(p, f) == f # NoFile /\ Pid[f.by] # Pid[p] /\ PidTaken(Pid[f.by])

Init ==
  /\ path \in [Paths -> {NoFile} \cup {LockOf(g) : g \in Ghosts}]
  /\ pc = [p \in Procs |-> IF p \in Ghosts THEN "dead" ELSE "unborn"]
  /\ claim = [p \in Procs |-> 0]
  /\ target = [p \in Procs |-> NoTarget] /\ taken = [p \in Procs |-> NoFile]
  /\ round = [p \in Procs |-> 0] /\ tries = [p \in Procs |-> 0]
  /\ crashes = 0 /\ lostLocks = {} /\ movedMarkers = {}

\* A process starts under a pid no live process has, and calls acquireLock.
Start(p) ==
  /\ pc[p] = "unborn" /\ ~PidTaken(Pid[p])
  /\ pc' = [pc EXCEPT ![p] = "look"]
  /\ UNCHANGED <<path, local, history>>

Go(p, where) == pc' = [pc EXCEPT ![p] = where]

\* The next round of the loop, or the hard stop after the last one.
NextRound(p) ==
  /\ round' = [round EXCEPT ![p] = @ + 1]
  /\ Go(p, IF round[p] + 1 >= MaxRounds THEN "failed" ELSE "look")
\* Slip: the contention counter runs past the retries.
UncappedBackOff(p) ==
  NextRound(p) /\ tries' = [tries EXCEPT ![p] = @ + 1]
BackOff(p) ==
  /\ NextRound(p)
  /\ tries' = [tries EXCEPT ![p] = IF @ < Retries THEN @ + 1 ELSE Retries]

----------------------------------------------------------------------------
(* takeIfSame: recheck, detach, and put back what was not the file.       *)

Take(p, where, file, next) ==
  /\ target' = [target EXCEPT ![p] = [path |-> where, file |-> file, then |-> next]]
  /\ Go(p, "recheck")

\* What the caller does with the answer.
Answer(p, won) ==
  LET next == target[p].then IN
  /\ target' = [target EXCEPT ![p] = NoTarget]
  /\ \/ /\ next = "cleared"
        /\ IF won THEN NextRound(p) /\ tries' = [tries EXCEPT ![p] = 0] ELSE BackOff(p)
     \/ /\ next \in {"publish", "dropRetry"}
        /\ Go(p, IF won THEN next ELSE "dropRetry") /\ UNCHANGED <<round, tries>>
     \/ /\ next = "retry" /\ BackOff(p)
     \/ /\ next \in {"held", "refused", "gone"}
        /\ Go(p, next) /\ UNCHANGED <<round, tries>>

Recheck(p) ==
  /\ pc[p] = "recheck"
  /\ IF path[target[p].path] = target[p].file
     THEN Go(p, "detach") /\ UNCHANGED local
     ELSE Answer(p, FALSE) /\ UNCHANGED <<claim, taken>>
  /\ UNCHANGED <<path, history>>

\* Slip: whatever the rename brought is thrown away, without comparing it.
BlindDetach(p) ==
  LET where == target[p].path IN
  /\ pc[p] = "detach"
  /\ path' = [path EXCEPT ![where] = NoFile]
  /\ Answer(p, path[where] # NoFile) /\ UNCHANGED <<claim, taken, history>>
\* rename: whoever gets the file compares it with what it observed.
Detach(p) ==
  LET where == target[p].path
      got   == path[where]
  IN  /\ pc[p] = "detach"
      /\ path' = [path EXCEPT ![where] = NoFile]
      /\ IF got \in {NoFile, target[p].file}
         THEN Answer(p, got # NoFile) /\ UNCHANGED <<claim, taken, history>>
         ELSE /\ taken' = [taken EXCEPT ![p] = got] /\ Go(p, "restore")
              /\ movedMarkers' = IF where = "reclaim" THEN movedMarkers \cup {got.by} ELSE movedMarkers
              /\ UNCHANGED <<claim, target, round, tries, crashes, lostLocks>>

\* link: EEXIST loses the file of another process (the residual race).
Restore(p) ==
  LET where == target[p].path IN
  /\ pc[p] = "restore"
  /\ path' = IF path[where] = NoFile THEN [path EXCEPT ![where] = taken[p]] ELSE path
  /\ lostLocks' = IF where = "lock" /\ path[where] # NoFile
                  THEN lostLocks \cup {taken[p].by} ELSE lostLocks
  /\ taken' = [taken EXCEPT ![p] = NoFile]
  /\ Answer(p, FALSE) /\ UNCHANGED <<claim, crashes, movedMarkers>>

----------------------------------------------------------------------------
(* acquireLock.                                                            *)

\* Someone else is reclaiming; or a marker nobody stands behind is in the way;
\* or the lock may be free.
Look(p) ==
  LET seen == path["reclaim"] IN
  /\ pc[p] = "look"
  /\ IF LiveReclaim(p, seen) THEN Go(p, "wait") /\ UNCHANGED target
     ELSE IF seen # NoFile THEN Take(p, "reclaim", seen, "cleared")
     ELSE Go(p, "try") /\ UNCHANGED target
  /\ UNCHANGED <<path, claim, taken, round, tries, history>>

\* The reclaimer may be between detaching the dead lock and publishing its own.
Wait(p) ==
  /\ pc[p] = "wait"
  /\ IF IsHeld(p, path["lock"]) \/ tries[p] >= Retries
     THEN Go(p, "refused") /\ UNCHANGED <<round, tries>>
     ELSE NextRound(p) /\ tries' = [tries EXCEPT ![p] = @ + 1]
  /\ UNCHANGED <<path, claim, target, taken, history>>

\* I1: publication alone grants the lock.
Try(p) ==
  /\ pc[p] = "try"
  /\ IF path["lock"] = NoFile
     THEN Go(p, "held") /\ path' = [path EXCEPT !["lock"] = LockOf(p)]
     ELSE Go(p, "inspect") /\ UNCHANGED path
  /\ UNCHANGED <<local, history>>

Inspect(p) ==
  /\ pc[p] = "inspect"
  /\ Go(p, IF IsHeld(p, path["lock"]) THEN "refused" ELSE "claim")
  /\ UNCHANGED <<path, local, history>>

\* Slip: the marker is renamed into place, over whoever was elected before.
OverwritingClaim(p) ==
  /\ pc[p] = "claim"
  /\ path' = [path EXCEPT !["reclaim"] = [by |-> p, n |-> claim[p] + 1]]
  /\ claim' = [claim EXCEPT ![p] = @ + 1]
  /\ Go(p, "readback") /\ UNCHANGED <<round, tries, target, taken, history>>
\* publishMarker, the link.
Claim(p) ==
  LET mine == [by |-> p, n |-> claim[p] + 1] IN
  /\ pc[p] = "claim"
  /\ IF path["reclaim"] # NoFile
     THEN BackOff(p) /\ UNCHANGED <<path, claim>>
     ELSE /\ path' = [path EXCEPT !["reclaim"] = mine]
          /\ claim' = [claim EXCEPT ![p] = @ + 1]
          /\ Go(p, "readback") /\ UNCHANGED <<round, tries>>
  /\ UNCHANGED <<target, taken, history>>

\* publishMarker, the read: an election that reads as someone else's is left.
ReadBack(p) ==
  /\ pc[p] = "readback"
  /\ IF path["reclaim"] = MarkerOf(p)
     THEN Go(p, "judge") /\ UNCHANGED <<round, tries>>
     ELSE BackOff(p)
  /\ UNCHANGED <<path, claim, target, taken, history>>

\* Slips: the elected process trusts what it saw before its election; or
\* publishes without removing the dead lock.
TrustingJudge(p) ==
  LET seen == path["lock"] IN
  /\ pc[p] = "judge"
  /\ IF seen = NoFile THEN Go(p, "publish") /\ UNCHANGED target
     ELSE Take(p, "lock", seen, "publish")
  /\ UNCHANGED <<path, claim, taken, round, tries, history>>
KeepingJudge(p) ==
  /\ pc[p] = "judge"
  /\ Go(p, IF IsHeld(p, path["lock"]) THEN "dropRefused" ELSE "publish")
  /\ UNCHANGED <<path, claim, target, taken, round, tries, history>>
\* The elected process looks at the lock once more.
Judge(p) ==
  LET seen == path["lock"] IN
  /\ pc[p] = "judge"
  /\ IF IsHeld(p, seen) THEN Go(p, "dropRefused") /\ UNCHANGED target
     ELSE IF seen = NoFile THEN Go(p, "publish") /\ UNCHANGED target
     ELSE Take(p, "lock", seen, "publish")
  /\ UNCHANGED <<path, claim, taken, round, tries, history>>

Publish(p) ==
  /\ pc[p] = "publish"
  /\ IF path["lock"] = NoFile
     THEN Go(p, "vouch") /\ path' = [path EXCEPT !["lock"] = LockOf(p)]
     ELSE Go(p, "dropRetry") /\ UNCHANGED path
  /\ UNCHANGED <<local, history>>

\* I6: the election must still be ours.
Vouch(p) ==
  /\ pc[p] = "vouch"
  /\ Go(p, IF path["reclaim"] = MarkerOf(p) THEN "dropHeld" ELSE "backout")
  /\ UNCHANGED <<path, local, history>>

\* takeOwn
BackOut(p) ==
  /\ pc[p] = "backout"
  /\ IF path["lock"] = LockOf(p) THEN Take(p, "lock", LockOf(p), "dropRetry")
     ELSE Go(p, "dropRetry") /\ UNCHANGED target
  /\ UNCHANGED <<path, claim, taken, round, tries, history>>

\* The finally block: our marker goes, whatever the outcome.
Drop(p) ==
  /\ pc[p] \in {"dropHeld", "dropRefused", "dropRetry"}
  /\ Take(p, "reclaim", MarkerOf(p),
          CASE pc[p] = "dropHeld" -> "held" [] pc[p] = "dropRefused" -> "refused"
            [] OTHER -> "retry")
  /\ UNCHANGED <<path, claim, taken, round, tries, history>>

\* releaseLock: only the lock this incarnation published.
Release(p) ==
  /\ pc[p] = "held"
  /\ IF path["lock"] = LockOf(p) THEN Take(p, "lock", LockOf(p), "gone")
     ELSE Go(p, "gone") /\ UNCHANGED target
  /\ UNCHANGED <<path, claim, taken, round, tries, history>>

\* A refused process ends.
Leave(p) ==
  /\ pc[p] \in {"refused", "failed"} /\ Go(p, "gone")
  /\ UNCHANGED <<path, local, history>>

\* SIGKILL: both paths keep what the process published.
Die(p) ==
  /\ p \in Live /\ crashes < MaxCrashes
  /\ crashes' = crashes + 1 /\ Go(p, "dead")
  /\ lostLocks' = IF taken[p] # NoFile /\ target[p].path = "lock"
                  THEN lostLocks \cup {taken[p].by} ELSE lostLocks
  /\ target' = [target EXCEPT ![p] = NoTarget] /\ taken' = [taken EXCEPT ![p] = NoFile]
  /\ UNCHANGED <<path, claim, round, tries, movedMarkers>>

Acquire(p) ==
  \/ Look(p) \/ Wait(p) \/ Try(p) \/ Inspect(p) \/ Claim(p) \/ ReadBack(p) \/ Judge(p)
  \/ Publish(p) \/ Vouch(p) \/ BackOut(p) \/ Drop(p)
  \/ Recheck(p) \/ Detach(p) \/ Restore(p)

Next == \E p \in Procs : Start(p) \/ Acquire(p) \/ Release(p) \/ Leave(p) \/ Die(p)
Spec == Init /\ [][Next]_vars

----------------------------------------------------------------------------
(* Properties.                                                             *)

TypeOK ==
  /\ path \in [Paths -> File \cup {NoFile}]
  /\ pc \in [Procs -> {"unborn", "look", "wait", "try", "inspect", "claim", "readback",
                       "judge", "publish", "vouch", "backout", "dropHeld", "dropRefused",
                       "dropRetry", "recheck", "detach", "restore", "held", "refused",
                       "failed", "gone", "dead"}]
  /\ claim \in [Procs -> 0..MaxRounds]
  /\ target \in [Procs -> [path: Paths, file: File \cup {NoFile},
                           then: {"none", "cleared", "publish", "dropRetry", "retry",
                                  "held", "refused", "gone"}]]
  /\ taken \in [Procs -> File \cup {NoFile}]
  /\ round \in [Procs -> 0..MaxRounds] /\ tries \in [Procs -> 0..Retries]
  /\ crashes \in 0..MaxCrashes
  /\ lostLocks \subseteq Procs /\ movedMarkers \subseteq Procs

Holds(p) == pc[p] = "held"

\* Two processes never hold the lock together.
MutualExclusion == \A p, q \in Procs : Holds(p) /\ Holds(q) => p = q

\* A holder whose file a mistaken detach took: it is lost, or still to be put back.
Displaced(p) ==
  p \in lostLocks \/ \E q \in Procs : target[q].path = "lock" /\ taken[q] = LockOf(p)

\* "Residual race": among any number of contenders, two processes hold the lock
\* together only when a mistaken detach took the file of one of them.
MutualExclusionUnlessDisplaced ==
  \A p, q \in Procs : Holds(p) /\ Holds(q) /\ p # q => Displaced(p) \/ Displaced(q)

\* "The window is bounded to two nested races": a holder's lock is lost only
\* after an election was broken the same way.
BrokenElectionFirst == lostLocks # {} => movedMarkers # {}

\* I2: what holds the lock finds its file there, unless it was lost, or is in
\* the hands of a process about to put it back.
HolderKeepsLock ==
  \A p \in Procs : Holds(p) => path["lock"] = LockOf(p) \/ Displaced(p)

\* "Who may remove a lock file": what is discarded for good was published by a
\* dead process, or by the one that discards it.
OnlyDeadOrOwnDiscarded ==
  [][\A p \in Procs :
       pc[p] = "detach" /\ target[p].path = "lock" /\ path["lock"] # NoFile
         /\ pc'[p] # "detach" /\ path'["lock"] = NoFile /\ taken'[p] = NoFile
       => path["lock"].by \notin Live \/ path["lock"].by = p]_vars

\* Contention never refuses everyone: a dead holder's lock goes to somebody.
SomeoneWins ==
  crashes = 0 => \E p \in Procs \ Ghosts : pc[p] \notin {"refused", "failed"}

\* "Every branch below either returns or makes progress": the hard stop of the
\* loop is for a pathological environment, not for contention.
RoundCapUnreached == \A p \in Procs : pc[p] # "failed"
=============================================================================
