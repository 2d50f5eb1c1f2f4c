------------------------- MODULE ProcessLockProofs -------------------------
(***************************************************************************)
(* Proofs about ProcessLock, for any set of contenders, any assignment of  *)
(* pids, and any bounds: its types, and what makes the lock safe.          *)
(*                                                                         *)
(* The argument.  A process takes a lock file off its path only after it   *)
(* chose that file: its own, or one whose publisher is dead (Chosen).  The *)
(* dead stay dead, so a file it finds there and discards is never that of  *)
(* a living holder; any other file it brings back is in its hands until it *)
(* restores or loses it, and that is what Displaced says of its publisher. *)
(*                                                                         *)
(* And such a mistake is the second of two.  The lock of a dead process is *)
(* taken by the one whose marker is under the name of the marker (Elected, *)
(* ElectionHeld): while no marker was taken by mistake, what a process is  *)
(* about to detach is what it observed (DetachSure), of either path.       *)
(***************************************************************************)
EXTENDS ProcessLock, TLAPS

----------------------------------------------------------------------------
(* Types.  The tokens of a process are bounded by its rounds: an election  *)
(* is left only by ending the round, or by ending the acquisition.         *)

Ended   == {"failed", "gone", "dead"}
Taking  == {"recheck", "detach", "restore"}
Before  == {"unborn", "look", "wait", "try", "inspect", "claim"}
Unelected(p) == pc[p] \in Before \/ (pc[p] \in Taking /\ target[p].then = "cleared")

RoundsOK ==
  \A p \in Procs :
    /\ pc[p] \notin Ended => round[p] < MaxRounds /\ claim[p] <= round[p] + 1
    /\ Unelected(p) => claim[p] <= round[p]

TypeInv == TypeOK /\ RoundsOK

\* A process has a file in a temporary name exactly while it is to put it back.
InHand == \A p \in Procs : pc[p] = "restore" <=> taken[p] # NoFile

\* What a process claims the lock with is a file.
LEMMA LockIsFile == \A p \in Procs : LockOf(p) \in File /\ LockOf(p) # NoFile
BY LockAssumption DEF File, LockOf

\* A process marks a recovery with a file.
LEMMA MarkerIsFile ==
  \A p \in Procs, n \in 0..MaxRounds : [by |-> p, n |-> n] \in File
BY DEF File

\* The types hold before any process runs.
LEMMA InitTypes == Init => TypeInv
<1> SUFFICES ASSUME Init PROVE TypeInv
  OBVIOUS
<1> USE LockAssumption DEF Init
<1>1. path \in [Paths -> File \cup {NoFile}]
  <2>1. \A q \in Procs : LockOf(q) \in File
    BY DEF LockOf, File
  <2> QED BY <2>1
<1>2. TypeOK
  BY <1>1, SMTT(30) DEF TypeOK, NoTarget, Paths
<1>3. RoundsOK
  BY DEF RoundsOK, Unelected, Ended, Before, Taking
<1> QED BY <1>2, <1>3 DEF TypeInv

\* The end of a round keeps the types, whatever the round did.
LEMMA RoundTypes ==
  ASSUME TypeInv, NEW p \in Procs, pc[p] \notin Ended, BackOff(p)
  PROVE  NextRound(p) /\ tries' \in [Procs -> 0..Retries]
<1> USE LockAssumption DEF TypeInv, TypeOK, BackOff
<1>1. NextRound(p)
  OBVIOUS
<1>2. CASE tries[p] < Retries
  BY <1>2
<1>3. CASE ~(tries[p] < Retries)
  BY <1>3
<1> QED BY <1>1, <1>2, <1>3

\* A process that ends a round is in the next, or has failed.
LEMMA NextRoundTypes ==
  ASSUME TypeInv, NEW p \in Procs, pc[p] \notin Ended, NextRound(p)
  PROVE  /\ round' = [round EXCEPT ![p] = round[p] + 1]
         /\ round[p] + 1 \in 0..MaxRounds
         /\ \/ pc' = [pc EXCEPT ![p] = "failed"]
            \/ pc' = [pc EXCEPT ![p] = "look"] /\ round[p] + 1 < MaxRounds
<1> USE LockAssumption DEF TypeInv, TypeOK
<1>1. round[p] \in 0..MaxRounds /\ round[p] < MaxRounds
  BY DEF RoundsOK
<1>2. CASE round[p] + 1 >= MaxRounds
  BY <1>1, <1>2 DEF NextRound, Go
<1>3. CASE ~(round[p] + 1 >= MaxRounds)
  BY <1>1, <1>3 DEF NextRound, Go
<1> QED BY <1>2, <1>3

Targets ==
  [path: Paths, file: File \cup {NoFile},
   then: {"none", "cleared", "publish", "dropRetry", "retry", "held", "refused", "gone"}]
Places ==
  Before \cup Ended \cup Taking \cup
    {"readback", "judge", "publish", "vouch", "backout", "dropHeld", "dropRefused",
     "dropRetry", "held", "refused"}

\* The part of the types that ending a round or answering a takeIfSame touches.
LocalTypes ==
  /\ pc \in [Procs -> Places]
  /\ target \in [Procs -> Targets]
  /\ round \in [Procs -> 0..MaxRounds] /\ tries \in [Procs -> 0..Retries]
  /\ RoundsOK

\* The invariant implies the types of what each process holds.
LEMMA LocalTypesOK == TypeInv => LocalTypes
BY DEF TypeInv, TypeOK, LocalTypes, Targets, Places, Before, Ended, Taking

\* The absence of a target is typed.
LEMMA NoTargetOK ==
  NoTarget \in Targets
BY DEF NoTarget, Paths, Targets

\* A process that ends a round keeps the types.
LEMMA EndOfRound ==
  ASSUME TypeInv, NEW p \in Procs, pc[p] \notin Ended, NextRound(p),
         tries' \in [Procs -> 0..Retries], UNCHANGED claim,
         target' = target \/ target' = [target EXCEPT ![p] = NoTarget]
  PROVE  LocalTypes'
<1> USE LockAssumption DEF TypeInv, TypeOK
<1>1. /\ round' = [round EXCEPT ![p] = round[p] + 1] /\ round[p] + 1 \in 0..MaxRounds
      /\ \/ pc' = [pc EXCEPT ![p] = "failed"]
         \/ pc' = [pc EXCEPT ![p] = "look"] /\ round[p] + 1 < MaxRounds
  BY NextRoundTypes
<1>2. pc'[p] \in {"failed", "look"} /\ round'[p] = round[p] + 1
  BY <1>1
<1>3. \A q \in Procs : q # p => pc'[q] = pc[q] /\ round'[q] = round[q] /\ target'[q] = target[q]
  BY <1>1
<1>4. claim[p] <= round[p] + 1
  BY DEF RoundsOK
<1>5. RoundsOK'
  BY <1>1, <1>2, <1>3, <1>4 DEF RoundsOK, Unelected, Ended, Taking, Before
<1>6. pc' \in [Procs -> Places]
  BY <1>1, LocalTypesOK DEF LocalTypes, Places, Before, Ended
<1>7. LocalTypes => target' \in [Procs -> Targets]
  BY NoTargetOK DEF LocalTypes
<1>8. round' \in [Procs -> 0..MaxRounds]
  BY <1>1
<1> QED BY <1>5, <1>6, <1>7, <1>8, LocalTypesOK DEF LocalTypes

\* A process that learns who won keeps the types.
LEMMA AnswerTypes ==
  ASSUME TypeInv, NEW p \in Procs, NEW won \in BOOLEAN, pc[p] \in Taking,
         Answer(p, won), UNCHANGED claim
  PROVE  LocalTypes'
<1> DEFINE next == target[p].then
<1>1. target' = [target EXCEPT ![p] = NoTarget]
  BY DEF Answer
<1>2. CASE NextRound(p) /\ tries' \in [Procs -> 0..Retries]
  BY <1>1, <1>2, EndOfRound DEF Ended, Taking
<1>3. CASE UNCHANGED <<round, tries>> /\ next # "cleared" /\ next # "retry"
  <2>1. PICK w \in {"publish", "dropRetry", "held", "refused", "gone"} : pc' = [pc EXCEPT ![p] = w]
    BY <1>3, won \in BOOLEAN DEF Answer, Go
  <2>2. claim[p] <= round[p] + 1 /\ round[p] < MaxRounds
    BY DEF TypeInv, RoundsOK, Ended, Taking
  <2>3. \A q \in Procs : q # p => pc'[q] = pc[q] /\ round'[q] = round[q] /\ target'[q] = target[q]
    BY <1>1, <1>3, <2>1, LocalTypesOK DEF LocalTypes
  <2>4. pc'[p] = w
    BY <2>1, LocalTypesOK DEF LocalTypes
  <2>5. RoundsOK'
    BY <2>1, <2>2, <2>3, <2>4, <1>3, LocalTypesOK
       DEF RoundsOK, Unelected, LocalTypes, Ended, Before, Taking
  <2>6. target' \in [Procs -> Targets]
    BY <1>1, NoTargetOK, LocalTypesOK DEF LocalTypes
  <2> QED BY <2>1, <2>5, <2>6, <1>3, LocalTypesOK DEF LocalTypes, Places, Ended
<1>4. CASE next = "cleared" \/ next = "retry"
  <2>1. NextRound(p) /\ tries' \in [Procs -> 0..Retries]
    <3>1. CASE BackOff(p)
      BY <3>1, RoundTypes DEF Ended, Taking
    <3>2. CASE NextRound(p) /\ tries' = [tries EXCEPT ![p] = 0]
      BY <3>2, LocalTypesOK, LockAssumption DEF LocalTypes
    <3> QED BY <1>4, <3>1, <3>2 DEF Answer
  <2> QED BY <2>1, <1>2
<1> QED BY <1>3, <1>4 DEF Answer

\* What a step that touches neither path nor counters has to show.
LEMMA StepTypes ==
  ASSUME TypeInv, LocalTypes', path' \in [Paths -> File \cup {NoFile}],
         claim' \in [Procs -> 0..MaxRounds], taken' \in [Procs -> File \cup {NoFile}],
         crashes' \in 0..MaxCrashes, lostLocks' \subseteq Procs, movedMarkers' \subseteq Procs
  PROVE  TypeInv'
BY DEF TypeInv, TypeOK, LocalTypes, Targets, Places, Before, Ended, Taking

\* A process that moves within one round, and may choose a target.
LEMMA MoveTypes ==
  ASSUME TypeInv, NEW p \in Procs, NEW w \in Places, pc[p] \notin Ended \/ w \in Ended,
         pc' = [pc EXCEPT ![p] = w], UNCHANGED <<claim, round, tries>>,
         \/ UNCHANGED target
         \/ \E t \in Targets : target' = [target EXCEPT ![p] = t],
         Unelected(p)' => Unelected(p)
  PROVE  LocalTypes'
<1> USE LocalTypesOK DEF LocalTypes
<1>1. target' \in [Procs -> Targets]
  OBVIOUS
<1>2. pc' \in [Procs -> Places]
  OBVIOUS
<1>3. \A q \in Procs : q # p => pc'[q] = pc[q] /\ target'[q] = target[q]
  OBVIOUS
<1>4. pc'[p] = w
  OBVIOUS
<1>5. RoundsOK'
  <2> SUFFICES ASSUME NEW q \in Procs
               PROVE /\ pc'[q] \notin Ended => round[q] < MaxRounds /\ claim[q] <= round[q] + 1
                     /\ Unelected(q)' => claim[q] <= round[q]
    BY DEF RoundsOK, Ended
  <2>1. CASE q = p
    BY <2>1, <1>4 DEF RoundsOK
  <2>2. CASE q # p
    BY <2>2, <1>3 DEF RoundsOK, Unelected
  <2> QED BY <2>1, <2>2
<1> QED BY <1>1, <1>2, <1>5

\* Every step keeps the types.
LEMMA StepKeepsTypes == TypeInv /\ InHand /\ [Next]_vars => TypeInv'
<1> SUFFICES ASSUME TypeInv, InHand, [Next]_vars PROVE TypeInv'
  OBVIOUS
<1> USE LockAssumption DEF Paths, history
<1>0. /\ path \in [Paths -> File \cup {NoFile}] /\ claim \in [Procs -> 0..MaxRounds]
      /\ taken \in [Procs -> File \cup {NoFile}] /\ crashes \in 0..MaxCrashes
      /\ lostLocks \subseteq Procs /\ movedMarkers \subseteq Procs
      /\ pc \in [Procs -> Places] /\ target \in [Procs -> Targets]
      /\ round \in [Procs -> 0..MaxRounds] /\ tries \in [Procs -> 0..Retries]
  BY LocalTypesOK DEF TypeInv, TypeOK, LocalTypes
<1>1. CASE UNCHANGED vars
  BY <1>0, <1>1 DEF vars, local, TypeInv, TypeOK, RoundsOK, Unelected
<1>2. ASSUME NEW p \in Procs, Start(p) PROVE TypeInv'
  <2>1. LocalTypes'
    BY <1>2, MoveTypes DEF Start, local, Unelected, Places, Before, Ended, Taking
  <2> QED BY <1>0, <1>2, <2>1, StepTypes DEF Start, local
<1>3. ASSUME NEW p \in Procs, Look(p) PROVE TypeInv'
  <2>1. LocalTypes'
    BY <1>0, <1>3, MoveTypes
       DEF Look, Go, Take, Targets, Unelected, Places, Before, Ended, Taking
  <2> QED BY <1>0, <1>3, <2>1, StepTypes DEF Look
<1>4. ASSUME NEW p \in Procs, Wait(p) PROVE TypeInv'
  <2>1. pc[p] = "wait" /\ UNCHANGED <<path, claim, target, taken, history>>
    BY <1>4 DEF Wait
  <2>2. \/ Go(p, "refused") /\ UNCHANGED <<round, tries>>
        \/ NextRound(p) /\ ~(tries[p] >= Retries) /\ tries' = [tries EXCEPT ![p] = @ + 1]
    BY <1>4 DEF Wait
  <2>3. ASSUME Go(p, "refused"), UNCHANGED <<round, tries>> PROVE LocalTypes'
    BY <1>0, <2>1, <2>3, MoveTypes DEF Go, Unelected, Places, Before, Ended, Taking
  <2>4. ASSUME NextRound(p), ~(tries[p] >= Retries), tries' = [tries EXCEPT ![p] = @ + 1]
        PROVE  LocalTypes'
    <3>1. tries' \in [Procs -> 0..Retries]
      BY <1>0, <2>4
    <3> QED BY <2>1, <2>4, <3>1, EndOfRound DEF Ended
  <2> QED BY <1>0, <2>1, <2>2, <2>3, <2>4, StepTypes
<1>5. ASSUME NEW p \in Procs, Try(p) PROVE TypeInv'
  <2>1. LocalTypes'
    BY <1>0, <1>5, MoveTypes DEF Try, local, Go, Unelected, Places, Before, Ended, Taking
  <2> QED BY <1>0, <1>5, <2>1, StepTypes, LockIsFile DEF Try, local
<1>6. ASSUME NEW p \in Procs, Inspect(p) PROVE TypeInv'
  <2>1. LocalTypes'
    BY <1>0, <1>6, MoveTypes DEF Inspect, local, Go, Unelected, Places, Before, Ended, Taking
  <2> QED BY <1>0, <1>6, <2>1, StepTypes DEF Inspect, local
<1>7. ASSUME NEW p \in Procs, Claim(p) PROVE TypeInv'
  <2>0. round[p] < MaxRounds /\ claim[p] <= round[p]
    BY <1>7 DEF Claim, TypeInv, RoundsOK, Unelected, Ended, Before
  <2>1. CASE path["reclaim"] # NoFile
    <3>1. LocalTypes'
      BY <1>0, <1>7, <2>1, RoundTypes, EndOfRound DEF Claim, Ended
    <3> QED BY <1>0, <1>7, <2>1, <3>1, StepTypes DEF Claim
  <2>2. CASE path["reclaim"] = NoFile
    <3>1. claim[p] + 1 \in 0..MaxRounds
      BY <1>0, <2>0
    <3>2. [by |-> p, n |-> claim[p] + 1] \in File
      BY <3>1, MarkerIsFile
    <3>3. RoundsOK'
      BY <1>0, <1>7, <2>0, <2>2
         DEF Claim, Go, TypeInv, RoundsOK, Unelected, Places, Before, Ended, Taking
    <3>4. LocalTypes'
      BY <1>0, <1>7, <2>2, <3>3 DEF Claim, Go, LocalTypes, Places
    <3> QED BY <1>0, <1>7, <2>2, <3>1, <3>2, <3>4, StepTypes DEF Claim
  <2> QED BY <2>1, <2>2
<1>8. ASSUME NEW p \in Procs, ReadBack(p) PROVE TypeInv'
  <2>0. pc[p] = "readback" /\ UNCHANGED <<path, claim, target, taken, history>>
    BY <1>8 DEF ReadBack
  <2>1. ASSUME Go(p, "judge"), UNCHANGED <<round, tries>> PROVE LocalTypes'
    BY <1>0, <2>0, <2>1, MoveTypes DEF Go, Unelected, Places, Before, Ended, Taking
  <2>2. ASSUME BackOff(p) PROVE LocalTypes'
    BY <2>0, <2>2, RoundTypes, EndOfRound DEF Ended
  <2>3. LocalTypes'
    BY <1>8, <2>1, <2>2 DEF ReadBack
  <2> QED BY <1>0, <2>0, <2>3, StepTypes
<1>9. ASSUME NEW p \in Procs, Judge(p) PROVE TypeInv'
  <2>0. pc[p] = "judge" /\ UNCHANGED <<path, claim, taken, round, tries, history>>
    BY <1>9 DEF Judge
  <2>1. \/ UNCHANGED target /\ (Go(p, "dropRefused") \/ Go(p, "publish"))
        \/ Take(p, "lock", path["lock"], "publish")
    BY <1>9 DEF Judge
  <2>2. [path |-> "lock", file |-> path["lock"], then |-> "publish"] \in Targets
    BY <1>0 DEF Targets
  <2>3. LocalTypes'
    BY <1>0, <2>0, <2>1, <2>2, MoveTypes
       DEF Go, Take, Unelected, Places, Before, Ended, Taking
  <2> QED BY <1>0, <2>0, <2>3, StepTypes
<1>10. ASSUME NEW p \in Procs, Publish(p) PROVE TypeInv'
  <2>1. LocalTypes'
    BY <1>0, <1>10, MoveTypes DEF Publish, local, Go, Unelected, Places, Before, Ended, Taking
  <2> QED BY <1>0, <1>10, <2>1, StepTypes, LockIsFile DEF Publish, local
<1>11. ASSUME NEW p \in Procs, Vouch(p) PROVE TypeInv'
  <2>1. LocalTypes'
    BY <1>0, <1>11, MoveTypes DEF Vouch, local, Go, Unelected, Places, Before, Ended, Taking
  <2> QED BY <1>0, <1>11, <2>1, StepTypes DEF Vouch, local
<1>12. ASSUME NEW p \in Procs, BackOut(p) PROVE TypeInv'
  <2>0. pc[p] = "backout" /\ UNCHANGED <<path, claim, taken, round, tries, history>>
    BY <1>12 DEF BackOut
  <2>1. \/ UNCHANGED target /\ Go(p, "dropRetry")
        \/ Take(p, "lock", LockOf(p), "dropRetry")
    BY <1>12 DEF BackOut
  <2>2. [path |-> "lock", file |-> LockOf(p), then |-> "dropRetry"] \in Targets
    BY LockIsFile DEF Targets
  <2>3. LocalTypes'
    BY <1>0, <2>0, <2>1, <2>2, MoveTypes
       DEF Go, Take, Unelected, Places, Before, Ended, Taking
  <2> QED BY <1>0, <2>0, <2>3, StepTypes
<1>13. ASSUME NEW p \in Procs, Drop(p) PROVE TypeInv'
  <2>1. MarkerOf(p) \in File
    BY <1>0, MarkerIsFile DEF MarkerOf
  <2>2. LocalTypes'
    BY <1>0, <1>13, <2>1, MoveTypes
       DEF Drop, Go, Take, Targets, Unelected, Places, Before, Ended, Taking
  <2> QED BY <1>0, <1>13, <2>2, StepTypes DEF Drop
<1>14. ASSUME NEW p \in Procs, Release(p) PROVE TypeInv'
  <2>0. pc[p] = "held" /\ UNCHANGED <<path, claim, taken, round, tries, history>>
    BY <1>14 DEF Release
  <2>1. \/ UNCHANGED target /\ Go(p, "gone")
        \/ Take(p, "lock", LockOf(p), "gone")
    BY <1>14 DEF Release
  <2>2. [path |-> "lock", file |-> LockOf(p), then |-> "gone"] \in Targets
    BY LockIsFile DEF Targets
  <2>3. LocalTypes'
    BY <1>0, <2>0, <2>1, <2>2, MoveTypes
       DEF Go, Take, Unelected, Places, Before, Ended, Taking
  <2> QED BY <1>0, <2>0, <2>3, StepTypes
<1>15. ASSUME NEW p \in Procs, Leave(p) PROVE TypeInv'
  <2>1. LocalTypes'
    BY <1>0, <1>15, MoveTypes DEF Leave, local, Go, Unelected, Places, Before, Ended, Taking
  <2> QED BY <1>0, <1>15, <2>1, StepTypes DEF Leave, local
<1>16. ASSUME NEW p \in Procs, Die(p) PROVE TypeInv'
  <2>1. LocalTypes'
    BY <1>0, <1>16, MoveTypes, NoTargetOK
       DEF Die, Go, Unelected, Places, Before, Ended, Taking
  <2>2. taken[p] # NoFile => taken[p].by \in Procs
    BY <1>0 DEF File
  <2> QED BY <1>0, <1>16, <2>1, <2>2, StepTypes DEF Die
<1>17. ASSUME NEW p \in Procs, Recheck(p) PROVE TypeInv'
  <2>0. pc[p] = "recheck" /\ UNCHANGED <<path, claim, taken, history>>
    BY <1>17 DEF Recheck, local
  <2>1. ASSUME Go(p, "detach"), UNCHANGED local PROVE LocalTypes'
    BY <1>0, <2>0, <2>1, MoveTypes DEF local, Go, Unelected, Places, Before, Ended, Taking
  <2>2. ASSUME Answer(p, FALSE) PROVE LocalTypes'
    BY <2>0, <2>2, AnswerTypes DEF Taking
  <2>3. LocalTypes'
    BY <1>17, <2>1, <2>2 DEF Recheck
  <2> QED BY <1>0, <2>0, <2>3, StepTypes
<1>18. ASSUME NEW p \in Procs, Detach(p) PROVE TypeInv'
  <2> DEFINE where == target[p].path
             got   == path[where]
  <2>0. /\ pc[p] = "detach" /\ path' \in [Paths -> File \cup {NoFile}]
        /\ UNCHANGED <<claim, crashes, lostLocks>>
    BY <1>0, <1>18 DEF Detach
  <2>1. CASE got \in {NoFile, target[p].file}
    <3>1. Answer(p, got # NoFile) /\ UNCHANGED <<taken, movedMarkers>>
      BY <1>18, <2>1 DEF Detach
    <3>2. LocalTypes'
      BY <2>0, <3>1, AnswerTypes DEF Taking
    <3> QED BY <1>0, <2>0, <3>1, <3>2, StepTypes
  <2>2. CASE got \notin {NoFile, target[p].file}
    <3>1. /\ taken' = [taken EXCEPT ![p] = got] /\ Go(p, "restore")
          /\ movedMarkers' \in {movedMarkers, movedMarkers \cup {got.by}}
          /\ UNCHANGED <<target, round, tries>>
      BY <1>18, <2>2 DEF Detach
    <3>2. got \in File /\ got.by \in Procs
      <4>1. where \in Paths
        BY <1>0 DEF Targets
      <4> QED BY <1>0, <2>2, <4>1 DEF File
    <3>3. LocalTypes'
      BY <1>0, <2>0, <3>1, MoveTypes DEF Go, Unelected, Places, Before, Ended, Taking
    <3>4. taken' \in [Procs -> File \cup {NoFile}] /\ movedMarkers' \subseteq Procs
      BY <1>0, <3>1, <3>2
    <3> QED BY <1>0, <2>0, <3>1, <3>3, <3>4, StepTypes
  <2> QED BY <2>1, <2>2
<1>19. ASSUME NEW p \in Procs, Restore(p) PROVE TypeInv'
  <2>1. LocalTypes'
    BY <1>19, AnswerTypes DEF Restore, Taking
  <2>2. path' \in [Paths -> File \cup {NoFile}] /\ taken' \in [Procs -> File \cup {NoFile}]
    BY <1>0, <1>19 DEF Restore
  <2>3. taken[p].by \in Procs
    <3>1. taken[p] # NoFile
      BY <1>19 DEF Restore, InHand
    <3> QED BY <1>0, <3>1 DEF File
  <2> QED BY <1>0, <1>19, <2>1, <2>2, <2>3, StepTypes DEF Restore
<1> QED
  BY <1>1, <1>2, <1>3, <1>4, <1>5, <1>6, <1>7, <1>8, <1>9, <1>10, <1>11, <1>12, <1>13,
     <1>14, <1>15, <1>16, <1>17, <1>18, <1>19 DEF Next, Acquire

\* Where learning who won takes a process.
LEMMA AnswerFrame ==
  ASSUME TypeInv, NEW p \in Procs, NEW won \in BOOLEAN, Answer(p, won)
  PROVE  /\ target' = [target EXCEPT ![p] = NoTarget]
         /\ \E w \in {"failed", "look", "publish", "dropRetry", "held", "refused", "gone"} :
              pc' = [pc EXCEPT ![p] = w] /\ (w = "held" => target[p].then = "held")
<1>1. ASSUME NextRound(p)
      PROVE  \E w \in {"failed", "look"} : pc' = [pc EXCEPT ![p] = w]
  BY <1>1 DEF NextRound, Go
<1>2. BackOff(p) => NextRound(p)
  BY DEF BackOff
<1> QED BY <1>1, <1>2 DEF Answer, Go

\* Every step keeps InHand.
LEMMA StepKeepsInHand == TypeInv /\ InHand /\ [Next]_vars => InHand'
<1> SUFFICES ASSUME TypeInv, InHand, [Next]_vars PROVE InHand'
  OBVIOUS
<1>0. pc \in [Procs -> Places] /\ taken \in [Procs -> File \cup {NoFile}]
      /\ target \in [Procs -> Targets]
  BY LocalTypesOK DEF TypeInv, TypeOK, LocalTypes
\* A step of p that keeps no file, out of "restore" or not into it.
<1>1. ASSUME NEW p \in Procs, NEW w \in Places, w # "restore",
             pc' = [pc EXCEPT ![p] = w],
             \/ UNCHANGED taken /\ pc[p] # "restore"
             \/ taken' = [taken EXCEPT ![p] = NoFile]
      PROVE  InHand'
  BY <1>0, <1>1 DEF InHand
<1>2. ASSUME NEW p \in Procs, NextRound(p), UNCHANGED taken, pc[p] # "restore" PROVE InHand'
  BY <1>1, <1>2 DEF NextRound, Go, Places, Ended, Before
<1>3. ASSUME NEW p \in Procs, NEW won \in BOOLEAN, Answer(p, won),
             \/ UNCHANGED taken /\ pc[p] # "restore"
             \/ taken' = [taken EXCEPT ![p] = NoFile]
      PROVE  InHand'
  <2>1. PICK w \in {"failed", "look", "publish", "dropRetry", "held", "refused", "gone"} :
          pc' = [pc EXCEPT ![p] = w]
    BY <1>3, AnswerFrame
  <2> QED BY <1>1, <1>3, <2>1 DEF Places, Ended, Before
<1>4. CASE UNCHANGED vars
  BY <1>4 DEF vars, local, InHand
<1>5. ASSUME NEW p \in Procs,
             Start(p) \/ Look(p) \/ Try(p) \/ Inspect(p) \/ Judge(p) \/ Publish(p)
               \/ Vouch(p) \/ BackOut(p) \/ Drop(p) \/ Release(p) \/ Leave(p)
      PROVE  InHand'
  <2>1. pc[p] # "restore" /\ UNCHANGED taken
    BY <1>5 DEF Start, Look, Try, Inspect, Judge, Publish, Vouch, BackOut, Drop, Release, Leave, local
  <2>2. \E w \in Places : w # "restore" /\ pc' = [pc EXCEPT ![p] = w]
    BY <1>5, SMTT(30)
       DEF Start, Look, Try, Inspect, Judge, Publish, Vouch, BackOut, Drop, Release,
           Leave, Go, Take, Places, Ended, Before, Taking
  <2> QED BY <1>1, <2>1, <2>2
<1>6. ASSUME NEW p \in Procs, Wait(p) \/ Claim(p) \/ ReadBack(p) PROVE InHand'
  <2>1. pc[p] # "restore" /\ UNCHANGED taken
    BY <1>6 DEF Wait, Claim, ReadBack
  <2>2. \/ NextRound(p) \/ Go(p, "refused") \/ Go(p, "readback") \/ Go(p, "judge")
    BY <1>6 DEF Wait, Claim, ReadBack, BackOff
  <2> QED BY <1>1, <1>2, <2>1, <2>2 DEF Go, Places
<1>7. ASSUME NEW p \in Procs, Recheck(p) PROVE InHand'
  <2>1. pc[p] # "restore" /\ UNCHANGED taken
    BY <1>7 DEF Recheck, local
  <2>2. Go(p, "detach") \/ Answer(p, FALSE)
    BY <1>7 DEF Recheck
  <2> QED BY <1>1, <1>3, <2>1, <2>2 DEF Go, Places, Taking
<1>8. ASSUME NEW p \in Procs, Detach(p) PROVE InHand'
  <2> DEFINE got == path[target[p].path]
  <2>1. CASE got \in {NoFile, target[p].file}
    BY <1>3, <1>8, <2>1 DEF Detach
  <2>2. CASE got \notin {NoFile, target[p].file}
    <3>1. taken' = [taken EXCEPT ![p] = got] /\ Go(p, "restore") /\ got # NoFile
      BY <1>8, <2>2 DEF Detach
    <3> QED BY <1>0, <3>1 DEF InHand, Go
  <2> QED BY <2>1, <2>2
<1>9. ASSUME NEW p \in Procs, Restore(p) PROVE InHand'
  BY <1>3, <1>9 DEF Restore
<1>10. ASSUME NEW p \in Procs, Die(p) PROVE InHand'
  BY <1>1, <1>10 DEF Die, Go, Places, Ended
<1> QED
  BY <1>4, <1>5, <1>6, <1>7, <1>8, <1>9, <1>10 DEF Next, Acquire

\* No process starts with a file in hand.
LEMMA InitInHand == Init => InHand
BY DEF Init, InHand

\* Every variable keeps its type; in particular the tokens and the contention
\* counter of a process stay within the rounds and retries it has.
THEOREM LockTypesCorrect == Spec => []TypeOK
<1>1. TypeInv => TypeOK
  BY DEF TypeInv
<1> QED
  BY <1>1, InitTypes, InitInHand, StepKeepsTypes, StepKeepsInHand, PTL DEF Spec

----------------------------------------------------------------------------
(* Safety.                                                                 *)

LockFiles == {LockOf(q) : q \in Procs}
Over(p)   == pc[p] \in {"dead", "gone"}

\* A file under the name of the lock is a lock, of a process that was started.
LockNamed ==
  path["lock"] # NoFile => path["lock"] \in LockFiles /\ pc[path["lock"].by] # "unborn"

\* A takeIfSame on the lock chose its own file, or that of a dead publisher.
Chosen ==
  \A p \in Procs :
    pc[p] \in {"recheck", "detach"} /\ target[p].path = "lock" =>
      /\ target[p].file \in LockFiles
      /\ target[p].file # LockOf(p) => Over(target[p].file.by)
      /\ target[p].then # "held"

\* What a takeIfSame on the lock has in hand is a lock too.
Kept ==
  \A p \in Procs :
    pc[p] = "restore" /\ target[p].path = "lock" =>
      /\ taken[p] \in LockFiles /\ pc[taken[p].by] # "unborn"
      /\ target[p].then # "held"

\* One living process per pid.
PidsApart == \A p, q \in Live : Pid[p] = Pid[q] => p = q

\* From its publication on, whoever will report the lock held.
Owns(p) ==
  \/ pc[p] \in {"held", "vouch", "dropHeld"}
  \/ pc[p] \in Taking /\ target[p].then = "held"
OwnerKeepsLock == \A p \in Procs : Owns(p) => path["lock"] = LockOf(p) \/ Displaced(p)

LockInv == LockNamed /\ Chosen /\ Kept /\ PidsApart /\ OwnerKeepsLock

----------------------------------------------------------------------------
(* What a step of one process leaves alone.                                *)

Steps(p) == Start(p) \/ Acquire(p) \/ Release(p) \/ Leave(p) \/ Die(p)

\* One process moves at a time, and never backwards to life.
LEMMA OneMoves ==
  ASSUME TypeInv, InHand, NEW p \in Procs, Steps(p)
  PROVE  /\ ~Over(p) /\ pc'[p] # "unborn"
         /\ \A q \in Procs : q # p =>
              pc'[q] = pc[q] /\ target'[q] = target[q] /\ taken'[q] = taken[q]
         /\ lostLocks \subseteq lostLocks'
<1>0. pc \in [Procs -> Places] /\ target \in [Procs -> Targets]
      /\ taken \in [Procs -> File \cup {NoFile}]
  BY LocalTypesOK DEF TypeInv, TypeOK, LocalTypes
<1>1. ASSUME NEW won \in BOOLEAN, Answer(p, won)
      PROVE  /\ pc'[p] # "unborn"
             /\ \A q \in Procs : q # p => pc'[q] = pc[q] /\ target'[q] = target[q]
  <2>1. PICK w \in {"failed", "look", "publish", "dropRetry", "held", "refused", "gone"} :
          pc' = [pc EXCEPT ![p] = w]
    BY <1>1, AnswerFrame
  <2> QED BY <1>0, <1>1, <2>1, AnswerFrame
<1>2. ASSUME NextRound(p)
      PROVE  pc'[p] # "unborn" /\ \A q \in Procs : q # p => pc'[q] = pc[q]
  BY <1>0, <1>2 DEF NextRound, Go
<1>3. CASE Start(p) \/ Look(p) \/ Try(p) \/ Inspect(p) \/ Judge(p) \/ Publish(p)
             \/ Vouch(p) \/ BackOut(p) \/ Drop(p) \/ Release(p) \/ Leave(p)
  <2>1. ~Over(p) /\ UNCHANGED <<taken, lostLocks>>
    BY <1>3 DEF Start, Look, Try, Inspect, Judge, Publish, Vouch, BackOut, Drop,
                Release, Leave, local, history, Over
  <2>2. /\ \E w \in Places : w # "unborn" /\ pc' = [pc EXCEPT ![p] = w]
        /\ UNCHANGED target \/ \E t : target' = [target EXCEPT ![p] = t]
    BY <1>3, SMTT(30)
       DEF Start, Look, Try, Inspect, Judge, Publish, Vouch, BackOut, Drop, Release,
           Leave, Go, Take, local, Places, Ended, Before, Taking
  <2> QED BY <1>0, <2>1, <2>2
<1>4. CASE Wait(p) \/ Claim(p) \/ ReadBack(p)
  <2>1. ~Over(p) /\ UNCHANGED <<taken, target, lostLocks>>
    BY <1>4 DEF Wait, Claim, ReadBack, Over, history
  <2>2. NextRound(p) \/ Go(p, "refused") \/ Go(p, "readback") \/ Go(p, "judge")
    BY <1>4 DEF Wait, Claim, ReadBack, BackOff
  <2> QED BY <1>0, <1>2, <2>1, <2>2 DEF Go
<1>5. CASE Recheck(p)
  <2>1. ~Over(p) /\ UNCHANGED <<taken, lostLocks>>
    BY <1>5 DEF Recheck, Over, local, history
  <2>2. (Go(p, "detach") /\ UNCHANGED target) \/ Answer(p, FALSE)
    BY <1>5 DEF Recheck, local
  <2> QED BY <1>0, <1>1, <2>1, <2>2 DEF Go
<1>6. CASE Detach(p)
  <2> DEFINE got == path[target[p].path]
  <2>1. ~Over(p) /\ UNCHANGED lostLocks
    BY <1>6 DEF Detach, Over, history
  <2>2. \/ Answer(p, got # NoFile) /\ UNCHANGED taken
        \/ taken' = [taken EXCEPT ![p] = got] /\ Go(p, "restore") /\ UNCHANGED target
    BY <1>6 DEF Detach
  <2> QED BY <1>0, <1>1, <2>1, <2>2 DEF Go
<1>7. CASE Restore(p)
  BY <1>0, <1>1, <1>7 DEF Restore, Over
<1>8. CASE Die(p)
  BY <1>0, <1>8 DEF Die, Live, Go, Over
<1> QED BY <1>3, <1>4, <1>5, <1>6, <1>7, <1>8 DEF Steps, Acquire

\* What is over stays over, and what was started stays started.
LEMMA OverStays ==
  ASSUME TypeInv, InHand, NEW p \in Procs, Steps(p), NEW q \in Procs
  PROVE  (Over(q) => Over(q)') /\ (pc[q] # "unborn" => pc'[q] # "unborn")
BY OneMoves DEF Over

\* A process starts only under a pid no live process has.
LEMMA StepKeepsPidsApart ==
  ASSUME TypeInv, InHand, PidsApart, NEW p \in Procs, Steps(p)
  PROVE  PidsApart'
<1>1. CASE Start(p)
  <2>1. \A q \in Procs : q \in Live' => q = p \/ (q \in Live /\ Pid[q] # Pid[p])
    BY <1>1, OneMoves DEF Start, PidTaken, Live
  <2> QED BY <2>1 DEF PidsApart, Live
<1>2. CASE ~Start(p)
  <2>1. pc[p] # "unborn"
    BY <1>2 DEF Steps, Acquire, Release, Leave, Die, Live, Look, Wait, Try, Inspect, Claim,
                ReadBack, Judge, Publish, Vouch, BackOut, Drop, Recheck, Detach, Restore
  <2>2. Live' \subseteq Live
    BY <2>1, OneMoves DEF Live, Over
  <2> QED BY <2>2 DEF PidsApart, Live
<1> QED BY <1>1, <1>2

\* The ways the file under the name of the lock changes.
LEMMA LockPathChanges ==
  ASSUME TypeInv, InHand, NEW p \in Procs, Steps(p), path'["lock"] # path["lock"]
  PROVE  \/ (Try(p) \/ Publish(p)) /\ path["lock"] = NoFile /\ path'["lock"] = LockOf(p)
         \/ Detach(p) /\ target[p].path = "lock" /\ path'["lock"] = NoFile
         \/ Restore(p) /\ target[p].path = "lock" /\ path["lock"] = NoFile
              /\ path'["lock"] = taken[p]
<1>0. path \in [Paths -> File \cup {NoFile}] /\ target[p] \in Targets
  BY LocalTypesOK DEF TypeInv, TypeOK, LocalTypes
<1>1. CASE Start(p) \/ Look(p) \/ Wait(p) \/ Inspect(p) \/ ReadBack(p) \/ Judge(p)
             \/ Vouch(p) \/ BackOut(p) \/ Drop(p) \/ Recheck(p) \/ Release(p)
             \/ Leave(p) \/ Die(p)
  BY <1>1 DEF Start, Look, Wait, Inspect, ReadBack, Judge, Vouch, BackOut, Drop,
              Recheck, Release, Leave, Die
<1>2. CASE Claim(p)
  BY <1>0, <1>2 DEF Claim, Paths
<1>3. CASE Try(p) \/ Publish(p)
  BY <1>0, <1>3 DEF Try, Publish, Paths
<1>4. CASE Detach(p)
  BY <1>0, <1>4 DEF Detach, Paths, Targets
<1>5. CASE Restore(p)
  BY <1>0, <1>5 DEF Restore, Paths, Targets
<1> QED BY <1>1, <1>2, <1>3, <1>4, <1>5 DEF Steps, Acquire

\* The lock is always claimed by a process that was started.
LEMMA StepKeepsNamed ==
  ASSUME TypeInv, InHand, LockInv, NEW p \in Procs, Steps(p)
  PROVE  LockNamed'
<1>0. LockOf(p).by = p /\ LockOf(p) \in LockFiles
  BY DEF LockOf, LockFiles
<1>1. CASE path'["lock"] = path["lock"]
  <2>1. path["lock"] # NoFile => path["lock"].by \in Procs
    BY DEF LockInv, LockNamed, LockFiles, LockOf
  <2> QED BY <1>1, <2>1, OverStays DEF LockInv, LockNamed, LockFiles, LockOf
<1>2. CASE path'["lock"] = LockOf(p)
  BY <1>0, <1>2, OneMoves DEF LockNamed, LockFiles, LockOf
<1>3. CASE path'["lock"] = NoFile
  BY <1>3 DEF LockNamed
<1>4. CASE Restore(p) /\ target[p].path = "lock" /\ path'["lock"] = taken[p]
  <2>1. taken[p] \in LockFiles /\ pc[taken[p].by] # "unborn"
    BY <1>4 DEF Restore, LockInv, Kept
  <2>2. taken[p].by \in Procs
    BY <2>1 DEF LockFiles, LockOf
  <2> QED BY <1>4, <2>1, <2>2, OverStays DEF LockNamed, LockFiles, LockOf
<1> QED BY <1>1, <1>2, <1>3, <1>4, LockPathChanges

\* A publisher that IsHeld does not stand behind is over: it was started, and
\* the one process that may live under its pid is it.
LEMMA UnheldIsOver ==
  ASSUME TypeInv, LockInv, NEW p \in Procs, p \in Live, path["lock"] # NoFile,
         ~IsHeld(p, path["lock"])
  PROVE  path["lock"] \in LockFiles /\ Over(path["lock"].by)
<1> DEFINE by == path["lock"].by
<1>1. path["lock"] \in LockFiles /\ by \in Procs /\ pc[by] # "unborn"
  BY DEF LockInv, LockNamed, LockFiles, LockOf
<1>2. by \notin Live
  <2>1. CASE Pid[by] = Pid[p]
    BY <1>1, <2>1 DEF IsHeld, LockInv, PidsApart
  <2>2. CASE Pid[by] # Pid[p]
    BY <1>1, <2>2 DEF IsHeld, PidTaken
  <2> QED BY <2>1, <2>2
<1> QED BY <1>1, <1>2 DEF Live, Over

\* A lock about to be detached is of a process that is over, or one's own.
LEMMA StepKeepsChosen ==
  ASSUME TypeInv, InHand, LockInv, NEW p \in Procs, Steps(p)
  PROVE  Chosen'
<1>0. pc \in [Procs -> Places] /\ target \in [Procs -> Targets]
  BY LocalTypesOK DEF TypeInv, TypeOK, LocalTypes
<1> DEFINE Fine(q) ==
      pc[q] \in {"recheck", "detach"} /\ target[q].path = "lock" =>
        /\ target[q].file \in LockFiles
        /\ target[q].file # LockOf(q) => Over(target[q].file.by)
        /\ target[q].then # "held"
<1>1. ASSUME NEW q \in Procs, pc'[q] = pc[q] \/ (pc[q] = "recheck" /\ pc'[q] = "detach"),
             target'[q] = target[q]
      PROVE  Fine(q)'
  <2>1. Fine(q)
    BY DEF LockInv, Chosen
  <2>2. target[q].file \in LockFiles => target[q].file.by \in Procs
    BY DEF LockFiles, LockOf
  <2> QED BY <1>1, <2>1, <2>2, OverStays DEF LockFiles, LockOf
<1>2. ASSUME pc'[p] \notin {"recheck", "detach"} \/ target'[p].path = "reclaim" PROVE Fine(p)'
  BY <1>2
<1>3. ASSUME NEW won \in BOOLEAN, Answer(p, won) PROVE Fine(p)'
  BY <1>0, <1>2, <1>3, AnswerFrame
<1>4. ASSUME NextRound(p) PROVE Fine(p)'
  BY <1>0, <1>2, <1>4 DEF NextRound, Go
<1>5. LockOf(p) \in LockFiles
  BY DEF LockFiles
<1>6. Fine(p)'
  <2>1. CASE Start(p) \/ Try(p) \/ Inspect(p) \/ Publish(p) \/ Vouch(p) \/ Leave(p) \/ Die(p)
    BY <1>0, <1>2, <2>1 DEF Start, Try, Inspect, Publish, Vouch, Leave, Die, Go
  <2>2. CASE Look(p)
    BY <1>0, <1>2, <2>2 DEF Look, Take, Go
  <2>3. CASE Wait(p) \/ Claim(p) \/ ReadBack(p)
    <3>1. NextRound(p) \/ Go(p, "refused") \/ Go(p, "readback") \/ Go(p, "judge")
      BY <2>3 DEF Wait, Claim, ReadBack, BackOff
    <3> QED BY <1>0, <1>2, <1>4, <3>1 DEF Go
  <2>4. CASE Judge(p)
    <3>1. CASE Take(p, "lock", path["lock"], "publish") /\ path["lock"] # NoFile
                 /\ ~IsHeld(p, path["lock"])
      <4>1. path["lock"] \in LockFiles /\ Over(path["lock"].by)
        BY <2>4, <3>1, UnheldIsOver DEF Judge, Live
      <4>2. path["lock"].by \in Procs
        BY <4>1 DEF LockFiles, LockOf
      <4>3. pc'[path["lock"].by] \in {"dead", "gone"}
        BY <4>1, <4>2, OneMoves DEF Over
      <4>4. target'[p] = [path |-> "lock", file |-> path["lock"], then |-> "publish"]
        BY <1>0, <3>1 DEF Take
      <4> QED BY <4>1, <4>3, <4>4 DEF LockFiles, LockOf, Over
    <3>2. CASE Go(p, "dropRefused") \/ Go(p, "publish")
      BY <1>0, <1>2, <3>2 DEF Go
    <3> QED BY <2>4, <3>1, <3>2 DEF Judge
  <2>5. CASE BackOut(p)
    <3>1. CASE Take(p, "lock", LockOf(p), "dropRetry")
      BY <1>0, <1>5, <3>1 DEF Take, LockFiles, LockOf
    <3>2. CASE Go(p, "dropRetry")
      BY <1>0, <1>2, <3>2 DEF Go
    <3> QED BY <2>5, <3>1, <3>2 DEF BackOut
  <2>6. CASE Drop(p)
    BY <1>0, <1>2, <2>6 DEF Drop, Take, Go
  <2>7. CASE Release(p)
    <3>1. CASE Take(p, "lock", LockOf(p), "gone")
      BY <1>0, <1>5, <3>1 DEF Take, LockFiles, LockOf
    <3>2. CASE Go(p, "gone")
      BY <1>0, <1>2, <3>2 DEF Go
    <3> QED BY <2>7, <3>1, <3>2 DEF Release
  <2>8. CASE Recheck(p)
    <3>1. CASE Go(p, "detach") /\ UNCHANGED target
      BY <1>0, <1>1, <2>8, <3>1 DEF Recheck, Go
    <3>2. CASE Answer(p, FALSE)
      BY <1>3, <3>2
    <3> QED BY <2>8, <3>1, <3>2 DEF Recheck, local
  <2>9. CASE Detach(p)
    <3>1. Answer(p, path[target[p].path] # NoFile) \/ Go(p, "restore")
      BY <2>9 DEF Detach
    <3> QED BY <1>0, <1>2, <1>3, <3>1 DEF Go
  <2>10. CASE Restore(p)
    BY <1>3, <2>10 DEF Restore
  <2> QED
    BY <2>1, <2>2, <2>3, <2>4, <2>5, <2>6, <2>7, <2>8, <2>9, <2>10 DEF Steps, Acquire
<1>7. \A q \in Procs : q # p => Fine(q)'
  BY <1>1, OneMoves
<1> QED BY <1>6, <1>7 DEF Chosen

\* Only a detach finds a file to put back.
LEMMA RestoreFollowsDetach ==
  ASSUME TypeInv, InHand, NEW p \in Procs, Steps(p), pc'[p] = "restore"
  PROVE  Detach(p) /\ target'[p] = target[p]
<1>0. pc \in [Procs -> Places] /\ target \in [Procs -> Targets]
  BY LocalTypesOK DEF TypeInv, TypeOK, LocalTypes
<1>1. \A won \in BOOLEAN : Answer(p, won) => pc'[p] # "restore"
  BY <1>0, AnswerFrame
<1>2. NextRound(p) => pc'[p] # "restore"
  BY <1>0 DEF NextRound, Go
<1>3. CASE Start(p) \/ Look(p) \/ Try(p) \/ Inspect(p) \/ Judge(p) \/ Publish(p)
             \/ Vouch(p) \/ BackOut(p) \/ Drop(p) \/ Release(p) \/ Leave(p) \/ Die(p)
  BY <1>0, <1>3, SMTT(30) DEF Start, Look, Try, Inspect, Judge, Publish, Vouch, BackOut,
                      Drop, Release, Leave, Die, Go, Take
<1>4. CASE Wait(p) \/ Claim(p) \/ ReadBack(p)
  <2>1. NextRound(p) \/ Go(p, "refused") \/ Go(p, "readback") \/ Go(p, "judge")
    BY <1>4 DEF Wait, Claim, ReadBack, BackOff
  <2> QED BY <1>0, <1>2, <2>1 DEF Go
<1>5. CASE Recheck(p)
  <2>1. Go(p, "detach") \/ Answer(p, FALSE)
    BY <1>5 DEF Recheck
  <2> QED BY <1>0, <1>1, <2>1 DEF Go
<1>6. CASE Detach(p)
  <2>1. Answer(p, path[target[p].path] # NoFile) \/ UNCHANGED target
    BY <1>6 DEF Detach
  <2> QED BY <1>1, <1>6, <2>1
<1>7. CASE Restore(p)
  BY <1>1, <1>7 DEF Restore
<1> QED BY <1>3, <1>4, <1>5, <1>6, <1>7 DEF Steps, Acquire

\* A lock about to be put back is of a process that was started.
LEMMA StepKeepsKept ==
  ASSUME TypeInv, InHand, LockInv, NEW p \in Procs, Steps(p)
  PROVE  Kept'
<1>0. pc \in [Procs -> Places] /\ target \in [Procs -> Targets]
      /\ taken \in [Procs -> File \cup {NoFile}]
  BY LocalTypesOK DEF TypeInv, TypeOK, LocalTypes
<1> DEFINE Fine(q) ==
      pc[q] = "restore" /\ target[q].path = "lock" =>
        /\ taken[q] \in LockFiles /\ pc[taken[q].by] # "unborn"
        /\ target[q].then # "held"
<1>1. ASSUME NEW q \in Procs, q # p PROVE Fine(q)'
  <2>1. pc'[q] = pc[q] /\ target'[q] = target[q] /\ taken'[q] = taken[q] /\ Fine(q)
    BY <1>1, OneMoves DEF LockInv, Kept
  <2>2. taken[q] \in LockFiles => taken[q].by \in Procs
    BY DEF LockFiles, LockOf
  <2> QED BY <2>1, <2>2, OverStays DEF LockFiles, LockOf
<1>2. CASE pc'[p] = "restore" /\ Detach(p) /\ target[p].path = "lock"
  <2>1. path["lock"] # target[p].file /\ path["lock"] # NoFile
        /\ taken'[p] = path["lock"] /\ target'[p] = target[p]
    <3>1. \A won \in BOOLEAN : ~Answer(p, won)
      BY <1>0, <1>2, AnswerFrame
    <3> QED BY <1>0, <1>2, <3>1 DEF Detach
  <2>2. path["lock"] \in LockFiles /\ pc[path["lock"].by] # "unborn"
    BY <2>1 DEF LockInv, LockNamed
  <2>3. path["lock"].by \in Procs
    BY <2>2 DEF LockFiles, LockOf
  <2>4. target[p].then # "held"
    BY <1>2 DEF Detach, LockInv, Chosen
  <2>5. pc'[path["lock"].by] # "unborn"
    BY <2>2, <2>3, OverStays
  <2>6. Fine(p)'
    BY <2>1, <2>2, <2>4, <2>5 DEF LockFiles, LockOf
  <2> QED BY <1>1, <2>6 DEF Kept
<1>3. CASE ~(pc'[p] = "restore" /\ target'[p].path = "lock")
  BY <1>1, <1>3 DEF Kept
<1>4. pc'[p] = "restore" => Detach(p) /\ target'[p] = target[p]
  BY RestoreFollowsDetach
<1> QED BY <1>2, <1>3, <1>4

\* A process owns the lock by publishing it; every later step finds it an owner.
LEMMA OwnerPublished ==
  ASSUME TypeInv, InHand, LockInv, NEW p \in Procs, Steps(p), Owns(p)'
  PROVE  Owns(p) \/ path'["lock"] = LockOf(p)
<1>0. pc \in [Procs -> Places] /\ target \in [Procs -> Targets]
      /\ path \in [Paths -> File \cup {NoFile}]
  BY LocalTypesOK DEF TypeInv, TypeOK, LocalTypes
<1>1. ASSUME NEW won \in BOOLEAN, Answer(p, won), pc[p] \in Taking PROVE Owns(p)
  BY <1>0, <1>1, AnswerFrame DEF Owns, Taking
<1>2. ~NextRound(p)
  BY <1>0 DEF NextRound, Go, Owns, Taking
<1>3. CASE Try(p) \/ Publish(p)
  BY <1>0, <1>3 DEF Try, Publish, Go, Owns, Taking, Paths
<1>4. CASE Start(p) \/ Inspect(p) \/ Leave(p) \/ Die(p)
  BY <1>0, <1>4 DEF Start, Inspect, Leave, Die, Go, Owns, Taking
<1>5. CASE Look(p) \/ Judge(p) \/ BackOut(p) \/ Release(p)
  BY <1>0, <1>5, SMTT(30) DEF Look, Judge, BackOut, Release, Go, Take, Owns, Taking
<1>6. CASE Vouch(p)
  BY <1>6 DEF Vouch, Owns
<1>7. CASE Drop(p)
  BY <1>0, <1>7 DEF Drop, Go, Take, Owns, Taking
<1>8. CASE Wait(p) \/ Claim(p) \/ ReadBack(p)
  <2>1. Go(p, "refused") \/ Go(p, "readback") \/ Go(p, "judge")
    BY <1>2, <1>8 DEF Wait, Claim, ReadBack, BackOff
  <2> QED BY <1>0, <2>1 DEF Go, Owns, Taking
<1>9. CASE Recheck(p)
  <2>1. (Go(p, "detach") /\ UNCHANGED target) \/ Answer(p, FALSE)
    BY <1>9 DEF Recheck, local
  <2>2. pc[p] = "recheck"
    BY <1>9 DEF Recheck
  <2> QED BY <1>0, <1>1, <2>1, <2>2 DEF Go, Owns, Taking
<1>10. CASE Detach(p)
  <2>1. (Go(p, "restore") /\ UNCHANGED target) \/ Answer(p, path[target[p].path] # NoFile)
    BY <1>10 DEF Detach
  <2>2. pc[p] = "detach"
    BY <1>10 DEF Detach
  <2> QED BY <1>0, <1>1, <2>1, <2>2 DEF Go, Owns, Taking
<1>11. CASE Restore(p)
  BY <1>1, <1>11 DEF Restore, Taking
<1> QED
  BY <1>3, <1>4, <1>5, <1>6, <1>7, <1>8, <1>9, <1>10, <1>11 DEF Steps, Acquire

\* The displaced stay so, until their file is put back.
LEMMA DisplacedUntilRestored ==
  ASSUME TypeInv, InHand, LockInv, NEW p \in Procs, Steps(p), NEW o \in Procs, Displaced(o)
  PROVE  Displaced(o)' \/ path'["lock"] = LockOf(o)
<1>0. path \in [Paths -> File \cup {NoFile}] /\ target \in [Procs -> Targets]
      /\ taken \in [Procs -> File \cup {NoFile}] /\ pc \in [Procs -> Places]
  BY LocalTypesOK DEF TypeInv, TypeOK, LocalTypes
<1>1. CASE o \in lostLocks
  BY <1>1, OneMoves DEF Displaced
<1>2. CASE \E q \in Procs : q # p /\ target[q].path = "lock" /\ taken[q] = LockOf(o)
  BY <1>2, OneMoves DEF Displaced, LockOf
<1>3. CASE target[p].path = "lock" /\ taken[p] = LockOf(o)
  <2>1. pc[p] = "restore" /\ taken[p] # NoFile /\ taken[p].by = o
    BY <1>3, LockIsFile DEF InHand, LockOf
  <2>2. Restore(p) \/ Die(p)
    BY <2>1 DEF Steps, Acquire, Start, Release, Leave, Look, Wait, Try, Inspect, Claim,
                ReadBack, Judge, Publish, Vouch, BackOut, Drop, Recheck, Detach
  <2>3. CASE Die(p)
    BY <1>3, <2>1, <2>3 DEF Die, Displaced
  <2>4. CASE Restore(p) /\ path["lock"] = NoFile
    BY <1>0, <1>3, <2>4 DEF Restore, Paths
  <2>5. CASE Restore(p) /\ path["lock"] # NoFile
    BY <1>3, <2>1, <2>5 DEF Restore, Displaced
  <2> QED BY <2>2, <2>3, <2>4, <2>5
<1> QED BY <1>1, <1>2, <1>3 DEF Displaced

\* An owner keeps its lock unless a mistaken detach took it.
LEMMA StepKeepsOwners ==
  ASSUME TypeInv, InHand, LockInv, NEW p \in Procs, Steps(p)
  PROVE  OwnerKeepsLock'
<1>0. path \in [Paths -> File \cup {NoFile}] /\ target \in [Procs -> Targets]
      /\ taken \in [Procs -> File \cup {NoFile}] /\ pc \in [Procs -> Places]
  BY LocalTypesOK DEF TypeInv, TypeOK, LocalTypes
<1> SUFFICES ASSUME NEW o \in Procs, Owns(o)', path'["lock"] # LockOf(o)
             PROVE  Displaced(o)'
  BY DEF OwnerKeepsLock, LockOf
<1>1. Owns(o)
  <2>1. CASE o = p
    BY <2>1, OwnerPublished
  <2>2. CASE o # p
    BY <2>2, OneMoves DEF Owns
  <2> QED BY <2>1, <2>2
<1>2. CASE Displaced(o)
  BY <1>2, DisplacedUntilRestored
<1>3. CASE path["lock"] = LockOf(o)
  <2>1. Detach(p) /\ target[p].path = "lock" /\ path["lock"] # NoFile
    BY <1>3, LockPathChanges, LockIsFile
  <2>2. target[p].file # LockOf(o)
    \* An owner never detaches its own lock, and the dead own nothing.
    <3>1. pc[p] = "detach" /\ target[p].then # "held"
      BY <2>1 DEF Detach, LockInv, Chosen
    <3>2. ASSUME target[p].file = LockOf(o) PROVE FALSE
      <4>1. o # p
        BY <1>1, <3>1 DEF Owns, Taking
      <4>2. target[p].file # LockOf(p) /\ target[p].file.by = o
        BY <3>2, <4>1 DEF LockOf
      <4>3. Over(o)
        BY <2>1, <3>1, <4>2 DEF LockInv, Chosen
      <4> QED BY <1>1, <4>3 DEF Owns, Over, Taking
    <3> QED BY <3>2
  <2>3. taken'[p] = LockOf(o) /\ target'[p] = target[p]
    BY <1>0, <1>3, <2>1, <2>2 DEF Detach
  <2> QED BY <2>1, <2>3 DEF Displaced, LockOf
<1> QED BY <1>1, <1>2, <1>3 DEF LockInv, OwnerKeepsLock

\* The invariant holds of any ghost a dead process left behind.
LEMMA InitLockInv == Init => LockInv
<1> SUFFICES ASSUME Init PROVE LockInv
  OBVIOUS
<1> USE LockAssumption DEF Init
<1>1. path["lock"] \in {NoFile} \cup {LockOf(g) : g \in Ghosts}
  BY DEF Paths
<1>2. LockNamed
  <2> SUFFICES ASSUME path["lock"] # NoFile
               PROVE  path["lock"] \in LockFiles /\ pc[path["lock"].by] # "unborn"
    BY DEF LockNamed
  <2>1. PICK g \in Ghosts : path["lock"] = LockOf(g)
    BY <1>1
  <2> QED BY <2>1 DEF LockFiles, LockOf
<1>3. Chosen /\ Kept /\ OwnerKeepsLock
  BY DEF Chosen, Kept, OwnerKeepsLock, Owns, Taking
<1>4. PidsApart
  BY DEF PidsApart, Live
<1> QED BY <1>2, <1>3, <1>4 DEF LockInv

\* The invariant is inductive.
LEMMA StepKeepsLockInv == TypeInv /\ InHand /\ LockInv /\ [Next]_vars => LockInv'
<1> SUFFICES ASSUME TypeInv, InHand, LockInv, [Next]_vars PROVE LockInv'
  OBVIOUS
<1>1. CASE UNCHANGED vars
  BY <1>1 DEF vars, local, history, LockInv, LockNamed, LockFiles, LockOf, Chosen, Over, Kept,
              PidsApart, Live, OwnerKeepsLock, Owns, Displaced
<1>2. ASSUME NEW p \in Procs, Steps(p) PROVE LockInv'
  BY <1>2, StepKeepsNamed, StepKeepsChosen, StepKeepsKept, StepKeepsPidsApart,
     StepKeepsOwners DEF LockInv
<1> QED BY <1>1, <1>2 DEF Next, Steps

\* Types and invariant hold in every state.
LEMMA LockInvHolds == Spec => [](TypeInv /\ InHand /\ LockInv)
BY InitTypes, InitInHand, InitLockInv, StepKeepsTypes, StepKeepsInHand, StepKeepsLockInv, PTL
   DEF Spec

\* I2: among any number of contenders, crashes and recycled pids, what holds the
\* lock finds its own file there unless a mistaken detach took it.
THEOREM HoldersKeepTheirLock == Spec => []HolderKeepsLock
<1>1. LockInv => HolderKeepsLock
  BY DEF LockInv, OwnerKeepsLock, Owns, HolderKeepsLock, Holds
<1> QED BY <1>1, LockInvHolds, PTL

\* The residual race is the only one: two processes hold the lock together only
\* when a mistaken detach took the file of one of them.
THEOREM ExclusionUnlessDisplaced == Spec => []MutualExclusionUnlessDisplaced
<1>0. \A p, q \in Procs : LockOf(p) = LockOf(q) => p = q
  BY DEF LockOf
<1>1. LockInv => MutualExclusionUnlessDisplaced
  <2>1. LockInv => \A p \in Procs : Holds(p) => path["lock"] = LockOf(p) \/ Displaced(p)
    BY DEF LockInv, OwnerKeepsLock, Owns, Holds
  <2> QED BY <1>0, <2>1 DEF MutualExclusionUnlessDisplaced
<1> QED BY <1>1, LockInvHolds, PTL

\* Who may remove a lock: what a detach discards for good was published by a
\* process that is over, or by the one that discards it.
THEOREM DiscardsAreJustified == Spec => OnlyDeadOrOwnDiscarded
<1> DEFINE A == \A p \in Procs :
       pc[p] = "detach" /\ target[p].path = "lock" /\ path["lock"] # NoFile
         /\ pc'[p] # "detach" /\ path'["lock"] = NoFile /\ taken'[p] = NoFile
       => path["lock"].by \notin Live \/ path["lock"].by = p
<1>1. ASSUME TypeInv, InHand, LockInv, Next PROVE A
  <2> SUFFICES ASSUME NEW p \in Procs, pc[p] = "detach", target[p].path = "lock",
                      path["lock"] # NoFile, pc'[p] # "detach", path'["lock"] = NoFile,
                      taken'[p] = NoFile
               PROVE  path["lock"].by \notin Live \/ path["lock"].by = p
    OBVIOUS
  <2>1. PICK q \in Procs : Steps(q)
    BY <1>1 DEF Next, Steps
  <2>2. q = p
    BY <1>1, <2>1, OneMoves
  <2>3. Detach(p)
    BY <1>1, <2>1, <2>2, LockPathChanges DEF Try, Publish, Restore
  <2>4. path["lock"] = target[p].file
    <3>1. taken \in [Procs -> File \cup {NoFile}]
      BY <1>1 DEF TypeInv, TypeOK
    <3> QED BY <2>3, <3>1 DEF Detach
  <2>5. target[p].file = LockOf(p) \/ Over(path["lock"].by)
    BY <1>1, <2>4 DEF LockInv, Chosen
  <2> QED BY <2>4, <2>5 DEF Over, Live, LockOf
<1>2. ASSUME TypeInv, InHand, LockInv, [Next]_vars PROVE [A]_vars
  BY <1>1, <1>2
<1> QED BY <1>2, LockInvHolds, PTL DEF Spec, OnlyDeadOrOwnDiscarded

----------------------------------------------------------------------------
(* Elections.                                                              *)

\* Whom the marker entitles to take the lock of a dead process away.
Elected(p) ==
  \/ pc[p] = "judge"
  \/ /\ pc[p] \in {"recheck", "detach"}
     /\ target[p].path = "lock" /\ target[p].then = "publish"

\* What a takeIfSame is after: a marker of one's own or of a dead process; for the
\* elected, the lock of a dead process; one's own lock.
Aimed(p) ==
  pc[p] \in {"recheck", "detach"} =>
    /\ target[p].file # NoFile
    /\ IF target[p].path = "reclaim" THEN target[p].file.by = p \/ Over(target[p].file.by)
       ELSE IF target[p].then = "publish" THEN Over(target[p].file.by)
       ELSE target[p].file = LockOf(p)

MarkerNamed  == path["reclaim"] # NoFile => pc[path["reclaim"].by] # "unborn"
ElectionHeld == \A p \in Procs : Elected(p) => path["reclaim"] = MarkerOf(p)
DetachSure ==
  \A p \in Procs : pc[p] = "detach" /\ target[p].path = "lock" => path["lock"] = target[p].file

\* While no marker was taken off its path by mistake, neither is any lock.
Unbroken ==
  movedMarkers = {} =>
    /\ lostLocks = {} /\ \A p \in Procs : pc[p] # "restore" /\ Aimed(p)
    /\ MarkerNamed /\ ElectionHeld /\ DetachSure

\* The ways the file under the name of the marker changes.
LEMMA MarkerPathChanges ==
  ASSUME TypeInv, InHand, NEW p \in Procs, Steps(p), path'["reclaim"] # path["reclaim"]
  PROVE  \/ Claim(p) /\ path["reclaim"] = NoFile /\ path'["reclaim"].by = p
         \/ Detach(p) /\ target[p].path = "reclaim" /\ path'["reclaim"] = NoFile
         \/ Restore(p)
<1>0. path \in [Paths -> File \cup {NoFile}] /\ target[p] \in Targets
  BY LocalTypesOK DEF TypeInv, TypeOK, LocalTypes
<1>1. CASE Start(p) \/ Look(p) \/ Wait(p) \/ Inspect(p) \/ ReadBack(p) \/ Judge(p)
             \/ Vouch(p) \/ BackOut(p) \/ Drop(p) \/ Recheck(p) \/ Release(p)
             \/ Leave(p) \/ Die(p)
  BY <1>1 DEF Start, Look, Wait, Inspect, ReadBack, Judge, Vouch, BackOut, Drop,
              Recheck, Release, Leave, Die
<1>2. CASE Claim(p)
  BY <1>0, <1>2 DEF Claim, Paths
<1>3. CASE Try(p) \/ Publish(p)
  BY <1>0, <1>3 DEF Try, Publish, Paths
<1>4. CASE Detach(p)
  BY <1>0, <1>4 DEF Detach, Paths, Targets
<1> QED BY <1>1, <1>2, <1>3, <1>4 DEF Steps, Acquire

\* An election is won by reading one's own marker back, and used at once.
LEMMA ElectionWon ==
  ASSUME TypeInv, InHand, NEW p \in Procs, Steps(p), Elected(p)'
  PROVE  /\ Elected(p) \/ path["reclaim"] = MarkerOf(p)
         /\ path'["reclaim"] = path["reclaim"] /\ UNCHANGED claim
<1>0. pc \in [Procs -> Places] /\ target \in [Procs -> Targets]
  BY LocalTypesOK DEF TypeInv, TypeOK, LocalTypes
<1>1. \A won \in BOOLEAN : ~Answer(p, won)
  BY <1>0, AnswerFrame DEF Elected
<1>2. ~NextRound(p)
  BY <1>0 DEF NextRound, Go, Elected
<1>3. CASE Start(p) \/ Try(p) \/ Inspect(p) \/ Publish(p) \/ Vouch(p) \/ Leave(p) \/ Die(p)
  BY <1>0, <1>3 DEF Start, Try, Inspect, Publish, Vouch, Leave, Die, Go, Elected
<1>4. CASE Look(p) \/ BackOut(p) \/ Drop(p) \/ Release(p)
  BY <1>0, <1>4, SMTT(30) DEF Look, BackOut, Drop, Release, Go, Take, Elected
<1>5. CASE Judge(p)
  BY <1>5 DEF Judge, Elected
<1>6. CASE Wait(p) \/ Claim(p) \/ ReadBack(p)
  <2>1. ReadBack(p) /\ path["reclaim"] = MarkerOf(p)
    BY <1>0, <1>2, <1>6 DEF Wait, Claim, ReadBack, BackOff, Go, Elected
  <2> QED BY <2>1 DEF ReadBack
<1>7. CASE Recheck(p)
  <2>1. pc[p] = "recheck" /\ UNCHANGED <<path, claim, target>> /\ Go(p, "detach")
    BY <1>1, <1>7 DEF Recheck, local
  <2> QED BY <1>0, <2>1 DEF Elected, Go
<1>8. CASE Detach(p)
  <2>1. Go(p, "restore")
    BY <1>1, <1>8 DEF Detach
  <2> QED BY <1>0, <2>1 DEF Go, Elected
<1>9. CASE Restore(p)
  BY <1>1, <1>9 DEF Restore
<1> QED BY <1>3, <1>4, <1>5, <1>6, <1>7, <1>8, <1>9 DEF Steps, Acquire

\* Where a takeIfSame is going: on from its recheck, or chosen now.
LEMMA AimTaken ==
  ASSUME TypeInv, InHand, LockInv, NEW p \in Procs, Steps(p), Aimed(p), MarkerNamed
  PROVE  Aimed(p)'
<1>0. /\ pc \in [Procs -> Places] /\ target \in [Procs -> Targets]
      /\ path \in [Paths -> File \cup {NoFile}]
  BY LocalTypesOK DEF TypeInv, TypeOK, LocalTypes
<1> SUFFICES ASSUME pc'[p] \in {"recheck", "detach"} PROVE Aimed(p)'
  BY DEF Aimed
<1>1. \A won \in BOOLEAN : ~Answer(p, won)
  BY <1>0, AnswerFrame
<1>2. ~NextRound(p)
  BY <1>0 DEF NextRound, Go
<1>3. \A f \in File : f.by \in Procs
  BY DEF File
<1>4. CASE Start(p) \/ Try(p) \/ Inspect(p) \/ Publish(p) \/ Vouch(p) \/ Leave(p) \/ Die(p)
  BY <1>0, <1>4 DEF Start, Try, Inspect, Publish, Vouch, Leave, Die, Go
<1>5. CASE Wait(p) \/ Claim(p) \/ ReadBack(p)
  BY <1>0, <1>2, <1>5 DEF Wait, Claim, ReadBack, BackOff, Go
<1>6. CASE Look(p)
  <2> DEFINE seen == path["reclaim"]
  <2>1. /\ seen # NoFile /\ ~LiveReclaim(p, seen) /\ Take(p, "reclaim", seen, "cleared")
        /\ pc[p] = "look"
    BY <1>0, <1>6 DEF Look, Go
  <2>2. target'[p] = [path |-> "reclaim", file |-> seen, then |-> "cleared"]
    BY <1>0, <2>1 DEF Take
  <2>3. seen.by \in Procs /\ pc[seen.by] # "unborn"
    BY <1>0, <1>3, <2>1 DEF MarkerNamed, Paths
  <2>4. seen.by \in Live => seen.by = p
    <3>1. ASSUME seen.by \in Live PROVE Pid[seen.by] = Pid[p]
      BY <2>1, <3>1 DEF LiveReclaim, PidTaken
    <3>2. p \in Live
      BY <2>1 DEF Live
    <3> HIDE DEF seen
    <3> QED BY <3>1, <3>2 DEF LockInv, PidsApart
  <2>5. seen.by = p \/ Over(seen.by)
    BY <2>3, <2>4 DEF Live, Over
  <2>6. \A q \in Procs : Over(q) => pc'[q] \in {"dead", "gone"}
    BY OverStays DEF Over
  <2>7. UNCHANGED path
    BY <1>6 DEF Look
  <2> QED BY <2>1, <2>2, <2>3, <2>5, <2>6, <2>7 DEF Aimed, Over
<1>7. CASE Judge(p)
  <2> DEFINE seen == path["lock"]
  <2>1. seen # NoFile /\ ~IsHeld(p, seen) /\ Take(p, "lock", seen, "publish") /\ p \in Live
    BY <1>0, <1>7 DEF Judge, Go, Live
  <2>2. target'[p] = [path |-> "lock", file |-> seen, then |-> "publish"] /\ UNCHANGED path
    BY <1>0, <1>7, <2>1 DEF Take, Judge
  <2>3. seen.by \in Procs /\ Over(seen.by)
    BY <2>1, UnheldIsOver DEF LockFiles, LockOf
  <2>4. \A q \in Procs : Over(q) => pc'[q] \in {"dead", "gone"}
    BY OverStays DEF Over
  <2> QED BY <2>1, <2>2, <2>3, <2>4 DEF Aimed, Over
<1>8. CASE BackOut(p) \/ Release(p)
  <2>1. PICK next \in {"dropRetry", "gone"} : Take(p, "lock", LockOf(p), next)
    BY <1>0, <1>8 DEF BackOut, Release, Go
  <2>2. target'[p] = [path |-> "lock", file |-> LockOf(p), then |-> next]
    BY <1>0, <2>1 DEF Take
  <2> QED BY <2>2, LockIsFile DEF Aimed, LockOf
<1>9. CASE Drop(p)
  <2>1. \E next : target'[p] = [path |-> "reclaim", file |-> MarkerOf(p), then |-> next]
    BY <1>0, <1>9 DEF Drop, Take
  <2>2. MarkerOf(p) # NoFile /\ MarkerOf(p).by = p
    BY MarkerIsFile, LockAssumption DEF MarkerOf, TypeInv, TypeOK
  <2> QED BY <2>1, <2>2 DEF Aimed
<1>10. CASE Recheck(p)
  <2>1. pc[p] = "recheck" /\ target'[p] = target[p]
    BY <1>1, <1>10 DEF Recheck, local
  <2>2. target[p].file # NoFile => target[p].file.by \in Procs
    BY <1>0, <1>3 DEF Targets
  <2>3. \A q \in Procs : Over(q) => pc'[q] \in {"dead", "gone"}
    BY OverStays DEF Over
  <2> QED BY <2>1, <2>2, <2>3 DEF Aimed, Over, LockOf
<1>11. CASE Detach(p) \/ Restore(p)
  BY <1>0, <1>1, <1>11 DEF Detach, Restore, Go
<1> QED
  BY <1>4, <1>5, <1>6, <1>7, <1>8, <1>9, <1>10, <1>11 DEF Steps, Acquire

\* A lock is taken off its path by the one process entitled to it.
LEMMA StepKeepsUnbroken ==
  ASSUME TypeInv, InHand, LockInv, Unbroken, NEW p \in Procs, Steps(p)
  PROVE  Unbroken'
<1>0. /\ pc \in [Procs -> Places] /\ target \in [Procs -> Targets]
      /\ path \in [Paths -> File \cup {NoFile}] /\ claim \in [Procs -> 0..MaxRounds]
  BY LocalTypesOK DEF TypeInv, TypeOK, LocalTypes
<1> SUFFICES ASSUME movedMarkers' = {}
             PROVE  /\ lostLocks' = {} /\ \A q \in Procs : pc'[q] # "restore" /\ Aimed(q)'
                    /\ MarkerNamed' /\ ElectionHeld' /\ DetachSure'
  BY DEF Unbroken
<1>1. movedMarkers = {}
  BY DEF Steps, Acquire, Start, Release, Leave, Die, Look, Wait, Try, Inspect, Claim, ReadBack,
         Judge, Publish, Vouch, BackOut, Drop, Recheck, Detach, Restore, history
<1>2. /\ lostLocks = {} /\ \A q \in Procs : pc[q] # "restore" /\ Aimed(q)
      /\ MarkerNamed /\ ElectionHeld /\ DetachSure
  BY <1>1 DEF Unbroken
<1>3. ~Restore(p) /\ taken[p] = NoFile
  BY <1>2 DEF Restore, InHand
<1>4. lostLocks' = {}
  BY <1>2, <1>3 DEF Steps, Acquire, Start, Release, Leave, Die, Look, Wait, Try, Inspect, Claim,
         ReadBack, Judge, Publish, Vouch, BackOut, Drop, Recheck, Detach, history
\* What the rename brings is what was observed.
<1>5. ASSUME Detach(p) PROVE path[target[p].path] \in {NoFile, target[p].file}
  <2>1. CASE target[p].path = "lock"
    BY <1>2, <1>5, <2>1 DEF Detach, DetachSure
  <2>2. CASE target[p].path = "reclaim"
    BY <1>5, <2>2 DEF Detach
  <2> QED BY <1>0, <2>1, <2>2 DEF Targets, Paths
<1>6. \A q \in Procs : pc'[q] # "restore"
  <2>1. pc'[p] # "restore"
    <3>1. \A won \in BOOLEAN : Answer(p, won) => pc'[p] # "restore"
      BY <1>0, AnswerFrame
    <3>2. Detach(p) => pc'[p] # "restore"
      BY <1>5, <3>1 DEF Detach
    <3> QED BY <3>2, RestoreFollowsDetach
  <2> QED BY <1>2, <2>1, OneMoves
<1>7. \A q \in Procs : Over(q) => pc'[q] \in {"dead", "gone"}
  BY OverStays DEF Over
<1>8. \A f \in File : f.by \in Procs
  BY DEF File
<1>9. ASSUME NEW q \in Procs PROVE Aimed(q)'
  <2>1. CASE q = p
    BY <1>2, <2>1, AimTaken
  <2>2. CASE q # p
    <3>1. pc'[q] = pc[q] /\ target'[q] = target[q]
      BY <2>2, OneMoves
    <3>2. target[q].file # NoFile => target[q].file.by \in Procs
      BY <1>0, <1>8 DEF Targets
    <3> QED BY <1>2, <1>7, <3>1, <3>2 DEF Aimed, Over, LockOf
  <2> QED BY <2>1, <2>2
<1>10. MarkerNamed'
  <2>1. CASE path'["reclaim"] = path["reclaim"]
    <3>1. path["reclaim"] # NoFile => path["reclaim"].by \in Procs
      BY <1>0, <1>8 DEF Paths
    <3>2. \A q \in Procs : pc[q] # "unborn" => pc'[q] # "unborn"
      BY OverStays
    <3> QED BY <1>2, <2>1, <3>1, <3>2 DEF MarkerNamed
  <2>2. CASE path'["reclaim"] # path["reclaim"]
    BY <1>3, <2>2, MarkerPathChanges, OneMoves DEF MarkerNamed
  <2> QED BY <2>1, <2>2
<1>11. ASSUME NEW q \in Procs, Elected(q)' PROVE path'["reclaim"] = MarkerOf(q)'
  <2>1. CASE q = p
    BY <1>2, <1>11, <2>1, ElectionWon DEF ElectionHeld, MarkerOf
  <2>2. CASE q # p
    <3>1. Elected(q) /\ claim'[q] = claim[q]
      <4>1. UNCHANGED claim \/ \E x : claim' = [claim EXCEPT ![p] = x]
        BY DEF Steps, Acquire, Start, Release, Leave, Die, Look, Wait, Try, Inspect, Claim,
           ReadBack, Judge, Publish, Vouch, BackOut, Drop, Recheck, Detach, Restore, local
      <4> QED BY <1>0, <1>11, <2>2, <4>1, OneMoves DEF Elected
    <3>2. path["reclaim"] = MarkerOf(q) /\ MarkerOf(q) # NoFile /\ MarkerOf(q).by = q
      BY <1>0, <1>2, <3>1, MarkerIsFile, LockAssumption DEF ElectionHeld, MarkerOf
    <3>3. ~(Detach(p) /\ target[p].path = "reclaim")
      <4> SUFFICES ASSUME Detach(p), target[p].path = "reclaim" PROVE FALSE
        OBVIOUS
      <4>1. target[p].file = MarkerOf(q)
        BY <1>5, <3>2
      <4>2. Over(q)
        BY <1>2, <2>2, <3>2, <4>1 DEF Aimed, Detach
      <4> QED BY <3>1, <4>2 DEF Elected, Over
    <3>4. path'["reclaim"] = path["reclaim"]
      BY <1>3, <3>2, <3>3, MarkerPathChanges
    <3> QED BY <3>1, <3>2, <3>4 DEF MarkerOf
  <2> QED BY <2>1, <2>2
<1>12. ASSUME NEW q \in Procs, pc'[q] = "detach", target'[q].path = "lock"
       PROVE  path'["lock"] = target'[q].file
  <2>1. CASE q = p
    <3>1. /\ \A won \in BOOLEAN : ~Answer(p, won)
          /\ ~NextRound(p)
      BY <1>0, <1>12, <2>1, AnswerFrame DEF NextRound, Go
    <3>2. Recheck(p)
      <4>1. ~(Start(p) \/ Look(p) \/ Try(p) \/ Inspect(p) \/ Judge(p) \/ Publish(p)
               \/ Vouch(p) \/ BackOut(p) \/ Drop(p) \/ Release(p) \/ Leave(p) \/ Die(p))
        BY <1>0, <1>12, <2>1, SMTT(30) DEF Start, Look, Try, Inspect, Judge, Publish, Vouch,
                      BackOut, Drop, Release, Leave, Die, Go, Take
      <4>2. ~(Wait(p) \/ Claim(p) \/ ReadBack(p) \/ Detach(p))
        BY <1>0, <1>12, <2>1, <3>1 DEF Wait, Claim, ReadBack, BackOff, Detach, Go
      <4> QED BY <1>3, <4>1, <4>2 DEF Steps, Acquire
    <3>3. path[target[p].path] = target[p].file /\ UNCHANGED <<path, target>>
      BY <3>1, <3>2 DEF Recheck, local
    <3> QED BY <1>12, <2>1, <3>3
  <2>2. CASE q # p
    <3>1. /\ pc[q] = "detach" /\ target[q].path = "lock" /\ target'[q] = target[q]
          /\ path["lock"] = target[q].file /\ target[q].file # NoFile
      BY <1>2, <1>12, <2>2, OneMoves DEF DetachSure, Aimed
    <3>2. ~(Detach(p) /\ target[p].path = "lock")
      <4> SUFFICES ASSUME Detach(p), target[p].path = "lock" PROVE FALSE
        OBVIOUS
      <4>1. pc[p] = "detach" /\ target[p].file = target[q].file
        BY <1>2, <3>1 DEF Detach, DetachSure
      <4>2. LockOf(p) # LockOf(q) /\ LockOf(p).by = p /\ LockOf(q).by = q /\ ~Over(p) /\ ~Over(q)
        BY <2>2, <3>1, <4>1 DEF LockOf, Over
      <4>3. target[p].then = "publish" /\ target[q].then = "publish"
        BY <1>2, <3>1, <4>1, <4>2 DEF Aimed
      <4>4. MarkerOf(p) = MarkerOf(q)
        BY <1>2, <3>1, <4>1, <4>3 DEF Elected, ElectionHeld
      <4> QED BY <2>2, <4>4 DEF MarkerOf
    <3>3. path'["lock"] = path["lock"]
      BY <1>3, <3>1, <3>2, LockPathChanges
    <3> QED BY <3>1, <3>3
  <2> QED BY <2>1, <2>2
<1> QED BY <1>4, <1>6, <1>9, <1>10, <1>11, <1>12 DEF ElectionHeld, DetachSure

\* Unbroken holds in every state.
LEMMA UnbrokenHolds == Spec => []Unbroken
<1>1. Init => Unbroken
  <2> SUFFICES ASSUME Init PROVE Unbroken
    OBVIOUS
  <2>1. MarkerNamed
    <3> SUFFICES ASSUME path["reclaim"] # NoFile PROVE pc[path["reclaim"].by] # "unborn"
      BY DEF MarkerNamed
    <3>1. PICK g \in Ghosts : path["reclaim"] = LockOf(g)
      BY DEF Init, Paths
    <3> QED BY <3>1, LockAssumption DEF Init, LockOf
  <2>2. lostLocks = {} /\ \A q \in Procs : pc[q] \in {"dead", "unborn"}
    BY DEF Init
  <2> QED BY <2>1, <2>2 DEF Unbroken, ElectionHeld, DetachSure, Elected, Aimed
<1>2. TypeInv /\ InHand /\ LockInv /\ Unbroken /\ [Next]_vars => Unbroken'
  <2> SUFFICES ASSUME TypeInv, InHand, LockInv, Unbroken, [Next]_vars PROVE Unbroken'
    OBVIOUS
  <2>1. CASE UNCHANGED vars
    BY <2>1 DEF vars, local, history, Unbroken, MarkerNamed, ElectionHeld, DetachSure, Elected,
                Aimed, Over, MarkerOf, LockOf
  <2>2. CASE \E p \in Procs : Steps(p)
    BY <2>2, StepKeepsUnbroken
  <2> QED BY <2>1, <2>2 DEF Next, Steps
<1> QED BY <1>1, <1>2, LockInvHolds, PTL DEF Spec

\* "The window is bounded to two nested races": among any number of contenders,
\* crashes and recycled pids, a lock is lost only after an election was broken by a
\* detach that took a marker by mistake (lock.ts takeIfSame, publishMarker).
THEOREM ElectionsBreakFirst == Spec => []BrokenElectionFirst
<1>1. Unbroken => BrokenElectionFirst
  BY DEF Unbroken, BrokenElectionFirst
<1> QED BY <1>1, UnbrokenHolds, PTL

\* Whatever dies, and whatever pids come back, two processes hold the lock together
\* only after a marker was taken by mistake: no single race, however placed between
\* the reads, links and renames of acquireLock, admits a second holder.
THEOREM ExclusionUnlessElectionBroken == Spec => [](movedMarkers = {} => MutualExclusion)
<1>1. Unbroken /\ InHand /\ movedMarkers = {} => \A p \in Procs : ~Displaced(p)
  BY LockIsFile DEF Unbroken, InHand, Displaced
<1>2. Unbroken /\ InHand /\ MutualExclusionUnlessDisplaced
        => (movedMarkers = {} => MutualExclusion)
  BY <1>1 DEF MutualExclusionUnlessDisplaced, MutualExclusion
<1> QED BY <1>2, LockInvHolds, UnbrokenHolds, ExclusionUnlessDisplaced, PTL
=============================================================================
