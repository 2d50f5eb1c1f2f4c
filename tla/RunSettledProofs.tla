-------------------------- MODULE RunSettledProofs --------------------------
(***************************************************************************)
(* What completed stays completed: no process of a run works again on a    *)
(* step the disk calls done, wherever the ones before it crashed, and a    *)
(* resume takes for done what completed and nothing else.                  *)
(*                                                                         *)
(* The argument.  A completion is two writes, the event of the step and    *)
(* the snapshot, and a crash may keep the first of them only.  It is Held  *)
(* from the first one on: the snapshot calls the step done, or running     *)
(* with the event beside it, and a resume reads both as done.  The second  *)
(* case needs that a pass never ends over a snapshot that does not know of *)
(* its start (UnderWay, Completing), and that what a process writes of a   *)
(* step is what it holds of it (WritesTruthful).  Conversely, an event     *)
(* that says done never stands beside a step that works again without      *)
(* being finished (SnapFresh, RunFresh): the first thing a process writes  *)
(* of a step it takes up is that it runs.  That needs the appends, hence   *)
(* lost = 0; the rest holds whatever appends fail.                         *)
(*                                                                         *)
(* Between the opening of a run and its end, a step of a process changes   *)
(* the status of no step, or of steps that were not done, and says so in   *)
(* what it writes (Turn): TurnSettled is the induction step for them all.  *)
(*                                                                         *)
(* And what completed is what the verdict speaks of: a PASS on disk is of  *)
(* a run whose every step is settled, and every end of the loop has a      *)
(* verdict.  That follows what the loop leaves behind it: a step before    *)
(* the cursor is settled, a member of the unit, or the reason for a stop   *)
(* (LoopCleared), and whatever ends the loop is in the run or in the       *)
(* StepLoopStop when finalizeRun reads them (EndExplained).  A verdict     *)
(* restored from disk must not outlive work begun under it (VerdictHeld,   *)
(* DiskOver): a PASS is written by a process that is done, and the first   *)
(* write of the next one that finds work takes it back.                    *)
(*                                                                         *)
(* And the account is settled to the dollar.  What a step holds as spent   *)
(* is what its attempts cost (Counted), in memory, in each snapshot still  *)
(* to be written and, no append having failed, on disk (SnapCounted): a    *)
(* process writes the finish of an attempt before the run that counts it   *)
(* (Ordered), so a crash in between leaves the journal ahead, and a resume *)
(* takes the greater of the two.  The ledger is the sum (LedgerIs), a step *)
(* past the gate is below the ceiling until it opens its attempt (Gate).   *)
(*                                                                         *)
(* And an open attempt on disk is the mark of a death, not of a signal:    *)
(* the handler closes what the executing steps have open, and the passes   *)
(* under way are among them (Executed).  It stays away only when a sibling *)
(* gave the run its verdict first (Uncontested).                           *)
(*                                                                         *)
(* And what is not a pass can be resumed.  A step nobody is at work on is  *)
(* settled, or owes work that no event settles (Honest), so a stop or a    *)
(* failure, which is of a step the loop did not pass over, leaves work     *)
(* owed (StopSpoilt, EndOwes), in memory, in the snapshots still to be     *)
(* written and on disk (RunOwes, WritesOwe, DiskOwes).                     *)
(*                                                                         *)
(* And a resume repeated is the resume it repeats.  Each of its writes is  *)
(* the closure of a crashed attempt or the run restored (RestoreShape); a  *)
(* step is read twice as once (ReadTwice), and closing an attempt in       *)
(* flight changes no cost, since it had none (SameProjection).             *)
(***************************************************************************)
EXTENDS RunRecordProofs

----------------------------------------------------------------------------
(* The writes of a sequence of writes.                                     *)

Writes(q)  == {q[k] : k \in 1..Len(q)}
Saves(q)   == {e \in Writes(q) : e.kind = "save"}
Tidings(q) == {e \in Writes(q) : e.kind = "status"}

\* No write, and one.
LEMMA FewWrites == Writes(<<>>) = {} /\ \A e : Writes(<<e>>) = {e}
<1>1. Writes(<<>>) = {}
  BY EmptySeq DEF Writes
<1>2. \A e : Writes(<<e>>) = {e}
  BY DEF Writes
<1> QED BY <1>1, <1>2

\* The writes of a sequence over S are in S; a concatenation has those of both.
LEMMA ConcatWrites ==
  ASSUME NEW S, NEW p \in Seq(S), NEW q \in Seq(S)
  PROVE  /\ Writes(p) \subseteq S
         /\ p \o q \in Seq(S) /\ Writes(p \o q) = Writes(p) \cup Writes(q)
<1> DEFINE r == p \o q
<1>1. Writes(p) \subseteq S
  BY ElementOfSeq DEF Writes
<1>2. /\ Len(r) = Len(p) + Len(q) /\ Len(p) \in Nat /\ Len(q) \in Nat
      /\ \A i \in 1..Len(p) : r[i] = p[i]
      /\ \A i \in 1..Len(q) : r[Len(p) + i] = q[i]
      /\ r \in Seq(S)
  BY ConcatProperties, LenProperties
<1> HIDE DEF r
<1>3. Writes(p) \cup Writes(q) \subseteq Writes(r)
  <2>1. \A k \in 1..Len(p) : k \in 1..Len(r) /\ r[k] = p[k]
    BY <1>2
  <2>2. \A k \in 1..Len(q) : Len(p) + k \in 1..Len(r) /\ r[Len(p) + k] = q[k]
    BY <1>2
  <2> QED BY <2>1, <2>2 DEF Writes
<1>4. Writes(r) \subseteq Writes(p) \cup Writes(q)
  <2> SUFFICES ASSUME NEW k \in 1..Len(r)
               PROVE  r[k] \in Writes(p) \cup Writes(q)
    BY DEF Writes
  <2>1. CASE k <= Len(p)
    BY <1>2, <2>1 DEF Writes
  <2>2. CASE k > Len(p)
    <3> DEFINE i == k - Len(p)
    <3>1. i \in 1..Len(q) /\ Len(p) + i = k
      BY <1>2, <2>2
    <3>2. r[k] = q[i]
      BY <1>2, <3>1
    <3> HIDE DEF i
    <3> QED BY <3>1, <3>2 DEF Writes
  <2> QED BY <1>2, <2>1, <2>2
<1> QED BY <1>1, <1>2, <1>3, <1>4 DEF r

\* The first write and the others.
LEMMA TailWrites ==
  ASSUME NEW S, NEW q \in Seq(S), q # <<>>
  PROVE  Head(q) \in Writes(q) /\ Writes(q) = {Head(q)} \cup Writes(Tail(q))
<1> DEFINE t == Tail(q)
<1>1. /\ Head(q) = q[1] /\ Len(q) \in Nat \ {0} /\ Len(t) = Len(q) - 1
      /\ \A i \in 1..Len(t) : t[i] = q[i + 1]
  BY HeadTailProperties, EmptySeq, LenProperties
<1> HIDE DEF t
<1>2. \A k \in 1..Len(t) : k + 1 \in 1..Len(q) /\ t[k] = q[k + 1]
  BY <1>1
<1>3. \A k \in 1..Len(q) : k = 1 \/ (k - 1 \in 1..Len(t) /\ t[k - 1] = q[k])
  <2> TAKE k \in 1..Len(q)
  <2> SUFFICES ASSUME k # 1 PROVE k - 1 \in 1..Len(t) /\ t[k - 1] = q[k]
    OBVIOUS
  <2>1. k - 1 \in 1..Len(t) /\ (k - 1) + 1 = k
    BY <1>1
  <2> QED BY <1>1, <2>1
<1>4. Head(q) \in Writes(q) /\ Writes(t) \subseteq Writes(q)
  BY <1>1, <1>2 DEF Writes
<1>5. Writes(q) \subseteq {Head(q)} \cup Writes(t)
  BY <1>1, <1>3 DEF Writes
<1> QED BY <1>4, <1>5 DEF t

\* saveRun writes the run, unless it is aborted under another verdict.
LEMMA SavedHolds ==
  \A r : /\ Writes(Saved(r)) \subseteq {SaveEntry(r)}
         /\ ~r.aborted => Saved(r) = <<SaveEntry(r)>> /\ Writes(Saved(r)) = {SaveEntry(r)}
BY FewWrites DEF Saved

\* updateStep writes the status, then the run.
LEMMA StatusHolds ==
  ASSUME NEW r \in SoundRun, NEW s \in Steps, NEW st \in StepStatus
  PROVE  LET w == StatusWrites(r, s, st)
             e == StatusEvent(s, st)
             q == WithStatus(r, s, st)
         IN  /\ w # <<>> /\ Head(w) = e
             /\ {e} \subseteq Writes(w) /\ Writes(w) \subseteq {e, SaveEntry(q)}
             /\ ~r.aborted => Writes(w) = {e, SaveEntry(q)}
<1> DEFINE w == StatusWrites(r, s, st)
           e == StatusEvent(s, st)
           q == WithStatus(r, s, st)
           one == <<e>>
<1>1. one \in Seq(SoundWrite) /\ Saved(q) \in Seq(SoundWrite)
  BY StatusWrite, SoundStatus, SavedWrites DEF SoundWrite
<1>2. w = one \o Saved(q)
  BY DEF StatusWrites
<1>3. q.aborted = r.aborted
  BY DEF WithStatus, SoundRun, Run
<1>4. Writes(one) = {e} /\ Len(one) = 1 /\ one[1] = e
  BY FewWrites
<1> HIDE DEF e, q, w, one
<1>5. Writes(w) = {e} \cup Writes(Saved(q))
  BY <1>1, <1>2, <1>4, ConcatWrites
<1>6. w # <<>> /\ Head(w) = e
  <2>0. /\ w \in Seq(SoundWrite) /\ Len(w) = Len(one) + Len(Saved(q))
        /\ \A i \in 1..Len(one) : w[i] = one[i]
    BY <1>1, <1>2, ConcatProperties
  <2>1. Len(Saved(q)) \in Nat
    BY <1>1, LenProperties
  <2>2. Len(w) # 0 /\ w[1] = e
    BY <1>4, <2>0, <2>1
  <2> QED BY <2>0, <2>2, HeadTailProperties, EmptySeq
<1>7. /\ Writes(Saved(q)) \subseteq {SaveEntry(q)}
      /\ ~r.aborted => Writes(Saved(q)) = {SaveEntry(q)}
  BY <1>3, SavedHolds
<1> QED BY <1>5, <1>6, <1>7 DEF w, e, q

----------------------------------------------------------------------------
(* What completed stays completed.                                         *)

Work  == {"started", "opened", "spawned", "settled"}
Begun == {"running", "failed", "aborted", "skipped"}

\* rerunOnResume takes a step again on purpose, in a process that resumes.
Protected(s) == ~(inv.resuming /\ s \in RerunOnResume)

Same(x, y) == x.status = y.status /\ x.replay = y.replay

\* A snapshot to be written says of every step what memory says, but for one
\* that gives a quota back before its pass fails.
Echoes(r) ==
  \A s \in Steps : \/ Same(r.step[s], run.step[s])
                   \/ /\ stage[s] = "ended"
                      /\ r.step[s].status \in Begun /\ run.step[s].status \in Begun
Truthful(e) ==
  /\ e.kind = "save" => Echoes(e.run)
  /\ e.kind = "status" => e.status = run.step[e.step].status
WritesTruthful == pc # "off" => \A e \in Writes(outbox) : Truthful(e)

\* A pass under way is one the snapshot knows of, or is about to.
UnderWay ==
  \A s \in Steps : stage[s] \in Work =>
    /\ run.step[s].status \in {"running", "aborted"}
    /\ ~run.aborted => /\ run.step[s].status = "running"
                       /\ snap.step[s].status = "running" \/ Saves(outbox) # {}

\* An admitted step was not done, and the loop is past it.
Waits(s) == (pc \in {"booted", "admit"} /\ s \in admitted) \/ stage[s] = "admitted"
AdmittedOwed ==
  \A s \in Steps : Waits(s) =>
    s < cursor /\ (Protected(s) => run.step[s].status # "done")

\* The completion of s is in the snapshot, or in the journal over a snapshot
\* that still calls it running.
Held(s) == \/ snap.step[s].status = "done"
           \/ snap.step[s].status = "running" /\ jStatus[s] = "done"

\* A replay of s the operator asked for, and the disk does not know of yet.
Requeued(s) ==
  /\ pc = "booted" /\ Saves(outbox) # {} /\ Tidings(outbox) = {}
  /\ \A e \in Saves(outbox) : e.run.step[s].status = "pending" /\ e.run.step[s].replay

FinishedHeld ==
  /\ pc # "off" => \A s \in finished : Protected(s) =>
                     Held(s) /\ (run.step[s].status = "done" \/ Requeued(s))
  /\ pc = "off" => \A s \in finished \ RerunOnResume : Held(s)

\* A pass that ends well completes over a snapshot that calls it running.
Completing ==
  \A s \in Steps : stage[s] = "ended" /\ StatusEvent(s, "done") \in Writes(outbox)
                     => snap.step[s].status \in {"running", "done"}

NothingYet == snap = NoRun => finished = {} /\ \A s \in Steps : jStatus[s] = "none"

\* The event of a pass that is over, next to a step that goes on since.
Stale(x, ev) ==
  ev = "done" /\ x.status \in {"pending", "running"} /\ ~(x.replay /\ x.status = "pending")

Unfinished == Steps \ (finished \cup NonBlocking)
FirstTells(s) == outbox # <<>> /\ Head(outbox).kind = "status" /\ Head(outbox).step = s

DoneFinished == snap # NoRun => \A s \in Steps : snap.step[s].status = "done" => s \in finished
SnapFresh == snap # NoRun => \A s \in Unfinished : ~Stale(snap.step[s], jStatus[s])
RunFresh ==
  pc # "off" => \A s \in Unfinished :
    \/ FirstTells(s)
    \/ /\ ~Stale(run.step[s], jStatus[s])
       /\ \A e \in Saves(outbox) : ~Stale(e.run.step[s], jStatus[s])
DoneAnnounced ==
  pc # "off" => \A s \in Unfinished : run.step[s].status = "done" =>
    stage[s] = "ended" /\ outbox # <<>> /\ Head(outbox) = StatusEvent(s, "done")
JournalFresh == lost = 0 => SnapFresh /\ RunFresh /\ DoneAnnounced

SettledInv ==
  /\ WritesTruthful /\ UnderWay /\ AdmittedOwed /\ FinishedHeld /\ Completing
  /\ NothingYet /\ DoneFinished /\ JournalFresh

----------------------------------------------------------------------------
(* The steps of a live process.                                            *)

\* A step whose status a process changes was not done; that it goes on is the
\* first thing the process writes, and so is the end of its pass.
Turned(t) ==
  /\ Protected(t) => run.step[t].status # "done"
  /\ run'.step[t].status \in {"pending", "running"} => FirstTells(t)'
  /\ run'.step[t].status = "done" =>
       /\ ~Waits(t)'
       /\ \/ t \in NonBlocking \/ run.step[t].status = "done"
          \/ stage'[t] = "ended" /\ outbox' # <<>> /\ Head(outbox') = StatusEvent(t, "done")
  /\ stage'[t] \in Work =>
       \/ run'.step[t].status = "aborted" /\ run'.aborted
       \/ run'.step[t].status = "running" /\ (run'.aborted \/ Saves(outbox') # {})

Reported(e) ==
  /\ e.kind = "save" =>
       \A t \in Steps :
         \/ Same(e.run.step[t], run'.step[t])
         \/ /\ stage'[t] = "ended" /\ Same(e.run.step[t], run.step[t])
            /\ run.step[t].status \in Begun /\ run'.step[t].status \in Begun
  /\ e.kind = "status" =>
       /\ e.status = run'.step[e.step].status
       /\ e.status = "done" /\ stage'[e.step] = "ended" => snap.step[e.step].status = "running"

\* A step of a process, which changes the status of the steps of U only.
Turn(U) ==
  /\ pc # "off" /\ pc' # "off" /\ outbox = <<>> /\ outbox' \in Seq(SoundWrite)
  /\ UNCHANGED <<inv, snap, jStatus, lost, finished>>
  /\ run.aborted => run'.aborted
  /\ \A t \in Steps \ U : Same(run'.step[t], run.step[t]) /\ (stage'[t] \in Work => stage[t] \in Work)
  /\ \A t \in U : Turned(t)
  /\ \A t \in Steps : Waits(t)' => \/ Waits(t) /\ cursor' >= cursor
                                   \/ t < cursor' /\ (Protected(t) => run.step[t].status # "done")
  /\ \A e \in Writes(outbox') : Reported(e)

\* Such a step keeps the invariant.
LEMMA TurnSettled ==
  ASSUME TypeInv, TypeInv', EmptyInv, SettledInv, NEW U \in SUBSET Steps, Turn(U)
  PROVE  SettledInv'
<1> USE DEF SettledInv
<1>0. /\ pc # "off" /\ pc' # "off" /\ Writes(outbox) = {} /\ Saves(outbox) = {}
      /\ UNCHANGED <<inv, snap, jStatus, lost, finished>>
      /\ \A t \in Steps : ~Requeued(t) /\ ~FirstTells(t) /\ (Protected(t) <=> Protected(t)')
  BY FewWrites DEF Turn, Saves, Requeued, FirstTells, Protected
<1>1. WritesTruthful'
  <2> SUFFICES ASSUME NEW e \in Writes(outbox') PROVE Truthful(e)'
    BY DEF WritesTruthful
  <2>1. Reported(e)
    BY DEF Turn
  <2> QED BY <2>1 DEF Truthful, Reported, Echoes, Same
<1>2. UnderWay'
  <2> SUFFICES ASSUME NEW s \in Steps, stage'[s] \in Work
               PROVE  /\ run'.step[s].status \in {"running", "aborted"}
                      /\ ~run'.aborted => /\ run'.step[s].status = "running"
                                          /\ \/ snap'.step[s].status = "running"
                                             \/ Saves(outbox') # {}
    BY DEF UnderWay
  <2>1. CASE s \in U
    BY <2>1 DEF Turn, Turned
  <2>2. CASE s \notin U
    <3>1. stage[s] \in Work /\ run'.step[s].status = run.step[s].status
          /\ (run.aborted => run'.aborted)
      BY <2>2 DEF Turn, Same
    <3> QED BY <1>0, <3>1 DEF UnderWay
  <2> QED BY <2>1, <2>2
<1>3. AdmittedOwed'
  <2> SUFFICES ASSUME NEW s \in Steps, Waits(s)'
               PROVE  s < cursor' /\ (Protected(s)' => run'.step[s].status # "done")
    BY DEF AdmittedOwed
  <2>1. s < cursor' /\ (Protected(s) => run.step[s].status # "done")
    <3>1. CASE Waits(s) /\ cursor' >= cursor
      <4>1. s < cursor /\ (Protected(s) => run.step[s].status # "done")
        BY <3>1 DEF AdmittedOwed
      <4>2. s \in Nat /\ cursor \in Nat /\ cursor' \in Nat
        BY DEF Steps, TypeInv, ControlTyped
      <4> QED BY <3>1, <4>1, <4>2
    <3>2. CASE ~(Waits(s) /\ cursor' >= cursor)
      BY <3>2 DEF Turn
    <3> QED BY <3>1, <3>2
  <2>2. CASE s \in U
    BY <1>0, <2>1, <2>2 DEF Turn, Turned
  <2>3. CASE s \notin U
    BY <1>0, <2>1, <2>3 DEF Turn, Same
  <2> QED BY <2>2, <2>3
<1>4. FinishedHeld'
  <2> SUFFICES ASSUME NEW s \in finished, Protected(s)
               PROVE  Held(s)' /\ run'.step[s].status = "done"
    BY <1>0 DEF FinishedHeld, TypeInv, DiskTyped
  <2>0. s \in Steps
    BY DEF TypeInv, DiskTyped
  <2>1. Held(s) /\ run.step[s].status = "done"
    BY <1>0, <2>0 DEF FinishedHeld
  <2>2. s \notin U
    BY <2>1 DEF Turn, Turned
  <2> QED BY <1>0, <2>0, <2>1, <2>2 DEF Turn, Same, Held
<1>5. Completing'
  <2> SUFFICES ASSUME NEW s \in Steps, stage'[s] = "ended",
                      StatusEvent(s, "done") \in Writes(outbox')
               PROVE  snap'.step[s].status \in {"running", "done"}
    BY DEF Completing
  <2>1. Reported(StatusEvent(s, "done"))
    BY DEF Turn
  <2> QED BY <1>0, <2>1 DEF Reported, StatusEvent
<1>6. NothingYet' /\ DoneFinished'
  BY <1>0 DEF NothingYet, DoneFinished
<1>7. JournalFresh'
  <2> SUFFICES ASSUME lost = 0 PROVE SnapFresh' /\ RunFresh' /\ DoneAnnounced'
    BY <1>0 DEF JournalFresh
  <2>1. SnapFresh'
    BY <1>0 DEF JournalFresh, SnapFresh, Unfinished
  <2>2. \A s \in Unfinished : ~Stale(run.step[s], jStatus[s]) /\ run.step[s].status # "done"
    <3> TAKE s \in Unfinished
    <3>1. s \in Steps
      BY DEF Unfinished
    <3> QED BY <1>0, <3>1 DEF JournalFresh, RunFresh, DoneAnnounced, Turn
  <2>3. RunFresh'
    <3> SUFFICES ASSUME NEW s \in Unfinished, ~FirstTells(s)'
                 PROVE  /\ ~Stale(run'.step[s], jStatus[s])
                        /\ \A e \in Saves(outbox') : ~Stale(e.run.step[s], jStatus[s])
      BY <1>0 DEF RunFresh, Unfinished
    <3>0. s \in Steps
      BY DEF Unfinished
    <3>1. ~Stale(run'.step[s], jStatus[s])
      BY <2>2, <3>0 DEF Turn, Turned, Same, Stale
    <3>2. ASSUME NEW e \in Saves(outbox') PROVE ~Stale(e.run.step[s], jStatus[s])
      <4>1. Reported(e) /\ e.kind = "save"
        BY DEF Turn, Saves
      <4>2. Same(e.run.step[s], run'.step[s]) \/ Same(e.run.step[s], run.step[s])
        BY <3>0, <4>1 DEF Reported
      <4> QED BY <2>2, <3>1, <4>2 DEF Same, Stale
    <3> QED BY <3>1, <3>2
  <2>4. DoneAnnounced'
    <3> SUFFICES ASSUME NEW s \in Unfinished, run'.step[s].status = "done"
                 PROVE  stage'[s] = "ended" /\ outbox' # <<>> /\ Head(outbox') = StatusEvent(s, "done")
      BY <1>0 DEF DoneAnnounced, Unfinished
    <3>1. s \in Steps /\ s \notin NonBlocking /\ run.step[s].status # "done"
      BY <2>2 DEF Unfinished
    <3>2. s \in U
      BY <3>1 DEF Turn, Same
    <3> QED BY <3>1, <3>2 DEF Turn, Turned
  <2> QED BY <2>1, <2>3, <2>4
<1> QED BY <1>1, <1>2, <1>3, <1>4, <1>5, <1>6, <1>7

----------------------------------------------------------------------------
(* The disk.                                                               *)

\* What the first write of the outbox is, and what reaching the disk does.
LEMMA FlushFacts ==
  ASSUME TypeInv, EmptyInv, Flush
  PROVE  LET e == Head(outbox) IN
         /\ outbox # <<>> /\ pc # "off" /\ UNCHANGED memory /\ UNCHANGED lost
         /\ Writes(outbox) = {e} \cup Writes(outbox')
         /\ e.kind = "status" => e.step \in Steps /\ e = StatusEvent(e.step, e.status)
         /\ snap' = IF e.kind = "save" THEN e.run ELSE snap
         /\ snap' # NoRun
         /\ \A s \in Steps : jStatus'[s] = IF e.kind = "status" /\ e.step = s
                                           THEN e.status ELSE jStatus[s]
         /\ finished' = (finished \ Requeues(e)) \cup Completes(e)
<1> DEFINE e == Head(outbox)
<1>1. /\ outbox # <<>> /\ pc # "off" /\ outbox' = Tail(outbox) /\ e \in SoundWrite
      /\ outbox \in Seq(SoundWrite) /\ UNCHANGED memory /\ UNCHANGED lost
      /\ snap' = IF e.kind = "save" THEN e.run ELSE snap
  BY WriteFacts
<1>2. /\ jStatus' = IF e.kind = "status" THEN [jStatus EXCEPT ![e.step] = e.status] ELSE jStatus
      /\ finished' = (finished \ Requeues(e)) \cup Completes(e)
  BY DEF Flush
<1> HIDE DEF e
<1>3. Writes(outbox) = {e} \cup Writes(outbox')
  BY <1>1, TailWrites DEF e
<1>4. e.kind = "status" => e.step \in Steps /\ e = StatusEvent(e.step, e.status)
  BY <1>1 DEF SoundWrite, WriteOf, StatusEvent
<1>5. \A s \in Steps : jStatus'[s] = IF e.kind = "status" /\ e.step = s
                                     THEN e.status ELSE jStatus[s]
  BY <1>2, <1>4 DEF TypeInv, DiskTyped
<1>6. snap' # NoRun
  <2>1. e.kind = "save" => e.run # NoRun
    BY <1>1, SoundIsRun DEF SoundWrite, WriteOf
  <2>2. snap = NoRun => e.kind = "save"
    BY <1>1 DEF EmptyInv, Newborn, SaveEntry, e
  <2> QED BY <1>1, <2>1, <2>2
<1> QED BY <1>1, <1>2, <1>3, <1>4, <1>5, <1>6 DEF e

\* A write that reaches the disk keeps what completed.
LEMMA FlushHeld ==
  ASSUME TypeInv, EmptyInv, SettledInv, Flush
  PROVE  FinishedHeld'
<1> USE DEF SettledInv
<1> DEFINE e == Head(outbox)
<1>1. /\ pc # "off" /\ UNCHANGED <<pc, run, stage, inv>>
      /\ Writes(outbox) = {e} \cup Writes(outbox')
      /\ e.kind = "status" => e.step \in Steps /\ e = StatusEvent(e.step, e.status)
      /\ snap' = IF e.kind = "save" THEN e.run ELSE snap
      /\ \A s \in Steps : jStatus'[s] = IF e.kind = "status" /\ e.step = s
                                           THEN e.status ELSE jStatus[s]
      /\ finished' = (finished \ Requeues(e)) \cup Completes(e)
  BY FlushFacts DEF memory
<1> HIDE DEF e
<1>2. Truthful(e) /\ e \in Writes(outbox) /\ \A s : Protected(s)' <=> Protected(s)
  BY <1>1 DEF WritesTruthful, Protected
<1> SUFFICES ASSUME NEW s \in finished', Protected(s)
             PROVE  Held(s)' /\ (run.step[s].status = "done" \/ Requeued(s)')
  BY <1>1, <1>2 DEF FinishedHeld
<1>3. s \in Steps /\ (s \in finished => Held(s) /\ (run.step[s].status = "done" \/ Requeued(s)))
  BY <1>1 DEF FinishedHeld, TypeInv, DiskTyped, Requeues, Completes
<1>4. CASE e.kind = "save"
  <2>1. e.run.step[s].status = "done" <=> run.step[s].status = "done"
    BY <1>2, <1>3, <1>4 DEF Truthful, Echoes, Same, Begun
  <2>2. e.run.step[s].status = "done"
    <3>1. CASE s \in Completes(e)
      BY <1>4, <3>1 DEF Completes
    <3>2. CASE s \in finished \ Requeues(e)
      <4>1. Requeued(s) => s \in Requeues(e)
        BY <1>2, <1>3, <1>4 DEF Requeued, Requeues, Saves
      <4> QED BY <1>3, <2>1, <3>2, <4>1
    <3> QED BY <1>1, <3>1, <3>2
  <2> QED BY <1>1, <1>4, <2>1, <2>2 DEF Held
<1>5. CASE e.kind = "status"
  <2>0. e.status = run.step[e.step].status /\ Requeues(e) = {} /\ snap' = snap
    BY <1>1, <1>2, <1>5 DEF Truthful, Requeues
  <2>1. CASE s \in Completes(e)
    <3>1. e.step = s /\ e.status = "done" /\ stage[s] = "ended"
      BY <1>5, <2>1 DEF Completes
    <3>2. snap.step[s].status \in {"running", "done"}
      BY <1>1, <1>2, <1>3, <1>5, <3>1 DEF Completing
    <3> QED BY <1>1, <1>3, <1>5, <2>0, <3>1, <3>2 DEF Held
  <2>2. CASE s \in finished
    <3>1. ~Requeued(s)
      BY <1>2, <1>5 DEF Requeued, Tidings
    <3>2. run.step[s].status = "done" /\ Held(s)
      BY <1>3, <2>2, <3>1
    <3>3. jStatus'[s] = "done" \/ jStatus'[s] = jStatus[s]
      BY <1>1, <1>3, <2>0, <3>2
    <3> QED BY <2>0, <3>2, <3>3 DEF Held
  <2> QED BY <1>1, <2>1, <2>2
<1>6. CASE e.kind \notin {"save", "status"}
  <2>1. /\ s \in finished /\ snap' = snap /\ jStatus'[s] = jStatus[s]
    BY <1>1, <1>3, <1>6 DEF Completes, Requeues
  <2>2. Saves(outbox') = Saves(outbox) /\ Tidings(outbox') = Tidings(outbox)
    BY <1>1, <1>6 DEF Saves, Tidings
  <2>3. Requeued(s) => Requeued(s)'
    BY <1>1, <2>2 DEF Requeued
  <2> QED BY <1>3, <2>1, <2>3 DEF Held
<1> QED BY <1>4, <1>5, <1>6

\* It leaves no completion without its event.
LEMMA FlushFresh ==
  ASSUME TypeInv, EmptyInv, SettledInv, Flush, lost = 0
  PROVE  SnapFresh' /\ RunFresh' /\ DoneAnnounced'
<1> USE DEF SettledInv
<1> DEFINE e == Head(outbox)
<1>1. /\ pc # "off" /\ UNCHANGED <<pc, run, stage, inv>> /\ outbox # <<>>
      /\ Writes(outbox) = {e} \cup Writes(outbox')
      /\ e.kind = "status" => e.step \in Steps /\ e = StatusEvent(e.step, e.status)
      /\ snap' = IF e.kind = "save" THEN e.run ELSE snap
      /\ \A s \in Steps : jStatus'[s] = IF e.kind = "status" /\ e.step = s
                                           THEN e.status ELSE jStatus[s]
      /\ finished' = (finished \ Requeues(e)) \cup Completes(e)
      /\ SnapFresh /\ RunFresh /\ DoneAnnounced
  BY FlushFacts DEF memory, JournalFresh
<1>2. snap = NoRun => e.kind = "save"
  BY FlushFacts
<1>d. \A s \in Steps : FirstTells(s) => e.kind = "status" /\ e.step = s
  BY DEF FirstTells
<1>e. DoneAnnounced => \A s \in Unfinished :
        run.step[s].status = "done" => stage[s] = "ended" /\ e = StatusEvent(s, "done")
  BY <1>1 DEF DoneAnnounced
<1> HIDE DEF e
<1>3. Truthful(e) /\ e \in Writes(outbox)
  BY <1>1 DEF WritesTruthful
<1>4. ASSUME NEW s \in Unfinished'
      PROVE  /\ s \in Steps
             /\ snap' # NoRun => ~Stale(snap'.step[s], jStatus'[s])
             /\ ~Stale(run.step[s], jStatus'[s])
             /\ \A f \in Saves(outbox') : ~Stale(f.run.step[s], jStatus'[s])
             /\ run.step[s].status # "done"
  <2>0. s \in Steps /\ s \notin finished' /\ s \notin NonBlocking
    BY <1>4 DEF Unfinished
  <2>1. CASE s \in finished
    <3>1. s \in Requeues(e)
      BY <1>1, <2>0, <2>1
    <3>2. e.kind = "save" /\ e.run.step[s].replay /\ e.run.step[s].status = "pending"
      BY <3>1 DEF Requeues
    <3>3. run.step[s].replay /\ run.step[s].status = "pending"
      BY <1>3, <2>0, <3>2 DEF Truthful, Echoes, Same, Begun
    <3>4. \A f \in Saves(outbox') : f.run.step[s].replay /\ f.run.step[s].status = "pending"
      <4> TAKE f \in Saves(outbox')
      <4>1. Echoes(f.run)
        BY <1>1 DEF WritesTruthful, Truthful, Saves
      <4> QED BY <2>0, <3>3, <4>1 DEF Echoes, Same, Begun
    <3> QED BY <1>1, <2>0, <3>2, <3>3, <3>4 DEF Stale
  <2>2. CASE s \notin finished
    <3>0. s \in Unfinished
      BY <2>0, <2>2 DEF Unfinished
    <3>1. run.step[s].status # "done"
      <4> SUFFICES ASSUME run.step[s].status = "done" PROVE FALSE
        OBVIOUS
      <4>1. stage[s] = "ended" /\ e = StatusEvent(s, "done")
        BY <1>1, <1>e, <3>0
      <4>2. s \in Completes(e)
        BY <4>1 DEF Completes, StatusEvent
      <4> QED BY <1>1, <2>0, <4>2
    <3>2. CASE e.kind = "status" /\ e.step = s
      <4>1. jStatus'[s] # "done"
        BY <1>1, <1>3, <2>0, <3>1, <3>2 DEF Truthful
      <4> QED BY <2>0, <3>1, <4>1 DEF Stale
    <3>3. CASE ~(e.kind = "status" /\ e.step = s)
      <4>1. /\ jStatus'[s] = jStatus[s] /\ ~Stale(run.step[s], jStatus[s])
            /\ \A f \in Saves(outbox) : ~Stale(f.run.step[s], jStatus[s])
        BY <1>1, <1>d, <2>0, <3>0, <3>3 DEF RunFresh
      <4>2. Saves(outbox') \subseteq Saves(outbox) /\ (e.kind = "save" => e \in Saves(outbox))
        BY <1>1, <1>3 DEF Saves
      <4>3. ~Stale(snap'.step[s], jStatus'[s])
        <5>1. CASE e.kind = "save"
          BY <1>1, <4>1, <4>2, <5>1
        <5>2. CASE e.kind # "save"
          BY <1>1, <1>2, <3>0, <4>1, <5>2 DEF SnapFresh
        <5> QED BY <5>1, <5>2
      <4> QED BY <2>0, <3>1, <4>1, <4>2, <4>3
    <3> QED BY <3>2, <3>3
  <2> QED BY <2>1, <2>2
<1> QED BY <1>1, <1>4 DEF SnapFresh, RunFresh, DoneAnnounced

\* A write that reaches the disk keeps the invariant.
LEMMA FlushSettled ==
  ASSUME TypeInv, EmptyInv, SettledInv, Flush
  PROVE  SettledInv'
<1> USE DEF SettledInv
<1> DEFINE e == Head(outbox)
<1>1. /\ pc # "off" /\ UNCHANGED <<pc, run, stage, inv, cursor, admitted, lost>>
      /\ Writes(outbox) = {e} \cup Writes(outbox')
      /\ snap' = IF e.kind = "save" THEN e.run ELSE snap
      /\ snap' # NoRun
      /\ finished' = (finished \ Requeues(e)) \cup Completes(e)
      /\ snap = NoRun => e.kind = "save"
  BY FlushFacts DEF memory
<1> HIDE DEF e
<1>2. Truthful(e) /\ e \in Writes(outbox)
  BY <1>1 DEF WritesTruthful
<1>3. WritesTruthful'
  BY <1>1 DEF WritesTruthful, Truthful, Echoes
<1>4. UnderWay'
  <2> SUFFICES ASSUME NEW s \in Steps, stage[s] \in Work, ~run.aborted
               PROVE  snap'.step[s].status = "running" \/ Saves(outbox') # {}
    BY <1>1 DEF UnderWay
  <2>0. run.step[s].status = "running" /\ (snap.step[s].status = "running" \/ Saves(outbox) # {})
    BY DEF UnderWay
  <2>1. CASE e.kind = "save"
    BY <1>1, <1>2, <2>0, <2>1 DEF Truthful, Echoes, Same, Work
  <2>2. CASE e.kind # "save"
    <3>1. Saves(outbox') = Saves(outbox)
      BY <1>1, <2>2 DEF Saves
    <3> QED BY <1>1, <2>0, <2>2, <3>1
  <2> QED BY <2>1, <2>2
<1>5. AdmittedOwed'
  BY <1>1 DEF AdmittedOwed, Waits, Protected
<1>6. Completing'
  <2> SUFFICES ASSUME NEW s \in Steps, stage[s] = "ended",
                      StatusEvent(s, "done") \in Writes(outbox)
               PROVE  snap'.step[s].status \in {"running", "done"}
    BY <1>1 DEF Completing
  <2>1. snap.step[s].status \in {"running", "done"} /\ run.step[s].status = "done"
    <3>1. Truthful(StatusEvent(s, "done"))
      BY <1>1 DEF WritesTruthful
    <3> QED BY <3>1 DEF Completing, Truthful, StatusEvent
  <2>2. e.kind = "save" => e.run.step[s].status = "done"
    BY <1>2, <2>1 DEF Truthful, Echoes, Same, Begun
  <2> QED BY <1>1, <2>1, <2>2
<1>7. NothingYet'
  BY <1>1 DEF NothingYet
<1>8. DoneFinished'
  <2> SUFFICES ASSUME NEW s \in Steps, snap'.step[s].status = "done" PROVE s \in finished'
    BY DEF DoneFinished
  <2>1. CASE e.kind = "save"
    BY <1>1, <2>1 DEF Completes
  <2>2. CASE e.kind # "save"
    <3>1. s \in finished /\ Requeues(e) = {}
      BY <1>1, <2>2 DEF DoneFinished, Requeues
    <3> QED BY <1>1, <3>1
  <2> QED BY <2>1, <2>2
<1>9. JournalFresh'
  BY <1>1, FlushFresh DEF JournalFresh
<1> QED BY <1>3, <1>4, <1>5, <1>6, <1>7, <1>8, <1>9, FlushHeld

\* So does an append that fails.
LEMMA LoseSettled ==
  ASSUME TypeInv, EmptyInv, SettledInv, LoseEvent
  PROVE  SettledInv'
<1> USE DEF SettledInv
<1> DEFINE e == Head(outbox)
<1>1. /\ pc # "off" /\ UNCHANGED <<pc, run, stage, inv, cursor, admitted, snap, jStatus, finished>>
      /\ lost' # 0 /\ e.kind # "save" /\ outbox' = Tail(outbox) /\ outbox # <<>>
      /\ outbox \in Seq(SoundWrite)
  <2>1. UNCHANGED <<memory, jStatus, finished>>
    BY DEF LoseEvent, disk
  <2> QED BY <2>1, WriteFacts DEF memory
<1> HIDE DEF e
<1>2. Writes(outbox) = {e} \cup Writes(outbox')
  BY <1>1, TailWrites DEF e
<1>3. Saves(outbox') = Saves(outbox) /\ Tidings(outbox') \subseteq Tidings(outbox)
  BY <1>1, <1>2 DEF Saves, Tidings
<1>4. \A s : Requeued(s) => Requeued(s)'
  BY <1>1, <1>3 DEF Requeued
<1>5. WritesTruthful' /\ UnderWay' /\ AdmittedOwed' /\ Completing'
  BY <1>1, <1>2, <1>3 DEF WritesTruthful, Truthful, Echoes, UnderWay, AdmittedOwed, Waits,
                          Protected, Completing
<1>6. FinishedHeld'
  BY <1>1, <1>4 DEF FinishedHeld, Protected, Held
<1>7. NothingYet' /\ DoneFinished' /\ JournalFresh'
  BY <1>1 DEF NothingYet, DoneFinished, JournalFresh
<1> QED BY <1>5, <1>6, <1>7

----------------------------------------------------------------------------
(* The steps that start and end a process.                                 *)

\* A resume takes the status of a step from snapshot, journal and selection; a
\* run with a step to do is live again.
LEMMA RestoredStatus ==
  ASSUME NEW saved \in SoundRun, NEW statuses \in [Steps -> Statuses], NEW attempts, NEW i
  PROVE  LET r == Restored(saved, statuses, attempts, i) IN
         /\ \A s \in Steps :
              Same(r.step[s], Selected(Reconciled(saved.step[s], statuses[s]), i, s))
         /\ (\E s \in Steps : r.step[s].status = "pending") => r.status = "RUNNING" /\ ~r.aborted
<1> DEFINE r == Restored(saved, statuses, attempts, i)
           y(s) == Reconciled(saved.step[s], statuses[s])
           f(s) == ProjectedSpend(saved.step[s].spend, attempts[s])
           z(s) == Selected(y(s), i, s)
           projected == [s \in Steps |-> [y(s) EXCEPT !.spend = f(s)]]
           selected == [s \in Steps |-> Selected(projected[s], i, s)]
           tookWork == \E s \in Steps : Excludes(i, s) /\ projected[s].status \in OwesWork
           hydrated == [saved EXCEPT !.step = selected]
           terminal == AllSettled(hydrated) /\ ~tookWork /\ ~VerdictOwed(hydrated)
           live == Reopened(hydrated, terminal, i)
           last == [s \in Steps |->
                     IF HasOpen(attempts[s])
                     THEN [live.step[s] EXCEPT !.spend = Merge(@, CrashFigure(s))]
                     ELSE live.step[s]]
<1>1. r = [live EXCEPT !.step = last]
  BY DEF Restored
<1>2. \A s \in Steps : y(s) \in Step /\ z(s) \in Step
  <2> TAKE s \in Steps
  <2>1. saved.step[s] \in Step
    BY DEF SoundRun, Run
  <2>2. y(s) \in Step
    BY <2>1, ReconciledTypes
  <2> QED BY <2>2, SelectedTypes
<1>3. \A s \in Steps : selected[s] = [z(s) EXCEPT !.spend = f(s)]
  <2> TAKE s \in Steps
  <2>1. y(s) \in Step
    BY <1>2
  <2> HIDE DEF y, f
  <2> QED BY <2>1, SelectedSpend
<1>4. hydrated.step = selected
  BY DEF SoundRun, Run
<1> HIDE DEF y, f, z, projected, terminal
<1>5. /\ live.step = selected
      /\ r.step = last /\ r.status = live.status /\ r.aborted = live.aborted
      /\ ~terminal => live.status = "RUNNING" /\ ~live.aborted
  BY <1>1 DEF Reopened, SoundRun, Run
<1>6. \A s \in Steps : Same(last[s], z(s))
  <2> TAKE s \in Steps
  <2> HIDE DEF selected, live
  <2>1. z(s) \in Step /\ live.step[s] = [z(s) EXCEPT !.spend = f(s)]
    BY <1>2, <1>3, <1>5
  <2> QED BY <2>1 DEF Step, Same
<1>7. ASSUME NEW s \in Steps, last[s].status = "pending" PROVE ~terminal
  <2>1. selected[s].status = z(s).status
    BY <1>2, <1>3 DEF Step
  <2>2. hydrated.step[s].status = "pending"
    BY <1>4, <1>6, <1>7, <2>1 DEF Same
  <2> HIDE DEF hydrated
  <2> QED BY <2>2 DEF terminal, AllSettled, Settled
<1> HIDE DEF last, live, r, selected, hydrated
<1> QED BY <1>5, <1>6, <1>7 DEF r, z, y

\* What that makes of a step, against the event of its last pass.
LEMMA ReconciledStatus ==
  ASSUME NEW x \in Step, NEW ev \in Statuses, NEW i, NEW s
  PROVE  LET y == Selected(Reconciled(x, ev), i, s) IN
         /\ ~Stale(y, ev)
         /\ y.status = "done" => x.status = "done" \/ Stale(x, ev)
         /\ x.status = "done" \/ (x.status = "running" /\ ev = "done")
              => y.status = "done" \/ (Replays(i, s) /\ y.status = "pending" /\ y.replay)
<1> DEFINE z == Reconciled(x, ev)
           y == Selected(z, i, s)
<1>1. /\ z \in Step /\ ~Stale(z, ev)
      /\ z.status = "done" => x.status = "done" \/ Stale(x, ev)
      /\ x.status = "done" \/ (x.status = "running" /\ ev = "done") => z.status = "done"
  <2>1. z \in Step
    BY ReconciledTypes
  <2>2. CASE z = x
    BY <2>2, <2>1 DEF Reconciled, Stale
  <2>3. CASE z # x
    <3>1. /\ ~(x.replay /\ x.status = "pending") /\ x.status \in {"pending", "running"}
          /\ z.status = ev /\ ev \in {"done", "failed", "skipped", "aborted"}
      BY <2>3 DEF Reconciled, Step
    <3> QED BY <2>1, <3>1 DEF Stale
  <2> QED BY <2>2, <2>3
<1> HIDE DEF z
<1>2. \/ y = z /\ ~Replays(i, s)
      \/ Replays(i, s) /\ y.status = "pending" /\ y.replay
      \/ y.status = "skipped" /\ z.status \in OwesWork
  BY <1>1 DEF Selected, Step
<1>3. z.status \in OwesWork => z.status # "done"
  BY DEF OwesWork, Settled
<1> HIDE DEF y
<1> QED BY <1>1, <1>2, <1>3 DEF Stale, y, z

\* A resume writes closures and the run; it does write a live run.
LEMMA RestoreHolds ==
  ASSUME NEW saved, NEW attempts \in [Steps -> [Nums -> Attempt]], NEW r \in SoundRun, NEW i
  PROVE  LET q == RestoreWrites(saved, attempts, r, i) IN
         /\ \A e \in Writes(q) : e.kind = "finish" \/ e = SaveEntry(r)
         /\ r.status = "RUNNING" /\ ~r.aborted => SaveEntry(r) \in Writes(q)
<1> DEFINE crashed == {s \in Steps : HasOpen(attempts[s])}
           c == Cardinality(crashed)
           order == Ascending(crashed)
           open(s) == CHOOSE n \in Nums : attempts[s][n].status = "running"
           finish(s) == FinishEvent(s, open(s), Crashed(s))
           closes == [k \in 1..c |-> finish(order[k])]
           changed == crashed # {} \/ (i.unmetered /\ ~saved.unmetered)
           saves == IF r.status = "RUNNING" \/ changed THEN Saved(r) ELSE <<>>
           Told == {e \in SoundWrite : e.kind = "finish"}
           W == Told \cup {SaveEntry(r)}
<1>1. \A s \in crashed : finish(s) \in Told
  <2> TAKE s \in crashed
  <2>1. open(s) \in Nums
    BY DEF HasOpen
  <2> HIDE DEF open
  <2>2. finish(s) \in SoundWrite
    BY <2>1, AttemptTypes, FinishWrite DEF SoundWrite
  <2> QED BY <2>2 DEF FinishEvent
<1>2. c \in Nat /\ \A k \in 1..c : order[k] \in crashed
  BY AscendingTyped
<1>3. RestoreWrites(saved, attempts, r, i) = closes \o saves
  BY DEF RestoreWrites
<1> HIDE DEF crashed, c, order, finish, Told
<1>4. closes \in Seq(W)
  BY <1>1, <1>2
<1>5. saves \in Seq(W)
  <2>1. SaveEntry(r) \in W
    OBVIOUS
  <2> HIDE DEF W
  <2>2. <<>> \in Seq(W) /\ <<SaveEntry(r)>> \in Seq(W)
    BY <2>1, EmptySeq
  <2>3. Saved(r) \in Seq(W)
    BY <2>2 DEF Saved
  <2> QED BY <2>2, <2>3
<1>6. r.status = "RUNNING" /\ ~r.aborted => Writes(saves) = {SaveEntry(r)}
  BY SavedHolds
<1> HIDE DEF closes, saves, W
<1>7. /\ Writes(closes \o saves) = Writes(closes) \cup Writes(saves)
      /\ closes \o saves \in Seq(W)
  BY <1>4, <1>5, ConcatWrites
<1>8. Writes(closes \o saves) \subseteq W
  BY <1>7, ConcatWrites
<1> QED BY <1>3, <1>6, <1>7, <1>8 DEF W, Told

\* Before any process the invariant holds.
LEMMA InitSettled == Init => SettledInv
<1> SUFFICES ASSUME Init PROVE SettledInv
  OBVIOUS
<1>1. /\ pc = "off" /\ outbox = <<>> /\ admitted = {} /\ snap = NoRun /\ finished = {}
      /\ \A s \in Steps : stage[s] = "idle" /\ jStatus[s] = "none"
  BY DEF Init, Idle
<1>2. WritesTruthful /\ UnderWay /\ AdmittedOwed /\ FinishedHeld /\ Completing
  BY <1>1 DEF WritesTruthful, UnderWay, Work, AdmittedOwed, Waits, FinishedHeld, Completing
<1>3. NothingYet /\ DoneFinished /\ JournalFresh
  BY <1>1 DEF NothingYet, DoneFinished, JournalFresh, SnapFresh, RunFresh, DoneAnnounced
<1> QED BY <1>2, <1>3 DEF SettledInv

\* What a process that opens the run keeps, given the run it starts from.
LEMMA OpeningSettled ==
  ASSUME SettledInv, pc' = "booted", \A s \in Steps : stage'[s] = "idle", admitted' = {},
         UNCHANGED <<snap, jStatus, lost, finished>>,
         \A e \in Writes(outbox') : e.kind = "finish" \/ e = SaveEntry(run'),
         FinishedHeld',
         lost = 0 => \A s \in Unfinished : /\ ~Stale(run'.step[s], jStatus[s])
                                           /\ run'.step[s].status # "done"
  PROVE  SettledInv'
<1> USE DEF SettledInv
<1>1. WritesTruthful'
  BY DEF WritesTruthful, Truthful, SaveEntry, Echoes, Same
<1>2. UnderWay' /\ AdmittedOwed' /\ Completing'
  BY DEF UnderWay, Work, AdmittedOwed, Waits, Completing
<1>3. NothingYet' /\ DoneFinished'
  BY DEF NothingYet, DoneFinished
<1>4. JournalFresh'
  <2> SUFFICES ASSUME lost = 0 PROVE SnapFresh' /\ RunFresh' /\ DoneAnnounced'
    BY DEF JournalFresh
  <2>1. SnapFresh'
    BY DEF JournalFresh, SnapFresh, Unfinished
  <2>2. \A e \in Saves(outbox') : e.run = run'
    BY DEF Saves, SaveEntry
  <2>3. RunFresh' /\ DoneAnnounced'
    BY <2>2 DEF RunFresh, DoneAnnounced, Unfinished
  <2> QED BY <2>1, <2>3
<1> QED BY <1>1, <1>2, <1>3, <1>4

\* Creating a run keeps the invariant: nothing is finished.
LEMMA CreateSettled ==
  ASSUME TypeInv, EmptyInv, SettledInv, NEW i \in Invocations, Create(i)
  PROVE  SettledInv'
<1>1. /\ pc = "off" /\ pc' = "booted" /\ snap = NoRun
      /\ UNCHANGED <<stage, admitted, snap, jStatus, lost, finished>>
      /\ outbox' = Saved(run') /\ run'.aborted = FALSE
      /\ \A s \in Steps : run'.step[s].status \in {"skipped", "pending"}
  BY DEF Create, disk, NewStep
<1>2. admitted = {} /\ \A s \in Steps : stage[s] = "idle"
  BY <1>1 DEF EmptyInv, Blank, TypeInv, PassTyped, Idle
<1>3. Writes(outbox') = {SaveEntry(run')}
  BY <1>1, SavedHolds
<1>4. finished = {} /\ \A s \in Steps : jStatus[s] # "done"
  BY <1>1 DEF SettledInv, NothingYet
<1>5. FinishedHeld'
  BY <1>1, <1>4 DEF FinishedHeld
<1>6. \A s \in Unfinished : ~Stale(run'.step[s], jStatus[s]) /\ run'.step[s].status # "done"
  BY <1>1, <1>4 DEF Unfinished, Stale
<1> QED BY <1>1, <1>2, <1>3, <1>5, <1>6, OpeningSettled

\* Resuming one keeps it: what is held is restored as done, or requeued.
LEMMA ResumeSettled ==
  ASSUME TypeInv, TypeInv', EmptyInv, SettledInv, NEW i \in Invocations, Resume(i)
  PROVE  SettledInv'
<1> DEFINE y(s) == Selected(Reconciled(snap.step[s], jStatus[s]), i, s)
<1>1. /\ pc = "off" /\ pc' = "booted" /\ snap # NoRun
      /\ UNCHANGED <<stage, admitted, snap, jStatus, lost, finished>>
      /\ run' = Restored(snap, jStatus, jAtt, i)
      /\ outbox' = RestoreWrites(snap, jAtt, run', i)
      /\ inv' = [i EXCEPT !.resuming = TRUE]
  BY DEF Resume
<1>2. admitted = {} /\ \A s \in Steps : stage[s] = "idle"
  BY <1>1 DEF EmptyInv, Blank, TypeInv, PassTyped, Idle
<1>3. /\ snap \in SoundRun /\ jStatus \in [Steps -> Statuses] /\ run' \in SoundRun
      /\ jAtt \in [Steps -> [Nums -> Attempt]] /\ finished \subseteq Steps
      /\ \A s \in Steps : snap.step[s] \in Step
  BY <1>1 DEF TypeInv, RunsSound, DiskTyped, AttemptsTyped, SoundRun, Run
<1>4. /\ \A s \in Steps : Same(run'.step[s], y(s))
      /\ (\E s \in Steps : run'.step[s].status = "pending") => run'.status = "RUNNING" /\ ~run'.aborted
  BY <1>1, <1>3, RestoredStatus
<1>5. \A s \in Steps :
         /\ ~Stale(y(s), jStatus[s])
         /\ y(s).status = "done" => snap.step[s].status = "done" \/ Stale(snap.step[s], jStatus[s])
         /\ Held(s) => y(s).status = "done" \/ (y(s).status = "pending" /\ y(s).replay)
  BY <1>3, ReconciledStatus DEF Held
<1> HIDE DEF y
<1>6. /\ \A e \in Writes(outbox') : e.kind = "finish" \/ e = SaveEntry(run')
      /\ run'.status = "RUNNING" /\ ~run'.aborted => SaveEntry(run') \in Writes(outbox')
  BY <1>1, <1>3, RestoreHolds
<1>7. FinishedHeld'
  <2>0. inv'.resuming
    BY <1>1, ConstantsAssumption DEF Invocation
  <2> SUFFICES ASSUME NEW s \in finished, s \notin RerunOnResume
               PROVE  Held(s)' /\ (run'.step[s].status = "done" \/ Requeued(s)')
    BY <1>1, <2>0 DEF FinishedHeld, Protected
  <2>1. s \in Steps /\ Held(s)
    BY <1>1, <1>3 DEF SettledInv, FinishedHeld
  <2>2. Held(s)'
    BY <1>1, <2>1 DEF Held
  <2>3. CASE run'.step[s].status = "done"
    BY <2>2, <2>3
  <2>4. CASE run'.step[s].status # "done"
    <3>1. run'.step[s].status = "pending" /\ run'.step[s].replay
      BY <1>4, <1>5, <2>1, <2>4 DEF Same
    <3>2. SaveEntry(run') \in Writes(outbox')
      BY <1>4, <1>6, <2>1, <3>1
    <3>3. Saves(outbox') = {SaveEntry(run')} /\ Tidings(outbox') = {}
      BY <1>6, <3>2 DEF Saves, Tidings, SaveEntry
    <3> QED BY <1>1, <2>2, <3>1, <3>3 DEF Requeued, SaveEntry
  <2> QED BY <2>3, <2>4
<1>8. lost = 0 => \A s \in Unfinished : /\ ~Stale(run'.step[s], jStatus[s])
                                        /\ run'.step[s].status # "done"
  <2> SUFFICES ASSUME lost = 0, NEW s \in Unfinished
               PROVE  ~Stale(run'.step[s], jStatus[s]) /\ run'.step[s].status # "done"
    OBVIOUS
  <2>1. s \in Steps /\ s \notin finished
    BY DEF Unfinished
  <2>2. ~Stale(snap.step[s], jStatus[s]) /\ snap.step[s].status # "done"
    BY <1>1, <2>1 DEF SettledInv, JournalFresh, SnapFresh, DoneFinished
  <2>3. ~Stale(y(s), jStatus[s]) /\ y(s).status # "done"
    BY <1>5, <2>1, <2>2
  <2> QED BY <1>4, <2>1, <2>3 DEF Same, Stale
<1> QED BY <1>1, <1>2, <1>6, <1>7, <1>8, OpeningSettled

\* The end of a process, natural or not, keeps it.
LEMMA GoneSettled ==
  ASSUME TypeInv, EmptyInv, SettledInv, Exit \/ Crash
  PROVE  SettledInv'
<1> USE DEF SettledInv
<1>1. /\ pc # "off" /\ pc' = "off" /\ stage' = Idle /\ admitted' = {} /\ outbox' = <<>>
      /\ UNCHANGED <<snap, jStatus, lost, finished>>
  BY DEF Exit, Crash, Gone, disk, history
<1>2. \A s \in Steps : stage'[s] = "idle"
  BY <1>1 DEF Idle
<1>3. WritesTruthful' /\ UnderWay' /\ AdmittedOwed' /\ Completing'
  BY <1>1, <1>2 DEF WritesTruthful, UnderWay, Work, AdmittedOwed, Waits, Completing
<1>4. FinishedHeld'
  BY <1>1 DEF FinishedHeld, Protected, Held
<1>5. NothingYet' /\ DoneFinished' /\ JournalFresh'
  BY <1>1 DEF NothingYet, DoneFinished, JournalFresh, SnapFresh, RunFresh, DoneAnnounced, Unfinished
<1> QED BY <1>3, <1>4, <1>5


----------------------------------------------------------------------------
(* What each step of a live process is.                                    *)

DiskStill == UNCHANGED <<inv, snap, jStatus, lost, finished>>
Living    == pc # "off" /\ pc' # "off" /\ outbox = <<>> /\ DiskStill
Calm(t)   == Same(run'.step[t], run.step[t]) /\ (stage'[t] \in Work => stage[t] \in Work)
Onward(t) == Waits(t)' => \/ Waits(t) /\ cursor' >= cursor
                          \/ t < cursor' /\ (Protected(t) => run.step[t].status # "done")

\* A step that changes no status and announces nothing.
LEMMA CalmSettled ==
  ASSUME TypeInv, TypeInv', EmptyInv, SettledInv, Living, run.aborted => run'.aborted,
         \A t \in Steps : Calm(t) /\ Onward(t),
         \A e \in Writes(outbox') : e.kind \in {"start", "finish", "guard"} \/ e = SaveEntry(run')
  PROVE  SettledInv'
<1>1. \A e \in Writes(outbox') : Reported(e)
  BY DEF Reported, SaveEntry, Same
<1>2. Turn({}) /\ {} \in SUBSET Steps
  BY <1>1 DEF Turn, Living, DiskStill, Calm, Onward, TypeInv, WritesSound
<1> QED BY <1>2, TurnSettled

\* A step that changes one.
LEMMA ChangeSettled ==
  ASSUME TypeInv, TypeInv', EmptyInv, SettledInv, NEW s \in Steps, Living,
         run.aborted => run'.aborted, Turned(s),
         \A t \in Steps \ {s} : Calm(t), \A t \in Steps : Onward(t),
         \A e \in Writes(outbox') : Reported(e)
  PROVE  SettledInv'
<1>1. Turn({s}) /\ {s} \in SUBSET Steps
  BY DEF Turn, Living, DiskStill, Calm, Onward, TypeInv, WritesSound
<1> QED BY <1>1, TurnSettled

\* What a status does to a run.
LEMMA StatusEffect ==
  ASSUME NEW r \in SoundRun, NEW s \in Steps, NEW st \in StepStatus
  PROVE  LET q == WithStatus(r, s, st) IN
         /\ q.aborted = r.aborted /\ q.step[s].status = st
         /\ \A t \in Steps \ {s} : q.step[t] = r.step[t]
<1> DEFINE x == [r.step[s] EXCEPT !.status = st,
                                  !.replay = IF st \in Settled THEN FALSE ELSE @]
           q == WithStatus(r, s, st)
<1>1. x.status = st
  BY DEF SoundRun, Run, Step
<1>2. q.aborted = r.aborted /\ q.step = [r.step EXCEPT ![s] = x]
  BY DEF WithStatus, SoundRun, Run, Step
<1>3. r.step \in [Steps -> Step]
  BY DEF SoundRun, Run
<1> HIDE DEF q, x
<1>4. q.step[s] = x /\ \A t \in Steps \ {s} : q.step[t] = r.step[t]
  BY <1>2, <1>3
<1> QED BY <1>1, <1>2, <1>4 DEF q

\* What updateStep does, and writes.
LEMMA UpdateHolds ==
  ASSUME run \in SoundRun, NEW s \in Steps, NEW st \in StepStatus, UpdateStep(s, st),
         st = "done" => stage'[s] # "ended" \/ snap.step[s].status = "running"
  PROVE  /\ run'.aborted = run.aborted /\ run'.step[s].status = st
         /\ \A t \in Steps \ {s} : Same(run'.step[t], run.step[t])
         /\ outbox' # <<>> /\ Head(outbox') = StatusEvent(s, st) /\ FirstTells(s)'
         /\ ~run.aborted => Saves(outbox') # {}
         /\ \A e \in Writes(outbox') : Reported(e)
<1>1. /\ run'.aborted = run.aborted /\ run'.step[s].status = st
      /\ \A t \in Steps \ {s} : Same(run'.step[t], run.step[t])
  BY StatusEffect DEF UpdateStep, Same
<1>2. /\ outbox' # <<>> /\ Head(outbox') = StatusEvent(s, st)
      /\ Writes(outbox') \subseteq {StatusEvent(s, st), SaveEntry(run')}
      /\ ~run.aborted => SaveEntry(run') \in Writes(outbox')
  BY StatusHolds DEF UpdateStep
<1>3. FirstTells(s)'
  BY <1>2 DEF FirstTells, StatusEvent
<1>4. ~run.aborted => Saves(outbox') # {}
  BY <1>2 DEF Saves, SaveEntry
<1>5. Reported(StatusEvent(s, st)) /\ Reported(SaveEntry(run'))
  BY <1>1 DEF Reported, StatusEvent, SaveEntry, Same
<1> QED BY <1>1, <1>2, <1>3, <1>4, <1>5



\* The ledger and the decisions that change no status.
LEMMA DecisionSettled ==
  ASSUME TypeInv, TypeInv', EmptyInv, SettledInv,
         \/ OpenLedger
         \/ \E s \in Steps : \/ PassOver(s) \/ CostStopsAdmission(s) \/ WhenStops(s)
                             \/ NeedsDecision(s) \/ Admit(s)
  PROVE  SettledInv'
<1>0. /\ pc \in {"booted", "admit"} /\ outbox = <<>> /\ stage = Idle /\ stage' = stage
      /\ run \in SoundRun /\ cursor \in Nat /\ cursor + 1 > cursor /\ DiskStill
  <2>1. pc \in {"booted", "admit"} /\ outbox = <<>> /\ stage' = stage /\ DiskStill
    BY DEF OpenLedger, PassOver, CostStopsAdmission, WhenStops, NeedsDecision, Admit, Funded,
           Considers, AdmissionFrame, DiskStill, disk, history
  <2> QED BY <2>1 DEF TypeInv, PassTyped, RunsSound, ControlTyped
<1>1. /\ pc' \in {"admit", "ending"} /\ cursor' >= cursor /\ run'.aborted = run.aborted
      /\ run'.step = run.step /\ outbox' \in {<<>>, Saved(run')}
  <2>1. CASE OpenLedger
    BY <1>0, <2>1 DEF OpenLedger, SoundRun, Run
  <2>2. CASE \E s \in Steps : PassOver(s) \/ CostStopsAdmission(s) \/ Admit(s)
    BY <1>0, <2>2 DEF PassOver, CostStopsAdmission, Admit, Funded, Considers, BreakLoop
  <2>3. CASE \E s \in Steps : WhenStops(s) \/ NeedsDecision(s)
    <3>1. run' = Stopped(run) /\ outbox' = Saved(run') /\ pc' = "ending" /\ cursor' = cursor
      BY <2>3 DEF WhenStops, NeedsDecision, BreakLoop
    <3> QED BY <1>0, <3>1 DEF Stopped, SoundRun, Run
  <2> QED BY <2>1, <2>2, <2>3
<1>2. \A t \in Steps : t \in admitted' \ admitted =>
        t < cursor' /\ (Protected(t) => run.step[t].status # "done")
  <2> TAKE t \in Steps
  <2> HAVE t \in admitted' \ admitted
  <2>1. PICK s \in Steps : Admit(s) /\ t = s
    BY DEF OpenLedger, PassOver, CostStopsAdmission, WhenStops, NeedsDecision, Admit, BreakLoop
  <2> QED BY <1>0, <2>1 DEF Admit, Funded, Considers, Settles, Protected
<1>3. \A t \in Steps : Calm(t) /\ Onward(t)
  BY <1>0, <1>1, <1>2, NothingUnderWay DEF Calm, Same, Onward, Waits, Work, Idle
<1>4. \A e \in Writes(outbox') : e = SaveEntry(run')
  BY <1>1, FewWrites, SavedHolds
<1> QED BY <1>0, <1>1, <1>3, <1>4, CalmSettled DEF Living

\* The decisions that change one.
LEMMA VerdictSettled ==
  ASSUME TypeInv, TypeInv', EmptyInv, SettledInv, NEW s \in Steps,
         WhenSkips(s) \/ AdmissionFails(s) \/ AdmissionAbsorbed(s)
  PROVE  SettledInv'
<1>0. /\ pc = "admit" /\ outbox = <<>> /\ cursor = s /\ stage = Idle /\ stage' = stage
      /\ run \in SoundRun /\ cursor \in Nat /\ cursor + 1 > cursor /\ DiskStill /\ ~Settles(s)
  <2>1. /\ pc = "admit" /\ outbox = <<>> /\ cursor = s /\ stage' = stage /\ DiskStill
        /\ ~Settles(s)
    BY DEF WhenSkips, AdmissionFails, AdmissionAbsorbed, Funded,
           Considers, AdmissionFrame, DiskStill, disk, history
  <2> QED BY <2>1 DEF TypeInv, PassTyped, RunsSound, ControlTyped
<1>1. /\ pc' \in {"admit", "ending"} /\ cursor' >= cursor /\ admitted' \subseteq admitted
  BY <1>0 DEF WhenSkips, AdmissionFails, AdmissionAbsorbed, BreakLoop
<1>2. PICK st \in {"done", "skipped", "failed"} :
        UpdateStep(s, st) /\ (st = "done" => s \in NonBlocking \/ run.step[s].status = "done")
  BY DEF WhenSkips, AdmissionFails, AdmissionAbsorbed
<1>3. st \in StepStatus /\ stage'[s] = "idle"
  BY <1>0, <1>2 DEF StepStatus, Idle
<1>4. /\ run'.aborted = run.aborted /\ run'.step[s].status = st
      /\ \A t \in Steps \ {s} : Same(run'.step[t], run.step[t])
      /\ \A e \in Writes(outbox') : Reported(e)
  BY <1>0, <1>2, <1>3, UpdateHolds
<1>5. s \notin admitted /\ ~Waits(s)'
  <2>1. ~Waits(s)
    BY <1>0 DEF SettledInv, AdmittedOwed
  <2> QED BY <1>0, <1>1, <1>3, <2>1 DEF Waits
<1>6. Turned(s)
  <2>1. Protected(s) => run.step[s].status # "done"
    BY <1>0 DEF Settles, Protected
  <2> QED BY <1>2, <1>3, <1>4, <1>5, <2>1 DEF Turned, Work
<1>7. (\A t \in Steps \ {s} : Calm(t)) /\ \A t \in Steps : Onward(t)
  BY <1>0, <1>1, <1>4, NothingUnderWay DEF Calm, Onward, Waits, Work, Idle
<1> QED BY <1>0, <1>1, <1>4, <1>6, <1>7, ChangeSettled DEF Living

\* The loop around the passes, and the end of the run.
LEMMA LoopSettled ==
  ASSUME TypeInv, TypeInv', EmptyInv, SettledInv,
         Launch \/ LeaveLoop \/ NextUnit \/ UnitStops \/ TreeWritesStop \/ Finalize
  PROVE  SettledInv'
<1>0. /\ pc \in {"admit", "pass", "ending"} /\ pc' # "off" /\ outbox = <<>> /\ cursor' = cursor
      /\ run \in SoundRun /\ cursor \in Nat /\ DiskStill
  <2>1. /\ pc \in {"admit", "pass", "ending"} /\ pc' # "off" /\ outbox = <<>>
        /\ cursor' = cursor /\ DiskStill
    BY DEF Launch, LeaveLoop, NextUnit, UnitStops, TreeWritesStop, Finalize, LeaveUnit,
           UnitAnswered, Busy, DiskStill, disk, history
  <2> QED BY <2>1 DEF TypeInv, RunsSound, ControlTyped
<1>1. /\ run'.aborted = run.aborted /\ run'.step = run.step /\ outbox' \in {<<>>, Saved(run')}
  <2>1. CASE Launch \/ LeaveLoop \/ NextUnit \/ UnitStops
    BY <1>0, <2>1 DEF Launch, LeaveLoop, NextUnit, UnitStops
  <2>2. CASE TreeWritesStop
    <3>1. run' = Stopped(run) /\ outbox' = Saved(run')
      BY <2>2 DEF TreeWritesStop
    <3> QED BY <1>0, <3>1 DEF Stopped, SoundRun, Run
  <2>3. CASE Finalize
    <3>1. PICK v : run' = [run EXCEPT !.status = v] /\ outbox' = Saved(run')
      BY <2>3 DEF Finalize
    <3> QED BY <1>0, <3>1 DEF SoundRun, Run
  <2> QED BY <2>1, <2>2, <2>3
<1>2. \A t \in Steps : /\ stage'[t] \in Work => stage[t] \in Work
                       /\ Waits(t)' => Waits(t)
  <2>1. CASE Launch
    BY <2>1 DEF Launch, Waits, Work
  <2>2. CASE LeaveLoop \/ NextUnit \/ UnitStops \/ TreeWritesStop
    <3>1. admitted' = {} /\ (stage' = stage \/ stage' = Idle)
      BY <2>2 DEF LeaveLoop, NextUnit, UnitStops, TreeWritesStop, LeaveUnit
    <3> QED BY <3>1, NothingUnderWay DEF Waits, Work, Idle
  <2>3. CASE Finalize
    BY <2>3 DEF Finalize, Waits
  <2> QED BY <2>1, <2>2, <2>3
<1>3. \A t \in Steps : Calm(t) /\ Onward(t)
  BY <1>0, <1>1, <1>2 DEF Calm, Same, Onward
<1>4. \A e \in Writes(outbox') : e = SaveEntry(run')
  BY <1>1, FewWrites, SavedHolds
<1> QED BY <1>0, <1>1, <1>3, <1>4, CalmSettled DEF Living

\* What a pass that moves one step to another stage leaves alone.
LEMMA MoveHolds ==
  ASSUME TypeInv, pc = "pass", PassFrame, UNCHANGED <<lost, finished>>, NEW s \in Steps,
         NEW to \in {"started", "opened", "spawned", "settled", "ended"},
         stage' = [stage EXCEPT ![s] = to]
  PROVE  /\ run \in SoundRun /\ pc' # "off" /\ DiskStill /\ stage'[s] = to
         /\ \A t \in Steps \ {s} : stage'[t] = stage[t]
         /\ \A t \in Steps : Onward(t)
<1>1. /\ run \in SoundRun /\ cursor \in Nat /\ stage \in [Steps -> Stages]
      /\ pc' = "pass" /\ UNCHANGED <<cursor, admitted>> /\ DiskStill
  BY DEF TypeInv, RunsSound, ControlTyped, PassTyped, PassFrame, DiskStill, disk
<1>2. stage'[s] = to /\ \A t \in Steps \ {s} : stage'[t] = stage[t]
  BY <1>1
<1> QED BY <1>1, <1>2 DEF Onward, Waits



\* Starting a pass: it was admitted, so it was not done.
LEMMA StartSettled ==
  ASSUME TypeInv, TypeInv', EmptyInv, SettledInv, NEW s \in Steps, StartPass(s)
  PROVE  SettledInv'
<1>1. /\ pc = "pass" /\ outbox = <<>> /\ stage[s] = "admitted" /\ UpdateStep(s, "running")
      /\ stage' = [stage EXCEPT ![s] = "started"] /\ PassFrame /\ UNCHANGED <<lost, finished>>
  BY DEF StartPass, history
<1>2. /\ run \in SoundRun /\ pc' # "off" /\ DiskStill /\ stage'[s] = "started"
      /\ \A t \in Steps \ {s} : stage'[t] = stage[t]
      /\ \A t \in Steps : Onward(t)
  BY <1>1, MoveHolds
<1>3. /\ run'.aborted = run.aborted /\ run'.step[s].status = "running"
      /\ \A t \in Steps \ {s} : Same(run'.step[t], run.step[t])
      /\ FirstTells(s)' /\ (~run.aborted => Saves(outbox') # {})
      /\ \A e \in Writes(outbox') : Reported(e)
  BY <1>1, <1>2, UpdateHolds DEF StepStatus
<1>4. Turned(s)
  <2>1. Protected(s) => run.step[s].status # "done"
    BY <1>1 DEF SettledInv, AdmittedOwed, Waits
  <2> QED BY <1>2, <1>3, <2>1 DEF Turned, Work
<1>5. \A t \in Steps \ {s} : Calm(t)
  BY <1>2, <1>3 DEF Calm
<1> QED BY <1>1, <1>2, <1>3, <1>4, <1>5, ChangeSettled DEF Living

\* A step of a pass under way that leaves the statuses as they are.
LEMMA OnSettled ==
  ASSUME TypeInv, TypeInv', EmptyInv, SettledInv, pc = "pass", outbox = <<>>, PassFrame,
         UNCHANGED <<lost, finished>>, NEW s \in Steps, stage[s] \in Work,
         NEW to \in {"started", "opened", "spawned", "settled", "ended"},
         stage' = [stage EXCEPT ![s] = to], run'.aborted = run.aborted,
         \A t \in Steps : Same(run'.step[t], run.step[t]),
         \A e \in Writes(outbox') : e.kind \in {"start", "finish", "guard"} \/ e = SaveEntry(run')
  PROVE  SettledInv'
<1>1. /\ pc' # "off" /\ DiskStill
      /\ \A t \in Steps \ {s} : stage'[t] = stage[t]
      /\ \A t \in Steps : Onward(t)
  BY MoveHolds
<1>2. \A t \in Steps : Calm(t)
  BY <1>1 DEF Calm
<1> QED BY <1>1, <1>2, CalmSettled DEF Living

\* Opening an attempt, spawning it, giving the pass up, and the rerun.
LEMMA OpenSettled ==
  ASSUME TypeInv, TypeInv', EmptyInv, SettledInv, NEW s \in Steps,
         OpenAttempt(s) \/ Spawn(s) \/ Abandon(s) \/ Rerun(s)
  PROVE  SettledInv'
<1>0. /\ pc = "pass" /\ outbox = <<>> /\ PassFrame /\ UNCHANGED <<lost, finished>>
      /\ stage[s] \in Work /\ run \in SoundRun
  <2>1. /\ pc = "pass" /\ outbox = <<>> /\ PassFrame /\ UNCHANGED <<lost, finished>>
        /\ stage[s] \in Work
    BY DEF OpenAttempt, Spawn, Abandon, Rerun, MayRetry, Refused, Resolves, Busy, EndPass,
           Work, history
  <2> QED BY <2>1, PassStart
<1>1. CASE OpenAttempt(s)
  <2> DEFINE n == NextNumber(s)
             one == <<StartEvent(s, n)>>
             W == {StartEvent(s, n), SaveEntry(run')}
  <2>1. /\ run' = [run EXCEPT !.step[s].last = n] /\ outbox' = one \o Saved(run')
        /\ stage' = [stage EXCEPT ![s] = "opened"]
    BY <1>1 DEF OpenAttempt
  <2> HIDE DEF n
  <2>2. run'.aborted = run.aborted /\ \A t \in Steps : Same(run'.step[t], run.step[t])
    BY <1>0, <2>1 DEF SoundRun, Run, Step, Same
  <2>3. one \in Seq(W) /\ Saved(run') \in Seq(W)
    <3>1. StartEvent(s, n) \in W /\ SaveEntry(run') \in W
      OBVIOUS
    <3> HIDE DEF W
    <3> QED BY <3>1, EmptySeq DEF Saved
  <2> HIDE DEF W, one
  <2>4. outbox' \in Seq(W)
    BY <2>1, <2>3, ConcatProperties
  <2>5. Writes(outbox') \subseteq W
    BY <2>4, EmptySeq, ConcatWrites
  <2>6. \A e \in Writes(outbox') : e.kind = "start" \/ e = SaveEntry(run')
    BY <2>5 DEF W, StartEvent
  <2> QED BY <1>0, <2>1, <2>2, <2>6, OnSettled
<1>2. CASE Spawn(s) \/ Abandon(s)
  <2>1. /\ UNCHANGED <<run, outbox>>
        /\ \E to \in {"spawned", "ended"} : stage' = [stage EXCEPT ![s] = to]
    BY <1>2 DEF Spawn, Abandon, EndPass
  <2>2. \A t \in Steps : Same(run'.step[t], run.step[t])
    BY <2>1 DEF Same
  <2> QED BY <1>0, <2>1, <2>2, FewWrites, OnSettled
<1>3. CASE Rerun(s)
  <2>1. /\ run' = [run EXCEPT !.step[s].retries = @ + 1] /\ outbox' = Saved(run')
        /\ stage' = [stage EXCEPT ![s] = "started"]
    BY <1>3 DEF Rerun
  <2>2. run'.aborted = run.aborted /\ \A t \in Steps : Same(run'.step[t], run.step[t])
    BY <1>0, <2>1 DEF SoundRun, Run, Step, Same
  <2>3. \A e \in Writes(outbox') : e = SaveEntry(run')
    BY <2>1, SavedHolds
  <2> QED BY <1>0, <2>1, <2>2, <2>3, OnSettled
<1> QED BY <1>1, <1>2, <1>3

\* The answer of an attempt.
LEMMA AnswerSettled ==
  ASSUME TypeInv, TypeInv', EmptyInv, SettledInv, NEW s \in Steps, SettleAttempt(s)
  PROVE  SettledInv'
<1> DEFINE to == IF Stopping THEN "ended" ELSE "settled"
<1>0. /\ pc = "pass" /\ outbox = <<>> /\ stage[s] \in Work /\ to \in {"settled", "ended"}
      /\ stage' = [stage EXCEPT ![s] = to] /\ UNCHANGED <<lost, finished>> /\ PassFrame
      /\ run \in SoundRun
  <2>1. /\ pc = "pass" /\ outbox = <<>> /\ stage[s] \in Work
        /\ stage' = [stage EXCEPT ![s] = to] /\ UNCHANGED <<lost, finished>> /\ PassFrame
    BY DEF SettleAttempt, Busy, Work, history
  <2> QED BY <2>1, PassStart
<1> HIDE DEF to
<1>1. CASE ~StillOpen(s)
  <2>1. UNCHANGED <<run, outbox>>
    BY <1>1 DEF SettleAttempt
  <2>2. \A t \in Steps : Same(run'.step[t], run.step[t])
    BY <2>1 DEF Same
  <2> QED BY <1>0, <2>1, <2>2, FewWrites, OnSettled
<1>2. CASE StillOpen(s)
  <2> DEFINE a(res) == [status |-> IF res.ok THEN "done" ELSE "failed", fig |-> res.fig,
                        interrupted |-> FALSE]
             r(res) == [run EXCEPT !.step[s].spend = Merge(@, res.fig),
                          !.exceeded = @ \/ res.cut = "budget",
                          !.unaccounted = @ \/ ProvesUnpriced(res.fig) \/ res.cut = "unpriced"]
  <2>1. PICK res \in Results(s) :
          /\ run' = r(res)
          /\ outbox' = <<FinishEvent(s, Last(s), a(res))>> \o GuardWrites(res) \o Saved(r(res))
    BY <1>2 DEF SettleAttempt
  <2>2. run'.aborted = run.aborted /\ \A t \in Steps : Same(run'.step[t], run.step[t])
    BY <1>0, <2>1 DEF SoundRun, Run, Step, Same
  <2> DEFINE f == FinishEvent(s, Last(s), a(res))
             g == GuardEvent(res.cut)
             W == {f, g, SaveEntry(run')}
  <2>3. f \in W /\ g \in W /\ SaveEntry(run') \in W
    OBVIOUS
  <2> HIDE DEF W, f, g, r, a
  <2>4. <<f>> \in Seq(W) /\ GuardWrites(res) \in Seq(W) /\ Saved(run') \in Seq(W)
    BY <2>3, EmptySeq DEF Saved, GuardWrites, g
  <2>5. outbox' \in Seq(W)
    <3>1. <<f>> \o GuardWrites(res) \in Seq(W)
      BY <2>4, ConcatProperties
    <3>2. outbox' = (<<f>> \o GuardWrites(res)) \o Saved(run')
      BY <2>1 DEF f
    <3> QED BY <2>4, <3>1, <3>2, ConcatProperties
  <2>6. Writes(outbox') \subseteq W
    BY <2>5, EmptySeq, ConcatWrites
  <2>7. \A e \in Writes(outbox') : e.kind \in {"finish", "guard"} \/ e = SaveEntry(run')
    BY <2>6 DEF W, f, g, FinishEvent, GuardEvent
  <2> QED BY <1>0, <2>2, <2>7, OnSettled
<1> QED BY <1>1, <1>2



\* A pass with a verdict was under way, and the snapshot knows.
LEMMA EndHolds ==
  ASSUME TypeInv, SettledInv, NEW s \in Steps, Resolves(s), EndPass(s)
  PROVE  /\ Living /\ ~run.aborted /\ run \in SoundRun /\ stage'[s] = "ended"
         /\ run.step[s].status = "running" /\ snap.step[s].status = "running"
         /\ \A t \in Steps \ {s} : stage'[t] = stage[t]
         /\ (\A t \in Steps : Onward(t)) /\ ~Waits(s)'
<1>1. /\ pc = "pass" /\ outbox = <<>> /\ stage[s] = "settled" /\ ~run.aborted
      /\ stage' = [stage EXCEPT ![s] = "ended"] /\ PassFrame /\ UNCHANGED <<lost, finished>>
  BY DEF Resolves, Busy, EndPass, history
<1>2. /\ run \in SoundRun /\ pc' # "off" /\ DiskStill /\ stage'[s] = "ended"
      /\ \A t \in Steps \ {s} : stage'[t] = stage[t]
      /\ \A t \in Steps : Onward(t)
  BY <1>1, MoveHolds
<1>3. run.step[s].status = "running" /\ snap.step[s].status = "running"
  BY <1>1, FewWrites DEF SettledInv, UnderWay, Work, Saves
<1>4. ~Waits(s)'
  BY <1>1, <1>2 DEF Waits, PassFrame
<1> QED BY <1>1, <1>2, <1>3, <1>4 DEF Living

\* Ending a pass with a verdict.
LEMMA EndSettled ==
  ASSUME TypeInv, TypeInv', EmptyInv, SettledInv, NEW s \in Steps,
         Succeed(s) \/ Absorb(s) \/ Fail(s) \/ CostStopsRetry(s)
  PROVE  SettledInv'
<1>1. Resolves(s) /\ EndPass(s)
  BY DEF Succeed, Absorb, Fail, CostStopsRetry, MayRetry, Exhausted, Blocked, Refused
<1>2. PICK st \in {"done", "failed"} : UpdateStep(s, st)
  BY DEF Succeed, Absorb, Fail, CostStopsRetry
<1>3. /\ Living /\ run \in SoundRun /\ stage'[s] = "ended"
      /\ run.step[s].status = "running" /\ snap.step[s].status = "running"
      /\ \A t \in Steps \ {s} : stage'[t] = stage[t]
      /\ (\A t \in Steps : Onward(t)) /\ ~Waits(s)'
  BY <1>1, EndHolds
<1>4. /\ run'.aborted = run.aborted /\ run'.step[s].status = st
      /\ \A t \in Steps \ {s} : Same(run'.step[t], run.step[t])
      /\ outbox' # <<>> /\ Head(outbox') = StatusEvent(s, st)
      /\ \A e \in Writes(outbox') : Reported(e)
  BY <1>2, <1>3, UpdateHolds DEF StepStatus
<1>5. Turned(s)
  BY <1>3, <1>4 DEF Turned, Work
<1>6. \A t \in Steps \ {s} : Calm(t)
  BY <1>3, <1>4 DEF Calm
<1> QED BY <1>3, <1>4, <1>5, <1>6, ChangeSettled

\* A guard kill: the refund it writes first still calls the step running.
LEMMA CutSettled ==
  ASSUME TypeInv, TypeInv', EmptyInv, SettledInv, NEW s \in Steps, CutShort(s)
  PROVE  SettledInv'
<1> DEFINE refunded == [run EXCEPT !.step[s].retries = @ - 1]
           r == IF s \in reruns THEN refunded ELSE run
           p == IF s \in reruns THEN Saved(r) ELSE <<>>
           w == StatusWrites(r, s, "failed")
<1>1. Resolves(s) /\ EndPass(s) /\ run' = WithStatus(r, s, "failed") /\ outbox' = p \o w
  BY DEF CutShort
<1>2. /\ Living /\ run \in SoundRun /\ stage'[s] = "ended"
      /\ run.step[s].status = "running"
      /\ \A t \in Steps \ {s} : stage'[t] = stage[t]
      /\ (\A t \in Steps : Onward(t)) /\ ~Waits(s)'
  BY <1>1, EndHolds
<1>3. /\ r \in SoundRun /\ r.aborted = run.aborted
      /\ \A t \in Steps : Same(r.step[t], run.step[t])
  <2>1. s \in reruns => refunded \in SoundRun
    BY <1>1, <1>2, PassStart, RefundSound DEF Resolves
  <2>2. refunded.aborted = run.aborted /\ \A t \in Steps : Same(refunded.step[t], run.step[t])
    BY <1>2 DEF SoundRun, Run, Step, Same
  <2> HIDE DEF refunded
  <2> QED BY <1>2, <2>1, <2>2 DEF Same
<1> HIDE DEF r
<1>4. /\ run'.aborted = run.aborted /\ run'.step[s].status = "failed"
      /\ \A t \in Steps \ {s} : Same(run'.step[t], r.step[t])
  BY <1>1, <1>3, StatusEffect DEF Same, StepStatus
<1>5. Writes(outbox') \subseteq {SaveEntry(r), StatusEvent(s, "failed"), SaveEntry(run')}
  <2>1. p \in Seq(SoundWrite) /\ Writes(p) \subseteq {SaveEntry(r)}
    BY <1>3, SavedWrites, SavedHolds, FewWrites, EmptySeq
  <2>2. w \in Seq(SoundWrite) /\ Writes(w) \subseteq {StatusEvent(s, "failed"), SaveEntry(run')}
    BY <1>1, <1>3, StatusWritesTyped, StatusHolds DEF StepStatus
  <2> HIDE DEF p, w
  <2> QED BY <1>1, <2>1, <2>2, ConcatWrites
<1>6. \A e \in Writes(outbox') : Reported(e)
  <2>1. Reported(SaveEntry(r))
    BY <1>2, <1>3, <1>4 DEF Reported, SaveEntry, Same, Begun
  <2>2. Reported(StatusEvent(s, "failed")) /\ Reported(SaveEntry(run'))
    BY <1>4 DEF Reported, StatusEvent, SaveEntry, Same
  <2> QED BY <1>5, <2>1, <2>2
<1>7. Turned(s) /\ \A t \in Steps \ {s} : Calm(t)
  BY <1>2, <1>3, <1>4 DEF Turned, Work, Calm, Same
<1> QED BY <1>2, <1>4, <1>6, <1>7, ChangeSettled

\* An obstacle: the step fails, and the run is written again as stopped.
LEMMA BlockedSettled ==
  ASSUME TypeInv, TypeInv', EmptyInv, SettledInv, NEW s \in Steps, StopBlocked(s)
  PROVE  SettledInv'
<1> DEFINE failed == WithStatus(run, s, "failed")
           w == StatusWrites(run, s, "failed")
<1>1. /\ Resolves(s) /\ EndPass(s) /\ run' = Stopped(failed)
      /\ outbox' = w \o Saved(run')
  BY DEF StopBlocked, Blocked, Refused
<1>2. /\ Living /\ run \in SoundRun /\ stage'[s] = "ended"
      /\ run.step[s].status = "running"
      /\ \A t \in Steps \ {s} : stage'[t] = stage[t]
      /\ (\A t \in Steps : Onward(t)) /\ ~Waits(s)'
  BY <1>1, EndHolds
<1>3. /\ failed \in SoundRun /\ failed.aborted = run.aborted
      /\ failed.step[s].status = "failed"
      /\ \A t \in Steps \ {s} : Same(failed.step[t], run.step[t])
  <2>1. "failed" \in StepStatus
    BY DEF StepStatus
  <2>2. failed \in SoundRun
    BY <1>2, <2>1, SoundStatus
  <2>3. /\ failed.aborted = run.aborted /\ failed.step[s].status = "failed"
        /\ \A t \in Steps \ {s} : failed.step[t] = run.step[t]
    BY <1>2, <2>1, StatusEffect
  <2> QED BY <2>2, <2>3 DEF Same
<1>5. /\ w \in Seq(SoundWrite)
      /\ Writes(w) \subseteq {StatusEvent(s, "failed"), SaveEntry(failed)}
  BY <1>2, StatusWritesTyped, StatusHolds DEF StepStatus
<1> HIDE DEF failed, w
<1>4. /\ run' \in SoundRun /\ run'.aborted = run.aborted /\ run'.step = failed.step
  BY <1>1, <1>3, SoundStopped DEF Stopped, SoundRun, Run
<1>6. Writes(outbox') \subseteq {StatusEvent(s, "failed"), SaveEntry(failed), SaveEntry(run')}
  <2>1. Saved(run') \in Seq(SoundWrite) /\ Writes(Saved(run')) \subseteq {SaveEntry(run')}
    BY <1>4, SavedWrites, SavedHolds
  <2> QED BY <1>1, <1>5, <2>1, ConcatWrites
<1>7. \A e \in Writes(outbox') : Reported(e)
  <2>1. \A q \in {failed, run'} : Reported(SaveEntry(q))
    BY <1>4 DEF Reported, SaveEntry, Same
  <2>2. Reported(StatusEvent(s, "failed"))
    BY <1>3, <1>4 DEF Reported, StatusEvent
  <2> QED BY <1>6, <2>1, <2>2
<1>8. Turned(s) /\ \A t \in Steps \ {s} : Calm(t)
  BY <1>2, <1>3, <1>4 DEF Turned, Work, Calm, Same
<1> QED BY <1>2, <1>4, <1>7, <1>8, ChangeSettled

\* A signal turns the steps this process runs, and none that is done.
LEMMA SignalSettled ==
  ASSUME TypeInv, TypeInv', EmptyInv, SettledInv, Signal
  PROVE  SettledInv'
<1>1. /\ Living /\ run \in SoundRun /\ executing \subseteq Steps
      /\ UNCHANGED <<pc, stage, admitted, cursor>> /\ cursor \in Nat
  BY DEF Signal, Busy, Living, DiskStill, disk, history, TypeInv, RunsSound, ControlTyped
<1>2. \A t \in Steps : Waits(t)' => Waits(t) /\ cursor' >= cursor
  BY <1>1 DEF Waits
<1>3. CASE run.status \in Verdicts
  <2>1. UNCHANGED <<run, outbox>>
    BY <1>3 DEF Signal
  <2>2. outbox' = <<>>
    BY <1>1, <2>1 DEF Living
  <2>3. \A t \in Steps : Calm(t) /\ Onward(t)
    BY <1>1, <1>2, <2>1 DEF Calm, Onward, Same
  <2> QED BY <1>1, <2>1, <2>2, <2>3, FewWrites, CalmSettled
<1>4. CASE run.status \notin Verdicts
  <2>1. PICK est \in [Steps -> {0} \cup Prices] :
          WithinSpend(Aborted(est)) /\ run' = Aborted(est) /\ outbox' = AbortWrites(est)
    BY <1>4 DEF Signal
  <2>2. Aborting \in SUBSET Steps /\ \A t \in Aborting : run.step[t].status = "running"
    BY <1>1 DEF Aborting
  <2>3. /\ run'.aborted
        /\ \A t \in Aborting : run'.step[t].status = "aborted"
        /\ \A t \in Steps \ Aborting : run'.step[t] = run.step[t]
    <3> DEFINE closes == {s \in Aborting : InFlight(s)}
               spend(s) == IF s \in closes THEN Merge(run.step[s].spend, LiveFigure(s, est[s]))
                           ELSE run.step[s].spend
               step == [s \in Steps |->
                 IF s \notin Aborting THEN run.step[s]
                 ELSE [run.step[s] EXCEPT !.status = "aborted",
                        !.spend = IF s \in closes THEN Merge(@, LiveFigure(s, est[s])) ELSE @]]
    <3>1. run' = [run EXCEPT !.aborted = TRUE, !.status = "ABORTED", !.step = step]
      BY <2>1 DEF Aborted
    <3>2. \A t \in Aborting : run.step[t] \in Step /\ t \in Steps
      BY <1>1, <2>2 DEF SoundRun, Run
    <3>3. \A t \in Aborting : step[t].status = "aborted"
      BY <3>2 DEF Step
    <3>4. \A t \in Steps \ Aborting : step[t] = run.step[t]
      OBVIOUS
    <3> HIDE DEF step
    <3>5. run'.aborted /\ run'.step = step
      BY <1>1, <3>1 DEF SoundRun, Run
    <3> QED BY <3>3, <3>4, <3>5
  <2> DEFINE Told == {StatusEvent(t, "aborted") : t \in Aborting}
             Ends == {FinishEvent(t, Last(t), AbortedAttempt(t, est[t])) : t \in Aborting}
             W == Told \cup Ends \cup {SaveEntry(run')}
  <2>4. AbortWrites(est) \in Seq(W)
    BY <1>1, <2>1, AbortWritesOver
  <2>5. \A e \in W : Reported(e)
    <3>1. \A t \in Aborting : Reported(StatusEvent(t, "aborted"))
      BY <2>3 DEF Reported, StatusEvent
    <3>2. \A e \in Ends : Reported(e)
      BY DEF Reported, FinishEvent
    <3>3. Reported(SaveEntry(run'))
      BY DEF Reported, SaveEntry, Same
    <3> QED BY <3>1, <3>2, <3>3
  <2> HIDE DEF W
  <2>6. \A e \in Writes(outbox') : Reported(e)
    BY <2>1, <2>4, <2>5, EmptySeq, ConcatWrites
  <2>7. \A t \in Aborting : Turned(t)
    BY <2>2, <2>3 DEF Turned
  <2>8. \A t \in Steps \ Aborting : Calm(t)
    BY <1>1, <2>3 DEF Calm, Same
  <2>9. Turn(Aborting)
    BY <1>1, <1>2, <2>3, <2>6, <2>7, <2>8 DEF Turn, Living, DiskStill, Calm, TypeInv, WritesSound
  <2> QED BY <2>2, <2>9, TurnSettled
<1> QED BY <1>3, <1>4



\* The invariant is inductive.
LEMMA NextSettled == TypeInv /\ EmptyInv /\ SettledInv /\ [Next]_vars => SettledInv'
<1> SUFFICES ASSUME TypeInv, EmptyInv, SettledInv, [Next]_vars PROVE SettledInv'
  OBVIOUS
<1>0. TypeInv'
  BY NextTypes
<1>1. CASE Open
  <2>1. PICK i \in Invocations : Create(i) \/ Resume(i)
    BY <1>1 DEF Open
  <2> QED BY <1>0, <2>1, CreateSettled, ResumeSettled
<1>2. CASE OpenLedger \/ Admission
  <2>1. CASE OpenLedger
    BY <1>0, <2>1, DecisionSettled
  <2>2. CASE Admission
    <3>1. PICK s \in Steps :
            \/ PassOver(s) \/ CostStopsAdmission(s) \/ WhenSkips(s) \/ WhenStops(s)
            \/ AdmissionFails(s) \/ AdmissionAbsorbed(s) \/ NeedsDecision(s) \/ Admit(s)
      BY <2>2 DEF Admission
    <3> QED BY <1>0, <3>1, DecisionSettled, VerdictSettled
  <2> QED BY <1>2, <2>1, <2>2
<1>3. CASE Launch \/ LeaveLoop \/ NextUnit \/ UnitStops \/ TreeWritesStop \/ Finalize
  BY <1>0, <1>3, LoopSettled
<1>4. CASE Pass
  <2>1. PICK s \in Steps :
        \/ StartPass(s) \/ OpenAttempt(s) \/ Spawn(s) \/ SettleAttempt(s)
        \/ Succeed(s) \/ Abandon(s) \/ CutShort(s) \/ StopBlocked(s) \/ Absorb(s)
        \/ Fail(s) \/ CostStopsRetry(s) \/ Rerun(s)
    BY <1>4 DEF Pass
  <2> QED BY <1>0, <2>1, StartSettled, OpenSettled, AnswerSettled, EndSettled, CutSettled,
             BlockedSettled
<1>5. CASE Exit \/ Crash \/ Flush \/ LoseEvent \/ Signal
  BY <1>0, <1>5, GoneSettled, FlushSettled, LoseSettled, SignalSettled
<1>6. CASE UNCHANGED vars
  <2>1. UNCHANGED <<pc, run, stage, inv, cursor, admitted, outbox, snap, jStatus, lost, finished>>
    BY <1>6 DEF vars, memory, disk, history
  <2>2. WritesTruthful' /\ UnderWay' /\ AdmittedOwed' /\ FinishedHeld'
    BY <2>1 DEF SettledInv, WritesTruthful, Truthful, Echoes, Same, UnderWay, Saves, Writes,
       AdmittedOwed, Waits, Protected, FinishedHeld, Held, Requeued, Tidings
  <2>3. Completing' /\ NothingYet' /\ DoneFinished'
    BY <2>1 DEF SettledInv, Completing, Writes, NothingYet, DoneFinished
  <2>4. JournalFresh'
    BY <2>1 DEF SettledInv, JournalFresh, SnapFresh, RunFresh, DoneAnnounced, Unfinished,
       Stale, FirstTells, Saves, Writes
  <2> QED BY <2>2, <2>3, <2>4 DEF SettledInv
<1> QED BY <1>1, <1>2, <1>3, <1>4, <1>5, <1>6 DEF Next, Progress

\* Only OpenAttempt opens an attempt.
LEMMA OnlyOpens ==
  ASSUME TypeInv, [Next]_vars, NEW s \in Steps, Opens(s)
  PROVE  OpenAttempt(s)
<1>1. stage[s] # "opened" /\ stage'[s] = "opened" /\ stage \in [Steps -> Stages]
  BY DEF Opens, TypeInv, PassTyped
<1>2. stage' # stage /\ stage' # Idle
  BY <1>1 DEF Idle
<1>3. ~Launch
  BY <1>1 DEF Launch
<1>4. ~(Open \/ OpenLedger \/ Admission \/ LeaveLoop \/ Signal \/ Flush \/ LoseEvent)
  BY <1>2 DEF Open, Create, Resume, OpenLedger, Admission, PassOver, CostStopsAdmission,
     WhenSkips, WhenStops, AdmissionFails, AdmissionAbsorbed, NeedsDecision, Admit,
     AdmissionFrame, LeaveLoop, Signal, Flush, LoseEvent, memory
<1>5. ~(NextUnit \/ UnitStops \/ TreeWritesStop \/ Finalize \/ Exit \/ Crash)
  BY <1>2 DEF NextUnit, UnitStops, TreeWritesStop, LeaveUnit, Finalize, Exit, Crash, Gone
<1>6. stage' # stage => ~UNCHANGED vars
  BY DEF vars, memory
<1>7. Pass
  BY <1>2, <1>3, <1>4, <1>5, <1>6 DEF Next, Progress
<1>8. PICK t \in Steps :
        \/ StartPass(t) \/ OpenAttempt(t) \/ Spawn(t) \/ SettleAttempt(t)
        \/ Succeed(t) \/ Abandon(t) \/ CutShort(t) \/ StopBlocked(t) \/ Absorb(t)
        \/ Fail(t) \/ CostStopsRetry(t) \/ Rerun(t)
  BY <1>7 DEF Pass
<1>9. CASE OpenAttempt(t)
  <2>1. stage' = [stage EXCEPT ![t] = "opened"]
    BY <1>9 DEF OpenAttempt
  <2>2. t = s
    BY <1>1, <2>1
  <2> QED BY <1>9, <2>2
<1>10. CASE ~OpenAttempt(t)
  <2>1. \E to \in {"started", "spawned", "settled", "ended"} : stage' = [stage EXCEPT ![t] = to]
    BY <1>8, <1>10 DEF StartPass, Spawn, SettleAttempt, Succeed, Abandon, CutShort,
       StopBlocked, Absorb, Fail, CostStopsRetry, Rerun, EndPass
  <2> QED BY <1>1, <2>1
<1> QED BY <1>9, <1>10

\* Once the disk calls a step done, no process opens an attempt of it again,
\* wherever crashes fall between the writes and whatever appends are lost, unless
\* the operator requeues it or the definition reruns it on resume.
THEOREM SettledStaysSettled == Spec => SettledWorkNeverReplayed
<1> DEFINE Kept == \A s \in Steps : Opens(s) => s \notin finished \/ (inv.resuming /\ s \in RerunOnResume)
<1>1. TypeInv /\ SettledInv /\ [Next]_vars => Kept
  <2> SUFFICES ASSUME TypeInv, SettledInv, [Next]_vars, NEW s \in Steps, Opens(s),
                      s \in finished, Protected(s)
               PROVE  FALSE
    BY DEF Protected
  <2>1. pc = "pass" /\ stage[s] = "started"
    BY OnlyOpens DEF OpenAttempt
  <2>2. run.step[s].status # "done"
    BY <2>1 DEF SettledInv, UnderWay, Work
  <2> QED BY <2>1, <2>2 DEF SettledInv, FinishedHeld, Requeued
<1>2. Spec => [](TypeInv /\ EmptyInv /\ SettledInv)
  BY InitTypes, NextTypes, InitEmpty, NextEmpty, InitSettled, NextSettled, PTL DEF Spec
<1>3. TypeInv /\ SettledInv /\ [Next]_vars => [Kept]_vars
  BY <1>1
<1> QED BY <1>2, <1>3, PTL DEF Spec, SettledWorkNeverReplayed

\* No append having failed, the steps a resume takes for done are those whose
\* completion reached the disk and that were not requeued since, or absorb their
\* failures: reconcileStepStatus neither forgets a completion nor settles a replay
\* with the event of the pass before it.
THEOREM RestoredDoneFinished == Spec => []RestoredDoneIsFinished
<1>1. TypeInv /\ SettledInv => RestoredDoneIsFinished
  <2> SUFFICES ASSUME TypeInv, SettledInv, pc = "off", snap # NoRun, lost = 0, NEW s \in Steps
               PROVE  LET done == Restored(snap, jStatus, jAtt, NoInvocation).step[s].status = "done"
                      IN  /\ done => s \in finished \/ s \in NonBlocking
                          /\ s \in finished \ RerunOnResume => done
    BY DEF RestoredDoneIsFinished
  <2> DEFINE x == snap.step[s]
             y == Selected(Reconciled(x, jStatus[s]), NoInvocation, s)
             r == Restored(snap, jStatus, jAtt, NoInvocation)
  <2>1. snap \in SoundRun /\ jStatus \in [Steps -> Statuses] /\ x \in Step
    BY DEF TypeInv, RunsSound, DiskTyped, SoundRun, Run
  <2>2. r.step[s].status = y.status
    BY <2>1, RestoredStatus DEF Same
  <2>3. ~Replays(NoInvocation, s)
    BY DEF Replays, NoInvocation
  <2>4. /\ y.status = "done" => x.status = "done" \/ Stale(x, jStatus[s])
        /\ Held(s) => y.status = "done"
    BY <2>1, <2>3, ReconciledStatus DEF Held
  <2>5. x.status = "done" \/ Stale(x, jStatus[s]) => s \in finished \/ s \in NonBlocking
    BY DEF SettledInv, DoneFinished, JournalFresh, SnapFresh, Unfinished
  <2>6. s \in finished \ RerunOnResume => Held(s)
    BY DEF SettledInv, FinishedHeld
  <2> HIDE DEF x, y, r
  <2> QED BY <2>2, <2>4, <2>5, <2>6 DEF r
<1>2. Spec => [](TypeInv /\ EmptyInv /\ SettledInv)
  BY InitTypes, NextTypes, InitEmpty, NextEmpty, InitSettled, NextSettled, PTL DEF Spec
<1> QED BY <1>1, <1>2, PTL

----------------------------------------------------------------------------
(* What a verdict speaks of.                                               *)

Live == {"booted", "admit", "pass"}

\* What lets deriveRunStatus name the end of a run.
Explained(r) ==
  \/ r.aborted \/ r.stopped \/ AllSettled(r)
  \/ \E s \in Steps : r.step[s].status = "failed"

\* The same while passes go on: a failure counts once its pass is over, and a
\* completion while none has begun.
Unbegun == \A s \in Steps : stage[s] \in {"idle", "admitted"}
Complete == AllSettled(run) /\ Unbegun
Accounted ==
  \/ run.aborted \/ run.stopped \/ Complete
  \/ \E s \in Steps : run.step[s].status = "failed" /\ stage[s] = "ended"

\* A process starts with no stop, no signal and the first step.
ControlFresh ==
  /\ pc \in {"off", "booted", "admit"} => stop = NoStop
  /\ pc \in {"off", "booted"} => cursor = 1
  /\ pc = "off" => ~requested
  /\ pc = "pass" => \A s \in admitted : stage[s] # "idle"
  /\ requested => \A s \in Steps : stage[s] # "admitted"

\* What the loop has left behind is settled, unless something stops it.
LoopCleared ==
  pc \in {"admit", "pass"} /\ ~Stopping /\ stop = NoStop =>
    \A s \in Steps : s < cursor =>
      run.step[s].status \in Settled \/ (s \in admitted /\ stage[s] # "ended")

\* A verdict a live process holds is one nothing has made stale.
VerdictHeld ==
  pc \in Live /\ stop = NoStop /\ run.status \in Verdicts => run.aborted \/ Complete
StopAccounted ==
  pc \in Live /\ (requested \/ run.status \in Verdicts) => Accounted
EndExplained == pc = "ending" => stop # NoStop \/ Explained(run)

\* PASS is the verdict of a run that is over and complete, UNKNOWN of none.
Sound(r) == r.status # "UNKNOWN" /\ (r.status = "PASS" => AllSettled(r))
Over(r) == Sound(r) /\ (r.status = "PASS" => pc = "done")
RunOver ==
  /\ pc # "off" => Over(run)
  /\ pc = "done" => run.status \in Verdicts /\ Writes(outbox) = Saves(outbox)
  /\ \A e \in Saves(outbox) : Over(e.run)

\* A PASS on disk is older than any work, and leaves no attempt open.
Passed == snap # NoRun /\ snap.status = "PASS"
DiskOver ==
  /\ snap # NoRun => Sound(snap)
  /\ Passed => pc \in {"off", "done"} \/ (pc = "booted" /\ Saves(outbox) # {})
  /\ Passed /\ lost = 0 => \A s \in Steps, n \in Nums : jAtt[s][n].status # "running"

LoopInv == ControlFresh /\ LoopCleared /\ VerdictHeld /\ StopAccounted /\ EndExplained
VerdictInv == LoopInv /\ RunOver /\ DiskOver

\* Outside a pass nothing is under way.
LEMMA NoPass ==
  ASSUME TypeInv, pc # "pass"
  PROVE  \A s \in Steps : stage[s] = "idle"
BY DEF TypeInv, PassTyped, Idle

\* A step of the loop that writes no PASS keeps the invariant if it keeps the
\* part of the loop.
LEMMA LoopStep ==
  ASSUME VerdictInv, pc \notin {"off", "done"}, pc' \notin {"off", "done"}, outbox = <<>>,
         UNCHANGED <<snap, jAtt, lost>>, run'.status \notin {"PASS", "UNKNOWN"},
         \A e \in Saves(outbox') : e.run.status \notin {"PASS", "UNKNOWN"}, LoopInv'
  PROVE  VerdictInv'
<1>1. ~Passed
  BY FewWrites DEF VerdictInv, DiskOver, Saves
<1>2. RunOver'
  BY DEF RunOver, Over, Sound
<1>3. DiskOver'
  BY <1>1 DEF VerdictInv, DiskOver, Passed
<1> QED BY <1>2, <1>3 DEF VerdictInv

\* The verdict of a run whose step takes a status.
LEMMA StatusVerdict ==
  ASSUME NEW r \in SoundRun, NEW s \in Steps, NEW st \in StepStatus
  PROVE  LET q == WithStatus(r, s, st) IN
         /\ q.stopped = r.stopped
         /\ q.status = IF st = "running" THEN "RUNNING" ELSE IF st = "failed" THEN "FAIL"
                       ELSE r.status
<1>1. CASE st = "running"
  BY <1>1 DEF WithStatus, SoundRun, Run
<1>2. CASE st = "failed"
  BY <1>2 DEF WithStatus, SoundRun, Run
<1>3. CASE st \notin {"running", "failed"}
  BY <1>3 DEF WithStatus, SoundRun, Run
<1> QED BY <1>1, <1>2, <1>3

\* What updateStep does to the run, and what it saves.
LEMMA UpdateVerdict ==
  ASSUME run \in SoundRun, NEW s \in Steps, NEW st \in StepStatus, UpdateStep(s, st)
  PROVE  /\ run'.aborted = run.aborted /\ run'.stopped = run.stopped
         /\ run'.step[s].status = st
         /\ \A t \in Steps \ {s} : run'.step[t] = run.step[t]
         /\ run'.status = IF st = "running" THEN "RUNNING" ELSE IF st = "failed" THEN "FAIL"
                          ELSE run.status
         /\ \A e \in Saves(outbox') : e.run = run'
<1>1. run' = WithStatus(run, s, st) /\ outbox' = StatusWrites(run, s, st)
  BY DEF UpdateStep
<1>2. \A e \in Saves(outbox') : e.run = run'
  <2>1. Writes(outbox') \subseteq {StatusEvent(s, st), SaveEntry(run')}
    BY <1>1, StatusHolds
  <2> QED BY <2>1 DEF Saves, StatusEvent, SaveEntry
<1> QED BY <1>1, <1>2, StatusEffect, StatusVerdict

\* What saveRun saves.
LEMMA SavedSaves == \A r : \A e \in Saves(Saved(r)) : e.run = r
BY SavedHolds DEF Saves, SaveEntry

\* stopRun.
LEMMA StoppedVerdict ==
  \A r \in SoundRun : /\ Stopped(r).stopped /\ Stopped(r).status = "STOPPED"
                      /\ Stopped(r).aborted = r.aborted /\ Stopped(r).step = r.step
BY DEF Stopped, SoundRun, Run

----------------------------------------------------------------------------
(* Admission.                                                              *)

\* The ledger, and the decisions after which the loop goes on.
LEMMA GoesOn ==
  ASSUME TypeInv, VerdictInv,
         \/ OpenLedger
         \/ \E s \in Steps : PassOver(s) \/ WhenSkips(s) \/ AdmissionAbsorbed(s) \/ Admit(s)
  PROVE  VerdictInv'
<1> USE DEF VerdictInv, LoopInv
<1>1. /\ pc \in {"booted", "admit"} /\ pc' = "admit" /\ outbox = <<>> /\ ~requested /\ ~requested'
      /\ stop' = stop /\ stage' = stage /\ UNCHANGED <<snap, jAtt, lost>>
  BY DEF OpenLedger, PassOver, WhenSkips, AdmissionAbsorbed, Admit, Funded, Considers, Stopping,
         AdmissionFrame, disk, history
<1>2. /\ \A t \in Steps : stage[t] = "idle"
      /\ run \in SoundRun /\ stop = NoStop
      /\ run.status \notin {"PASS", "UNKNOWN"}
  BY <1>1, NoPass DEF TypeInv, RunsSound, ControlFresh, RunOver, Over, Sound
<1>3. CASE OpenLedger
  <2>1. /\ pc = "booted" /\ UNCHANGED <<outbox, cursor>>
        /\ run' = [run EXCEPT !.unaccounted = run'.unaccounted]
    BY <1>3 DEF OpenLedger
  <2>2. /\ run'.aborted = run.aborted /\ run'.status = run.status /\ run'.step = run.step
    BY <1>2, <2>1 DEF SoundRun, Run
  <2>3. AllSettled(run') <=> AllSettled(run)
    BY <2>2 DEF AllSettled
  <2>4. cursor' = 1
    BY <2>1 DEF ControlFresh
  <2>5. LoopCleared'
    BY <2>4 DEF LoopCleared, Steps
  <2>6. ControlFresh' /\ VerdictHeld' /\ StopAccounted' /\ EndExplained'
    BY <1>1, <1>2, <2>1, <2>2, <2>3 DEF ControlFresh, VerdictHeld, StopAccounted, Accounted,
       Complete, Unbegun, EndExplained, Live
  <2> QED BY <1>1, <1>2, <2>1, <2>2, <2>5, <2>6, FewWrites, LoopStep DEF Saves
<1>4. ASSUME NEW s \in Steps, PassOver(s) \/ WhenSkips(s) \/ AdmissionAbsorbed(s) \/ Admit(s)
      PROVE  VerdictInv'
  <2>1. /\ pc = "admit" /\ cursor = s /\ cursor' = cursor + 1 /\ ~run.aborted
        /\ admitted \subseteq admitted'
    BY <1>4 DEF PassOver, WhenSkips, AdmissionAbsorbed, Admit, Funded, Considers, Stopping
  <2>2. /\ run'.aborted = run.aborted /\ run'.status = run.status
        /\ run'.step[s].status \in Settled \/ s \in admitted'
        /\ run'.step[s] = run.step[s] \/ run'.step[s].status \in Settled
        /\ \A t \in Steps \ {s} : run'.step[t] = run.step[t]
        /\ \A e \in Saves(outbox') : e.run = run'
    <3>1. CASE PassOver(s) \/ Admit(s)
      BY <1>1, <3>1, FewWrites DEF PassOver, Admit, Settles, Settled, Saves
    <3>2. CASE WhenSkips(s) \/ AdmissionAbsorbed(s)
      <4>1. PICK st \in {"done", "skipped"} : UpdateStep(s, st)
        BY <3>2 DEF WhenSkips, AdmissionAbsorbed
      <4>2. st \in StepStatus /\ st \in Settled
        BY DEF StepStatus, Settled
      <4> QED BY <1>2, <4>1, <4>2, UpdateVerdict
    <3> QED BY <1>4, <3>1, <3>2
  <2>3. run.status \in Verdicts => AllSettled(run) /\ AllSettled(run')
    BY <1>2, <2>1, <2>2 DEF VerdictHeld, Live, Complete, AllSettled
  <2>4. LoopCleared'
    <3> SUFFICES ASSUME NEW t \in Steps, t < cursor'
                 PROVE  run'.step[t].status \in Settled \/ (t \in admitted' /\ stage'[t] # "ended")
      BY DEF LoopCleared
    <3>1. CASE t = s
      BY <1>1, <1>2, <2>2, <3>1
    <3>2. CASE t # s
      <4>1. t < cursor
        BY <2>1, <3>2 DEF Steps
      <4>2. run.step[t].status \in Settled \/ t \in admitted
        BY <1>1, <1>2, <2>1, <4>1 DEF LoopCleared, Stopping
      <4> QED BY <1>1, <1>2, <2>1, <2>2, <3>2, <4>2
    <3> QED BY <3>1, <3>2
  <2>5. ControlFresh' /\ VerdictHeld' /\ StopAccounted' /\ EndExplained'
    BY <1>1, <1>2, <2>2, <2>3 DEF ControlFresh, VerdictHeld, StopAccounted, Accounted,
       Complete, Unbegun, EndExplained
  <2> QED BY <1>1, <1>2, <2>1, <2>2, <2>4, <2>5, LoopStep
<1> QED BY <1>3, <1>4

\* The decisions that end it, and its end.
LEMMA Breaks ==
  ASSUME TypeInv, VerdictInv,
         \/ LeaveLoop
         \/ \E s \in Steps : \/ CostStopsAdmission(s) \/ WhenStops(s) \/ NeedsDecision(s)
                             \/ AdmissionFails(s)
  PROVE  VerdictInv'
<1> USE DEF VerdictInv, LoopInv
<1>1. /\ pc = "admit" /\ pc' = "ending" /\ outbox = <<>>
      /\ requested' = requested /\ stage' = stage /\ UNCHANGED <<snap, jAtt, lost>>
  BY DEF LeaveLoop, CostStopsAdmission, WhenStops, NeedsDecision, AdmissionFails, BreakLoop,
         Funded, Considers, AdmissionFrame, disk, history
<1>2. /\ \A t \in Steps : stage[t] = "idle"
      /\ run \in SoundRun /\ stop = NoStop
      /\ run.status \notin {"PASS", "UNKNOWN"}
  BY <1>1, NoPass DEF TypeInv, RunsSound, ControlFresh, RunOver, Over, Sound
<1> DEFINE Ends == /\ run'.status \notin {"PASS", "UNKNOWN"} /\ EndExplained'
                   /\ \A e \in Saves(outbox') : e.run = run'
<1>3. Ends
  <2>1. CASE LeaveLoop
    <3>1. UNCHANGED <<run, stop, outbox>> /\ (Stopping \/ LoopOver)
      BY <2>1 DEF LeaveLoop
    <3>2. CASE Stopping
      <4>1. run.aborted \/ Accounted
        BY <1>1, <3>2 DEF Stopping, StopAccounted, Live
      <4>2. Explained(run)
        BY <4>1 DEF Accounted, Complete, Explained
      <4> QED BY <1>1, <1>2, <3>1, <4>2, FewWrites DEF EndExplained, Saves
    <3>3. CASE ~Stopping
      <4>1. cursor > NSteps /\ admitted = {} /\ cursor \in Nat /\ NSteps \in Nat
        BY <3>1, <3>3, Assumptions DEF LoopOver, TypeInv, ControlTyped
      <4>2. \A t \in Steps : t < cursor
        BY <4>1 DEF Steps
      <4>3. AllSettled(run)
        BY <1>1, <1>2, <3>3, <4>1, <4>2 DEF LoopCleared, AllSettled
      <4> QED BY <1>1, <1>2, <3>1, <4>3, FewWrites DEF EndExplained, Explained, Saves
    <3> QED BY <3>2, <3>3
  <2>2. ASSUME NEW s \in Steps, CostStopsAdmission(s) PROVE Ends
    <3> DEFINE d == CostDecision(run, budget)
    <3>1. /\ UNCHANGED <<run, outbox>> /\ d # "none"
          /\ stop' = [NoStop EXCEPT !.exceeded = d = "exceeded", !.unaccounted = d = "unaccounted"]
      BY <2>2 DEF CostStopsAdmission, BreakLoop
    <3>2. d \in {"exceeded", "unaccounted", "none"}
      BY DEF CostDecision
    <3> HIDE DEF d
    <3>3. stop'.exceeded \/ stop'.unaccounted
      BY <3>1, <3>2 DEF NoStop
    <3>4. stop' # NoStop
      BY <3>3 DEF NoStop
    <3> QED BY <1>1, <1>2, <3>1, <3>4, FewWrites DEF EndExplained, Saves
  <2>3. ASSUME NEW s \in Steps, WhenStops(s) \/ NeedsDecision(s) PROVE Ends
    <3>1. /\ run' = Stopped(run) /\ outbox' = Saved(run')
          /\ stop' = [NoStop EXCEPT !.stopped = TRUE]
      BY <2>3 DEF WhenStops, NeedsDecision, BreakLoop
    <3>2. stop' # NoStop
      BY <3>1 DEF NoStop
    <3>3. run'.status = "STOPPED"
      BY <1>2, <3>1, StoppedVerdict
    <3> QED BY <3>1, <3>2, <3>3, SavedSaves DEF EndExplained
  <2>4. ASSUME NEW s \in Steps, AdmissionFails(s) PROVE Ends
    <3>1. UpdateStep(s, "failed") /\ stop' = [NoStop EXCEPT !.failed = TRUE]
      BY <2>4 DEF AdmissionFails, BreakLoop
    <3>2. stop' # NoStop
      BY <3>1 DEF NoStop
    <3>3. run'.status = "FAIL" /\ \A e \in Saves(outbox') : e.run = run'
      BY <1>2, <3>1, UpdateVerdict DEF StepStatus
    <3> QED BY <3>2, <3>3 DEF EndExplained
  <2> QED BY <2>1, <2>2, <2>3, <2>4
<1>4. ControlFresh' /\ LoopCleared' /\ VerdictHeld' /\ StopAccounted'
  BY <1>1, <1>2 DEF ControlFresh, LoopCleared, VerdictHeld, StopAccounted, Live
<1> QED BY <1>1, <1>3, <1>4, LoopStep

\* Launching a unit, and what follows when all of it answered.
LEMMA UnitVerdict ==
  ASSUME TypeInv, VerdictInv, Launch \/ NextUnit \/ UnitStops \/ TreeWritesStop
  PROVE  VerdictInv'
<1> USE DEF VerdictInv, LoopInv
<1>1. /\ pc \in {"admit", "pass"} /\ pc' \in {"admit", "pass", "ending"} /\ outbox = <<>>
      /\ UNCHANGED <<requested, cursor, snap, jAtt, lost>>
  BY DEF Launch, NextUnit, UnitStops, TreeWritesStop, UnitAnswered, Busy, LeaveUnit, disk, history
<1>2. /\ run \in SoundRun /\ run.status \notin {"PASS", "UNKNOWN"}
  BY <1>1 DEF TypeInv, RunsSound, RunOver, Over, Sound
<1>3. CASE Launch
  <2>1. /\ pc = "admit" /\ pc' = "pass" /\ ~Stopping /\ UNCHANGED <<run, admitted, stop, outbox>>
        /\ \A t \in Steps : stage'[t] = IF t \in admitted THEN "admitted" ELSE "idle"
    BY <1>3 DEF Launch
  <2>2. \A t \in Steps : stage[t] = "idle"
    BY <2>1, NoPass
  <2>3. ControlFresh' /\ LoopCleared' /\ VerdictHeld' /\ StopAccounted' /\ EndExplained'
    BY <1>1, <2>1, <2>2 DEF ControlFresh, LoopCleared, VerdictHeld, StopAccounted, EndExplained,
       Stopping, Accounted, Complete, Unbegun, Live, TypeInv, ControlTyped
  <2> QED BY <1>1, <1>2, <2>1, <2>3, FewWrites, LoopStep DEF Saves
<1>4. CASE NextUnit
  <2>1. /\ pc = "pass" /\ pc' = "admit" /\ ~Stopping /\ UNCHANGED <<run, stop, outbox>>
        /\ stop = NoStop /\ \A t \in Steps : stage[t] \in {"idle", "ended"} /\ stage'[t] = "idle"
    BY <1>4 DEF NextUnit, UnitAnswered, LeaveUnit, Idle
  <2>2. LoopCleared'
    BY <1>1, <2>1 DEF LoopCleared, ControlFresh, Stopping
  <2>3. ControlFresh' /\ VerdictHeld' /\ StopAccounted' /\ EndExplained'
    BY <1>1, <2>1 DEF ControlFresh, VerdictHeld, StopAccounted, EndExplained,
       Stopping, Accounted, Complete, Unbegun, Live
  <2> QED BY <1>1, <1>2, <2>1, <2>2, <2>3, FewWrites, LoopStep DEF Saves
<1>5. CASE UnitStops \/ TreeWritesStop
  <2>1. /\ pc = "pass" /\ pc' = "ending" /\ \A t \in Steps : stage'[t] = "idle"
    BY <1>5 DEF UnitStops, TreeWritesStop, UnitAnswered, LeaveUnit, Idle
  <2>2. /\ run'.status \notin {"PASS", "UNKNOWN"} /\ EndExplained'
        /\ \A e \in Saves(outbox') : e.run = run'
    <3>1. CASE UnitStops
      <4>1. /\ UNCHANGED <<run, outbox>>
            /\ IF Stopping THEN stop' = NoStop ELSE stop # NoStop /\ stop' = stop
        BY <3>1 DEF UnitStops
      <4>2. Stopping => run.aborted \/ Accounted
        BY <2>1 DEF Stopping, StopAccounted, Live
      <4>3. Stopping => Explained(run)
        BY <4>2 DEF Accounted, Complete, Explained
      <4> QED BY <1>1, <1>2, <4>1, <4>3, FewWrites DEF EndExplained, Saves
    <3>2. CASE TreeWritesStop
      <4>1. /\ run' = Stopped(run) /\ outbox' = Saved(run')
            /\ stop' = [stop EXCEPT !.stopped = TRUE]
        BY <3>2 DEF TreeWritesStop
      <4>2. stop' # NoStop
        <5>1. stop'.stopped
          BY <4>1 DEF TypeInv, ControlTyped, Signals
        <5> QED BY <5>1 DEF NoStop
      <4>3. run'.status = "STOPPED"
        BY <1>2, <4>1, StoppedVerdict
      <4> QED BY <4>1, <4>2, <4>3, SavedSaves DEF EndExplained
    <3> QED BY <1>5, <3>1, <3>2
  <2>3. ControlFresh' /\ LoopCleared' /\ VerdictHeld' /\ StopAccounted'
    BY <2>1 DEF ControlFresh, LoopCleared, VerdictHeld, StopAccounted, Live
  <2> QED BY <1>1, <2>1, <2>2, <2>3, LoopStep
<1> QED BY <1>3, <1>4, <1>5

----------------------------------------------------------------------------
(* The passes.                                                             *)

\* A pass that moves one step and saves the run as it is keeps the invariant if
\* the verdicts stay accounted for and no step is left behind.
LEMMA PassVerdict ==
  ASSUME TypeInv, VerdictInv, UnitInv, pc = "pass", outbox = <<>>, PassFrame, UNCHANGED lost,
         NEW s \in Steps, stage[s] # "idle",
         NEW to \in {"started", "opened", "spawned", "settled", "ended"},
         stage' = [stage EXCEPT ![s] = to],
         run'.aborted = run.aborted,
         \A t \in Steps \ {s} : run'.step[t].status = run.step[t].status,
         stop' = NoStop => stop = NoStop,
         \/ to # "ended" \/ Stopping \/ stop' # NoStop \/ run'.step[s].status \in Settled,
         run'.status \notin {"PASS", "UNKNOWN"},
         \A e \in Saves(outbox') : e.run.status \notin {"PASS", "UNKNOWN"},
         VerdictHeld', StopAccounted'
  PROVE  VerdictInv'
<1> USE DEF VerdictInv, LoopInv
<1>1. /\ UNCHANGED <<pc, cursor, admitted, requested, snap, jAtt>>
      /\ stage'[s] = to /\ \A t \in Steps \ {s} : stage'[t] = stage[t]
  BY DEF PassFrame, disk, TypeInv, PassTyped
<1>2. ControlFresh'
  BY <1>1 DEF ControlFresh, TypeInv, ControlTyped
<1>3. LoopCleared'
  <2> SUFFICES ASSUME ~Stopping', stop' = NoStop, NEW t \in Steps, t < cursor
               PROVE  run'.step[t].status \in Settled \/ (t \in admitted /\ stage'[t] # "ended")
    BY <1>1 DEF LoopCleared
  <2>1. ~Stopping /\ stop = NoStop
    BY <1>1 DEF Stopping
  <2>2. CASE t = s
    BY <1>1, <2>1, <2>2 DEF UnitInv
  <2>3. CASE t # s
    BY <1>1, <2>1, <2>3 DEF LoopCleared
  <2> QED BY <2>2, <2>3
<1>4. EndExplained'
  BY <1>1 DEF EndExplained
<1> QED BY <1>1, <1>2, <1>3, <1>4, LoopStep

\* A pass under way that leaves the verdict of the run as it is.
LEMMA WorkVerdict ==
  ASSUME TypeInv, VerdictInv, UnitInv, pc = "pass", outbox = <<>>, PassFrame,
         UNCHANGED <<lost, stop>>, NEW s \in Steps, stage[s] \in Work,
         NEW to \in {"started", "opened", "spawned", "settled", "ended"},
         stage' = [stage EXCEPT ![s] = to],
         run'.aborted = run.aborted, run'.stopped = run.stopped, run'.status = run.status,
         \A t \in Steps \ {s} : run'.step[t].status = run.step[t].status,
         to # "ended" \/ Stopping \/ run'.step[s].status \in Settled,
         \A e \in Saves(outbox') : e.run = run'
  PROVE  VerdictInv'
<1> USE DEF VerdictInv, LoopInv
<1>1. /\ UNCHANGED <<pc, cursor, admitted, requested, snap, jAtt>>
      /\ stage'[s] = to /\ \A t \in Steps \ {s} : stage'[t] = stage[t]
  BY DEF PassFrame, disk, TypeInv, PassTyped
<1>2. ~Complete /\ stage[s] \notin {"idle", "ended"}
  BY DEF Complete, Unbegun, Work
<1>3. run.status \notin {"PASS", "UNKNOWN"}
  BY DEF RunOver, Over, Sound
<1>4. VerdictHeld'
  BY <1>1, <1>2 DEF VerdictHeld, Live
<1>5. StopAccounted'
  <2> SUFFICES ASSUME requested \/ run.status \in Verdicts PROVE Accounted'
    BY <1>1 DEF StopAccounted
  <2>1. CASE run.aborted \/ run.stopped
    BY <2>1 DEF Accounted
  <2>2. CASE ~(run.aborted \/ run.stopped)
    <3>1. PICK t \in Steps : run.step[t].status = "failed" /\ stage[t] = "ended"
      BY <1>2, <2>2 DEF StopAccounted, Accounted, Live
    <3> QED BY <1>1, <1>2, <3>1 DEF Accounted
  <2> QED BY <2>1, <2>2
<1> QED BY <1>1, <1>2, <1>3, <1>4, <1>5, PassVerdict

\* A pass that ends in a failure.
LEMMA FailVerdict ==
  ASSUME TypeInv, VerdictInv, UnitInv, pc = "pass", outbox = <<>>, PassFrame, UNCHANGED lost,
         NEW s \in Steps, stage[s] \in Work, stage' = [stage EXCEPT ![s] = "ended"],
         run'.aborted = run.aborted, run'.status \in {"FAIL", "STOPPED"},
         run'.step[s].status = "failed",
         \A t \in Steps \ {s} : run'.step[t].status = run.step[t].status,
         stop' # NoStop,
         \A e \in Saves(outbox') : e.run.status \notin {"PASS", "UNKNOWN"}
  PROVE  VerdictInv'
<1>1. stage'[s] = "ended" /\ pc' = pc
  BY DEF PassFrame, TypeInv, PassTyped
<1>2. VerdictHeld' /\ StopAccounted'
  BY <1>1 DEF VerdictHeld, StopAccounted, Accounted
<1> QED BY <1>2, PassVerdict DEF Work

\* The snapshots of a concatenation.
LEMMA SavesConcat ==
  ASSUME NEW p \in Seq(SoundWrite), NEW q \in Seq(SoundWrite)
  PROVE  Saves(p \o q) = Saves(p) \cup Saves(q)
BY ConcatWrites DEF Saves

\* A start, a finish and a stop of a guard save nothing.
LEMMA NoSaves ==
  /\ Saves(<<>>) = {}
  /\ \A e : e.kind # "save" => Saves(<<e>>) = {}
BY FewWrites DEF Saves

\* Starting a pass: the run is live.
LEMMA StartVerdict ==
  ASSUME TypeInv, VerdictInv, UnitInv, NEW s \in Steps, StartPass(s)
  PROVE  VerdictInv'
<1>1. /\ pc = "pass" /\ outbox = <<>> /\ stage[s] = "admitted" /\ UpdateStep(s, "running")
      /\ stage' = [stage EXCEPT ![s] = "started"] /\ PassFrame /\ UNCHANGED <<stop, lost>>
  BY DEF StartPass, history
<1>2. /\ run'.aborted = run.aborted /\ run'.status = "RUNNING"
      /\ \A t \in Steps \ {s} : run'.step[t] = run.step[t]
      /\ \A e \in Saves(outbox') : e.run = run'
  BY <1>1, UpdateVerdict DEF StepStatus, TypeInv, RunsSound
<1>3. ~requested'
  BY <1>1 DEF VerdictInv, LoopInv, ControlFresh, PassFrame
<1>4. VerdictHeld' /\ StopAccounted'
  BY <1>2, <1>3 DEF VerdictHeld, StopAccounted, Verdicts
<1> QED BY <1>1, <1>2, <1>4, PassVerdict

\* The steps of a pass that settle nothing, and its good ends.
LEMMA OpenVerdict ==
  ASSUME TypeInv, TypeInv', VerdictInv, UnitInv, NEW s \in Steps,
         OpenAttempt(s) \/ Spawn(s) \/ Abandon(s) \/ Rerun(s) \/ Succeed(s) \/ Absorb(s)
  PROVE  VerdictInv'
<1>1. /\ pc = "pass" /\ outbox = <<>> /\ PassFrame /\ UNCHANGED <<lost, stop>>
      /\ stage[s] \in Work
  BY DEF OpenAttempt, Spawn, Abandon, Rerun, Succeed, Absorb, MayRetry, Exhausted, Blocked,
         Refused, Resolves, Busy, EndPass, Work, history
<1>2. run \in SoundRun /\ run' \in SoundRun
  BY <1>1, PassStart DEF TypeInv, RunsSound, PassFrame
<1>3. CASE OpenAttempt(s)
  <2> DEFINE n == NextNumber(s)
             one == <<StartEvent(s, n)>>
  <2>1. /\ run' = [run EXCEPT !.step[s].last = n] /\ outbox' = one \o Saved(run')
        /\ stage' = [stage EXCEPT ![s] = "opened"] /\ n \in Nums
    BY <1>3 DEF OpenAttempt
  <2> HIDE DEF n
  <2>2. /\ run'.aborted = run.aborted /\ run'.stopped = run.stopped /\ run'.status = run.status
        /\ \A t \in Steps \ {s} : run'.step[t] = run.step[t]
    BY <1>2, <2>1 DEF SoundRun, Run
  <2>3. one \in Seq(SoundWrite) /\ Saves(one) = {}
    BY <2>1, StartWrite, NoSaves DEF SoundWrite, StartEvent
  <2> HIDE DEF one
  <2>4. \A e \in Saves(outbox') : e.run = run'
    BY <1>2, <2>1, <2>3, SavesConcat, SavedWrites, SavedSaves
  <2> QED BY <1>1, <2>1, <2>2, <2>4, WorkVerdict
<1>4. CASE Spawn(s) \/ Abandon(s)
  <2>1. /\ UNCHANGED <<run, outbox>>
        /\ \E to \in {"spawned", "ended"} :
             stage' = [stage EXCEPT ![s] = to] /\ (to = "ended" => Stopping)
    BY <1>4 DEF Spawn, Abandon, EndPass, Stopping
  <2> QED BY <1>1, <2>1, NoSaves, WorkVerdict
<1>5. CASE Rerun(s)
  <2>1. /\ run' = [run EXCEPT !.step[s].retries = @ + 1] /\ outbox' = Saved(run')
        /\ stage' = [stage EXCEPT ![s] = "started"]
    BY <1>5 DEF Rerun
  <2>2. /\ run'.aborted = run.aborted /\ run'.stopped = run.stopped /\ run'.status = run.status
        /\ \A t \in Steps \ {s} : run'.step[t] = run.step[t]
    BY <1>2, <2>1 DEF SoundRun, Run
  <2> QED BY <1>1, <2>1, <2>2, SavedSaves, WorkVerdict
<1>6. CASE Succeed(s) \/ Absorb(s)
  <2>1. UpdateStep(s, "done") /\ stage' = [stage EXCEPT ![s] = "ended"]
    BY <1>6 DEF Succeed, Absorb, EndPass
  <2>2. /\ run'.aborted = run.aborted /\ run'.stopped = run.stopped /\ run'.status = run.status
        /\ run'.step[s].status = "done"
        /\ \A t \in Steps \ {s} : run'.step[t] = run.step[t]
        /\ \A e \in Saves(outbox') : e.run = run'
    BY <1>2, <2>1, UpdateVerdict DEF StepStatus
  <2> QED BY <1>1, <2>1, <2>2, WorkVerdict DEF Settled
<1> QED BY <1>3, <1>4, <1>5, <1>6

\* The answer of an attempt, which changes no status.
LEMMA AnswerVerdict ==
  ASSUME TypeInv, TypeInv', VerdictInv, UnitInv, NEW s \in Steps, SettleAttempt(s)
  PROVE  VerdictInv'
<1> DEFINE to == IF Stopping THEN "ended" ELSE "settled"
<1>1. /\ pc = "pass" /\ outbox = <<>> /\ stage[s] \in Work /\ to \in {"settled", "ended"}
      /\ stage' = [stage EXCEPT ![s] = to] /\ UNCHANGED <<lost, stop>> /\ PassFrame
      /\ to = "ended" => Stopping
  BY DEF SettleAttempt, Busy, Work, history
<1>2. run \in SoundRun /\ run' \in SoundRun
  BY <1>1, PassStart DEF TypeInv, RunsSound, PassFrame
<1> HIDE DEF to
<1>3. CASE ~StillOpen(s)
  <2>1. UNCHANGED <<run, outbox>>
    BY <1>3 DEF SettleAttempt
  <2> QED BY <1>1, <2>1, NoSaves, WorkVerdict
<1>4. CASE StillOpen(s)
  <2> DEFINE a(res) == [status |-> IF res.ok THEN "done" ELSE "failed", fig |-> res.fig,
                        interrupted |-> FALSE]
             r(res) == [run EXCEPT !.step[s].spend = Merge(@, res.fig),
                          !.exceeded = @ \/ res.cut = "budget",
                          !.unaccounted = @ \/ ProvesUnpriced(res.fig) \/ res.cut = "unpriced"]
  <2>1. PICK res \in Results(s) :
          /\ run' = r(res) /\ Last(s) \in Nums /\ a(res) \in Attempt
          /\ res.cut \in {"none", "budget", "unpriced"}
          /\ outbox' = <<FinishEvent(s, Last(s), a(res))>> \o GuardWrites(res) \o Saved(r(res))
    <3>1. Last(s) \in Nums
      BY <1>4, SettleFacts
    <3>2. PICK res \in Results(s) :
            /\ run' = r(res) /\ Charged(budget, res).cum <= MaxSpend
            /\ outbox' = <<FinishEvent(s, Last(s), a(res))>> \o GuardWrites(res) \o Saved(r(res))
      BY <1>4 DEF SettleAttempt
    <3>3. res.fig \in Figure /\ res \in Answer
      BY <1>1, <3>2, PassStart, ChargedTyped
    <3>4. a(res) \in Attempt /\ res.cut \in {"none", "budget", "unpriced"}
      BY <3>3 DEF Attempt, Answer
    <3> QED BY <3>1, <3>2, <3>4
  <2>2. /\ run'.aborted = run.aborted /\ run'.stopped = run.stopped /\ run'.status = run.status
        /\ \A t \in Steps \ {s} : run'.step[t] = run.step[t]
    BY <1>2, <2>1 DEF SoundRun, Run
  <2> DEFINE one == <<FinishEvent(s, Last(s), a(res))>>
             g == GuardWrites(res)
  <2>3. one \in Seq(SoundWrite) /\ Saves(one) = {}
    <3>1. FinishEvent(s, Last(s), a(res)) \in SoundWrite
      BY <2>1, FinishWrite DEF SoundWrite
    <3>2. FinishEvent(s, Last(s), a(res)).kind # "save"
      BY DEF FinishEvent
    <3> HIDE DEF a
    <3> QED BY <3>1, <3>2, NoSaves
  <2>4. g \in Seq(SoundWrite) /\ Saves(g) = {}
    <3>1. g \in Seq(SoundWrite)
      BY <2>1, GuardPlain, PlainEvents
    <3>2. GuardEvent(res.cut).kind # "save"
      BY DEF GuardEvent
    <3> QED BY <3>1, <3>2, NoSaves DEF GuardWrites
  <2> HIDE DEF a, r, one, g
  <2>5. outbox' = (one \o g) \o Saved(run')
    BY <2>1 DEF one, g
  <2>6. one \o g \in Seq(SoundWrite) /\ Saves(one \o g) = {}
    BY <2>3, <2>4, ConcatProperties, SavesConcat
  <2>7. \A e \in Saves(outbox') : e.run = run'
    BY <1>2, <2>5, <2>6, SavesConcat, SavedWrites, SavedSaves
  <2> QED BY <1>1, <2>2, <2>7, WorkVerdict
<1> QED BY <1>3, <1>4

\* Its bad ends.
LEMMA FailsVerdict ==
  ASSUME TypeInv, VerdictInv, UnitInv, NEW s \in Steps,
         Fail(s) \/ CostStopsRetry(s) \/ CutShort(s) \/ StopBlocked(s)
  PROVE  VerdictInv'
<1>1. /\ pc = "pass" /\ outbox = <<>> /\ PassFrame /\ UNCHANGED lost
      /\ stage[s] \in Work /\ stage' = [stage EXCEPT ![s] = "ended"]
  BY DEF Fail, CostStopsRetry, CutShort, StopBlocked, MayRetry, Exhausted, Blocked,
         Refused, Resolves, Busy, EndPass, Work, history
<1>2. run \in SoundRun /\ stop \in Signals /\ run.status \notin {"PASS", "UNKNOWN"}
  BY <1>1, PassStart DEF TypeInv, ControlTyped, VerdictInv, RunOver, Over, Sound
<1>3. stop' # NoStop
  <2>1. stop' = [stop EXCEPT !.failed = TRUE] \/ stop' = [stop EXCEPT !.stopped = TRUE]
    BY DEF Fail, CostStopsRetry, CutShort, StopBlocked
  <2>2. stop'.failed \/ stop'.stopped
    BY <1>2, <2>1 DEF Signals
  <2> QED BY <2>2 DEF NoStop
<1>4. CASE Fail(s) \/ CostStopsRetry(s)
  <2>1. UpdateStep(s, "failed")
    BY <1>4 DEF Fail, CostStopsRetry
  <2>2. /\ run'.aborted = run.aborted /\ run'.status = "FAIL" /\ run'.step[s].status = "failed"
        /\ \A t \in Steps \ {s} : run'.step[t] = run.step[t]
        /\ \A e \in Saves(outbox') : e.run = run'
    BY <1>2, <2>1, UpdateVerdict DEF StepStatus
  <2> QED BY <1>1, <1>3, <2>2, FailVerdict
<1>5. CASE CutShort(s)
  <2> DEFINE refunded == [run EXCEPT !.step[s].retries = @ - 1]
             r == IF s \in reruns THEN refunded ELSE run
             p == IF s \in reruns THEN Saved(r) ELSE <<>>
             w == StatusWrites(r, s, "failed")
  <2>1. run' = WithStatus(r, s, "failed") /\ outbox' = p \o w
    BY <1>5 DEF CutShort
  <2>2. /\ r \in SoundRun /\ r.aborted = run.aborted /\ r.status = run.status
        /\ \A t \in Steps : r.step[t].status = run.step[t].status
    <3>1. s \in reruns => refunded \in SoundRun
      BY <1>1, <1>2, PassStart, RefundSound
    <3>2. /\ refunded.aborted = run.aborted /\ refunded.status = run.status
          /\ \A t \in Steps : refunded.step[t].status = run.step[t].status
      BY <1>2 DEF SoundRun, Run, Step
    <3> HIDE DEF refunded
    <3> QED BY <1>2, <3>1, <3>2
  <2> HIDE DEF r
  <2>3. /\ run'.aborted = run.aborted /\ run'.status = "FAIL" /\ run'.step[s].status = "failed"
        /\ \A t \in Steps \ {s} : run'.step[t].status = run.step[t].status
    BY <2>1, <2>2, StatusEffect, StatusVerdict DEF StepStatus
  <2>4. p \in Seq(SoundWrite) /\ \A e \in Saves(p) : e.run = r
    BY <2>2, SavedWrites, SavedSaves, NoSaves, EmptySeq
  <2>5. w \in Seq(SoundWrite) /\ \A e \in Saves(w) : e.run = run'
    <3>1. w \in Seq(SoundWrite) /\ Writes(w) \subseteq {StatusEvent(s, "failed"), SaveEntry(run')}
      BY <2>1, <2>2, StatusWritesTyped, StatusHolds DEF StepStatus
    <3> HIDE DEF w
    <3> QED BY <3>1 DEF Saves, StatusEvent, SaveEntry
  <2> HIDE DEF p, w
  <2>6. \A e \in Saves(outbox') : e.run.status \notin {"PASS", "UNKNOWN"}
    BY <1>2, <2>1, <2>2, <2>3, <2>4, <2>5, SavesConcat
  <2> QED BY <1>1, <1>3, <2>3, <2>6, FailVerdict
<1>6. CASE StopBlocked(s)
  <2> DEFINE failed == WithStatus(run, s, "failed")
             w == StatusWrites(run, s, "failed")
  <2>1. run' = Stopped(failed) /\ outbox' = w \o Saved(run')
    BY <1>6 DEF StopBlocked
  <2>2. /\ failed \in SoundRun /\ failed.aborted = run.aborted /\ failed.status = "FAIL"
        /\ failed.step[s].status = "failed"
        /\ \A t \in Steps \ {s} : failed.step[t] = run.step[t]
    BY <1>2, SoundStatus, StatusEffect, StatusVerdict DEF StepStatus
  <2>3. w \in Seq(SoundWrite) /\ \A e \in Saves(w) : e.run = failed
    <3>1. w \in Seq(SoundWrite) /\ Writes(w) \subseteq {StatusEvent(s, "failed"), SaveEntry(failed)}
      BY <1>2, StatusWritesTyped, StatusHolds DEF StepStatus
    <3> HIDE DEF w, failed
    <3> QED BY <3>1 DEF Saves, StatusEvent, SaveEntry
  <2> HIDE DEF failed, w
  <2>4. /\ run' \in SoundRun /\ run'.aborted = run.aborted /\ run'.status = "STOPPED"
        /\ run'.step = failed.step
    BY <2>1, <2>2, SoundStopped, StoppedVerdict
  <2>5. \A e \in Saves(outbox') : e.run.status \notin {"PASS", "UNKNOWN"}
    BY <2>1, <2>2, <2>3, <2>4, SavesConcat, SavedWrites, SavedSaves
  <2> QED BY <1>1, <1>3, <2>2, <2>4, <2>5, FailVerdict
<1> QED BY <1>4, <1>5, <1>6

----------------------------------------------------------------------------
(* The end of the run, and the signal.                                     *)

\* deriveRunStatus names every end the loop comes to, and calls a run passed
\* only when it is complete.
LEMMA DerivedVerdict ==
  ASSUME NEW r, NEW sig, sig.failed \/ sig.stopped \/ sig.exceeded \/ sig.unaccounted \/ Explained(r)
  PROVE  /\ DerivedStatus(r, sig) \in Verdicts
         /\ DerivedStatus(r, sig) = "PASS" => AllSettled(r)
<1> DEFINE failed  == sig.failed \/ \E s \in Steps : r.step[s].status = "failed"
           stopped == sig.stopped \/ r.stopped
           halt    == IF stopped THEN "STOPPED" ELSE "FAIL"
           aborted == r.aborted \/ \E s \in Steps : r.step[s].status = "aborted"
           all     == AllSettled(r)
           v == IF aborted THEN "ABORTED"
                ELSE IF sig.exceeded \/ failed THEN halt
                ELSE IF stopped THEN "STOPPED"
                ELSE IF sig.unaccounted THEN "FAIL"
                ELSE IF all THEN "PASS" ELSE "UNKNOWN"
<1>1. DerivedStatus(r, sig) = v
  BY DEF DerivedStatus
<1>2. aborted \/ sig.exceeded \/ failed \/ stopped \/ sig.unaccounted \/ all
  BY DEF Explained
<1>3. halt \in {"STOPPED", "FAIL"}
  OBVIOUS
<1> HIDE DEF failed, stopped, halt, aborted, all
<1>4. v \in {"ABORTED", "STOPPED", "FAIL", "PASS"} /\ (v = "PASS" => all)
  BY <1>2, <1>3
<1> HIDE DEF v
<1> QED BY <1>1, <1>4 DEF Verdicts, all

\* The end of the run keeps the invariant.
LEMMA FinalizeVerdict ==
  ASSUME TypeInv, VerdictInv, Finalize
  PROVE  VerdictInv'
<1> DEFINE signals == [stop EXCEPT
             !.exceeded = @ \/ (budget.exceeded /\ ~AllSettled(run)),
             !.unaccounted = @ \/ (CostDecision(run, budget) = "unaccounted" /\ ~AllSettled(run))]
           v == DerivedStatus(run, signals)
<1>1. /\ pc = "ending" /\ pc' = "done" /\ outbox = <<>> /\ run' = [run EXCEPT !.status = v]
      /\ outbox' = Saved(run') /\ UNCHANGED <<snap, jAtt, lost, stage, requested>>
  BY DEF Finalize, Busy, disk, history
<1>2. /\ run \in SoundRun /\ stop \in Signals /\ \A t \in Steps : stage[t] = "idle"
  BY <1>1, NoPass DEF TypeInv, RunsSound, ControlTyped
<1>3. v \in Verdicts /\ (v = "PASS" => AllSettled(run))
  <2>1. stop # NoStop \/ Explained(run)
    BY <1>1 DEF VerdictInv, LoopInv, EndExplained
  <2>2. stop # NoStop => stop.failed \/ stop.stopped \/ stop.exceeded \/ stop.unaccounted
    BY <1>2 DEF Signals, NoStop
  <2>3. /\ signals.failed = stop.failed /\ signals.stopped = stop.stopped
        /\ stop.exceeded => signals.exceeded
        /\ stop.unaccounted => signals.unaccounted
    BY <1>2 DEF Signals
  <2> HIDE DEF signals
  <2> QED BY <2>1, <2>2, <2>3, DerivedVerdict
<1> HIDE DEF v
<1>4. run'.status = v /\ run'.step = run.step
  BY <1>1, <1>2 DEF SoundRun, Run
<1>5. Over(run)'
  BY <1>1, <1>3, <1>4 DEF Over, Sound, Verdicts, AllSettled
<1>6. /\ Writes(outbox') = Saves(outbox')
      /\ \A e \in Saves(outbox') : Over(e.run)'
  <2>1. Writes(outbox') \subseteq {SaveEntry(run')}
    BY <1>1, SavedHolds
  <2>2. \A e \in Writes(outbox') : e.kind = "save" /\ e.run = run'
    BY <2>1 DEF SaveEntry
  <2> QED BY <1>1, <1>5, <2>2 DEF Saves, Over, Sound
<1>7. RunOver'
  BY <1>1, <1>3, <1>4, <1>5, <1>6 DEF RunOver
<1>8. LoopInv'
  BY <1>1, <1>2 DEF LoopInv, ControlFresh, LoopCleared, VerdictHeld, StopAccounted, EndExplained, Live
<1>9. DiskOver'
  BY <1>1, NoSaves DEF VerdictInv, DiskOver, Passed
<1> QED BY <1>7, <1>8, <1>9 DEF VerdictInv

\* A signal finds a verdict, or gives one.
LEMMA SignalVerdict ==
  ASSUME TypeInv, VerdictInv, Signal
  PROVE  VerdictInv'
<1> USE DEF VerdictInv, LoopInv
<1>1. /\ pc \in {"booted", "admit", "pass", "done"} /\ outbox = <<>> /\ requested'
      /\ UNCHANGED <<pc, stage, cursor, admitted, stop, snap, jAtt, lost>>
      /\ \A t \in Steps : stage[t] # "admitted"
      /\ run \in SoundRun /\ executing \subseteq Steps
  BY DEF Signal, Busy, disk, history, TypeInv, RunsSound, ControlTyped
<1>2. ControlFresh' /\ LoopCleared'
  BY <1>1 DEF ControlFresh, LoopCleared, Stopping
<1>3. CASE run.status \in Verdicts
  <2>1. UNCHANGED <<run, outbox>>
    BY <1>3 DEF Signal
  <2>2. VerdictHeld' /\ StopAccounted' /\ EndExplained'
    BY <1>1, <1>3, <2>1 DEF VerdictHeld, StopAccounted, EndExplained, Accounted, Complete, Unbegun
  <2>3. RunOver' /\ DiskOver'
    BY <1>1, <2>1 DEF RunOver, Over, DiskOver, Passed, Saves, Writes
  <2> QED BY <1>2, <2>2, <2>3
<1>4. CASE run.status \notin Verdicts
  <2>0. pc # "done"
    BY <1>4 DEF RunOver
  <2>1. PICK est \in [Steps -> {0} \cup Prices] :
          WithinSpend(Aborted(est)) /\ run' = Aborted(est) /\ outbox' = AbortWrites(est)
    BY <1>4 DEF Signal
  <2>2. run'.aborted /\ run'.status = "ABORTED"
    <3> DEFINE closes == {s \in Aborting : InFlight(s)}
               step == [s \in Steps |->
                 IF s \notin Aborting THEN run.step[s]
                 ELSE [run.step[s] EXCEPT !.status = "aborted",
                        !.spend = IF s \in closes THEN Merge(@, LiveFigure(s, est[s])) ELSE @]]
    <3>1. run' = [run EXCEPT !.aborted = TRUE, !.status = "ABORTED", !.step = step]
      BY <2>1 DEF Aborted
    <3> HIDE DEF step
    <3> QED BY <1>1, <3>1 DEF SoundRun, Run
  <2>3. \A e \in Saves(outbox') : e.run = run'
    <3> DEFINE Told == {StatusEvent(t, "aborted") : t \in Aborting}
               Ends == {FinishEvent(t, Last(t), AbortedAttempt(t, est[t])) : t \in Aborting}
               W == Told \cup Ends \cup {SaveEntry(run')}
    <3>1. outbox' \in Seq(W)
      BY <1>1, <2>1, AbortWritesOver
    <3>2. \A e \in W : e.kind = "save" => e.run = run'
      BY DEF StatusEvent, FinishEvent, SaveEntry
    <3> HIDE DEF W
    <3> QED BY <3>1, <3>2, EmptySeq, ConcatWrites DEF Saves
  <2>4. VerdictHeld' /\ StopAccounted' /\ EndExplained'
    BY <1>1, <2>2 DEF VerdictHeld, StopAccounted, EndExplained, Accounted
  <2> QED BY <1>1, <1>2, <2>0, <2>2, <2>3, <2>4, LoopStep
<1> QED BY <1>3, <1>4

----------------------------------------------------------------------------
(* The disk, and the steps that start and end a process.                   *)

\* A write that reaches the disk, or is lost, keeps the invariant: a PASS gets
\* there after the last attempt was closed.
LEMMA WriteVerdict ==
  ASSUME TypeInv, EmptyInv, MirrorInv, VerdictInv, Flush \/ LoseEvent
  PROVE  VerdictInv'
<1> USE DEF VerdictInv, LoopInv
<1> DEFINE e == Head(outbox)
<1>1. /\ outbox # <<>> /\ pc # "off" /\ outbox' = Tail(outbox)
      /\ e \in SoundWrite /\ outbox \in Seq(SoundWrite)
      /\ UNCHANGED <<pc, run, stage, cursor, admitted, stop, requested>>
      /\ LoseEvent => e.kind # "save" /\ lost' # 0 /\ UNCHANGED <<jAtt, snap>>
      /\ Flush => /\ UNCHANGED lost /\ snap' = IF e.kind = "save" THEN e.run ELSE snap
                  /\ ~IsAttempt(e) => UNCHANGED jAtt
                  /\ IsAttempt(e) =>
                        \A s \in Steps, n \in Nums :
                          jAtt'[s][n] = IF s = e.step /\ n = e.n
                                        THEN IF e.kind = "start" THEN OpenRecord ELSE e.attempt
                                        ELSE jAtt[s][n]
  BY WriteFacts DEF memory
<1>2. Writes(outbox) = {e} \cup Writes(outbox') /\ e \in Writes(outbox)
  BY <1>1, TailWrites
<1>3. IsAttempt(e) => e \in AttemptEvents(outbox)
  <2>1. e = outbox[1] /\ 1 \in 1..Len(outbox)
    BY <1>1, HeadTailProperties, EmptySeq, LenProperties
  <2> HIDE DEF e
  <2> QED BY <2>1 DEF AttemptEvents, AttemptsAt
<1> HIDE DEF e
<1>4. ControlFresh' /\ LoopCleared' /\ VerdictHeld' /\ StopAccounted' /\ EndExplained'
  BY <1>1 DEF ControlFresh, LoopCleared, VerdictHeld, StopAccounted, EndExplained, Stopping,
     Accounted, Complete, Unbegun
<1>5. RunOver'
  BY <1>1, <1>2 DEF RunOver, Over, Saves
<1>6. CASE Flush /\ e.kind = "save"
  <2>1. Over(e.run) /\ snap' = e.run /\ UNCHANGED <<jAtt, lost>>
    BY <1>1, <1>2, <1>6 DEF RunOver, Saves, IsAttempt
  <2>2. ASSUME Passed', lost' = 0, NEW s \in Steps, NEW n \in Nums PROVE jAtt[s][n].status # "running"
    <3>1. pc = "done" /\ Writes(outbox) = Saves(outbox)
      BY <2>1, <2>2 DEF Passed, Over, RunOver
    <3>2. AttemptEvents(outbox) = {}
      BY <3>1 DEF AttemptEvents, AttemptsAt, Writes, Saves, IsAttempt
    <3>3. att[s][n].status # "running"
      BY <2>1, <2>2, <3>1, NoPass DEF MirrorInv, Mirror, InAttempt
    <3> QED BY <2>1, <2>2, <3>1, <3>2, <3>3 DEF MirrorInv, Mirror, Announced
  <2>3. DiskOver'
    BY <1>1, <2>1, <2>2 DEF DiskOver, Passed, Over
  <2> QED BY <1>4, <1>5, <2>3
<1>7. CASE ~(Flush /\ e.kind = "save")
  <2>1. snap' = snap /\ Saves(outbox') = Saves(outbox)
    BY <1>1, <1>2, <1>7 DEF Saves
  <2>2. ASSUME Passed', lost' = 0, NEW s \in Steps, NEW n \in Nums PROVE jAtt'[s][n].status # "running"
    <3>1. Flush /\ lost = 0 /\ Passed /\ jAtt[s][n].status # "running"
      BY <1>1, <2>1, <2>2 DEF Passed, DiskOver
    <3>2. CASE ~IsAttempt(e)
      BY <1>1, <3>1, <3>2
    <3>3. CASE IsAttempt(e)
      <4>1. pc = "booted"
        BY <1>1, <1>2, <1>7, <3>1 DEF DiskOver, RunOver, Saves
      <4>2. EventTrue(e)
        BY <1>3, <3>1, <3>3 DEF MirrorInv, Mirror
      <4>3. e.step \in Steps
        BY <1>1, <3>3 DEF SoundWrite, WriteOf, IsAttempt
      <4>4. e.kind = "finish" /\ e.attempt.status \in Closed
        BY <3>3, <4>1, <4>2, <4>3, NoPass DEF EventTrue, IsAttempt
      <4> QED BY <1>1, <3>1, <3>3, <4>4 DEF Closed
    <3> QED BY <3>2, <3>3
  <2>3. DiskOver'
    BY <1>1, <2>1, <2>2 DEF DiskOver, Passed
  <2> QED BY <1>4, <1>5, <2>3
<1> QED BY <1>6, <1>7

\* A run that a resume restores is live again, or keeps the verdict of a run
\* that is complete and was owed none.
LEMMA RestoredVerdict ==
  ASSUME NEW saved \in SoundRun, NEW statuses \in [Steps -> Statuses], NEW attempts, NEW i
  PROVE  LET r == Restored(saved, statuses, attempts, i) IN
         \/ r.status = "RUNNING" /\ ~r.aborted
         \/ r.status = saved.status /\ AllSettled(r) /\ saved.status # "RUNNING"
<1> DEFINE r == Restored(saved, statuses, attempts, i)
           y(s) == Reconciled(saved.step[s], statuses[s])
           f(s) == ProjectedSpend(saved.step[s].spend, attempts[s])
           projected == [s \in Steps |-> [y(s) EXCEPT !.spend = f(s)]]
           selected == [s \in Steps |-> Selected(projected[s], i, s)]
           tookWork == \E s \in Steps : Excludes(i, s) /\ projected[s].status \in OwesWork
           hydrated == [saved EXCEPT !.step = selected]
           terminal == AllSettled(hydrated) /\ ~tookWork /\ ~VerdictOwed(hydrated)
           live == Reopened(hydrated, terminal, i)
           last == [s \in Steps |->
                     IF HasOpen(attempts[s])
                     THEN [live.step[s] EXCEPT !.spend = Merge(@, CrashFigure(s))]
                     ELSE live.step[s]]
<1>1. r = [live EXCEPT !.step = last]
  BY DEF Restored
<1>2. \A s \in Steps : selected[s] \in [status: StepStatus, last: 0..MaxAttempts, retries: Int,
                                        spend: {f(s)}, replay: BOOLEAN]
  <2> TAKE s \in Steps
  <2>1. saved.step[s] \in Step
    BY DEF SoundRun, Run
  <2>2. y(s) \in Step
    BY <2>1, ReconciledTypes
  <2>3. selected[s] = [Selected(y(s), i, s) EXCEPT !.spend = f(s)]
    <3> HIDE DEF y, f
    <3> QED BY <2>2, SelectedSpend
  <2>4. Selected(y(s), i, s) \in Step
    BY <2>2, SelectedTypes
  <2> QED BY <2>3, <2>4 DEF Step
<1>3. hydrated.step = selected /\ hydrated.status = saved.status
  BY DEF SoundRun, Run
<1> HIDE DEF y, f, projected, terminal
<1>4. /\ live.step = selected
      /\ r.step = last /\ r.status = live.status /\ r.aborted = live.aborted
      /\ ~terminal => live.status = "RUNNING" /\ ~live.aborted
      /\ terminal => live.status = saved.status
  BY <1>1 DEF Reopened, SoundRun, Run
<1>5. \A s \in Steps : last[s].status = selected[s].status
  <2> TAKE s \in Steps
  <2> HIDE DEF selected, live
  <2> QED BY <1>2, <1>4
<1>6. terminal => AllSettled(r) /\ saved.status # "RUNNING"
  <2> HIDE DEF r, last, hydrated, selected
  <2> QED BY <1>3, <1>4, <1>5 DEF terminal, AllSettled, VerdictOwed
<1> HIDE DEF last, live, r, selected, hydrated
<1> QED BY <1>4, <1>6 DEF r

\* What a process that opens the run keeps.
LEMMA OpeningVerdict ==
  ASSUME TypeInv, VerdictInv, pc = "off", pc' = "booted",
         UNCHANGED <<stage, cursor, stop, requested, snap, jAtt, lost>>,
         run'.status \notin {"PASS", "UNKNOWN"}, run'.status \in Verdicts => AllSettled(run'),
         \A e \in Saves(outbox') : e.run = run',
         Passed => Saves(outbox') # {}
  PROVE  VerdictInv'
<1> USE DEF VerdictInv, LoopInv
<1>1. \A t \in Steps : stage'[t] = "idle"
  BY NoPass
<1>2. ControlFresh' /\ LoopCleared' /\ VerdictHeld' /\ StopAccounted' /\ EndExplained'
  BY <1>1 DEF ControlFresh, LoopCleared, VerdictHeld, StopAccounted, EndExplained,
     Accounted, Complete, Unbegun
<1>3. RunOver' /\ DiskOver'
  BY DEF RunOver, Over, Sound, DiskOver, Passed
<1> QED BY <1>2, <1>3

\* Opening a run keeps the invariant: a resume of a PASS requeues a step.
LEMMA OpenVerdicts ==
  ASSUME TypeInv, TypeInv', VerdictInv, NEW i \in Invocations, Create(i) \/ Resume(i)
  PROVE  VerdictInv'
<1>1. /\ pc = "off" /\ pc' = "booted"
      /\ UNCHANGED <<stage, cursor, stop, requested, snap, jAtt, lost>>
  BY DEF Create, Resume, disk
<1>2. CASE Create(i)
  <2>1. run'.status = "RUNNING" /\ outbox' = Saved(run') /\ snap = NoRun
    BY <1>2 DEF Create
  <2> QED BY <1>1, <2>1, SavedSaves, OpeningVerdict DEF Verdicts, Passed
<1>3. CASE Resume(i)
  <2>1. /\ run' = Restored(snap, jStatus, jAtt, i) /\ snap # NoRun
        /\ outbox' = RestoreWrites(snap, jAtt, run', i)
        /\ Owed(snap) \/ i.startAt # 0
    BY <1>3 DEF Resume
  <2>2. /\ snap \in SoundRun /\ jStatus \in [Steps -> Statuses] /\ run' \in SoundRun
        /\ jAtt \in [Steps -> [Nums -> Attempt]] /\ i \in Invocation
    BY <1>1, <2>1, ConstantsAssumption DEF TypeInv, RunsSound, DiskTyped, AttemptsTyped
  <2>3. \/ run'.status = "RUNNING" /\ ~run'.aborted
        \/ run'.status = snap.status /\ AllSettled(run') /\ snap.status # "RUNNING"
    BY <2>1, <2>2, RestoredVerdict
  <2>4. /\ \A s \in Steps : Same(run'.step[s], Selected(Reconciled(snap.step[s], jStatus[s]), i, s))
        /\ (\E s \in Steps : run'.step[s].status = "pending") => run'.status = "RUNNING" /\ ~run'.aborted
    BY <2>1, <2>2, RestoredStatus
  <2>5. /\ \A e \in Writes(outbox') : e.kind = "finish" \/ e = SaveEntry(run')
        /\ run'.status = "RUNNING" /\ ~run'.aborted => SaveEntry(run') \in Writes(outbox')
    BY <2>1, <2>2, RestoreHolds
  <2>6. Passed => run'.status = "RUNNING" /\ ~run'.aborted
    <3> SUFFICES ASSUME Passed PROVE \E s \in Steps : run'.step[s].status = "pending"
      BY <2>4
    <3>1. i.startAt # 0
      BY <2>1 DEF VerdictInv, DiskOver, Sound, Passed, Owed, VerdictOwed
    <3>2. i.startAt \in Steps /\ Replays(i, i.startAt)
      BY <2>2, <3>1, Assumptions DEF Invocation, Steps, Replays
    <3> DEFINE x == Reconciled(snap.step[i.startAt], jStatus[i.startAt])
    <3>3. x \in Step
      BY <2>2, <3>2, ReconciledTypes DEF SoundRun, Run
    <3> HIDE DEF x
    <3>4. Selected(x, i, i.startAt).status = "pending"
      BY <3>2, <3>3 DEF Selected, Step
    <3> QED BY <2>4, <3>2, <3>4 DEF Same, x
  <2>7. run'.status \notin {"PASS", "UNKNOWN"}
    BY <2>1, <2>3, <2>6 DEF VerdictInv, DiskOver, Sound, Passed
  <2>8. Passed => Saves(outbox') # {}
    BY <2>5, <2>6 DEF Saves, SaveEntry
  <2>9. \A e \in Saves(outbox') : e.run = run'
    BY <2>5 DEF Saves, SaveEntry
  <2> QED BY <1>1, <2>3, <2>7, <2>8, <2>9, OpeningVerdict DEF Verdicts
<1> QED BY <1>2, <1>3

\* The end of a process keeps the invariant.
LEMMA GoneVerdict ==
  ASSUME TypeInv, VerdictInv, Exit \/ Crash
  PROVE  VerdictInv'
<1>1. /\ pc' = "off" /\ outbox' = <<>> /\ cursor' = 1 /\ stop' = NoStop /\ ~requested'
      /\ UNCHANGED <<snap, jAtt, lost>>
  BY DEF Exit, Crash, Gone, disk, history
<1>2. LoopInv'
  BY <1>1 DEF LoopInv, ControlFresh, LoopCleared, VerdictHeld, StopAccounted, EndExplained, Live
<1>3. RunOver' /\ DiskOver'
  BY <1>1, NoSaves DEF VerdictInv, RunOver, DiskOver, Passed
<1> QED BY <1>2, <1>3 DEF VerdictInv

\* Before any process the invariant holds.
LEMMA InitVerdict == Init => VerdictInv
BY NoSaves DEF Init, VerdictInv, LoopInv, ControlFresh, LoopCleared, VerdictHeld, StopAccounted,
   EndExplained, RunOver, DiskOver, Passed, Live

\* The invariant is inductive.
LEMMA NextVerdict ==
  TypeInv /\ EmptyInv /\ MirrorInv /\ UnitInv /\ VerdictInv /\ [Next]_vars => VerdictInv'
<1> SUFFICES ASSUME TypeInv, EmptyInv, MirrorInv, UnitInv, VerdictInv, [Next]_vars
             PROVE  VerdictInv'
  OBVIOUS
<1>0. TypeInv'
  BY NextTypes
<1>1. CASE Open
  BY <1>0, <1>1, OpenVerdicts DEF Open
<1>2. CASE OpenLedger \/ Admission
  <2>1. CASE OpenLedger
    BY <2>1, GoesOn
  <2>2. CASE Admission
    <3>1. PICK s \in Steps :
            \/ PassOver(s) \/ CostStopsAdmission(s) \/ WhenSkips(s) \/ WhenStops(s)
            \/ AdmissionFails(s) \/ AdmissionAbsorbed(s) \/ NeedsDecision(s) \/ Admit(s)
      BY <2>2 DEF Admission
    <3>2. CASE PassOver(s) \/ WhenSkips(s) \/ AdmissionAbsorbed(s) \/ Admit(s)
      BY <3>2, GoesOn
    <3>3. CASE CostStopsAdmission(s) \/ WhenStops(s) \/ NeedsDecision(s) \/ AdmissionFails(s)
      BY <3>3, Breaks
    <3> QED BY <3>1, <3>2, <3>3
  <2> QED BY <1>2, <2>1, <2>2
<1>3. CASE Launch \/ LeaveLoop \/ NextUnit \/ UnitStops \/ TreeWritesStop \/ Finalize
  <2>1. CASE LeaveLoop
    BY <2>1, Breaks
  <2>2. CASE Launch \/ NextUnit \/ UnitStops \/ TreeWritesStop
    BY <2>2, UnitVerdict
  <2> QED BY <1>3, <2>1, <2>2, FinalizeVerdict
<1>4. CASE Pass
  <2>1. PICK s \in Steps :
        \/ StartPass(s) \/ OpenAttempt(s) \/ Spawn(s) \/ SettleAttempt(s)
        \/ Succeed(s) \/ Abandon(s) \/ CutShort(s) \/ StopBlocked(s) \/ Absorb(s)
        \/ Fail(s) \/ CostStopsRetry(s) \/ Rerun(s)
    BY <1>4 DEF Pass
  <2> QED BY <1>0, <2>1, StartVerdict, OpenVerdict, AnswerVerdict, FailsVerdict
<1>5. CASE Exit \/ Crash \/ Flush \/ LoseEvent \/ Signal
  BY <1>5, GoneVerdict, WriteVerdict, SignalVerdict
<1>6. CASE UNCHANGED vars
  <2>1. UNCHANGED <<pc, run, stage, cursor, admitted, stop, requested, outbox, snap, jAtt, lost>>
    BY <1>6 DEF vars, memory, disk, history
  <2>2. LoopInv'
    BY <2>1 DEF VerdictInv, LoopInv, ControlFresh, LoopCleared, VerdictHeld, StopAccounted,
       EndExplained, Stopping, Accounted, Complete, Unbegun
  <2>3. RunOver' /\ DiskOver'
    BY <2>1 DEF VerdictInv, RunOver, Over, DiskOver, Passed, Saves, Writes
  <2> QED BY <2>2, <2>3 DEF VerdictInv
<1> QED BY <1>1, <1>2, <1>3, <1>4, <1>5, <1>6 DEF Next, Progress

\* The invariants the verdicts rest on.
LEMMA VerdictsInvariant == Spec => []VerdictInv
<1>1. Init => TypeInv /\ EmptyInv /\ MirrorInv /\ UnitInv /\ VerdictInv
  BY InitTypes, InitEmpty, InitMirror, InitDied, InitVerdict
<1>2. TypeInv /\ EmptyInv /\ MirrorInv /\ UnitInv /\ VerdictInv /\ [Next]_vars
        => (TypeInv /\ EmptyInv /\ MirrorInv /\ UnitInv /\ VerdictInv)'
  BY NextTypes, NextEmpty, NextMirror, NextUnitInv, NextVerdict
<1> QED BY <1>1, <1>2, PTL DEF Spec

\* A PASS in state.json speaks of a run whose every step is settled and, no
\* append having failed, whose journal holds no attempt open: a resume that
\* requeues a step writes a live run before it opens one.
THEOREM PassSpeaksOfTheWhole == Spec => []PassIsComplete
<1>1. VerdictInv => PassIsComplete
  BY DEF VerdictInv, DiskOver, Passed, Sound, PassIsComplete, AllSettled, Settled
<1> QED BY <1>1, VerdictsInvariant, PTL

\* deriveRunStatus never falls through: whatever ends the loop, a stop, a signal,
\* a failed step or the last step, the run has a verdict to be written under.
THEOREM EveryEndNamed == Spec => []VerdictKnown
<1>1. VerdictInv => VerdictKnown
  BY DEF VerdictInv, DiskOver, Sound, VerdictKnown
<1> QED BY <1>1, VerdictsInvariant, PTL


----------------------------------------------------------------------------
(* Sums.                                                                   *)

\* f adds the amounts c up, and Total is where it ends.
Adds(f, c, N) ==
  f \in [0..N -> Nat] /\ f[0] = 0 /\ \A n \in 1..N : f[n] = f[n - 1] + c[n]
Total(c, N) == (CHOOSE f : Adds(f, c, N))[N]

\* f is the recursive function that starts from b and goes on with h.
Follows(f, b, h, N, V) ==
  f \in [0..N -> V] /\ f[0] = b /\ \A n \in 1..N : f[n] = h[n][f[n - 1]]

\* There is one.
LEMMA RecursionExists ==
  ASSUME NEW N \in Nat, NEW V, NEW b \in V, NEW h \in [1..N -> [V -> V]]
  PROVE  \E f : Follows(f, b, h, N, V)
<1> DEFINE T == {m \in Nat : m <= N => \E f : Follows(f, b, h, m, V)}
<1>1. 0 \in T
  <2>1. Follows([n \in 0..0 |-> b], b, h, 0, V)
    BY DEF Follows
  <2> QED BY <2>1
<1>2. ASSUME NEW m \in Nat, m \in T PROVE m + 1 \in T
  <2> SUFFICES ASSUME m + 1 <= N PROVE \E f : Follows(f, b, h, m + 1, V)
    OBVIOUS
  <2>1. PICK f : Follows(f, b, h, m, V)
    BY <1>2
  <2> DEFINE g == [n \in 0..(m + 1) |-> IF n <= m THEN f[n] ELSE h[m + 1][f[m]]]
  <2>2. f[m] \in V /\ h[m + 1] \in [V -> V]
    BY <2>1 DEF Follows
  <2>3. g \in [0..(m + 1) -> V] /\ g[0] = b
    BY <2>1, <2>2 DEF Follows
  <2>4. \A n \in 1..(m + 1) : g[n] = h[n][g[n - 1]]
    <3> TAKE n \in 1..(m + 1)
    <3>1. n - 1 \in 0..(m + 1) /\ n - 1 <= m /\ n \in 0..(m + 1) /\ (n <= m \/ n = m + 1)
      OBVIOUS
    <3>2. g[n - 1] = f[n - 1]
      BY <3>1
    <3>3. CASE n <= m
      BY <2>1, <3>1, <3>2, <3>3 DEF Follows
    <3>4. CASE n = m + 1
      <4>1. n - 1 = m /\ ~(n <= m)
        BY <3>4
      <4>2. g[n] = h[m + 1][f[m]]
        BY <3>1, <4>1
      <4> HIDE DEF g
      <4> QED BY <3>2, <3>4, <4>1, <4>2
    <3> QED BY <3>1, <3>3, <3>4
  <2> HIDE DEF g
  <2>5. Follows(g, b, h, m + 1, V)
    BY <2>3, <2>4 DEF Follows
  <2> QED BY <2>5
<1> HIDE DEF T
<1>3. N \in T
  BY <1>1, <1>2, NatInd
<1> QED BY <1>3 DEF T

\* There is such a function.
LEMMA AddsExists ==
  ASSUME NEW N \in Nat, NEW c \in [1..N -> Nat]
  PROVE  \E f : Adds(f, c, N)
<1> DEFINE h == [n \in 1..N |-> [v \in Nat |-> v + c[n]]]
<1>1. h \in [1..N -> [Nat -> Nat]] /\ 0 \in Nat
  OBVIOUS
<1>2. \A n \in 1..N, v \in Nat : h[n][v] = v + c[n]
  OBVIOUS
<1> HIDE DEF h
<1>3. PICK f : Follows(f, 0, h, N, Nat)
  BY <1>1, RecursionExists
<1>4. f \in [0..N -> Nat] /\ f[0] = 0 /\ \A n \in 1..N : f[n] = h[n][f[n - 1]]
  BY <1>3 DEF Follows
<1>5. \A n \in 1..N : f[n] = f[n - 1] + c[n]
  <2> TAKE n \in 1..N
  <2>1. n - 1 \in 0..N
    OBVIOUS
  <2>2. f[n - 1] \in Nat
    BY <1>4, <2>1
  <2> QED BY <1>2, <1>4, <2>2
<1>6. Adds(f, c, N)
  BY <1>4, <1>5 DEF Adds
<1> QED BY <1>6

\* Larger amounts add up to more.
LEMMA AddsLess ==
  ASSUME NEW N \in Nat, NEW c \in [1..N -> Nat], NEW d \in [1..N -> Nat], NEW f, NEW g,
         Adds(f, c, N), Adds(g, d, N), \A n \in 1..N : c[n] <= d[n]
  PROVE  \A n \in 0..N : f[n] <= g[n]
<1> DEFINE T == {m \in Nat : m <= N => f[m] <= g[m]}
<1>1. 0 \in T
  BY DEF Adds
<1>2. ASSUME NEW m \in Nat, m \in T PROVE m + 1 \in T
  <2> SUFFICES ASSUME m + 1 <= N PROVE f[m + 1] <= g[m + 1]
    OBVIOUS
  <2>1. m + 1 \in 1..N /\ m \in 0..N /\ (m + 1) - 1 = m
    OBVIOUS
  <2>2. f[m + 1] = f[m] + c[m + 1] /\ g[m + 1] = g[m] + d[m + 1]
    BY <2>1 DEF Adds
  <2>3. /\ f[m] \in Nat /\ g[m] \in Nat /\ c[m + 1] \in Nat /\ d[m + 1] \in Nat
        /\ f[m] <= g[m] /\ c[m + 1] <= d[m + 1]
    BY <1>2, <2>1 DEF Adds
  <2> QED BY <2>2, <2>3
<1> HIDE DEF T
<1>3. Nat \subseteq T
  BY <1>1, <1>2, NatInd
<1> QED BY <1>3 DEF T

\* A total is a natural number, no less than one of smaller amounts.
LEMMA TotalNat ==
  ASSUME NEW N \in Nat, NEW c \in [1..N -> Nat]
  PROVE  Total(c, N) \in Nat /\ \A f : Adds(f, c, N) => f[N] = Total(c, N)
<1> DEFINE g == CHOOSE f : Adds(f, c, N)
<1>1. Adds(g, c, N)
  BY AddsExists
<1>2. Total(c, N) = g[N] /\ N \in 0..N
  BY DEF Total
<1> HIDE DEF g
<1>3. g[N] \in Nat
  <2>1. g \in [0..N -> Nat]
    BY <1>1 DEF Adds
  <2> QED BY <1>2, <2>1
<1>4. ASSUME NEW f, Adds(f, c, N) PROVE f[N] = g[N]
  <2>1. f[N] <= g[N] /\ g[N] <= f[N]
    BY <1>1, <1>2, <1>4, AddsLess
  <2>2. f[N] \in Nat
    BY <1>2, <1>4 DEF Adds
  <2> QED BY <1>3, <2>1, <2>2
<1> QED BY <1>2, <1>3, <1>4

LEMMA TotalLess ==
  ASSUME NEW N \in Nat, NEW c \in [1..N -> Nat], NEW d \in [1..N -> Nat],
         \A n \in 1..N : c[n] <= d[n]
  PROVE  Total(c, N) <= Total(d, N)
<1>1. PICK f : Adds(f, c, N)
  BY AddsExists
<1>2. PICK g : Adds(g, d, N)
  BY AddsExists
<1>3. \A n \in 0..N : f[n] <= g[n]
  BY <1>1, <1>2, AddsLess
<1>4. N \in 0..N
  OBVIOUS
<1> QED BY <1>1, <1>2, <1>3, <1>4, TotalNat

\* A total follows the one amount that changes.
LEMMA TotalChange ==
  ASSUME NEW N \in Nat, NEW c \in [1..N -> Nat], NEW d \in [1..N -> Nat], NEW k \in 1..N,
         \A n \in 1..N : n # k => d[n] = c[n]
  PROVE  Total(d, N) + c[k] = Total(c, N) + d[k]
<1>1. PICK f : Adds(f, c, N)
  BY AddsExists
<1>2. PICK g : Adds(g, d, N)
  BY AddsExists
<1> DEFINE T == {m \in Nat : m <= N => IF m < k THEN g[m] = f[m] ELSE g[m] + c[k] = f[m] + d[k]}
<1>3. 0 \in T
  BY <1>1, <1>2 DEF Adds
<1>4. ASSUME NEW m \in Nat, m \in T PROVE m + 1 \in T
  <2> SUFFICES ASSUME m + 1 <= N
               PROVE  IF m + 1 < k THEN g[m + 1] = f[m + 1]
                      ELSE g[m + 1] + c[k] = f[m + 1] + d[k]
    OBVIOUS
  <2>1. m + 1 \in 1..N /\ m \in 0..N /\ (m + 1) - 1 = m
    OBVIOUS
  <2>2. f[m + 1] = f[m] + c[m + 1] /\ g[m + 1] = g[m] + d[m + 1]
    BY <1>1, <1>2, <2>1 DEF Adds
  <2>3. /\ f[m] \in Nat /\ g[m] \in Nat /\ c[m + 1] \in Nat /\ d[m + 1] \in Nat
        /\ c[k] \in Nat /\ d[k] \in Nat /\ k \in Nat
    BY <1>1, <1>2, <2>1 DEF Adds
  <2>4. IF m < k THEN g[m] = f[m] ELSE g[m] + c[k] = f[m] + d[k]
    BY <1>4, <2>1
  <2>5. CASE m + 1 < k
    <3>1. d[m + 1] = c[m + 1] /\ g[m] = f[m]
      BY <2>1, <2>3, <2>4, <2>5
    <3> QED BY <2>2, <2>5, <3>1
  <2>6. CASE m + 1 = k
    <3>1. g[m] = f[m] /\ ~(m + 1 < k) /\ c[m + 1] = c[k] /\ d[m + 1] = d[k]
      BY <2>3, <2>4, <2>6
    <3>2. (f[m] + d[k]) + c[k] = (f[m] + c[k]) + d[k]
      BY <2>3
    <3> QED BY <2>2, <3>1, <3>2
  <2>7. CASE m + 1 > k
    <3>1. d[m + 1] = c[m + 1] /\ g[m] + c[k] = f[m] + d[k] /\ ~(m + 1 < k)
      BY <2>1, <2>3, <2>4, <2>7
    <3> DEFINE u == g[m]
               v == f[m]
               x == c[m + 1]
               y == c[k]
               z == d[k]
    <3>2. u \in Nat /\ v \in Nat /\ x \in Nat /\ y \in Nat /\ z \in Nat /\ u + y = v + z
      BY <2>3, <3>1
    <3>3. g[m + 1] = u + x /\ f[m + 1] = v + x
      BY <2>2, <3>1
    <3> HIDE DEF u, v, x, y, z
    <3>4. (u + x) + y = (v + x) + z
      BY <3>2
    <3>5. g[m + 1] + y = f[m + 1] + z
      BY <3>3, <3>4
    <3> QED BY <3>1, <3>5 DEF y, z
  <2> QED BY <2>3, <2>5, <2>6, <2>7
<1> HIDE DEF T
<1>5. Nat \subseteq T
  BY <1>3, <1>4, NatInd
<1>6. g[N] + c[k] = f[N] + d[k]
  BY <1>5 DEF T
<1> QED BY <1>1, <1>2, <1>6, TotalNat


\* The recursive function that adds up c, as the code's sums are written.
SumOf(f, c, N) == f = [n \in 0..N |-> IF n = 0 THEN 0 ELSE f[n - 1] + c[n]]

\* It adds c up.
LEMMA SumAdds ==
  ASSUME NEW N \in Nat, NEW c \in [1..N -> Nat], NEW f, SumOf(f, c, N)
  PROVE  Adds(f, c, N)
<1>1. /\ f[0] = 0 /\ DOMAIN f = 0..N
      /\ f = [n \in 0..N |-> f[n]]
      /\ \A n \in 1..N : f[n] = f[n - 1] + c[n]
  BY DEF SumOf
<1> DEFINE T == {m \in Nat : m <= N => f[m] \in Nat}
<1>2. 0 \in T
  BY <1>1
<1>3. ASSUME NEW m \in Nat, m \in T PROVE m + 1 \in T
  <2> SUFFICES ASSUME m + 1 <= N PROVE f[m + 1] \in Nat
    OBVIOUS
  <2>1. m + 1 \in 1..N /\ (m + 1) - 1 = m /\ f[m] \in Nat
    BY <1>3
  <2>2. f[m + 1] = f[m] + c[m + 1] /\ c[m + 1] \in Nat
    BY <1>1, <2>1
  <2> QED BY <2>1, <2>2
<1> HIDE DEF T
<1>4. Nat \subseteq T
  BY <1>2, <1>3, NatInd
<1>5. \A m \in 0..N : f[m] \in Nat
  BY <1>4 DEF T
<1> QED BY <1>1, <1>5 DEF Adds

\* A sum so written is the total.
LEMMA SumTotal ==
  ASSUME NEW N \in Nat, NEW c \in [1..N -> Nat]
  PROVE  (\E f : SumOf(f, c, N)) /\ \A f : SumOf(f, c, N) => f[N] = Total(c, N)
<1>1. PICK f : Adds(f, c, N)
  BY AddsExists
<1>2. SumOf(f, c, N)
  <2>1. f \in [0..N -> Nat] /\ f[0] = 0 /\ \A n \in 1..N : f[n] = f[n - 1] + c[n]
    BY <1>1 DEF Adds
  <2>2. \A n \in 0..N : f[n] = IF n = 0 THEN 0 ELSE f[n - 1] + c[n]
    BY <2>1
  <2> QED BY <2>1, <2>2 DEF SumOf
<1> QED BY <1>2, SumAdds, TotalNat

----------------------------------------------------------------------------
(* The sums of the record.                                                 *)

Spends(r) == [s \in Steps |-> r.step[s].spend.cost]
Costs(a)  == [n \in Nums |-> a[n].fig.cost]
Cost(a)   == Total(Costs(a), MaxAttempts)

\* What a run cost.
LEMMA RunCostTotal ==
  ASSUME NEW r, \A s \in Steps : r.step[s].spend.cost \in Nat
  PROVE  RunCost(r) = Total(Spends(r), NSteps)
<1> DEFINE c == Spends(r)
           Is(f) == f = [n \in 0..NSteps |-> IF n = 0 THEN 0 ELSE f[n - 1] + r.step[n].spend.cost]
           sum == CHOOSE f : Is(f)
<1>0. NSteps \in Nat /\ Steps = 1..NSteps
  BY Assumptions DEF Steps
<1>1. RunCost(r) = sum[NSteps]
  BY DEF RunCost
<1>2. c \in [1..NSteps -> Nat] /\ \A n \in 1..NSteps : c[n] = r.step[n].spend.cost
  BY <1>0 DEF Spends
<1> HIDE DEF c
<1>3. ASSUME NEW f PROVE Is(f) <=> SumOf(f, c, NSteps)
  <2>1. \A n \in 0..NSteps : n # 0 => c[n] = r.step[n].spend.cost
    BY <1>0, <1>2
  <2>2. [n \in 0..NSteps |-> IF n = 0 THEN 0 ELSE f[n - 1] + r.step[n].spend.cost]
          = [n \in 0..NSteps |-> IF n = 0 THEN 0 ELSE f[n - 1] + c[n]]
    BY <2>1
  <2> QED BY <2>2 DEF SumOf
<1>4. PICK f : SumOf(f, c, NSteps)
  BY <1>0, <1>2, SumTotal
<1>5. Is(sum)
  <2>1. Is(f)
    BY <1>3, <1>4
  <2> HIDE DEF Is
  <2> QED BY <2>1
<1> HIDE DEF Is, sum
<1>6. sum[NSteps] = Total(c, NSteps)
  BY <1>0, <1>2, <1>3, <1>5, SumTotal
<1> QED BY <1>1, <1>6 DEF c

\* What the journal adds up to.
LEMMA JournalCostTotal ==
  ASSUME \A s \in Steps : SumAttempts(jAtt[s]).cost \in Nat
  PROVE  JournalCost = Total([s \in Steps |-> SumAttempts(jAtt[s]).cost], NSteps)
<1> DEFINE c == [s \in Steps |-> SumAttempts(jAtt[s]).cost]
           Is(f) == f = [n \in 0..NSteps |-> IF n = 0 THEN 0 ELSE f[n - 1] + SumAttempts(jAtt[n]).cost]
           sum == CHOOSE f : Is(f)
<1>0. NSteps \in Nat /\ Steps = 1..NSteps
  BY Assumptions DEF Steps
<1>1. JournalCost = sum[NSteps]
  BY DEF JournalCost
<1>2. c \in [1..NSteps -> Nat] /\ \A n \in 1..NSteps : c[n] = SumAttempts(jAtt[n]).cost
  BY <1>0
<1> HIDE DEF c
<1>3. ASSUME NEW f PROVE Is(f) <=> SumOf(f, c, NSteps)
  <2>1. \A n \in 0..NSteps : n # 0 => c[n] = SumAttempts(jAtt[n]).cost
    BY <1>0, <1>2
  <2>2. [n \in 0..NSteps |-> IF n = 0 THEN 0 ELSE f[n - 1] + SumAttempts(jAtt[n]).cost]
          = [n \in 0..NSteps |-> IF n = 0 THEN 0 ELSE f[n - 1] + c[n]]
    BY <2>1
  <2> QED BY <2>2 DEF SumOf
<1>4. PICK f : SumOf(f, c, NSteps)
  BY <1>0, <1>2, SumTotal
<1>5. Is(sum)
  <2>1. Is(f)
    BY <1>3, <1>4
  <2> HIDE DEF Is
  <2> QED BY <2>1
<1> HIDE DEF Is, sum
<1>6. sum[NSteps] = Total(c, NSteps)
  BY <1>0, <1>2, <1>3, <1>5, SumTotal
<1> QED BY <1>1, <1>6 DEF c

Amount == [cost: Nat, unknown: BOOLEAN, tokens: BOOLEAN]

\* What the attempts of a step add up to.
LEMMA AttemptsTotal ==
  ASSUME NEW a \in [Nums -> Attempt]
  PROVE  /\ Costs(a) \in [1..MaxAttempts -> Nat]
         /\ SumAttempts(a).cost = Cost(a) /\ Cost(a) \in Nat
         /\ \E u, t : SumAttempts(a) = [cost |-> Cost(a), unknown |-> u, tokens |-> t]
<1> DEFINE N == MaxAttempts
           c == Costs(a)
           Is(f) == f = [n \in 0..N |-> IF n = 0 THEN NoFigure ELSE Merge(f[n - 1], a[n].fig)]
           sum == CHOOSE f : Is(f)
           h == [n \in 1..N |-> [v \in Amount |-> Merge(v, a[n].fig)]]
<1>0. N \in Nat /\ Nums = 1..N /\ MaxSpend \in Nat
  BY Assumptions DEF Nums
<1>1. SumAttempts(a) = sum[N]
  BY DEF SumAttempts
<1>2. /\ \A n \in 1..N : a[n].fig \in Amount /\ c[n] = a[n].fig.cost
      /\ c \in [1..N -> Nat]
  BY <1>0 DEF Costs, Attempt, Figure, Amount
<1>3. h \in [1..N -> [Amount -> Amount]] /\ NoFigure \in Amount
  <2>1. \A n \in 1..N, v \in Amount : Merge(v, a[n].fig) \in Amount
    BY <1>2 DEF Amount, Merge
  <2> QED BY <2>1 DEF Amount, NoFigure
<1> HIDE DEF h
<1>4. PICK f : Follows(f, NoFigure, h, N, Amount)
  BY <1>0, <1>3, RecursionExists
<1>5. Is(f)
  <2>1. f \in [0..N -> Amount] /\ f[0] = NoFigure /\ \A n \in 1..N : f[n] = h[n][f[n - 1]]
    BY <1>4 DEF Follows
  <2>2. \A n \in 0..N : f[n] = IF n = 0 THEN NoFigure ELSE Merge(f[n - 1], a[n].fig)
    <3> SUFFICES ASSUME NEW n \in 0..N, n # 0 PROVE f[n] = Merge(f[n - 1], a[n].fig)
      BY <2>1
    <3>1. n \in 1..N /\ n - 1 \in 0..N
      BY <1>0
    <3>2. f[n - 1] \in Amount /\ f[n] = h[n][f[n - 1]]
      BY <2>1, <3>1
    <3> QED BY <3>1, <3>2 DEF h
  <2> QED BY <2>1, <2>2
<1>6. Is(sum)
  <2> HIDE DEF Is
  <2> QED BY <1>5
<1> DEFINE k == [n \in 0..N |-> sum[n].cost]
<1> HIDE DEF sum, c
<1>7. SumOf(k, c, N)
  <2>1. \A n \in 0..N : sum[n] = IF n = 0 THEN NoFigure ELSE Merge(sum[n - 1], a[n].fig)
    BY <1>6
  <2>2. ASSUME NEW n \in 0..N
        PROVE  k[n] = IF n = 0 THEN 0 ELSE k[n - 1] + c[n]
    <3>1. CASE n = 0
      BY <2>1, <2>2, <3>1 DEF NoFigure
    <3>2. CASE n # 0
      <4>1. n \in 1..N /\ n - 1 \in 0..N
        BY <1>0, <2>2, <3>2
      <4>2. sum[n].cost = sum[n - 1].cost + a[n].fig.cost
        <5>1. sum[n] = Merge(sum[n - 1], a[n].fig)
          BY <2>1, <2>2, <3>2
        <5>2. \A u, v : Merge(u, v).cost = u.cost + v.cost
          BY DEF Merge
        <5> QED BY <5>1, <5>2
      <4> QED BY <1>2, <2>2, <3>2, <4>1, <4>2
    <3> QED BY <3>1, <3>2
  <2>3. k = [n \in 0..N |-> k[n]]
    OBVIOUS
  <2> HIDE DEF k
  <2> QED BY <2>2, <2>3 DEF SumOf
<1>8. k[N] = Total(c, N) /\ Total(c, N) \in Nat
  <2> HIDE DEF k
  <2> QED BY <1>0, <1>2, <1>7, SumTotal, TotalNat
<1>9. N \in 0..N
  BY <1>0
<1>10. SumAttempts(a).cost = Cost(a)
  BY <1>1, <1>2, <1>8, <1>9 DEF c, Cost
<1>11. \E u, t : SumAttempts(a) = [cost |-> Cost(a), unknown |-> u, tokens |-> t]
  <2>1. sum[N] = IF N = 0 THEN NoFigure ELSE Merge(sum[N - 1], a[N].fig)
    BY <1>6, <1>9
  <2>2. \E k0, u, t : sum[N] = [cost |-> k0, unknown |-> u, tokens |-> t]
    BY <2>1 DEF NoFigure, Merge
  <2> QED BY <1>1, <1>10, <2>2
<1> QED BY <1>2, <1>8, <1>10, <1>11 DEF c, Cost

\* Attempts that cost no more add up to no more.
LEMMA CostLess ==
  ASSUME NEW a \in [Nums -> Attempt], NEW b \in [Nums -> Attempt],
         \A n \in Nums : a[n].fig.cost <= b[n].fig.cost
  PROVE  Cost(a) <= Cost(b)
<1> DEFINE c == Costs(a)
           d == Costs(b)
<1>1. MaxAttempts \in Nat /\ Nums = 1..MaxAttempts
  BY Assumptions DEF Nums
<1>2. c \in [1..MaxAttempts -> Nat] /\ d \in [1..MaxAttempts -> Nat]
  BY AttemptsTotal
<1>3. \A n \in 1..MaxAttempts : c[n] <= d[n]
  BY <1>1 DEF Costs
<1> HIDE DEF c, d
<1>4. Total(c, MaxAttempts) <= Total(d, MaxAttempts)
  BY <1>1, <1>2, <1>3, TotalLess
<1> QED BY <1>4 DEF Cost, c, d

\* Attempts that cost the same add up to the same.
LEMMA CostSame ==
  ASSUME NEW a \in [Nums -> Attempt], NEW b \in [Nums -> Attempt],
         \A n \in Nums : a[n].fig.cost = b[n].fig.cost
  PROVE  Cost(a) = Cost(b)
<1>1. Costs(a) = Costs(b)
  BY DEF Costs
<1> QED BY <1>1 DEF Cost

\* What is added to the cost of one attempt is added to their total.
LEMMA CostChange ==
  ASSUME NEW a \in [Nums -> Attempt], NEW b \in [Nums -> Attempt], NEW k \in Nums,
         \A n \in Nums : n # k => b[n].fig.cost = a[n].fig.cost, a[k].fig.cost = 0
  PROVE  Cost(b) = Cost(a) + b[k].fig.cost
<1> DEFINE c == Costs(a)
           d == Costs(b)
<1>1. MaxAttempts \in Nat /\ Nums = 1..MaxAttempts
  BY Assumptions DEF Nums
<1>2. c \in [1..MaxAttempts -> Nat] /\ d \in [1..MaxAttempts -> Nat]
  BY AttemptsTotal
<1>3. /\ \A n \in 1..MaxAttempts : n # k => d[n] = c[n]
      /\ c[k] = 0 /\ d[k] = b[k].fig.cost
  BY <1>1 DEF Costs
<1> HIDE DEF c, d
<1>4. Total(d, MaxAttempts) + c[k] = Total(c, MaxAttempts) + d[k]
  BY <1>1, <1>2, <1>3, TotalChange
<1>5. Total(d, MaxAttempts) \in Nat
  BY <1>1, <1>2, TotalNat
<1> QED BY <1>3, <1>4, <1>5 DEF Cost, c, d

\* No attempt costs nothing.
LEMMA CostNothing ==
  ASSUME NEW a \in [Nums -> Attempt], \A n \in Nums : a[n].fig.cost = 0
  PROVE  Cost(a) = 0
<1> DEFINE c == Costs(a)
           f == [n \in 0..MaxAttempts |-> 0]
<1>1. MaxAttempts \in Nat /\ Nums = 1..MaxAttempts
  BY Assumptions DEF Nums
<1>2. c \in [1..MaxAttempts -> Nat]
  BY AttemptsTotal
<1>3. \A n \in 1..MaxAttempts : c[n] = 0
  BY <1>1 DEF Costs
<1> HIDE DEF c
<1>4. Adds(f, c, MaxAttempts)
  BY <1>1, <1>3 DEF Adds
<1>5. f[MaxAttempts] = 0
  BY <1>1
<1> HIDE DEF f
<1>6. Total(c, MaxAttempts) = 0
  BY <1>1, <1>2, <1>4, <1>5, TotalNat
<1> QED BY <1>6 DEF Cost, c

----------------------------------------------------------------------------
(* The sums of runs.                                                       *)

Spent(r) == \A s \in Steps : r.step[s].spend.cost \in Nat
SameSpend(q, r) == \A s \in Steps : q.step[s].spend = r.step[s].spend

\* The amounts of a sound run are natural numbers.
LEMMA SoundSpent == \A r \in SoundRun : Spent(r)
<1>1. MaxSpend \in Nat
  BY Assumptions
<1> QED BY <1>1 DEF Spent, SoundRun, Run, Step, Figure

\* Runs whose steps spent the same cost the same.
LEMMA RunCostSame ==
  ASSUME NEW q, NEW r, Spent(r), SameSpend(q, r)
  PROVE  RunCost(q) = RunCost(r)
<1>1. Spent(q) /\ Spends(q) = Spends(r)
  BY DEF Spent, SameSpend, Spends
<1> QED BY <1>1, RunCostTotal DEF Spent

\* What is added to the spend of one step is added to what the run cost.
LEMMA RunCostChange ==
  ASSUME NEW q, NEW r, Spent(q), Spent(r), NEW s \in Steps, NEW x \in Nat,
         \A t \in Steps \ {s} : q.step[t].spend = r.step[t].spend,
         q.step[s].spend.cost = r.step[s].spend.cost + x
  PROVE  RunCost(q) = RunCost(r) + x
<1> DEFINE c == Spends(r)
           d == Spends(q)
<1>1. NSteps \in Nat /\ Steps = 1..NSteps
  BY Assumptions DEF Steps
<1>2. c \in [1..NSteps -> Nat] /\ d \in [1..NSteps -> Nat]
  BY <1>1 DEF Spent, Spends
<1>3. /\ \A n \in 1..NSteps : n # s => d[n] = c[n]
      /\ d[s] = c[s] + x /\ c[s] \in Nat
  BY <1>1 DEF Spends, Spent
<1> HIDE DEF c, d
<1>4. Total(d, NSteps) + c[s] = Total(c, NSteps) + d[s]
  BY <1>1, <1>2, <1>3, TotalChange
<1>5. Total(d, NSteps) \in Nat /\ Total(c, NSteps) \in Nat
  BY <1>1, <1>2, TotalNat
<1>6. Total(d, NSteps) = Total(c, NSteps) + x
  BY <1>3, <1>4, <1>5
<1> QED BY <1>6, RunCostTotal DEF Spent, c, d

\* A journal whose steps add up to no more than those of the run costs no more.
LEMMA JournalBound ==
  ASSUME NEW r, Spent(r), jAtt \in [Steps -> [Nums -> Attempt]],
         \A s \in Steps : Cost(jAtt[s]) <= r.step[s].spend.cost
  PROVE  /\ JournalCost \in Nat /\ JournalCost <= RunCost(r)
         /\ (\A s \in Steps : Cost(jAtt[s]) = r.step[s].spend.cost) => JournalCost = RunCost(r)
<1> DEFINE c == [s \in Steps |-> SumAttempts(jAtt[s]).cost]
           d == Spends(r)
<1>1. NSteps \in Nat /\ Steps = 1..NSteps
  BY Assumptions DEF Steps
<1>2. \A s \in Steps : SumAttempts(jAtt[s]).cost = Cost(jAtt[s]) /\ Cost(jAtt[s]) \in Nat
  BY AttemptsTotal
<1>3. JournalCost = Total(c, NSteps) /\ RunCost(r) = Total(d, NSteps)
  BY <1>2, JournalCostTotal, RunCostTotal DEF Spent
<1>4. /\ c \in [1..NSteps -> Nat] /\ d \in [1..NSteps -> Nat]
      /\ \A n \in 1..NSteps : c[n] <= d[n]
  BY <1>1, <1>2 DEF Spends, Spent
<1>5. (\A s \in Steps : Cost(jAtt[s]) = r.step[s].spend.cost) => c = d
  BY <1>2 DEF Spends
<1> HIDE DEF c, d
<1> QED BY <1>1, <1>3, <1>4, <1>5, TotalNat, TotalLess

----------------------------------------------------------------------------
(* What attempts cost, in memory, on their way to the disk, and there.     *)

\* An attempt that runs is the last of a step under way.
RunningKept ==
  /\ RunningLast(att)
  /\ \A s \in Steps, n \in Nums : att[s][n].status = "running" => stage[s] \in InAttempt

\* Only an attempt that is closed costs.
Costless(a) == \A s \in Steps, n \in Nums : a[s][n].status \notin Closed => a[s][n].fig.cost = 0

\* The journal never holds more of an attempt than memory does.
FinishHeld ==
  \A e \in AttemptEvents(outbox) : e.kind = "finish" =>
    e.attempt.status \in Closed /\ e.attempt.fig.cost <= att[e.step][e.n].fig.cost
JournalBelow ==
  pc # "off" => \A s \in Steps, n \in Nums : jAtt[s][n].fig.cost <= att[s][n].fig.cost

AttemptCosts == RunningKept /\ Costless(att) /\ Costless(jAtt) /\ FinishHeld /\ JournalBelow

\* Amounts are natural numbers.
LEMMA AttemptAmount == \A a \in Attempt : a.fig.cost \in Nat
<1>1. MaxSpend \in Nat
  BY Assumptions
<1> QED BY <1>1 DEF Attempt, Figure

\* The records of an opening, of a crash and of no attempt cost nothing.
LEMMA RecordCost ==
  /\ OpenRecord.fig.cost = 0 /\ NoAttempt.fig.cost = 0
  /\ \A s : Crashed(s).fig.cost = 0 /\ Crashed(s).status \in Closed
BY DEF OpenRecord, NoAttempt, NoFigure, Crashed, CrashFigure, Silent, Closed

\* An opened attempt costs nothing yet, and replaces none that does.
LEMMA OpenCosts ==
  ASSUME TypeInv, AttemptCosts, NEW s \in Steps, OpenAttempt(s)
  PROVE  AttemptCosts' /\ \A t \in Steps, m \in Nums : att'[t][m].fig.cost = att[t][m].fig.cost
<1> DEFINE n == NextNumber(s)
<1>1. /\ n \in Nums /\ n > Last(s)
      /\ \A t \in Steps, m \in Nums :
           att'[t][m] = IF t = s /\ m = n THEN OpenRecord ELSE att[t][m]
      /\ AttemptEvents(outbox') = {StartEvent(s, n)}
      /\ pc = "pass" /\ stage[s] = "started" /\ UNCHANGED <<pc, jAtt>>
      /\ \A t \in Steps : stage'[t] = IF t = s THEN "opened" ELSE stage[t]
  BY OpenFacts DEF AttemptFrame
<1> HIDE DEF n
<1>2. \A m \in Nums : att[s][m].status # "none" => m <= Last(s)
  BY LastKnown DEF Known, Last
<1>3. Last(s) \in Nat /\ \A m \in Nums : m \in Nat
  BY LastKnown, Assumptions DEF Last, LastNum, Nums
<1>4. att[s][n].status = "none" /\ \A m \in Nums : att[s][m].status # "running"
  BY <1>1, <1>2, <1>3 DEF AttemptCosts, RunningKept, InAttempt
<1>5. att[s][n].fig.cost = 0
  BY <1>1, <1>4 DEF AttemptCosts, Costless, Closed
<1>6. \A t \in Steps, m \in Nums : att'[t][m].fig.cost = att[t][m].fig.cost
  BY <1>1, <1>5, RecordCost
<1>7. RunningKept'
  <2>1. \A t \in Steps, m \in Nums : att'[t][m].status = "running" => stage'[t] \in InAttempt
    BY <1>1, <1>4 DEF AttemptCosts, RunningKept, InAttempt
  <2> SUFFICES ASSUME NEW t \in Steps, NEW k \in Nums, NEW m \in Nums,
                      att'[t][k].status = "running", att'[t][m].status # "none"
               PROVE  m <= k
    BY <2>1 DEF RunningKept, RunningLast
  <2>2. CASE t = s
    <3>1. k = n /\ (m = n \/ m <= Last(s))
      BY <1>1, <1>2, <1>4, <2>2
    <3> QED BY <1>1, <1>3, <3>1
  <2>3. CASE t # s
    BY <1>1, <2>3 DEF AttemptCosts, RunningKept, RunningLast
  <2> QED BY <2>2, <2>3
<1>8. Costless(att)' /\ Costless(jAtt)'
  BY <1>1, RecordCost DEF AttemptCosts, Costless
<1>9. FinishHeld'
  BY <1>1 DEF FinishHeld, StartEvent
<1>10. JournalBelow'
  BY <1>1, <1>6 DEF AttemptCosts, JournalBelow
<1> QED BY <1>6, <1>7, <1>8, <1>9, <1>10 DEF AttemptCosts

\* Closing attempts that run keeps the invariant.
LEMMA CloseCosts ==
  ASSUME TypeInv, AttemptCosts, pc # "off", outbox = <<>>, UNCHANGED <<pc, jAtt>>,
         NEW C \in SUBSET Steps, NEW x \in [Steps -> Attempt],
         \A t \in C : x[t].status \in Closed /\ Last(t) \in Nums /\ att[t][Last(t)].status = "running",
         \A t \in Steps, m \in Nums :
            att'[t][m] = IF t \in C /\ m = Last(t) THEN x[t] ELSE att[t][m],
         AttemptEvents(outbox') = {FinishEvent(t, Last(t), x[t]) : t \in C},
         \A t \in Steps : stage'[t] = stage[t] \/ t \in C
  PROVE  AttemptCosts' /\ \A t \in C : att[t][Last(t)].fig.cost = 0
<1>1. \A t \in C : att[t][Last(t)].fig.cost = 0
  BY DEF AttemptCosts, Costless, Closed
<1>2. \A t \in Steps, m \in Nums :
           /\ att'[t][m].status = "running" => att[t][m].status = "running" /\ t \notin C
           /\ att'[t][m].status # "none" => att[t][m].status # "none"
  <2> TAKE t \in Steps, m \in Nums
  <2>1. CASE t \in C /\ m = Last(t)
    BY <2>1 DEF Closed
  <2>2. CASE t \in C /\ m # Last(t)
    <3>1. att \in [Steps -> [Nums -> Attempt]]
      BY DEF TypeInv, AttemptsTyped
    <3>2. att[t][m].status # "running"
      BY <2>2, <3>1, RunningIsLast DEF AttemptCosts, RunningKept
    <3> QED BY <2>2, <3>2
  <2>3. CASE t \notin C
    BY <2>3
  <2> QED BY <2>1, <2>2, <2>3
<1>3. RunningKept'
  BY <1>2 DEF AttemptCosts, RunningKept, RunningLast
<1>4. Costless(att)' /\ Costless(jAtt)'
  BY DEF AttemptCosts, Costless
<1>5. FinishHeld'
  <2> SUFFICES ASSUME NEW t \in C, NEW e, e = FinishEvent(t, Last(t), x[t])
               PROVE  e.attempt.status \in Closed /\ e.attempt.fig.cost <= att'[e.step][e.n].fig.cost
    BY DEF FinishHeld
  <2>1. e.step = t /\ e.n = Last(t) /\ e.attempt = x[t]
    BY DEF FinishEvent
  <2>2. att'[t][Last(t)] = x[t] /\ x[t].fig.cost \in Nat
    BY AttemptAmount
  <2> QED BY <2>1, <2>2
<1>6. JournalBelow'
  <2> SUFFICES ASSUME NEW t \in Steps, NEW m \in Nums
               PROVE  jAtt[t][m].fig.cost <= att'[t][m].fig.cost
    BY DEF JournalBelow
  <2>1. jAtt[t][m].fig.cost <= att[t][m].fig.cost /\ jAtt[t][m].fig.cost \in Nat
    BY AttemptAmount DEF AttemptCosts, JournalBelow, TypeInv, AttemptsTyped
  <2>2. CASE t \in C /\ m = Last(t)
    BY <1>1, <2>1, <2>2, AttemptAmount
  <2>3. CASE ~(t \in C /\ m = Last(t))
    BY <2>1, <2>3
  <2> QED BY <2>2, <2>3
<1> QED BY <1>1, <1>3, <1>4, <1>5, <1>6 DEF AttemptCosts

\* A result closes the attempt it answers.
LEMMA SettleCosts ==
  ASSUME TypeInv, AttemptCosts, NEW s \in Steps, SettleAttempt(s)
  PROVE  AttemptCosts' /\ (StillOpen(s) => att[s][Last(s)].fig.cost = 0)
<1>1. /\ pc = "pass" /\ outbox = <<>> /\ stage[s] = "spawned" /\ UNCHANGED <<pc, jAtt>>
      /\ \A t \in Steps : t # s => stage'[t] = stage[t]
      /\ ~StillOpen(s) => UNCHANGED <<att, outbox>>
  BY LateResult DEF AttemptFrame
<1>2. att \in [Steps -> [Nums -> Attempt]]
  BY DEF TypeInv, AttemptsTyped
<1>3. CASE ~StillOpen(s)
  <2>1. \A m \in Nums : att[s][m].status # "running"
    BY <1>2, <1>3, RunningIsLast DEF AttemptCosts, RunningKept, Last, StillOpen
  <2>2. RunningKept'
    BY <1>1, <1>3, <2>1 DEF AttemptCosts, RunningKept, RunningLast
  <2> QED BY <1>1, <1>3, <2>2 DEF AttemptCosts, Costless, FinishHeld, JournalBelow
<1>4. CASE StillOpen(s)
  <2>1. PICK a \in Attempt :
           /\ a.status \in Closed /\ Last(s) \in Nums
           /\ \A t \in Steps, m \in Nums :
                att'[t][m] = IF t = s /\ m = Last(s) THEN a ELSE att[t][m]
           /\ AttemptEvents(outbox') = {FinishEvent(s, Last(s), a)} /\ Solo(outbox')
    BY <1>4, SettleFacts
  <2> DEFINE C == {s}
             x == [t \in Steps |-> a]
  <2>2. /\ C \in SUBSET Steps /\ x \in [Steps -> Attempt] /\ s \in C
        /\ \A t \in C : t = s /\ x[t].status \in Closed /\ Last(t) \in Nums
                        /\ att[t][Last(t)].status = "running"
    BY <1>4, <2>1 DEF StillOpen
  <2>3. \A t \in Steps, m \in Nums :
           att'[t][m] = IF t \in C /\ m = Last(t) THEN x[t] ELSE att[t][m]
    BY <2>1
  <2>4. AttemptEvents(outbox') = {FinishEvent(t, Last(t), x[t]) : t \in C}
    BY <2>1
  <2>5. \A t \in Steps : stage'[t] = stage[t] \/ t \in C
    BY <1>1
  <2> HIDE DEF C, x
  <2>6. AttemptCosts' /\ \A t \in C : att[t][Last(t)].fig.cost = 0
    BY <1>1, <2>2, <2>3, <2>4, <2>5, CloseCosts
  <2> QED BY <2>2, <2>6
<1> QED BY <1>3, <1>4

\* An abort closes those in flight.
LEMMA SignalCosts ==
  ASSUME TypeInv, AttemptCosts, Signal
  PROVE  AttemptCosts' /\ \A t \in Steps : InFlight(t) => Last(t) \in Nums /\ att[t][Last(t)].fig.cost = 0
<1>1. pc # "off" /\ outbox = <<>> /\ UNCHANGED <<pc, jAtt, stage>>
  BY DEF Signal, Busy, disk
<1>2. att \in [Steps -> [Nums -> Attempt]]
  BY DEF TypeInv, AttemptsTyped
<1>3. PICK C \in SUBSET {t \in Steps : InFlight(t)}, x \in [Steps -> Attempt] :
           /\ \A t \in C : x[t].status \in Closed /\ Last(t) \in Nums
           /\ \A t \in Steps, m \in Nums :
                att'[t][m] = IF t \in C /\ m = Last(t) THEN x[t] ELSE att[t][m]
           /\ AttemptEvents(outbox') = {FinishEvent(t, Last(t), x[t]) : t \in C}
  BY SignalFacts
<1>4. ASSUME NEW t \in Steps, InFlight(t)
      PROVE  Last(t) \in Nums /\ att[t][Last(t)].status = "running"
  <2>1. PICK n \in Nums : att[t][n].status = "running"
    BY <1>4 DEF InFlight, HasOpen
  <2>2. n = Last(t)
    BY <1>2, <2>1, RunningIsLast DEF AttemptCosts, RunningKept, Last
  <2> QED BY <2>1, <2>2
<1>5. C \in SUBSET Steps /\ \A t \in C : att[t][Last(t)].status = "running"
  BY <1>4
<1>6. AttemptCosts'
  BY <1>1, <1>3, <1>5, CloseCosts
<1> QED BY <1>4, <1>6 DEF AttemptCosts, Costless, Closed

\* A resume closes what a crash left open at no cost.
LEMMA ResumeCosts ==
  ASSUME TypeInv, AttemptCosts, NEW i \in Invocations, Resume(i)
  PROVE  AttemptCosts' /\ \A s \in Steps, n \in Nums : att'[s][n].fig.cost = jAtt[s][n].fig.cost
<1>1. /\ UNCHANGED jAtt
      /\ \A s \in Steps, n \in Nums :
              att'[s][n] = IF jAtt[s][n].status = "running" THEN Crashed(s) ELSE jAtt[s][n]
      /\ AttemptEvents(outbox') = {Closing(s) : s \in {t \in Steps : HasOpen(jAtt[t])}}
  BY ResumeFacts
<1>2. \A s \in Steps, n \in Nums :
         jAtt[s][n].fig.cost \in Nat /\ att'[s][n].fig.cost = jAtt[s][n].fig.cost
  <2> TAKE s \in Steps, n \in Nums
  <2>1. jAtt[s][n] \in Attempt
    BY DEF TypeInv, AttemptsTyped
  <2>2. jAtt[s][n].fig.cost \in Nat
    BY <2>1, AttemptAmount
  <2>3. jAtt[s][n].status = "running" => jAtt[s][n].fig.cost = 0
    BY DEF AttemptCosts, Costless, Closed
  <2> QED BY <1>1, <2>2, <2>3, RecordCost
<1>3. RunningKept'
  BY <1>1, RecordStatus DEF RunningKept, RunningLast
<1>4. Costless(att)' /\ Costless(jAtt)'
  BY <1>1, RecordCost DEF AttemptCosts, Costless
<1>5. FinishHeld'
  <2> SUFFICES ASSUME NEW s \in Steps, HasOpen(jAtt[s]), NEW e, e = Closing(s)
               PROVE  e.attempt.status \in Closed /\ e.attempt.fig.cost <= att'[e.step][e.n].fig.cost
    BY <1>1 DEF FinishHeld
  <2> DEFINE n == OpenNum(jAtt[s])
  <2>1. e.step = s /\ e.n = n /\ e.attempt = Crashed(s)
    BY DEF Closing, FinishEvent
  <2>2. n \in Nums
    BY DEF OpenNum, HasOpen
  <2> HIDE DEF n
  <2>3. att'[s][n].fig.cost \in Nat
    BY <1>2, <2>2
  <2> QED BY <2>1, <2>2, <2>3, RecordCost
<1>6. JournalBelow'
  BY <1>1, <1>2 DEF JournalBelow
<1> QED BY <1>2, <1>3, <1>4, <1>5, <1>6 DEF AttemptCosts

\* A write that reaches the disk, or is lost, keeps the invariant.
LEMMA WriteCosts ==
  ASSUME TypeInv, EmptyInv, AttemptCosts, Flush \/ LoseEvent
  PROVE  AttemptCosts'
<1> DEFINE e == Head(outbox)
<1>1. /\ outbox # <<>> /\ pc # "off" /\ outbox' = Tail(outbox)
      /\ e \in SoundWrite /\ outbox \in Seq(SoundWrite) /\ UNCHANGED <<pc, att, stage>>
      /\ LoseEvent => UNCHANGED jAtt
      /\ Flush /\ ~IsAttempt(e) => UNCHANGED jAtt
      /\ Flush /\ IsAttempt(e) =>
           /\ e.step \in Steps /\ e.n \in Nums
           /\ \A s \in Steps, n \in Nums :
                jAtt'[s][n] = IF s = e.step /\ n = e.n
                              THEN IF e.kind = "start" THEN OpenRecord ELSE e.attempt
                              ELSE jAtt[s][n]
  BY WriteFacts DEF memory
<1>2. /\ AttemptEvents(outbox') \subseteq AttemptEvents(outbox)
      /\ IsAttempt(e) => e \in AttemptEvents(outbox)
  BY <1>1, TailEvents
<1> HIDE DEF e
<1>3. RunningKept' /\ Costless(att)' /\ FinishHeld'
  BY <1>1, <1>2 DEF AttemptCosts, RunningKept, RunningLast, Costless, FinishHeld
<1>4. CASE UNCHANGED jAtt
  BY <1>1, <1>3, <1>4 DEF AttemptCosts, Costless, JournalBelow
<1>5. CASE Flush /\ IsAttempt(e)
  <2> DEFINE x == IF e.kind = "start" THEN OpenRecord ELSE e.attempt
  <2>1. att[e.step][e.n].fig.cost \in Nat
    BY <1>1, <1>5, AttemptAmount DEF TypeInv, AttemptsTyped
  <2>2. (x.status \in Closed \/ x.fig.cost = 0) /\ x.fig.cost <= att[e.step][e.n].fig.cost
    <3>1. CASE e.kind = "start"
      BY <2>1, <3>1, RecordCost
    <3>2. CASE e.kind # "start"
      BY <1>2, <1>5, <3>2 DEF IsAttempt, AttemptCosts, FinishHeld
    <3> QED BY <3>1, <3>2
  <2>3. \A s \in Steps, n \in Nums :
           jAtt'[s][n] = IF s = e.step /\ n = e.n THEN x ELSE jAtt[s][n]
    BY <1>1, <1>5
  <2> HIDE DEF x
  <2>4. Costless(jAtt)'
    BY <2>2, <2>3 DEF AttemptCosts, Costless
  <2>5. JournalBelow'
    BY <1>1, <2>2, <2>3 DEF AttemptCosts, JournalBelow
  <2> QED BY <1>3, <2>4, <2>5 DEF AttemptCosts
<1> QED BY <1>1, <1>4, <1>5

\* Before any process there is nothing.
LEMMA InitCosts == Init => AttemptCosts
<1> SUFFICES ASSUME Init PROVE AttemptCosts
  OBVIOUS
<1>1. \A s \in Steps, n \in Nums : att[s][n] = NoAttempt /\ jAtt[s][n] = NoAttempt
  BY RecordStatus DEF Init
<1>2. pc = "off" /\ outbox = <<>>
  BY DEF Init
<1> QED BY <1>1, <1>2, EmptyEvents, RecordStatus, RecordCost
    DEF AttemptCosts, RunningKept, RunningLast, Costless, FinishHeld, JournalBelow

\* The invariant is inductive.
LEMMA NextCosts == TypeInv /\ EmptyInv /\ AttemptCosts /\ [Next]_vars => AttemptCosts'
<1> SUFFICES ASSUME TypeInv, EmptyInv, AttemptCosts, [Next]_vars PROVE AttemptCosts'
  OBVIOUS
<1>1. CASE Quiet
  <2>1. /\ pc # "off" /\ pc' # "off" /\ UNCHANGED <<att, jAtt>> /\ AttemptEvents(outbox') = {}
        /\ \A t \in Steps : stage[t] \in InAttempt => stage'[t] \in InAttempt
    BY <1>1, PlainEvents DEF Quiet
  <2>2. RunningKept'
    BY <2>1 DEF AttemptCosts, RunningKept, RunningLast
  <2> QED BY <2>1, <2>2 DEF AttemptCosts, Costless, FinishHeld, JournalBelow
<1>2. ASSUME NEW s \in Steps, OpenAttempt(s) \/ SettleAttempt(s) PROVE AttemptCosts'
  <2>1. OpenAttempt(s) => AttemptCosts'
    BY OpenCosts
  <2>2. SettleAttempt(s) => AttemptCosts'
    BY SettleCosts
  <2> QED BY <1>2, <2>1, <2>2
<1>3. ASSUME NEW i \in Invocations, Create(i) PROVE AttemptCosts'
  <2>1. /\ pc = "off" /\ snap = NoRun /\ UNCHANGED <<att, jAtt, stage>> /\ outbox' = Saved(run')
    BY <1>3 DEF Create, disk
  <2>2. att' = NoAttempts /\ jAtt' = NoAttempts
    BY <2>1 DEF EmptyInv, Blank, Newborn
  <2>3. \A s \in Steps, n \in Nums : att'[s][n] = NoAttempt /\ jAtt'[s][n] = NoAttempt
    BY <2>2, RecordStatus
  <2>4. run' \in SoundRun
    BY <1>3, CreateTypes DEF TypeInv, RunsSound, Create
  <2>5. AttemptEvents(outbox') = {}
    BY <2>1, <2>4, SavedPlain, PlainEvents
  <2>6. \A s \in Steps, n \in Nums :
           /\ att'[s][n].status = "none" /\ att'[s][n].fig.cost = 0
           /\ jAtt'[s][n].status = "none" /\ jAtt'[s][n].fig.cost = 0
    BY <2>3, RecordStatus, RecordCost
  <2>7. RunningKept' /\ Costless(att)' /\ Costless(jAtt)' /\ JournalBelow'
    BY <2>6 DEF RunningKept, RunningLast, Costless, JournalBelow
  <2>8. FinishHeld'
    BY <2>5 DEF FinishHeld
  <2> QED BY <2>7, <2>8 DEF AttemptCosts
<1>4. ASSUME NEW i \in Invocations, Resume(i) PROVE AttemptCosts'
  BY <1>4, ResumeCosts
<1>5. CASE Signal
  BY <1>5, SignalCosts
<1>6. CASE Flush \/ LoseEvent
  BY <1>6, WriteCosts
<1>7. CASE Exit \/ Crash
  <2>1. pc' = "off" /\ att' = NoAttempts /\ outbox' = <<>> /\ UNCHANGED jAtt
    BY <1>7 DEF Exit, Crash, Gone, disk
  <2>2. \A s \in Steps, n \in Nums : att'[s][n] = NoAttempt
    BY <2>1, RecordStatus
  <2> QED BY <2>1, <2>2, EmptyEvents, RecordStatus, RecordCost
      DEF AttemptCosts, RunningKept, RunningLast, Costless, FinishHeld, JournalBelow
<1>8. CASE UNCHANGED vars
  <2>1. UNCHANGED <<pc, att, jAtt, stage, outbox>>
    BY <1>8 DEF vars, memory, disk
  <2> QED BY <2>1 DEF AttemptCosts, RunningKept, RunningLast, Costless, FinishHeld, JournalBelow
<1> QED BY <1>1, <1>2, <1>3, <1>4, <1>5, <1>6, <1>7, <1>8, StepKinds

----------------------------------------------------------------------------
(* The steps that neither spend nor touch a ceiling.                       *)

Keeps(q, r) == SameSpend(q, r) /\ q.max = r.max /\ q.aborted = r.aborted

\* A member of a unit is on its way to its next attempt, past the gate.
Gated == \/ pc = "admit" /\ admitted # {}
         \/ \E s \in Steps : stage[s] \in {"admitted", "started"}
Granted == CostDecision(run, budget) = "none"

Thrifty ==
  /\ Quiet /\ pc # "booted" /\ Keeps(run', run)
  /\ \A e \in Saves(outbox') : Keeps(e.run, run)
  /\ Gated' => Gated \/ Granted

\* A status, a stop and a quota say nothing of money.
LEMMA RunKeeps ==
  ASSUME NEW r \in SoundRun
  PROVE  /\ Keeps(r, r) /\ Keeps(Stopped(r), r)
         /\ \A s \in Steps, st \in StepStatus : Keeps(WithStatus(r, s, st), r)
         /\ \A s \in Steps : \A x : Keeps([r EXCEPT !.step[s].retries = x], r)
<1>1. Keeps(r, r) /\ Keeps(Stopped(r), r)
  BY DEF Keeps, SameSpend, SoundRun, Run, Stopped
<1>2. ASSUME NEW s \in Steps, NEW st \in StepStatus PROVE Keeps(WithStatus(r, s, st), r)
  BY DEF Keeps, SameSpend, SoundRun, Run, Step, WithStatus
<1>3. ASSUME NEW s \in Steps, NEW x PROVE Keeps([r EXCEPT !.step[s].retries = x], r)
  BY DEF Keeps, SameSpend, SoundRun, Run, Step
<1> QED BY <1>1, <1>2, <1>3

LEMMA KeepsTransitive ==
  ASSUME NEW r, NEW q, NEW p, Keeps(q, r), Keeps(p, q)
  PROVE  Keeps(p, r)
BY DEF Keeps, SameSpend

LEMMA UpdateKeeps ==
  ASSUME run \in SoundRun, NEW s \in Steps, NEW st \in StepStatus, UpdateStep(s, st)
  PROVE  Keeps(run', run) /\ \A e \in Saves(outbox') : Keeps(e.run, run)
<1>1. Keeps(run', run)
  BY RunKeeps DEF UpdateStep
<1> QED BY <1>1, UpdateVerdict

LEMMA SavedKeeps ==
  ASSUME Keeps(run', run), outbox' = Saved(run')
  PROVE  \A e \in Saves(outbox') : Keeps(e.run, run)
BY SavedSaves

\* Only the gate lets a step into a unit.
LEMMA AdmissionThrift ==
  ASSUME TypeInv, Admission
  PROVE  Thrifty
<1>0. PICK s \in Steps :
        \/ PassOver(s) \/ CostStopsAdmission(s) \/ WhenSkips(s) \/ WhenStops(s)
        \/ AdmissionFails(s) \/ AdmissionAbsorbed(s) \/ NeedsDecision(s) \/ Admit(s)
  BY DEF Admission
<1>1. Considers(s) /\ AdmissionFrame /\ Quiet
  BY <1>0, AdmissionQuiet DEF PassOver, CostStopsAdmission, WhenSkips, WhenStops, AdmissionFails,
              AdmissionAbsorbed, NeedsDecision, Admit, Funded
<1>2. pc = "admit" /\ outbox = <<>> /\ run \in SoundRun /\ UNCHANGED stage
  BY <1>1 DEF Considers, AdmissionFrame, TypeInv, RunsSound
<1>3. Gated' => Gated \/ Granted
  BY <1>0, <1>2 DEF PassOver, CostStopsAdmission, WhenSkips, WhenStops, AdmissionFails,
     AdmissionAbsorbed, NeedsDecision, Admit, BreakLoop, Gated, Granted, Funded
<1>4. Keeps(run', run) /\ \A e \in Saves(outbox') : Keeps(e.run, run)
  <2>1. CASE UNCHANGED <<run, outbox>>
    BY <1>2, <2>1, NoSaves, RunKeeps
  <2>2. CASE WhenSkips(s) \/ AdmissionFails(s) \/ AdmissionAbsorbed(s)
    <3>1. PICK st \in StepStatus : UpdateStep(s, st)
      BY <2>2 DEF WhenSkips, AdmissionFails, AdmissionAbsorbed, StepStatus
    <3> QED BY <1>2, <3>1, UpdateKeeps
  <2>3. CASE WhenStops(s) \/ NeedsDecision(s)
    <3>1. run' = Stopped(run) /\ outbox' = Saved(run')
      BY <2>3 DEF WhenStops, NeedsDecision
    <3>2. Keeps(run', run)
      BY <1>2, <3>1, RunKeeps
    <3> QED BY <3>1, <3>2, SavedKeeps
  <2> QED BY <1>0, <2>1, <2>2, <2>3 DEF PassOver, CostStopsAdmission, Admit
<1> QED BY <1>1, <1>2, <1>3, <1>4 DEF Thrifty

\* The loop and the end of a unit spend nothing either.
LEMMA LoopThrift ==
  ASSUME TypeInv, Launch \/ LeaveLoop \/ NextUnit \/ UnitStops \/ TreeWritesStop \/ Finalize
  PROVE  Thrifty
<1>1. Quiet /\ pc \notin {"off", "booted"} /\ run \in SoundRun /\ outbox = <<>>
  BY LoopQuiet, EndingQuiet DEF Launch, LeaveLoop, NextUnit, UnitStops, TreeWritesStop, Finalize,
     UnitAnswered, TypeInv, RunsSound, Quiet
<1>2. Gated' => Gated
  <2>1. CASE Launch
    BY <2>1 DEF Launch, UnitClosed, Gated
  <2>2. CASE LeaveLoop
    BY <2>2 DEF LeaveLoop, Gated
  <2>3. CASE NextUnit \/ UnitStops \/ TreeWritesStop
    BY <2>3, NothingUnderWay DEF NextUnit, UnitStops, TreeWritesStop, LeaveUnit, Gated
  <2>4. CASE Finalize
    BY <2>4 DEF Finalize, Gated
  <2> QED BY <2>1, <2>2, <2>3, <2>4
<1>3. CASE Launch \/ LeaveLoop \/ NextUnit \/ UnitStops
  <2>1. UNCHANGED <<run, outbox>>
    BY <1>3 DEF Launch, LeaveLoop, NextUnit, UnitStops
  <2> QED BY <1>1, <1>2, <2>1, NoSaves, RunKeeps DEF Thrifty
<1>4. CASE TreeWritesStop \/ Finalize
  <2>1. outbox' = Saved(run')
    BY <1>4 DEF TreeWritesStop, Finalize
  <2>2. Keeps(run', run)
    <3>1. CASE TreeWritesStop
      BY <1>1, <3>1, RunKeeps DEF TreeWritesStop
    <3>2. CASE Finalize
      <4>1. \E x : run' = [run EXCEPT !.status = x]
        BY <3>2 DEF Finalize
      <4> QED BY <1>1, <4>1 DEF Keeps, SameSpend, SoundRun, Run
    <3> QED BY <1>4, <3>1, <3>2
  <2> QED BY <1>1, <1>2, <2>1, <2>2, SavedKeeps DEF Thrifty
<1> QED BY <1>3, <1>4

\* In a pass, only the gate lets a step into a rerun.
LEMMA PassThrift ==
  ASSUME TypeInv, NEW s \in Steps, StartPass(s) \/ Spawn(s) \/ Rerun(s)
  PROVE  Thrifty
<1>1. Quiet /\ pc = "pass" /\ outbox = <<>> /\ run \in SoundRun /\ stage \in [Steps -> Stages] /\ pc' = "pass"
  BY PassQuiet DEF StartPass, Spawn, Rerun, MayRetry, Refused, Resolves, PassFrame, TypeInv,
     RunsSound, PassTyped, Quiet
<1>2. CASE StartPass(s)
  <2>1. Gated
    BY <1>2 DEF StartPass, Gated
  <2>2. UpdateStep(s, "running")
    BY <1>2 DEF StartPass
  <2> QED BY <1>1, <2>1, <2>2, UpdateKeeps DEF Thrifty, StepStatus
<1>3. CASE Spawn(s)
  <2>1. UNCHANGED <<run, outbox>> /\ stage' = [stage EXCEPT ![s] = "spawned"]
    BY <1>3 DEF Spawn
  <2>2. Gated' => Gated
    BY <1>1, <2>1 DEF Gated
  <2> QED BY <1>1, <2>1, <2>2, NoSaves, RunKeeps DEF Thrifty
<1>4. CASE Rerun(s)
  <2>1. Granted /\ outbox' = Saved(run') /\ \E x : run' = [run EXCEPT !.step[s].retries = x]
    BY <1>4 DEF Rerun, Granted
  <2>2. Keeps(run', run)
    BY <1>1, <2>1, RunKeeps
  <2> QED BY <1>1, <2>1, <2>2, SavedKeeps DEF Thrifty
<1> QED BY <1>2, <1>3, <1>4

\* A verdict spends nothing.
LEMMA EndsThrift ==
  ASSUME TypeInv, NEW s \in Steps,
         \/ Succeed(s) \/ Abandon(s) \/ CutShort(s) \/ StopBlocked(s) \/ Absorb(s)
         \/ Fail(s) \/ CostStopsRetry(s)
  PROVE  Thrifty
<1>1. Quiet /\ pc = "pass" /\ outbox = <<>> /\ EndPass(s)
  BY EndsQuiet DEF Succeed, Abandon, CutShort, StopBlocked, Absorb, Fail, CostStopsRetry,
         MayRetry, Exhausted, Blocked, Refused, Resolves, Busy, Quiet
<1>2. /\ run \in SoundRun /\ pc' = "pass" /\ \A t \in reruns : run.step[t].retries >= 1
      /\ stage \in [Steps -> Stages]
  BY <1>1, PassStart DEF EndPass, PassFrame
<1>3. Gated' => Gated
  BY <1>1, <1>2 DEF Gated, EndPass
<1>4. Keeps(run', run) /\ \A e \in Saves(outbox') : Keeps(e.run, run)
  <2>1. CASE Abandon(s)
    <3>1. UNCHANGED <<run, outbox>>
      BY <2>1 DEF Abandon
    <3> QED BY <1>1, <1>2, <3>1, NoSaves, RunKeeps
  <2>2. CASE Succeed(s) \/ Absorb(s) \/ Fail(s) \/ CostStopsRetry(s)
    <3>1. PICK st \in StepStatus : UpdateStep(s, st)
      BY <2>2 DEF Succeed, Absorb, Fail, CostStopsRetry, StepStatus
    <3> QED BY <1>2, <3>1, UpdateKeeps
  <2>3. CASE CutShort(s)
    <3> DEFINE refunded == [run EXCEPT !.step[s].retries = @ - 1]
               r == IF s \in reruns THEN refunded ELSE run
               p == IF s \in reruns THEN Saved(r) ELSE <<>>
               w == StatusWrites(r, s, "failed")
    <3>1. run' = WithStatus(r, s, "failed") /\ outbox' = p \o w
      BY <2>3 DEF CutShort
    <3>2. r \in SoundRun /\ Keeps(r, run)
      BY <1>2, RefundSound, RunKeeps
    <3> HIDE DEF r
    <3>3. Keeps(run', run)
      BY <3>1, <3>2, RunKeeps, KeepsTransitive DEF StepStatus
    <3>4. p \in Seq(SoundWrite) /\ \A e \in Saves(p) : e.run = r
      BY <3>2, SavedWrites, SavedSaves, NoSaves, EmptySeq
    <3>5. w \in Seq(SoundWrite) /\ \A e \in Saves(w) : e.run = run'
      <4>1. w \in Seq(SoundWrite) /\ Writes(w) \subseteq {StatusEvent(s, "failed"), SaveEntry(run')}
        BY <3>1, <3>2, StatusWritesTyped, StatusHolds DEF StepStatus
      <4> HIDE DEF w
      <4> QED BY <4>1 DEF Saves, StatusEvent, SaveEntry
    <3> HIDE DEF p, w
    <3> QED BY <3>1, <3>2, <3>3, <3>4, <3>5, SavesConcat
  <2>4. CASE StopBlocked(s)
    <3> DEFINE failed == WithStatus(run, s, "failed")
               w == StatusWrites(run, s, "failed")
    <3>1. run' = Stopped(failed) /\ outbox' = w \o Saved(run')
      BY <2>4 DEF StopBlocked
    <3>2. failed \in SoundRun /\ Keeps(failed, run)
      BY <1>2, SoundStatus, RunKeeps DEF StepStatus
    <3>3. w \in Seq(SoundWrite) /\ \A e \in Saves(w) : e.run = failed
      <4>1. w \in Seq(SoundWrite) /\ Writes(w) \subseteq {StatusEvent(s, "failed"), SaveEntry(failed)}
        BY <1>2, StatusWritesTyped, StatusHolds DEF StepStatus
      <4> HIDE DEF w, failed
      <4> QED BY <4>1 DEF Saves, StatusEvent, SaveEntry
    <3> HIDE DEF failed, w
    <3>4. run' \in SoundRun /\ Keeps(run', run)
      BY <3>1, <3>2, SoundStopped, RunKeeps, KeepsTransitive
    <3> QED BY <3>1, <3>2, <3>3, <3>4, SavesConcat, SavedWrites, SavedSaves
  <2> QED BY <2>1, <2>2, <2>3, <2>4
<1> QED BY <1>1, <1>3, <1>4 DEF Thrifty

\* Every step spends nothing, or reads the ledger, or opens or closes attempts, or
\* reads or writes the disk.
LEMMA SpendKinds ==
  ASSUME TypeInv, [Next]_vars
  PROVE  \/ Thrifty \/ OpenLedger
         \/ \E s \in Steps : OpenAttempt(s) \/ SettleAttempt(s)
         \/ \E i \in Invocations : Create(i) \/ Resume(i)
         \/ Signal \/ Flush \/ LoseEvent \/ Exit \/ Crash \/ UNCHANGED vars
<1>1. CASE Pass
  <2>1. PICK s \in Steps :
        \/ StartPass(s) \/ OpenAttempt(s) \/ Spawn(s) \/ SettleAttempt(s)
        \/ Succeed(s) \/ Abandon(s) \/ CutShort(s) \/ StopBlocked(s) \/ Absorb(s)
        \/ Fail(s) \/ CostStopsRetry(s) \/ Rerun(s)
    BY <1>1 DEF Pass
  <2>2. OpenAttempt(s) \/ SettleAttempt(s) \/ Thrifty
    BY <2>1, PassThrift, EndsThrift
  <2> QED BY <2>2
<1>2. Admission => Thrifty
  BY AdmissionThrift
<1>3. Launch \/ LeaveLoop \/ NextUnit \/ UnitStops \/ TreeWritesStop \/ Finalize => Thrifty
  BY LoopThrift
<1> QED BY <1>1, <1>2, <1>3 DEF Next, Progress, Open

----------------------------------------------------------------------------
(* The order of the writes: no attempt is recorded after the snapshot that *)
(* counts it.                                                              *)

Ordered(q) == \A j, k \in 1..Len(q) : j < k /\ q[j].kind = "save" => ~IsAttempt(q[k])
Unsaved == {e \in SoundWrite : e.kind # "save"}

\* A transition records its attempts, then saves the run it leaves.
SavesRun ==
  \E p \in Seq(Unsaved), q \in Seq(PlainWrite) :
    outbox' = p \o q /\ \A e \in Saves(q) : e.run = run'

LEMMA OrderedPlain == \A q : AttemptEvents(q) = {} => Ordered(q)
BY DEF AttemptEvents, AttemptsAt, Ordered

LEMMA SavingOrdered ==
  ASSUME SavesRun
  PROVE  Ordered(outbox') /\ \A e \in Saves(outbox') : e.run = run'
<1>1. PICK p \in Seq(Unsaved), q \in Seq(PlainWrite) :
        outbox' = p \o q /\ \A e \in Saves(q) : e.run = run'
  BY DEF SavesRun
<1>2. Unsaved \subseteq SoundWrite /\ PlainWrite \subseteq SoundWrite
  BY DEF Unsaved, PlainWrite
<1>3. p \in Seq(SoundWrite) /\ q \in Seq(SoundWrite)
  BY <1>2
<1>4. Saves(p) = {}
  BY ConcatWrites, EmptySeq DEF Saves, Unsaved
<1>5. \A e \in Saves(outbox') : e.run = run'
  BY <1>1, <1>3, <1>4, SavesConcat
<1>6. \A k \in 1..Len(p) : p[k].kind # "save"
  BY DEF Unsaved
<1>7. \A k \in 1..Len(q) : ~IsAttempt(q[k])
  BY DEF PlainWrite
<1>8. /\ Len(p) \in Nat /\ Len(q) \in Nat /\ Len(p \o q) = Len(p) + Len(q)
      /\ \A k \in 1..Len(p) + Len(q) : (p \o q)[k] = IF k <= Len(p) THEN p[k] ELSE q[k - Len(p)]
  BY <1>3, ConcatProperties, LenProperties
<1> DEFINE w == p \o q
<1> HIDE DEF w
<1>9. ASSUME NEW j \in 1..Len(w), NEW k \in 1..Len(w), j < k, w[j].kind = "save"
      PROVE  ~IsAttempt(w[k])
  <2>1. j > Len(p)
    BY <1>6, <1>8, <1>9 DEF w
  <2>2. k - Len(p) \in 1..Len(q) /\ w[k] = q[k - Len(p)]
    BY <1>8, <1>9, <2>1 DEF w
  <2> QED BY <1>7, <2>2
<1>10. Ordered(w)
  BY <1>9 DEF Ordered
<1> QED BY <1>1, <1>5, <1>10 DEF w

LEMMA OrderedTail ==
  ASSUME NEW q \in Seq(SoundWrite), q # <<>>, Ordered(q)
  PROVE  Ordered(Tail(q)) /\ (Head(q).kind = "save" => AttemptEvents(q) = {})
<1>1. /\ Len(q) \in Nat \ {0} /\ Len(Tail(q)) = Len(q) - 1
      /\ \A k \in 1..Len(q) - 1 : Tail(q)[k] = q[k + 1]
      /\ Head(q) = q[1]
  BY HeadTailProperties, LenProperties, EmptySeq
<1>2. ASSUME NEW j \in 1..Len(Tail(q)), NEW k \in 1..Len(Tail(q)), j < k, Tail(q)[j].kind = "save"
      PROVE  ~IsAttempt(Tail(q)[k])
  BY <1>1, <1>2 DEF Ordered
<1>3. ASSUME Head(q).kind = "save", NEW k \in 1..Len(q) PROVE ~IsAttempt(q[k])
  <2>1. CASE k = 1
    BY <1>1, <1>3, <2>1 DEF IsAttempt
  <2>2. CASE k # 1
    BY <1>1, <1>3, <2>2 DEF Ordered
  <2> QED BY <2>1, <2>2
<1>4. Ordered(Tail(q))
  BY <1>2 DEF Ordered
<1> QED BY <1>3, <1>4 DEF AttemptEvents, AttemptsAt

\* An opening records the attempt first.
LEMMA OpenSaving ==
  ASSUME TypeInv, NEW s \in Steps, OpenAttempt(s)
  PROVE  SavesRun
<1> DEFINE e == StartEvent(s, NextNumber(s))
           p == <<e>>
<1>1. NextNumber(s) \in Nums /\ outbox' = p \o Saved(run')
  BY DEF OpenAttempt
<1>2. e \in Unsaved
  BY <1>1, StartWrite DEF SoundWrite, Unsaved, StartEvent
<1>3. run' \in SoundRun
  BY OpenAttemptTypes DEF OpenAttempt, PassFrame, TypeInv, RunsSound
<1> HIDE DEF e
<1>4. p \in Seq(Unsaved) /\ Saved(run') \in Seq(PlainWrite)
  BY <1>2, <1>3, SavedPlain
<1> HIDE DEF p
<1> QED BY <1>1, <1>4, SavedSaves DEF SavesRun

\* So does an answer.
LEMMA AnswerSaving ==
  ASSUME TypeInv, NEW s \in Steps, SettleAttempt(s), StillOpen(s)
  PROVE  SavesRun
<1> DEFINE n == Last(s)
           a(res) == [status |-> IF res.ok THEN "done" ELSE "failed", fig |-> res.fig,
                      interrupted |-> FALSE]
<1>1. pc = "pass"
  BY LateResult
<1>2. budget \in Budget /\ n \in Nums /\ run' \in SoundRun
  BY <1>1, PassStart, SettleFacts, ResultTypes
<1>3. PICK res \in Results(s) :
        /\ Charged(budget, res).cum <= MaxSpend
        /\ outbox' = <<FinishEvent(s, n, a(res))>> \o GuardWrites(res) \o Saved(run')
  BY DEF SettleAttempt
<1>4. res.fig \in Figure /\ res \in Answer
  BY <1>2, <1>3, ChargedTyped
<1>5. a(res) \in Attempt
  BY <1>4 DEF Attempt
<1> HIDE DEF a, n
<1> DEFINE one == <<FinishEvent(s, n, a(res))>>
           g == GuardWrites(res)
<1>6. one \in Seq(Unsaved)
  <2>1. FinishEvent(s, n, a(res)) \in Unsaved
    BY <1>2, <1>5, FinishWrite DEF SoundWrite, Unsaved, FinishEvent
  <2> QED BY <2>1
<1>7. g \in Seq(Unsaved)
  <2>1. g \in Seq(PlainWrite)
    BY <1>4, GuardPlain DEF Answer
  <2>2. g = <<>> \/ g = <<GuardEvent(res.cut)>>
    BY DEF GuardWrites
  <2>3. CASE g = <<>>
    BY <2>3, EmptySeq
  <2>4. CASE g = <<GuardEvent(res.cut)>>
    <3>1. GuardEvent(res.cut) = g[1] /\ 1 \in 1..Len(g) /\ GuardEvent(res.cut).kind = "guard"
      BY <2>4 DEF GuardEvent
    <3> HIDE DEF g
    <3>2. GuardEvent(res.cut) \in PlainWrite
      BY <2>1, <3>1, ElementOfSeq
    <3>3. GuardEvent(res.cut) \in Unsaved
      BY <3>1, <3>2 DEF Unsaved, PlainWrite
    <3> QED BY <2>4, <3>3
  <2> QED BY <2>2, <2>3, <2>4
<1>8. outbox' = (one \o g) \o Saved(run')
  BY <1>3
<1> HIDE DEF one, g
<1>9. one \o g \in Seq(Unsaved)
  BY <1>6, <1>7, ConcatProperties
<1> QED BY <1>2, <1>8, <1>9, SavedPlain, SavedSaves DEF SavesRun

\* So does an abort.
LEMMA AbortSaving ==
  ASSUME run \in SoundRun, executing \subseteq Steps,
         NEW est \in [Steps -> {0} \cup Prices],
         WithinSpend(Aborted(est)), run' = Aborted(est), outbox' = AbortWrites(est)
  PROVE  SavesRun
<1> DEFINE c == Cardinality(Aborting)
           order == Ascending(Aborting)
           closing(s) == IF InFlight(s)
                         THEN <<FinishEvent(s, Last(s), AbortedAttempt(s, est[s]))>> ELSE <<>>
           writes(s) == closing(s) \o <<StatusEvent(s, "aborted")>>
           closes == [k \in 1..c |-> writes(order[k])]
<1>1. \A s \in Aborting : writes(s) \in Seq(Unsaved)
  <2> TAKE s \in Aborting
  <2>0. s \in Steps
    BY DEF Aborting
  <2>1. closing(s) \in Seq(Unsaved)
    <3>1. CASE InFlight(s)
      <4>1. Last(s) \in Nums
        BY <3>1, LastKnown DEF InFlight, HasOpen, Known, Last
      <4>2. FinishEvent(s, Last(s), AbortedAttempt(s, est[s])) \in Unsaved
        BY <2>0, <3>1, <4>1, AbortedAttemptTyped, FinishWrite DEF SoundWrite, Unsaved, FinishEvent
      <4> QED BY <3>1, <4>2
    <3>2. CASE ~InFlight(s)
      BY <3>2, EmptySeq
    <3> QED BY <3>1, <3>2
  <2>2. <<StatusEvent(s, "aborted")>> \in Seq(Unsaved)
    <3>1. StatusEvent(s, "aborted") \in Unsaved
      BY <2>0, StatusWrite DEF SoundWrite, Unsaved, StatusEvent, StepStatus
    <3> QED BY <3>1
  <2> HIDE DEF closing
  <2> QED BY <2>1, <2>2, ConcatProperties
<1>2. c \in Nat /\ \A k \in 1..c : order[k] \in Aborting
  <2>1. Aborting \in SUBSET Steps
    BY DEF Aborting
  <2> QED BY <2>1, AscendingTyped
<1>3. outbox' = Seqs!FlattenSeq(closes) \o Saved(run')
  BY DEF AbortWrites
<1> HIDE DEF c, order, writes
<1>4. closes \in Seq(Seq(Unsaved))
  BY <1>1, <1>2
<1> HIDE DEF closes
<1>5. Seqs!FlattenSeq(closes) \in Seq(Unsaved)
  BY <1>4, FlattenType
<1>6. Saved(run') \in Seq(PlainWrite)
  BY AbortedSound, SavedPlain
<1> QED BY <1>3, <1>5, <1>6, SavedSaves DEF SavesRun

\* And a resume.
LEMMA ResumeSaving ==
  ASSUME TypeInv, NEW i \in Invocations, Resume(i)
  PROVE  SavesRun
<1> DEFINE crashed == {s \in Steps : HasOpen(jAtt[s])}
           c == Cardinality(crashed)
           order == Ascending(crashed)
           open(s) == CHOOSE n \in Nums : jAtt[s][n].status = "running"
           finish(s) == FinishEvent(s, open(s), Crashed(s))
           closes == [k \in 1..c |-> finish(order[k])]
           changed == crashed # {} \/ (i.unmetered /\ ~snap.unmetered)
           saves == IF run'.status = "RUNNING" \/ changed THEN Saved(run') ELSE <<>>
<1>1. \A s \in crashed : finish(s) \in Unsaved
  <2> TAKE s \in crashed
  <2>1. open(s) \in Nums
    BY DEF HasOpen
  <2> HIDE DEF open
  <2>2. finish(s) \in SoundWrite
    BY <2>1, AttemptTypes, FinishWrite DEF SoundWrite
  <2> QED BY <2>2 DEF FinishEvent, Unsaved
<1>2. c \in Nat /\ \A k \in 1..c : order[k] \in crashed
  BY AscendingTyped
<1>3. outbox' = RestoreWrites(snap, jAtt, run', i)
  BY DEF Resume
<1>4. outbox' = closes \o saves
  BY <1>3 DEF RestoreWrites
<1>5. run' \in SoundRun
  BY ResumeTypes DEF Resume, TypeInv, RunsSound
<1> HIDE DEF crashed, c, order, finish, changed
<1>6. closes \in Seq(Unsaved)
  BY <1>1, <1>2
<1>7. saves \in Seq(PlainWrite) /\ \A e \in Saves(saves) : e.run = run'
  BY <1>5, SavedPlain, SavedSaves, NoSaves, EmptySeq
<1> HIDE DEF closes, saves
<1> QED BY <1>4, <1>6, <1>7 DEF SavesRun

\* And a creation.
LEMMA CreateSaving ==
  ASSUME TypeInv, NEW i \in Invocations, Create(i)
  PROVE  SavesRun
<1>1. pc' # "off" /\ outbox' = Saved(run')
  BY DEF Create
<1>2. run' \in SoundRun
  BY <1>1, CreateTypes DEF TypeInv, RunsSound
<1>3. Saved(run') \in Seq(PlainWrite) /\ <<>> \in Seq(Unsaved)
  BY <1>2, SavedPlain, EmptySeq
<1>4. outbox' = <<>> \o Saved(run')
  <2> DEFINE q == Saved(run')
  <2> HIDE DEF q
  <2>1. <<>> \o q = q
    BY <1>3, ConcatEmptySeq DEF q
  <2> QED BY <1>1, <2>1 DEF q
<1> QED BY <1>3, <1>4, SavedSaves DEF SavesRun

\* The order is kept.
LEMMA NextOrdered == TypeInv /\ EmptyInv /\ Ordered(outbox) /\ [Next]_vars => Ordered(outbox')
<1> SUFFICES ASSUME TypeInv, EmptyInv, Ordered(outbox), [Next]_vars PROVE Ordered(outbox')
  OBVIOUS
<1>1. CASE AttemptEvents(outbox') = {} \/ UNCHANGED outbox \/ SavesRun
  BY <1>1, OrderedPlain, SavingOrdered
<1>2. Quiet => AttemptEvents(outbox') = {}
  BY PlainEvents DEF Quiet
<1>3. ASSUME NEW s \in Steps, OpenAttempt(s) \/ SettleAttempt(s)
      PROVE  AttemptEvents(outbox') = {} \/ UNCHANGED outbox \/ SavesRun
  BY <1>3, OpenSaving, AnswerSaving, LateResult
<1>4. ASSUME NEW i \in Invocations, Create(i) \/ Resume(i) PROVE SavesRun
  BY <1>4, CreateSaving, ResumeSaving
<1>5. CASE Signal
  <2>1. run \in SoundRun /\ executing \subseteq Steps
    BY <1>5 DEF Signal, TypeInv, RunsSound, ControlTyped
  <2>2. UNCHANGED outbox \/ SavesRun
    BY <1>5, <2>1, AbortSaving DEF Signal
  <2> QED BY <1>1, <2>2
<1>6. CASE Flush \/ LoseEvent
  BY <1>6, WriteFacts, OrderedTail
<1>7. CASE Exit \/ Crash
  BY <1>1, <1>7, EmptyEvents DEF Exit, Crash, Gone
<1>8. CASE UNCHANGED vars
  BY <1>1, <1>8 DEF vars
<1> QED BY <1>1, <1>2, <1>3, <1>4, <1>5, <1>6, <1>7, <1>8, StepKinds

----------------------------------------------------------------------------
(* What the steps of a run hold against what their attempts cost.          *)

\* A step without attempts costs nothing.
Costed(a) == Known(a) = {} => Cost(a) = 0

\* projectStepSpend takes no less than the snapshot, and no less than the journal.
LEMMA ProjectedCost ==
  ASSUME NEW a \in [Nums -> Attempt], NEW spend, spend.cost \in Nat, Costed(a)
  PROVE  LET p == ProjectedSpend(spend, a).cost IN
         p \in {spend.cost, Cost(a)} /\ p \in Nat /\ Cost(a) <= p
<1> DEFINE sum == SumAttempts(a)
<1>1. Cost(a) \in Nat /\ sum.cost = Cost(a)
  BY AttemptsTotal
<1>2. PICK u, t : sum = [cost |-> Cost(a), unknown |-> u, tokens |-> t]
  BY AttemptsTotal
<1>3. [sum EXCEPT !.tokens = @ \/ spend.tokens].cost = Cost(a)
  BY <1>2
<1>4. CASE Known(a) = {} \/ sum.cost <= spend.cost
  <2>1. ProjectedSpend(spend, a) = spend
    BY <1>4 DEF ProjectedSpend
  <2> QED BY <1>1, <1>4, <2>1 DEF Costed
<1>5. CASE ~(Known(a) = {} \/ sum.cost <= spend.cost)
  <2>1. ProjectedSpend(spend, a) = [sum EXCEPT !.tokens = @ \/ spend.tokens]
    BY <1>5 DEF ProjectedSpend
  <2> QED BY <1>1, <1>3, <2>1
<1> QED BY <1>4, <1>5

Projectable(saved, attempts) ==
  \A s \in Steps : ProjectedSpend(saved.step[s].spend, attempts[s]).cost \in Nat

\* The run a resume restores holds what was projected: a crash costs nothing.
LEMMA RestoredSpend ==
  ASSUME NEW saved \in SoundRun, NEW statuses \in [Steps -> Statuses], NEW attempts, NEW i,
         Projectable(saved, attempts)
  PROVE  LET r == Restored(saved, statuses, attempts, i) IN
         \A s \in Steps :
           r.step[s].spend.cost = ProjectedSpend(saved.step[s].spend, attempts[s]).cost
<1> DEFINE r == Restored(saved, statuses, attempts, i)
           y(s) == Reconciled(saved.step[s], statuses[s])
           f(s) == ProjectedSpend(saved.step[s].spend, attempts[s])
           z(s) == Selected(y(s), i, s)
           projected == [s \in Steps |-> [y(s) EXCEPT !.spend = f(s)]]
           selected == [s \in Steps |-> Selected(projected[s], i, s)]
           tookWork == \E s \in Steps : Excludes(i, s) /\ projected[s].status \in OwesWork
           hydrated == [saved EXCEPT !.step = selected]
           terminal == AllSettled(hydrated) /\ ~tookWork /\ ~VerdictOwed(hydrated)
           live == Reopened(hydrated, terminal, i)
           last == [s \in Steps |->
                     IF HasOpen(attempts[s])
                     THEN [live.step[s] EXCEPT !.spend = Merge(@, CrashFigure(s))]
                     ELSE live.step[s]]
<1>1. r = [live EXCEPT !.step = last]
  BY DEF Restored
<1>0. \A s \in Steps : f(s).cost \in Nat
  BY DEF Projectable
<1>2. \A s \in Steps : y(s) \in Step /\ z(s) \in Step
  <2> TAKE s \in Steps
  <2>1. saved.step[s] \in Step
    BY DEF SoundRun, Run
  <2>2. y(s) \in Step
    BY <2>1, ReconciledTypes
  <2>3. z(s) \in Step
    BY <2>2, SelectedTypes
  <2> QED BY <2>2, <2>3
<1>3. \A s \in Steps : selected[s] = [z(s) EXCEPT !.spend = f(s)]
  <2> TAKE s \in Steps
  <2>1. y(s) \in Step
    BY <1>2
  <2> HIDE DEF y, f
  <2> QED BY <2>1, SelectedSpend
<1> HIDE DEF y, f, z, projected, terminal
<1>4. live.step = selected /\ r.step = last
  BY <1>1 DEF Reopened, SoundRun, Run
<1>5. \A s \in Steps : last[s].spend.cost = f(s).cost
  <2> TAKE s \in Steps
  <2> HIDE DEF selected, live
  <2>1. z(s) \in Step /\ live.step[s] = [z(s) EXCEPT !.spend = f(s)] /\ f(s).cost \in Nat
    BY <1>0, <1>2, <1>3, <1>4
  <2>2. live.step[s].spend = f(s)
    BY <2>1 DEF Step
  <2>3. \A u, v : Merge(u, v).cost = u.cost + v.cost
    BY DEF Merge
  <2>4. CrashFigure(s).cost = 0
    BY DEF CrashFigure, Silent, NoFigure
  <2>5. CASE HasOpen(attempts[s])
    <3>1. last[s] = [live.step[s] EXCEPT !.spend = Merge(live.step[s].spend, CrashFigure(s))]
      BY <2>5
    <3>2. last[s].spend = Merge(f(s), CrashFigure(s))
      BY <2>1, <2>2, <3>1 DEF Step
    <3>3. last[s].spend.cost = f(s).cost + 0
      BY <2>3, <2>4, <3>2
    <3> QED BY <2>1, <3>3
  <2>6. CASE ~HasOpen(attempts[s])
    BY <2>2, <2>6
  <2> QED BY <2>5, <2>6
<1> HIDE DEF last, live, r, selected
<1> QED BY <1>4, <1>5 DEF r, f

\* An opening spends nothing.
LEMMA OpenSpends ==
  ASSUME TypeInv, NEW s \in Steps, OpenAttempt(s)
  PROVE  Keeps(run', run)
<1>1. run \in SoundRun /\ run' = [run EXCEPT !.step[s].last = NextNumber(s)]
  BY PassStart DEF OpenAttempt
<1> QED BY <1>1 DEF Keeps, SameSpend, SoundRun, Run, Step

\* An answer is charged to its attempt, to its step and to the ledger alike.
LEMMA AnswerSpends ==
  ASSUME TypeInv, NEW s \in Steps, SettleAttempt(s), StillOpen(s)
  PROVE  /\ Last(s) \in Nums /\ run' \in SoundRun
         /\ \A t \in Steps, m \in Nums : t # s \/ m # Last(s) => att'[t][m] = att[t][m]
         /\ att'[s][Last(s)].fig.cost \in Nat
         /\ run'.step[s].spend.cost = run.step[s].spend.cost + att'[s][Last(s)].fig.cost
         /\ \A t \in Steps \ {s} : run'.step[t].spend = run.step[t].spend
         /\ budget'.cum = budget.cum + att'[s][Last(s)].fig.cost
         /\ run'.max = run.max /\ run'.aborted = run.aborted
<1> DEFINE n == Last(s)
           a(res) == [status |-> IF res.ok THEN "done" ELSE "failed", fig |-> res.fig,
                      interrupted |-> FALSE]
           r(res) == [run EXCEPT !.step[s].spend = Merge(@, res.fig),
                          !.exceeded = @ \/ res.cut = "budget",
                          !.unaccounted = @ \/ ProvesUnpriced(res.fig) \/ res.cut = "unpriced"]
<1>1. pc = "pass"
  BY LateResult
<1>2. /\ run \in SoundRun /\ att \in [Steps -> [Nums -> Attempt]] /\ budget \in Budget
      /\ n \in Nums /\ run' \in SoundRun
  BY <1>1, PassStart, SettleFacts, ResultTypes
<1>3. PICK res \in Results(s) :
        /\ Charged(budget, res).cum <= MaxSpend
        /\ att' = [att EXCEPT ![s][n] = a(res)]
        /\ budget' = Charged(budget, res) /\ run' = r(res)
  BY DEF SettleAttempt
<1>4. res.fig.cost \in Nat
  BY ResultsTyped
<1>5. a(res).fig = res.fig
  OBVIOUS
<1> HIDE DEF a
<1>6. /\ \A t \in Steps, m \in Nums : t # s \/ m # n => att'[t][m] = att[t][m]
      /\ att'[s][n] = a(res)
  BY <1>2, <1>3
<1>7. budget'.cum = budget.cum + res.fig.cost
  BY <1>2, <1>3 DEF Charged, Budget
<1>8. /\ run'.step[s].spend = Merge(run.step[s].spend, res.fig)
      /\ \A t \in Steps \ {s} : run'.step[t].spend = run.step[t].spend
      /\ run'.max = run.max /\ run'.aborted = run.aborted
  <2> DEFINE x == [run.step[s] EXCEPT !.spend = Merge(@, res.fig)]
             steps == [run.step EXCEPT ![s] = x]
             ex == run.exceeded \/ res.cut = "budget"
             un == run.unaccounted \/ ProvesUnpriced(res.fig) \/ res.cut = "unpriced"
  <2>1. run \in Run /\ run.step \in [Steps -> Step] /\ run.step[s] \in Step
    BY <1>2 DEF SoundRun, Run
  <2>2. run' = [run EXCEPT !.step = steps, !.exceeded = ex, !.unaccounted = un]
    BY <1>3, <2>1 DEF Run, Step
  <2>3. x.spend = Merge(run.step[s].spend, res.fig)
    BY <2>1 DEF Step
  <2> HIDE DEF x, ex, un
  <2>4. steps[s] = x /\ \A t \in Steps \ {s} : steps[t] = run.step[t]
    BY <2>1
  <2> HIDE DEF steps
  <2>5. run'.max = run.max /\ run'.aborted = run.aborted /\ run'.step = steps
    BY <2>1, <2>2 DEF Run
  <2> QED BY <2>3, <2>4, <2>5
<1>9. \A u, v : Merge(u, v).cost = u.cost + v.cost
  BY DEF Merge
<1> HIDE DEF n, r
<1> QED BY <1>2, <1>4, <1>5, <1>6, <1>7, <1>8, <1>9 DEF n

\* An abort charges its estimate to the attempt and to its step alike.
LEMMA AbortSpends ==
  ASSUME TypeInv, AttemptCosts, Signal
  PROVE  \/ UNCHANGED <<run, att, outbox>>
         \/ /\ SavesRun /\ run'.max = run.max /\ run'.aborted
            /\ \A s \in Steps : \E x \in Nat :
                 /\ Cost(att'[s]) = Cost(att[s]) + x
                 /\ run'.step[s].spend.cost = run.step[s].spend.cost + x
<1>1. /\ run \in SoundRun /\ executing \subseteq Steps /\ att \in [Steps -> [Nums -> Attempt]]
      /\ att' \in [Steps -> [Nums -> Attempt]]
  BY SignalStepTypes DEF Signal, TypeInv, RunsSound, ControlTyped, AttemptsTyped
<1>2. CASE run.status \in Verdicts
  BY <1>2 DEF Signal
<1>3. CASE run.status \notin Verdicts
  <2>1. PICK est \in [Steps -> {0} \cup Prices] :
          /\ WithinSpend(Aborted(est)) /\ run' = Aborted(est)
          /\ att' = [s \in Steps |->
               IF s \in Aborting /\ InFlight(s)
               THEN [att[s] EXCEPT ![Last(s)] = AbortedAttempt(s, est[s])]
               ELSE att[s]]
          /\ outbox' = AbortWrites(est)
    BY <1>3 DEF Signal
  <2>2. SavesRun
    BY <1>1, <2>1, AbortSaving
  <2> DEFINE closes == {s \in Aborting : InFlight(s)}
             step == [s \in Steps |->
               IF s \notin Aborting THEN run.step[s]
               ELSE [run.step[s] EXCEPT !.status = "aborted",
                      !.spend = IF s \in closes THEN Merge(@, LiveFigure(s, est[s])) ELSE @]]
  <2>3. run' = [run EXCEPT !.aborted = TRUE, !.status = "ABORTED", !.step = step]
    BY <2>1 DEF Aborted
  <2>4. \A s \in Steps : step[s].spend = IF s \in closes THEN Merge(run.step[s].spend, LiveFigure(s, est[s]))
                                        ELSE run.step[s].spend
    <3> TAKE s \in Steps
    <3>1. run.step[s] \in Step
      BY <1>1 DEF SoundRun, Run
    <3>2. CASE s \notin Aborting
      BY <3>2
    <3>3. CASE s \in closes
      BY <3>1, <3>3 DEF Step
    <3>4. CASE s \in Aborting /\ s \notin closes
      <4>1. step[s] = [run.step[s] EXCEPT !.status = "aborted", !.spend = run.step[s].spend]
        <5> HIDE DEF closes
        <5> QED BY <3>4
      <4> HIDE DEF step
      <4> QED BY <3>1, <3>4, <4>1 DEF Step
    <3> QED BY <3>2, <3>3, <3>4
  <2> HIDE DEF step
  <2>5. run'.max = run.max /\ run'.aborted /\ run'.step = step
    BY <1>1, <2>3 DEF SoundRun, Run
  <2>6. \A s \in Steps : \E x \in Nat :
           /\ Cost(att'[s]) = Cost(att[s]) + x
           /\ run'.step[s].spend.cost = run.step[s].spend.cost + x
    <3> TAKE s \in Steps
    <3>0. Cost(att[s]) \in Nat /\ run.step[s].spend.cost \in Nat
      BY <1>1, AttemptsTotal, SoundSpent DEF Spent
    <3>1. CASE s \in closes
      <4> DEFINE x == LiveFigure(s, est[s]).cost
      <4>1. Last(s) \in Nums /\ att[s][Last(s)].fig.cost = 0
        BY <3>1, SignalCosts
      <4>2. att'[s] = [att[s] EXCEPT ![Last(s)] = AbortedAttempt(s, est[s])]
        BY <2>1, <3>1
      <4>3. AbortedAttempt(s, est[s]).fig = LiveFigure(s, est[s])
        BY DEF AbortedAttempt
      <4>4. AbortedAttempt(s, est[s]) \in Attempt
        BY <1>1, <2>1, <3>1, AbortedAttemptTyped
      <4>5. x \in Nat
        BY <4>3, <4>4, AttemptAmount
      <4>6. /\ att'[s][Last(s)].fig.cost = x
            /\ \A m \in Nums : m # Last(s) => att'[s][m].fig.cost = att[s][m].fig.cost
        BY <1>1, <4>1, <4>2, <4>3
      <4> DEFINE b == att'[s]
      <4>7. b \in [Nums -> Attempt] /\ att[s] \in [Nums -> Attempt]
        BY <1>1
      <4>8. Cost(b) = Cost(att[s]) + b[Last(s)].fig.cost
        <5> DEFINE k == Last(s)
        <5>1. k \in Nums /\ att[s][k].fig.cost = 0 /\ \A m \in Nums : m # k => b[m].fig.cost = att[s][m].fig.cost
          BY <4>1, <4>6
        <5> HIDE DEF k, b
        <5>2. Cost(b) = Cost(att[s]) + b[k].fig.cost
          BY <4>7, <5>1, CostChange
        <5> QED BY <5>2 DEF k
      <4>9. \A u, v : Merge(u, v).cost = u.cost + v.cost
        BY DEF Merge
      <4>10. run'.step[s].spend.cost = run.step[s].spend.cost + x
        BY <2>4, <2>5, <3>1, <4>9
      <4> HIDE DEF x
      <4> QED BY <4>5, <4>6, <4>8, <4>10
    <3>2. CASE s \notin closes
      <4>1. att'[s] = att[s] /\ run'.step[s].spend = run.step[s].spend
        BY <2>1, <2>4, <2>5, <3>2
      <4> WITNESS 0 \in Nat
      <4> QED BY <3>0, <4>1
    <3> QED BY <3>1, <3>2
  <2> QED BY <2>2, <2>5, <2>6
<1> QED BY <1>2, <1>3

----------------------------------------------------------------------------
(* The ledger.                                                             *)

\* A step holds what its attempts cost, or more where the journal lost some.
Counted ==
  pc # "off" => \A s \in Steps : /\ Cost(att[s]) <= run.step[s].spend.cost
                                 /\ lost = 0 => Cost(att[s]) = run.step[s].spend.cost
SavesHeld == pc # "off" => \A e \in Saves(outbox) : SameSpend(e.run, run)
SnapCounted ==
  lost = 0 /\ snap # NoRun => \A s \in Steps : snap.step[s].spend.cost <= Cost(jAtt[s])

SpendInv == Counted /\ SavesHeld /\ SnapCounted /\ Ordered(outbox)

LEMMA SameSpendLaws ==
  /\ \A q, r : SameSpend(q, r) => SameSpend(r, q)
  /\ \A p, q, r : SameSpend(p, q) /\ SameSpend(q, r) => SameSpend(p, r)
  /\ \A r : SameSpend(r, r)
BY DEF SameSpend

\* A step that leaves attempts, spends and the disk alone.
LEMMA StillSpend ==
  ASSUME SpendInv, pc # "off", SameSpend(run', run), UNCHANGED <<jAtt, snap, lost>>,
         \A s \in Steps : Cost(att'[s]) = Cost(att[s]),
         \A e \in Saves(outbox') : SameSpend(e.run, run'), Ordered(outbox')
  PROVE  SpendInv'
<1>1. Counted'
  BY DEF SpendInv, Counted, SameSpend
<1>2. SavesHeld' /\ SnapCounted'
  BY DEF SpendInv, SavesHeld, SnapCounted
<1> QED BY <1>1, <1>2 DEF SpendInv

\* What is charged to a step was charged to one of its attempts.
LEMMA ChargeSpend ==
  ASSUME TypeInv, SpendInv, pc # "off", UNCHANGED <<jAtt, snap, lost>>, SavesRun,
         \A s \in Steps : \E x \in Nat : /\ Cost(att'[s]) = Cost(att[s]) + x
                                         /\ run'.step[s].spend.cost = run.step[s].spend.cost + x
  PROVE  SpendInv'
<1>1. att \in [Steps -> [Nums -> Attempt]] /\ run \in SoundRun
  BY DEF TypeInv, AttemptsTyped, RunsSound
<1>2. \A s \in Steps : Cost(att[s]) \in Nat /\ run.step[s].spend.cost \in Nat
  BY <1>1, AttemptsTotal, SoundSpent DEF Spent
<1>3. Counted'
  BY <1>2 DEF SpendInv, Counted
<1>4. SavesHeld' /\ Ordered(outbox')
  BY SavingOrdered, SameSpendLaws DEF SavesHeld
<1>5. SnapCounted'
  BY DEF SpendInv, SnapCounted
<1> QED BY <1>3, <1>4, <1>5 DEF SpendInv

LEMMA CreateSpend ==
  ASSUME TypeInv, EmptyInv, NEW i \in Invocations, Create(i)
  PROVE  SpendInv'
<1>1. /\ pc = "off" /\ snap' = NoRun /\ UNCHANGED <<att, lost>>
      /\ run'.step = [s \in Steps |-> NewStep(i, s)]
  BY DEF Create, disk
<1>2. att' = NoAttempts
  BY <1>1 DEF EmptyInv, Blank
<1>3. \A s \in Steps : att'[s] \in [Nums -> Attempt] /\ Cost(att'[s]) = 0
  <2> TAKE s \in Steps
  <2>1. att'[s] \in [Nums -> Attempt] /\ \A n \in Nums : att'[s][n] = NoAttempt
    BY <1>2, NoAttemptsTyped, RecordStatus
  <2>2. \A n \in Nums : att'[s][n].fig.cost = 0
    BY <2>1, RecordCost
  <2> DEFINE b == att'[s]
  <2> HIDE DEF b
  <2>3. Cost(b) = 0
    BY <2>1, <2>2, CostNothing DEF b
  <2> QED BY <2>1, <2>3 DEF b
<1>4. \A s \in Steps : run'.step[s].spend.cost = 0
  BY <1>1 DEF NewStep, NoFigure
<1>5. Counted' /\ SnapCounted'
  BY <1>1, <1>3, <1>4 DEF Counted, SnapCounted
<1> QED BY <1>5, CreateSaving, SavingOrdered, SameSpendLaws DEF SpendInv, SavesHeld

LEMMA ResumeSpend ==
  ASSUME TypeInv, TypeInv', AttemptCosts, SpendInv, NEW i \in Invocations, Resume(i)
  PROVE  SpendInv'
<1>1. /\ pc = "off" /\ snap # NoRun /\ UNCHANGED <<snap, jAtt, lost>>
      /\ run' = Restored(snap, jStatus, jAtt, i)
  BY DEF Resume
<1>2. /\ snap \in SoundRun /\ jAtt \in [Steps -> [Nums -> Attempt]]
      /\ jStatus \in [Steps -> Statuses]
      /\ att' \in [Steps -> [Nums -> Attempt]]
  BY <1>1 DEF TypeInv, RunsSound, AttemptsTyped, DiskTyped
<1>3. \A s \in Steps : /\ snap.step[s].spend.cost \in Nat /\ jAtt[s] \in [Nums -> Attempt]
                       /\ Costed(jAtt[s])
  <2> TAKE s \in Steps
  <2>1. snap.step[s].spend.cost \in Nat /\ jAtt[s] \in [Nums -> Attempt]
    BY <1>2, SoundSpent DEF Spent
  <2>2. Known(jAtt[s]) = {} => \A n \in Nums : jAtt[s][n].fig.cost = 0
    BY DEF AttemptCosts, Costless, Known, Closed
  <2> QED BY <2>1, <2>2, CostNothing DEF Costed
<1> DEFINE p(s) == ProjectedSpend(snap.step[s].spend, jAtt[s]).cost
<1>4. \A s \in Steps : /\ p(s) \in {snap.step[s].spend.cost, Cost(jAtt[s])}
                       /\ p(s) \in Nat /\ Cost(jAtt[s]) <= p(s) /\ Cost(jAtt[s]) \in Nat
  BY <1>3, ProjectedCost, AttemptsTotal
<1>5. Projectable(snap, jAtt)
  BY <1>4 DEF Projectable
<1>6. \A s \in Steps : run'.step[s].spend.cost = p(s)
  <2> HIDE DEF p
  <2>1. \A s \in Steps : Restored(snap, jStatus, jAtt, i).step[s].spend.cost = p(s)
    BY <1>2, <1>5, RestoredSpend DEF p
  <2> QED BY <1>1, <2>1
<1> HIDE DEF p
<1>7. \A s \in Steps : Cost(att'[s]) = Cost(jAtt[s])
  <2> TAKE s \in Steps
  <2> DEFINE b == att'[s]
  <2>1. b \in [Nums -> Attempt] /\ \A n \in Nums : b[n].fig.cost = jAtt[s][n].fig.cost
    BY <1>2, ResumeCosts
  <2> HIDE DEF b
  <2>2. Cost(b) = Cost(jAtt[s])
    BY <1>3, <2>1, CostSame
  <2> QED BY <2>2 DEF b
<1>8. lost = 0 => \A s \in Steps : snap.step[s].spend.cost <= Cost(jAtt[s])
  BY <1>1 DEF SpendInv, SnapCounted
<1>9. ASSUME NEW s \in Steps
      PROVE  /\ Cost(att'[s]) <= run'.step[s].spend.cost
             /\ lost' = 0 => Cost(att'[s]) = run'.step[s].spend.cost
  <2>1. Cost(jAtt[s]) <= p(s)
    BY <1>4
  <2>2. lost = 0 => p(s) = Cost(jAtt[s])
    BY <1>3, <1>4, <1>8
  <2> QED BY <1>1, <1>6, <1>7, <2>1, <2>2
<1>10. Counted'
  BY <1>9 DEF Counted
<1>11. SavesHeld' /\ Ordered(outbox')
  BY ResumeSaving, SavingOrdered, SameSpendLaws DEF SavesHeld
<1>12. SnapCounted'
  BY <1>1, <1>8 DEF SnapCounted
<1> QED BY <1>10, <1>11, <1>12 DEF SpendInv

\* A snapshot reaches the disk after the attempts it counts.
LEMMA WriteSpend ==
  ASSUME TypeInv, TypeInv', EmptyInv, MirrorInv, AttemptCosts, SpendInv, Flush \/ LoseEvent
  PROVE  SpendInv'
<1> DEFINE e == Head(outbox)
<1>1. /\ outbox # <<>> /\ pc # "off" /\ outbox' = Tail(outbox)
      /\ e \in SoundWrite /\ outbox \in Seq(SoundWrite) /\ UNCHANGED <<pc, run, att>>
      /\ LoseEvent => lost' # 0 /\ UNCHANGED <<jAtt, snap>>
      /\ Flush => /\ UNCHANGED lost /\ snap' = IF e.kind = "save" THEN e.run ELSE snap
                  /\ ~IsAttempt(e) => UNCHANGED jAtt
                  /\ IsAttempt(e) =>
                       /\ e.step \in Steps /\ e.n \in Nums
                       /\ \A s \in Steps, n \in Nums :
                            jAtt'[s][n] = IF s = e.step /\ n = e.n
                                          THEN IF e.kind = "start" THEN OpenRecord ELSE e.attempt
                                          ELSE jAtt[s][n]
  BY WriteFacts DEF memory
<1>2. /\ Writes(outbox) = {e} \cup Writes(outbox') /\ e \in Writes(outbox)
      /\ Ordered(outbox') /\ (e.kind = "save" => AttemptEvents(outbox) = {})
      /\ IsAttempt(e) => e \in AttemptEvents(outbox)
  BY <1>1, TailWrites, OrderedTail, TailEvents DEF SpendInv
<1> HIDE DEF e
<1>3. jAtt \in [Steps -> [Nums -> Attempt]] /\ jAtt' \in [Steps -> [Nums -> Attempt]]
  BY DEF TypeInv, AttemptsTyped
<1>4. lost \in Nat
  BY DEF TypeInv, DiskTyped
<1>5. Counted'
  BY <1>1 DEF SpendInv, Counted
<1>6. SavesHeld'
  BY <1>1, <1>2 DEF SpendInv, SavesHeld, Saves
<1>7. ASSUME lost' = 0, snap' # NoRun, NEW s \in Steps
      PROVE  snap'.step[s].spend.cost <= Cost(jAtt'[s])
  <2>1. Flush /\ lost = 0 /\ Mirror
    BY <1>1, <1>7 DEF MirrorInv
  <2>2. CASE e.kind = "save"
    <3>1. snap' = e.run /\ UNCHANGED jAtt /\ SameSpend(e.run, run) /\ AttemptEvents(outbox) = {}
      BY <1>1, <1>2, <2>1, <2>2 DEF IsAttempt, SpendInv, SavesHeld, Saves
    <3>2. \A n \in Nums : att[s][n] = jAtt[s][n]
      BY <1>1, <2>1, <3>1 DEF Mirror, Announced
    <3>3. att[s] \in [Nums -> Attempt] /\ jAtt[s] \in [Nums -> Attempt]
      BY <1>3 DEF TypeInv, AttemptsTyped
    <3>4. Cost(att[s]) = Cost(jAtt[s]) /\ Cost(jAtt[s]) \in Nat
      BY <3>2, <3>3, CostSame, AttemptsTotal
    <3>5. snap'.step[s].spend.cost = Cost(att[s])
      BY <1>1, <2>1, <3>1 DEF SpendInv, Counted, SameSpend
    <3> QED BY <3>1, <3>4, <3>5
  <2>3. CASE e.kind # "save"
    <3>1. snap' = snap /\ snap.step[s].spend.cost <= Cost(jAtt[s])
      BY <1>1, <1>7, <2>1, <2>3 DEF SpendInv, SnapCounted
    <3>2. \A n \in Nums : jAtt[s][n].fig.cost <= jAtt'[s][n].fig.cost
      <4> TAKE n \in Nums
      <4>0. jAtt[s][n].fig.cost \in Nat
        BY <1>3, AttemptAmount
      <4>1. CASE ~(IsAttempt(e) /\ s = e.step /\ n = e.n)
        BY <1>1, <2>1, <4>0, <4>1
      <4>2. CASE IsAttempt(e) /\ s = e.step /\ n = e.n
        <5>1. EventTrue(e) /\ jAtt[s][n].fig.cost <= att[s][n].fig.cost
          BY <1>1, <1>2, <2>1, <4>2 DEF Mirror, AttemptCosts, JournalBelow
        <5>2. CASE e.kind = "start"
          BY <1>1, <2>1, <4>2, <5>1, <5>2 DEF EventTrue
        <5>3. CASE e.kind = "finish"
          BY <1>1, <2>1, <4>2, <5>1, <5>3 DEF EventTrue
        <5> QED BY <4>2, <5>2, <5>3 DEF IsAttempt
      <4> QED BY <4>1, <4>2
    <3> DEFINE b == jAtt'[s]
    <3>3. jAtt[s] \in [Nums -> Attempt] /\ b \in [Nums -> Attempt]
      BY <1>3
    <3> HIDE DEF b
    <3>4. Cost(jAtt[s]) <= Cost(b) /\ Cost(b) \in Nat /\ Cost(jAtt[s]) \in Nat
      BY <3>2, <3>3, CostLess, AttemptsTotal DEF b
    <3>5. snap.step[s].spend.cost \in Nat
      BY <1>7, <3>1, SoundSpent DEF TypeInv, RunsSound, Spent
    <3> QED BY <3>1, <3>4, <3>5 DEF b
  <2> QED BY <2>2, <2>3
<1>8. SnapCounted'
  BY <1>7 DEF SnapCounted
<1> QED BY <1>2, <1>5, <1>6, <1>8 DEF SpendInv

LEMMA InitSpend == Init => SpendInv
<1> SUFFICES ASSUME Init PROVE SpendInv
  OBVIOUS
<1>1. pc = "off" /\ outbox = <<>> /\ snap = NoRun
  BY DEF Init
<1> QED BY <1>1, EmptyEvents, OrderedPlain DEF SpendInv, Counted, SavesHeld, SnapCounted

LEMMA NextSpend ==
  TypeInv /\ TypeInv' /\ EmptyInv /\ MirrorInv /\ AttemptCosts /\ SpendInv /\ [Next]_vars
    => SpendInv'
<1> SUFFICES ASSUME TypeInv, TypeInv', EmptyInv, MirrorInv, AttemptCosts, SpendInv, [Next]_vars
             PROVE  SpendInv'
  OBVIOUS
<1>0. Ordered(outbox')
  BY NextOrdered DEF SpendInv
<1>1. att \in [Steps -> [Nums -> Attempt]] /\ att' \in [Steps -> [Nums -> Attempt]]
  BY DEF TypeInv, AttemptsTyped
<1>2. CASE Thrifty
  <2>1. /\ pc # "off" /\ UNCHANGED <<att, jAtt, snap, lost>> /\ SameSpend(run', run)
        /\ \A e \in Saves(outbox') : SameSpend(e.run, run)
    BY <1>2 DEF Thrifty, Quiet, Keeps
  <2>2. \A e \in Saves(outbox') : SameSpend(e.run, run')
    BY <2>1, SameSpendLaws
  <2> QED BY <1>0, <2>1, <2>2, StillSpend
<1>3. CASE OpenLedger
  <2>1. /\ pc # "off" /\ UNCHANGED <<att, jAtt, snap, lost>> /\ outbox' = <<>>
        /\ \E x : run' = [run EXCEPT !.unaccounted = x]
    BY <1>3 DEF OpenLedger, disk, history
  <2>2. SameSpend(run', run)
    BY <2>1 DEF TypeInv, RunsSound, SoundRun, Run, SameSpend
  <2> QED BY <1>0, <2>1, <2>2, NoSaves, StillSpend
<1>4. ASSUME NEW s \in Steps, OpenAttempt(s) PROVE SpendInv'
  <2>1. pc = "pass" /\ UNCHANGED <<jAtt, snap, lost>>
    BY <1>4, OpenFacts DEF AttemptFrame
  <2>2. SameSpend(run', run) /\ \A e \in Saves(outbox') : SameSpend(e.run, run')
    BY <1>4, OpenSpends, OpenSaving, SavingOrdered, SameSpendLaws DEF Keeps
  <2>3. ASSUME NEW t \in Steps PROVE Cost(att'[t]) = Cost(att[t])
    <3> DEFINE b == att'[t]
    <3>1. att[t] \in [Nums -> Attempt] /\ b \in [Nums -> Attempt]
      BY <1>1
    <3>2. \A m \in Nums : b[m].fig.cost = att[t][m].fig.cost
      BY <1>4, OpenCosts
    <3> HIDE DEF b
    <3>3. Cost(b) = Cost(att[t])
      BY <3>1, <3>2, CostSame
    <3> QED BY <3>3 DEF b
  <2> QED BY <1>0, <2>1, <2>2, <2>3, StillSpend
<1>5. ASSUME NEW s \in Steps, SettleAttempt(s) PROVE SpendInv'
  <2>1. pc = "pass" /\ outbox = <<>> /\ UNCHANGED <<jAtt, snap, lost>>
    BY <1>5, LateResult DEF AttemptFrame
  <2>2. CASE ~StillOpen(s)
    <3>1. UNCHANGED <<run, att, outbox>>
      BY <1>5, <2>2 DEF SettleAttempt
    <3> QED BY <1>0, <2>1, <3>1, NoSaves, SameSpendLaws, StillSpend
  <2>3. CASE StillOpen(s)
    <3> DEFINE k == Last(s)
               x == att'[s][k].fig.cost
    <3>1. /\ k \in Nums /\ x \in Nat
          /\ \A t \in Steps, m \in Nums : t # s \/ m # k => att'[t][m] = att[t][m]
          /\ run'.step[s].spend.cost = run.step[s].spend.cost + x
          /\ \A t \in Steps \ {s} : run'.step[t].spend = run.step[t].spend
      BY <1>5, <2>3, AnswerSpends
    <3>2. att[s][k].fig.cost = 0
      BY <1>5, <2>3, SettleCosts
    <3>3. run.step \in [Steps -> Step]
      BY <2>1 DEF TypeInv, RunsSound, SoundRun, Run
    <3> HIDE DEF k
    <3>4. ASSUME NEW t \in Steps
          PROVE  \E y \in Nat : /\ Cost(att'[t]) = Cost(att[t]) + y
                                /\ run'.step[t].spend.cost = run.step[t].spend.cost + y
      <4> DEFINE b == att'[t]
      <4>1. att[t] \in [Nums -> Attempt] /\ b \in [Nums -> Attempt] /\ Cost(att[t]) \in Nat
        BY <1>1, AttemptsTotal
      <4>2. CASE t = s
        <5>1. \A m \in Nums : m # k => b[m].fig.cost = att[t][m].fig.cost
          BY <3>1, <4>2
        <5>2. b[k].fig.cost = x
          BY <4>2
        <5> HIDE DEF b, x
        <5>3. Cost(b) = Cost(att[t]) + x
          BY <3>1, <3>2, <4>1, <4>2, <5>1, <5>2, CostChange
        <5> QED BY <3>1, <4>2, <5>3 DEF b
      <4>3. CASE t # s
        <5>1. \A m \in Nums : b[m].fig.cost = att[t][m].fig.cost
          BY <3>1, <4>3
        <5>2. run'.step[t].spend = run.step[t].spend /\ run.step[t].spend.cost \in Nat
          BY <2>1, <3>1, <4>3, SoundSpent DEF TypeInv, RunsSound, Spent
        <5> HIDE DEF b
        <5>3. Cost(b) = Cost(att[t])
          BY <4>1, <5>1, CostSame
        <5> WITNESS 0 \in Nat
        <5> QED BY <4>1, <5>2, <5>3 DEF b
      <4> QED BY <4>2, <4>3
    <3>5. SavesRun
      BY <1>5, <2>3, AnswerSaving
    <3> QED BY <2>1, <3>4, <3>5, ChargeSpend
  <2> QED BY <2>2, <2>3
<1>6. ASSUME NEW i \in Invocations, Create(i) \/ Resume(i) PROVE SpendInv'
  BY <1>6, CreateSpend, ResumeSpend
<1>7. CASE Signal
  <2>1. pc # "off" /\ outbox = <<>> /\ UNCHANGED <<jAtt, snap, lost>>
    BY <1>7 DEF Signal, Busy, disk, history
  <2>2. CASE UNCHANGED <<run, att, outbox>>
    BY <1>0, <2>1, <2>2, NoSaves, SameSpendLaws, StillSpend
  <2>3. CASE ~UNCHANGED <<run, att, outbox>>
    BY <1>7, <2>1, <2>3, AbortSpends, ChargeSpend
  <2> QED BY <2>2, <2>3
<1>8. CASE Flush \/ LoseEvent
  BY <1>8, WriteSpend
<1>9. CASE Exit \/ Crash
  <2>1. pc' = "off" /\ outbox' = <<>> /\ UNCHANGED <<jAtt, snap, lost>>
    BY <1>9 DEF Exit, Crash, Gone, disk, history
  <2> QED BY <1>0, <2>1 DEF SpendInv, Counted, SavesHeld, SnapCounted
<1>10. CASE UNCHANGED vars
  <2>1. UNCHANGED <<pc, run, att, outbox, jAtt, snap, lost>>
    BY <1>10 DEF vars, memory, disk, history
  <2> QED BY <1>0, <2>1 DEF SpendInv, Counted, SavesHeld, SnapCounted
<1> QED BY <1>2, <1>3, <1>4, <1>5, <1>6, <1>7, <1>8, <1>9, <1>10, SpendKinds

----------------------------------------------------------------------------
(* The gate.                                                               *)

\* The ledger is what the steps of the run spent, and a step on its way to an
\* attempt passed the gate at the spending of now.
LedgerIs ==
  pc \in {"admit", "pass", "ending", "done"} /\ ~run.aborted => budget.cum = RunCost(run)
NoneAdmitted == pc = "booted" => admitted = {}
Gate == Gated => run.max = 0 \/ budget.cum < run.max

LedgerInv == LedgerIs /\ NoneAdmitted /\ Gate

\* The rest of memory is as it was, but for what no ledger reads.
LEMMA StillLedger ==
  ASSUME TypeInv, LedgerInv, pc # "off", pc # "booted", pc' # "booted", UNCHANGED budget,
         Keeps(run', run), Gated' => Gated \/ Granted
  PROVE  LedgerInv'
<1>1. /\ run \in SoundRun /\ budget.cum \in Nat /\ run.max \in Nat
      /\ pc \in {"admit", "pass", "ending", "done"}
  BY DEF TypeInv, RunsSound, LedgerTyped, ControlTyped, Places, Budget, SoundRun, Run
<1>2. RunCost(run') = RunCost(run)
  BY <1>1, SoundSpent, RunCostSame DEF Keeps
<1>3. LedgerIs'
  BY <1>1, <1>2 DEF LedgerInv, LedgerIs, Keeps
<1>4. Granted => run.max = 0 \/ budget.cum < run.max
  BY <1>1 DEF Granted, CostDecision
<1>5. Gate'
  BY <1>4 DEF LedgerInv, Gate, Keeps
<1> QED BY <1>3, <1>5 DEF LedgerInv, NoneAdmitted

\* Before the loop of units and after it, no step is on its way.
LEMMA OffTheWay ==
  ASSUME \A s \in Steps : stage[s] = "idle", pc # "admit" \/ admitted = {}
  PROVE  ~Gated
BY DEF Gated

LEMMA OpenedLedger ==
  ASSUME TypeInv, LedgerInv, OpenLedger
  PROVE  LedgerInv'
<1>1. /\ pc = "booted" /\ pc' = "admit" /\ budget'.cum = RunCost(run)
      /\ UNCHANGED <<stage, admitted>> /\ run \in SoundRun
      /\ \E x : run' = [run EXCEPT !.unaccounted = x]
  BY DEF OpenLedger, TypeInv, RunsSound
<1>2. Keeps(run', run)
  BY <1>1 DEF Keeps, SameSpend, SoundRun, Run
<1>3. RunCost(run') = RunCost(run)
  BY <1>1, <1>2, SoundSpent, RunCostSame DEF Keeps
<1>4. ~Gated'
  BY <1>1, NoPass DEF LedgerInv, NoneAdmitted, Gated
<1> QED BY <1>1, <1>3, <1>4 DEF LedgerInv, LedgerIs, NoneAdmitted, Gate

\* An answer comes when no step is on its way.
LEMMA AnsweredLedger ==
  ASSUME TypeInv, LedgerInv, NEW s \in Steps, SettleAttempt(s)
  PROVE  LedgerInv'
<1>1. /\ pc = "pass" /\ pc' = "pass" /\ run \in SoundRun
      /\ \A t \in Steps : stage[t] \notin {"admitted", "started"}
      /\ \A t \in Steps : stage'[t] \notin {"admitted", "started"}
  <2>1. /\ \A t \in Steps : stage[t] \notin {"admitted", "started"}
        /\ pc' = pc
    BY DEF SettleAttempt, Busy, PassFrame
  <2> QED BY <2>1, LateResult, PassStart
<1>2. ~Gated'
  BY <1>1 DEF Gated
<1>3. budget.cum \in Nat
  BY <1>1, PassStart DEF Budget
<1>4. CASE ~StillOpen(s)
  <2>1. UNCHANGED <<run, budget>>
    BY <1>4 DEF SettleAttempt
  <2> QED BY <1>1, <1>2, <2>1 DEF LedgerInv, LedgerIs, NoneAdmitted, Gate
<1>5. CASE StillOpen(s)
  <2> DEFINE x == att'[s][Last(s)].fig.cost
             q == run'
  <2>1. /\ x \in Nat /\ q \in SoundRun /\ budget'.cum = budget.cum + x
        /\ q.step[s].spend.cost = run.step[s].spend.cost + x
        /\ \A t \in Steps \ {s} : q.step[t].spend = run.step[t].spend
        /\ q.aborted = run.aborted
    BY <1>5, AnswerSpends
  <2> HIDE DEF x, q
  <2>2. RunCost(q) = RunCost(run) + x
    BY <1>1, <2>1, SoundSpent, RunCostChange
  <2>3. ~run.aborted => budget.cum = RunCost(run)
    BY <1>1 DEF LedgerInv, LedgerIs
  <2>4. LedgerIs'
    BY <2>1, <2>2, <2>3 DEF LedgerIs, q
  <2> QED BY <1>1, <1>2, <2>4 DEF LedgerInv, NoneAdmitted, Gate
<1> QED BY <1>4, <1>5

LEMMA InitLedger == Init => LedgerInv
<1> SUFFICES ASSUME Init PROVE LedgerInv
  OBVIOUS
<1>1. pc = "off" /\ stage = Idle
  BY DEF Init
<1> QED BY <1>1, NothingUnderWay DEF LedgerInv, LedgerIs, NoneAdmitted, Gate, Gated

LEMMA NextLedger ==
  ASSUME TypeInv, EmptyInv, AttemptCosts, LedgerInv, [Next]_vars
  PROVE  LedgerInv'
<1>1. CASE Thrifty
  BY <1>1, StillLedger DEF Thrifty, Quiet
<1>2. CASE OpenLedger
  BY <1>2, OpenedLedger
<1>3. ASSUME NEW s \in Steps, OpenAttempt(s) PROVE LedgerInv'
  <2>1. /\ pc = "pass" /\ pc' = "pass" /\ UNCHANGED <<budget, admitted>> /\ stage \in [Steps -> Stages]
        /\ stage' = [stage EXCEPT ![s] = "opened"]
    BY <1>3, PassStart DEF OpenAttempt, PassFrame
  <2>2. Gated' => Gated
    BY <2>1 DEF Gated
  <2> QED BY <1>3, <2>1, <2>2, OpenSpends, StillLedger
<1>4. ASSUME NEW s \in Steps, SettleAttempt(s) PROVE LedgerInv'
  BY <1>4, AnsweredLedger
<1>5. ASSUME NEW i \in Invocations, Create(i) \/ Resume(i) PROVE LedgerInv'
  <2>1. pc = "off" /\ pc' = "booted" /\ UNCHANGED <<stage, admitted>> /\ admitted = {}
    BY <1>5 DEF Create, Resume, EmptyInv, Blank
  <2>2. ~Gated'
    BY <2>1, NoPass DEF Gated
  <2> QED BY <2>1, <2>2 DEF LedgerInv, LedgerIs, NoneAdmitted, Gate
<1>6. CASE Signal
  <2>1. UNCHANGED <<pc, stage, budget, admitted>>
    BY <1>6 DEF Signal
  <2>2. run' = run \/ (run'.max = run.max /\ run'.aborted)
    BY <1>6, AbortSpends
  <2>3. Gated' <=> Gated
    BY <2>1 DEF Gated
  <2> QED BY <2>1, <2>2, <2>3 DEF LedgerInv, LedgerIs, NoneAdmitted, Gate
<1>7. CASE Flush \/ LoseEvent \/ UNCHANGED vars
  <2>1. UNCHANGED <<pc, stage, budget, admitted, run>>
    BY <1>7 DEF Flush, LoseEvent, vars, memory
  <2>2. Gated' <=> Gated
    BY <2>1 DEF Gated
  <2> QED BY <2>1, <2>2 DEF LedgerInv, LedgerIs, NoneAdmitted, Gate
<1>8. CASE Exit \/ Crash
  <2>1. pc' = "off" /\ stage' = Idle
    BY <1>8 DEF Exit, Crash, Gone
  <2> QED BY <2>1, NothingUnderWay DEF LedgerInv, LedgerIs, NoneAdmitted, Gate, Gated
<1> QED BY <1>1, <1>2, <1>3, <1>4, <1>5, <1>6, <1>7, <1>8, SpendKinds

----------------------------------------------------------------------------
(* The ledger against the journal.                                         *)

SpendingInv == AttemptCosts /\ SpendInv /\ LedgerInv

\* The journal holds no more than the steps of the run; all of it, once it is
\* written and nothing of it was lost.
LEMMA JournalHeld ==
  ASSUME TypeInv, MirrorInv, SpendingInv, pc # "off"
  PROVE  /\ JournalCost \in Nat /\ JournalCost <= RunCost(run)
         /\ lost = 0 /\ outbox = <<>> => JournalCost = RunCost(run)
<1>1. /\ run \in SoundRun /\ Spent(run) /\ jAtt \in [Steps -> [Nums -> Attempt]]
      /\ att \in [Steps -> [Nums -> Attempt]]
  BY SoundSpent DEF TypeInv, RunsSound, AttemptsTyped
<1>2. ASSUME NEW s \in Steps
      PROVE  /\ Cost(jAtt[s]) <= run.step[s].spend.cost
             /\ lost = 0 /\ outbox = <<>> => Cost(jAtt[s]) = run.step[s].spend.cost
  <2> DEFINE a == att[s]
             j == jAtt[s]
  <2>1. /\ a \in [Nums -> Attempt] /\ j \in [Nums -> Attempt]
        /\ \A n \in Nums : j[n].fig.cost <= a[n].fig.cost
    BY <1>1 DEF SpendingInv, AttemptCosts, JournalBelow
  <2>2. /\ Cost(a) <= run.step[s].spend.cost
        /\ lost = 0 => Cost(a) = run.step[s].spend.cost
    BY DEF SpendingInv, SpendInv, Counted
  <2>3. run.step[s].spend.cost \in Nat
    BY <1>1 DEF Spent
  <2>4. ASSUME lost = 0, outbox = <<>> PROVE a = j
    <3>1. \A n \in Nums : a[n] = j[n]
      BY <2>4, EmptyEvents DEF MirrorInv, Mirror, Announced
    <3> QED BY <2>1, <3>1
  <2> HIDE DEF a, j
  <2>5. Cost(j) <= Cost(a) /\ Cost(j) \in Nat /\ Cost(a) \in Nat
    BY <2>1, CostLess, AttemptsTotal
  <2> QED BY <2>2, <2>3, <2>4, <2>5 DEF a, j
<1>3. /\ JournalCost \in Nat /\ JournalCost <= RunCost(run)
      /\ (\A s \in Steps : Cost(jAtt[s]) = run.step[s].spend.cost) => JournalCost = RunCost(run)
  BY <1>1, <1>2, JournalBound
<1> QED BY <1>2, <1>3

LEMMA SpendingInvariant ==
  Spec => [](TypeInv /\ EmptyInv /\ MirrorInv /\ NumbersInv /\ SpendingInv)
<1>1. Init => SpendingInv
  BY InitCosts, InitSpend, InitLedger DEF SpendingInv
<1>2. TypeInv /\ TypeInv' /\ EmptyInv /\ MirrorInv /\ SpendingInv /\ [Next]_vars => SpendingInv'
  BY NextCosts, NextSpend, NextLedger DEF SpendingInv
<1> QED BY <1>1, <1>2, InitTypes, NextTypes, InitEmpty, NextEmpty, InitMirror, NextMirror,
           InitNumbers, NextNumbers, PTL DEF Spec

\* The ledger that gates spending holds each journaled dollar, whatever appends
\* were lost, and exactly once when none was: a crash between the journal and the
\* snapshot neither loses a charge nor doubles it (cost-accounting.ts
\* projectStepSpend, openRunLedger).
THEOREM LedgerIsTheJournal == Spec => []LedgerMatchesJournal
<1>1. TypeInv /\ MirrorInv /\ SpendingInv => LedgerMatchesJournal
  <2> SUFFICES ASSUME TypeInv, MirrorInv, SpendingInv, AtRest,
                      pc \in {"admit", "pass", "ending", "done"}
               PROVE  budget.cum >= JournalCost /\ (lost = 0 => budget.cum = JournalCost)
    BY DEF LedgerMatchesJournal
  <2>1. budget.cum = RunCost(run) /\ budget.cum \in Nat
    BY DEF TypeInv, LedgerTyped, Budget, AtRest, Stopping, SpendingInv, LedgerInv, LedgerIs
  <2> QED BY <2>1, JournalHeld DEF AtRest
<1> QED BY <1>1, SpendingInvariant, PTL

\* An attempt is opened under a ceiling only while the journal adds up to less
\* than it, over all the executions of the run: nothing a sibling of the group
\* spent between the gate and the opening is missed (cost-stop-events.ts costGate).
THEOREM GateIsHeld == Spec => GateHolds
<1> DEFINE Within == \A s \in Steps : Opens(s) /\ run.max # 0 => JournalCost < run.max
<1>1. TypeInv /\ MirrorInv /\ NumbersInv /\ SpendingInv /\ [Next]_vars => Within
  <2> SUFFICES ASSUME TypeInv, MirrorInv, NumbersInv, SpendingInv, [Next]_vars,
                      NEW s \in Steps, Opens(s), run.max # 0
               PROVE  JournalCost < run.max
    OBVIOUS
  <2>1. pc = "pass" /\ stage[s] = "started"
    BY OnlyOpens DEF OpenAttempt
  <2>2. ~run.aborted
    BY <2>1 DEF NumbersInv, Undisturbed, Pending
  <2>3. budget.cum = RunCost(run) /\ budget.cum \in Nat /\ budget.cum < run.max
    BY <2>1, <2>2 DEF TypeInv, LedgerTyped, Budget, SpendingInv, LedgerInv, LedgerIs, Gate, Gated
  <2>4. run.max \in Nat
    BY <2>1, PassStart DEF SoundRun, Run
  <2> QED BY <2>1, <2>3, <2>4, JournalHeld
<1>2. TypeInv /\ MirrorInv /\ NumbersInv /\ SpendingInv /\ [Next]_vars => [Within]_vars
  BY <1>1
<1> QED BY <1>2, SpendingInvariant, PTL DEF Spec, GateHolds

----------------------------------------------------------------------------
(* What a handled signal leaves behind.                                    *)

\* Without a group the unit is one step, and its pass alone speaks for it.
OneByOne == \A s, t \in admitted : s = t
StopsAlone == pc = "pass" /\ stop # NoStop => \A s \in Steps : stage[s] \in {"idle", "ended"}

\* A signal falls between two synchronous stretches, and no new one follows it.
Signalled ==
  /\ pc = "pass" /\ run.aborted => requested
  /\ requested => \A s \in Steps : stage[s] \notin Pending

\* The handler finds every pass under way among the steps it executes.
Executed == \A s \in Steps : stage[s] \in Work /\ ~run.aborted => s \in executing

\* A pass that stops the run before the signal is what may keep the handler away.
Uncontested == stop = NoStop \/ run.aborted
NoneOpen ==
  requested /\ lost = 0 /\ Uncontested => \A s \in Steps, n \in Nums : att[s][n].status # "running"

Ungrouped == Group = {} => OneByOne /\ StopsAlone
SignalInv == Ungrouped /\ Signalled /\ Executed /\ NoneOpen

\* What holds of the passes holds when there are none.
LEMMA OutOfPass ==
  ASSUME TypeInv', MirrorInv', pc' # "pass"
  PROVE  StopsAlone' /\ Signalled' /\ Executed' /\ NoneOpen'
<1>1. \A s \in Steps : stage'[s] = "idle"
  BY DEF TypeInv, PassTyped, Idle
<1>2. NoneOpen'
  BY <1>1 DEF MirrorInv, Mirror, InAttempt, NoneOpen
<1> QED BY <1>1, <1>2 DEF StopsAlone, Signalled, Executed, Pending, Work

\* The loop goes on to the next step once it has admitted one.
LEMMA AdmissionAlone ==
  ASSUME TypeInv, SettledInv, Group = {}, OneByOne, Admission
  PROVE  OneByOne'
<1>1. PICK s \in Steps :
        \/ PassOver(s) \/ CostStopsAdmission(s) \/ WhenSkips(s) \/ WhenStops(s)
        \/ AdmissionFails(s) \/ AdmissionAbsorbed(s) \/ NeedsDecision(s) \/ Admit(s)
  BY DEF Admission
<1>2. CASE admitted' = admitted \/ admitted' = {}
  BY <1>2 DEF OneByOne
<1>3. CASE Admit(s)
  <2>1. pc = "admit" /\ cursor = s /\ ~UnitClosed /\ admitted' = admitted \cup {s}
    BY <1>3 DEF Admit, Funded, Considers
  <2>2. admitted \subseteq Steps /\ cursor \in Nat /\ Steps \subseteq Nat
    BY DEF TypeInv, ControlTyped, Steps
  <2>3. UNION {Unit(t) : t \in admitted} = admitted
    BY DEF Unit
  <2>4. \A t \in admitted : t < cursor
    BY <2>1, <2>2 DEF SettledInv, AdmittedOwed, Waits
  <2>5. admitted = {}
    BY <2>1, <2>2, <2>3, <2>4 DEF UnitClosed
  <2> QED BY <2>1, <2>5 DEF OneByOne
<1> QED BY <1>1, <1>2, <1>3 DEF PassOver, CostStopsAdmission, WhenSkips, WhenStops,
       AdmissionFails, AdmissionAbsorbed, NeedsDecision, BreakLoop

\* A verdict or an interruption ends the pass of the one step under way.
LEMMA EndsAlone ==
  ASSUME TypeInv, TypeInv', UnitInv, SignalInv, NEW s \in Steps,
         \/ Succeed(s) \/ Abandon(s) \/ CutShort(s) \/ StopBlocked(s) \/ Absorb(s)
         \/ Fail(s) \/ CostStopsRetry(s)
  PROVE  SignalInv'
<1>1. /\ Quiet /\ Thrifty
      /\ pc = "pass" /\ stage[s] = "settled" /\ EndPass(s)
  BY EndsQuiet, EndsThrift DEF Succeed, Abandon, CutShort, StopBlocked, Absorb, Fail,
     CostStopsRetry, MayRetry, Exhausted, Blocked, Refused, Resolves
<1>2. /\ UNCHANGED <<pc, admitted, requested, att, lost>> /\ run'.aborted = run.aborted
      /\ stage \in [Steps -> Stages] /\ stage' = [stage EXCEPT ![s] = "ended"]
  BY <1>1, PassStart DEF EndPass, PassFrame, Quiet, Thrifty, Keeps
<1>3. Signalled' /\ NoneOpen'
  <2>1. stop' = NoStop => stop = NoStop
    <3>1. stop \in Signals
      BY <1>1, PassStart
    <3>2. stop' \in {stop, [stop EXCEPT !.failed = TRUE], [stop EXCEPT !.stopped = TRUE]}
      BY DEF Succeed, Abandon, CutShort, StopBlocked, Absorb, Fail, CostStopsRetry
    <3> QED BY <3>1, <3>2 DEF NoStop, Signals
  <2> QED BY <1>2, <2>1 DEF SignalInv, Signalled, NoneOpen, Uncontested, Pending
<1>4. Ungrouped'
  <2> SUFFICES ASSUME OneByOne PROVE OneByOne' /\ StopsAlone'
    BY DEF SignalInv, Ungrouped
  <2>1. \A t \in Steps : stage[t] # "idle" => t = s
    BY <1>1 DEF UnitInv, OneByOne
  <2> QED BY <1>2, <2>1 DEF OneByOne, StopsAlone
<1>5. Executed'
  <2>1. \A t \in Steps \ {s} : t \in executing => t \in executing'
    BY DEF Succeed, Abandon, CutShort, StopBlocked, Absorb, Fail, CostStopsRetry, UpdateStep
  <2> QED BY <1>2, <2>1 DEF SignalInv, Executed, Work
<1> QED BY <1>3, <1>4, <1>5 DEF SignalInv

\* The start of a pass, its attempts and its reruns.
LEMMA WorkAlone ==
  ASSUME TypeInv, TypeInv', UnitInv, MirrorInv, SignalInv, NEW s \in Steps,
         StartPass(s) \/ OpenAttempt(s) \/ Spawn(s) \/ SettleAttempt(s) \/ Rerun(s)
  PROVE  SignalInv'
<1>1. /\ pc = "pass" /\ UNCHANGED <<pc, admitted, requested, lost, stop>>
      /\ stage \in [Steps -> Stages] /\ stage[s] \in Pending \cup {"spawned", "settled"}
      /\ \E to \in Stages : stage' = [stage EXCEPT ![s] = to]
      /\ run \in SoundRun
  <2>1. /\ pc = "pass" /\ UNCHANGED <<pc, admitted, requested, lost, stop>>
        /\ stage[s] \in Pending \cup {"spawned", "settled"}
    BY DEF StartPass, OpenAttempt, Spawn, SettleAttempt, Rerun, MayRetry, Refused, Resolves,
       PassFrame, Pending, history
  <2>2. \E to \in Stages : stage' = [stage EXCEPT ![s] = to]
    BY DEF StartPass, OpenAttempt, Spawn, SettleAttempt, Rerun, Stages
  <2> QED BY <2>1, <2>2, PassStart
<1>2. Ungrouped'
  <2> SUFFICES ASSUME OneByOne, StopsAlone PROVE OneByOne' /\ StopsAlone'
    BY DEF SignalInv, Ungrouped
  <2>1. stop = NoStop
    BY <1>1 DEF StopsAlone, Pending
  <2> QED BY <1>1, <2>1 DEF OneByOne, StopsAlone
<1>3. run'.aborted = run.aborted
  <2>1. CASE StartPass(s) \/ Spawn(s) \/ Rerun(s)
    BY <2>1, PassThrift DEF Thrifty, Keeps
  <2>2. CASE OpenAttempt(s)
    BY <1>1, <2>2 DEF OpenAttempt, SoundRun, Run
  <2>3. CASE SettleAttempt(s)
    <3>1. CASE StillOpen(s)
      BY <2>3, <3>1, AnswerSpends
    <3>2. CASE ~StillOpen(s)
      BY <2>3, <3>2 DEF SettleAttempt
    <3> QED BY <3>1, <3>2
  <2> QED BY <2>1, <2>2, <2>3
<1>4. Signalled'
  <2>1. requested => stage[s] \in {"spawned", "settled"} /\ stage'[s] \notin Pending
    <3>1. requested => stage[s] \in {"spawned", "settled"}
      BY <1>1 DEF SignalInv, Signalled
    <3> QED BY <1>1, <3>1 DEF StartPass, OpenAttempt, Spawn, SettleAttempt, Rerun, MayRetry, Pending
  <2> QED BY <1>1, <1>3, <2>1 DEF SignalInv, Signalled
<1>5. Executed'
  <2>1. executing \subseteq executing' /\ (stage[s] \in Work \/ s \in executing')
    BY DEF StartPass, OpenAttempt, Spawn, SettleAttempt, Rerun, MayRetry, Refused, Resolves,
       UpdateStep, Work
  <2> QED BY <1>1, <1>3, <2>1 DEF SignalInv, Executed
<1>6. NoneOpen'
  <2> SUFFICES ASSUME requested, lost = 0, Uncontested, NEW t \in Steps, NEW n \in Nums
               PROVE  att'[t][n].status # "running"
    BY <1>1, <1>3 DEF NoneOpen, Uncontested
  <2>1. att[t][n].status # "running"
    BY DEF SignalInv, NoneOpen
  <2>2. CASE StartPass(s) \/ Spawn(s) \/ Rerun(s)
    BY <2>1, <2>2, PassQuiet DEF Quiet
  <2>3. CASE OpenAttempt(s)
    BY <2>3 DEF OpenAttempt, SignalInv, Signalled, Pending
  <2>4. CASE SettleAttempt(s)
    <3>1. CASE StillOpen(s)
      <4>1. PICK a \in Attempt : a.status \in Closed /\
              att'[t][n] = IF t = s /\ n = Last(s) THEN a ELSE att[t][n]
        BY <2>4, <3>1, SettleFacts
      <4> QED BY <2>1, <4>1 DEF Closed
    <3>2. CASE ~StillOpen(s)
      BY <2>1, <2>4, <3>2, LateResult
    <3> QED BY <3>1, <3>2
  <2> QED BY <2>2, <2>3, <2>4
<1> QED BY <1>2, <1>4, <1>5, <1>6 DEF SignalInv

\* The signal itself: an attempt that runs is of a step this process executes, and
\* no verdict keeps the handler from it.
LEMMA SignalAlone ==
  ASSUME TypeInv, SettledInv, VerdictInv, MirrorInv, SignalInv, Signal
  PROVE  SignalInv'
<1>1. /\ UNCHANGED <<pc, stage, admitted, stop, lost>> /\ ~Busy /\ ~requested /\ requested'
      /\ pc \in {"booted", "admit", "pass", "done"} /\ run \in SoundRun
      /\ att \in [Steps -> [Nums -> Attempt]]
  BY DEF Signal, history, TypeInv, RunsSound, AttemptsTyped
<1>2. Ungrouped'
  BY <1>1 DEF SignalInv, Ungrouped, OneByOne, StopsAlone
<1>3. Signalled'
  BY <1>1 DEF Signalled, Busy, Pending
<1>4. CASE run.status \in Verdicts
  <2>0. UNCHANGED <<run, att, executing>>
    BY <1>4 DEF Signal
  <2>1. Executed'
    BY <1>1, <2>0 DEF SignalInv, Executed
  <2>2. NoneOpen'
    <3> SUFFICES ASSUME lost = 0, Uncontested, NEW s \in Steps, NEW n \in Nums,
                        att[s][n].status = "running"
                 PROVE  FALSE
      BY <1>1, <2>0 DEF NoneOpen, Uncontested
    <3>1. stage[s] = "spawned"
      BY <1>1 DEF MirrorInv, Mirror, InAttempt, Busy
    <3>2. pc = "pass"
      BY <3>1, NoPass
    <3>3. stop = NoStop /\ ~run.aborted
      BY <1>1, <3>2 DEF SignalInv, Signalled, Uncontested
    <3>4. Complete
      BY <1>4, <3>2, <3>3 DEF VerdictInv, LoopInv, VerdictHeld, Live
    <3> QED BY <3>1, <3>4 DEF Complete, Unbegun
  <2> QED BY <1>2, <1>3, <2>1, <2>2 DEF SignalInv
<1>5. CASE run.status \notin Verdicts
  <2>0. PICK est \in [Steps -> {0} \cup Prices] :
          /\ run' = Aborted(est) /\ WithinSpend(Aborted(est))
          /\ att' = [t \in Steps |->
               IF t \in Aborting /\ InFlight(t)
               THEN [att[t] EXCEPT ![Last(t)] = AbortedAttempt(t, est[t])]
               ELSE att[t]]
    BY <1>5 DEF Signal
  <2>1. run'.aborted
    BY <1>1, <2>0 DEF Aborted, SoundRun, Run
  <2>2. Executed'
    BY <2>1 DEF Executed
  <2>3. NoneOpen'
    <3> SUFFICES ASSUME lost = 0, NEW s \in Steps, NEW n \in Nums, att'[s][n].status = "running"
                 PROVE  FALSE
      BY <1>1 DEF NoneOpen
    <3>1. CASE s \in Aborting /\ InFlight(s)
      <4>1. att'[s] = [att[s] EXCEPT ![Last(s)] = AbortedAttempt(s, est[s])]
        BY <2>0, <3>1
      <4>2. PICK m \in Nums : att[s][m].status = "running"
        BY <3>1 DEF InFlight, HasOpen
      <4>3. /\ m = Last(s)
            /\ \A k \in Nums : att[s][k].status = "running" => k = m
        BY <1>1, <4>2, RunningIsLast DEF MirrorInv, Mirror, Last
      <4>4. AbortedAttempt(s, est[s]).status # "running"
        BY DEF AbortedAttempt
      <4> QED BY <1>1, <4>1, <4>2, <4>3, <4>4
    <3>2. CASE ~(s \in Aborting /\ InFlight(s))
      <4>1. att[s][n].status = "running" /\ InFlight(s)
        BY <2>0, <3>2 DEF InFlight, HasOpen
      <4>2. stage[s] = "spawned"
        BY <1>1, <4>1 DEF MirrorInv, Mirror, InAttempt, Busy
      <4>3. pc = "pass"
        BY <4>2, NoPass
      <4>4. ~run.aborted
        BY <1>1, <4>3 DEF SignalInv, Signalled
      <4>5. s \in executing /\ run.step[s].status = "running"
        BY <4>2, <4>4 DEF SignalInv, Executed, SettledInv, UnderWay, Work
      <4> QED BY <3>2, <4>1, <4>5 DEF Aborting
    <3> QED BY <3>1, <3>2
  <2> QED BY <1>2, <1>3, <2>2, <2>3 DEF SignalInv
<1> QED BY <1>4, <1>5

LEMMA InitSignal == Init => SignalInv
<1> SUFFICES ASSUME Init PROVE SignalInv
  OBVIOUS
<1>1. pc = "off" /\ ~requested /\ admitted = {} /\ stage = Idle
  BY DEF Init
<1> QED BY <1>1, NothingUnderWay DEF SignalInv, Ungrouped, OneByOne, StopsAlone, Signalled,
           Executed, NoneOpen, Idle, Work, Pending

\* The invariant is inductive.
LEMMA NextSignal ==
  ASSUME TypeInv, EmptyInv, MirrorInv, UnitInv, SettledInv, VerdictInv, SignalInv,
         [Next]_vars
  PROVE  SignalInv'
<1>0. TypeInv' /\ MirrorInv'
  BY NextTypes, NextMirror
<1>1. CASE Admission \/ OpenLedger \/ LeaveLoop \/ NextUnit \/ UnitStops \/ TreeWritesStop \/ Finalize
  <2>2. pc' # "pass"
    <3>1. CASE Admission
      BY <3>1 DEF Admission, PassOver, CostStopsAdmission, WhenSkips, WhenStops, AdmissionFails,
         AdmissionAbsorbed, NeedsDecision, Admit, BreakLoop, Funded, Considers
    <3> QED BY <1>1, <3>1 DEF OpenLedger, LeaveLoop, NextUnit, UnitStops, TreeWritesStop, Finalize
  <2>3. Ungrouped'
    <3> SUFFICES ASSUME Group = {}, OneByOne PROVE OneByOne'
      BY <1>0, <2>2, OutOfPass DEF SignalInv, Ungrouped
    <3>1. CASE ~Admission
      BY <1>1, <3>1 DEF OpenLedger, LeaveLoop, NextUnit, UnitStops, TreeWritesStop, Finalize,
         LeaveUnit, OneByOne
    <3> QED BY <3>1, AdmissionAlone
  <2> QED BY <1>0, <2>2, <2>3, OutOfPass DEF SignalInv
<1>2. CASE Launch
  <2>1. /\ Quiet /\ UNCHANGED <<admitted, stop, run, executing>> /\ ~Stopping /\ pc = "admit"
        /\ \A t \in Steps : stage'[t] \in {"admitted", "idle"}
    BY <1>2, LoopQuiet DEF Launch
  <2>2. stop = NoStop
    BY <2>1 DEF VerdictInv, LoopInv, ControlFresh
  <2> QED BY <2>1, <2>2 DEF Quiet, Stopping, SignalInv, Ungrouped, OneByOne, StopsAlone,
             Signalled, Executed, NoneOpen, Work
<1>3. CASE Pass
  <2>1. PICK s \in Steps :
        \/ StartPass(s) \/ OpenAttempt(s) \/ Spawn(s) \/ SettleAttempt(s)
        \/ Succeed(s) \/ Abandon(s) \/ CutShort(s) \/ StopBlocked(s) \/ Absorb(s)
        \/ Fail(s) \/ CostStopsRetry(s) \/ Rerun(s)
    BY <1>3 DEF Pass
  <2> QED BY <1>0, <2>1, WorkAlone, EndsAlone
<1>4. ASSUME NEW i \in Invocations, Create(i) \/ Resume(i) PROVE SignalInv'
  <2>1. pc = "off" /\ pc' = "booted" /\ UNCHANGED <<admitted, requested>>
    BY <1>4 DEF Create, Resume
  <2>2. ~requested /\ admitted = {}
    BY <2>1 DEF VerdictInv, LoopInv, ControlFresh, EmptyInv, Blank
  <2> QED BY <1>0, <2>1, <2>2, OutOfPass DEF SignalInv, Ungrouped, OneByOne
<1>5. CASE Exit \/ Crash
  <2>1. pc' = "off" /\ admitted' = {} /\ ~requested'
    BY <1>5 DEF Exit, Crash, Gone
  <2> QED BY <1>0, <2>1, OutOfPass DEF SignalInv, Ungrouped, OneByOne
<1>6. CASE Signal
  BY <1>6, SignalAlone
<1>7. CASE Flush \/ LoseEvent \/ UNCHANGED vars
  <2>1. UNCHANGED <<pc, run, att, executing, stage, admitted, stop, requested>>
    BY <1>7 DEF Flush, LoseEvent, vars, memory
  <2>2. lost' = 0 => lost = 0
    <3>1. lost \in Nat
      BY DEF TypeInv, DiskTyped
    <3> QED BY <1>7, <3>1 DEF Flush, LoseEvent, vars, history
  <2> QED BY <2>1, <2>2 DEF SignalInv, Ungrouped, OneByOne, StopsAlone, Signalled, Executed,
             NoneOpen, Uncontested
<1> QED BY <1>1, <1>2, <1>3, <1>4, <1>5, <1>6, <1>7 DEF Next, Progress, Open

LEMMA SignalInvariant ==
  Spec => [](TypeInv /\ EmptyInv /\ MirrorInv /\ UnitInv /\ SettledInv /\ VerdictInv /\ SignalInv)
<1>1. TypeInv /\ EmptyInv /\ MirrorInv /\ UnitInv /\ SettledInv /\ VerdictInv /\ SignalInv /\ [Next]_vars
        => SignalInv'
  BY NextSignal
<1>2. Init => UnitInv
  BY InitDied
<1> QED BY <1>1, <1>2, InitSignal, InitTypes, NextTypes, InitEmpty, NextEmpty, InitMirror, NextMirror,
           NextUnitInv, InitSettled, NextSettled, VerdictsInvariant, PTL DEF Spec

\* What a process that ends leaves open in the journal is open in its memory, in
\* the pass a signal interrupts.
LEMMA ExitLeaves ==
  ASSUME TypeInv, MirrorInv, SignalInv, Exit, lost = 0, NEW s \in Steps, NEW n \in Nums,
         jAtt[s][n].status = "running"
  PROVE  pc = "pass" /\ stage[s] \in InAttempt /\ ~Uncontested
<1>1. pc # "off" /\ outbox = <<>> /\ (pc = "done" \/ requested)
  BY DEF Exit, Busy
<1>2. att[s][n].status = "running"
  BY <1>1, EmptyEvents DEF MirrorInv, Mirror, Announced
<1>3. pc = "pass" /\ stage[s] \in InAttempt
  BY <1>2, NoPass DEF MirrorInv, Mirror, InAttempt
<1> QED BY <1>1, <1>2, <1>3 DEF SignalInv, NoneOpen

\* No append having failed, a process that ends, by its report or from its signal
\* handler, leaves no attempt open in the journal, but where a member of the unit
\* stopped the run before the signal and abortRun, finding a verdict, did not abort:
\* so an open attempt is otherwise the mark of a hard death (run-projection.ts:126).
THEOREM OnlyAVerdictKeepsOpen ==
  Spec => [][Exit /\ lost = 0 /\ (stop = NoStop \/ run.aborted)
               => \A s \in Steps, n \in Nums : jAtt[s][n].status # "running"]_vars
<1> DEFINE Left == Exit /\ lost = 0 /\ (stop = NoStop \/ run.aborted)
                     => \A s \in Steps, n \in Nums : jAtt[s][n].status # "running"
<1>1. TypeInv /\ MirrorInv /\ SignalInv /\ [Next]_vars => [Left]_vars
  BY ExitLeaves DEF Uncontested
<1> QED BY <1>1, SignalInvariant, PTL DEF Spec

\* Without a parallelize group there is no such member, and no exception: the step
\* whose attempt the signal interrupts is the only one of its unit.
THEOREM HandledSignalLeavesNoneOpen == Group = {} => (Spec => HandledSignalClosesAttempts)
<1> DEFINE Left == Exit /\ lost = 0 => \A s \in Steps, n \in Nums : jAtt[s][n].status # "running"
<1> SUFFICES ASSUME Group = {} PROVE Spec => HandledSignalClosesAttempts
  OBVIOUS
<1>1. TypeInv /\ MirrorInv /\ SignalInv /\ [Next]_vars => [Left]_vars
  BY ExitLeaves DEF SignalInv, Ungrouped, StopsAlone, Uncontested, InAttempt
<1> QED BY <1>1, SignalInvariant, PTL DEF Spec, HandledSignalClosesAttempts

----------------------------------------------------------------------------
(* What an unfinished run owes.                                            *)

\* Work that no event of the journal settles on a resume.
Owing(x, ev) ==
  /\ x.status \in OwesWork
  /\ x.status \in {"pending", "running"} => (x.replay /\ x.status = "pending") \/ ev \notin Settled
Owes(r) == \E s \in Steps : Owing(r.step[s], jStatus[s])
Clear(s) == run.step[s].status \in Settled \/ Owing(run.step[s], jStatus[s])

\* A verdict, or a stop, that a resume lifts only for work owed.  With a group,
\* stopOnTreeWrites may stop a run that is complete.
Grave(r) == r.status = "FAIL" \/ (Group = {} /\ (r.status = "STOPPED" \/ r.stopped))

\* A pass of the unit failed, and r says so.
Spoilt(r) ==
  \E s \in Steps : stage[s] = "ended" /\ r.step[s].status = "failed" /\ run.step[s].status = "failed"

\* Until the unit is judged a step is settled, owes its work, or is at work.
Honest ==
  pc \in Live /\ ~run.aborted =>
    \A s \in Steps : Clear(s) \/ stage[s] \in Work \/ (requested /\ stage[s] = "ended")

\* What ends the loop is a failed pass, or leaves work owed.
StopSpoilt ==
  pc = "pass" =>
    /\ Spoilt(run) => stop # NoStop
    /\ ~run.aborted /\ (stop # NoStop \/ requested) =>
         Spoilt(run) \/ (requested /\ \A s \in Steps : stage[s] = "idle")
Binding(sig) == sig.failed \/ sig.exceeded \/ sig.unaccounted \/ (Group = {} /\ sig.stopped)
EndOwes ==
  pc = "ending" => /\ ~run.aborted => AllSettled(run) \/ Owes(run)
                   /\ Binding(stop) => Owes(run)

\* The verdict of memory, of the snapshots to be written, and of the disk.
RunOwes ==
  pc # "off" /\ Grave(run) =>
    (pc = "pass" /\ Spoilt(run)) \/ (pc \in {"ending", "done"} /\ Owes(run))
WritesOwe ==
  \A e \in Saves(outbox) : e.run = run \/ (pc = "pass" /\ (Grave(e.run) => Spoilt(e.run)))
FailedIn(r) == \E s \in Steps : r.step[s].status = "failed"
DiskOwes ==
  snap # NoRun /\ Grave(snap) =>
    /\ pc # "admit"
    /\ pc = "booted" => Saves(outbox) # {} /\ Tidings(outbox) = {}
    /\ pc = "pass" => Spoilt(snap)
    /\ pc # "pass" => Owes(snap)
    /\ pc \in {"ending", "done"} => Tidings(outbox) = {} \/ FailedIn(snap) \/ snap = run

OwingInv == Honest /\ StopSpoilt /\ EndOwes /\ RunOwes /\ WritesOwe /\ DiskOwes

\* A failure owes its step; what owes its step leaves the run unsettled.
LEMMA OwingFacts ==
  /\ \A x, ev : x.status = "failed" => Owing(x, ev)
  /\ \A x, ev : Owing(x, ev) => x.status \notin Settled
  /\ \A r : Owes(r) => ~AllSettled(r)
  /\ \A r : Spoilt(r) => FailedIn(r)
  /\ \A r : FailedIn(r) => Owes(r)
BY DEF Owing, Owes, OwesWork, StepStatus, Settled, AllSettled, Spoilt, FailedIn

\* Outside a pass no step is at work or over.
LEMMA ClearSteps ==
  ASSUME TypeInv, Honest, pc \in {"booted", "admit"}, ~run.aborted
  PROVE  \A s \in Steps : Clear(s)
BY NoPass DEF Honest, Live, Work

\* When all of the steps are clear, the run is complete or owes some.
LEMMA ClearOwes == (\A s \in Steps : Clear(s)) => AllSettled(run) \/ Owes(run)
BY DEF Clear, Owes, AllSettled

----------------------------------------------------------------------------
(* Admission.                                                              *)

\* A decision after which the loop goes on.
LEMMA GoesOnOwing ==
  ASSUME TypeInv, VerdictInv, OwingInv,
         \/ OpenLedger
         \/ \E s \in Steps : PassOver(s) \/ WhenSkips(s) \/ AdmissionAbsorbed(s) \/ Admit(s)
  PROVE  OwingInv'
<1>1. /\ pc \in {"booted", "admit"} /\ pc' = "admit" /\ outbox = <<>>
      /\ UNCHANGED <<stage, requested, stop, snap, jStatus>>
  BY DEF OpenLedger, PassOver, WhenSkips, AdmissionAbsorbed, Admit, Funded, Considers,
         AdmissionFrame, disk, history
<1>2. run \in SoundRun /\ ~Grave(run) /\ Saves(outbox) = {}
  BY <1>1, FewWrites DEF TypeInv, RunsSound, OwingInv, RunOwes, Saves
<1>3. /\ run'.aborted = run.aborted /\ run'.status = run.status /\ run'.stopped = run.stopped
      /\ \A t \in Steps : run'.step[t] = run.step[t] \/ run'.step[t].status \in Settled
      /\ \A e \in Saves(outbox') : e.run = run'
  <2>1. CASE OpenLedger
    <3>1. outbox' = outbox /\ run' = [run EXCEPT !.unaccounted = run'.unaccounted]
      BY <2>1 DEF OpenLedger
    <3> QED BY <1>1, <1>2, <3>1 DEF SoundRun, Run
  <2>2. ASSUME NEW s \in Steps, PassOver(s) \/ WhenSkips(s) \/ AdmissionAbsorbed(s) \/ Admit(s)
        PROVE  <1>3!:
    <3>1. CASE PassOver(s) \/ Admit(s)
      BY <1>1, <1>2, <3>1 DEF PassOver, Admit
    <3>2. CASE WhenSkips(s) \/ AdmissionAbsorbed(s)
      <4>1. PICK st \in {"done", "skipped"} : UpdateStep(s, st)
        BY <3>2 DEF WhenSkips, AdmissionAbsorbed
      <4>2. st \in StepStatus /\ st \in Settled
        BY DEF StepStatus, Settled
      <4> QED BY <1>2, <4>1, <4>2, UpdateVerdict
    <3> QED BY <2>2, <3>1, <3>2
  <2> QED BY <2>1, <2>2
<1>4. Honest'
  <2> SUFFICES ASSUME ~run.aborted, NEW s \in Steps PROVE Clear(s)'
    BY <1>3 DEF Honest
  <2>1. Clear(s)
    BY <1>1, ClearSteps DEF OwingInv
  <2> QED BY <1>1, <1>3, <2>1 DEF Clear
<1>5. StopSpoilt' /\ EndOwes' /\ RunOwes' /\ WritesOwe'
  BY <1>1, <1>2, <1>3 DEF StopSpoilt, EndOwes, RunOwes, WritesOwe, Grave
<1>6. DiskOwes'
  BY <1>1, <1>2 DEF OwingInv, DiskOwes
<1> QED BY <1>4, <1>5, <1>6 DEF OwingInv

\* What ends the loop during admission.
LEMMA BreakOwing ==
  ASSUME TypeInv, OwingInv, pc = "admit", pc' = "ending", outbox = <<>>,
         UNCHANGED <<snap, jStatus>>,
         ~run'.aborted => AllSettled(run') \/ Owes(run)',
         Binding(stop') \/ Grave(run') => Owes(run)',
         \A e \in Saves(outbox') : e.run = run'
  PROVE  OwingInv'
<1>1. Honest' /\ StopSpoilt' /\ EndOwes' /\ RunOwes' /\ WritesOwe'
  BY DEF Honest, StopSpoilt, EndOwes, RunOwes, WritesOwe, Live
<1>2. DiskOwes'
  BY DEF OwingInv, DiskOwes, Grave
<1> QED BY <1>1, <1>2 DEF OwingInv

\* A cost stop, or an operator's, is of a step the loop may not pass over.
LEMMA BreaksOwing ==
  ASSUME RerunOnResume = {}, TypeInv, VerdictInv, OwingInv,
         \/ LeaveLoop
         \/ \E s \in Steps : \/ CostStopsAdmission(s) \/ WhenStops(s) \/ NeedsDecision(s)
                             \/ AdmissionFails(s)
  PROVE  OwingInv'
<1>1. /\ pc = "admit" /\ pc' = "ending" /\ outbox = <<>> /\ UNCHANGED <<snap, jStatus>>
  BY DEF LeaveLoop, CostStopsAdmission, WhenStops, NeedsDecision, AdmissionFails, BreakLoop,
         Funded, Considers, AdmissionFrame, disk
<1>2. run \in SoundRun /\ ~Grave(run) /\ Saves(outbox) = {} /\ stop = NoStop
  BY <1>1, FewWrites DEF TypeInv, RunsSound, OwingInv, RunOwes, Saves, VerdictInv, LoopInv, ControlFresh
<1>3. CASE LeaveLoop
  <2>1. UNCHANGED <<run, stop, outbox>>
    BY <1>3 DEF LeaveLoop
  <2>2. ~run.aborted => AllSettled(run) \/ Owes(run)
    BY <1>1, ClearSteps, ClearOwes DEF OwingInv
  <2>3. ~Binding(stop)
    BY <1>2 DEF Binding, NoStop
  <2> QED BY <1>1, <1>2, <2>1, <2>2, <2>3, BreakOwing DEF Owes
<1>4. ASSUME NEW s \in Steps, CostStopsAdmission(s) \/ WhenStops(s) \/ NeedsDecision(s)
      PROVE  OwingInv'
  <2>1. ~run.aborted /\ ~Settles(s)
    BY <1>4 DEF CostStopsAdmission, WhenStops, NeedsDecision, Funded, Considers, Stopping
  <2>2. run.step[s].status \notin Settled
    BY <2>1 DEF Settles, Settled
  <2>3. Owing(run.step[s], jStatus[s])
    BY <1>1, <2>1, <2>2, ClearSteps DEF OwingInv, Clear
  <2>4. run'.step = run.step /\ \A e \in Saves(outbox') : e.run = run'
    <3>1. CASE CostStopsAdmission(s)
      BY <1>2, <3>1 DEF CostStopsAdmission
    <3>2. CASE WhenStops(s) \/ NeedsDecision(s)
      <4>1. run' = Stopped(run) /\ outbox' = Saved(run')
        BY <3>2 DEF WhenStops, NeedsDecision
      <4> QED BY <1>2, <4>1, StoppedVerdict, SavedSaves
    <3> QED BY <1>4, <3>1, <3>2
  <2>5. Owes(run)'
    BY <1>1, <2>3, <2>4 DEF Owes
  <2> QED BY <1>1, <2>4, <2>5, BreakOwing
<1>5. ASSUME NEW s \in Steps, AdmissionFails(s) PROVE OwingInv'
  <2>1. UpdateStep(s, "failed")
    BY <1>5 DEF AdmissionFails
  <2>2. run'.step[s].status = "failed" /\ \A e \in Saves(outbox') : e.run = run'
    BY <1>2, <2>1, UpdateVerdict DEF StepStatus
  <2>3. Owes(run)'
    BY <2>2, OwingFacts DEF Owes
  <2> QED BY <1>1, <2>2, <2>3, BreakOwing
<1> QED BY <1>3, <1>4, <1>5

\* Launching a unit, and what follows when all of it answered.
LEMMA UnitOwing ==
  ASSUME TypeInv, VerdictInv, Ungrouped, OwingInv, Launch \/ NextUnit \/ UnitStops \/ TreeWritesStop
  PROVE  OwingInv'
<1> USE DEF OwingInv
<1>1. /\ pc \in {"admit", "pass"} /\ outbox = <<>> /\ UNCHANGED <<requested, snap, jStatus>>
  BY DEF Launch, NextUnit, UnitStops, TreeWritesStop, UnitAnswered, Busy, LeaveUnit, disk
<1>2. run \in SoundRun /\ Saves(outbox) = {} /\ Tidings(outbox) = {}
  BY <1>1, FewWrites DEF TypeInv, RunsSound, Saves, Tidings
<1>3. CASE Launch
  <2>1. /\ pc = "admit" /\ pc' = "pass" /\ ~Stopping /\ UNCHANGED <<run, stop, outbox>>
        /\ stop = NoStop /\ \A t \in Steps : stage'[t] \in {"idle", "admitted"}
    BY <1>3 DEF Launch, VerdictInv, LoopInv, ControlFresh
  <2>2. Honest'
    BY <1>1, <2>1, ClearSteps DEF Honest, Stopping, Clear
  <2>3. StopSpoilt' /\ EndOwes' /\ RunOwes' /\ WritesOwe' /\ DiskOwes'
    BY <1>1, <1>2, <2>1 DEF StopSpoilt, EndOwes, RunOwes, WritesOwe, DiskOwes, Spoilt, Stopping, Grave
  <2> QED BY <2>2, <2>3
<1>4. CASE NextUnit
  <2>1. /\ pc = "pass" /\ pc' = "admit" /\ ~Stopping /\ UNCHANGED <<run, stop, outbox>>
        /\ stop = NoStop /\ \A t \in Steps : stage[t] \in {"idle", "ended"}
    BY <1>4 DEF NextUnit, UnitAnswered, LeaveUnit
  <2>2. ~Grave(run) /\ (snap = NoRun \/ ~Grave(snap))
    BY <2>1 DEF StopSpoilt, RunOwes, DiskOwes, Spoilt
  <2>3. Honest'
    BY <1>1, <2>1 DEF Honest, Live, Stopping, Clear, Work
  <2>4. StopSpoilt' /\ EndOwes' /\ RunOwes' /\ WritesOwe' /\ DiskOwes'
    BY <1>1, <1>2, <2>1, <2>2 DEF StopSpoilt, EndOwes, RunOwes, WritesOwe, DiskOwes, Grave
  <2> QED BY <2>3, <2>4
<1>5. CASE UnitStops \/ TreeWritesStop
  <2>1. /\ pc = "pass" /\ pc' = "ending" /\ \A t \in Steps : stage[t] \in {"idle", "ended"}
    BY <1>5 DEF UnitStops, TreeWritesStop, UnitAnswered, LeaveUnit
  <2>2. Spoilt(run) => Owes(run)
    BY OwingFacts
  <2>3. ~run.aborted => AllSettled(run) \/ Owes(run)
    <3>1. CASE ~requested \/ \A t \in Steps : stage[t] = "idle"
      <4> SUFFICES ASSUME ~run.aborted, NEW t \in Steps PROVE Clear(t)
        BY ClearOwes
      <4> QED BY <2>1, <3>1 DEF Honest, Live, Work
    <3> QED BY <2>1, <2>2, <3>1 DEF StopSpoilt
  <2>4. /\ run'.step = run.step /\ run'.aborted = run.aborted
        /\ \A e \in Saves(outbox') : e.run = run'
        /\ Tidings(outbox') = {}
        /\ Binding(stop') \/ Grave(run') => Owes(run)
    <3>1. CASE UnitStops
      <4>1. /\ UNCHANGED <<run, outbox>>
            /\ IF Stopping THEN stop' = NoStop ELSE stop' = stop
        BY <3>1 DEF UnitStops
      <4>2. Binding(stop') => stop # NoStop /\ ~Stopping
        BY <4>1 DEF Binding, NoStop
      <4>3. Binding(stop') => Spoilt(run)
        BY <2>1, <4>2 DEF StopSpoilt, Stopping
      <4>4. Grave(run') => Spoilt(run)
        BY <2>1, <4>1 DEF RunOwes
      <4> QED BY <1>2, <2>2, <4>1, <4>3, <4>4
    <3>2. CASE TreeWritesStop
      <4>1. /\ run' = Stopped(run) /\ outbox' = Saved(run') /\ ~Stopping
            /\ stop' = [stop EXCEPT !.stopped = TRUE]
        BY <3>2 DEF TreeWritesStop
      <4>2. Group # {}
        <5> SUFFICES ASSUME Group = {} PROVE FALSE
          OBVIOUS
        <5>1. \A s, t \in admitted : s = t
          BY DEF Ungrouped, OneByOne
        <5>2. Cardinality(admitted) \in {0, 1}
          <6>1. CASE admitted = {}
            BY <6>1, FS_EmptySet
          <6>2. CASE admitted # {}
            <7>1. PICK s : admitted = {s}
              BY <5>1, <6>2
            <7> QED BY <7>1, FS_Singleton
          <6> QED BY <6>1, <6>2
        <5> QED BY <3>2, <5>2 DEF TreeWritesStop
      <4>3. stop'.failed \/ stop'.exceeded \/ stop'.unaccounted => stop # NoStop
        <5>1. /\ stop'.failed = stop.failed /\ stop'.exceeded = stop.exceeded
              /\ stop'.unaccounted = stop.unaccounted
          BY <4>1 DEF TypeInv, ControlTyped, Signals
        <5> QED BY <5>1 DEF NoStop
      <4>4. Binding(stop') => Spoilt(run)
        BY <2>1, <4>1, <4>2, <4>3 DEF Binding, StopSpoilt, Stopping
      <4>5. ~Grave(run')
        BY <1>2, <4>1, <4>2, StoppedVerdict DEF Grave
      <4>6. Tidings(outbox') = {}
        BY <4>1, SavedHolds DEF Tidings, SaveEntry
      <4> QED BY <1>2, <2>2, <4>1, <4>4, <4>5, <4>6, StoppedVerdict, SavedSaves
    <3> QED BY <1>5, <3>1, <3>2
  <2>5. Honest' /\ StopSpoilt' /\ WritesOwe'
    BY <2>1, <2>4 DEF Honest, StopSpoilt, WritesOwe, Live
  <2>6. EndOwes' /\ RunOwes'
    BY <1>1, <2>1, <2>3, <2>4 DEF EndOwes, RunOwes, Owes, AllSettled
  <2>7. DiskOwes'
    <3>1. snap # NoRun /\ Grave(snap) => FailedIn(snap) /\ Owes(snap)
      BY <2>1, OwingFacts DEF DiskOwes
    <3> QED BY <1>1, <2>1, <3>1 DEF DiskOwes, Owes, FailedIn, Grave
  <2> QED BY <2>5, <2>6, <2>7
<1> QED BY <1>3, <1>4, <1>5

----------------------------------------------------------------------------
(* The passes.                                                             *)

\* A pass that moves one step: it fails and stops the run, or ends otherwise, or
\* goes on.
LEMMA PassOwing ==
  ASSUME TypeInv, OwingInv, pc = "pass", outbox = <<>>, PassFrame, NEW s \in Steps,
         stage[s] \in Work \cup {"admitted"},
         NEW to \in {"started", "opened", "spawned", "settled", "ended"},
         stage' = [stage EXCEPT ![s] = to],
         run'.aborted = run.aborted,
         \A t \in Steps \ {s} : Same(run'.step[t], run.step[t]),
         IF to = "ended" /\ run'.step[s].status = "failed"
         THEN stop' # NoStop
         ELSE /\ stop' = stop /\ (Grave(run') => Grave(run))
              /\ to = "ended" => run.aborted \/ requested \/ run'.step[s].status \in Settled,
         \A e \in Saves(outbox') : e.run = run' \/ (Grave(e.run) => Spoilt(e.run)')
  PROVE  OwingInv'
<1> USE DEF OwingInv
<1>1. /\ pc' = "pass" /\ UNCHANGED <<requested, snap, jStatus>>
      /\ stage'[s] = to /\ \A t \in Steps \ {s} : stage'[t] = stage[t]
      /\ stage[s] \notin {"idle", "ended"}
  BY DEF PassFrame, disk, TypeInv, PassTyped, Work
<1>2. Spoilt(run) => Spoilt(run)'
  BY <1>1 DEF Spoilt, Same
<1>3. Honest'
  <2> SUFFICES ASSUME ~run.aborted, NEW t \in Steps
               PROVE  Clear(t)' \/ stage'[t] \in Work \/ (requested /\ stage'[t] = "ended")
    BY <1>1 DEF Honest
  <2>1. CASE t = s
    BY <1>1, <2>1, OwingFacts DEF Clear, Work
  <2>2. CASE t # s
    BY <1>1, <2>2 DEF Honest, Live, Clear, Owing, Same
  <2> QED BY <2>1, <2>2
<1>4. StopSpoilt'
  <2>1. Spoilt(run)' => stop' # NoStop
    BY <1>1 DEF StopSpoilt, Spoilt, Same
  <2>2. ASSUME ~run.aborted, stop' # NoStop \/ requested PROVE Spoilt(run)'
    <3>1. CASE to = "ended" /\ run'.step[s].status = "failed"
      BY <1>1, <3>1 DEF Spoilt
    <3>2. CASE ~(to = "ended" /\ run'.step[s].status = "failed")
      BY <1>1, <1>2, <2>2, <3>2 DEF StopSpoilt
    <3> QED BY <3>1, <3>2
  <2> QED BY <1>1, <2>1, <2>2 DEF StopSpoilt
<1>5. RunOwes'
  <2>1. CASE to = "ended" /\ run'.step[s].status = "failed"
    BY <1>1, <2>1 DEF RunOwes, Spoilt
  <2>2. CASE ~(to = "ended" /\ run'.step[s].status = "failed")
    BY <1>1, <1>2, <2>2 DEF RunOwes
  <2> QED BY <2>1, <2>2
<1>6. EndOwes' /\ WritesOwe'
  BY <1>1 DEF EndOwes, WritesOwe, Grave
<1>7. DiskOwes'
  BY <1>1 DEF DiskOwes, Spoilt, Same, Grave
<1> QED BY <1>3, <1>4, <1>5, <1>6, <1>7

\* The start of a pass, its steps that settle nothing, and its good ends.
LEMMA WorkOwing ==
  ASSUME TypeInv, TypeInv', UnderWay, OwingInv, NEW s \in Steps,
         StartPass(s) \/ OpenAttempt(s) \/ Spawn(s) \/ Abandon(s) \/ Rerun(s) \/ Succeed(s) \/ Absorb(s)
  PROVE  OwingInv'
<1>1. /\ pc = "pass" /\ outbox = <<>> /\ PassFrame /\ stop' = stop
      /\ stage[s] \in Work \cup {"admitted"} /\ (~StartPass(s) => stage[s] \in Work)
  BY DEF StartPass, OpenAttempt, Spawn, Abandon, Rerun, Succeed, Absorb, MayRetry, Exhausted,
         Blocked, Refused, Resolves, Busy, EndPass, Work
<1>2. run \in SoundRun /\ run' \in SoundRun /\ \A t \in Steps : Same(run.step[t], run.step[t])
  BY <1>1, PassStart DEF TypeInv, RunsSound, PassFrame, Same
<1> DEFINE Goes(to) == /\ run'.aborted = run.aborted /\ (Grave(run') => Grave(run))
                       /\ \A t \in Steps \ {s} : Same(run'.step[t], run.step[t])
                       /\ \A e \in Saves(outbox') : e.run = run'
                       /\ to = "ended" =>
                            /\ run'.step[s].status # "failed"
                            /\ run.aborted \/ requested \/ run'.step[s].status \in Settled
<1>3. PICK to \in {"started", "opened", "spawned", "settled", "ended"} :
        stage' = [stage EXCEPT ![s] = to] /\ Goes(to)
  <2>1. CASE StartPass(s)
    <3>1. UpdateStep(s, "running") /\ stage' = [stage EXCEPT ![s] = "started"]
      BY <2>1 DEF StartPass
    <3>2. Goes("started")
      BY <1>2, <3>1, UpdateVerdict DEF StepStatus, Grave, Same
    <3> QED BY <3>1, <3>2
  <2>2. CASE OpenAttempt(s)
    <3> DEFINE n == NextNumber(s)
               one == <<StartEvent(s, n)>>
    <3>1. /\ run' = [run EXCEPT !.step[s].last = n] /\ outbox' = one \o Saved(run')
          /\ stage' = [stage EXCEPT ![s] = "opened"] /\ n \in Nums
      BY <2>2 DEF OpenAttempt
    <3> HIDE DEF n
    <3>2. /\ run'.aborted = run.aborted /\ run'.stopped = run.stopped /\ run'.status = run.status
          /\ \A t \in Steps \ {s} : run'.step[t] = run.step[t]
      BY <1>2, <3>1 DEF SoundRun, Run
    <3>3. one \in Seq(SoundWrite) /\ Saves(one) = {}
      BY <3>1, StartWrite, NoSaves DEF SoundWrite, StartEvent
    <3> HIDE DEF one
    <3>4. \A e \in Saves(outbox') : e.run = run'
      BY <1>2, <3>1, <3>3, SavesConcat, SavedWrites, SavedSaves
    <3>5. Goes("opened")
      BY <1>2, <3>2, <3>4 DEF Grave
    <3> QED BY <3>1, <3>5
  <2>3. CASE Spawn(s)
    <3>1. UNCHANGED <<run, outbox>> /\ stage' = [stage EXCEPT ![s] = "spawned"]
      BY <2>3 DEF Spawn
    <3>2. Goes("spawned")
      BY <1>1, <1>2, <3>1, NoSaves DEF Grave
    <3> QED BY <3>1, <3>2
  <2>4. CASE Abandon(s)
    <3>1. /\ UNCHANGED <<run, outbox>> /\ stage' = [stage EXCEPT ![s] = "ended"]
          /\ run.aborted \/ requested
          /\ stage[s] = "settled"
      BY <2>4 DEF Abandon, EndPass
    <3>2. run.step[s].status # "failed"
      BY <1>1, <2>4 DEF UnderWay, Abandon, Work
    <3>3. Goes("ended")
      BY <1>1, <1>2, <3>1, <3>2, NoSaves DEF Grave
    <3> QED BY <3>1, <3>3
  <2>5. CASE Rerun(s)
    <3>1. /\ run' = [run EXCEPT !.step[s].retries = @ + 1] /\ outbox' = Saved(run')
          /\ stage' = [stage EXCEPT ![s] = "started"]
      BY <2>5 DEF Rerun
    <3>2. /\ run'.aborted = run.aborted /\ run'.stopped = run.stopped /\ run'.status = run.status
          /\ \A t \in Steps \ {s} : run'.step[t] = run.step[t]
      BY <1>2, <3>1 DEF SoundRun, Run
    <3>3. Goes("started")
      BY <1>2, <3>1, <3>2, SavedSaves DEF Grave
    <3> QED BY <3>1, <3>3
  <2>6. CASE Succeed(s) \/ Absorb(s)
    <3>1. UpdateStep(s, "done") /\ stage' = [stage EXCEPT ![s] = "ended"]
      BY <2>6 DEF Succeed, Absorb, EndPass
    <3>2. Goes("ended")
      BY <1>2, <3>1, UpdateVerdict DEF StepStatus, Grave, Same, Settled
    <3> QED BY <3>1, <3>2
  <2> QED BY <2>1, <2>2, <2>3, <2>4, <2>5, <2>6
<1> QED BY <1>1, <1>3, PassOwing

\* The answer of an attempt, which changes no status.
LEMMA AnswerOwing ==
  ASSUME TypeInv, TypeInv', UnderWay, OwingInv, NEW s \in Steps, SettleAttempt(s)
  PROVE  OwingInv'
<1> DEFINE to == IF Stopping THEN "ended" ELSE "settled"
<1>1. /\ pc = "pass" /\ outbox = <<>> /\ stage[s] \in Work /\ to \in {"settled", "ended"}
      /\ stage' = [stage EXCEPT ![s] = to] /\ stop' = stop /\ PassFrame
      /\ to = "ended" => run.aborted \/ requested
  BY DEF SettleAttempt, Busy, Work, Stopping
<1>2. run \in SoundRun /\ run' \in SoundRun
  BY <1>1, PassStart DEF TypeInv, RunsSound, PassFrame
<1> HIDE DEF to
<1> DEFINE Kept == /\ run'.aborted = run.aborted /\ run'.stopped = run.stopped
                   /\ run'.status = run.status
                   /\ \A t \in Steps : Same(run'.step[t], run.step[t])
                   /\ \A e \in Saves(outbox') : e.run = run'
<1>3. ASSUME ~StillOpen(s) PROVE Kept
  <2>1. UNCHANGED <<run, outbox>>
    BY <1>3 DEF SettleAttempt
  <2> QED BY <1>1, <2>1, NoSaves DEF Same
<1>4. ASSUME StillOpen(s) PROVE Kept
  <2> DEFINE a(res) == [status |-> IF res.ok THEN "done" ELSE "failed", fig |-> res.fig,
                        interrupted |-> FALSE]
             r(res) == [run EXCEPT !.step[s].spend = Merge(@, res.fig),
                          !.exceeded = @ \/ res.cut = "budget",
                          !.unaccounted = @ \/ ProvesUnpriced(res.fig) \/ res.cut = "unpriced"]
  <2>1. PICK res \in Results(s) :
          /\ run' = r(res) /\ Last(s) \in Nums /\ a(res) \in Attempt
          /\ res.cut \in {"none", "budget", "unpriced"}
          /\ outbox' = <<FinishEvent(s, Last(s), a(res))>> \o GuardWrites(res) \o Saved(r(res))
    <3>1. Last(s) \in Nums
      BY <1>4, SettleFacts
    <3>2. PICK res \in Results(s) :
            /\ run' = r(res) /\ Charged(budget, res).cum <= MaxSpend
            /\ outbox' = <<FinishEvent(s, Last(s), a(res))>> \o GuardWrites(res) \o Saved(r(res))
      BY <1>4 DEF SettleAttempt
    <3>3. res.fig \in Figure /\ res \in Answer
      BY <1>1, <3>2, PassStart, ChargedTyped
    <3>4. a(res) \in Attempt /\ res.cut \in {"none", "budget", "unpriced"}
      BY <3>3 DEF Attempt, Answer
    <3> QED BY <3>1, <3>2, <3>4
  <2>2. /\ run'.aborted = run.aborted /\ run'.stopped = run.stopped /\ run'.status = run.status
        /\ \A t \in Steps : Same(run'.step[t], run.step[t])
    <3> DEFINE x == [run.step[s] EXCEPT !.spend = Merge(@, res.fig)]
               steps == [run.step EXCEPT ![s] = x]
               ex == run.exceeded \/ res.cut = "budget"
               un == run.unaccounted \/ ProvesUnpriced(res.fig) \/ res.cut = "unpriced"
    <3>1. run \in Run /\ run.step \in [Steps -> Step] /\ run.step[s] \in Step
      BY <1>2 DEF SoundRun, Run
    <3>2. run' = [run EXCEPT !.step = steps, !.exceeded = ex, !.unaccounted = un]
      BY <2>1, <3>1 DEF Run, Step
    <3>3. Same(x, run.step[s])
      BY <3>1 DEF Same, Step
    <3> HIDE DEF x, ex, un
    <3>4. \A t \in Steps : Same(steps[t], run.step[t])
      BY <3>1, <3>3 DEF Same
    <3> HIDE DEF steps
    <3>5. /\ run'.aborted = run.aborted /\ run'.stopped = run.stopped
          /\ run'.status = run.status /\ run'.step = steps
      BY <3>1, <3>2 DEF Run
    <3> QED BY <3>4, <3>5
  <2> DEFINE one == <<FinishEvent(s, Last(s), a(res))>>
             g == GuardWrites(res)
  <2>3. one \in Seq(SoundWrite) /\ Saves(one) = {}
    <3>1. FinishEvent(s, Last(s), a(res)) \in SoundWrite
      BY <2>1, FinishWrite DEF SoundWrite
    <3>2. FinishEvent(s, Last(s), a(res)).kind # "save"
      BY DEF FinishEvent
    <3> HIDE DEF a
    <3> QED BY <3>1, <3>2, NoSaves
  <2>4. g \in Seq(SoundWrite) /\ Saves(g) = {}
    <3>1. g \in Seq(SoundWrite)
      BY <2>1, GuardPlain, PlainEvents
    <3>2. GuardEvent(res.cut).kind # "save"
      BY DEF GuardEvent
    <3> QED BY <3>1, <3>2, NoSaves DEF GuardWrites
  <2> HIDE DEF a, r, one, g
  <2>5. outbox' = (one \o g) \o Saved(run')
    BY <2>1 DEF one, g
  <2>6. one \o g \in Seq(SoundWrite) /\ Saves(one \o g) = {}
    BY <2>3, <2>4, ConcatProperties, SavesConcat
  <2>7. \A e \in Saves(outbox') : e.run = run'
    BY <1>2, <2>5, <2>6, SavesConcat, SavedWrites, SavedSaves
  <2> QED BY <2>2, <2>7
<1>5. Kept
  BY <1>3, <1>4
<1>6. run'.step[s].status # "failed"
  BY <1>1, <1>5 DEF UnderWay, Same
<1> QED BY <1>1, <1>5, <1>6, PassOwing DEF Grave

\* Its bad ends: what each of them saves is grave because a pass failed.
LEMMA FailsOwing ==
  ASSUME TypeInv, OwingInv, NEW s \in Steps,
         Fail(s) \/ CostStopsRetry(s) \/ CutShort(s) \/ StopBlocked(s)
  PROVE  OwingInv'
<1>1. /\ pc = "pass" /\ outbox = <<>> /\ PassFrame
      /\ stage[s] \in Work /\ stage' = [stage EXCEPT ![s] = "ended"]
  BY DEF Fail, CostStopsRetry, CutShort, StopBlocked, MayRetry, Exhausted, Blocked,
         Refused, Resolves, Busy, EndPass, Work
<1>2. /\ run \in SoundRun /\ stop \in Signals
      /\ stage'[s] = "ended" /\ \A t \in Steps \ {s} : stage'[t] = stage[t]
  BY <1>1, PassStart DEF TypeInv, ControlTyped, PassTyped
<1>3. stop' # NoStop
  <2>1. stop' = [stop EXCEPT !.failed = TRUE] \/ stop' = [stop EXCEPT !.stopped = TRUE]
    BY DEF Fail, CostStopsRetry, CutShort, StopBlocked
  <2>2. stop'.failed \/ stop'.stopped
    BY <1>2, <2>1 DEF Signals
  <2> QED BY <2>2 DEF NoStop
<1> DEFINE Fails == /\ run'.aborted = run.aborted /\ run'.step[s].status = "failed"
                    /\ \A t \in Steps \ {s} : Same(run'.step[t], run.step[t])
                    /\ \A e \in Saves(outbox') : e.run = run' \/ (Grave(e.run) => Spoilt(e.run)')
<1>4. ASSUME Fail(s) \/ CostStopsRetry(s) PROVE Fails
  <2>1. UpdateStep(s, "failed")
    BY <1>4 DEF Fail, CostStopsRetry
  <2> QED BY <1>2, <2>1, UpdateVerdict DEF StepStatus, Same
<1>5. ASSUME CutShort(s) PROVE Fails
  <2> DEFINE refunded == [run EXCEPT !.step[s].retries = @ - 1]
             r == IF s \in reruns THEN refunded ELSE run
             p == IF s \in reruns THEN Saved(r) ELSE <<>>
             w == StatusWrites(r, s, "failed")
  <2>1. run' = WithStatus(r, s, "failed") /\ outbox' = p \o w
    BY <1>5 DEF CutShort
  <2>2. /\ r \in SoundRun /\ r.aborted = run.aborted /\ r.status = run.status
        /\ r.stopped = run.stopped /\ \A t \in Steps : Same(r.step[t], run.step[t])
    <3>1. s \in reruns => refunded \in SoundRun
      BY <1>1, <1>2, PassStart, RefundSound
    <3>2. /\ refunded.aborted = run.aborted /\ refunded.status = run.status
          /\ refunded.stopped = run.stopped
          /\ \A t \in Steps : Same(refunded.step[t], run.step[t])
      BY <1>2 DEF SoundRun, Run, Step, Same
    <3> HIDE DEF refunded
    <3> QED BY <1>2, <3>1, <3>2 DEF Same
  <2>3. PICK q : q = r
    OBVIOUS
  <2> HIDE DEF r
  <2>4. /\ run'.aborted = run.aborted /\ run'.step[s].status = "failed"
        /\ \A t \in Steps \ {s} : Same(run'.step[t], run.step[t])
    BY <2>1, <2>2, StatusEffect DEF StepStatus, Same
  <2>5. p \in Seq(SoundWrite) /\ \A e \in Saves(p) : e.run = q
    BY <2>2, <2>3, SavedWrites, SavedSaves, NoSaves, EmptySeq
  <2>6. w \in Seq(SoundWrite) /\ \A e \in Saves(w) : e.run = run'
    <3>1. w \in Seq(SoundWrite) /\ Writes(w) \subseteq {StatusEvent(s, "failed"), SaveEntry(run')}
      BY <2>1, <2>2, StatusWritesTyped, StatusHolds DEF StepStatus
    <3> HIDE DEF w
    <3> QED BY <3>1 DEF Saves, StatusEvent, SaveEntry
  <2> HIDE DEF p, w
  <2>7. Grave(q) => Spoilt(run)
    BY <1>1, <2>2, <2>3 DEF OwingInv, RunOwes, Grave
  <2>8. Spoilt(run) => Spoilt(q)'
    <3> SUFFICES ASSUME NEW t \in Steps, stage[t] = "ended", run.step[t].status = "failed"
                 PROVE  stage'[t] = "ended" /\ q.step[t].status = "failed" /\ run'.step[t].status = "failed"
      BY DEF Spoilt
    <3>1. t # s
      BY <1>1 DEF Work
    <3> QED BY <1>2, <2>2, <2>3, <2>4, <3>1 DEF Same
  <2> QED BY <2>1, <2>4, <2>5, <2>6, <2>7, <2>8, SavesConcat
<1>6. ASSUME StopBlocked(s) PROVE Fails
  <2> DEFINE failed == WithStatus(run, s, "failed")
             w == StatusWrites(run, s, "failed")
  <2>1. run' = Stopped(failed) /\ outbox' = w \o Saved(run')
    BY <1>6 DEF StopBlocked
  <2>2. /\ failed \in SoundRun /\ failed.aborted = run.aborted
        /\ failed.step[s].status = "failed"
        /\ \A t \in Steps \ {s} : failed.step[t] = run.step[t]
    BY <1>2, SoundStatus, StatusEffect DEF StepStatus
  <2>3. w \in Seq(SoundWrite) /\ \A e \in Saves(w) : e.run = failed
    <3>1. w \in Seq(SoundWrite) /\ Writes(w) \subseteq {StatusEvent(s, "failed"), SaveEntry(failed)}
      BY <1>2, StatusWritesTyped, StatusHolds DEF StepStatus
    <3> HIDE DEF w, failed
    <3> QED BY <3>1 DEF Saves, StatusEvent, SaveEntry
  <2> HIDE DEF failed, w
  <2>4. /\ run' \in SoundRun /\ run'.aborted = run.aborted /\ run'.step = failed.step
    BY <2>1, <2>2, SoundStopped, StoppedVerdict
  <2>5. \A e \in Saves(outbox') : e.run \in {failed, run'}
    BY <2>1, <2>2, <2>3, <2>4, SavesConcat, SavedWrites, SavedSaves
  <2>6. \A e \in Saves(outbox') : Spoilt(e.run)'
    BY <1>2, <2>2, <2>4, <2>5 DEF Spoilt
  <2> QED BY <2>2, <2>4, <2>6 DEF Same
<1>7. Fails
  BY <1>4, <1>5, <1>6
<1> QED BY <1>1, <1>3, <1>7, PassOwing

----------------------------------------------------------------------------
(* The end of the run, and the signal.                                     *)

\* deriveRunStatus fails a run for a stop on cost, or a failed step, and stops it
\* for a stop.
LEMMA DerivedGrave ==
  ASSUME NEW r, NEW sig
  PROVE  /\ DerivedStatus(r, sig) = "FAIL" =>
              sig.exceeded \/ sig.failed \/ sig.unaccounted \/ FailedIn(r)
         /\ DerivedStatus(r, sig) = "STOPPED" => sig.stopped \/ r.stopped
         /\ r.aborted => DerivedStatus(r, sig) = "ABORTED"
<1> DEFINE failed  == sig.failed \/ \E s \in Steps : r.step[s].status = "failed"
           stopped == sig.stopped \/ r.stopped
           halt    == IF stopped THEN "STOPPED" ELSE "FAIL"
           aborted == r.aborted \/ \E s \in Steps : r.step[s].status = "aborted"
           all     == AllSettled(r)
           v == IF aborted THEN "ABORTED"
                ELSE IF sig.exceeded \/ failed THEN halt
                ELSE IF stopped THEN "STOPPED"
                ELSE IF sig.unaccounted THEN "FAIL"
                ELSE IF all THEN "PASS" ELSE "UNKNOWN"
<1>1. DerivedStatus(r, sig) = v
  BY DEF DerivedStatus
<1>2. (failed => sig.failed \/ FailedIn(r)) /\ (r.aborted => aborted)
  BY DEF FailedIn
<1>3. halt = "FAIL" \/ (halt = "STOPPED" /\ stopped)
  OBVIOUS
<1> HIDE DEF failed, halt, aborted, all
<1>4. /\ v = "FAIL" => sig.exceeded \/ failed \/ sig.unaccounted
      /\ v = "STOPPED" => stopped
      /\ aborted => v = "ABORTED"
  <2> HIDE DEF stopped
  <2> QED BY <1>3
<1> QED BY <1>1, <1>2, <1>4

\* The verdict of a run whose budget is spent speaks of unfinished work.
LEMMA FinalizeOwing ==
  ASSUME TypeInv, OwingInv, Finalize
  PROVE  OwingInv'
<1> DEFINE signals == [stop EXCEPT
             !.exceeded = @ \/ (budget.exceeded /\ ~AllSettled(run)),
             !.unaccounted = @ \/ (CostDecision(run, budget) = "unaccounted" /\ ~AllSettled(run))]
           v == DerivedStatus(run, signals)
<1>1. /\ pc = "ending" /\ pc' = "done" /\ outbox = <<>> /\ run' = [run EXCEPT !.status = v]
      /\ outbox' = Saved(run') /\ UNCHANGED <<snap, jStatus>>
  BY DEF Finalize, Busy, disk
<1>2. run \in SoundRun /\ stop \in Signals
  BY <1>1 DEF TypeInv, RunsSound, ControlTyped
<1>3. v \in {"FAIL", "STOPPED"} => ~run.aborted
  BY DerivedGrave
<1>4. /\ v = "FAIL" => Owes(run)
      /\ Group = {} /\ (v = "STOPPED" \/ run.stopped) => Owes(run)
  <2>1. /\ signals.failed = stop.failed /\ signals.stopped = stop.stopped
        /\ signals.exceeded => stop.exceeded \/ ~AllSettled(run)
        /\ signals.unaccounted => stop.unaccounted \/ ~AllSettled(run)
    BY <1>2 DEF Signals
  <2> HIDE DEF signals
  <2>2. /\ v = "FAIL" => Binding(stop) \/ ~AllSettled(run) \/ FailedIn(run)
        /\ v = "STOPPED" => stop.stopped \/ run.stopped
    BY <2>1, DerivedGrave DEF Binding
  <2> HIDE DEF v
  <2>3. /\ ~run.aborted => AllSettled(run) \/ Owes(run)
        /\ Binding(stop) => Owes(run)
        /\ Group = {} /\ run.stopped => Owes(run)
    BY <1>1 DEF OwingInv, EndOwes, RunOwes, Grave
  <2> QED BY <1>3, <2>2, <2>3, OwingFacts DEF Binding
<1> HIDE DEF v, signals
<1>5. run'.status = v /\ run'.step = run.step /\ run'.stopped = run.stopped
  BY <1>1, <1>2 DEF SoundRun, Run
<1>6. Grave(run') => Owes(run)
  BY <1>4, <1>5 DEF Grave
<1>7. (\A e \in Saves(outbox') : e.run = run') /\ Tidings(outbox') = {}
  BY <1>1, SavedSaves, SavedHolds DEF Tidings, SaveEntry
<1>8. Honest' /\ StopSpoilt' /\ EndOwes' /\ RunOwes' /\ WritesOwe'
  BY <1>1, <1>5, <1>6, <1>7 DEF Honest, StopSpoilt, EndOwes, RunOwes, WritesOwe, Owes, Live
<1>9. DiskOwes'
  BY <1>1, <1>7 DEF OwingInv, DiskOwes, Owes, FailedIn, Grave
<1> QED BY <1>8, <1>9 DEF OwingInv

\* A signal leaves a verdict alone, and aborts a run that has none.
LEMMA SignalOwing ==
  ASSUME TypeInv, VerdictInv, OwingInv, Signal
  PROVE  OwingInv'
<1> USE DEF OwingInv
<1>1. /\ pc \in {"booted", "admit", "pass", "done"} /\ outbox = <<>> /\ requested'
      /\ UNCHANGED <<pc, stage, stop, snap, jStatus>>
      /\ \A t \in Steps : stage[t] # "admitted"
      /\ run \in SoundRun /\ executing \subseteq Steps
  BY DEF Signal, Busy, disk, TypeInv, RunsSound, ControlTyped
<1>2. Saves(outbox) = {} /\ Tidings(outbox) = {}
  BY <1>1, FewWrites DEF Saves, Tidings
<1>3. CASE run.status \in Verdicts
  <2>1. UNCHANGED <<run, outbox>>
    BY <1>3 DEF Signal
  <2>2. Honest' /\ EndOwes' /\ RunOwes' /\ WritesOwe' /\ DiskOwes'
    BY <1>1, <2>1 DEF Honest, Clear, EndOwes, RunOwes, WritesOwe, DiskOwes, Owes, Spoilt, FailedIn,
       Binding, Grave, Saves, Tidings, Writes
  <2>3. StopSpoilt'
    <3> SUFFICES ASSUME pc = "pass"
                 PROVE  /\ Spoilt(run) => stop # NoStop
                        /\ ~run.aborted => Spoilt(run) \/ \A t \in Steps : stage[t] = "idle"
      BY <1>1, <2>1 DEF StopSpoilt, Spoilt
    <3>1. stop = NoStop => run.aborted \/ \A t \in Steps : stage[t] = "idle"
      BY <1>1, <1>3 DEF VerdictInv, LoopInv, VerdictHeld, Live, Complete, Unbegun
    <3> QED BY <3>1 DEF StopSpoilt
  <2> QED BY <2>2, <2>3
<1>4. CASE run.status \notin Verdicts
  <2>0. pc # "done" /\ (Group = {} => ~run.stopped \/ pc = "pass")
    BY <1>1, <1>4 DEF VerdictInv, RunOver, RunOwes, Grave
  <2>1. PICK est \in [Steps -> {0} \cup Prices] :
          WithinSpend(Aborted(est)) /\ run' = Aborted(est) /\ outbox' = AbortWrites(est)
    BY <1>4 DEF Signal
  <2>2. /\ run'.aborted /\ run'.status = "ABORTED" /\ run'.stopped = run.stopped
        /\ \A t \in Steps : run'.step[t].status = IF t \in Aborting THEN "aborted" ELSE run.step[t].status
    <3> DEFINE closes == {s \in Aborting : InFlight(s)}
               step == [s \in Steps |->
                 IF s \notin Aborting THEN run.step[s]
                 ELSE [run.step[s] EXCEPT !.status = "aborted",
                        !.spend = IF s \in closes THEN Merge(@, LiveFigure(s, est[s])) ELSE @]]
    <3>1. run' = [run EXCEPT !.aborted = TRUE, !.status = "ABORTED", !.step = step]
      BY <2>1 DEF Aborted
    <3>2. \A t \in Steps : step[t].status = IF t \in Aborting THEN "aborted" ELSE run.step[t].status
      <4> HIDE DEF closes
      <4> QED BY <1>1 DEF SoundRun, Run, Step
    <3> HIDE DEF step
    <3> QED BY <1>1, <3>1, <3>2 DEF SoundRun, Run
  <2>3. \A e \in Saves(outbox') : e.run = run'
    <3> DEFINE Told == {StatusEvent(t, "aborted") : t \in Aborting}
               Ends == {FinishEvent(t, Last(t), AbortedAttempt(t, est[t])) : t \in Aborting}
               W == Told \cup Ends \cup {SaveEntry(run')}
    <3>1. outbox' \in Seq(W)
      BY <1>1, <2>1, AbortWritesOver
    <3>2. \A e \in W : e.kind = "save" => e.run = run'
      BY DEF StatusEvent, FinishEvent, SaveEntry
    <3> HIDE DEF W
    <3> QED BY <3>1, <3>2, EmptySeq, ConcatWrites DEF Saves
  <2>4. \A t \in Steps : run.step[t].status = "failed" <=> run'.step[t].status = "failed"
    BY <2>2 DEF Aborting
  <2>5. Spoilt(run)' <=> Spoilt(run)
    BY <1>1, <2>4 DEF Spoilt
  <2>6. Grave(run') => Grave(run)
    BY <2>2 DEF Grave
  <2>7. Honest' /\ StopSpoilt' /\ EndOwes' /\ RunOwes' /\ WritesOwe'
    BY <1>1, <2>0, <2>2, <2>3, <2>5, <2>6 DEF Honest, StopSpoilt, EndOwes, RunOwes, WritesOwe
  <2>8. DiskOwes'
    BY <1>1, <1>2, <2>0, <2>4 DEF DiskOwes, Spoilt, Owes, Grave
  <2> QED BY <2>7, <2>8
<1> QED BY <1>3, <1>4


----------------------------------------------------------------------------
(* The disk, and the steps that start and end a process.                   *)

\* A write that reaches the disk, or is lost: the event of a step says what
\* memory says of it.
LEMMA WriteOwing ==
  ASSUME TypeInv, EmptyInv, SettledInv, OwingInv, Flush \/ LoseEvent
  PROVE  OwingInv'
<1> USE DEF OwingInv
<1> DEFINE e == Head(outbox)
<1>1. /\ outbox # <<>> /\ pc # "off" /\ outbox' = Tail(outbox) /\ outbox \in Seq(SoundWrite)
      /\ UNCHANGED <<pc, run, stage, stop, requested>>
      /\ LoseEvent => e.kind # "save" /\ UNCHANGED <<snap, jStatus>>
      /\ Flush => snap' = IF e.kind = "save" THEN e.run ELSE snap
  BY WriteFacts DEF memory, LoseEvent, disk
<1>2. Writes(outbox) = {e} \cup Writes(outbox')
  BY <1>1, TailWrites
<1>3. ASSUME NEW t \in Steps
      PROVE  \/ jStatus'[t] = jStatus[t]
             \/ Flush /\ e = StatusEvent(t, jStatus'[t])
  BY <1>1, FlushFacts
<1> HIDE DEF e
<1>4. ASSUME NEW t \in Steps
      PROVE  \/ jStatus'[t] = jStatus[t]
             \/ jStatus'[t] = run.step[t].status /\ e.kind = "status"
  <2>1. Truthful(e)
    BY <1>1, <1>2 DEF SettledInv, WritesTruthful
  <2> QED BY <1>3, <2>1 DEF Truthful, StatusEvent
<1>5. /\ Saves(outbox') \subseteq Saves(outbox) /\ Tidings(outbox') \subseteq Tidings(outbox)
      /\ e.kind # "save" => Saves(outbox') = Saves(outbox)
      /\ e.kind = "save" => e \in Saves(outbox)
      /\ e.kind = "status" => e \in Tidings(outbox)
  BY <1>2 DEF Saves, Tidings
<1>6. \A t \in Steps : Owing(run.step[t], jStatus[t]) => Owing(run.step[t], jStatus'[t])
  BY <1>4 DEF Owing, Settled
<1>7. (\A t \in Steps : Clear(t) => Clear(t)') /\ (Owes(run) => Owes(run)')
  BY <1>1, <1>6 DEF Clear, Owes
<1>8. Honest' /\ StopSpoilt' /\ EndOwes' /\ RunOwes' /\ WritesOwe'
  BY <1>1, <1>5, <1>7 DEF Honest, StopSpoilt, EndOwes, RunOwes, WritesOwe, Spoilt, AllSettled, Binding
<1>9. DiskOwes'
  <2>1. CASE Flush /\ e.kind = "save"
    <3>1. snap' = e.run /\ \A t \in Steps : jStatus'[t] = jStatus[t]
      BY <1>1, <1>4, <2>1
    <3>2. e.run = run \/ (pc = "pass" /\ (Grave(e.run) => Spoilt(e.run)))
      BY <1>5, <2>1 DEF WritesOwe
    <3>3. CASE e.run = run
      BY <1>1, <1>7, <3>1, <3>3 DEF DiskOwes, RunOwes, Spoilt, Owes
    <3>4. CASE pc = "pass" /\ (Grave(e.run) => Spoilt(e.run))
      BY <1>1, <3>1, <3>4 DEF DiskOwes, Spoilt
    <3> QED BY <3>2, <3>3, <3>4
  <2>2. CASE ~(Flush /\ e.kind = "save")
    <3> SUFFICES ASSUME snap # NoRun, Grave(snap) PROVE DiskOwes'
      BY <1>1, <2>2 DEF DiskOwes, Grave
    <3>1. snap' = snap /\ e.kind # "save"
      BY <1>1, <2>2
    <3>2. pc # "pass" => Owes(snap)'
      <4> SUFFICES ASSUME pc # "pass" PROVE Owes(snap)'
        OBVIOUS
      <4>1. Owes(snap)
        BY DEF DiskOwes
      <4>2. CASE e.kind = "status"
        <5>1. FailedIn(snap) \/ snap = run
          BY <1>1, <1>5, <4>2 DEF DiskOwes, TypeInv, ControlTyped, Places
        <5>2. FailedIn(snap)' \/ (snap = run /\ Owes(run)')
          BY <1>1, <1>7, <3>1, <4>1, <5>1 DEF FailedIn
        <5> QED BY <1>1, <3>1, <5>2, OwingFacts DEF Owes, FailedIn
      <4>3. CASE e.kind # "status"
        BY <1>4, <3>1, <4>1, <4>3 DEF Owes
      <4> QED BY <4>2, <4>3
    <3> QED BY <1>1, <1>5, <3>1, <3>2 DEF DiskOwes, Spoilt, FailedIn
  <2> QED BY <2>1, <2>2
<1> QED BY <1>8, <1>9

\* What a resume makes of a step owes its work, or is settled; it does owe work
\* the disk owed, unless it leaves the step out.
LEMMA ReconciledOwing ==
  ASSUME NEW x \in Step, NEW ev \in Statuses, NEW i, NEW s
  PROVE  LET z == Reconciled(x, ev)
             y == Selected(z, i, s)
         IN  /\ y.status \in Settled \/ Owing(y, ev)
             /\ Owing(x, ev) => z.status \in OwesWork /\ (y.status \in OwesWork \/ Excludes(i, s))
<1> DEFINE z == Reconciled(x, ev)
           y == Selected(z, i, s)
<1>1. /\ z \in Step
      /\ z.status \in Settled \/ Owing(z, ev)
      /\ Owing(x, ev) => z.status \in OwesWork
  <2>1. z \in Step
    BY ReconciledTypes
  <2>2. CASE z = x
    <3>1. \/ x.replay /\ x.status = "pending"
          \/ x.status \notin {"pending", "running"}
          \/ ev \notin {"done", "failed", "skipped", "aborted"}
          \/ x.status = ev /\ ev \in {"done", "failed", "skipped", "aborted"}
      BY <2>2, <2>1 DEF Reconciled, Step
    <3> QED BY <2>1, <2>2, <3>1 DEF Owing, OwesWork, Settled, Step, StepStatus
  <2>3. CASE z # x
    <3>1. /\ ~(x.replay /\ x.status = "pending") /\ x.status \in {"pending", "running"}
          /\ z.status = ev /\ ev \in {"done", "failed", "skipped", "aborted"}
      BY <2>3 DEF Reconciled, Step
    <3> QED BY <2>1, <3>1 DEF Owing, OwesWork, Settled, Step, StepStatus
  <2> QED BY <2>2, <2>3, <2>1
<1> HIDE DEF z
<1>2. \/ y = z /\ ~Replays(i, s)
      \/ y.status = "pending" /\ y.replay
      \/ y.status = "skipped" /\ Excludes(i, s)
  BY <1>1 DEF Selected, Step
<1>3. "pending" \in OwesWork /\ "skipped" \in Settled
  BY DEF OwesWork, StepStatus, Settled
<1> HIDE DEF y
<1> QED BY <1>1, <1>2, <1>3 DEF Owing, y, z

\* A run that owed work is live again, whatever its verdict.
LEMMA RestoredOwing ==
  ASSUME NEW saved \in SoundRun, NEW statuses \in [Steps -> Statuses], NEW attempts, NEW i
  PROVE  LET r == Restored(saved, statuses, attempts, i)
             live == r.status = "RUNNING" /\ ~r.aborted /\ ~r.stopped
         IN  /\ live \/ (r.status = saved.status /\ r.stopped = saved.stopped)
             /\ (\E s \in Steps : Owing(saved.step[s], statuses[s])) => live
<1> DEFINE r == Restored(saved, statuses, attempts, i)
           y(s) == Reconciled(saved.step[s], statuses[s])
           f(s) == ProjectedSpend(saved.step[s].spend, attempts[s])
           z(s) == Selected(y(s), i, s)
           projected == [s \in Steps |-> [y(s) EXCEPT !.spend = f(s)]]
           selected == [s \in Steps |-> Selected(projected[s], i, s)]
           tookWork == \E s \in Steps : Excludes(i, s) /\ projected[s].status \in OwesWork
           hydrated == [saved EXCEPT !.step = selected]
           terminal == AllSettled(hydrated) /\ ~tookWork /\ ~VerdictOwed(hydrated)
           live == Reopened(hydrated, terminal, i)
           last == [s \in Steps |->
                     IF HasOpen(attempts[s])
                     THEN [live.step[s] EXCEPT !.spend = Merge(@, CrashFigure(s))]
                     ELSE live.step[s]]
<1>1. r = [live EXCEPT !.step = last]
  BY DEF Restored
<1>2. \A s \in Steps : y(s) \in Step /\ z(s) \in Step
  <2> TAKE s \in Steps
  <2>1. saved.step[s] \in Step
    BY DEF SoundRun, Run
  <2>2. y(s) \in Step
    BY <2>1, ReconciledTypes
  <2> QED BY <2>2, SelectedTypes
<1>3. \A s \in Steps : selected[s] = [z(s) EXCEPT !.spend = f(s)]
  <2> TAKE s \in Steps
  <2>1. y(s) \in Step
    BY <1>2
  <2> HIDE DEF y, f
  <2> QED BY <2>1, SelectedSpend
<1>4. hydrated.step = selected /\ hydrated.status = saved.status /\ hydrated.stopped = saved.stopped
  BY DEF SoundRun, Run
<1>5. \A s \in Steps : projected[s].status = y(s).status
  <2> HIDE DEF y, f
  <2> QED BY <1>2 DEF Step
<1>6. \A s \in Steps : selected[s].status = z(s).status
  <2> HIDE DEF z, f, selected
  <2> QED BY <1>2, <1>3 DEF Step
<1>7. ASSUME NEW s \in Steps, Owing(saved.step[s], statuses[s]) PROVE ~terminal
  <2>1. saved.step[s] \in Step /\ statuses[s] \in Statuses
    BY DEF SoundRun, Run
  <2>2. y(s).status \in OwesWork /\ (z(s).status \in OwesWork \/ Excludes(i, s))
    BY <1>7, <2>1, ReconciledOwing
  <2> HIDE DEF y, z, projected, selected, hydrated
  <2>3. z(s).status \in OwesWork => ~AllSettled(hydrated)
    BY <1>4, <1>6 DEF AllSettled, OwesWork
  <2> QED BY <1>5, <2>2, <2>3
<1> HIDE DEF y, f, z, projected, terminal
<1>8. /\ r.status = live.status /\ r.aborted = live.aborted /\ r.stopped = live.stopped
      /\ ~terminal => live.status = "RUNNING" /\ ~live.aborted /\ ~live.stopped
      /\ terminal => live.status = saved.status /\ live.stopped = (TRUE /\ saved.stopped)
  BY <1>1 DEF Reopened, SoundRun, Run
<1>9. saved.stopped \in BOOLEAN
  BY DEF SoundRun, Run
<1> HIDE DEF last, live, r, selected, hydrated
<1> QED BY <1>7, <1>8, <1>9 DEF r

\* Opening a run: one with a verdict is opened only to be live again.
LEMMA OpeningOwing ==
  ASSUME TypeInv, TypeInv', SettledInv, OwingInv, NEW i \in Invocations, Create(i) \/ Resume(i)
  PROVE  OwingInv'
<1>1. pc = "off" /\ pc' = "booted" /\ UNCHANGED <<snap, jStatus>>
  BY DEF Create, Resume, disk
<1> DEFINE Reopens(r, w) == /\ \A s \in Steps : Clear(s)'
                            /\ ~Grave(r) /\ \A e \in Saves(w) : e.run = r
                            /\ snap # NoRun /\ Owes(snap) => Saves(w) # {} /\ Tidings(w) = {}
<1>2. ASSUME Reopens(run', outbox') PROVE OwingInv'
  <2>1. Honest' /\ StopSpoilt' /\ EndOwes' /\ RunOwes' /\ WritesOwe'
    BY <1>1, <1>2 DEF Honest, StopSpoilt, EndOwes, RunOwes, WritesOwe, Grave
  <2>2. DiskOwes'
    BY <1>1, <1>2 DEF OwingInv, DiskOwes, Owes, Grave
  <2> QED BY <2>1, <2>2 DEF OwingInv
<1>3. CASE Create(i)
  <2>1. /\ run'.status = "RUNNING" /\ run'.stopped = FALSE /\ outbox' = Saved(run') /\ snap = NoRun
        /\ \A s \in Steps : run'.step[s].status \in {"skipped", "pending"}
    BY <1>3 DEF Create, NewStep
  <2>2. \A s \in Steps : Clear(s)'
    BY <1>1, <2>1 DEF SettledInv, NothingYet, Clear, Owing, Settled, OwesWork, StepStatus
  <2>3. Reopens(run', outbox')
    BY <2>1, <2>2, SavedSaves DEF Grave
  <2> QED BY <1>2, <2>3
<1>4. CASE Resume(i)
  <2> DEFINE y(s) == Selected(Reconciled(snap.step[s], jStatus[s]), i, s)
  <2>1. /\ run' = Restored(snap, jStatus, jAtt, i) /\ snap # NoRun
        /\ outbox' = RestoreWrites(snap, jAtt, run', i)
    BY <1>4 DEF Resume
  <2>2. /\ snap \in SoundRun /\ jStatus \in [Steps -> Statuses] /\ run' \in SoundRun
        /\ jAtt \in [Steps -> [Nums -> Attempt]] /\ \A s \in Steps : snap.step[s] \in Step
    BY <1>1, <2>1 DEF TypeInv, RunsSound, DiskTyped, AttemptsTyped, SoundRun, Run
  <2>3. \A s \in Steps : Same(run'.step[s], y(s))
    BY <2>1, <2>2, RestoredStatus
  <2>4. \A s \in Steps : y(s).status \in Settled \/ Owing(y(s), jStatus[s])
    BY <2>2, ReconciledOwing
  <2> HIDE DEF y
  <2>5. \A s \in Steps : Clear(s)'
    BY <1>1, <2>3, <2>4 DEF Clear, Owing, Same
  <2> DEFINE live == run'.status = "RUNNING" /\ ~run'.aborted /\ ~run'.stopped
  <2>6. /\ live \/ (run'.status = snap.status /\ run'.stopped = snap.stopped)
        /\ Owes(snap) => live
    BY <2>1, <2>2, RestoredOwing DEF Owes
  <2>7. ~Grave(run')
    BY <1>1, <2>1, <2>6 DEF OwingInv, DiskOwes, Grave
  <2>8. /\ \A e \in Writes(outbox') : e.kind = "finish" \/ e = SaveEntry(run')
        /\ run'.status = "RUNNING" /\ ~run'.aborted => SaveEntry(run') \in Writes(outbox')
    BY <2>1, <2>2, RestoreHolds
  <2>9. /\ \A e \in Saves(outbox') : e.run = run'
        /\ Tidings(outbox') = {}
        /\ live => Saves(outbox') # {}
    BY <2>8 DEF Saves, Tidings, SaveEntry
  <2>10. Reopens(run', outbox')
    BY <2>5, <2>6, <2>7, <2>9
  <2> QED BY <1>2, <2>10
<1> QED BY <1>3, <1>4

\* The end of a process, natural or not.
LEMMA GoneOwing ==
  ASSUME OwingInv, Exit \/ Crash
  PROVE  OwingInv'
<1>1. pc' = "off" /\ outbox' = <<>> /\ UNCHANGED <<snap, jStatus>> /\ pc # "off"
  BY DEF Exit, Crash, Gone, disk, history
<1>2. Honest' /\ StopSpoilt' /\ EndOwes' /\ RunOwes' /\ WritesOwe'
  BY <1>1, NoSaves DEF Honest, StopSpoilt, EndOwes, RunOwes, WritesOwe, Live
<1>3. snap # NoRun /\ Grave(snap) => Owes(snap)
  BY OwingFacts DEF OwingInv, DiskOwes
<1>4. DiskOwes'
  BY <1>1, <1>3 DEF DiskOwes, Owes, Grave
<1> QED BY <1>2, <1>4 DEF OwingInv

\* Before any process nothing is owed.
LEMMA InitOwing == Init => OwingInv
BY NoSaves DEF Init, OwingInv, Honest, StopSpoilt, EndOwes, RunOwes, WritesOwe, DiskOwes, Live

\* The invariant is inductive when no step is run again on a resume.
LEMMA NextOwing ==
  ASSUME RerunOnResume = {}, TypeInv, EmptyInv, SettledInv, VerdictInv, SignalInv, OwingInv, [Next]_vars
  PROVE  OwingInv'
<1>0. TypeInv' /\ Ungrouped /\ UnderWay
  BY NextTypes DEF SignalInv, SettledInv
<1>1. CASE Open
  <2>1. PICK i \in Invocations : Create(i) \/ Resume(i)
    BY <1>1 DEF Open
  <2> QED BY <1>0, <2>1, OpeningOwing
<1>2. CASE OpenLedger \/ Admission
  <2>1. CASE OpenLedger
    BY <2>1, GoesOnOwing
  <2>2. CASE Admission
    <3>1. PICK s \in Steps :
            \/ PassOver(s) \/ CostStopsAdmission(s) \/ WhenSkips(s) \/ WhenStops(s)
            \/ AdmissionFails(s) \/ AdmissionAbsorbed(s) \/ NeedsDecision(s) \/ Admit(s)
      BY <2>2 DEF Admission
    <3>2. CASE PassOver(s) \/ WhenSkips(s) \/ AdmissionAbsorbed(s) \/ Admit(s)
      BY <3>2, GoesOnOwing
    <3>3. CASE CostStopsAdmission(s) \/ WhenStops(s) \/ NeedsDecision(s) \/ AdmissionFails(s)
      BY <3>3, BreaksOwing
    <3> QED BY <3>1, <3>2, <3>3
  <2> QED BY <1>2, <2>1, <2>2
<1>3. CASE Launch \/ LeaveLoop \/ NextUnit \/ UnitStops \/ TreeWritesStop \/ Finalize
  <2>1. CASE LeaveLoop
    BY <2>1, BreaksOwing
  <2>2. CASE Launch \/ NextUnit \/ UnitStops \/ TreeWritesStop
    BY <1>0, <2>2, UnitOwing
  <2> QED BY <1>3, <2>1, <2>2, FinalizeOwing
<1>4. CASE Pass
  <2>1. PICK s \in Steps :
        \/ StartPass(s) \/ OpenAttempt(s) \/ Spawn(s) \/ SettleAttempt(s)
        \/ Succeed(s) \/ Abandon(s) \/ CutShort(s) \/ StopBlocked(s) \/ Absorb(s)
        \/ Fail(s) \/ CostStopsRetry(s) \/ Rerun(s)
    BY <1>4 DEF Pass
  <2> QED BY <1>0, <2>1, WorkOwing, AnswerOwing, FailsOwing
<1>5. CASE Exit \/ Crash \/ Flush \/ LoseEvent \/ Signal
  BY <1>5, GoneOwing, WriteOwing, SignalOwing
<1>6. CASE UNCHANGED vars
  <2>1. UNCHANGED <<pc, run, stage, stop, requested, outbox, snap, jStatus>>
    BY <1>6 DEF vars, memory, disk
  <2>2. Honest' /\ StopSpoilt' /\ EndOwes' /\ RunOwes' /\ WritesOwe'
    BY <2>1 DEF OwingInv, Honest, Clear, StopSpoilt, Spoilt, EndOwes, Owes, AllSettled, RunOwes,
       WritesOwe, Saves, Writes
  <2>3. DiskOwes'
    BY <2>1 DEF OwingInv, DiskOwes, Spoilt, Owes, FailedIn, Saves, Tidings, Writes
  <2> QED BY <2>2, <2>3 DEF OwingInv
<1> QED BY <1>1, <1>2, <1>3, <1>4, <1>5, <1>6 DEF Next, Progress

LEMMA OwingInvariant == RerunOnResume = {} => (Spec => [](TypeInv /\ VerdictInv /\ OwingInv))
<1> SUFFICES ASSUME RerunOnResume = {} PROVE Spec => [](TypeInv /\ VerdictInv /\ OwingInv)
  OBVIOUS
<1>1. TypeInv /\ EmptyInv /\ SettledInv /\ VerdictInv /\ SignalInv /\ OwingInv /\ [Next]_vars
        => OwingInv'
  BY NextOwing
<1> QED BY <1>1, InitOwing, SignalInvariant, PTL DEF Spec

\* A verdict on disk that is no pass owes work the journal does not settle.
LEMMA GraveOwes == OwingInv => (snap # NoRun /\ Grave(snap) => ~AllSettled(snap))
BY OwingFacts DEF OwingInv, DiskOwes

\* When no step declares rerunOnResume, a stop on cost, like any failure, leaves a
\* step of its run to execute, so that a resume accepts it: no ceiling is ever
\* enforced on a run that is complete (step-admission.ts:303, ledgerStops).
THEOREM FailureIsResumable == RerunOnResume = {} => (Spec => []CostStopIsResumable)
<1>1. OwingInv => CostStopIsResumable
  BY GraveOwes DEF CostStopIsResumable, Owed, Grave
<1> QED BY <1>1, OwingInvariant, PTL

\* With no group besides, whose stray writes may stop a complete run, whatever is
\* not a pass on disk is a run that resumeDecision accepts: every stop, failure,
\* abort and death, at any of its writes, leaves work or a verdict owed
\* (run-predicates.ts resumeDecision, remainingWork).
THEOREM NothingIsStranded ==
  Group = {} /\ RerunOnResume = {} => (Spec => []UnfinishedIsResumable)
<1> SUFFICES ASSUME Group = {}, RerunOnResume = {} PROVE Spec => []UnfinishedIsResumable
  OBVIOUS
<1>1. ASSUME TypeInv, VerdictInv, OwingInv, snap # NoRun, snap.status # "PASS" PROVE Owed(snap)
  <2>1. snap.status \in {"RUNNING", "ABORTED", "FAIL", "STOPPED"}
    BY <1>1 DEF TypeInv, RunsSound, SoundRun, Run, RunStatus, VerdictInv, DiskOver, Sound
  <2> QED BY <1>1, <2>1, GraveOwes DEF Grave, Owed, VerdictOwed
<1>2. TypeInv /\ VerdictInv /\ OwingInv => UnfinishedIsResumable
  BY <1>1 DEF UnfinishedIsResumable
<1> QED BY <1>2, OwingInvariant, PTL

----------------------------------------------------------------------------
(* A resume repeated.                                                      *)

\* Steps and runs whose spend is in V: a run that is only restored, and not yet
\* executed, may hold any amount.
StepOf(V) == [status: StepStatus, last: 0..MaxAttempts, retries: Int, spend: V, replay: BOOLEAN]
RunOf(V) ==
  [status: RunStatus, aborted: BOOLEAN, stopped: BOOLEAN, exceeded: BOOLEAN, unaccounted: BOOLEAN,
   unmetered: BOOLEAN, max: Nat, step: [Steps -> StepOf(V)]]

\* What a resume reads of a step, and whether the run it reads is over.
ReadAs(x, ev, i, s) == Selected(Reconciled(x, ev), i, s)
LeftOut(x, ev, i, s) == Excludes(i, s) /\ Reconciled(x, ev).status \in OwesWork
EndRead(saved, statuses, i) ==
  /\ saved.status \notin {"RUNNING", "ABORTED"}
  /\ \A s \in Steps : /\ ReadAs(saved.step[s], statuses[s], i, s).status \in Settled
                      /\ ~LeftOut(saved.step[s], statuses[s], i, s)

\* A step read keeps its shape, its quota and its spend.
LEMMA ReadStep ==
  ASSUME NEW V, NEW x \in StepOf(V), NEW ev \in Statuses, NEW i, NEW s
  PROVE  /\ Reconciled(x, ev) \in StepOf(V) /\ ReadAs(x, ev, i, s) \in StepOf(V)
         /\ ReadAs(x, ev, i, s).retries = x.retries /\ Reconciled(x, ev).spend = x.spend
<1> DEFINE y == Reconciled(x, ev)
<1>1. y \in StepOf(V) /\ y.retries = x.retries /\ y.spend = x.spend
  <2>1. CASE y = x
    BY <2>1
  <2>2. CASE y # x
    <3>1. ev \in StepStatus /\ y = [x EXCEPT !.status = ev, !.replay = IF ev \in Settled THEN FALSE ELSE @]
      BY <2>2 DEF Reconciled, StepStatus
    <3> QED BY <3>1 DEF StepOf
  <2> QED BY <2>1, <2>2
<1> HIDE DEF y
<1>2. Selected(y, i, s) \in StepOf(V) /\ Selected(y, i, s).retries = y.retries
  BY <1>1 DEF Selected, StepOf, StepStatus
<1> QED BY <1>1, <1>2 DEF ReadAs, y

\* The selection does not look at the spend.
LEMMA ReadSpend ==
  ASSUME NEW V, NEW x \in StepOf(V), NEW i, NEW s, NEW f
  PROVE  Selected([x EXCEPT !.spend = f], i, s) = [Selected(x, i, s) EXCEPT !.spend = f]
BY DEF Selected, StepOf

\* What is read of a step already read is the same, and nothing of it is left out
\* a second time.
LEMMA ReadTwice ==
  ASSUME NEW V, NEW x \in StepOf(V), NEW W, NEW w \in StepOf(W), NEW ev \in Statuses,
         NEW i \in Invocation, NEW s \in Steps,
         Same(w, ReadAs(x, ev, i, s))
  PROVE  Same(ReadAs(w, ev, i, s), w) /\ ~LeftOut(w, ev, i, s)
<1> DEFINE y == Reconciled(x, ev)
           z == Selected(y, i, s)
<1>0. y \in StepOf(V) /\ w.status = z.status /\ w.replay = z.replay
  BY ReadStep DEF Same, ReadAs
<1>1. \/ y.replay /\ y.status = "pending"
      \/ y.status \notin {"pending", "running"}
      \/ ev \notin {"done", "failed", "skipped", "aborted"}
  <2>1. CASE y = x
    BY <2>1 DEF Reconciled, StepOf, StepStatus
  <2>2. CASE y # x
    <3>1. ev \in {"done", "failed", "skipped", "aborted"} /\ y.status = ev
      BY <2>2 DEF Reconciled, StepOf
    <3> QED BY <3>1
  <2> QED BY <2>1, <2>2
<1> HIDE DEF y
<1>2. CASE Replays(i, s)
  <2>1. z.status = "pending" /\ z.replay
    BY <1>0, <1>2 DEF Selected, StepOf
  <2>2. Reconciled(w, ev) = w
    BY <1>0, <2>1 DEF Reconciled
  <2>3. ~Excludes(i, s)
    <3>1. i.startAt \in Nat /\ s \in Nat
      BY DEF Invocation, Steps
    <3> QED BY <1>2, <3>1 DEF Excludes, Replays
  <2> QED BY <1>0, <1>2, <2>1, <2>2, <2>3 DEF ReadAs, LeftOut, Selected, Same, StepOf
<1>3. CASE ~Replays(i, s) /\ Excludes(i, s) /\ y.status \in OwesWork
  <2>1. z.status = "skipped"
    BY <1>0, <1>3 DEF Selected, StepOf
  <2>2. Reconciled(w, ev) = w
    BY <1>0, <2>1 DEF Reconciled
  <2>3. w.status \notin OwesWork
    BY <1>0, <2>1 DEF OwesWork, Settled
  <2> QED BY <1>3, <2>2, <2>3 DEF ReadAs, LeftOut, Selected, Same
<1>4. CASE ~Replays(i, s) /\ ~(Excludes(i, s) /\ y.status \in OwesWork)
  <2>1. z = y
    BY <1>4 DEF Selected
  <2>2. Reconciled(w, ev) = w
    BY <1>0, <1>1, <2>1 DEF Reconciled
  <2> QED BY <1>0, <1>4, <2>1, <2>2 DEF ReadAs, LeftOut, Selected, Same
<1> QED BY <1>2, <1>3, <1>4

\* What a resume restores, field by field.
LEMMA RestoredView ==
  ASSUME NEW V, NEW saved \in RunOf(V), NEW statuses \in [Steps -> Statuses],
         NEW attempts, NEW i \in Invocation, Projectable(saved, attempts)
  PROVE  LET r == Restored(saved, statuses, attempts, i) IN
         /\ \E W : r \in RunOf(W)
         /\ r.status = IF EndRead(saved, statuses, i) THEN saved.status ELSE "RUNNING"
         /\ r.exceeded = (i.budget = 0 /\ saved.exceeded)
         /\ r.max = IF i.budget # 0 THEN i.budget ELSE saved.max
         /\ r.unmetered = (saved.unmetered \/ i.unmetered)
         /\ \A s \in Steps :
              /\ Same(r.step[s], ReadAs(saved.step[s], statuses[s], i, s))
              /\ r.step[s].retries = saved.step[s].retries
              /\ r.step[s].spend.cost = ProjectedSpend(saved.step[s].spend, attempts[s]).cost
<1> DEFINE r == Restored(saved, statuses, attempts, i)
           y(s) == Reconciled(saved.step[s], statuses[s])
           f(s) == ProjectedSpend(saved.step[s].spend, attempts[s])
           z(s) == Selected(y(s), i, s)
           projected == [s \in Steps |-> [y(s) EXCEPT !.spend = f(s)]]
           selected == [s \in Steps |-> Selected(projected[s], i, s)]
           tookWork == \E s \in Steps : Excludes(i, s) /\ projected[s].status \in OwesWork
           hydrated == [saved EXCEPT !.step = selected]
           terminal == AllSettled(hydrated) /\ ~tookWork /\ ~VerdictOwed(hydrated)
           live == Reopened(hydrated, terminal, i)
           last == [s \in Steps |->
                     IF HasOpen(attempts[s])
                     THEN [live.step[s] EXCEPT !.spend = Merge(@, CrashFigure(s))]
                     ELSE live.step[s]]
<1>1. r = [live EXCEPT !.step = last]
  BY DEF Restored
<1>2. \A s \in Steps : /\ y(s) \in StepOf(V) /\ z(s) \in StepOf(V)
                       /\ z(s).retries = saved.step[s].retries /\ f(s).cost \in Nat
  <2> TAKE s \in Steps
  <2>1. saved.step[s] \in StepOf(V)
    BY DEF RunOf
  <2> QED BY <2>1, ReadStep DEF ReadAs, Projectable
<1>3. \A s \in Steps : /\ selected[s] = [z(s) EXCEPT !.spend = f(s)]
                       /\ projected[s].status = y(s).status
  <2> TAKE s \in Steps
  <2>1. y(s) \in StepOf(V)
    BY <1>2
  <2>2. selected[s] = Selected(projected[s], i, s) /\ projected[s] = [y(s) EXCEPT !.spend = f(s)]
    OBVIOUS
  <2> HIDE DEF y, f, selected, projected
  <2>3. Selected([y(s) EXCEPT !.spend = f(s)], i, s) = [z(s) EXCEPT !.spend = f(s)]
    BY <2>1, ReadSpend
  <2>4. [y(s) EXCEPT !.spend = f(s)].status = y(s).status
    BY <2>1 DEF StepOf
  <2> QED BY <2>2, <2>3, <2>4
<1> HIDE DEF y, f, z
<1>4. hydrated.step = selected /\ hydrated.status = saved.status
  BY DEF RunOf
<1>5. terminal <=> EndRead(saved, statuses, i)
  <2>1. \A s \in Steps : selected[s].status = z(s).status
    BY <1>2, <1>3 DEF StepOf
  <2>2. \A s \in Steps : /\ z(s) = ReadAs(saved.step[s], statuses[s], i, s)
                         /\ Excludes(i, s) /\ y(s).status \in OwesWork
                              <=> LeftOut(saved.step[s], statuses[s], i, s)
    BY DEF z, y, ReadAs, LeftOut
  <2>3. tookWork <=> \E s \in Steps : LeftOut(saved.step[s], statuses[s], i, s)
    BY <1>3, <2>2
  <2>4. AllSettled(hydrated) <=> \A s \in Steps : ReadAs(saved.step[s], statuses[s], i, s).status \in Settled
    BY <1>4, <2>1, <2>2 DEF AllSettled
  <2> HIDE DEF hydrated, tookWork, selected, projected
  <2> QED BY <1>4, <2>3, <2>4 DEF EndRead, VerdictOwed
<1> HIDE DEF projected, terminal
<1>6. /\ live.step = selected /\ r.step = last
      /\ live = [saved EXCEPT !.step = selected,
                   !.status = IF terminal THEN saved.status ELSE "RUNNING",
                   !.aborted = terminal /\ saved.aborted,
                   !.stopped = terminal /\ saved.stopped,
                   !.exceeded = i.budget = 0 /\ saved.exceeded,
                   !.max = IF i.budget # 0 THEN i.budget ELSE saved.max,
                   !.unmetered = saved.unmetered \/ i.unmetered]
  BY <1>1 DEF Reopened, RunOf
<1>7. \A s \in Steps : \E g : last[s] = [z(s) EXCEPT !.spend = g] /\ g.cost = f(s).cost
  <2> TAKE s \in Steps
  <2> HIDE DEF selected, live
  <2>1. z(s) \in StepOf(V) /\ live.step[s] = [z(s) EXCEPT !.spend = f(s)] /\ f(s).cost \in Nat
    BY <1>2, <1>3, <1>6
  <2>2. CASE HasOpen(attempts[s])
    <3> DEFINE g == Merge(live.step[s].spend, CrashFigure(s))
    <3>1. last[s] = [live.step[s] EXCEPT !.spend = g]
      BY <2>2
    <3>2. g.cost = f(s).cost + 0
      <4>1. \A u, v : Merge(u, v).cost = u.cost + v.cost
        BY DEF Merge
      <4>2. live.step[s].spend = f(s)
        BY <2>1 DEF StepOf
      <4>3. CrashFigure(s).cost = 0
        BY DEF CrashFigure, Silent, NoFigure
      <4> QED BY <4>1, <4>2, <4>3
    <3> HIDE DEF g
    <3>3. last[s] = [z(s) EXCEPT !.spend = g]
      BY <2>1, <3>1 DEF StepOf
    <3> QED BY <2>1, <3>2, <3>3
  <2>3. CASE ~HasOpen(attempts[s])
    BY <2>1, <2>3
  <2> QED BY <2>2, <2>3
<1>8. last = [s \in Steps |-> last[s]]
  OBVIOUS
<1> HIDE DEF last, selected
<1>9. \A s \in Steps : /\ Same(last[s], z(s)) /\ last[s].retries = saved.step[s].retries
                       /\ last[s].spend.cost = f(s).cost
                       /\ last[s] \in StepOf({last[t].spend : t \in Steps})
  <2> TAKE s \in Steps
  <2>1. PICK g : last[s] = [z(s) EXCEPT !.spend = g] /\ g.cost = f(s).cost
    BY <1>7
  <2>2. /\ last[s].status = z(s).status /\ last[s].replay = z(s).replay
        /\ last[s].retries = z(s).retries /\ last[s].spend = g
    BY <1>2, <2>1 DEF StepOf
  <2> DEFINE W == {last[t].spend : t \in Steps}
  <2>3. g \in W
    BY <2>2
  <2> HIDE DEF W
  <2>4. last[s] \in StepOf(W)
    BY <1>2, <2>1, <2>3 DEF StepOf
  <2> QED BY <1>2, <2>1, <2>2, <2>4 DEF Same, W
<1> DEFINE W == {last[t].spend : t \in Steps}
<1>10. last \in [Steps -> StepOf(W)]
  BY <1>8, <1>9
<1> HIDE DEF W
<1>11. r = [saved EXCEPT !.step = last,
                   !.status = IF terminal THEN saved.status ELSE "RUNNING",
                   !.aborted = terminal /\ saved.aborted,
                   !.stopped = terminal /\ saved.stopped,
                   !.exceeded = i.budget = 0 /\ saved.exceeded,
                   !.max = IF i.budget # 0 THEN i.budget ELSE saved.max,
                   !.unmetered = saved.unmetered \/ i.unmetered]
  <2> HIDE DEF live
  <2> DEFINE st == IF terminal THEN saved.status ELSE "RUNNING"
             ab == terminal /\ saved.aborted
             so == terminal /\ saved.stopped
             ex == i.budget = 0 /\ saved.exceeded
             mx == IF i.budget # 0 THEN i.budget ELSE saved.max
             um == saved.unmetered \/ i.unmetered
  <2>1. live = [saved EXCEPT !.step = selected, !.status = st, !.aborted = ab, !.stopped = so,
                  !.exceeded = ex, !.max = mx, !.unmetered = um]
    BY <1>6
  <2>2. r = [live EXCEPT !.step = last]
    BY <1>1
  <2> HIDE DEF r, st, ab, so, ex, mx, um
  <2>3. r = [saved EXCEPT !.step = last, !.status = st, !.aborted = ab, !.stopped = so,
               !.exceeded = ex, !.max = mx, !.unmetered = um]
    BY <2>1, <2>2 DEF RunOf
  <2> QED BY <2>3 DEF st, ab, so, ex, mx, um
<1> HIDE DEF r, live
<1>12. /\ saved.status \in RunStatus /\ "RUNNING" \in RunStatus /\ i.budget \in Nat
       /\ i.unmetered \in BOOLEAN /\ saved.max \in Nat /\ saved.unmetered \in BOOLEAN
       /\ saved.aborted \in BOOLEAN /\ saved.stopped \in BOOLEAN /\ saved.exceeded \in BOOLEAN
  BY DEF RunOf, RunStatus, Invocation
<1>13. r \in RunOf(W)
  <2> DEFINE st == IF terminal THEN saved.status ELSE "RUNNING"
             ab == terminal /\ saved.aborted
             so == terminal /\ saved.stopped
             ex == i.budget = 0 /\ saved.exceeded
             mx == IF i.budget # 0 THEN i.budget ELSE saved.max
             um == saved.unmetered \/ i.unmetered
  <2>1. st \in RunStatus /\ mx \in Nat
    BY <1>12
  <2>2. ab \in BOOLEAN /\ so \in BOOLEAN /\ ex \in BOOLEAN /\ um \in BOOLEAN
    OBVIOUS
  <2>3. r = [saved EXCEPT !.step = last, !.status = st, !.aborted = ab, !.stopped = so,
               !.exceeded = ex, !.max = mx, !.unmetered = um]
    BY <1>11
  <2> HIDE DEF st, ab, so, ex, mx, um
  <2>4. /\ r = [status |-> st, aborted |-> ab, stopped |-> so, exceeded |-> ex,
               unaccounted |-> saved.unaccounted, unmetered |-> um, max |-> mx, step |-> last]
        /\ saved.unaccounted \in BOOLEAN
    BY <2>3 DEF RunOf
  <2> QED BY <1>10, <2>1, <2>2, <2>4 DEF RunOf
<1>14. /\ r.status = IF terminal THEN saved.status ELSE "RUNNING"
       /\ r.exceeded = (i.budget = 0 /\ saved.exceeded)
       /\ r.max = IF i.budget # 0 THEN i.budget ELSE saved.max
       /\ r.unmetered = (saved.unmetered \/ i.unmetered)
       /\ r.step = last
  BY <1>11 DEF RunOf
<1> QED BY <1>5, <1>9, <1>13, <1>14 DEF r, z, y, f, ReadAs

\* What a resume gives account of is in the fields above.
LEMMA SameGist ==
  ASSUME NEW q, NEW r,
         q.status = r.status, q.max = r.max, q.exceeded = r.exceeded, q.unmetered = r.unmetered,
         \A s \in Steps : /\ Same(q.step[s], r.step[s]) /\ q.step[s].retries = r.step[s].retries
                          /\ q.step[s].spend.cost = r.step[s].spend.cost
                          /\ r.step[s].spend.cost \in Nat
  PROVE  Gist(q) = Gist(r)
<1>1. Spent(q) /\ Spent(r) /\ Spends(q) = Spends(r)
  BY DEF Spent, Spends
<1>2. RunCost(q) = RunCost(r)
  BY <1>1, RunCostTotal DEF Spent
<1>3. [s \in Steps |-> <<q.step[s].status, q.step[s].replay, q.step[s].retries>>]
        = [s \in Steps |-> <<r.step[s].status, r.step[s].replay, r.step[s].retries>>]
  BY DEF Same
<1> QED BY <1>2, <1>3 DEF Gist

\* A step costs the same against a journal that holds the same amounts of the same
\* attempts, and costs no more when it is projected again.
LEMMA SameProjection ==
  ASSUME NEW a \in [Nums -> Attempt], NEW b \in [Nums -> Attempt],
         \A n \in Nums : a[n].fig.cost = b[n].fig.cost, Known(a) = Known(b),
         NEW spend, spend.cost \in Nat
  PROVE  LET p == ProjectedSpend(spend, a).cost IN
         /\ p \in Nat /\ ProjectedSpend(spend, b).cost = p
         /\ \A again : again.cost = p => ProjectedSpend(again, b).cost = p
<1> DEFINE sum == SumAttempts(a)
           other == SumAttempts(b)
<1>1. Cost(a) \in Nat /\ sum.cost = Cost(a) /\ other.cost = Cost(a)
  BY AttemptsTotal, CostSame
<1>2. PICK u, t : sum = [cost |-> Cost(a), unknown |-> u, tokens |-> t]
  BY AttemptsTotal
<1>3. PICK v, k : other = [cost |-> Cost(b), unknown |-> v, tokens |-> k]
  BY AttemptsTotal
<1>4. \A x : /\ [sum EXCEPT !.tokens = @ \/ x].cost = Cost(a)
             /\ [other EXCEPT !.tokens = @ \/ x].cost = Cost(a)
  BY <1>1, <1>2, <1>3
<1> HIDE DEF sum, other
<1>5. \A x : /\ ProjectedSpend(x, a).cost = IF Known(a) = {} \/ Cost(a) <= x.cost THEN x.cost ELSE Cost(a)
             /\ ProjectedSpend(x, b).cost = IF Known(a) = {} \/ Cost(a) <= x.cost THEN x.cost ELSE Cost(a)
  BY <1>1, <1>4 DEF ProjectedSpend, sum, other
<1> QED BY <1>1, <1>5

\* A resume writes closures of attempts that are open, and the run.
LEMMA RestoreShape ==
  ASSUME jAtt \in [Steps -> [Nums -> Attempt]], NEW saved, NEW r, NEW i,
         NEW k \in 1..Len(RestoreWrites(saved, jAtt, r, i))
  PROVE  LET e == RestoreWrites(saved, jAtt, r, i)[k] IN
         \/ e = SaveEntry(r)
         \/ \E s \in Steps : HasOpen(jAtt[s]) /\ e = Closing(s)
<1> DEFINE crashed == {s \in Steps : HasOpen(jAtt[s])}
           c == Cardinality(crashed)
           order == Ascending(crashed)
           closes == [m \in 1..c |-> Closing(order[m])]
           changed == crashed # {} \/ (i.unmetered /\ ~saved.unmetered)
           saves == IF r.status = "RUNNING" \/ changed THEN Saved(r) ELSE <<>>
           w == RestoreWrites(saved, jAtt, r, i)
           S == {Closing(s) : s \in crashed} \cup {SaveEntry(r)}
<1>1. w = closes \o saves
  BY DEF RestoreWrites, Closing, OpenNum
<1>2. c \in Nat /\ \A m \in 1..c : order[m] \in crashed
  BY AscendingTyped
<1>3. closes \in Seq(S)
  <2> HIDE DEF crashed, c, order
  <2> QED BY <1>2
<1>4. saves \in Seq(S)
  <2>1. SaveEntry(r) \in S
    OBVIOUS
  <2> HIDE DEF S
  <2>2. <<SaveEntry(r)>> \in Seq(S) /\ <<>> \in Seq(S)
    BY <2>1
  <2> QED BY <2>2 DEF Saved
<1> HIDE DEF closes, saves, w, S
<1>5. w \in Seq(S)
  BY <1>1, <1>3, <1>4, ConcatProperties
<1>6. w[k] \in S
  BY <1>5 DEF w
<1> QED BY <1>6 DEF S, w

\* A resume killed after any of its writes, then repeated, restores the same run
\* and closes the same attempts: what it read of a step it reads again, and what a
\* crashed attempt is closed with costs what the open one did (step-resume.ts,
\* settleCrashedAttempts, restoreRun).
THEOREM ResumeIsIdempotent == Spec => []ResumeIdempotent
<1>1. ASSUME TypeInv, AttemptCosts, pc = "off", snap # NoRun, NEW i \in Invocations,
             NEW k \in 1..Len(RestoreWrites(snap, jAtt, Restored(snap, jStatus, jAtt, i), i))
      PROVE  LET r == Restored(snap, jStatus, jAtt, i)
                 w == RestoreWrites(snap, jAtt, r, i)
                 again == [s \in Steps |-> AfterWrites(w, k, s)]
                 saved == IF w[k].kind = "save" THEN w[k].run ELSE snap
             IN  /\ Gist(Restored(saved, jStatus, again, i)) = Gist(r)
                 /\ \A s \in Steps : SettledAttempts(s, again[s]) = SettledAttempts(s, jAtt[s])
  <2> DEFINE r == Restored(snap, jStatus, jAtt, i)
             w == RestoreWrites(snap, jAtt, r, i)
             again == [s \in Steps |-> AfterWrites(w, k, s)]
             saved == IF w[k].kind = "save" THEN w[k].run ELSE snap
             q == Restored(saved, jStatus, again, i)
  <2>1. /\ snap \in SoundRun /\ jStatus \in [Steps -> Statuses] /\ i \in Invocation
        /\ jAtt \in [Steps -> [Nums -> Attempt]]
    BY <1>1, Assumptions DEF TypeInv, RunsSound, DiskTyped, AttemptsTyped
  <2>2. snap \in RunOf(Figure)
    BY <2>1 DEF SoundRun, Run, Step, RunOf, StepOf
  <2>3. \A j \in 1..Len(w) : w[j] = SaveEntry(r) \/ \E s \in Steps : HasOpen(jAtt[s]) /\ w[j] = Closing(s)
    <3> HIDE DEF r
    <3> QED BY <2>1, RestoreShape
  <2>4. ASSUME NEW s \in Steps, NEW n \in Nums
        PROVE  again[s][n] = jAtt[s][n] \/ (jAtt[s][n].status = "running" /\ again[s][n] = Crashed(s))
    <3>1. CASE \E j \in 1..k : w[j].kind = "finish" /\ w[j].step = s /\ w[j].n = n
      <4>1. PICK j \in 1..k : w[j].kind = "finish" /\ w[j].step = s /\ w[j].n = n
        BY <3>1
      <4>2. j \in 1..Len(w)
        BY <1>1
      <4>3. w[j] # SaveEntry(r)
        BY <4>1 DEF SaveEntry
      <4>4. PICK t \in Steps : HasOpen(jAtt[t]) /\ w[j] = Closing(t)
        BY <2>3, <4>2, <4>3
      <4>5. t = s /\ OpenNum(jAtt[t]) = n
        BY <4>1, <4>4 DEF Closing, FinishEvent
      <4>6. jAtt[t][OpenNum(jAtt[t])].status = "running"
        BY <4>4 DEF HasOpen, OpenNum
      <4>7. again[s][n] = Crashed(s)
        <5> HIDE DEF w
        <5> QED BY <2>4, <3>1 DEF AfterWrites
      <4> QED BY <4>5, <4>6, <4>7
    <3>2. CASE ~ \E j \in 1..k : w[j].kind = "finish" /\ w[j].step = s /\ w[j].n = n
      <4> HIDE DEF w
      <4> QED BY <2>4, <3>2 DEF AfterWrites
    <3> QED BY <3>1, <3>2
  <2>5. /\ again \in [Steps -> [Nums -> Attempt]]
        /\ \A s \in Steps : /\ Known(jAtt[s]) = Known(again[s])
                            /\ \A n \in Nums : jAtt[s][n].fig.cost = again[s][n].fig.cost
    <3>1. \A s \in Steps : again[s] = [n \in Nums |-> again[s][n]]
      <4> HIDE DEF w
      <4> QED BY DEF AfterWrites
    <3>2. again = [s \in Steps |-> again[s]]
      OBVIOUS
    <3> HIDE DEF again
    <3>3. ASSUME NEW s \in Steps, NEW n \in Nums
          PROVE  /\ again[s][n] \in Attempt
                 /\ again[s][n].status # "none" <=> jAtt[s][n].status # "none"
                 /\ jAtt[s][n].fig.cost = again[s][n].fig.cost
      <4>1. CASE again[s][n] = jAtt[s][n]
        BY <2>1, <4>1
      <4>2. CASE jAtt[s][n].status = "running" /\ again[s][n] = Crashed(s)
        <5>1. jAtt[s][n].fig.cost = 0
          BY <1>1, <4>2 DEF AttemptCosts, Costless, Closed
        <5> QED BY <4>2, <5>1, AttemptTypes, RecordCost DEF Closed
      <4> QED BY <2>4, <4>1, <4>2
    <3> QED BY <3>1, <3>2, <3>3 DEF Known
  <2>6. \A s \in Steps : SettledAttempts(s, again[s]) = SettledAttempts(s, jAtt[s])
    <3> TAKE s \in Steps
    <3> HIDE DEF again
    <3>1. Crashed(s).status # "running"
      BY DEF Crashed
    <3> QED BY <2>4, <3>1 DEF SettledAttempts
  <2> HIDE DEF again
  <2>7. \A s \in Steps : snap.step[s].spend.cost \in Nat
    BY <2>1, SoundSpent DEF Spent
  <2>8. \A s \in Steps : LET p == ProjectedSpend(snap.step[s].spend, jAtt[s]).cost IN
          /\ p \in Nat /\ ProjectedSpend(snap.step[s].spend, again[s]).cost = p
          /\ \A x : x.cost = p => ProjectedSpend(x, again[s]).cost = p
    <3> TAKE s \in Steps
    <3> HIDE DEF r, w, saved
    <3>1. /\ jAtt[s] \in [Nums -> Attempt] /\ again[s] \in [Nums -> Attempt]
          /\ \A n \in Nums : jAtt[s][n].fig.cost = again[s][n].fig.cost
          /\ Known(jAtt[s]) = Known(again[s]) /\ snap.step[s].spend.cost \in Nat
      BY <2>1, <2>5, <2>7
    <3> QED BY <3>1, SameProjection
  <2>9. Projectable(snap, jAtt) /\ Projectable(snap, again)
    BY <2>8 DEF Projectable
  <2>10. PICK W : r \in RunOf(W)
    BY <2>1, <2>2, <2>9, RestoredView
  <2>11. /\ r.status = IF EndRead(snap, jStatus, i) THEN snap.status ELSE "RUNNING"
         /\ r.exceeded = (i.budget = 0 /\ snap.exceeded)
         /\ r.max = IF i.budget # 0 THEN i.budget ELSE snap.max
         /\ r.unmetered = (snap.unmetered \/ i.unmetered)
         /\ \A s \in Steps :
              /\ Same(r.step[s], ReadAs(snap.step[s], jStatus[s], i, s))
              /\ r.step[s].retries = snap.step[s].retries
              /\ r.step[s].spend.cost = ProjectedSpend(snap.step[s].spend, jAtt[s]).cost
    BY <2>1, <2>2, <2>9, RestoredView
  <2>12. \A s \in Steps : r.step[s].spend.cost \in Nat
    BY <2>8, <2>11
  <2>13. w[k] = SaveEntry(r) \/ (w[k].kind # "save" /\ saved = snap)
    <3>1. \A s : Closing(s).kind # "save"
      BY DEF Closing, FinishEvent
    <3> QED BY <1>1, <2>3, <3>1
  <2>14. CASE w[k].kind # "save" /\ saved = snap
    <3> HIDE DEF r, w, saved
    <3> DEFINE p == Restored(snap, jStatus, again, i)
    <3>1. /\ p.status = IF EndRead(snap, jStatus, i) THEN snap.status ELSE "RUNNING"
          /\ p.exceeded = (i.budget = 0 /\ snap.exceeded)
          /\ p.max = IF i.budget # 0 THEN i.budget ELSE snap.max
          /\ p.unmetered = (snap.unmetered \/ i.unmetered)
          /\ \A s \in Steps :
               /\ Same(p.step[s], ReadAs(snap.step[s], jStatus[s], i, s))
               /\ p.step[s].retries = snap.step[s].retries
               /\ p.step[s].spend.cost = ProjectedSpend(snap.step[s].spend, again[s]).cost
      BY <2>1, <2>2, <2>9, RestoredView
    <3> HIDE DEF p
    <3>2. Gist(p) = Gist(r)
      BY <2>8, <2>11, <2>12, <3>1, SameGist DEF Same
    <3>3. Gist(q) = Gist(r)
      BY <2>14, <3>2 DEF p, q
    <3> QED BY <2>6, <3>3 DEF q, r, w, saved, again
  <2>15. CASE w[k] = SaveEntry(r)
    <3>1. saved = r
      BY <2>15 DEF SaveEntry
    <3> HIDE DEF r, w, saved
    <3> DEFINE p == Restored(r, jStatus, again, i)
    <3>2. Projectable(r, again)
      BY <2>8, <2>11 DEF Projectable
    <3>3. /\ p.status = IF EndRead(r, jStatus, i) THEN r.status ELSE "RUNNING"
          /\ p.exceeded = (i.budget = 0 /\ r.exceeded)
          /\ p.max = IF i.budget # 0 THEN i.budget ELSE r.max
          /\ p.unmetered = (r.unmetered \/ i.unmetered)
          /\ \A s \in Steps :
               /\ Same(p.step[s], ReadAs(r.step[s], jStatus[s], i, s))
               /\ p.step[s].retries = r.step[s].retries
               /\ p.step[s].spend.cost = ProjectedSpend(r.step[s].spend, again[s]).cost
      BY <2>1, <2>10, <3>2, RestoredView
    <3> HIDE DEF p
    <3>4. ASSUME NEW s \in Steps
          PROVE  /\ Same(ReadAs(r.step[s], jStatus[s], i, s), r.step[s])
                 /\ ~LeftOut(r.step[s], jStatus[s], i, s)
      <4>1. snap.step[s] \in StepOf(Figure) /\ r.step[s] \in StepOf(W) /\ jStatus[s] \in Statuses
        BY <2>1, <2>2, <2>10 DEF RunOf
      <4>2. i \in Invocation /\ Same(r.step[s], ReadAs(snap.step[s], jStatus[s], i, s))
        BY <2>1, <2>11
      <4> QED BY <4>1, <4>2, ReadTwice
    <3>5. p.status = r.status
      <4>1. CASE EndRead(snap, jStatus, i)
        <5>1. r.status = snap.status /\ snap.status \notin {"RUNNING", "ABORTED"}
          BY <2>11, <4>1 DEF EndRead
        <5>2. \A s \in Steps : ReadAs(r.step[s], jStatus[s], i, s).status \in Settled
          BY <2>11, <3>4, <4>1 DEF EndRead, Same
        <5>3. EndRead(r, jStatus, i)
          BY <3>4, <5>1, <5>2 DEF EndRead
        <5> QED BY <3>3, <5>3
      <4>2. CASE ~EndRead(snap, jStatus, i)
        <5>1. r.status = "RUNNING"
          BY <2>11, <4>2
        <5> QED BY <3>3, <5>1
      <4> QED BY <4>1, <4>2
    <3>6. \A s \in Steps : p.step[s].spend.cost = r.step[s].spend.cost
      BY <2>8, <2>11, <3>3
    <3>7. \A s \in Steps : Same(p.step[s], r.step[s])
      BY <3>3, <3>4 DEF Same
    <3>8. /\ p.exceeded = r.exceeded /\ p.max = r.max /\ p.unmetered = r.unmetered
      <4>1. r.exceeded \in BOOLEAN /\ r.unmetered \in BOOLEAN
        BY <2>10 DEF RunOf
      <4> QED BY <2>11, <3>3, <4>1
    <3>9. Gist(p) = Gist(r)
      BY <2>12, <3>3, <3>5, <3>6, <3>7, <3>8, SameGist
    <3>10. Gist(q) = Gist(r)
      BY <3>1, <3>9 DEF p, q
    <3> QED BY <2>6, <3>10 DEF q, r, w, saved, again
  <2> QED BY <2>13, <2>14, <2>15
<1>2. TypeInv /\ SpendingInv => ResumeIdempotent
  BY <1>1 DEF SpendingInv, ResumeIdempotent
<1> QED BY <1>2, SpendingInvariant, PTL

=============================================================================
