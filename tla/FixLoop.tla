------------------------------ MODULE FixLoop ------------------------------
(***************************************************************************)
(* What answers a failed step: the re-ask of a refused capture, reruns,    *)
(* the drain of timeouts, repair passes and their replays, escalation.     *)
(*   execution/step/step-outcome.ts, on-failure.ts, non-blocking.ts        *)
(*   execution/step/fix-loop*.ts, escalation.ts                            *)
(*   run/record/step-bookkeeping.ts   the quotas                           *)
(*                                                                         *)
(* One step over several generations of its run.  An attempt is a start    *)
(* (quota saved, process spawned) and an end with one of the results the   *)
(* code tells apart; the cost gate is one flag, which any attempt may set  *)
(* by what it spends and which a live guard's kill always sets.  A death   *)
(* stands for a signal, a crash and a kill alike: the step stays running.  *)
(***************************************************************************)
EXTENDS Naturals, FiniteSets, TLAPS

CONSTANTS Defs,     \* the step definitions an instance tries
          Setups,   \* the backends and sessions a repair may find
          MaxGens   \* bound: generations of the run

VARIABLES
    def,       \* the step: kind, blocking, max, after, ladder, replay, only, again, capture
    setup,     \* declared, fixBackend, target, role: see ChooseFixBackend
    gen, pc,
    status,    \* "running", "done", "absorbed", "failed", "blocked"
    retries,   \* step.retries
    drains,    \* step.timeout_retries
    rung,      \* the latch of the loop: "none", "effort", "model"
    timedOut,  \* the last attempt of the loop was killed by a deadline
    last,      \* how the last step command ended
    fixed,     \* the last attempt was a repair
    over,      \* the cost gate withholds work
    session,   \* the pass in flight resumes the target's session
    cut,       \* this generation: a cost stop cut or withheld an attempt
    slow,      \* this generation: an attempt timed out
    stuck,     \* this generation: an attempt ended blocked
    repairs, repairCuts, drained, drainCuts  \* attempts of the whole run, and those refunded

quota == <<retries, drains>>
tally == <<repairs, repairCuts, drained, drainCuts>>
seen  == <<cut, slow, stuck>>
vars  == <<def, setup, gen, pc, status, quota, rung, timedOut, last, fixed, over, session, seen, tally>>

\* An authentic verdict with extracted errors ("fail") or none ("bare"), a kill
\* by a deadline or by a cost guard, a block, a refused capture.
Results == {"ok", "fail", "bare", "timeout", "cost", "blocked", "refused"}
StepResults == IF def.capture THEN Results ELSE Results \ {"refused"}
FixResults == {"ok", "fail", "cost"}
InFlight == {"initial", "reask", "rerunning", "draining", "fixing", "replaying"}
Rungs == {"none", "effort", "model"}

TypeOK ==
    /\ def \in Defs /\ setup \in Setups /\ gen \in 1..MaxGens
    /\ pc \in InFlight \cup {"outcome", "rerun", "drain", "fix", "over"}
    /\ status \in {"running", "done", "absorbed", "failed", "blocked"}
    /\ retries \in 0..def.max /\ drains \in 0..def.max /\ rung \in Rungs
    /\ last \in Results \cup {"none"}
    /\ {timedOut, fixed, over, session, cut, slow, stuck} \subseteq BOOLEAN
    /\ {repairs, repairCuts, drained, drainCuts} \subseteq Nat

-----------------------------------------------------------------------------
(* Escalation. *)

Order == [r \in Rungs |-> CASE r = "none" -> 0 [] r = "effort" -> 1 [] r = "model" -> 2]
Highest(r) == IF Order[r] > Order[rung] THEN r ELSE rung
ModelRung == IF "model" \in def.ladder THEN Highest("model") ELSE rung

\* Slip: the threshold is compared after the increment.
EscalationRungEarly(late, n) ==
    IF late THEN ModelRung
    ELSE IF n + 1 < def.after THEN rung
    ELSE IF rung = "none" /\ "effort" \in def.ladder THEN "effort"
    ELSE ModelRung
\* Slip: a dearer model before more thinking.
EscalationRungDear(late, n) ==
    IF late THEN ModelRung
    ELSE IF n < def.after THEN rung
    ELSE IF rung = "none" /\ "model" \in def.ladder THEN "model"
    ELSE ModelRung
\* escalationRung: n is the number of attempts already made.
EscalationRung(late, n) ==
    IF late THEN ModelRung
    ELSE IF n < def.after THEN rung
    ELSE IF rung = "none" /\ "effort" \in def.ladder THEN "effort"
    ELSE ModelRung

-----------------------------------------------------------------------------
(* Where a repair runs. *)

\* Slip: the default provider repairs every step without a backend of its own.
ChooseDefault ==
    IF setup.declared # "none" THEN [id |-> setup.declared, options |-> setup.declared]
    ELSE [id |-> "default", options |-> "default"]
\* Slip: the options materialized at load time follow the repair everywhere.
ChooseWithLoadedOptions ==
    LET default == [id |-> "default", options |-> "default"] IN
    IF setup.declared # "none" THEN [id |-> setup.declared, options |-> setup.declared]
    ELSE IF setup.fixBackend # "none" THEN [id |-> setup.fixBackend, options |-> setup.fixBackend]
    ELSE IF setup.target \in {"none", "unknown", "default"} THEN default
    ELSE [id |-> setup.target, options |-> "default"]

\* chooseFixBackend: the backend, and whom its options were shaped for.
\* declared: the backend of the step; target: the provider of the session that
\* `resumeSession` names, "unknown" when that provider is not registered; role:
\* the fix profile has a policy for any provider, for none but the default, or
\* the policy names none.
ChooseFixBackend ==
    LET default == [id |-> "default", options |-> "default"] IN
    IF setup.declared # "none" THEN [id |-> setup.declared, options |-> setup.declared]
    ELSE IF setup.fixBackend # "none" THEN [id |-> setup.fixBackend, options |-> setup.fixBackend]
    ELSE IF setup.target \in {"none", "unknown", "default"} THEN default
    ELSE IF setup.role = "none" THEN [id |-> setup.target, options |-> "none"]
    ELSE IF setup.role = "default" THEN default
    ELSE [id |-> setup.target, options |-> setup.target]
\* What prepareFixRun keeps.
FixBackend == ChooseFixBackend

\* selectResumedSession: only a session of the same provider, resumable and not
\* larger than the threshold.
ResumesTarget == setup.target = FixBackend.id /\ setup.fits

-----------------------------------------------------------------------------
(* Settling. *)

\* Slip: a non-blocking step absorbs whatever ended it.
SettleAbsorbing(costStopped) ==
    /\ status' = IF ~def.blocking THEN "absorbed" ELSE "failed"
    /\ pc' = "over"
\* settleStepFailure: a cost stop outranks `blocking: false`.
Settle(costStopped) ==
    /\ status' = IF ~def.blocking /\ ~costStopped THEN "absorbed" ELSE "failed"
    /\ pc' = "over"

Done == status' = "done" /\ pc' = "over"

-----------------------------------------------------------------------------
(* Attempts. *)

\* A step command ends: its spend may bring the ledger to the ceiling, a cost
\* guard's kill always latches it.
Ends(r) ==
    /\ last' = r /\ fixed' = FALSE
    /\ over' \in IF r = "cost" THEN {TRUE} ELSE {over, TRUE}
    /\ cut' = (cut \/ r = "cost") /\ slow' = (slow \/ r = "timeout") /\ stuck' = (stuck \/ r = "blocked")

Start(next) == pc' = next /\ UNCHANGED <<def, setup, gen, status, last, fixed, over>>

EndInitial ==
    /\ pc \in {"initial", "reask"}
    /\ \E r \in StepResults : Ends(r) /\ timedOut' = (r = "timeout")
    /\ pc' = "outcome"
    /\ UNCHANGED <<def, setup, gen, status, quota, rung, session, tally>>

\* reaskRefusedCapture: once, in the session that produced the object.
MayReask == last = "refused" /\ def.resumable /\ ~session
Reask ==
    /\ pc = "outcome" /\ MayReask /\ ~over
    /\ Start("reask") /\ session' = TRUE
    /\ UNCHANGED <<quota, rung, timedOut, seen, tally>>

Asked == pc = "outcome" /\ ~(MayReask /\ ~over)
Kept == UNCHANGED <<def, setup, gen, quota, rung, timedOut, last, fixed, over, session, slow, stuck, tally>>
\* A re-ask the gate withheld is withheld work.
NoteWithheld == cut' = (cut \/ (MayReask /\ over))

\* resolveOutcome, in its order.
OutcomeOk == Asked /\ last = "ok" /\ Done /\ NoteWithheld /\ Kept
OutcomeCost == Asked /\ last = "cost" /\ Settle(TRUE) /\ NoteWithheld /\ Kept
OutcomeBlocked ==
    /\ Asked /\ last = "blocked" /\ NoteWithheld /\ Kept
    /\ status' = (IF def.blocking THEN "blocked" ELSE "absorbed") /\ pc' = "over"
Failed == Asked /\ last \in {"fail", "bare", "timeout", "refused"}
OutcomeFinal == Failed /\ def.kind = "none" /\ Settle(FALSE) /\ NoteWithheld /\ Kept

\* withholdFixWithoutExtraction: on the extraction of this attempt, when it
\* was not killed.
Withheld == def.kind = "fix" /\ def.only /\ last \in {"bare", "refused"}
OutcomeWithheld == Failed /\ Withheld /\ Settle(FALSE) /\ NoteWithheld /\ Kept

\* Each loop starts with a latch of its own.
EnterLoop ==
    /\ Failed /\ def.kind # "none" /\ ~Withheld
    /\ pc' = IF def.kind = "rerun" THEN "rerun" ELSE IF timedOut THEN "drain" ELSE "fix"
    /\ rung' = "none" /\ session' = FALSE
    /\ NoteWithheld
    /\ UNCHANGED <<def, setup, gen, status, quota, timedOut, last, fixed, over, slow, stuck, tally>>

\* The gate at the head of a loop withholds the next attempt.
LoopStops == cut' = TRUE /\ Kept /\ Settle(TRUE)

-----------------------------------------------------------------------------
(* Reruns, and the drain of timeouts. *)

Rerun ==
    /\ pc = "rerun" /\ retries < def.max /\ ~over
    /\ rung' = EscalationRung(timedOut, retries)
    /\ retries' = retries + 1 /\ Start("rerunning")
    /\ UNCHANGED <<drains, timedOut, session, seen, tally>>
RerunWithheld == pc = "rerun" /\ retries < def.max /\ over /\ LoopStops
RerunSpent == pc = "rerun" /\ retries = def.max /\ Settle(FALSE) /\ Kept /\ UNCHANGED cut

\* refundRetry: an attempt the cost guard cut is not held against the quota.
EndRerun ==
    /\ pc = "rerunning"
    /\ \E r \in StepResults :
         /\ Ends(r) /\ timedOut' = (r = "timeout")
         /\ retries' = IF r = "cost" THEN retries - 1 ELSE retries
         /\ CASE r = "ok" -> Done
              [] r = "cost" -> Settle(TRUE)
              [] OTHER -> pc' = "rerun" /\ UNCHANGED status
    /\ UNCHANGED <<def, setup, gen, drains, rung, session, tally>>

\* Slip: the drain runs once more than its quota.
DrainBeyond ==
    /\ pc = "drain" /\ timedOut /\ drains <= def.max /\ ~over
    /\ drains' = drains + 1 /\ drained' = drained + 1 /\ Start("draining")
    /\ UNCHANGED <<retries, rung, timedOut, session, seen, repairs, repairCuts, drainCuts>>
Drain ==
    /\ pc = "drain" /\ timedOut /\ drains < def.max /\ ~over
    /\ drains' = drains + 1 /\ drained' = drained + 1 /\ Start("draining")
    /\ UNCHANGED <<retries, rung, timedOut, session, seen, repairs, repairCuts, drainCuts>>
DrainWithheld == pc = "drain" /\ timedOut /\ drains < def.max /\ over /\ LoopStops
DrainSpent == pc = "drain" /\ timedOut /\ drains = def.max /\ Settle(FALSE) /\ Kept /\ UNCHANGED cut

\* drainTimeouts: anything but a timeout goes on to the repair, an attempt the
\* cost guard cut included, whose stop is left for the gate of the fix loop.
EndDrain ==
    /\ pc = "draining"
    /\ \E r \in StepResults :
         /\ Ends(r) /\ timedOut' = (r = "timeout")
         /\ drains' = (IF r = "cost" THEN drains - 1 ELSE drains)
         /\ drainCuts' = (IF r = "cost" THEN drainCuts + 1 ELSE drainCuts)
         /\ CASE r = "ok" -> Done
              [] r = "timeout" -> pc' = "drain" /\ UNCHANGED status
              [] OTHER -> pc' = "fix" /\ UNCHANGED status
    /\ UNCHANGED <<def, setup, gen, retries, rung, session, repairs, repairCuts, drained>>

-----------------------------------------------------------------------------
(* Repairs. *)

Fix ==
    /\ pc = "fix" /\ retries < def.max /\ ~over
    /\ rung' = EscalationRung(FALSE, retries)
    /\ retries' = retries + 1 /\ repairs' = repairs + 1
    /\ session' = ResumesTarget /\ Start("fixing")
    /\ UNCHANGED <<drains, timedOut, seen, repairCuts, drained, drainCuts>>
FixWithheld == pc = "fix" /\ retries < def.max /\ over /\ LoopStops
\* Slip: a loop entered with its quota spent waits for a repair.
FixNeverSpent == pc = "fix" /\ retries = def.max /\ fixed /\ Settle(FALSE) /\ Kept /\ UNCHANGED cut
FixSpent == pc = "fix" /\ retries = def.max /\ Settle(FALSE) /\ Kept /\ UNCHANGED cut

\* Slip: a repair that succeeded settles the step.
EndFixTrusting ==
    /\ pc = "fixing" /\ fixed' = TRUE
    /\ \E r \in FixResults :
         /\ over' \in IF r = "cost" THEN {TRUE} ELSE {over, TRUE}
         /\ retries' = (IF r = "cost" THEN retries - 1 ELSE retries)
         /\ repairCuts' = (IF r = "cost" THEN repairCuts + 1 ELSE repairCuts)
         /\ cut' = (cut \/ r = "cost")
         /\ CASE r = "cost" -> Settle(TRUE)
              [] r = "fail" -> Settle(FALSE)
              [] OTHER -> Done
    /\ UNCHANGED <<def, setup, gen, drains, rung, timedOut, last, session, slow, stuck, repairs, drained, drainCuts>>
\* The repair ends: cut by a guard (refunded), failed (the retry is cancelled),
\* applied without a replay, withheld at the gate of the replay, or replayed.
\* Slip: a failed repair is refunded too.
RefundedFailure(r) == r # "ok"
\* Only a repair cut by a guard is refunded.
Refunded(r) == r = "cost"
EndFix ==
    /\ pc = "fixing" /\ fixed' = TRUE
    /\ \E r \in FixResults :
         /\ over' \in IF r = "cost" THEN {TRUE} ELSE {over, TRUE}
         /\ retries' = (IF Refunded(r) THEN retries - 1 ELSE retries)
         /\ repairCuts' = (IF r = "cost" THEN repairCuts + 1 ELSE repairCuts)
         /\ cut' = (cut \/ r = "cost" \/ (r = "ok" /\ def.replay /\ over'))
         /\ IF r = "cost" THEN Settle(TRUE)
            ELSE IF r = "fail" \/ ~def.replay THEN Settle(FALSE)
            ELSE IF over' THEN Settle(TRUE)
            ELSE pc' = "replaying" /\ UNCHANGED status
    /\ UNCHANGED <<def, setup, gen, drains, rung, timedOut, last, session, slow, stuck, repairs, drained, drainCuts>>

\* The replay decides; a guard's kill leaves the verdict unknown.
EndReplay ==
    /\ pc = "replaying"
    /\ \E r \in StepResults :
         /\ Ends(r)
         /\ CASE r = "ok" -> Done
              [] r = "cost" -> Settle(TRUE)
              [] OTHER -> pc' = "fix" /\ UNCHANGED status
    /\ UNCHANGED <<def, setup, gen, quota, rung, timedOut, session, tally>>

-----------------------------------------------------------------------------
(* Generations. *)

\* A signal or a crash: the loops return, the step stays as it is on disk.
Dies ==
    /\ pc # "over" /\ gen < MaxGens /\ pc' = "over"
    /\ UNCHANGED <<def, setup, gen, status, quota, rung, timedOut, last, fixed, over, session, seen, tally>>

\* The next generation runs the step again unless it is done; a step that
\* declares rerunOnResume runs again even then.  The quotas are persisted; the
\* ceiling was raised when the run had reached it.
Resume ==
    /\ pc = "over" /\ gen < MaxGens
    /\ status \in {"running", "failed", "blocked"} \/ def.again
    /\ gen' = gen + 1 /\ pc' = "initial" /\ status' = "running"
    /\ last' = "none" /\ fixed' = FALSE /\ over' = FALSE /\ session' = FALSE
    /\ timedOut' = FALSE /\ rung' = "none" /\ cut' = FALSE /\ slow' = FALSE /\ stuck' = FALSE
    /\ UNCHANGED <<def, setup, quota, tally>>

Init ==
    /\ def \in Defs /\ setup \in Setups /\ gen = 1 /\ pc = "initial" /\ status = "running"
    /\ retries = 0 /\ drains = 0 /\ rung = "none" /\ timedOut = FALSE /\ last = "none"
    /\ fixed = FALSE /\ over = FALSE /\ session = FALSE
    /\ cut = FALSE /\ slow = FALSE /\ stuck = FALSE
    /\ repairs = 0 /\ repairCuts = 0 /\ drained = 0 /\ drainCuts = 0

Pass ==
    \/ EndInitial \/ Reask \/ OutcomeOk \/ OutcomeCost \/ OutcomeBlocked \/ OutcomeFinal
    \/ OutcomeWithheld \/ EnterLoop
    \/ Rerun \/ RerunWithheld \/ RerunSpent \/ EndRerun
    \/ Drain \/ DrainWithheld \/ DrainSpent \/ EndDrain
    \/ Fix \/ FixWithheld \/ FixSpent \/ EndFix \/ EndReplay

Next == Pass \/ Dies \/ Resume

\* Every attempt ends, by itself or at its deadline, and the loops go on.
Spec == Init /\ [][Next]_vars /\ WF_vars(Pass)

-----------------------------------------------------------------------------
\* Over every generation, deaths included, the repairs that were not cut by a
\* guard stay within the quota, and the reruns that drain timeouts within a
\* quota of their own.
AttemptsBounded == repairs - repairCuts <= def.max /\ drained - drainCuts <= def.max

\* A step is done only when its own command was the last thing to run and ended
\* well: a repair never stands for a verdict.
DoneIsVerified == status = "done" => last = "ok" /\ ~fixed

\* A cost stop is the run's decision: the step it cut, or whose next attempt it
\* withheld, is left to a resume and never absorbed as a warning.
CostStopNeverAbsorbed == pc = "over" /\ cut => status # "absorbed"

\* The same escalate_after names the same attempt in the rerun and in the fix
\* loop: without a timeout, exactly the attempts past it are escalated.
EscalatesOnTime ==
    pc \in {"rerunning", "fixing"} /\ ~slow /\ def.ladder # {} =>
        (rung = "none" <=> retries - 1 < def.after)

\* Within a loop the ladder only climbs, and without a timeout it never offers
\* the dearer model before more effort.
LadderClimbs ==
    gen' = gen /\ pc # "outcome" =>
     /\ Order[rung'] >= Order[rung]
     /\ rung = "none" /\ rung' = "model" /\ "effort" \in def.ladder => timedOut

\* A repair in flight runs on the provider whose session it resumes, with no
\* options shaped for another one.
RepairSpeaksItsBackend ==
    pc = "fixing" =>
        /\ session => setup.target = FixBackend.id
        /\ FixBackend.options \in {"none", FixBackend.id}

\* A repair resumes the session it was asked to resume whenever that session
\* fits and the policy can be applied where it lives.
ResumeKeepsContext ==
    pc = "fixing" /\ setup.fits /\ setup.target = "other" /\ setup.role # "default"
    /\ setup.declared = "none" => session

\* A repair is fed by a verdict: never by the truncated output of an attempt a
\* deadline killed.
TimeoutsAreDrained == pc = "fixing" => last # "timeout"

\* After an attempt that ended blocked, no repair is spent.
BlockedEndsRepair == stuck => repairs' = repairs \/ gen' # gen

\* fixOnlyWhenExtracted: no repair starts from an output without extracted errors.
RepairsOnlyExtracted == pc = "fixing" /\ def.only => last # "bare"

----------------------------------------------------------------------------
(* The proofs: each action keeps the parts of FixLoopInv.                  *)

\* What the DSL and the checks of a pipeline allow: a fix has a retry, and
\* fix_backend is for a step without a backend that resumes no session.
FixLoopAssumption ==
    /\ \A d \in Defs :
         /\ d.kind \in {"none", "rerun", "fix"} /\ d.max \in Nat /\ d.after \in Nat
         /\ d.ladder \subseteq {"effort", "model"} /\ (d.kind = "fix" => d.max > 0)
         /\ {d.blocking, d.replay, d.only, d.again, d.capture, d.resumable} \subseteq BOOLEAN
    /\ \A s \in Setups :
         /\ s.fits \in BOOLEAN
         /\ s.fixBackend # "none" => s.declared = "none" /\ s.target = "none"
    /\ MaxGens \in Nat \ {0}

\* The loop a step is in is that of its policy, and an attempt in flight has
\* consumed its quota.
Placed ==
    /\ pc \in {"rerun", "rerunning"} => def.kind = "rerun"
    /\ pc \in {"drain", "draining", "fix", "fixing", "replaying"} => def.kind = "fix"
    /\ pc \in {"rerunning", "fixing"} => retries > 0
    /\ pc = "draining" => drains > 0
\* The quotas are what the attempts not refunded consumed.
Counted ==
    /\ drained = drainCuts + drains
    /\ repairs = repairCuts + IF def.kind = "fix" THEN retries ELSE 0
\* A step settles as done after its own command, and not before.
Verified ==
    /\ pc # "over" => status = "running"
    /\ status = "done" => last = "ok" /\ ~fixed
    /\ pc \in {"initial", "reask", "outcome"} => ~fixed
\* Without a timeout the latch has moved only past the threshold, and has for the
\* attempt in flight.
Latched ==
    /\ timedOut => slow
    /\ pc \in {"rerun", "rerunning", "drain", "draining", "fix", "fixing", "replaying"}
       /\ ~slow /\ rung # "none" => retries > def.after
    /\ EscalatesOnTime
\* The repair in flight is in the session it was asked for.
Resumed == pc = "fixing" => session = ResumesTarget
FixLoopInv == TypeOK /\ Placed /\ Counted /\ Verified /\ Latched /\ Resumed

LEMMA DefTypes ==
    ASSUME FixLoopAssumption, TypeOK
    PROVE  /\ def.max \in Nat /\ def.after \in Nat /\ def.ladder \subseteq {"effort", "model"}
           /\ def.kind \in {"none", "rerun", "fix"} /\ (def.kind = "fix" => def.max > 0)
           /\ def.blocking \in BOOLEAN /\ def.replay \in BOOLEAN /\ setup.fits \in BOOLEAN
           /\ retries \in Nat /\ drains \in Nat /\ rung \in Rungs /\ retries <= def.max /\ drains <= def.max
           /\ repairs \in Nat /\ repairCuts \in Nat /\ drained \in Nat /\ drainCuts \in Nat
           /\ timedOut \in BOOLEAN /\ fixed \in BOOLEAN /\ over \in BOOLEAN /\ session \in BOOLEAN
           /\ cut \in BOOLEAN /\ slow \in BOOLEAN /\ stuck \in BOOLEAN
BY DEF FixLoopAssumption, TypeOK

\* The latch only climbs, and past the threshold a ladder leaves it somewhere.
LEMMA RungClimbs ==
    ASSUME FixLoopAssumption, TypeOK, NEW late \in BOOLEAN, NEW n \in Nat
    PROVE  LET r == EscalationRung(late, n) IN
           /\ r \in Rungs /\ Order[r] >= Order[rung]
           /\ ~late /\ n < def.after => r = rung
           /\ ~late /\ n >= def.after /\ def.ladder # {} => r # "none"
           /\ ~late /\ rung = "none" /\ r = "model" => "effort" \notin def.ladder
<1>1. /\ Order["none"] = 0 /\ Order["effort"] = 1 /\ Order["model"] = 2
  BY DEF Order, Rungs
<1>2. rung \in {"none", "effort", "model"} /\ def.ladder \subseteq {"effort", "model"} /\ def.after \in Nat
  BY DefTypes DEF Rungs
<1>3. ModelRung \in {rung, "model"} /\ ("model" \in def.ladder => ModelRung = "model")
      /\ Order[ModelRung] >= Order[rung]
  BY <1>1, <1>2 DEF ModelRung, Highest
<1> QED BY <1>1, <1>2, <1>3 DEF EscalationRung, Rungs

LEMMA FixLoopInit == FixLoopAssumption /\ Init => FixLoopInv
<1> SUFFICES ASSUME FixLoopAssumption, Init PROVE FixLoopInv
  OBVIOUS
<1>1. /\ def \in Defs /\ setup \in Setups /\ gen \in 1..MaxGens
      /\ def.max \in Nat
  BY DEF FixLoopAssumption, Init
<1>2. TypeOK
  <2>1. retries \in 0..def.max /\ drains \in 0..def.max
    BY <1>1 DEF Init
  <2>2. pc = "initial" /\ rung = "none" /\ last = "none" /\ status = "running"
    BY DEF Init
  <2>3. {timedOut, fixed, over, session, cut, slow, stuck} \subseteq BOOLEAN
    <3>1. timedOut = FALSE /\ fixed = FALSE /\ over = FALSE /\ session = FALSE
      BY DEF Init
    <3>2. cut = FALSE /\ slow = FALSE /\ stuck = FALSE
      BY DEF Init
    <3> QED BY <3>1, <3>2, Zenon
  <2>4. {repairs, repairCuts, drained, drainCuts} \subseteq Nat
    BY DEF Init
  <2> QED BY <1>1, <2>1, <2>2, <2>3, <2>4 DEF TypeOK, InFlight, Rungs, Results
<1>3. Placed /\ Counted /\ Verified /\ Latched /\ Resumed
  BY DEF Init, Placed, Counted, Verified, Latched, Resumed, EscalatesOnTime
<1> QED BY <1>2, <1>3 DEF FixLoopInv

\* A step settles, or a loop is left for its end, without an attempt.
LEMMA SettleKeeps ==
    ASSUME FixLoopInv, pc' = "over", status' \in {"absorbed", "failed"}, cut' \in BOOLEAN, Kept
    PROVE  FixLoopInv'
<1>1. TypeOK'
  BY DEF FixLoopInv, TypeOK, Kept, quota, tally
<1>2. Placed' /\ Counted' /\ Verified'
  BY DEF FixLoopInv, Placed, Counted, Verified, Kept, quota, tally
<1>3. Latched' /\ Resumed'
  BY DEF FixLoopInv, Latched, EscalatesOnTime, Resumed, Kept, quota, tally
<1> QED BY <1>1, <1>2, <1>3 DEF FixLoopInv

\* Where a step is, apart from its types, quotas and latch.
LEMMA OutcomeKeeps ==
    ASSUME FixLoopAssumption, FixLoopInv,
           EndInitial \/ Reask \/ OutcomeOk \/ OutcomeCost \/ OutcomeBlocked \/ OutcomeFinal
           \/ OutcomeWithheld \/ EnterLoop
    PROVE  FixLoopInv'
<1> USE DefTypes DEF FixLoopInv, TypeOK, Placed, Counted, Verified, Latched, EscalatesOnTime, Resumed,
                     InFlight, Rungs, quota, tally, seen
<1>1. CASE EndInitial
  BY <1>1 DEF EndInitial, Ends, StepResults, Results
<1>2. CASE Reask
  BY <1>2 DEF Reask, Start
<1>3. CASE OutcomeOk \/ OutcomeCost \/ OutcomeBlocked \/ OutcomeFinal \/ OutcomeWithheld
  BY <1>3 DEF OutcomeOk, OutcomeCost, OutcomeBlocked, OutcomeFinal, OutcomeWithheld, Failed, Asked, Kept,
              NoteWithheld, MayReask, Settle, Done
<1>4. CASE EnterLoop
  BY <1>4 DEF EnterLoop, Failed, Asked, NoteWithheld, MayReask
<1> QED BY <1>1, <1>2, <1>3, <1>4

LEMMA RerunKeeps ==
    ASSUME FixLoopAssumption, FixLoopInv,
           Rerun \/ RerunWithheld \/ RerunSpent \/ EndRerun
    PROVE  FixLoopInv'
<1> USE DefTypes DEF FixLoopInv, TypeOK, Placed, Counted, Verified, Latched, EscalatesOnTime, Resumed,
                     InFlight, quota, tally, seen
<1>1. CASE Rerun
  <2>1. rung' = EscalationRung(timedOut, retries)
    BY <1>1 DEF Rerun
  <2>2. /\ rung' \in Rungs
        /\ ~timedOut /\ retries < def.after => rung' = rung
        /\ ~timedOut /\ retries >= def.after /\ def.ladder # {} => rung' # "none"
    BY <2>1, RungClimbs
  <2> QED BY <1>1, <2>2 DEF Rerun, Start
<1>2. CASE RerunWithheld \/ RerunSpent
  <2>1. pc' = "over" /\ status' \in {"absorbed", "failed"} /\ cut' \in BOOLEAN /\ Kept
    BY <1>2 DEF RerunWithheld, RerunSpent, LoopStops, Settle
  <2> QED BY <2>1, SettleKeeps
<1>3. CASE EndRerun
  <2>1. PICK r \in StepResults :
          /\ Ends(r) /\ timedOut' = (r = "timeout")
          /\ retries' = IF r = "cost" THEN retries - 1 ELSE retries
          /\ CASE r = "ok" -> Done
               [] r = "cost" -> Settle(TRUE)
               [] OTHER -> pc' = "rerun" /\ UNCHANGED status
    BY <1>3 DEF EndRerun
  <2>2. /\ r \in Results /\ retries' \in 0..def.max
        /\ (retries' = retries \/ pc' = "over")
        /\ last' = r /\ fixed' = FALSE /\ over' \in BOOLEAN /\ cut' \in BOOLEAN
        /\ slow' = (slow \/ r = "timeout") /\ stuck' \in BOOLEAN
        /\ \/ r = "ok" /\ status' = "done" /\ pc' = "over"
           \/ r # "ok" /\ pc' = "over" /\ status' \in {"absorbed", "failed"}
           \/ pc' = "rerun" /\ status' = status
    <3>1. r \in Results /\ retries' \in 0..def.max
      BY <1>3, <2>1 DEF EndRerun, StepResults, Results
    <3>2. /\ last' = r /\ fixed' = FALSE /\ over' \in BOOLEAN /\ cut' \in BOOLEAN
          /\ slow' = (slow \/ r = "timeout") /\ stuck' \in BOOLEAN
      BY <2>1 DEF Ends
    <3>3. CASE r = "ok"
      BY <2>1, <3>1, <3>2, <3>3 DEF Done
    <3>4. CASE r = "cost"
      BY <2>1, <3>1, <3>2, <3>4 DEF Settle
    <3>5. CASE r # "ok" /\ r # "cost"
      BY <2>1, <3>1, <3>2, <3>5
    <3> QED BY <3>3, <3>4, <3>5
  <2> QED BY <1>3, <2>1, <2>2 DEF EndRerun
<1> QED BY <1>1, <1>2, <1>3

LEMMA DrainKeeps ==
    ASSUME FixLoopAssumption, FixLoopInv,
           Drain \/ DrainWithheld \/ DrainSpent \/ EndDrain
    PROVE  FixLoopInv'
<1> USE DefTypes DEF FixLoopInv, TypeOK, Placed, Counted, Verified, Latched, EscalatesOnTime, Resumed,
                     InFlight, quota, tally, seen
<1>1. CASE Drain
  BY <1>1 DEF Drain, Start
<1>2. CASE DrainWithheld \/ DrainSpent
  <2>1. pc' = "over" /\ status' \in {"absorbed", "failed"} /\ cut' \in BOOLEAN /\ Kept
    BY <1>2 DEF DrainWithheld, DrainSpent, LoopStops, Settle
  <2> QED BY <2>1, SettleKeeps
<1>3. CASE EndDrain
  <2>1. PICK r \in StepResults :
          /\ Ends(r) /\ timedOut' = (r = "timeout")
          /\ drains' = (IF r = "cost" THEN drains - 1 ELSE drains)
          /\ drainCuts' = (IF r = "cost" THEN drainCuts + 1 ELSE drainCuts)
          /\ CASE r = "ok" -> Done
               [] r = "timeout" -> pc' = "drain" /\ UNCHANGED status
               [] OTHER -> pc' = "fix" /\ UNCHANGED status
    BY <1>3 DEF EndDrain
  <2>2. /\ r \in Results /\ drains' \in 0..def.max /\ drainCuts' \in Nat
        /\ drained = drainCuts' + drains'
        /\ last' = r /\ fixed' = FALSE /\ over' \in BOOLEAN /\ cut' \in BOOLEAN
        /\ slow' = (slow \/ r = "timeout") /\ stuck' \in BOOLEAN
        /\ \/ r = "ok" /\ status' = "done" /\ pc' = "over"
           \/ pc' \in {"drain", "fix"} /\ status' = status
    <3>1. r \in Results /\ drains' \in 0..def.max /\ drainCuts' \in Nat
      BY <1>3, <2>1 DEF EndDrain, StepResults, Results
    <3>2. drained = drainCuts' + drains'
      BY <1>3, <2>1 DEF EndDrain
    <3>3. /\ last' = r /\ fixed' = FALSE /\ over' \in BOOLEAN /\ cut' \in BOOLEAN
          /\ slow' = (slow \/ r = "timeout") /\ stuck' \in BOOLEAN
      BY <2>1 DEF Ends
    <3>4. CASE r = "ok"
      BY <2>1, <3>1, <3>2, <3>3, <3>4 DEF Done
    <3>5. CASE r = "timeout"
      BY <2>1, <3>1, <3>2, <3>3, <3>5
    <3>6. CASE r # "ok" /\ r # "timeout"
      BY <2>1, <3>1, <3>2, <3>3, <3>6
    <3> QED BY <3>4, <3>5, <3>6
  <2> QED BY <1>3, <2>1, <2>2 DEF EndDrain
<1> QED BY <1>1, <1>2, <1>3

LEMMA FixKeeps ==
    ASSUME FixLoopAssumption, FixLoopInv,
           Fix \/ FixWithheld \/ FixSpent \/ EndFix \/ EndReplay
    PROVE  FixLoopInv'
<1> USE DefTypes DEF FixLoopInv, TypeOK, Placed, Counted, Verified, Latched, EscalatesOnTime, Resumed,
                     InFlight, quota, tally, seen
<1>1. CASE Fix
  <2>1. rung' = EscalationRung(FALSE, retries)
    BY <1>1 DEF Fix
  <2>2. /\ rung' \in Rungs
        /\ retries < def.after => rung' = rung
        /\ retries >= def.after /\ def.ladder # {} => rung' # "none"
    BY <2>1, RungClimbs
  <2>3. session' = ResumesTarget /\ ResumesTarget' = ResumesTarget /\ session' \in BOOLEAN
    <3>1. setup' = setup /\ session' = ResumesTarget
      BY <1>1 DEF Fix, Start
    <3>2. FixBackend' = FixBackend
      BY <3>1 DEF FixBackend, ChooseFixBackend
    <3>3. ResumesTarget \in BOOLEAN
      BY DEF ResumesTarget
    <3> QED BY <3>1, <3>2, <3>3 DEF ResumesTarget
  <2>4. /\ pc = "fix" /\ pc' = "fixing" /\ retries' = retries + 1 /\ repairs' = repairs + 1
        /\ retries < def.max
        /\ UNCHANGED <<def, setup, gen, status, last, fixed, over, drains, timedOut, seen, repairCuts, drained, drainCuts>>
    BY <1>1 DEF Fix, Start
  <2>5. TypeOK'
    BY <2>2, <2>3, <2>4
  <2>6. Placed' /\ Counted' /\ Verified'
    BY <2>4
  <2>7. Latched' /\ Resumed'
    BY <2>2, <2>3, <2>4
  <2> QED BY <2>5, <2>6, <2>7
<1>2. CASE FixWithheld \/ FixSpent
  <2>1. pc' = "over" /\ status' \in {"absorbed", "failed"} /\ cut' \in BOOLEAN /\ Kept
    BY <1>2 DEF FixWithheld, FixSpent, LoopStops, Settle
  <2> QED BY <2>1, SettleKeeps
<1>3. CASE EndFix
  <2>1. PICK r \in FixResults :
         /\ over' \in IF r = "cost" THEN {TRUE} ELSE {over, TRUE}
         /\ retries' = (IF Refunded(r) THEN retries - 1 ELSE retries)
         /\ repairCuts' = (IF r = "cost" THEN repairCuts + 1 ELSE repairCuts)
         /\ cut' = (cut \/ r = "cost" \/ (r = "ok" /\ def.replay /\ over'))
         /\ IF r = "cost" THEN Settle(TRUE)
            ELSE IF r = "fail" \/ ~def.replay THEN Settle(FALSE)
            ELSE IF over' THEN Settle(TRUE)
            ELSE pc' = "replaying" /\ UNCHANGED status
    BY <1>3 DEF EndFix
  <2>2. /\ retries' \in 0..def.max /\ repairCuts' \in Nat
        /\ repairs = repairCuts' + retries' /\ (retries' = retries \/ pc' = "over")
        /\ over' \in BOOLEAN /\ cut' \in BOOLEAN
        /\ \/ pc' = "over" /\ status' \in {"absorbed", "failed"}
           \/ pc' = "replaying" /\ status' = status
    <3>1. /\ retries' \in 0..def.max /\ repairCuts' \in Nat
          /\ repairs = repairCuts' + retries' /\ (retries' = retries \/ r = "cost")
      BY <1>3, <2>1 DEF EndFix, Refunded, FixResults
    <3>2. over' \in BOOLEAN /\ cut' \in BOOLEAN
      BY <2>1
    <3>3. CASE r = "cost"
      BY <2>1, <3>1, <3>2, <3>3 DEF Settle
    <3>4. CASE r # "cost"
      BY <2>1, <3>1, <3>2, <3>4 DEF Settle
    <3> QED BY <3>3, <3>4
  <2> QED BY <1>3, <2>2 DEF EndFix
<1>4. CASE EndReplay
  <2>1. PICK r \in StepResults :
          /\ Ends(r)
          /\ CASE r = "ok" -> Done
               [] r = "cost" -> Settle(TRUE)
               [] OTHER -> pc' = "fix" /\ UNCHANGED status
    BY <1>4 DEF EndReplay
  <2>2. /\ r \in Results
        /\ last' = r /\ fixed' = FALSE /\ over' \in BOOLEAN /\ cut' \in BOOLEAN
        /\ slow' \in BOOLEAN /\ (slow => slow') /\ stuck' \in BOOLEAN
        /\ \/ r = "ok" /\ status' = "done" /\ pc' = "over"
           \/ r # "ok" /\ pc' = "over" /\ status' \in {"absorbed", "failed"}
           \/ pc' = "fix" /\ status' = status
    <3>1. /\ r \in Results
          /\ last' = r /\ fixed' = FALSE /\ over' \in BOOLEAN /\ cut' \in BOOLEAN
          /\ slow' \in BOOLEAN /\ (slow => slow') /\ stuck' \in BOOLEAN
      BY <2>1 DEF StepResults, Results, Ends
    <3>2. CASE r = "ok"
      BY <2>1, <3>1, <3>2 DEF Done
    <3>3. CASE r = "cost"
      BY <2>1, <3>1, <3>3 DEF Settle
    <3>4. CASE r # "ok" /\ r # "cost"
      BY <2>1, <3>1, <3>4
    <3> QED BY <3>2, <3>3, <3>4
  <2>3. pc = "replaying" /\ UNCHANGED <<def, setup, gen, quota, rung, timedOut, session, tally>>
    BY <1>4 DEF EndReplay
  <2>4. TypeOK'
    BY <2>2, <2>3
  <2>5. Placed' /\ Counted' /\ Verified'
    BY <2>2, <2>3
  <2>6. Latched' /\ Resumed'
    BY <2>2, <2>3
  <2> QED BY <2>4, <2>5, <2>6
<1> QED BY <1>1, <1>2, <1>3, <1>4

LEMMA GenerationKeeps ==
    ASSUME FixLoopAssumption, FixLoopInv, Dies \/ Resume
    PROVE  FixLoopInv'
<1>1. CASE Dies
  BY <1>1 DEF FixLoopInv, TypeOK, Placed, Counted, Verified, Latched, EscalatesOnTime, Resumed,
              quota, tally, seen, Dies
<1>2. CASE Resume
  <2>1. gen' \in 1..MaxGens
    BY <1>2 DEF Resume, FixLoopAssumption, FixLoopInv, TypeOK
  <2>2. TypeOK'
    BY <1>2, <2>1 DEF Resume, FixLoopInv, TypeOK, InFlight, Rungs, quota, tally
  <2>3. Placed' /\ Counted' /\ Verified' /\ Latched' /\ Resumed'
    BY <1>2 DEF Resume, FixLoopInv, Placed, Counted, Verified, Latched, EscalatesOnTime, Resumed, quota, tally
  <2> QED BY <2>2, <2>3 DEF FixLoopInv
<1> QED BY <1>1, <1>2

LEMMA FixLoopNext == FixLoopAssumption /\ FixLoopInv /\ [Next]_vars => FixLoopInv'
<1>1. FixLoopAssumption /\ FixLoopInv /\ Next => FixLoopInv'
  BY OutcomeKeeps, RerunKeeps, DrainKeeps, FixKeeps, GenerationKeeps DEF Next, Pass
<1>2. FixLoopInv /\ UNCHANGED vars => FixLoopInv'
  BY DEF FixLoopInv, TypeOK, Placed, Counted, Verified, Latched, EscalatesOnTime, Resumed, ResumesTarget,
         FixBackend, ChooseFixBackend, vars, quota, tally, seen
<1> QED BY <1>1, <1>2

LEMMA FixLoopInvariant == FixLoopAssumption => (Spec => []FixLoopInv)
<1> SUFFICES ASSUME FixLoopAssumption PROVE Spec => []FixLoopInv
  OBVIOUS
<1>1. Init => FixLoopInv
  BY FixLoopInit
<1>2. FixLoopInv /\ [Next]_vars => FixLoopInv'
  BY FixLoopNext
<1> QED BY <1>1, <1>2, PTL DEF Spec

\* For any policies the checks of a pipeline let through and any generations, the
\* states keep their types, the quotas hold over the whole run, and a step is done
\* after its own command only.
THEOREM QuotasAndVerdictsHold ==
    FixLoopAssumption => (Spec => [](TypeOK /\ AttemptsBounded /\ DoneIsVerified))
<1> SUFFICES ASSUME FixLoopAssumption PROVE Spec => [](TypeOK /\ AttemptsBounded /\ DoneIsVerified)
  OBVIOUS
<1>1. FixLoopInv => TypeOK /\ AttemptsBounded /\ DoneIsVerified
  <2> SUFFICES ASSUME FixLoopInv PROVE AttemptsBounded /\ DoneIsVerified
    BY DEF FixLoopInv
  <2>1. AttemptsBounded
    BY DefTypes DEF FixLoopInv, Counted, AttemptsBounded
  <2>2. DoneIsVerified
    BY DEF FixLoopInv, Verified, DoneIsVerified
  <2> QED BY <2>1, <2>2
<1> QED BY <1>1, FixLoopInvariant, PTL

\* The threshold of an escalation names the same attempt in both loops, and the
\* latch only climbs.
THEOREM EscalationClimbsOnTime ==
    FixLoopAssumption => (Spec => []EscalatesOnTime /\ [][LadderClimbs]_vars)
<1> SUFFICES ASSUME FixLoopAssumption PROVE Spec => []EscalatesOnTime /\ [][LadderClimbs]_vars
  OBVIOUS
<1>1. ASSUME FixLoopInv, Next PROVE LadderClimbs
  <2>1. TypeOK /\ timedOut \in BOOLEAN /\ retries \in Nat /\ rung \in Rungs
    BY <1>1, DefTypes DEF FixLoopInv
  <2>2. Order[rung] \in Nat
    BY <2>1 DEF Order, Rungs
  <2>3. CASE Rerun
    <3>1. rung' = EscalationRung(timedOut, retries)
      BY <2>3 DEF Rerun
    <3>2. def' = def
      BY <2>3 DEF Rerun, Start
    <3> QED BY <1>1, <2>1, <3>1, RungClimbs DEF LadderClimbs
  <2>4. CASE Fix
    <3>1. rung' = EscalationRung(FALSE, retries)
      BY <2>4 DEF Fix
    <3> QED BY <1>1, <2>1, <3>1, RungClimbs DEF LadderClimbs
  <2>5. CASE Resume
    BY <2>5, <2>1, <1>1 DEF Resume, LadderClimbs, FixLoopInv, TypeOK
  <2>6. CASE EnterLoop
    BY <2>6 DEF EnterLoop, Failed, Asked, LadderClimbs
  <2>7. CASE ~Rerun /\ ~Fix /\ ~Resume /\ ~EnterLoop
    <3>1. rung' = rung
      BY <1>1, <2>7 DEF Next, Pass, EndInitial, Reask, OutcomeOk, OutcomeCost, OutcomeBlocked, OutcomeFinal,
            OutcomeWithheld, RerunWithheld, RerunSpent, EndRerun, Drain, DrainWithheld, DrainSpent, EndDrain,
            FixWithheld, FixSpent, EndFix, EndReplay, Dies, LoopStops, Kept
    <3> QED BY <2>2, <3>1 DEF LadderClimbs
  <2> QED BY <2>3, <2>4, <2>5, <2>6, <2>7
<1>2. FixLoopInv /\ [Next]_vars => [LadderClimbs]_vars
  BY <1>1
<1>3. FixLoopInv => EscalatesOnTime
  BY DEF FixLoopInv, Latched
<1> QED BY <1>2, <1>3, FixLoopInvariant, PTL DEF Spec

\* A repair speaks to the backend whose session it resumes, and loses no session
\* it could have resumed.
THEOREM RepairFindsItsSession ==
    FixLoopAssumption => (Spec => [](RepairSpeaksItsBackend /\ ResumeKeepsContext))
<1> SUFFICES ASSUME FixLoopAssumption PROVE Spec => [](RepairSpeaksItsBackend /\ ResumeKeepsContext)
  OBVIOUS
<1>1. FixLoopInv => RepairSpeaksItsBackend /\ ResumeKeepsContext
  <2> SUFFICES ASSUME FixLoopInv, pc = "fixing"
               PROVE  RepairSpeaksItsBackend /\ ResumeKeepsContext
    BY DEF RepairSpeaksItsBackend, ResumeKeepsContext
  <2>1. session = ResumesTarget /\ (setup.fixBackend # "none" => setup.declared = "none" /\ setup.target = "none")
    BY DEF FixLoopAssumption, FixLoopInv, Resumed, TypeOK
  <2>2. FixBackend.options \in {"none", FixBackend.id}
    BY DEF FixBackend, ChooseFixBackend
  <2>3. session => setup.target = FixBackend.id
    BY <2>1 DEF ResumesTarget
  <2>4. setup.fits /\ setup.target = "other" /\ setup.role # "default" /\ setup.declared = "none"
          => setup.target = FixBackend.id
    BY <2>1 DEF FixBackend, ChooseFixBackend
  <2> QED BY <2>1, <2>2, <2>3, <2>4 DEF RepairSpeaksItsBackend, ResumeKeepsContext, ResumesTarget
<1> QED BY <1>1, FixLoopInvariant, PTL

\* A cost stop and the answer of a non-blocking step: what a guard cut or the gate
\* withheld is never followed by an absorption, but through a re-ask or, once its
\* quota was spent by an earlier generation, through the drain.
NoReaskAbsorbed == \A d \in Defs : ~d.blocking => ~(d.capture /\ d.resumable)
CostLeft == gen = 1 \/ def.kind # "fix" => CostStopNeverAbsorbed
CostStopHeld ==
    /\ cut => over
    /\ last = "refused" => def.capture
    /\ pc \notin {"outcome", "fix", "over"} => ~cut
    /\ pc = "outcome" /\ cut => last = "cost"
    /\ gen = 1 /\ pc \in {"initial", "reask", "outcome", "drain", "draining"} => retries = 0
    /\ pc = "fix" /\ cut /\ gen = 1 => retries = 0
CostInv == ~def.blocking => CostStopHeld /\ CostLeft
\* Only a step that does not block is forgiven.
Forgiven == status = "absorbed" => def.blocking = FALSE

LEMMA ForgivenNext ==
    ASSUME FixLoopAssumption, FixLoopInv, Forgiven, Next
    PROVE  Forgiven'
<1>1. def' = def
  BY DEF Next, Pass, EndInitial, Reask, Start, OutcomeOk, OutcomeCost, OutcomeBlocked, OutcomeFinal,
         OutcomeWithheld, EnterLoop, Rerun, RerunWithheld, RerunSpent, EndRerun, Drain, DrainWithheld,
         DrainSpent, EndDrain, Fix, FixWithheld, FixSpent, EndFix, EndReplay, LoopStops, Kept, Dies, Resume
<1>2. def.blocking \in BOOLEAN
  BY DefTypes DEF FixLoopInv
<1>3. \A stop : Settle(stop) => Forgiven'
  BY <1>1, <1>2 DEF Settle, Forgiven
<1>4. Done \/ UNCHANGED status \/ status' # "absorbed" => Forgiven'
  BY <1>1 DEF Done, Forgiven
<1>5. status' = (IF def.blocking THEN "blocked" ELSE "absorbed") => Forgiven'
  BY <1>1, <1>2 DEF Forgiven
<1>6. CASE EndInitial \/ Reask \/ EnterLoop \/ Rerun \/ Drain \/ Fix \/ Dies \/ Resume
  BY <1>4, <1>6 DEF EndInitial, Reask, EnterLoop, Rerun, Drain, Fix, Start, Dies, Resume
<1>7. CASE OutcomeOk \/ OutcomeCost \/ OutcomeBlocked \/ OutcomeFinal \/ OutcomeWithheld
  BY <1>3, <1>4, <1>5, <1>7 DEF OutcomeOk, OutcomeCost, OutcomeBlocked, OutcomeFinal, OutcomeWithheld
<1>8. CASE RerunWithheld \/ RerunSpent \/ DrainWithheld \/ DrainSpent \/ FixWithheld \/ FixSpent
  BY <1>3, <1>8 DEF RerunWithheld, RerunSpent, DrainWithheld, DrainSpent, FixWithheld, FixSpent, LoopStops
<1>9. CASE EndRerun
  BY <1>3, <1>4, <1>9 DEF EndRerun
<1>10. CASE EndDrain
  BY <1>4, <1>10 DEF EndDrain
<1>11. CASE EndFix
  BY <1>3, <1>4, <1>11 DEF EndFix
<1>12. CASE EndReplay
  BY <1>3, <1>4, <1>12 DEF EndReplay
<1> QED BY <1>6, <1>7, <1>8, <1>9, <1>10, <1>11, <1>12 DEF Next, Pass

\* An attempt of the step that ends.
LEMMA EndsCost ==
    ASSUME NEW r \in StepResults, Ends(r), FixLoopInv
    PROVE  /\ last' = r /\ (r = "refused" => def.capture)
           /\ r = "cost" => over' /\ cut'
           /\ r # "cost" => cut' = cut /\ (over => over')
BY DEF StepResults, Ends, FixLoopInv, TypeOK

LEMMA CostNext ==
    ASSUME FixLoopAssumption, NoReaskAbsorbed, FixLoopInv, CostInv, Next
    PROVE  CostInv'
<1> SUFFICES ASSUME ~def'.blocking
             PROVE  CostStopHeld' /\ CostLeft'
  BY DEF CostInv
<1>1. def' = def
  BY DEF Next, Pass, EndInitial, Reask, Start, OutcomeOk, OutcomeCost, OutcomeBlocked, OutcomeFinal,
         OutcomeWithheld, EnterLoop, Rerun, RerunWithheld, RerunSpent, EndRerun, Drain, DrainWithheld,
         DrainSpent, EndDrain, Fix, FixWithheld, FixSpent, EndFix, EndReplay, LoopStops, Kept, Dies, Resume
<1>2. /\ ~def.blocking /\ CostStopHeld /\ CostLeft
      /\ Placed /\ Verified /\ ~(def.capture /\ def.resumable)
      /\ (def.kind = "fix" => def.max > 0) /\ def.max \in Nat
      /\ over \in BOOLEAN /\ cut \in BOOLEAN /\ gen \in Nat
  BY <1>1, DefTypes DEF CostInv, FixLoopInv, NoReaskAbsorbed, TypeOK
<1>3. MayReask => FALSE
  BY <1>2 DEF MayReask, CostStopHeld
<1> USE <1>1, <1>2, <1>3 DEF CostStopHeld, CostLeft, CostStopNeverAbsorbed, quota, tally, seen
<1>4. CASE EndInitial
  <2>1. PICK r \in StepResults : Ends(r)
    BY <1>4 DEF EndInitial
  <2> QED BY <1>4, <2>1, EndsCost DEF EndInitial
<1>5. CASE Reask
  BY <1>5 DEF Reask
<1>6. CASE OutcomeOk \/ OutcomeCost \/ OutcomeBlocked \/ OutcomeFinal \/ OutcomeWithheld
  BY <1>6 DEF OutcomeOk, OutcomeCost, OutcomeBlocked, OutcomeFinal, OutcomeWithheld, Failed, Asked, Kept,
              NoteWithheld, Settle, Done
<1>7. CASE EnterLoop
  <2>1. pc = "outcome" /\ last # "cost" /\ pc' \in {"rerun", "drain", "fix"}
    BY <1>7 DEF EnterLoop, Failed, Asked
  <2>2. cut = FALSE /\ cut' = FALSE
    BY <1>7, <2>1 DEF EnterLoop, NoteWithheld
  <2>3. gen' = gen /\ retries' = retries /\ last' = last /\ over' = over
    BY <1>7 DEF EnterLoop
  <2>4. CostStopHeld'
    BY <2>1, <2>2, <2>3
  <2>5. CostLeft'
    BY <2>2
  <2> QED BY <2>4, <2>5
<1>8. CASE Rerun \/ Drain \/ Fix
  <2>1. over = FALSE /\ pc \in {"rerun", "drain", "fix"} /\ pc' \in {"rerunning", "draining", "fixing"}
    BY <1>8 DEF Rerun, Drain, Fix, Start
  <2>2. cut = FALSE /\ cut' = FALSE
    BY <1>8, <2>1 DEF Rerun, Drain, Fix
  <2>3. gen' = gen /\ last' = last /\ (pc' = "draining" => pc = "drain" /\ retries' = retries)
    BY <1>8 DEF Rerun, Drain, Fix, Start
  <2>4. CostStopHeld'
    BY <2>1, <2>2, <2>3
  <2>5. CostLeft'
    BY <2>2
  <2> QED BY <2>4, <2>5
<1>9. CASE RerunWithheld \/ DrainWithheld \/ FixWithheld
  BY <1>9 DEF RerunWithheld, DrainWithheld, FixWithheld, LoopStops, Kept, Settle
<1>10. CASE RerunSpent \/ DrainSpent \/ FixSpent
  BY <1>10 DEF RerunSpent, DrainSpent, FixSpent, Kept, Settle, Placed
<1>11. CASE EndRerun
  <2>1. PICK r \in StepResults :
          Ends(r) /\ CASE r = "ok" -> Done [] r = "cost" -> Settle(TRUE) [] OTHER -> pc' = "rerun" /\ UNCHANGED status
    BY <1>11 DEF EndRerun
  <2>2. CASE r = "ok"
    BY <1>11, <2>1, <2>2, EndsCost DEF EndRerun, Done
  <2>3. CASE r = "cost"
    BY <1>11, <2>1, <2>3, EndsCost DEF EndRerun, Settle
  <2>4. CASE r # "ok" /\ r # "cost"
    BY <1>11, <2>1, <2>4, EndsCost DEF EndRerun
  <2> QED BY <2>2, <2>3, <2>4
<1>12. CASE EndDrain
  <2>1. PICK r \in StepResults :
          Ends(r) /\ CASE r = "ok" -> Done [] r = "timeout" -> pc' = "drain" /\ UNCHANGED status
                       [] OTHER -> pc' = "fix" /\ UNCHANGED status
    BY <1>12 DEF EndDrain
  <2>2. CASE r = "ok"
    BY <1>12, <2>1, <2>2, EndsCost DEF EndDrain, Done
  <2>3. CASE r = "timeout"
    BY <1>12, <2>1, <2>3, EndsCost DEF EndDrain
  <2>4. CASE r # "ok" /\ r # "timeout"
    BY <1>12, <2>1, <2>4, EndsCost DEF EndDrain
  <2> QED BY <2>2, <2>3, <2>4
<1>13. CASE EndFix
  <2>1. PICK r \in FixResults :
         /\ over' \in IF r = "cost" THEN {TRUE} ELSE {over, TRUE}
         /\ cut' = (cut \/ r = "cost" \/ (r = "ok" /\ def.replay /\ over'))
         /\ IF r = "cost" THEN Settle(TRUE)
            ELSE IF r = "fail" \/ ~def.replay THEN Settle(FALSE)
            ELSE IF over' THEN Settle(TRUE)
            ELSE pc' = "replaying" /\ UNCHANGED status
    BY <1>13 DEF EndFix
  <2>2. r \in {"ok", "fail", "cost"}
    BY DEF FixResults
  <2> QED BY <1>13, <2>1, <2>2 DEF EndFix, Settle
<1>14. CASE EndReplay
  <2>1. PICK r \in StepResults :
          Ends(r) /\ CASE r = "ok" -> Done [] r = "cost" -> Settle(TRUE) [] OTHER -> pc' = "fix" /\ UNCHANGED status
    BY <1>14 DEF EndReplay
  <2>2. CASE r = "ok"
    BY <1>14, <2>1, <2>2, EndsCost DEF EndReplay, Done
  <2>3. CASE r = "cost"
    BY <1>14, <2>1, <2>3, EndsCost DEF EndReplay, Settle
  <2>4. CASE r # "ok" /\ r # "cost"
    BY <1>14, <2>1, <2>4, EndsCost DEF EndReplay
  <2> QED BY <2>2, <2>3, <2>4
<1>15. CASE Dies
  <2>1. pc' = "over" /\ status' = "running"
    BY <1>15 DEF Dies, Verified
  <2>2. cut' = cut /\ over' = over /\ last' = last
    BY <1>15 DEF Dies
  <2>3. CostStopHeld'
    BY <2>1, <2>2
  <2>4. CostLeft'
    BY <2>1
  <2> QED BY <2>3, <2>4
<1>16. CASE Resume
  <2>1. gen' # 1 /\ pc' = "initial" /\ last' = "none" /\ cut' = FALSE
    <3>1. gen \in 1..MaxGens /\ MaxGens \in Nat
      BY DEF FixLoopInv, TypeOK, FixLoopAssumption
    <3> QED BY <1>16, <3>1 DEF Resume
  <2>2. CostStopHeld'
    BY <2>1
  <2>3. CostLeft'
    BY <2>1
  <2> QED BY <2>2, <2>3
<1> QED BY <1>4, <1>5, <1>6, <1>7, <1>8, <1>9, <1>10, <1>11, <1>12, <1>13, <1>14, <1>15, <1>16 DEF Next, Pass

\* A cost stop is left to a resume and never absorbed, by a step no re-ask of which
\* may be withheld; a fix loop in the first execution of its run, and any other in
\* all of them.
THEOREM CostStopIsLeftToResume ==
    FixLoopAssumption /\ NoReaskAbsorbed => (Spec => []CostLeft)
<1> SUFFICES ASSUME FixLoopAssumption, NoReaskAbsorbed PROVE Spec => []CostLeft
  OBVIOUS
<1>1. Init => CostInv /\ Forgiven
  BY DEF Init, CostInv, CostStopHeld, CostLeft, CostStopNeverAbsorbed, Forgiven
<1>2. CostInv /\ Forgiven /\ UNCHANGED vars => CostInv' /\ Forgiven'
  BY DEF CostInv, CostStopHeld, CostLeft, CostStopNeverAbsorbed, Forgiven, vars, quota, seen
<1>3. FixLoopInv /\ CostInv /\ Forgiven /\ [Next]_vars => CostInv' /\ Forgiven'
  BY <1>2, CostNext, ForgivenNext
<1>4. CostInv /\ Forgiven => CostLeft
  BY DEF CostInv, Forgiven, CostLeft, CostStopNeverAbsorbed
<1> QED BY <1>1, <1>3, <1>4, FixLoopInvariant, PTL DEF Spec
=============================================================================
