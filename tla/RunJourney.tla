----------------------------- MODULE RunJourney -----------------------------
(***************************************************************************)
(* The pauses of a run, as its journal tells them: pausesOf of             *)
(* src/dashboard/read-model/run-journey.ts.  An event has a type, a text   *)
(* (the reason of a stop, the decision recorded) and the instant ts it was *)
(* written at; 0 is no instant.                                            *)
(***************************************************************************)
EXTENDS Sequences, SequencesExt

None == "none"

\* A pause runs from the last event before a resume to that resume; the
\* decision the resume carries follows it, before any event of a step.  A run
\* stopped and not resumed is in a pause without an end.
Paused(acc, to) == [from |-> acc.last, to |-> to, reason |-> acc.reason, decision |-> None]
SlipPauseStep(acc, event) ==
  LET new == event.type = "run.resumed" /\ acc.last # 0
  IN  [pauses |-> IF new THEN Append(acc.pauses, Paused(acc, event.ts)) ELSE acc.pauses,
       reason |-> IF event.type = "run.stopped" THEN event.text ELSE acc.reason,
       open |-> FALSE, last |-> event.ts]
PauseStep(acc, event) ==
  LET new == event.type = "run.resumed" /\ acc.last # 0
      decides == event.type = "decision.recorded" /\ acc.open
  IN  [pauses |-> IF new THEN Append(acc.pauses, Paused(acc, event.ts))
                  ELSE IF decides THEN [acc.pauses EXCEPT ![Len(acc.pauses)].decision = event.text]
                  ELSE acc.pauses,
       reason |-> IF new THEN None ELSE IF event.type = "run.stopped" THEN event.text ELSE acc.reason,
       open |-> new \/ (acc.open /\ event.type \notin {"step.attempt.started", "step.attempt.finished"}),
       last |-> event.ts]
PausesOf(events) ==
  LET read == FoldLeft(PauseStep, [pauses |-> <<>>, last |-> 0, reason |-> None, open |-> FALSE], events)
  IN  IF read.reason = None THEN read.pauses ELSE Append(read.pauses, Paused(read, 0))
=============================================================================
