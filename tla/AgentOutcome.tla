---------------------------- MODULE AgentOutcome ----------------------------
(***************************************************************************)
(* From what an agent's command line prints, and how it ends, to the       *)
(* answer the step loop reads.  Sources: src/agents/backends               *)
(* (result-helpers.ts, the three result.ts, events.ts and execution.ts),   *)
(* src/contracts/verdict.ts, src/shared/process/process-runner.ts,         *)
(* src/execution/runners.ts and src/execution/step/step-attempt.ts.        *)
(*                                                                         *)
(* A message is a shape and a value: prose, a json:verdict fence, a fence  *)
(* whose JSON is cut, a bare JSON object in the text, or the structured    *)
(* output the backend natively carries (a tool call for Claude, an object  *)
(* message for codex and opencode).  A value keeps what the parser reads:  *)
(* success, blocked, whether the reason starts with BLOCKED:, and the      *)
(* captured field.  Figures and transcripts are left out (AttemptFigures). *)
(***************************************************************************)
EXTENDS Naturals, Sequences, FiniteSets, SequencesExt

CONSTANTS Backends, Intents, Values, Shapes, Errors, Kills, Captures,
          MaxMessages, Timeout, FirstEvent

TimeoutAssumption ==
  /\ Timeout \in Nat \ {0} /\ FirstEvent \in Nat \ {0}
  /\ MaxMessages \in Nat /\ Captures \in Seq(STRING)

VARIABLES backend, intent, format, messages, error, clock, kill, code, result, written

vars == <<backend, intent, format, messages, error, clock, kill, code, result, written>>

None == "none"
NoError == [status |-> "none", wording |-> "none"]
NoValue == [success |-> "absent", blocked |-> "absent", reason |-> "none", field |-> "none"]

(***************************************************************************)
(* Reading a verdict out of an object, a text, a stream.                   *)
(***************************************************************************)
HasBlockedPrefix(reason) == reason = "prefixed"

\* The field decides when it is there, the prose otherwise.
SlipSilence(value) == value.blocked # "false"
SlipSaysBlocked(value) == HasBlockedPrefix(value.reason)
SaysBlocked(value) ==
  IF value.blocked = "absent" THEN HasBlockedPrefix(value.reason) ELSE value.blocked = "true"

VerdictOf(value) ==
  IF value.success = "absent" THEN None ELSE IF value.success = "true" THEN "passed" ELSE "failed"

NotFound == [found |-> FALSE, value |-> NoValue, invalid |-> FALSE]
Checked(value) == [found |-> VerdictOf(value) # None, value |-> value, invalid |-> VerdictOf(value) = None]

Of(shapes) == SelectSeq(messages, LAMBDA m : m.shape \in shapes)

\* The last fence of the text speaks, a broken one included.
SlipFence == LET good == Of({"fence"}) IN IF good = <<>> THEN NotFound ELSE Checked(good[1].value)
Fence ==
  LET fences == Of({"fence", "cut"})
  IN  IF fences = <<>> THEN NotFound
      ELSE IF Last(fences).shape = "cut" THEN [NotFound EXCEPT !.invalid = TRUE]
      ELSE Checked(Last(fences).value)

\* What a stream carries besides text.  Claude's is a tool call; the other
\* two take the last message that is a JSON object, native or not.
Structured(who) == Of(IF who = "claude" THEN {"structured"} ELSE {"structured", "object"})

\* The text as one JSON object: a single message that is nothing else.
TextMessages(who) == IF who = "claude" THEN SelectSeq(messages, LAMBDA m : m.shape # "structured") ELSE messages
WholeText(who) ==
  LET text == TextMessages(who)
  IN  IF Len(text) = 1 /\ text[1].shape \in {"object", "structured"} THEN Checked(text[1].value) ELSE NotFound

\* The cascade codex and opencode share, and Claude's own.
Cascade(who) ==
  IF Fence.found THEN Fence
  ELSE IF Structured(who) # <<>> THEN Checked(Last(Structured(who)).value)
  ELSE IF WholeText(who).found THEN WholeText(who)
  ELSE [NotFound EXCEPT !.invalid = Fence.invalid \/ WholeText(who).invalid]

ClaudeCascade ==
  IF Structured("claude") # <<>> THEN Checked(Last(Structured("claude")).value) ELSE Fence

\* A text answer of codex or opencode is never searched; Claude's always is.
Candidate(who) ==
  IF who = "claude" THEN ClaudeCascade
  ELSE IF format = "text" THEN NotFound
  ELSE Cascade(who)

(***************************************************************************)
(* Errors and kills.                                                       *)
(***************************************************************************)
IsAuthFailure(e) == IF e.status # "none" THEN e.status \in {"401", "403"} ELSE e.wording = "login"
IsRateLimited(e) == e.status = "429" \/ e.wording = "limit"

\* Only Claude's mapper names a cause.
SlipCauseText(who, e) == IF who = "claude" THEN e.wording ELSE None
SlipErrorCause(who, e) == IF who = "claude" /\ IsRateLimited(e) THEN "blocked" ELSE None
ErrorCause(who, e) ==
  IF who = "claude" /\ (IsAuthFailure(e) \/ IsRateLimited(e)) THEN "blocked" ELSE None

Deadlines == {"timeout", "no-first-event"}
KilledByTimeout(k) == k \in Deadlines
KillFields(k) ==
  [timedOut |-> KilledByTimeout(k), budget |-> k = "budget", unaccounted |-> k = "cost-unaccounted"]

\* Claude's host drops the cleanup of a straggler; the others reject the run.
SlipKillSeen(who, k) == k
KillSeen(who, k) == IF who = "claude" /\ k = "cleanup" THEN None ELSE k

(***************************************************************************)
(* The result: kill > error > missing verdict > negative verdict > code.   *)
(***************************************************************************)
Ok(k, c, v, needs) ==
  k = None /\ c = "0" /\ error = NoError /\ (needs => v = "passed")

FailReason(k, c, read, needs) ==
  LET v == VerdictOf(read.value)
  IN  IF k # None THEN "killed"
      ELSE IF error # NoError THEN "error"
      ELSE IF needs /\ v = None THEN "no verdict"
      ELSE IF v = "failed" THEN (IF read.value.reason = "prefixed" THEN "prefixed" ELSE "said")
      ELSE IF c # "0" THEN "exit code" ELSE None

SlipFailCause(k, read) == IF VerdictOf(read.value) = "failed" /\ SaysBlocked(read.value) THEN "blocked" ELSE None
FailCause(k, read) ==
  IF k # None THEN None
  ELSE IF error # NoError THEN ErrorCause(backend, error)
  ELSE IF VerdictOf(read.value) = "failed" /\ SaysBlocked(read.value) THEN "blocked" ELSE None

Resolve(k, c, read) ==
  LET needs == format = "json"
      ok == Ok(k, c, VerdictOf(read.value), needs)
  IN  [ok |-> ok, reason |-> FailReason(k, c, read, needs),
       kind |-> IF ok THEN None
                ELSE IF VerdictOf(read.value) = "failed" /\ k = None /\ error = NoError THEN "verdict"
                ELSE "technical",
       cause |-> IF ok THEN None ELSE FailCause(k, read)]

\* An extension backend sets its reason itself and leaves the cause out.
ExtensionResult ==
  LET read == Fence
  IN  [ok |-> code = "0" /\ kill = None /\ VerdictOf(read.value) # "failed",
       reason |-> FailReason(kill, code, read, FALSE), kind |-> "technical", cause |-> None]

\* Both results carry the object the captures are read from.
Mapped ==
  LET k == KillSeen(backend, kill)
      read == IF backend = "extension" THEN Fence ELSE Candidate(backend)
      outcome == IF backend = "extension" THEN ExtensionResult ELSE Resolve(k, code, read)
  IN  [outcome |-> outcome, flags |-> KillFields(k), value |-> read.value, refused |-> FALSE,
       stage |-> "mapped"]

SlipNormalize(r) == r
NormalizeAgentResult(r) ==
  IF r.outcome.cause # None \/ r.outcome.ok \/ r.outcome.reason # "prefixed" THEN r
  ELSE [r EXCEPT !.outcome.cause = "blocked"]

\* A repair pass hands over less than a step: no deadline flag, no cause.
SlipProject(r) == [r EXCEPT !.flags = [timedOut |-> FALSE, budget |-> r.flags.budget, unaccounted |-> FALSE]]
Project(r) ==
  IF intent = "fix"
  THEN [r EXCEPT !.flags.timedOut = FALSE, !.outcome.cause = None, !.outcome.kind = None] ELSE r

(***************************************************************************)
(* The run of the command line.                                            *)
(***************************************************************************)
Init ==
  /\ backend \in Backends /\ intent \in Intents
  /\ format \in (IF intent = "fix" THEN {"text"} ELSE {"text", "json"})
  /\ messages = <<>> /\ error = NoError /\ clock = 0 /\ kill = None /\ code = "running"
  /\ result = [outcome |-> [ok |-> FALSE, reason |-> None, kind |-> None, cause |-> None],
               flags |-> KillFields(None), value |-> NoValue, refused |-> FALSE, stage |-> "none"]
  /\ written = <<>>

Running == code = "running"

\* One event of the stream carrying text.
Say(shape, value) ==
  /\ Running /\ Len(messages) < MaxMessages
  /\ messages' = Append(messages, [shape |-> shape, value |-> IF shape \in {"prose", "cut"} THEN NoValue ELSE value])
  /\ UNCHANGED <<backend, intent, format, error, clock, kill, code, result, written>>

\* A stream error, or for opencode one that only its log carries: the first
\* error of the log, and only when the stream shows none.
Report(e) ==
  /\ Running /\ error = NoError /\ e # NoError
  /\ error' = e
  /\ UNCHANGED <<backend, intent, format, messages, clock, kill, code, result, written>>

\* The deadlines.  Opencode's watches for the first event, and its timer is
\* cleared by any event; the other watches the whole run.
Spoken == messages # <<>>
SlipDeadline(now) == None
Deadline(now) ==
  IF now >= Timeout THEN "timeout"
  ELSE IF backend = "opencode" /\ ~Spoken /\ now = FirstEvent THEN "no-first-event"
  ELSE None

Tick ==
  /\ Running /\ kill = None /\ clock < Timeout
  /\ clock' = clock + 1
  /\ kill' = Deadline(clock + 1)
  /\ UNCHANGED <<backend, intent, format, messages, error, code, result, written>>

\* A policy kill: the budget, the accounting, the operator.  The accounting
\* stop needs a backend whose usage can be without a price.
Terminate(cause) ==
  /\ Running /\ kill = None
  /\ cause = "budget" => Spoken
  /\ cause = "cost-unaccounted" => Spoken /\ backend \in {"codex", "opencode"}
  /\ kill' = cause
  /\ UNCHANGED <<backend, intent, format, messages, error, clock, code, result, written>>

\* The direct child ends by itself; a descendant may be left in its group.
Exit(c, straggler) ==
  /\ Running /\ kill = None
  /\ code' = c
  /\ kill' = IF straggler THEN "cleanup" ELSE None
  /\ UNCHANGED <<backend, intent, format, messages, error, clock, result, written>>

\* A killed child is gone, by the signal or with a code it still managed.
Reap(c) ==
  /\ Running /\ kill # None
  /\ code' = c
  /\ UNCHANGED <<backend, intent, format, messages, error, clock, kill, result, written>>

Settle ==
  /\ ~Running /\ result.stage = "none"
  /\ result' = LET r == Project(NormalizeAgentResult(Mapped))
               IN  [r EXCEPT !.stage = IF r.outcome.ok /\ intent = "step" THEN "read" ELSE "done"]
  /\ UNCHANGED <<backend, intent, format, messages, error, clock, kill, code, written>>

\* Every capture is read before any is written.
Missing == result.value.field # "good"
SlipRead ==
  /\ result.stage = "read" /\ result' = [result EXCEPT !.stage = "write"]
  /\ UNCHANGED <<backend, intent, format, messages, error, clock, kill, code, written>>
ReadCaptures ==
  /\ result.stage = "read"
  /\ result' = IF Captures # <<>> /\ Missing
               THEN [result EXCEPT !.stage = "done", !.refused = TRUE, !.outcome.ok = FALSE,
                                   !.outcome.reason = "capture"]
               ELSE [result EXCEPT !.stage = "write"]
  /\ UNCHANGED <<backend, intent, format, messages, error, clock, kill, code, written>>

\* The captures are written one at a time, then the outputs are required.
WriteCapture ==
  /\ result.stage = "write" /\ Len(written) < Len(Captures)
  /\ written' = Append(written, Captures[Len(written) + 1])
  /\ UNCHANGED <<backend, intent, format, messages, error, clock, kill, code, result>>

Require(landed) ==
  /\ result.stage = "write"
  /\ landed => Len(written) = Len(Captures)
  /\ result' = IF landed THEN [result EXCEPT !.stage = "done"]
               ELSE [result EXCEPT !.stage = "done", !.outcome.ok = FALSE, !.outcome.reason = "output"]
  /\ UNCHANGED <<backend, intent, format, messages, error, clock, kill, code, written>>

Done == result.stage = "done" /\ UNCHANGED vars

Next ==
  \/ \E s \in Shapes, v \in Values : Say(s, v)
  \/ \E e \in Errors : Report(e)
  \/ Tick
  \/ \E k \in Kills : Terminate(k)
  \/ \E c \in {"0", "1"}, s \in BOOLEAN : Exit(c, s)
  \/ \E c \in {"0", "null"} : Reap(c)
  \/ Settle
  \/ ReadCaptures
  \/ WriteCapture
  \/ \E landed \in BOOLEAN : Require(landed)
  \/ Done

Spec == Init /\ [][Next]_vars

\* The timers run, a killed child is reaped, and what follows is the runner's.
FairSpec ==
  /\ Spec /\ WF_vars(Tick) /\ WF_vars(Settle) /\ WF_vars(ReadCaptures) /\ WF_vars(WriteCapture)
  /\ WF_vars(\E c \in {"0", "null"} : Reap(c))
  /\ WF_vars(\E landed \in BOOLEAN : Require(landed))

----------------------------------------------------------------------------
Answered == result.stage = "done"
Healthy == KillSeen(backend, kill) = None /\ error = NoError
Said == {messages[i].value : i \in {j \in DOMAIN messages : messages[j].shape \notin {"prose", "cut"}}}
Fences == {messages[i].value : i \in {j \in DOMAIN messages : messages[j].shape = "fence"}}

\* Shape of the state: a kill is one of the known causes, and a result flag
\* is only set by the kill it names.
TypeOK ==
  /\ backend \in Backends /\ intent \in Intents /\ format \in {"text", "json"}
  /\ error \in Errors \cup {NoError} /\ clock \in 0..Timeout
  /\ kill \in Kills \cup Deadlines \cup {"cleanup", None}
  /\ code \in {"running", "0", "1", "null"}
  /\ result.outcome.kind \in {None, "verdict", "technical"}
  /\ result.outcome.cause \in {None, "blocked"}
  /\ Len(written) <= Len(Captures)

\* A blocked verdict left in the output of an attempt that was killed says
\* nothing about why it ended: no kill is ever read as an obstacle, nor as
\* the agent's own verdict (result-helpers.ts, resolveVerdictOutcome).
KillHasNoCause ==
  Answered /\ KillSeen(backend, kill) # None =>
    result.outcome.cause = None /\ result.outcome.kind # "verdict" /\ ~result.outcome.ok

\* A cost stop reaches the ledger whether a step or a repair pass spent: both
\* projections of the result carry the flag of its kill, and no other.
CostStopIsReported ==
  Answered => /\ result.flags.budget <=> kill = "budget"
              /\ result.flags.unaccounted <=> kill = "cost-unaccounted"

\* An agent that says one thing only, that it is blocked, in a shape every
\* backend reads, is heard through to the step loop, whatever it printed
\* before and after and whatever its exit code; an extension backend, which
\* only has its reason to say it with, is heard by its prefix.
BlockedIsHeard ==
  (/\ Answered /\ Healthy /\ intent = "step" /\ format = "json"
   /\ Fences # {} /\ ~\E i \in DOMAIN messages : messages[i].shape = "cut"
   /\ \A v \in Said : /\ VerdictOf(v) = "failed"
                      /\ v.blocked = "true" \/ (v.blocked = "absent" /\ HasBlockedPrefix(v.reason))
   /\ backend = "extension" => \A v \in Said : HasBlockedPrefix(v.reason))
    => result.outcome.cause = "blocked"

\* A step stopped as blocked was either said so by its agent, in the field
\* or in the prose, or turned away by the provider's login or quota.
BlockedOnlyWhenSaid ==
  (Answered /\ result.outcome.cause = "blocked") =>
    \/ \E v \in Said : VerdictOf(v) = "failed" /\ (v.blocked = "true" \/ HasBlockedPrefix(v.reason))
    \/ backend = "claude" /\ error # NoError /\ (IsAuthFailure(error) \/ IsRateLimited(error))

\* A provider that refuses the login or the quota stops the run; a fix pass
\* could repair neither (claude-code/result.ts, failReasonFor).
RefusalStopsTheRun ==
  (/\ Answered /\ backend = "claude" /\ intent = "step" /\ KillSeen(backend, kill) = None
   /\ error.status \in {"401", "403", "429"}) => result.outcome.cause = "blocked"

\* A json step passes only on a passing verdict the agent wrote, last among
\* its fences when it wrote several, over a process that ended well.
OkIsSaid ==
  (Answered /\ format = "json" /\ result.outcome.ok /\ backend # "extension") =>
    /\ \E v \in Said : VerdictOf(v) = "passed"
    /\ (Said = Fences /\ Of({"fence", "cut"}) # <<>>) =>
         Last(Of({"fence", "cut"})).value.success = "true"
    /\ Healthy /\ code = "0"

\* A straggler left in the group of a Claude that reported its result does
\* not cost the step its verdict.
StragglerIsTolerated ==
  (/\ Answered /\ backend = "claude" /\ kill = "cleanup" /\ code = "0" /\ error = NoError
   /\ format = "json" /\ Said # {} /\ Said = Fences /\ ~\E i \in DOMAIN messages : messages[i].shape = "cut"
   /\ \A v \in Said : VerdictOf(v) = "passed")
    => result.outcome.ok \/ result.outcome.reason \in {"capture", "output"}

\* A refused capture leaves nothing on disk, and an attempt that passes has
\* written every one: a fix pass erases nothing, so a partial object would
\* reach the repair as if it were good.
CapturesAreWhole ==
  Answered => /\ Missing => written = <<>>
              /\ (result.outcome.ok /\ intent = "step") => Len(written) = Len(Captures)

\* verdict.ts says the explicit field wins over the prefix in both
\* directions, so an agent that says it is not blocked is not.
FieldWinsOverPrefix ==
  (Answered /\ \A v \in Said : v.blocked = "false") => (result.outcome.cause = "blocked" => error # NoError)

\* result-helpers.ts says one order serves every backend: the same output
\* never passes on one provider and fails on another.
OneCascade ==
  format = "json" =>
    VerdictOf(Candidate("claude").value) = VerdictOf(Candidate("codex").value)
=============================================================================
