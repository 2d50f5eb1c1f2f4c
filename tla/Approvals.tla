----------------------------- MODULE Approvals -----------------------------
(***************************************************************************)
(* Human decisions on an artifact: the gate that waits for them, the step  *)
(* that reworks a rejected artifact, the commands that record them.        *)
(*   work-items/store/decisions.ts                decision files           *)
(*   definition/builtin-steps/lib/human-review.ts the gate                 *)
(*   entry/commands/approval-subject.ts           what a command accepts   *)
(*   execution/step/step-admission.ts             when the rework runs     *)
(*                                                                         *)
(* body is the artifact: 0 when it is missing, else a version, which also  *)
(* stands for its hash.  Verdict tells of each version whether the gate    *)
(* lets it through ("ok"), cannot parse it ("bad"), blocks it for good     *)
(* ("none") or blocks it until its subject is approved.  A command is a    *)
(* process of its own: it reads the artifact, then the decision file, then *)
(* writes it, with no lock: commands of several people overlap anywhere.   *)
(* Notes, branches and wording are left out.                               *)
(***************************************************************************)
EXTENDS Naturals, FiniteSets

CONSTANTS Subjects, People, Reasons, Versions, Verdict, MaxRounds,
          MaxEdits, MaxVisits \* bounds: rewrites by hand, evaluations of the gate

VARIABLES
    body,     \* the artifact
    file,     \* by subject, the decision file
    ask,      \* by person, the command under way
    step,     \* the rework step: new, owed, working, done, failed
    gate,     \* the evaluation of the gate: [at, held, on, saw]
    edits, visits,
    unread,   \* history: by subject, those whose command read the file before the decision that stands was written
    streak,   \* history: versions of a subject rejected in a row since its last approval or unread one
    granted,  \* history: pairs of a subject and a version somebody approved having read it
    passed    \* history: the version the gate last let through, with the subjects rejected when it was asked
vars == <<body, file, ask, step, gate, edits, visits, unread, streak, granted, passed>>

NoFile == [decision |-> "absent", sha |-> 0, by |-> "nobody", reason |-> "none", round |-> 0]
NoAsk == [at |-> "idle", verb |-> "none", on |-> "none", reason |-> "none", sha |-> 0, found |-> NoFile]
Closed == [at |-> "closed", held |-> {}, on |-> "none", saw |-> <<>>]

TypeOK ==
    /\ body \in Versions \cup {0}
    /\ \A s \in Subjects : /\ file[s].decision \in {"absent", "approved", "rejected"}
                           /\ file[s].decision = "absent" \/ file[s].sha \in Versions
                           /\ (file[s].decision = "rejected") = (file[s].round > 0)
                           /\ file[s].sha # 0 => Verdict[file[s].sha] # "bad"
    /\ \A p \in People : ask[p].at \in {"idle", "validate", "look", "write"}
    /\ \A s \in Subjects : unread[s] \subseteq People
    /\ step \in {"new", "owed", "working", "done", "failed"}
    /\ gate.at \in {"closed", "pending", "stopped", "passed"}

-----------------------------------------------------------------------------
(* Reading a decision. *)

Readable == body # 0 /\ Verdict[body] # "bad"
Blocking == Readable /\ Verdict[body] # "ok"
Approved(d) == d.decision = "approved"
\* Slip: any approval stands for the artifact as it is.
IsFreshAny(d) == Approved(d)
\* approvalFreshness
IsFresh(d) == Approved(d) /\ body # 0 /\ d.sha = body
\* rejectionPending: an absent artifact still waits for its rework.
RejectionPending(d) == d.decision = "rejected" /\ body \in {0, d.sha}
\* gateDecisionStatus, the one reading of a decision.
GateDecisionStatus(d) ==
    IF d.decision = "absent" THEN "absent"
    ELSE IF d.decision = "rejected" THEN IF RejectionPending(d) THEN "rejected" ELSE "reworked"
    ELSE IF IsFresh(d) THEN "fresh" ELSE "stale"
RejectedNow(s) == GateDecisionStatus(file[s]) \in {"rejected", "reworked"}
AnyPendingRejection == \E s \in Subjects : RejectionPending(file[s])

-----------------------------------------------------------------------------
(* The commands. *)

\* Slip: the guard asks the verdict only, also about a rejected subject.
GuardAcceptsVerdict(s) == Blocking /\ Verdict[body] = s
\* The guard of a per-verdict review: a rejected subject may always be answered.
GuardAccepts(s) == file[s].decision = "rejected" \/ (Blocking /\ Verdict[body] = s)

\* resolveApprovableArtifact
Ask(p) ==
    /\ ask[p].at = "idle"
    /\ \E s \in Subjects, v \in {"approve", "reject"}, r \in Reasons :
        /\ GuardAccepts(s)
        /\ v = "approve" => r = "none"
        /\ v = "reject" => r # "none"
        /\ ask' = [ask EXCEPT ![p] = [NoAsk EXCEPT !.at = "validate", !.verb = v, !.on = s, !.reason = r]]
    /\ UNCHANGED <<body, file, step, gate, edits, visits, unread, streak, granted, passed>>
\* Slip: the artifact is hashed without its parser.
ValidateNothing(p) ==
    /\ ask[p].at = "validate"
    /\ ask' = [ask EXCEPT ![p] = IF body # 0 THEN [@ EXCEPT !.at = "look", !.sha = body] ELSE NoAsk]
    /\ UNCHANGED <<body, file, step, gate, edits, visits, unread, streak, granted, passed>>
\* validateArtifact: a missing or invalid artifact is refused.
Validate(p) ==
    /\ ask[p].at = "validate"
    /\ ask' = [ask EXCEPT ![p] = IF Readable THEN [@ EXCEPT !.at = "look", !.sha = body] ELSE NoAsk]
    /\ UNCHANGED <<body, file, step, gate, edits, visits, unread, streak, granted, passed>>
\* readDecision
Look(p) ==
    /\ ask[p].at = "look"
    /\ ask' = [ask EXCEPT ![p].at = "write", ![p].found = file[ask[p].on]]
    /\ unread' = [unread EXCEPT ![ask[p].on] = @ \ {p}]
    /\ UNCHANGED <<body, file, step, gate, edits, visits, streak, granted, passed>>

\* Those whose command has read the decision on s that p replaces now.
Unaware(p, s) == {q \in People \ {p} : ask[q].at = "write" /\ ask[q].on = s}
\* Slip: the approval found is held against the artifact as it is by now.
ApprovalOfNow(p) ==
    LET s == ask[p].on  kept == IsFresh(ask[p].found) IN
    /\ ask[p].at = "write" /\ ask[p].verb = "approve"
    /\ file' = IF kept THEN file
               ELSE [file EXCEPT ![s] = [NoFile EXCEPT !.decision = "approved", !.sha = ask[p].sha, !.by = p]]
    /\ ask' = [ask EXCEPT ![p] = NoAsk]
    /\ granted' = granted \cup {<<s, ask[p].sha>>}
    /\ unread' = IF kept THEN unread ELSE [unread EXCEPT ![s] = Unaware(p, s)]
    /\ streak' = IF kept THEN streak ELSE [streak EXCEPT ![s] = 0]
    /\ UNCHANGED <<body, step, gate, edits, visits, passed>>
\* recordApproval: one that covers these bytes already is kept as it is.
Approval(p) ==
    LET s == ask[p].on  kept == Approved(ask[p].found) /\ ask[p].found.sha = ask[p].sha IN
    /\ ask[p].at = "write" /\ ask[p].verb = "approve"
    /\ file' = IF kept THEN file
               ELSE [file EXCEPT ![s] = [NoFile EXCEPT !.decision = "approved", !.sha = ask[p].sha, !.by = p]]
    /\ ask' = [ask EXCEPT ![p] = NoAsk]
    /\ granted' = granted \cup {<<s, ask[p].sha>>}
    /\ unread' = IF kept THEN unread ELSE [unread EXCEPT ![s] = Unaware(p, s)]
    /\ streak' = IF kept THEN streak ELSE [streak EXCEPT ![s] = 0]
    /\ UNCHANGED <<body, step, gate, edits, visits, passed>>

\* Slip: another reason opens no round, nor do other bytes.
RoundStill(found, sha) == IF found.decision = "rejected" THEN found.round ELSE 1
\* A rejection of the bytes already rejected stays in its round.
Round(found, sha) ==
    IF found.decision = "rejected" THEN found.round + (IF found.sha = sha THEN 0 ELSE 1) ELSE 1
\* recordRejection: the same again writes nothing, one round too many is refused.
Rejection(p) ==
    LET s == ask[p].on  found == ask[p].found  round == Round(found, ask[p].sha)
        same == found.decision = "rejected" /\ found.sha = ask[p].sha
        kept == (same /\ found.reason = ask[p].reason) \/ round > MaxRounds
    IN  /\ ask[p].at = "write" /\ ask[p].verb = "reject"
        /\ ask' = [ask EXCEPT ![p] = NoAsk]
        /\ file' = IF kept THEN file
                   ELSE [file EXCEPT ![s] = [decision |-> "rejected", sha |-> ask[p].sha, by |-> p,
                                             reason |-> ask[p].reason, round |-> round]]
        /\ unread' = IF kept THEN unread ELSE [unread EXCEPT ![s] = Unaware(p, s)]
        /\ streak' = IF kept THEN streak
                     ELSE [streak EXCEPT ![s] = IF p \in unread[s] THEN 1 ELSE IF same THEN @ ELSE @ + 1]
        /\ UNCHANGED <<body, step, gate, edits, visits, granted, passed>>

-----------------------------------------------------------------------------
(* The rework step, and hands on the artifact. *)

\* admitStep: a step that never completed runs, a completed one when a rejection
\* is pending.  The attempt erases the output before it runs.
Admit ==
    /\ step \in {"new", "owed", "failed"} /\ gate.at = "closed"
    /\ IF step # "owed" \/ AnyPendingRejection THEN step' = "working" /\ body' = 0
       ELSE step' = "done" /\ UNCHANGED body
    /\ UNCHANGED <<file, ask, gate, edits, visits, unread, streak, granted, passed>>
\* It writes a version its parser accepts; or it fails, or dies, over anything.
EndRework ==
    /\ step = "working" /\ step' \in {"done", "failed"}
    /\ body' \in Versions \cup {0}
    /\ step' = "done" => body' # 0 /\ Verdict[body'] # "bad"
    /\ UNCHANGED <<file, ask, gate, edits, visits, unread, streak, granted, passed>>
Edit ==
    /\ edits < MaxEdits /\ edits' = edits + 1
    /\ body' \in (Versions \cup {0}) \ {body}
    /\ UNCHANGED <<file, ask, step, gate, visits, unread, streak, granted, passed>>

-----------------------------------------------------------------------------
(* The gate. *)

\* Slip: a rejection the rework answered no longer holds the gate.
RejectedStopPending == {s \in Subjects : RejectionPending(file[s])}
\* rejectedStop: a rejection holds the gate until somebody approves.
RejectedStop == {s \in Subjects : RejectedNow(s)}
\* The run reaches its gate: a rejected subject stops it, the first of the list.
Reach ==
    /\ gate.at = "closed" /\ step = "done" /\ visits < MaxVisits /\ visits' = visits + 1
    /\ LET held == {s \in Subjects : RejectedNow(s)} IN
       IF RejectedStop # {}
       THEN \E s \in RejectedStop : gate' = [at |-> "stopped", held |-> held, on |-> s, saw |-> <<body, file>>]
       ELSE gate' = [Closed EXCEPT !.at = "pending", !.held = held]
    /\ UNCHANGED <<body, file, ask, step, edits, unread, streak, granted, passed>>
\* Slip: the gate asks whether somebody approved, not what.
PendingAny == Blocking /\ ~\E s \in Subjects : Verdict[body] = s /\ IsFreshAny(file[s])
\* computePending: the raw verdict, and no approval of these bytes under the
\* subject they offer.
Pending == Blocking /\ ~\E s \in Subjects : Verdict[body] = s /\ IsFresh(file[s])
Judge ==
    /\ gate.at = "pending"
    /\ IF Pending
       THEN gate' = [gate EXCEPT !.at = "stopped", !.on = Verdict[body], !.saw = <<body, file>>] /\ UNCHANGED passed
       ELSE /\ gate' = [gate EXCEPT !.at = "passed"]
            /\ passed' = [version |-> body, held |-> gate.held]
    /\ UNCHANGED <<body, file, ask, step, edits, visits, unread, streak, granted>>
\* The run is resumed: its rework step is admitted again, then its gate.
Resume ==
    /\ gate.at \in {"stopped", "passed"} /\ gate' = Closed /\ step' = "owed"
    /\ UNCHANGED <<body, file, ask, edits, visits, unread, streak, granted, passed>>

Init ==
    /\ body = 0 /\ file = [s \in Subjects |-> NoFile] /\ ask = [p \in People |-> NoAsk]
    /\ step = "new" /\ gate = Closed /\ edits = 0 /\ visits = 0
    /\ unread = [s \in Subjects |-> {}] /\ streak = [s \in Subjects |-> 0] /\ granted = {} /\ passed = [version |-> 0, held |-> {}]
Next ==
    \/ \E p \in People : Ask(p) \/ Validate(p) \/ Look(p) \/ Approval(p) \/ Rejection(p)
    \/ Admit \/ EndRework \/ Edit \/ Reach \/ Judge \/ Resume
Spec == Init /\ [][Next]_vars

-----------------------------------------------------------------------------
(* Properties. *)

\* A version that blocks passes the gate only when somebody who read those very
\* bytes approved them under the subject they offer, whatever was written to the
\* artifact and to the decision in between.
PassedOnApproval ==
    (passed.version # 0 /\ Verdict[passed.version] \notin {"ok", "bad"})
        => <<Verdict[passed.version], passed.version>> \in granted
\* A rejection holds the gate until somebody approves a new version, even one the
\* verdict lets through: no evaluation that began over a rejected subject passes.
RejectionHolds == passed.held = {}
\* Whoever is told by the gate which subject lifts it can answer: as long as
\* neither the artifact nor the decisions moved, the command is accepted and
\* validated (the hint and the guard agree).
NoDeadEnd ==
    (gate.at = "stopped" /\ gate.on \in Subjects /\ gate.saw = <<body, file>> /\ Readable) => GuardAccepts(gate.on)
\* The rework loop is bounded across runs, whoever rejects: of versions rejected
\* in a row, each by a command that had read the rejection before it, there are
\* no more than MaxRounds.  A rejection written unread starts the count again:
\* see RoundsCounted.
RoundsBounded == \A s \in Subjects : streak[s] <= MaxRounds
\* The same approval reaches the runner from several hands, and hands on the
\* artifact in between: the author of an approval is never replaced by whoever
\* repeats it, except by a command that overlaps and had read the file before
\* that approval was written: see AuthorAlwaysKept.
AuthorKept ==
    \A s \in Subjects :
      (Approved(file[s]) /\ Approved(file'[s]) /\ file[s].sha = file'[s].sha /\ file'[s].by # file[s].by)
          => file'[s].by \in unread[s]

\* Contradicted by commands that overlap, and checked by no run.
\* recordApproval (decisions.ts:123): rewriting "would replace the person who
\* decided with whoever repeated it".
AuthorAlwaysKept ==
    \A s \in Subjects :
      (Approved(file[s]) /\ Approved(file'[s]) /\ file[s].sha = file'[s].sha)
          => file'[s].by = file[s].by
\* recordRejection (decisions.ts:150): "rejecting reworked bytes opens the next round".
RoundsCounted ==
    \A s \in Subjects :
      (file[s].decision = "rejected" /\ file'[s].decision = "rejected" /\ file[s].sha # file'[s].sha)
          => file'[s].round = file[s].round + 1
=============================================================================
