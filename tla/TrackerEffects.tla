--------------------------- MODULE TrackerEffects ---------------------------
(***************************************************************************)
(* What a run does to the ticket it works on, and what is left of it when  *)
(* calls fail, answers get lost, the runner dies or a person intervenes.   *)
(*                                                                         *)
(* Models src/definition/builtin-steps/lib/work-item-steps.ts and          *)
(* work-item-notes.ts, the escalation and gate that human-review.ts builds *)
(* from them, the gateways of src/work-items/providers/adapters over the   *)
(* command runner of process/runner.ts, src/contracts/note.ts, and the     *)
(* part of the step loop that decides which step a resume reconsiders.     *)
(*                                                                         *)
(* One run of one pipeline works on one ticket: a review (escalation, then *)
(* gate), the work, and the delivery.  A ticket is the set of queues and   *)
(* states it carries and its comments; a state is a label on GitHub and    *)
(* the status on Jira.  Of a comment we keep who wrote it and whose marker *)
(* it contains.  The reviewed artifact is absent, unreadable, fine, or     *)
(* blocks the run; "odd" blocks too, but the pipeline's own callback makes *)
(* no valid note of it.  Each command of gh or acli is one step: it        *)
(* succeeds, is refused, or takes effect without saying so (a deadline, a  *)
(* lost connection).  Approvals are the subject of module Approvals: here  *)
(* a person lifts the block by rewriting the artifact.                     *)
(***************************************************************************)
EXTENDS Naturals, Sequences, SequencesExt, FiniteSets

CONSTANTS Provider,      \* "github" or "jira"
          Reconcile,     \* the pipeline declares .reconcile()
          Reruns,        \* the steps that declare rerunOnResume
          UrlDeclared,   \* the delivery has an mrUrl callback
          Artifacts,     \* what the reviewed artifact may hold
          BusyEdits,     \* TRUE: the artifact may also change during a pass
          Quotes,        \* TRUE: a person may quote a note in a comment
          MaxPasses, MaxFaults, MaxCrashes, MaxEdits

From == "bugTodo"
Queues == {From, "done", "escalate"}
States == {"todo", "inReview"}
Pipe == <<"escalate", "gate", "work", "deliver">>
Steps == Range(Pipe)
Publishers == {"escalate", "deliver"}
Values == {"absent", "bad", "fine", "blocks", "odd"}

TrackerAssumption ==
  /\ Provider \in {"github", "jira"} /\ Reruns \subseteq Steps /\ Artifacts \subseteq Values
  /\ {Reconcile, UrlDeclared, BusyEdits, Quotes} \subseteq BOOLEAN
  /\ {MaxPasses, MaxFaults, MaxCrashes, MaxEdits} \subseteq Nat

VARIABLES
  tags,      \* the queues and the states the ticket carries
  comments,  \* its comments, in order: [by, mark]
  artifact,  \* what the artifact under review holds
  pc,        \* what the process of the run does next, "off" when there is none
  at,        \* the step it is at, an index of Pipe
  status,    \* the status of each step; "running" when a process died in it
  errors,    \* the steps whose failure was absorbed as a warning
  mem,       \* what the process remembers: see Fresh
  stopped,   \* the gate ended the last pass, and the ticket was not put back since
  crossed,   \* a person moved the ticket under a move, or under the gate
  left       \* how many more passes, faults, crashes and edits there may be

vars == <<tags, comments, artifact, pc, at, status, errors, mem, stopped, crossed, left>>
ticket == <<tags, comments>>
run == <<status, errors, stopped>>

(* resuming, replay: of the invocation.  value: the verdict the escalation *)
(* resolved.  note, move: "none", "ok" or "failed".  todo: the commands    *)
(* left of the move, seen: the tags it works from, hurt: what befell its   *)
(* calls.                                                                  *)
Fresh == [resuming |-> FALSE, replay |-> FALSE, value |-> "absent", note |-> "none", move |-> "none",
          todo |-> <<>>, seen |-> {}, hurt |-> {}]

Init ==
  /\ tags = {From, "todo"} /\ comments = <<>>
  /\ artifact \in Artifacts
  /\ pc = "off" /\ at = 1
  /\ status = [s \in Steps |-> "pending"] /\ errors = {}
  /\ mem = Fresh /\ stopped = FALSE /\ crossed = FALSE
  /\ left = [passes |-> MaxPasses, faults |-> MaxFaults, crashes |-> MaxCrashes, edits |-> MaxEdits]

Here == Pipe[at]
Spend(what) == left[what] > 0 /\ left' = [left EXCEPT ![what] = @ - 1]

-----------------------------------------------------------------------------
(* Notes.                                                                  *)

Blocks(v) == v \in {"blocks", "odd"}

(* The callback of the pipeline, validated: an odd value makes no note.    *)
NoteValid(step, v) == step = "escalate" => v # "odd"

(* A replay has the same key, so the same marker.                          *)
SlipHasMarker(c, step) == c.by = "run" /\ c.mark = "attempt"
HasMarker(c, step) == c.mark = step

SlipIsPipelineNote(c) == c.mark = "escalate"
IsPipelineNote(c) == c.mark # "none"

Published(step) == \E i \in DOMAIN comments : HasMarker(comments[i], step)

(* What the next ticket.md holds of the comments.                          *)
HumanComments == SelectSeq(comments, LAMBDA c : ~IsPipelineNote(c))

-----------------------------------------------------------------------------
(* Moves.                                                                  *)

Target(step) == IF step = "escalate" THEN "escalate" ELSE "done"
Command(kind, tag) == [kind |-> kind, tag |-> tag]

SlipSetState(target) ==
  IF Provider = "jira" THEN <<Command("transition", target)>>
  ELSE <<Command("add", target), Command("remove", CHOOSE s \in States : s # target)>>
SetState(target) ==
  IF Provider = "jira" THEN <<Command("transition", target)>>
  ELSE <<Command("remove", CHOOSE s \in States : s # target), Command("add", target)>>

SlipPlanMove(step) ==
  <<Command("remove", From), Command("add", Target(step))>>
    \o (IF step = "deliver" THEN SetState("inReview") ELSE <<>>)
PlanMove(step) ==
  <<Command("add", Target(step)), Command("remove", From)>>
    \o (IF step = "deliver" THEN SetState("inReview") ELSE <<>>)

Compliant(c, seen) == IF c.kind = "remove" THEN c.tag \notin seen ELSE c.tag \in seen

Effect(c, seen) ==
  CASE c.kind = "add" -> seen \union {c.tag}
    [] c.kind = "remove" -> seen \ {c.tag}
    [] OTHER -> (seen \ States) \union {c.tag}

(* A failed command is checked against the ticket before it is reported;   *)
(* Jira's label addition is not.                                           *)
SlipReconciled(c) == FALSE
Reconciled(c) == Provider = "github" \/ c.kind # "add"

Moved(step) ==
  /\ Target(step) \in tags /\ From \notin tags
  /\ step = "deliver" => tags \intersect States = {"inReview"}

(* What a scan of the queue would hand out.                                *)
Candidate == {From, "todo"} \subseteq tags

-----------------------------------------------------------------------------
(* The pass over the steps.                                                *)

Settled(s) == status[s] \in {"done", "skipped"}

(* An invocation resumes the run, or starts one when the last has passed.  *)
Start ==
  /\ pc = "off" /\ Spend("passes")
  /\ \E replay \in BOOLEAN :
       mem' = [Fresh EXCEPT !.resuming = \E s \in Steps : status[s] # "pending" /\ \E t \in Steps : ~Settled(t),
                            !.replay = replay]
  /\ IF \A s \in Steps : Settled(s)
     THEN status' = [s \in Steps |-> "pending"] /\ errors' = {}
     ELSE UNCHANGED <<status, errors>>
  /\ pc' = "walk" /\ at' = 1 /\ stopped' = FALSE
  /\ UNCHANGED <<tags, comments, artifact, crossed>>

Next_(step) == IF step = Len(Pipe) THEN pc' = "off" /\ at' = 1 ELSE pc' = "walk" /\ at' = step + 1

SlipPassesOver(s) == Settled(s) /\ ~(mem.resuming /\ s \in Reruns /\ status[s] = "done")
PassesOver(s) ==
  LET reconsider == mem.resuming /\ s \in Reruns IN
    \/ status[s] = "skipped" /\ ~(reconsider /\ Reconcile)
    \/ status[s] = "done" /\ ~reconsider

PassOver ==
  /\ pc = "walk" /\ PassesOver(Here)
  /\ Next_(at)
  /\ UNCHANGED <<ticket, artifact, run, mem, crossed, left>>

Admitted == pc = "walk" /\ ~PassesOver(Here)
Interrupted == status[Here] = "running" /\ Here \notin Reruns /\ ~mem.replay

StopPass == pc' = "off" /\ at' = 1

(* The runner died in this step and nobody said that it may run again.     *)
Refuse ==
  /\ Admitted /\ Interrupted
  /\ StopPass
  /\ UNCHANGED <<ticket, artifact, run, mem, crossed, left>>

(* Nothing to escalate: what was done stays done.                          *)
SkipEscalation ==
  /\ Admitted /\ Here = "escalate" /\ ~Blocks(artifact)
  /\ status' = [status EXCEPT ![Here] = IF @ = "done" THEN "done" ELSE "skipped"]
  /\ Next_(at)
  /\ UNCHANGED <<ticket, artifact, errors, stopped, mem, crossed, left>>

SlipBegin ==
  /\ Admitted /\ Here \in Publishers /\ ~Interrupted
  /\ Here = "escalate" => Blocks(artifact)
  /\ mem' = [Fresh EXCEPT !.resuming = mem.resuming, !.replay = mem.replay, !.value = artifact]
  /\ pc' = "build"
  /\ UNCHANGED <<ticket, artifact, at, run, crossed, left>>
Begin ==
  /\ Admitted /\ Here \in Publishers /\ ~Interrupted
  /\ Here = "escalate" => Blocks(artifact)
  /\ status' = [status EXCEPT ![Here] = "running"] /\ errors' = errors \ {Here}
  /\ mem' = [Fresh EXCEPT !.resuming = mem.resuming, !.replay = mem.replay, !.value = artifact]
  /\ pc' = "build"
  /\ UNCHANGED <<ticket, artifact, at, stopped, crossed, left>>

Gate ==
  /\ Admitted /\ Here = "gate"
  /\ IF Blocks(artifact) THEN StopPass /\ stopped' = TRUE /\ UNCHANGED status
     ELSE Next_(at) /\ status' = [status EXCEPT !["gate"] = "done"] /\ UNCHANGED stopped
  /\ UNCHANGED <<ticket, artifact, errors, mem, crossed, left>>

(* Whatever the pipeline does between the review and the delivery.         *)
Work ==
  /\ Admitted /\ Here = "work" /\ ~Interrupted
  /\ \/ Next_(at) /\ status' = [status EXCEPT !["work"] = "done"]
     \/ StopPass /\ status' = [status EXCEPT !["work"] = "failed"]
  /\ UNCHANGED <<ticket, artifact, errors, stopped, mem, crossed, left>>

-----------------------------------------------------------------------------
(* The two steps that write to the ticket: note, then move, whatever       *)
(* became of the note.                                                     *)

At(where, m) == pc' = where /\ mem' = m
SlipNoteEnds(how, hurt) ==
  At(IF how = "failed" THEN "settle" ELSE "state", [mem EXCEPT !.note = how, !.hurt = @ \union hurt])
NoteEnds(how, hurt) == At("state", [mem EXCEPT !.note = how, !.hurt = @ \union hurt])
MoveEnds(how, hurt) == At("settle", [mem EXCEPT !.move = how, !.hurt = @ \union hurt])

(* mrUrl may throw: the note then goes out without a link and the failure  *)
(* is kept; a note the escalation cannot build ends the step.              *)
Build ==
  /\ pc = "build"
  /\ \/ ~NoteValid(Here, mem.value) /\ At("settle", [mem EXCEPT !.note = "failed"]) /\ UNCHANGED left
     \/ /\ NoteValid(Here, mem.value) /\ (Here = "deliver" => UrlDeclared)
        /\ At("notes", mem) /\ UNCHANGED left
     \/ /\ Here = "deliver" /\ UrlDeclared
        /\ Spend("faults") /\ At("notes", [mem EXCEPT !.hurt = {"url"}])
     \/ Here = "deliver" /\ ~UrlDeclared /\ At("state", mem) /\ UNCHANGED left
  /\ UNCHANGED <<ticket, artifact, at, run, crossed>>

(* The comments are read first: a note that is there is not written again. *)
SlipReadNotes ==
  /\ pc = "notes"
  /\ \/ At("write", mem) /\ UNCHANGED left
     \/ Spend("faults") /\ At("write", mem)
  /\ UNCHANGED <<ticket, artifact, at, run, crossed>>
ReadNotes ==
  /\ pc = "notes"
  /\ \/ IF Published(Here) THEN NoteEnds("ok", {}) /\ UNCHANGED left ELSE At("write", mem) /\ UNCHANGED left
     \/ Spend("faults") /\ NoteEnds("failed", {})
  /\ UNCHANGED <<ticket, artifact, at, run, crossed>>

WriteNote ==
  /\ pc = "write"
  /\ \E outcome \in {"ok", "lost", "refused"} :
       /\ comments' = IF outcome = "refused" THEN comments ELSE Append(comments, [by |-> "run", mark |-> Here])
       /\ IF outcome = "ok" THEN NoteEnds("ok", {}) /\ UNCHANGED left
          ELSE Spend("faults") /\ NoteEnds("failed", {})
  /\ UNCHANGED <<tags, artifact, at, run, crossed>>

SlipReadState ==
  /\ pc = "state"
  /\ At("move", [mem EXCEPT !.seen = {From}, !.todo = PlanMove(Here)])
  /\ UNCHANGED <<ticket, artifact, at, run, crossed, left>>
ReadState ==
  /\ pc = "state"
  /\ \/ At("move", [mem EXCEPT !.seen = tags, !.todo = PlanMove(Here)]) /\ UNCHANGED left
     \/ Spend("faults") /\ MoveEnds("failed", {"refused"})
  /\ UNCHANGED <<ticket, artifact, at, run, crossed>>

(* Compliance is judged on what was read when the move began.              *)
NextCommand ==
  /\ pc = "move"
  /\ IF mem.todo = <<>> THEN MoveEnds("ok", {})
     ELSE IF Compliant(Head(mem.todo), mem.seen) THEN At("move", [mem EXCEPT !.todo = Tail(@)])
     ELSE At("send", mem)
  /\ UNCHANGED <<ticket, artifact, at, run, crossed, left>>

Send ==
  /\ pc = "send"
  /\ LET c == Head(mem.todo) IN
     \E outcome \in {"ok", "lost", "refused"} :
       /\ tags' = IF outcome = "refused" THEN tags ELSE Effect(c, tags)
       /\ IF outcome = "ok"
          THEN At("move", [mem EXCEPT !.seen = Effect(c, @), !.todo = Tail(@)]) /\ UNCHANGED left
          ELSE /\ Spend("faults")
               /\ IF Reconciled(c) THEN At("check", [mem EXCEPT !.hurt = @ \union {outcome}])
                  ELSE MoveEnds("failed", {outcome})
  /\ UNCHANGED <<comments, artifact, at, run, crossed>>

(* The failed command took effect after all, or it did not.                *)
SlipCheck ==
  /\ pc = "check"
  /\ At("move", [mem EXCEPT !.seen = Effect(Head(mem.todo), @), !.todo = Tail(@)]) /\ UNCHANGED left
  /\ UNCHANGED <<ticket, artifact, at, run, crossed>>
Check ==
  /\ pc = "check"
  /\ \/ /\ IF Compliant(Head(mem.todo), tags) THEN At("move", [mem EXCEPT !.seen = tags, !.todo = Tail(@)])
           ELSE MoveEnds("failed", {})
        /\ UNCHANGED left
     \/ Spend("faults") /\ MoveEnds("failed", {"refused"})
  /\ UNCHANGED <<ticket, artifact, at, run, crossed>>

(* The step does not block: its failure is a warning and the run goes on.  *)
Failed == "failed" \in {mem.note, mem.move} \/ "url" \in mem.hurt
Settle ==
  /\ pc = "settle"
  /\ status' = [status EXCEPT ![Here] = "done"]
  /\ errors' = IF Failed THEN errors \union {Here} ELSE errors
  /\ Next_(at)
  /\ UNCHANGED <<ticket, artifact, stopped, mem, crossed, left>>

-----------------------------------------------------------------------------
(* What happens to the run, and what people do.                            *)

Crash ==
  /\ pc # "off" /\ Spend("crashes")
  /\ StopPass
  /\ UNCHANGED <<ticket, artifact, run, mem, crossed>>

Rewrite ==
  /\ pc = "off" \/ BusyEdits
  /\ Spend("edits")
  /\ \E v \in Artifacts \ {artifact} : artifact' = v
  /\ UNCHANGED <<ticket, pc, at, run, mem, crossed>>

(* A person puts the ticket back in its queue.                             *)
Requeue ==
  /\ tags # {From, "todo"} /\ Spend("edits")
  /\ tags' = {From, "todo"}
  /\ crossed' = (crossed \/ pc \in {"move", "send", "check", "settle"} \/ (pc = "walk" /\ at > 1))
  /\ stopped' = FALSE
  /\ UNCHANGED <<comments, artifact, pc, at, status, errors, mem>>

Answer ==
  /\ Spend("edits")
  /\ \E mark \in {"none"} \union (IF Quotes THEN {s \in Publishers : Published(s)} ELSE {}) :
       comments' = Append(comments, [by |-> "person", mark |-> mark])
  /\ UNCHANGED <<tags, artifact, pc, at, run, mem, crossed>>

Next == \/ Start \/ PassOver \/ Refuse \/ SkipEscalation \/ Begin \/ Gate \/ Work
        \/ Build \/ ReadNotes \/ WriteNote \/ ReadState \/ NextCommand \/ Send \/ Check \/ Settle
        \/ Crash \/ Rewrite \/ Requeue \/ Answer

Spec == Init /\ [][Next]_vars

-----------------------------------------------------------------------------
(* The ticket carries known queues and states, a status on Jira, and the   *)
(* process is at a step whose status says so.                              *)
TypeOK ==
  /\ tags \subseteq Queues \union States
  /\ Provider = "jira" => Cardinality(tags \intersect States) = 1
  /\ \A i \in DOMAIN comments : comments[i].by \in {"run", "person"} /\ comments[i].mark \in Publishers \union {"none"}
  /\ artifact \in Artifacts
  /\ pc \in {"off", "walk", "build", "notes", "write", "state", "move", "send", "check", "settle"}
  /\ pc \notin {"off", "walk"} => Here \in Publishers /\ status[Here] = "running"
  /\ status \in [Steps -> {"pending", "running", "done", "skipped", "failed"}]
  /\ errors \subseteq Publishers
  /\ stopped \in BOOLEAN /\ crossed \in BOOLEAN

(* Over retries, resumes, deaths, lost answers and new runs of the ticket, *)
(* a step publishes its note once.                                         *)
NoteOnce ==
  \A s \in Publishers : Len(SelectSeq(comments, LAMBDA c : c = [by |-> "run", mark |-> s])) <= 1

(* Wherever the move is cut, the ticket is in some queue, unless a person  *)
(* moved it under the move.                                                *)
NeverOutOfQueues == crossed \/ tags \intersect Queues # {}

(* At no moment does an issue carry both state labels, unless a person     *)
(* moved it under the move.                                                *)
NotBothStates == crossed \/ ~(States \subseteq tags)

(* A command is only sent for what the ticket still lacks, so that a       *)
(* replay completes what an earlier pass left and repeats nothing.         *)
OnlyMissingIsSent ==
  /\ pc = "write" => ~Published(Here)
  /\ pc = "send" /\ ~crossed => ~Compliant(Head(mem.todo), tags)

(* When a step settles: a note and a move reported as done are there; and  *)
(* a move that met no refusal is done even when the note failed, on GitHub *)
(* even when answers were lost.                                            *)
ToldAsItIs ==
  pc = "settle" =>
    /\ mem.note = "ok" => \E i \in DOMAIN comments : comments[i] = [by |-> "run", mark |-> Here]
    /\ mem.move = "ok" /\ ~crossed => Moved(Here)
    /\ (/\ ~crossed /\ NoteValid(Here, mem.value)
        /\ (mem.hurt \ {"url"}) \subseteq (IF Provider = "github" THEN {"lost"} ELSE {}))
       => mem.move = "ok"

(* The comments the next run reads are those that people wrote.            *)
AnswersReach == HumanComments = SelectSeq(comments, LAMBDA c : c.by = "person")

(* A gate that stopped the run stands on a ticket that was escalated: the  *)
(* note is there and no scan hands the ticket out, or a warning says why   *)
(* not.                                                                    *)
StopIsAnnounced ==
  stopped /\ "escalate" \notin errors /\ ~crossed => Published("escalate") /\ ~Candidate

(* A failed note does not keep the ticket in the work queue: when the      *)
(* tracker answered every call, the settled step leaves no candidate.      *)
NoteNeverHolds ==
  pc = "settle" /\ mem.hurt = {} /\ mem.move # "failed" /\ ~crossed => ~Candidate

=============================================================================
