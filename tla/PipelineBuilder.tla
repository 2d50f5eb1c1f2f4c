--------------------------- MODULE PipelineBuilder ---------------------------
(***************************************************************************)
(* The builders a pipeline is written with.                                *)
(*                                                                         *)
(*   src/definition/dsl/dsl-pipeline.ts       the builder of a pipeline    *)
(*   src/definition/dsl/dsl-steps.ts          the builders of its steps    *)
(*   src/definition/dsl/work-item-assembly.ts what a step declares of the  *)
(*                                            pipeline it is added to      *)
(*                                                                         *)
(* An author calls the methods of the builder in any order, at most        *)
(* MaxCalls of them, and a call that throws ends the load of the pipeline. *)
(* A declaration is a member of Catalog; texts, schemas, prompts and the   *)
(* shapes TypeScript already excludes are left out.                        *)
(***************************************************************************)
EXTENDS Naturals, Sequences, FiniteSets, SequencesExt

CONSTANTS
  Catalog,        \* the step declarations an author may add
  DefaultBackend, \* the provider of a repair that names none
  Providers,      \* the providers a resumed session may live on
  MaxCalls        \* the longest sequence of calls

VARIABLES
  mode,       \* "empty", "simple" or "workItem"
  definition, \* the pipeline being defined: its budgets, its source, reconcile
  builders,   \* the step declarations appended so far
  approvals,  \* subject -> the artifact it binds
  guards,     \* the subjects a gate guards
  reworks,    \* the rework loops the gates declare
  calls,      \* the calls made
  outcome,    \* "writing", "threw" or "built"
  built       \* the steps of the built pipeline

vars == <<mode, definition, builders, approvals, guards, reworks, calls, outcome, built>>

None == [none |-> TRUE]
Absent == 99  \* retries the author left out
----------------------------------------------------------------------------
(* One step                                                                *)

Retries(policy) == IF policy.retries = Absent THEN 1 ELSE policy.retries

\* What onFail refuses as soon as it is called.
PolicyThrows(policy) ==
  IF policy = None THEN FALSE
  ELSE \/ ~policy.fix /\ policy.resume # ""
       \/ policy.fix /\ policy.retries = 0

\* The failure policy of a declaration: what belongs to a repair is dropped
\* without one, and Claude options wait for the backend of the repair.
OnFail(policy) ==
  IF policy = None THEN None
  ELSE IF ~policy.fix THEN [fix |-> FALSE, retries |-> Retries(policy), resume |-> "", fixBackend |-> "",
                            options |-> "none", pending |-> FALSE, extracted |-> FALSE, replay |-> TRUE]
  ELSE [fix |-> TRUE, retries |-> Retries(policy), resume |-> policy.resume, fixBackend |-> policy.fixBackend,
        options |-> IF policy.options THEN "author" ELSE "none",
        pending |-> policy.claude /\ ~policy.options,
        extracted |-> policy.extracted, replay |-> policy.replay]

BackendForFix(d) ==
  IF d.backend # "" THEN d.backend
  ELSE IF d.policy # None /\ d.policy.fixBackend # "" THEN d.policy.fixBackend ELSE DefaultBackend

SlipStepBuilt(d) ==
  LET failure == OnFail(d.policy) IN
  [id |-> d.id, runner |-> d.runner, backend |-> d.backend, outputs |-> d.outputs, rerun |-> d.rerun,
   source |-> d.source, reworkFor |-> {},
   failure |-> IF failure # None /\ failure.pending THEN [failure EXCEPT !.options = "claude"] ELSE failure]

StepBuilt(d) ==
  LET failure == OnFail(d.policy) IN
  [id |-> d.id, runner |-> d.runner, backend |-> d.backend, outputs |-> d.outputs, rerun |-> d.rerun,
   source |-> d.source, reworkFor |-> {},
   failure |-> IF failure # None /\ failure.pending /\ BackendForFix(d) = "claude"
               THEN [failure EXCEPT !.options = "claude"] ELSE failure]

\* What validatePipelineStep refuses of a built step.
StepThrows(d) ==
  LET failure == OnFail(d.policy) IN
  \/ d.captures # {} /\ d.runner # "agent"
  \/ d.inputs # {} /\ d.outputs = {}
  \/ /\ failure # None
     /\ \/ d.backend # "" /\ failure.fixBackend # ""
        \/ failure.extracted /\ ~d.extractor
        \/ ~failure.replay /\ (d.blocking \/ failure.retries # 1)

\* A captured artifact is one of the outputs, once.
SlipDeclared(d) == d
Declared(d) == [d EXCEPT !.outputs = d.outputs \cup d.captures]
----------------------------------------------------------------------------
(* Appending a step                                                        *)

Subjects(d) == IF d.approval = None THEN {} ELSE ToSet(d.approval.subjects)

\* A subject a gate guards is declared once; any subject binds one artifact.
SlipApprovalThrows(subject, artifact, guarded) ==
  subject \in DOMAIN approvals /\ approvals[subject] # artifact

ApprovalThrows(subject, artifact, guarded) ==
  \/ guarded /\ subject \in DOMAIN approvals
  \/ subject \in guards
  \/ subject \in DOMAIN approvals /\ approvals[subject] # artifact

AppendThrows(d) ==
  \/ PolicyThrows(d.policy)
  \/ \E subject \in Subjects(d) : ApprovalThrows(subject, d.approval.artifact, d.approval.guarded)
  \/ d.approval # None /\ d.approval.guarded /\ ~IsInjective(d.approval.subjects)
  \/ d.source # "" /\ definition.source # ""

SlipAppend1(d) ==
  /\ builders' = Append(builders, Declared(d))
  /\ approvals' = approvals
  /\ guards' = IF d.approval # None /\ d.approval.guarded THEN guards \cup Subjects(d) ELSE guards
  /\ reworks' = reworks

Append1(d) ==
  /\ builders' = Append(builders, Declared(d))
  /\ approvals' = [s \in DOMAIN approvals \cup Subjects(d) |->
                     IF s \in Subjects(d) THEN d.approval.artifact ELSE approvals[s]]
  /\ guards' = IF d.approval # None /\ d.approval.guarded THEN guards \cup Subjects(d) ELSE guards
  /\ reworks' = IF d.approval # None /\ d.approval.rework # ""
                THEN Append(reworks, [gate |-> Len(builders) + 1, subjects |-> Subjects(d),
                                      artifact |-> d.approval.artifact, step |-> d.approval.rework])
                ELSE reworks
----------------------------------------------------------------------------
(* The calls of the author                                                 *)

Init ==
  /\ mode = "empty" /\ builders = <<>> /\ approvals = <<>> /\ guards = {} /\ reworks = <<>>
  /\ definition = [maxCost |-> FALSE, perItem |-> FALSE, source |-> "", reconcile |-> FALSE]
  /\ calls = 0 /\ outcome = "writing" /\ built = <<>>

Call == outcome = "writing" /\ calls < MaxCalls /\ calls' = calls + 1 /\ built' = built
Kept == UNCHANGED <<builders, approvals, guards, reworks>>
Throw == outcome' = "threw" /\ Kept /\ UNCHANGED <<mode, definition>>

SlipMaxCost ==
  /\ Call /\ Kept
  /\ definition' = [definition EXCEPT !.maxCost = TRUE]
  /\ mode' = IF mode = "workItem" THEN mode ELSE "simple"
  /\ UNCHANGED outcome

MaxCost ==
  /\ Call
  /\ IF mode = "workItem" THEN Throw
     ELSE /\ definition' = [definition EXCEPT !.maxCost = TRUE]
          /\ mode' = "simple"
          /\ UNCHANGED outcome /\ Kept

Add(d) ==
  /\ Call /\ d.source = ""
  /\ IF mode = "workItem" \/ AppendThrows(d) THEN Throw
     ELSE Append1(d) /\ mode' = "simple" /\ UNCHANGED <<definition, outcome>>

\* The loop puts the source step first and then one step of its body.
ForEachWorkItem(source, d, perItem) ==
  /\ Call /\ source.source # "" /\ d.source = ""
  /\ IF mode # "empty" \/ AppendThrows(d) THEN Throw
     ELSE /\ mode' = "workItem"
          /\ definition' = [definition EXCEPT !.source = source.id, !.perItem = perItem]
          /\ builders' = <<Declared(source), Declared(d)>>
          /\ approvals' = [s \in Subjects(d) |-> d.approval.artifact]
          /\ guards' = IF d.approval # None /\ d.approval.guarded THEN Subjects(d) ELSE {}
          /\ reworks' = IF d.approval # None /\ d.approval.rework # ""
                        THEN <<[gate |-> 2, subjects |-> Subjects(d), artifact |-> d.approval.artifact,
                                step |-> d.approval.rework]>> ELSE <<>>
          /\ UNCHANGED outcome

Reconcile ==
  /\ Call /\ Kept
  /\ definition' = [definition EXCEPT !.reconcile = TRUE]
  /\ UNCHANGED <<mode, outcome>>

Approval(subject, artifact) ==
  /\ Call
  /\ IF ApprovalThrows(subject, artifact, FALSE) THEN Throw
     ELSE /\ approvals' = [s \in DOMAIN approvals \cup {subject} |->
                             IF s = subject THEN artifact ELSE approvals[s]]
          /\ UNCHANGED <<mode, definition, builders, guards, reworks, outcome>>
----------------------------------------------------------------------------
(* Building                                                                *)

\* Reconcile mode has nothing to decide on such a step.
Undeliverable(steps) ==
  {i \in DOMAIN steps : /\ steps[i].runner # "pipeline" /\ steps[i].id # definition.source
                        /\ steps[i].outputs = {} /\ ~steps[i].rerun}

\* The first step that bears the id a gate reworks, 0 when there is none.
ReworkTarget(steps, rework) == SelectInSeq(steps, LAMBDA s : s.id = rework.step)

SlipReworkThrows(steps, rework) ==
  LET target == ReworkTarget(steps, rework)
  IN target = 0 \/ rework.artifact \notin steps[target].outputs

ReworkThrows(steps, rework) ==
  LET target == ReworkTarget(steps, rework)
  IN target = 0 \/ target > rework.gate \/ rework.artifact \notin steps[target].outputs

\* The steps, each with the subjects it reworks.
SlipBound(steps) == steps
Bound(steps) ==
  [i \in DOMAIN steps |->
     [steps[i] EXCEPT !.reworkFor =
        UNION {reworks[r].subjects : r \in {r \in DOMAIN reworks : ReworkTarget(steps, reworks[r]) = i}}]]

SlipBuildThrows(steps) ==
  \/ builders = <<>>
  \/ \E i \in DOMAIN builders : StepThrows(builders[i])
  \/ \E r \in DOMAIN reworks : ReworkThrows(steps, reworks[r])

BuildThrows(steps) ==
  \/ builders = <<>>
  \/ \E i \in DOMAIN builders : StepThrows(builders[i])
  \/ definition.reconcile /\ Undeliverable(steps) # {}
  \/ \E r \in DOMAIN reworks : ReworkThrows(steps, reworks[r])

Build ==
  /\ outcome = "writing"
  /\ LET steps == [i \in DOMAIN builders |-> StepBuilt(builders[i])] IN
     IF BuildThrows(steps) THEN Throw /\ UNCHANGED <<calls, built>>
     ELSE /\ built' = Bound(steps)
          /\ outcome' = "built"
          /\ Kept /\ UNCHANGED <<mode, definition, calls>>

Next ==
  \/ MaxCost
  \/ \E d \in Catalog : Add(d)
  \/ \E s \in {c \in Catalog : c.source # ""}, d \in Catalog, p \in BOOLEAN : ForEachWorkItem(s, d, p)
  \/ Reconcile
  \/ \E d \in Catalog : \E s \in Subjects(d) : \E e \in Catalog : \E a \in e.outputs : Approval(s, a)
  \/ Build

Spec == Init /\ [][Next]_vars
----------------------------------------------------------------------------
(* The repair at run time (execution/step/fix-loop-runtime.ts)             *)

\* The provider and the options a repair runs with, by the provider of the
\* session it resumes ("" when there is none).
ChooseFixBackend(s, session) ==
  IF s.backend # "" THEN [provider |-> s.backend, options |-> s.failure.options]
  ELSE IF s.failure.fixBackend # "" THEN [provider |-> s.failure.fixBackend, options |-> s.failure.options]
  ELSE IF s.failure.resume = "" \/ session \in {"", DefaultBackend}
       THEN [provider |-> DefaultBackend, options |-> s.failure.options]
  ELSE [provider |-> session, options |-> "none"]
----------------------------------------------------------------------------
(* Properties                                                              *)

Done == outcome = "built"
Gates == {i \in DOMAIN builders : builders[i].approval # None}

\* The shape of the state while a pipeline is written.
TypeOK ==
  /\ mode \in {"empty", "simple", "workItem"}
  /\ outcome \in {"writing", "threw", "built"}
  /\ calls \in 0 .. MaxCalls
  /\ guards \subseteq DOMAIN approvals
  /\ \A r \in DOMAIN reworks : reworks[r].gate \in DOMAIN builders
  /\ Done => Len(built) = Len(builders)

\* The artifact an approval hashes is the one the gate that reads it reviews,
\* whatever other gate or call declared the subject, and a subject its gate
\* guards is accepted by no other declaration (dsl-pipeline.ts approval,
\* appendStep).
SubjectsBindTheirGate ==
  Done => \A g \in Gates : \A s \in Subjects(builders[g]) :
    /\ s \in DOMAIN approvals /\ approvals[s] = builders[g].approval.artifact
    /\ builders[g].approval.guarded =>
         s \in guards /\ \A h \in Gates \ {g} : s \notin Subjects(builders[h])

\* A rejection of a subject replays a step declared before the gate that will
\* ask again, and that step writes the artifact the gate reviews (bindReworks).
RejectionIsAnswered ==
  Done => \A r \in DOMAIN reworks : \A s \in reworks[r].subjects :
    \E i \in 1 .. reworks[r].gate - 1 : /\ s \in built[i].reworkFor
                                        /\ reworks[r].artifact \in built[i].outputs

\* Options written for Claude only reach a repair that runs on Claude, wherever
\* the session a repair resumes lives (dsl-steps.ts onFail, build).
ClaudeOptionsReachClaude ==
  Done => \A i \in DOMAIN built : (built[i].failure # None /\ built[i].failure.options = "claude") =>
    \A session \in Providers \cup {""} :
      LET choice == ChooseFixBackend(built[i], session)
      IN choice.options = "claude" => choice.provider = "claude"

\* A pipeline has one budget at most, and the one of each work item only with
\* the loop that reads them, whose source is one of the steps.
BudgetsBelong ==
  Done => /\ ~(definition.maxCost /\ definition.perItem)
          /\ definition.perItem => definition.source # ""
          /\ definition.source # "" => \E i \in DOMAIN built : built[i].id = definition.source
          /\ Cardinality({i \in DOMAIN built : built[i].source # ""}) <= 1

\* Whatever the order of the calls, every step of a reconcile pipeline that the
\* author classifies has something the mode can decide on.
ReconcileDecides ==
  Done /\ definition.reconcile =>
    \A i \in DOMAIN built : \/ built[i].runner = "pipeline" \/ built[i].source # ""
                            \/ built[i].outputs # {} \/ built[i].rerun

\* Every artifact a capture persists is one the step delivers.
CapturesAreDelivered ==
  Done => \A i \in DOMAIN built : builders[i].captures \subseteq built[i].outputs
============================================================================
