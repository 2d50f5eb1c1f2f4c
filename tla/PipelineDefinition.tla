------------------------- MODULE PipelineDefinition -------------------------
(***************************************************************************)
(* How a pipeline definition is loaded: the chain of validation rules and  *)
(* the materialization of models and efforts that follows it.              *)
(*                                                                         *)
(*   src/definition/pipeline/loader.ts        the order of the load        *)
(*   src/definition/validation/*.ts           the rules of the chain       *)
(*   src/definition/dsl/profiles.ts           roles and fix roles          *)
(*   src/contracts/backends.ts                the registry of backends     *)
(*                                                                         *)
(* A behaviour starts from one authored pipeline.  Validate collects the   *)
(* findings of every rule and refuses the pipeline when there is one;      *)
(* otherwise each step takes its role (ApplyProfiles), then its overrides  *)
(* (ApplyOverrides), and either of them may still throw.                   *)
(*                                                                         *)
(* A model or an effort is a string, "" when absent.  Texts of findings,   *)
(* prompts and schemas are left out; a capability (a slash command or a    *)
(* delegated agent) is reduced to the axes its frontmatter imposes.        *)
(***************************************************************************)
EXTENDS Naturals, Sequences, FiniteSets, SequencesExt

CONSTANTS
  Registry,       \* backend id -> [supports, translates, structured, builds, names]
  DefaultBackend, \* the backend a fix without a backend of its own runs on
  ProfileConfig,  \* <<profile, backend>> -> axes, the "profiles" section
  StepConfig,     \* [pipeline, step] -> axes, the "steps" section
  Extractors,     \* the extractors found on disk
  Authored        \* the pipelines an author may have written

VARIABLES
  pipeline, \* the pipeline: name, money, reconcile and its steps
  phase,    \* "authored", "profiles", "overrides", "loaded", "refused", "threw"
  at,       \* the step being materialized
  why       \* what threw

vars == <<pipeline, phase, at, why>>

Axis == {"model", "effort"}
NoAxes == [model |-> "", effort |-> ""]
None == [none |-> TRUE]
ANY == "*"                           \* every pipeline
Every == [within |-> "", name |-> ANY]  \* every step
VerdictFields == {"success", "reason", "blocked"}
Runners == {"agent", "bash", "fn", "pipeline"}
StepProfiles == {"coder", "planner", "reviewer", "relay", "triage", "operator", "extractor"}

Steps == pipeline.steps
Ids(p) == {p.steps[i].id : i \in DOMAIN p.steps}
If(condition, finding) == IF condition THEN {finding} ELSE {}
----------------------------------------------------------------------------
(* Backends and roles                                                      *)

Has(backend) == backend \in DOMAIN Registry
IsAgent(s) == s.backend # "" \/ s.runner = "agent"

\* The backend that repairs a step: its own, else the one its policy names.
BackendForFix(s) ==
  IF s.backend # "" THEN s.backend
  ELSE IF s.fixBackend # "" THEN s.fixBackend ELSE DefaultBackend

\* The part of the options that lets an agent write, when its factory names it.
WriteGrant(s) == s.backend # "" /\ Has(s.backend) /\ s.grants /\ Registry[s.backend].names

\* The axes written in the options of a step, whatever wrote them.
Written(options) == {a \in Axis : options # None /\ options[a] # ""}

\* The policies the runner ships, by role and backend.
Builtin(profile, backend) ==
  LET opus(effort) == [model |-> "opus", effort |-> effort]
      sonnet == [model |-> "sonnet", effort |-> "low"]
      luna(effort) == [model |-> "luna", effort |-> effort]
      nemotron == [model |-> "nemotron", effort |-> "medium"]
  IN CASE backend = "claude" /\ profile \in {"coder", "planner", "reviewer"} -> opus("medium")
       [] backend = "claude" /\ profile = "triage" -> opus("high")
       [] backend = "claude" /\ profile \in {"relay", "operator"} -> sonnet
       [] backend = "claude" /\ profile = "extractor" -> [model |-> "haiku", effort |-> "low"]
       [] backend = "codex" /\ profile = "coder" -> luna("medium")
       [] backend = "codex" /\ profile = "reviewer" -> luna("high")
       [] backend = "codex" /\ profile = "extractor" -> luna("low")
       [] backend = "opencode" /\ profile \in {"triage", "extractor"} -> nemotron
       [] OTHER -> None

\* Axis by axis, the project's configuration over the shipped policy.
ResolveProfile(profile, backend) ==
  LET configured == IF <<profile, backend>> \in DOMAIN ProfileConfig
                    THEN ProfileConfig[<<profile, backend>>] ELSE None
      builtin == Builtin(profile, backend)
  IN IF configured = None THEN builtin
     ELSE [a \in Axis |-> IF configured[a] # "" \/ builtin = None THEN configured[a] ELSE builtin[a]]

\* The axes a backend can translate.
Applicable(backend, axes) ==
  [a \in Axis |-> IF a \in Registry[backend].supports THEN axes[a] ELSE ""]

\* A forked capability imposes nothing on the turn that hosts it.
Imposed(s) == IF s.forked THEN NoAxes ELSE s.capability

Minus(axes, imposed) == [a \in Axis |-> IF imposed[a] = "" THEN axes[a] ELSE ""]

\* The new axes over the ones already written.
ApplyAxes(options, axes) ==
  [a \in Axis |-> IF axes[a] # "" THEN axes[a] ELSE IF options = None THEN "" ELSE options[a]]
----------------------------------------------------------------------------
(* The rules of the chain: each is the set of its findings                 *)

Undeliverable(p) ==
  {i \in DOMAIN p.steps : /\ p.steps[i].runner # "pipeline"
                          /\ p.steps[i].outputs = {} /\ ~p.steps[i].rerun}

CaptureFindings(s) ==
  UNION {If(s.captures # <<>> /\ s.runner # "agent", "capture outside an agent"),
         If(\E i \in DOMAIN s.captures : s.captures[i].field \in VerdictFields, "reserved field"),
         If(\E i, j \in DOMAIN s.captures : i < j /\ \/ s.captures[i].field = s.captures[j].field
                                                     \/ s.captures[i].artifact = s.captures[j].artifact,
            "captured twice")}

FailureFindings(s) ==
  UNION {If(s.resume # None /\ ~s.fix, "resume without fix"),
         If(s.fix /\ s.retries = 0, "fix that never loops")}

StepFindings(s) ==
  UNION {If(s.runner \notin Runners, "unknown runner"),
         If(s.runner = "fn" /\ ~s.action, "fn without action"),
         If((s.runner = "pipeline") # s.orchestration, "orchestration"),
         If(s.runner = "pipeline" /\ s.sources # {}, "input of a composition"),
         If(s.sources # {} /\ s.outputs = {}, "input without output"),
         If(s.backend # "" /\ s.runner # "agent", "backend outside an agent"),
         CaptureFindings(s), FailureFindings(s)}

StructureFindings(p) ==
  IF p.steps = <<>> THEN {"no steps"}
  ELSE UNION {If(p.maxCost # 0 /\ p.perItem # 0, "two budgets"),
              If(p.reconcile /\ Undeliverable(p) # {}, "nothing delivered"),
              If(Cardinality(Ids(p)) # Len(p.steps), "duplicate id"),
              UNION {StepFindings(p.steps[i]) : i \in DOMAIN p.steps}}

BackendFindings(s) ==
  IF ~IsAgent(s) THEN {}
  ELSE UNION {If(s.backend = "", "agent without backend"),
              If(s.profile = "", "agent without profile"),
              If(s.backend # "" /\ Written(s.options) # {}, "axis in options"),
              If(s.backend # "" /\ Written(s.fixOptions) # {}, "axis in fix options"),
              If(s.backend # "" /\ ~Has(s.backend), "unknown backend")}

\* A backend whose factory refuses the options is passed over here.
OutputContractFindings(s) ==
  IF ~IsAgent(s) THEN {}
  ELSE IF ~s.json THEN {"agent without json"}
  ELSE If(Has(s.backend) /\ Registry[s.backend].builds /\ ~Registry[s.backend].structured,
          "no structured output")

ProfileFindings(s) ==
  If(/\ IsAgent(s) /\ s.profile # "" /\ Has(s.backend)
     /\ (s.profile \notin StepProfiles \/ ResolveProfile(s.profile, s.backend) = None),
     "profile without policy")

\* The first step that bears an id, 0 when there is none.
IndexOf(p, id) == SelectInSeq(p.steps, LAMBDA s : s.id = id)

SlipResumeFindings(p, i) ==
  LET target == IndexOf(p, p.steps[i].resume)
  IN IF p.steps[i].resume = None THEN {}
     ELSE IF target = 0 THEN {"resume of nothing"}
     ELSE If(target = i \/ p.steps[target].backend = "", "resume without session")

ResumeFindings(p, i) ==
  LET target == IndexOf(p, p.steps[i].resume)
  IN IF p.steps[i].resume = None THEN {}
     ELSE IF target = 0 THEN {"resume of nothing"}
     ELSE If(target = i \/ p.steps[target].backend = "" \/ target > i, "resume without session")

SlipEscalationFindings(p, i) == {}

EscalationFindings(p, i) ==
  LET s == p.steps[i]
      target == IndexOf(p, s.resume)
      provider == IF p.steps[target].backend = "" THEN DefaultBackend ELSE p.steps[target].backend
  IN IF s.resume = None \/ ~s.escalates \/ s.backend # "" \/ target = 0 THEN {}
     ELSE If(provider # DefaultBackend, "escalation on another provider")

SlipFixBackendFindings(s) ==
  IF s.fixBackend = "" THEN {}
  ELSE IF s.backend # "" THEN {"fix backend of an agent"}
  ELSE If(s.resume # None, "fix backend with a session")

FixBackendFindings(s) ==
  IF s.fixBackend = "" THEN {}
  ELSE IF s.backend # "" THEN {"fix backend of an agent"}
  ELSE UNION {If(~Has(s.fixBackend), "unknown fix backend"),
              If(s.resume # None, "fix backend with a session")}

ExtractorFindings(s) ==
  UNION {If(s.extractor # "" /\ s.extractor \notin Extractors, "unknown extractor"),
         If(s.reports # {} /\ s.extractor = "", "report without extractor")}

----------------------------------------------------------------------------
(* The members of a parallel group                                         *)

Groups(p) == {p.steps[i].group : i \in DOMAIN p.steps} \ {""}
Members(p, g) == {i \in DOMAIN p.steps : p.steps[i].group = g}

ShapeFindings(p, g) ==
  LET M == Members(p, g)
      first == CHOOSE i \in M : \A j \in M : i <= j
  IN UNION {If(Cardinality(M) < 2, "group of one"),
            If(M # first .. (first + Cardinality(M) - 1), "group in pieces"),
            If(\E i \in DOMAIN p.steps \ M : p.steps[i].id.name = g \/ p.steps[i].id.within = g,
               "stranger under the group's name")}

SlipMemberFindings(g, s) ==
  UNION {If(s.runner # "agent", "not an agent"),
         If(s.id.within # g, "not under the group's name"),
         If(s.rework, "rework step"),
         If(WriteGrant(s), "write grant")}

MemberFindings(g, s) ==
  UNION {If(s.runner # "agent", "not an agent"),
         If(s.id.within # g, "not under the group's name"),
         If(s.fix, "fix in a group"),
         If(s.rework, "rework step"),
         If(WriteGrant(s), "write grant")}

Reads(s) == {input.name : input \in {one \in s.sources : ~one.external}}

SlipBetweenFindings(p, M) ==
  UNION {IF i = j THEN {}
         ELSE UNION {If(p.steps[i].outputs \cap p.steps[j].outputs # {}, "shared output"),
                     If(p.steps[i].reports \cap p.steps[j].reports # {}, "shared report"),
                     If(i > j /\ Reads(p.steps[i]) \cap p.steps[j].outputs # {}, "reads a sibling")}
         : i, j \in M}

BetweenFindings(p, M) ==
  UNION {IF i = j THEN {}
         ELSE UNION {If(p.steps[i].outputs \cap p.steps[j].outputs # {}, "shared output"),
                     If(p.steps[i].reports \cap p.steps[j].reports # {}, "shared report"),
                     If(Reads(p.steps[i]) \cap p.steps[j].outputs # {}, "reads a sibling")}
         : i, j \in M}

GroupFindings(p) ==
  UNION {UNION {ShapeFindings(p, g),
                UNION {MemberFindings(g, p.steps[i]) : i \in Members(p, g)},
                BetweenFindings(p, Members(p, g))} : g \in Groups(p)}
----------------------------------------------------------------------------
(* The "profiles" and "steps" sections of the configuration                *)

\* The keys that reach a step, from the broadest to the exact one.
KeysFor(p, s) == <<[pipeline |-> ANY, step |-> Every],
                   [pipeline |-> p.name, step |-> Every],
                   [pipeline |-> p.name, step |-> s.id]>>

ProfileKeyFindings ==
  UNION {UNION {If(key[1] \notin StepProfiles, "unknown profile"),
                If(key[2] \notin DOMAIN Registry, "unknown backend in a profile")}
         : key \in DOMAIN ProfileConfig}

ExactKeyFindings(p) ==
  UNION {IF key.pipeline # p.name \/ key.step = Every THEN {}
         ELSE IF key.step \notin Ids(p) THEN {"key of no step"}
         ELSE If(~IsAgent(p.steps[IndexOf(p, key.step)]), "key of a step without axes")
         : key \in DOMAIN StepConfig}

\* One key on one step: an exact key is judged on what it writes, a broad one
\* on what the capability leaves of it.
KeyFindings(s, override, exact) ==
  LET kept == Minus(override, Imposed(s))
      judged == IF exact THEN override ELSE kept
  IN UNION {If(Written(judged) \ Registry[s.backend].supports # {}, "axis not supported"),
            If(exact /\ Written(override) # Written(kept), "axis imposed by a capability"),
            If(Written(kept) # {} /\ ~Registry[s.backend].translates, "axes not translated")}

SlipReachingFindings(p) ==
  UNION {LET s == p.steps[i] IN
         IF ~IsAgent(s) \/ ~Has(s.backend) \/ ~Registry[s.backend].builds THEN {}
         ELSE UNION {IF KeysFor(p, s)[k] \notin DOMAIN StepConfig THEN {}
                     ELSE KeyFindings(s, StepConfig[KeysFor(p, s)[k]], k = 3) : k \in {3}}
         : i \in DOMAIN p.steps}

ReachingFindings(p) ==
  UNION {LET s == p.steps[i] IN
         IF ~IsAgent(s) \/ ~Has(s.backend) \/ ~Registry[s.backend].builds THEN {}
         ELSE UNION {IF KeysFor(p, s)[k] \notin DOMAIN StepConfig THEN {}
                     ELSE KeyFindings(s, StepConfig[KeysFor(p, s)[k]], k = 3) : k \in 1 .. 3}
         : i \in DOMAIN p.steps}

StepOverrideFindings(p) == ExactKeyFindings(p) \cup ReachingFindings(p)

\* Every rule of the chain reports; the loader refuses on the whole.
Findings(p) ==
  UNION {StructureFindings(p), GroupFindings(p), ProfileKeyFindings, StepOverrideFindings(p),
         UNION {UNION {BackendFindings(p.steps[i]), OutputContractFindings(p.steps[i]),
                       ProfileFindings(p.steps[i]), ResumeFindings(p, i), EscalationFindings(p, i),
                       FixBackendFindings(p.steps[i]), ExtractorFindings(p.steps[i])}
                : i \in DOMAIN p.steps}}
----------------------------------------------------------------------------
(* Loading                                                                 *)

Init == pipeline \in Authored /\ phase = "authored" /\ at = 1 /\ why = ""

ValidatePipeline ==
  /\ phase = "authored"
  /\ phase' = IF Findings(pipeline) = {} THEN "profiles" ELSE "refused"
  /\ UNCHANGED <<pipeline, at, why>>

Throw(cause) == phase' = "threw" /\ why' = cause /\ UNCHANGED <<pipeline, at>>

\* The step after its role: its options, or the reason the role cannot apply.
StepWithProfile(s) ==
  LET policy == ResolveProfile(s.profile, s.backend)
      axes == Applicable(s.backend, Minus(policy, Imposed(s)))
  IN IF Written(axes) = {} \/ ~Registry[s.backend].translates THEN s
     ELSE [s EXCEPT !.options = ApplyAxes(s.options, axes)]

ProfileThrow(s) ==
  IF ~IsAgent(s) \/ s.profile = "" \/ s.backend = "" THEN ""
  ELSE IF ResolveProfile(s.profile, s.backend) = None THEN "profile without policy"
  ELSE IF Written(s.options) \cup Written(s.fixOptions) # {} THEN "axes in options"
  ELSE IF ~Registry[s.backend].builds THEN "unbuildable" ELSE ""

\* The step after the role of its fix; the base is what the author wrote for
\* the fix, else what the step itself runs with.
StepWithFixProfile(s) ==
  LET backend == BackendForFix(s)
      base == IF s.fixOptions # None THEN s.fixOptions ELSE IF s.backend # "" THEN s.options ELSE None
      axes == Applicable(backend, ResolveProfile(s.fixProfile, backend))
  IN [s EXCEPT !.fixOptions = IF Written(axes) = {} \/ ~Registry[backend].translates
                              THEN base ELSE ApplyAxes(base, axes)]

FixProfileThrow(s) ==
  IF s.fixProfile = "" THEN ""
  ELSE IF ResolveProfile(s.fixProfile, BackendForFix(s)) = None THEN "fix profile without policy"
  ELSE IF ~Registry[BackendForFix(s)].builds THEN "unbuildable fix" ELSE ""

WithRole(s) ==
  IF IsAgent(s) /\ s.profile # "" /\ s.backend # "" THEN StepWithProfile(s) ELSE s

\* Step then fix: the fix inherits the options the step has just been given.
SlipMaterialized(s) == WithRole(IF s.fixProfile = "" THEN s ELSE StepWithFixProfile(s))
Materialized(s) ==
  LET given == WithRole(s) IN IF given.fixProfile = "" THEN given ELSE StepWithFixProfile(given)

ApplyProfiles ==
  /\ phase = "profiles" /\ at <= Len(Steps)
  /\ LET s == Steps[at]
         thrown == IF ProfileThrow(s) # "" THEN ProfileThrow(s) ELSE FixProfileThrow(s)
     IN IF thrown # "" THEN Throw(thrown)
        ELSE /\ pipeline' = [pipeline EXCEPT !.steps[at] = Materialized(s)]
             /\ at' = at + 1
             /\ UNCHANGED <<phase, why>>

EndProfiles ==
  /\ phase = "profiles" /\ at > Len(Steps)
  /\ at' = 1 /\ phase' = "overrides"
  /\ UNCHANGED <<pipeline, why>>

\* Overrides accumulate from the broadest key to the exact one.
SlipOverridden(s) ==
  FoldLeft(LAMBDA options, key : IF key \in DOMAIN StepConfig
                                THEN ApplyAxes(options, Minus(StepConfig[key], Imposed(s))) ELSE options,
          s.options, Reverse(KeysFor(pipeline, s)))

Overridden(s) ==
  FoldLeft(LAMBDA options, key : IF key \in DOMAIN StepConfig
                                THEN ApplyAxes(options, Minus(StepConfig[key], Imposed(s))) ELSE options,
          s.options, KeysFor(pipeline, s))

\* The keys are checked once more on the materialized pipeline, then written.
OverrideThrow(s) ==
  IF StepConfig = <<>> THEN ""
  ELSE IF StepOverrideFindings(pipeline) # {} THEN "override findings"
  ELSE IF ~IsAgent(s) \/ s.backend = "" THEN ""
  ELSE IF ~Registry[s.backend].builds THEN "unbuildable"
  ELSE IF Overridden(s) # s.options /\ ~Registry[s.backend].translates THEN "axes not translated" ELSE ""

ApplyOverrides ==
  /\ phase = "overrides" /\ at <= Len(Steps)
  /\ LET s == Steps[at] IN
     IF OverrideThrow(s) # "" THEN Throw(OverrideThrow(s))
     ELSE /\ pipeline' = IF IsAgent(s) THEN [pipeline EXCEPT !.steps[at].options = Overridden(s)]
                         ELSE pipeline
          /\ at' = at + 1
          /\ UNCHANGED <<phase, why>>

SlipEndOverrides ==
  /\ phase = "overrides" /\ at > Len(Steps)
  /\ phase' = "loaded" /\ at' = at + 1
  /\ UNCHANGED <<pipeline, why>>

EndOverrides ==
  /\ phase = "overrides" /\ at > Len(Steps)
  /\ phase' = "loaded"
  /\ UNCHANGED <<pipeline, at, why>>

Next == ValidatePipeline \/ ApplyProfiles \/ EndProfiles \/ ApplyOverrides \/ EndOverrides
Spec == Init /\ [][Next]_vars
----------------------------------------------------------------------------
(* Properties                                                              *)

\* The shape of the state while a pipeline is loaded.
TypeOK ==
  /\ phase \in {"authored", "profiles", "overrides", "loaded", "refused", "threw"}
  /\ at \in 1 .. Len(Steps) + 1
  /\ (phase = "threw") = (why # "")
  /\ \A i \in DOMAIN Steps : \A a \in Axis : Steps[i].options # None => Steps[i].options[a] \in STRING

Loaded == phase = "loaded"

\* What the members of a group read: the last writer of each input, among the
\* steps that ran before, when the members end in the order given.
WriterSeen(p, before, name) ==
  {i \in before : name \in p.steps[i].outputs /\ \A j \in before : name \in p.steps[j].outputs => j <= i}
Earlier(p, g) == {i \in DOMAIN p.steps : \A m \in Members(p, g) : i < m}

\* parallelize: in whatever order the members end, each of them reads what the
\* same steps wrote, none resumes the session of a sibling and each artifact or
\* report is left by one member only (parallel-group.ts and structure.ts).
GroupOrderFree ==
  Loaded => \A g \in Groups(pipeline) :
    LET M == Members(pipeline, g) IN
    \A order \in SetToSeqs(M) : \A k \in DOMAIN order :
      LET ended == Earlier(pipeline, g) \cup {order[j] : j \in 1 .. k - 1}
          me == Steps[order[k]]
      IN /\ \A name \in Reads(me) :
              WriterSeen(pipeline, ended, name) = WriterSeen(pipeline, Earlier(pipeline, g), name)
         /\ \A j \in M \ {order[k]} :
              /\ me.resume # Steps[j].id
              /\ (me.outputs \cup me.reports) \cap (Steps[j].outputs \cup Steps[j].reports) = {}

\* A step that resumes the session of another one starts after that one has
\* ended, and that one records sessions (resume-session.ts): the target is an
\* agent, declared earlier, and not one that runs at the same time.
ResumedSessionExists ==
  Loaded => \A i \in DOMAIN Steps : Steps[i].resume # None =>
    \E t \in 1 .. i - 1 : /\ Steps[t].id = Steps[i].resume
                          /\ Steps[t].backend # ""
                          /\ ~(Steps[t].group # "" /\ Steps[t].group = Steps[i].group)

\* The session a repair resumes lives on the backend the repair's escalation
\* model was written for (resumed-fix-escalation.ts), and a repair that starts a
\* session of its own runs on a backend the run knows (fix-backend.ts).
RepairProviderKnown ==
  Loaded => \A i \in DOMAIN Steps : Steps[i].fix =>
    /\ Has(BackendForFix(Steps[i]))
    /\ Steps[i].retries > 0
    /\ (Steps[i].resume # None /\ Steps[i].escalates /\ Steps[i].backend = "")
         => Steps[IndexOf(pipeline, Steps[i].resume)].backend = DefaultBackend

\* The axes a step runs with are those of the most specific of: its exact key,
\* the key of its pipeline, the key of every step, its role in the configuration,
\* its role as shipped; and none where a capability imposes the axis
\* (step-overrides.ts "Resolve capability > steps > profile/backend").
Expected(s, a) ==
  LET keys == Reverse(KeysFor(pipeline, s))
      written == SelectSeq(keys, LAMBDA key : key \in DOMAIN StepConfig /\ StepConfig[key][a] # "")
      role == Applicable(s.backend, ResolveProfile(s.profile, s.backend))[a]
  IN IF Imposed(s)[a] # "" THEN ""
     ELSE IF written # <<>> THEN StepConfig[written[1]][a]
     ELSE IF Registry[s.backend].translates THEN role ELSE ""
PrecedenceHolds ==
  Loaded => \A i \in DOMAIN Steps : IsAgent(Steps[i]) =>
    \A a \in Axis : Steps[i].options[a] = Expected(Steps[i], a)

\* The loader never rejects a configuration the chain, and so --lint-config,
\* called consistent (step-overrides.ts applyStepOverrides): once validated,
\* nothing throws while the overrides are written.
OverridesNeverThrow == phase = "overrides" => phase' # "threw"

\* A fix that borrows a role starts from the options its step runs with
\* (profiles.ts applyFixProfile): an axis the fix role says nothing of is the
\* one the role of the step gave.
FixInheritsTheStep ==
  phase = "overrides" /\ at = 1 => \A i \in DOMAIN Steps :
    LET s == Steps[i] IN
    (s.fixProfile # "" /\ s.backend # "" /\ Registry[s.backend].translates) =>
      \A a \in Axis :
        LET role == Applicable(s.backend, ResolveProfile(s.fixProfile, s.backend))[a] IN
        s.fixOptions # None /\ s.fixOptions[a] = IF role # "" THEN role ELSE s.options[a]

\* "All consistency validation must precede option materialization"
\* (loader.ts): a pipeline the chain accepted is materialized.
FixRolesAreValidated == ~(phase = "threw" /\ why = "fix profile without policy")

\* "The agent-backend rule already reports an unresolvable backend"
\* (output-contract.ts): no accepted pipeline has a backend that cannot be built.
BackendsAreValidated == ~(phase = "threw" /\ why = "unbuildable")

\* "Absent: the options never grant a write" (contracts/backends.ts): no member
\* of a loaded group has options that let its agent write.
GroupsOnlyRead ==
  Loaded => \A i \in DOMAIN Steps : Steps[i].group # "" => ~Steps[i].grants
============================================================================
