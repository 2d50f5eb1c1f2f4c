----------------------------- MODULE AgentLaunch -----------------------------
(***************************************************************************)
(* What an agent CLI is launched with.                                     *)
(*                                                                         *)
(*   src/execution/runners.ts                 the request of an attempt    *)
(*   src/agents/backends/*/backend.ts, args.ts, config.ts                  *)
(*                                            its translation for each CLI *)
(*   src/agents/backends/verdict-instruction.ts, artifact-scope.ts         *)
(*                                            what the agent is told       *)
(*                                                                         *)
(* A step is attempted up to MaxAttempts times: between two attempts its   *)
(* options, its role and its backend may have been edited, and an attempt  *)
(* resumes the session an earlier one left.  Prompts are known by what     *)
(* they already say; models, binaries and environments are left out.       *)
(***************************************************************************)
EXTENDS Naturals, Sequences, FiniteSets

CONSTANTS
  Backends,     \* subset of {"claude", "codex", "opencode"}
  Roles,        \* roles of the step, "none" among them
  Prompts,      \* subset of {"plain", "asks", "slash", "fork"}: "asks" spells out the verdict
  VerdictModes, \* subset of {"schema", "text"}: RUNNER_VERDICT_MODE
  Fields,       \* sets of captured fields a step may declare
  Grants,       \* write options of the author: subset of {"none", "read-only", "write"}
  MaxAttempts   \* bound: launches of one step

LaunchAssumption ==
  /\ Backends \subseteq {"claude", "codex", "opencode"} /\ MaxAttempts \in Nat
  /\ Prompts \subseteq {"plain", "asks", "slash", "fork"} /\ VerdictModes \subseteq {"schema", "text"}

VARIABLES
  step,     \* backend, role, prompt, verdict mode, fields, write option, ephemeral, scope
  sessions, \* the sessions that exist: id -> provider, whether it may be resumed, its turns
  launched, \* every launch so far, in order
  running   \* the last launch has not ended

vars == <<step, sessions, launched, running>>

NoSession == 0
Steps ==
  [backend : Backends, role : Roles, prompt : Prompts, mode : VerdictModes, format : {"json", "text"},
   fields : Fields, grant : Grants, ephemeral : BOOLEAN, outside : BOOLEAN]
----------------------------------------------------------------------------
(* The request                                                             *)

\* A session only reaches the backend that minted it.
SlipResolveSession(backend, id) == id
SlipTypeSession(backend, id) == IF id = NoSession THEN Len(sessions) + 1 ELSE id
ResolveSession(backend, id) ==
  IF id # NoSession /\ sessions[id].provider = backend THEN id ELSE NoSession

\* A repair asks for text and captures nothing.
Request(s, intent, session, resume) ==
  [backend |-> s.backend, role |-> s.role, intent |-> intent,
   format |-> IF intent = "fix" THEN "text" ELSE s.format,
   fields |-> IF intent = "fix" THEN {} ELSE s.fields,
   session |-> session, resume |-> ResolveSession(s.backend, resume)]

OutsideDirs(s) == IF s.outside THEN {"workItem"} ELSE {}
----------------------------------------------------------------------------
(* The three CLIs                                                          *)

FixTools == {"Read", "Edit", "Write", "Glob", "Grep", "Bash"}

\* What the agent may do, in the words of the CLI: a plan mode for Claude, a
\* sandbox for Codex, the tools of one of three agents for opencode.
Permission(s, r) ==
  CASE s.backend = "claude" -> IF s.grant = "read-only" THEN "plan" ELSE "bypassPermissions"
    [] s.backend = "codex" -> IF r.resume # NoSession THEN "session"
                              ELSE IF s.grant = "write" THEN "workspace-write" ELSE "read-only"
    [] OTHER -> IF s.grant = "write" THEN "runner"
                ELSE IF s.grant = "read-only" THEN "ro"
                ELSE IF s.role \in {"extractor", "triage", "relay"} THEN "bare"
                ELSE IF s.role \in {"reviewer", "planner"} THEN "ro" ELSE "runner"

\* Whether the session goes on in a branch of its own.
SlipFork(s, r) == s.backend = "opencode" /\ r.intent = "fix" /\ r.resume = NoSession
Fork(s, r) == s.backend = "opencode" /\ r.intent = "fix" /\ r.resume # NoSession

\* Where the verdict is asked for: a schema the CLI enforces, an instruction the
\* runner appends, the relay of a forked skill, or the prompt of the author.
SlipVerdict(s, r) ==
  IF r.format # "json" THEN "nowhere"
  ELSE CASE s.backend = "codex" -> "schema"
         [] s.backend = "opencode" -> IF s.prompt = "plain" THEN "instruction" ELSE "nowhere"
         [] OTHER -> IF s.mode = "schema" THEN "schema"
                     ELSE IF s.prompt = "asks" THEN "prompt"
                     ELSE IF s.prompt = "fork" THEN "relay" ELSE "instruction"

Verdict(s, r) ==
  IF r.format # "json" THEN "nowhere"
  ELSE CASE s.backend = "codex" -> "schema"
         [] s.backend = "opencode" -> IF s.prompt = "asks" THEN "prompt" ELSE "instruction"
         [] OTHER -> IF s.mode = "schema" THEN "schema"
                     ELSE IF s.prompt = "asks" THEN "prompt"
                     ELSE IF s.prompt = "fork" THEN "relay" ELSE "instruction"

\* The captured fields ride with the schema or with the runner's instruction.
FieldsAsked(s, r) == IF Verdict(s, r) \in {"schema", "instruction"} THEN r.fields ELSE {}

\* The directories granted beyond the workspace: Claude always, Codex when it
\* opens the session, opencode has no such option.
SlipAddDirs(s, r) == IF s.backend = "claude" THEN OutsideDirs(s) ELSE {}
AddDirs(s, r) ==
  IF s.backend = "claude" \/ (s.backend = "codex" /\ r.resume = NoSession) THEN OutsideDirs(s) ELSE {}

\* The tools a repair is left with when its author chose none (Claude).
AllowedTools(s, r) == IF s.backend = "claude" /\ r.intent = "fix" THEN FixTools ELSE {}

CommandLine(s, r) ==
  [backend |-> s.backend, intent |-> r.intent, resume |-> r.resume,
   open |-> IF s.backend = "claude" /\ r.resume = NoSession THEN r.session ELSE NoSession,
   fork |-> Fork(s, r), permission |-> Permission(s, r), verdict |-> Verdict(s, r),
   fields |-> FieldsAsked(s, r), wanted |-> r.fields, format |-> r.format,
   addDirs |-> AddDirs(s, r), tools |-> AllowedTools(s, r), role |-> s.role, grant |-> s.grant]
----------------------------------------------------------------------------
(* The attempts of the step                                                *)

Init == step \in Steps /\ sessions = <<>> /\ launched = <<>> /\ running = FALSE

\* Claude is given the session it opens before it starts.
Opened(backend) ==
  IF backend = "claude" THEN Append(sessions, [provider |-> "claude", resumable |-> TRUE, turns |-> <<>>])
  ELSE sessions

Attempt(intent, resume) ==
  /\ ~running /\ Len(launched) < MaxAttempts
  /\ IF resume = NoSession THEN TRUE ELSE sessions[resume].resumable
  /\ sessions' = IF intent = "step" /\ resume = NoSession THEN Opened(step.backend) ELSE sessions
  /\ LET minted == IF Len(sessions') > Len(sessions) THEN Len(sessions') ELSE NoSession
     IN launched' = Append(launched, CommandLine(step, Request(step, intent, minted, resume)))
  /\ running' = TRUE /\ UNCHANGED step

\* The CLI works in the session it resumed or opened, in a branch of it, or in
\* one of its own, which it reports.
Ended ==
  /\ running
  /\ LET l == launched[Len(launched)]
         turn == Len(launched)
         home == IF l.resume # NoSession THEN l.resume ELSE l.open
     IN sessions' = IF home # NoSession /\ ~l.fork
                    THEN [sessions EXCEPT ![home].turns = Append(@, turn)]
                    ELSE Append(sessions, [provider |-> l.backend,
                           resumable |-> l.backend # "codex" \/ ~step.ephemeral,
                           turns |-> IF home = NoSession THEN <<turn>> ELSE Append(sessions[home].turns, turn)])
  /\ running' = FALSE /\ UNCHANGED <<step, launched>>

\* The author or the configuration moves the step to another backend or role.
Edited ==
  /\ ~running
  /\ \E b \in Backends, r \in Roles, g \in Grants :
       step' = [step EXCEPT !.backend = b, !.role = r, !.grant = g]
  /\ UNCHANGED <<sessions, launched, running>>

Next ==
  \/ \E intent \in {"step", "fix"}, resume \in {NoSession} \cup DOMAIN sessions : Attempt(intent, resume)
  \/ Ended
  \/ Edited

Spec == Init /\ [][Next]_vars
----------------------------------------------------------------------------
(* Properties                                                              *)

Launches == {launched[i] : i \in DOMAIN launched}

\* The shape of the state, the sessions a launch names being known ones.
TypeOK ==
  /\ step \in Steps /\ running \in BOOLEAN
  /\ \A i \in DOMAIN sessions : sessions[i].provider \in Backends
  /\ \A l \in Launches : l.resume \in {NoSession} \cup DOMAIN sessions

\* Whatever the step ran on before, a session is only resumed by the CLI of the
\* provider that holds it (runners.ts resolveSession).
SessionStaysHome ==
  \A l \in Launches : l.resume # NoSession => sessions[l.resume].provider = l.backend

\* An opencode repair never writes in the session it was handed, so the one of
\* the step stays as the step left it (opencode/backend.ts run, args.ts).
RepairLeavesTheSession ==
  sessions' # sessions =>
    \A i \in DOMAIN sessions :
      (sessions[i].provider = "opencode" /\ launched'[Len(launched')].intent = "fix") =>
        sessions'[i].turns = sessions[i].turns

\* An attempt whose verdict is required is told to give one, by a schema, by the
\* runner or by the prompt (args.ts of each backend).
VerdictIsAsked == \A l \in Launches : l.format = "json" => l.verdict # "nowhere"

\* The first launch of a session is granted the work item that lies outside the
\* workspace, for the CLIs that confine their agent (artifact-scope.ts).
ScopeIsGranted ==
  \A l \in Launches : (step.outside /\ l.resume = NoSession /\ l.backend # "opencode") =>
    l.addDirs = {"workItem"}

\* What a comment promises: a backend without a schema spells the captured
\* fields out in its instruction (contracts/backends.ts).
FieldsAreAsked == \A l \in Launches : l.format = "json" => l.fields = l.wanted
============================================================================
