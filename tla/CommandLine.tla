----------------------------- MODULE CommandLine -----------------------------
(***************************************************************************)
(* What a command line asks for, from the words typed to what starts.       *)
(*   entry/cli-options.ts           the registry of options                 *)
(*   entry/cli/parse.ts             which options stand together            *)
(*   entry/commands/command.ts      the commands, first match first         *)
(*   entry/composition/startup.ts   a command, a sweep, a run               *)
(*   execution/dispatch/*.ts        the command lines of a sweep's children *)
(*   dashboard/ui/verbs.ts, bin/lancenuit: the lines a verb is launched by  *)
(*                                                                          *)
(* A line is the set of options it holds: an option typed twice counts      *)
(* once, the last value wins.  Values are well formed and not empty; of a   *)
(* template only whether it runs a command is kept, so --template stands    *)
(* twice, as "template" and "template!".                                    *)
(***************************************************************************)
EXTENDS Naturals, FiniteSets, Sequences, SequencesExt, TLC

CONSTANTS Typed,     \* bound: the options a person types
          MaxTyped   \* bound: how many

VARIABLES
    line,    \* the options of the line
    by,      \* who wrote it: "person", "sweep" or the verb clicked
    judged   \* what became of it

vars == <<line, by, judged>>

NONE == "none"

(***************************************************************************)
(* The registry.                                                            *)
(***************************************************************************)
RunOptions == {"types-install", "pipeline", "ticket", "steps", "skip", "start-at", "until", "base-branch",
               "watch", "watch-auto-close", "fresh", "scan", "limit", "budget", "allow-unmetered",
               "replay-interrupted", "allow-dirty", "worktree", "lint-config", "lint-pipeline"}
DecisionOptions == {"approve", "approve-only", "reject", "reason", "reject-only", "close", "reopen"}
\* Slip: an option the parser reads is not declared.
ReadingOptionsShort == {"inspect", "logs", "run", "step", "clean", "worktree-clean", "stats", "ui"}
ReadingOptions  == {"inspect", "logs", "run", "step", "clean", "worktree-clean", "stats", "ui", "port",
                    "cors-origin", "since", "failures", "include-children", "logs-only", "older-than", "keep-failed"}
UsageOptions    == {"help", "version", "wrapper-help", "typecheck", "create", "command", "template", "template!", "user"}
Options == RunOptions \cup DecisionOptions \cup ReadingOptions \cup UsageOptions

(* Slip: the bound of a sweep goes to its children.                         *)
PassthroughWide == {"steps", "skip", "until", "base-branch", "fresh", "allow-dirty", "limit"}
Passthrough   == {"steps", "skip", "until", "base-branch", "fresh", "allow-dirty"}
GlobalOptions == {"ticket", "help", "version", "wrapper-help"}
CreateScope   == {"create", "command", "template", "template!", "user"}
ForeignToCreate(o) == o \notin GlobalOptions \cup CreateScope

(***************************************************************************)
(* The rules of the parser: sets of which one option at most, options that  *)
(* stand beside none of a set, options that need one of a set.              *)
(***************************************************************************)
OneOf == {{"steps", "skip", "start-at"}, {"close", "reopen"}, {"inspect", "logs", "clean"}}

Reads    == {"inspect", "logs", "clean"}
Outside  == Reads \cup {"approve-only", "reject-only"}

(* Slip: an authorization is refused on an inspection, not on a sweep.      *)
ApartSwept == [until |-> {"steps"} \cup Outside,
    budget |-> Outside \cup {"scan"}, approve |-> {"clean"}, run |-> {"fresh"},
    reject |-> {"approve", "approve-only", "clean"}, ui |-> {"ticket"}]
    @@ ("allow-unmetered" :> Outside) @@ ("replay-interrupted" :> Outside)
    @@ ("start-at" :> {"scan"}) @@ ("lint-pipeline" :> {"ticket"})
    @@ ("types-install" :> {"ticket", "create", "typecheck"})

(* Slip: an answer may be two answers.                                      *)
ApartTwice == [until |-> {"steps"} \cup Outside, budget |-> Outside \cup {"scan"}, approve |-> {"clean"}]

Apart == [until |-> {"steps"} \cup Outside,
    budget |-> Outside \cup {"scan"}, approve |-> {"clean"}, run |-> {"fresh"},
    reject |-> {"approve", "approve-only", "clean"}, ui |-> {"ticket"}]
    @@ ("allow-unmetered" :> Outside \cup {"scan"}) @@ ("replay-interrupted" :> Outside \cup {"scan"})
    @@ ("start-at" :> {"scan"}) @@ ("lint-pipeline" :> {"ticket"})
    @@ ("types-install" :> {"ticket", "create", "typecheck"})

\* option -> sets of which each must meet the line
Decides == [approve |-> {{"ticket"}}, reject |-> {{"ticket"}, {"reason"}}, reason |-> {{"reject"}}]
    @@ ("approve-only" :> {{"approve"}}) @@ ("reject-only" :> {{"reject"}})
    @@ ("worktree-clean" :> {{"ticket"}}) @@ ("limit" :> {{"scan", "stats"}})
Needs == Decides @@ [inspect |-> {{"ticket"}}, logs |-> {{"ticket"}}, step |-> {{"inspect", "logs"}},
    run |-> {{"ticket"}}, port |-> {{"ui"}}, since |-> {{"stats"}}, failures |-> {{"stats"}},
    command |-> {{"create"}}, template |-> {{"create"}}, create |-> {{"ticket"}}]
    @@ ("logs-only" :> {{"clean"}}) @@ ("older-than" :> {{"clean"}}) @@ ("keep-failed" :> {{"clean"}})
    @@ ("include-children" :> {{"stats"}}) @@ ("lint-pipeline" :> {{"pipeline"}}) @@ ("template!" :> {{"create"}})

(* Slip: what `create` does not know it lets pass.                          *)
CreateFitsAny(l) == "create" \in l => (("command" \in l) = ("template!" \notin l))

\* A template that runs a command needs one, the others refuse it; the default runs one.
CreateFits(l) == "create" \in l =>
    /\ ("command" \in l) = ("template!" \notin l)
    /\ ~\E o \in l : ForeignToCreate(o)

\* `parseRunnerArgs` ends without a CliError.
Parses(l) ==
    /\ \A s \in OneOf : Cardinality(s \cap l) <= 1
    /\ \A o \in l \cap DOMAIN Apart : Apart[o] \cap l = {}
    /\ \A o \in l \cap DOMAIN Needs : \A s \in Needs[o] : s \cap l # {}
    /\ CreateFits(l)

(***************************************************************************)
(* What an accepted line starts.                                            *)
(***************************************************************************)
Commands == <<"help", "wrapper-help", "version", "create", "lint-pipeline", "lint-config", "typecheck",
              "types-install", "approve-only", "reject-only", "close", "reopen", "inspect", "logs", "clean",
              "stats", "ui", "worktree-clean">>
RunEarlyCommand(l) ==
    LET first == SelectInSeq(Commands, LAMBDA c : c \in l)
    IN  IF first = 0 THEN NONE ELSE Commands[first]

\* `validateDispatchArgs`: a sweep finds its tickets itself.
CheckRunArgs(l) == ~({"scan", "ticket"} \subseteq l)

Startup(l) ==
    IF ~Parses(l) THEN "refused"
    ELSE IF RunEarlyCommand(l) # NONE THEN RunEarlyCommand(l)
    ELSE IF ~CheckRunArgs(l) THEN "refused"
    ELSE IF "scan" \in l THEN "sweep" ELSE "run"

\* The command line of a child of a sweep: its ticket, the pipeline, what is
\* forwarded, the base branch unless it is forwarded.
ChildLine(l) == {"ticket", "pipeline", "base-branch"} \cup (l \cap Passthrough)

(* Slip: the reason of a rejection is left to the command that records it.  *)
VerbLineShort(verb, worktree) ==
    {"ticket", "pipeline"} \cup (IF worktree THEN {"worktree"} ELSE {})
        \cup (IF verb = "reject-and-rerun" THEN {"reject"} ELSE {})

\* `argvOf`, with the wrapper's translation of its first word.
VerbLine(verb, worktree) ==
    {"ticket", "pipeline"} \cup (IF worktree /\ verb \notin {"close", "reopen"} THEN {"worktree"} ELSE {})
        \cup CASE verb = "approve-and-rerun" -> {"approve"}
               [] verb = "approve" -> {"approve", "approve-only"}
               [] verb = "reject-and-rerun" -> {"reject", "reason"}
               [] verb = "replay-interrupted" -> {"replay-interrupted"}
               [] verb = "budget" -> {"budget"} [] verb = "fresh" -> {"fresh"}
               [] verb = "close" -> {"close"} [] verb = "reopen" -> {"reopen"}
               [] OTHER -> {}

\* What the reader who clicks a verb expects to start.
Meant(verb) == CASE verb = "approve" -> "approve-only" [] verb \in {"close", "reopen"} -> verb [] OTHER -> "run"
Verbs == {"approve-and-rerun", "approve", "reject-and-rerun", "rerun", "replay-interrupted", "budget", "fresh", "close", "reopen"}

(***************************************************************************)
(* Steps: a person types, submits; a sweep launches; the dashboard does.    *)
(***************************************************************************)
Init == line = {} /\ by = "person" /\ judged = NONE

Type(o) ==
    /\ judged = NONE /\ by = "person" /\ o \notin line /\ Cardinality(line) < MaxTyped
    /\ line' = line \cup {o}
    /\ UNCHANGED <<by, judged>>

Submit ==
    /\ judged = NONE
    /\ judged' = Startup(line)
    /\ UNCHANGED <<line, by>>

Sweep ==
    /\ judged = "sweep"
    /\ line' = ChildLine(line) /\ by' = "sweep" /\ judged' = NONE

Launch(verb, worktree) ==
    /\ judged = NONE /\ line = {}
    /\ line' = VerbLine(verb, worktree) /\ by' = verb
    /\ UNCHANGED judged

Next == \/ \E o \in Typed : Type(o)
        \/ Submit \/ Sweep
        \/ \E verb \in Verbs, worktree \in BOOLEAN : Launch(verb, worktree)

Spec == Init /\ [][Next]_vars

(***************************************************************************)
(* Properties.                                                              *)
(***************************************************************************)
TypeOK ==
    /\ line \subseteq Options /\ by \in {"person", "sweep"} \cup Verbs
    /\ judged \in {NONE, "refused", "run", "sweep"} \cup ToSet(Commands)
    /\ DOMAIN Apart \subseteq Options /\ DOMAIN Needs \subseteq Options

\* What a person grants to one run: none of it reaches a sweep, on the parent's
\* line or on a child's.
Grants == {"budget", "allow-unmetered", "replay-interrupted", "approve", "reject", "start-at", "run"}
NoSweepGrants == (judged = "sweep" \/ (by = "sweep" /\ judged = "run")) => line \cap Grants = {}

\* A sweep that was accepted launches lines its children accept, each as a run of
\* its ticket: no child refuses what its parent took, or does something else.
ChildAccepted == (by = "sweep" /\ judged # NONE) => judged = "run"

\* Every verb of the dashboard is a line the runner accepts, and starts what its
\* label says: the argument builder and the parser agree.
VerbsAccepted == (by \in Verbs /\ judged # NONE) => judged = Meant(by)

\* A creation that is accepted ignores no option that was typed.
CreateReadsAll == judged = "create" => line \subseteq CreateScope \cup GlobalOptions

\* A decision that starts a run is the only decision of its line, names a ticket
\* and selects no fresh history to delete.
OneDecision ==
    judged \in {"run", "sweep", "approve-only", "reject-only", "clean"} =>
        /\ ~({"approve", "reject"} \subseteq line)
        /\ {"approve", "reject"} \cap line # {} => "ticket" \in line /\ judged \notin {"sweep", "clean"}

\* A ceiling or an authorization that was typed is given to a run: no command
\* takes the line and ignores it.
GrantsMeanARun == (judged \notin {NONE, "refused", "run", "help", "version", "wrapper-help"}) =>
    line \cap {"budget", "allow-unmetered", "replay-interrupted"} = {}
=============================================================================
