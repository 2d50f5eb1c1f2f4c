---------------------------- MODULE Provenance -----------------------------
(***************************************************************************)
(* Which deliverables of a ticket may be kept: the record beside each      *)
(* output, the mark of the attempt that may be writing it, and admission.  *)
(*   work-items/store/provenance.ts        records, standings, freshness   *)
(*   execution/step/step-attempt.ts        when marks and records are set  *)
(*   execution/step/step-admission.ts      what is skipped and adopted     *)
(*                                                                         *)
(* Bytes are version numbers, 0 an absent artifact or a source whose       *)
(* command fails.  Runs follow one another over the same ticket: a new run *)
(* forgets every status and keeps the records.  One attempt at a time; it  *)
(* marks, erases, writes, records, and may die in between, while a person  *)
(* edits inputs.  An optional value is a set of at most one element.       *)
(* Producers and dates are left out: no admission rule reads them.         *)
(***************************************************************************)
EXTENDS Naturals, FiniteSets

CONSTANTS Steps, Artifacts, Sources,
          Reads,     \* the declared input of each step: artifacts and sources
          Makes,     \* the declared output of each step
          Reconcile, \* the pipeline declares .reconcile()
          Contents   \* bound: what each artifact or source may hold

Keys == Artifacts \cup Sources
Held == UNION {Contents[k] : k \in Keys}
Outputs == UNION {Makes[s] : s \in Steps}
Revised(s) == Makes[s] \cap Reads[s] \cap Artifacts
Pure(s) == Reads[s] \ Revised(s)
Declares(s) == Reads[s] # {}
AnswersToOutputs(s) == Declares(s) \/ (Reconcile /\ Makes[s] # {})

VARIABLES
    text,     \* the contents of artifacts and sources
    rec,      \* the stored record of each output
    status,   \* of each step in the current run
    settled,  \* step.absorbed_inputs
    att,      \* the attempt in flight: [step, phase, given, used, todo, found]
    sound,    \* the contents finished attempts vouch for, in whole
    parts,    \* by step, the inputs its part of those contents came from
    wrote     \* the contents parts are about

vars == <<text, rec, status, settled, att, sound, parts, wrote>>

-----------------------------------------------------------------------------
(* Records.  A vouching record is [inputs, doubt], doubt the set of revisers
   it exempts; a stored record has a mark too: [step, revision], and revision
   is [sha, previous]. *)

Plain(inputs, doubt) == [inputs |-> inputs, doubt |-> doubt, mark |-> {}]
Vouching(r) == [inputs |-> r.inputs, doubt |-> r.doubt]

Unfinished == [kind |-> "unfinished"]
RecordStanding(r) ==
    IF r.doubt = {} THEN [kind |-> "vouched", record |-> {r}]
    ELSE [kind |-> "unguaranteed", record |-> {r}, exempt |-> UNION r.doubt]
Nobody == [kind |-> "vouched", record |-> {}]

\* Slip: a mark whose attempt wrote nothing is told by its step alone.
StandingTrusting(stored, bytes) ==
    IF stored = {} THEN Nobody
    ELSE LET r == CHOOSE x \in stored : TRUE IN
         IF r.mark = {} THEN RecordStanding(r)
         ELSE LET revision == UNION {m.revision : m \in r.mark} IN
              IF revision = {} THEN Unfinished
              ELSE LET was == CHOOSE v \in revision : TRUE IN
                   IF was.previous = {} THEN Nobody
                   ELSE RecordStanding(CHOOSE p \in was.previous : TRUE)
\* Slip: any mark makes its output unfinished.
StandingStrict(stored, bytes) ==
    IF stored = {} THEN Nobody
    ELSE LET r == CHOOSE x \in stored : TRUE IN
         IF r.mark = {} THEN RecordStanding(r) ELSE Unfinished
\* standingOf: what a stored record says of the bytes there now.
StandingOf(stored, bytes) ==
    IF stored = {} THEN Nobody
    ELSE LET r == CHOOSE x \in stored : TRUE IN
         IF r.mark = {} THEN RecordStanding(r)
         ELSE LET revision == UNION {m.revision : m \in r.mark} IN
              IF revision = {} THEN Unfinished
              ELSE LET was == CHOOSE v \in revision : TRUE IN
                   IF bytes = 0 \/ bytes # was.sha THEN Unfinished
                   ELSE IF was.previous = {} THEN Nobody
                   ELSE RecordStanding(CHOOSE p \in was.previous : TRUE)
Standing(o) == StandingOf(rec[o], text[o])

ScratchMark(s, doubt) ==
    [inputs |-> <<>>, doubt |-> doubt, mark |-> {[step |-> s, revision |-> {}]}]
\* Slip: the mark lists every input of the record it keeps.
RevisionMarkListing(s, standing, bytes) ==
    IF standing.kind = "unfinished" THEN ScratchMark(s, {{}})
    ELSE LET previous == {Vouching(r) : r \in standing.record}
             inputs == IF previous = {} THEN <<>> ELSE (CHOOSE p \in previous : TRUE).inputs
         IN  [inputs |-> inputs, doubt |-> {},
              mark |-> {[step |-> s, revision |-> {[sha |-> bytes, previous |-> previous]}]}]
\* revisionMark: the record that stood is kept inside the mark.
RevisionMark(s, standing, bytes) ==
    IF standing.kind = "unfinished" THEN ScratchMark(s, {{}})
    ELSE LET previous == {Vouching(r) : r \in standing.record}
             inputs == IF previous = {} THEN <<>> ELSE (CHOOSE p \in previous : TRUE).inputs
         IN  [inputs |-> [k \in DOMAIN inputs \ Pure(s) |-> inputs[k]], doubt |-> {},
              mark |-> {[step |-> s, revision |-> {[sha |-> bytes, previous |-> previous]}]}]
\* Slip: a revision of partial bytes is an ordinary revision.
MarkedVouching(s, o) ==
    IF o \notin Revised(s) \/ text[o] = 0 THEN ScratchMark(s, {})
    ELSE IF Standing(o).kind = "unfinished" THEN RevisionMark(s, Nobody, text[o])
    ELSE RevisionMark(s, Standing(o), text[o])
\* markInFlight, for one output.
Marked(s, o) ==
    IF o \in Revised(s) /\ text[o] # 0 THEN RevisionMark(s, Standing(o), text[o])
    ELSE ScratchMark(s, {})

\* revisionStart: what a successful revision builds on.
Base(standing) ==
    CASE standing.kind = "unfinished" -> [base |-> {}, doubt |-> {{}}]
      [] standing.kind = "unguaranteed" -> [base |-> standing.record, doubt |-> {standing.exempt}]
      [] OTHER -> [base |-> standing.record, doubt |-> {}]
RevisionStart(s, stored) ==
    IF stored = {} THEN Base(Nobody)
    ELSE LET r == CHOOSE x \in stored : TRUE
             revision == UNION {m.revision : m \in r.mark} IN
         IF r.mark = {} THEN Base(RecordStanding(r))
         ELSE IF revision # {} THEN
                LET previous == (CHOOSE v \in revision : TRUE).previous
                IN  IF previous = {} THEN Base(Nobody)
                    ELSE Base(RecordStanding(CHOOSE p \in previous : TRUE))
         ELSE IF r.doubt # {} THEN [base |-> {}, doubt |-> r.doubt]
         ELSE [base |-> {}, doubt |-> IF \E m \in r.mark : m.step = s THEN {} ELSE {{}}]
With(inputs, more) ==
    [k \in DOMAIN inputs \cup DOMAIN more |-> IF k \in DOMAIN more THEN more[k] ELSE inputs[k]]
\* mergeProvenance.
Merged(s, stored, fingerprints) ==
    LET start == RevisionStart(s, stored)
        base == IF start.base = {} THEN <<>> ELSE (CHOOSE b \in start.base : TRUE).inputs
    IN  Plain(With(base, fingerprints), {d \cup {s} : d \in start.doubt})

-----------------------------------------------------------------------------
(* Freshness. *)

Fingerprints(ks) == [k \in ks |-> text[k]]
Against(inputs, now) ==
    IF \A k \in DOMAIN now : k \in DOMAIN inputs /\ inputs[k] = now[k] THEN "fresh" ELSE "stale"
\* outputFreshness.
OutputFreshness(o, s) ==
    LET now == Fingerprints(Pure(s))
        standing == Standing(o) IN
    CASE text[o] = 0 -> "missing"
      [] text[o] # 0 /\ \/ standing.kind = "unfinished"
                        \/ standing.kind = "unguaranteed" /\ s \notin standing.exempt -> "unfinished"
      [] OTHER -> IF \E k \in Pure(s) : now[k] = 0 THEN "unknown"
                  ELSE IF standing.record = {} THEN "adoptable"
                  ELSE Against((CHOOSE r \in standing.record : TRUE).inputs, now)
MustRun(s) ==
    \E o \in Makes[s] : OutputFreshness(o, s) \in {"missing", "unfinished", "unknown", "stale"}
\* inputsUnchanged: a source nobody can read now is not unchanged.
InputsUnchanged(s, recorded) ==
    /\ \A k \in Pure(s) \cap Sources : text[k] # 0
    /\ recorded = Fingerprints(Pure(s))
\* Slip: the public helper takes a doubt for a record.
PublicFreshnessDoubted(o) ==
    IF text[o] = 0 THEN "missing"
    ELSE IF Standing(o).kind = "unfinished" THEN "stale"
    ELSE IF Standing(o).record = {} THEN "unknown"
    ELSE LET inputs == (CHOOSE r \in Standing(o).record : TRUE).inputs
             named == DOMAIN inputs \cap Artifacts
         IN  IF \E k \in named : text[k] # 0 /\ inputs[k] # text[k] THEN "stale"
             ELSE IF DOMAIN inputs \cap Sources # {} \/ \E k \in named : inputs[k] # text[k]
                  THEN "unknown" ELSE "fresh"
\* freshness(ctx, artifact): what a pipeline branches on.
PublicFreshness(o) ==
    IF text[o] = 0 THEN "missing"
    ELSE IF Standing(o).kind # "vouched" THEN "stale"
    ELSE IF Standing(o).record = {} THEN "unknown"
    ELSE LET inputs == (CHOOSE r \in Standing(o).record : TRUE).inputs
             named == DOMAIN inputs \cap Artifacts
         IN  IF \E k \in named : text[k] # 0 /\ inputs[k] # text[k] THEN "stale"
             ELSE IF DOMAIN inputs \cap Sources # {} \/ \E k \in named : inputs[k] # text[k]
                  THEN "unknown" ELSE "fresh"

-----------------------------------------------------------------------------
(* Attempts. *)

Idle == att = {}
At(phase) == \E a \in att : a.phase = phase
Running == CHOOSE a \in att : TRUE
Guaranteed(o) == text[o] # 0 /\ text[o] \in sound[o]

Init ==
    /\ text \in [Keys -> Held] /\ \A k \in Keys : text[k] \in Contents[k]
    /\ rec = [o \in Outputs |-> {}]
    /\ status = [s \in Steps |-> "pending"] /\ settled = [s \in Steps |-> {}]
    /\ att = {}
    /\ sound = [o \in Outputs |-> {text[o]}] /\ wrote = text
    /\ parts = [o \in Outputs |-> [s \in Steps |-> {}]]

\* runAttempt: the artifacts are read first.  Any step may run: admission found
\* it owed, or --start-at, a rework or a pass left unfinished asks for it.
Begin(s) ==
    /\ Idle
    /\ att' = {[step |-> s, phase |-> "marking", given |-> Fingerprints(Pure(s) \ Sources),
                used |-> Fingerprints(Pure(s) \ Sources), todo |-> Makes[s], found |-> [o \in Makes[s] |-> [whole |-> FALSE, same |-> FALSE]]]}
    /\ status' = [status EXCEPT ![s] = "left"] /\ settled' = [settled EXCEPT ![s] = {}]
    /\ UNCHANGED <<text, rec, sound, parts, wrote>>

\* The mark of one output; what the step produces from scratch is erased once
\* every mark is on disk.
Mark(o) ==
    LET a == Running IN
    /\ At("marking") /\ o \in a.todo
    /\ rec' = [rec EXCEPT ![o] = {Marked(a.step, o)}]
    /\ IF a.todo = {o}
       THEN text' = [k \in Keys |-> IF k \in Makes[a.step] \ Revised(a.step) THEN 0 ELSE text[k]]
       ELSE text' = text
    /\ att' = {[a EXCEPT !.todo = @ \ {o}, !.phase = IF a.todo = {o} THEN "running" ELSE "marking",
                         !.found[o] = [whole |-> Guaranteed(o), same |-> text[o] = wrote[o]]]}
    /\ IF o \in Revised(a.step) /\ (Guaranteed(o) \/ text[o] \in {wrote[o]} \ {0}) THEN UNCHANGED <<sound, parts>>
       ELSE sound' = [sound EXCEPT ![o] = {}] /\ parts' = [parts EXCEPT ![o] = [s \in Steps |-> {}]]
    /\ UNCHANGED <<status, settled, wrote>>
\* What the attempt writes, partial or not.
Write(o, v) ==
    /\ At("running") /\ o \in Makes[Running.step] /\ v # text[o]
    /\ text' = [text EXCEPT ![o] = v]
    /\ UNCHANGED <<rec, status, settled, att, sound, parts, wrote>>

\* Slip: every input is read once the attempt succeeded.
RequireLate ==
    LET a == Running IN
    /\ At("running") /\ \A o \in Makes[a.step] : text[o] # 0
    /\ att' = {[a EXCEPT !.phase = "recording", !.todo = Makes[a.step],
                         !.given = Fingerprints(Pure(a.step)),
                         !.used = With(@, Fingerprints(Pure(a.step) \cap Sources))]}
    /\ UNCHANGED <<text, rec, status, settled, sound, parts, wrote>>
\* The command succeeded and every output is there: sources are read now.
Require ==
    LET a == Running IN
    /\ At("running") /\ \A o \in Makes[a.step] : text[o] # 0
    /\ att' = {[a EXCEPT !.phase = "recording", !.todo = Makes[a.step],
                         !.given = With(@, Fingerprints(Pure(a.step) \cap Sources)),
                         !.used = With(@, Fingerprints(Pure(a.step) \cap Sources))]}
    /\ UNCHANGED <<text, rec, status, settled, sound, parts, wrote>>

Recorded(s, o, given) ==
    IF o \in Revised(s) THEN Merged(s, rec[o], given) ELSE Plain(given, {})
\* writeProvenance or mergeProvenance, one output at a time.
Record(o) ==
    LET a == Running
        s == a.step
        scratch == o \notin Revised(s)
        whole == scratch \/ a.found[o].whole \/ \E r \in rec[o] : \E m \in r.mark :
                                               m.revision = {} /\ r.doubt = {}
    IN
    /\ At("recording") /\ o \in a.todo
    /\ rec' = [rec EXCEPT ![o] = {Recorded(s, o, a.given)}]
    /\ sound' = [sound EXCEPT ![o] = IF whole THEN {text[o]} ELSE {}]
    /\ parts' = [parts EXCEPT ![o] =
                   [t \in Steps |-> IF t = s THEN {a.used}
                                    ELSE IF scratch \/ ~a.found[o].same THEN {} ELSE @[t]]]
    /\ wrote' = [wrote EXCEPT ![o] = text[o]]
    /\ att' = IF a.todo = {o} THEN {} ELSE {[a EXCEPT !.todo = @ \ {o}]}
    /\ status' = IF a.todo = {o} THEN [status EXCEPT ![s] = "done"] ELSE status
    /\ UNCHANGED <<text, settled>>

\* A verdict against the attempt, or a failure absorbed by blocking: false,
\* which keeps the inputs it settled at.
Fail ==
    LET s == Running.step IN
    /\ At("running") /\ att' = {}
    /\ \/ UNCHANGED <<status, settled>>
       \/ /\ status' = [status EXCEPT ![s] = "done"]
          /\ settled' = [settled EXCEPT ![s] =
                IF AnswersToOutputs(s) THEN {Fingerprints(Pure(s))} ELSE {}]
    /\ UNCHANGED <<text, rec, sound, parts, wrote>>
\* The runner dies, or a signal ends the run.
Die == ~Idle /\ att' = {} /\ UNCHANGED <<text, rec, status, settled, sound, parts, wrote>>

\* Admission keeps a step: its absorbed failure stands, or its outputs do, and
\* those nobody recorded adopt the inputs present now.
KeepAbsorbed(s) ==
    /\ Idle /\ AnswersToOutputs(s) /\ status[s] = "done"
    /\ \E i \in settled[s] : InputsUnchanged(s, i)
    /\ UNCHANGED vars
Skip(s) ==
    LET adopted == {o \in Makes[s] : Declares(s) /\ OutputFreshness(o, s) = "adoptable"} IN
    /\ Idle /\ AnswersToOutputs(s) /\ status[s] # "left" /\ ~MustRun(s)
    /\ rec' = [o \in Outputs |-> IF o \in adopted THEN {Plain(Fingerprints(Pure(s)), {})} ELSE rec[o]]
    /\ parts' = [o \in Outputs |-> IF o \in adopted
                                   THEN [parts[o] EXCEPT ![s] = {Fingerprints(Pure(s))}] ELSE parts[o]]
    /\ status' = [status EXCEPT ![s] = "done"]
    /\ UNCHANGED <<text, settled, att, sound, wrote>>

-----------------------------------------------------------------------------
(* The ticket between steps. *)

NewRun ==
    /\ Idle /\ \E s \in Steps : status[s] # "pending"
    /\ status' = [s \in Steps |-> "pending"] /\ settled' = [s \in Steps |-> {}]
    /\ UNCHANGED <<text, rec, att, sound, parts, wrote>>
\* An input or a source moves, whatever is running.
Change(k, v) ==
    /\ k \in Keys \ Outputs /\ v # text[k]
    /\ text' = [text EXCEPT ![k] = v]
    /\ UNCHANGED <<rec, status, settled, att, sound, parts, wrote>>
\* A person rewrites an output between attempts, and answers for it unless an
\* attempt marked it.
Edit(o, v) ==
    /\ Idle /\ v # text[o]
    /\ text' = [text EXCEPT ![o] = v]
    /\ LET free == \A r \in rec[o] : r.mark = {} IN
       /\ sound' = IF free /\ text[o] \in sound[o] THEN [sound EXCEPT ![o] = {v}] ELSE sound
       /\ wrote' = IF free /\ text[o] = wrote[o] THEN [wrote EXCEPT ![o] = v] ELSE wrote
    /\ UNCHANGED <<rec, status, settled, att, parts>>
\* The documented repair: delete the record, the output is then adoptable.
Forget(o) ==
    /\ Idle /\ rec[o] # {} /\ text[o] # 0
    /\ rec' = [rec EXCEPT ![o] = {}] /\ sound' = [sound EXCEPT ![o] = {text[o]}]
    /\ wrote' = [wrote EXCEPT ![o] = text[o]]
    /\ parts' = [parts EXCEPT ![o] = [s \in Steps |-> {}]]
    /\ UNCHANGED <<text, status, settled, att>>

Next ==
    \/ \E s \in Steps : Begin(s) \/ Skip(s) \/ KeepAbsorbed(s)
    \/ \E o \in Outputs : Mark(o) \/ Record(o) \/ Forget(o)
    \/ Require \/ Fail \/ Die \/ NewRun
    \/ \E k \in Keys : \E v \in Contents[k] : Change(k, v)
    \/ \E o \in Outputs : \E v \in Contents[o] : Write(o, v) \/ Edit(o, v)
Spec == Init /\ [][Next]_vars

-----------------------------------------------------------------------------
\* Shapes; and a record an attempt has marked lists none of its own inputs, so
\* that a runner older than the mark reads it stale for that step.
TypeOK ==
    /\ text \in [Keys -> Held]
    /\ status \in [Steps -> {"pending", "left", "done"}]
    /\ \A a \in att : att = {a} /\ a.phase \in {"marking", "running", "recording"}
    /\ \A o \in Outputs : \A r \in rec[o] :
        /\ rec[o] = {r} /\ DOMAIN r.inputs \subseteq Keys
        /\ r.doubt = {} \/ \E d \in SUBSET Steps : r.doubt = {d}
        /\ \A m \in r.mark : DOMAIN r.inputs \cap Pure(m.step) = {}

\* Bytes an attempt left without succeeding, or that a revision built on such
\* bytes, are kept by nobody but that revision: whatever runs, deaths, marks
\* and hand edits came in between, admission runs the step that owes them.
KeptIsGuaranteed ==
    Idle => \A s \in Steps : AnswersToOutputs(s) /\ ~MustRun(s) =>
        \A o \in Makes[s] : \/ Guaranteed(o)
                            \/ o \in Revised(s) /\ parts[o][s] # {} /\ text[o] = wrote[o]

\* A step is told its output is fresh only when its own part of it came from
\* the inputs that are there now, whatever moved during the attempt.
FreshFromItsInputs ==
    Idle => \A s \in Steps : \A o \in Makes[s] :
        OutputFreshness(o, s) = "fresh" /\ parts[o][s] # {} => parts[o][s] = {Fingerprints(Pure(s))}

\* Good work is not paid twice: while the bytes and the inputs of a step are
\* those it succeeded over, its output is fresh, even after revisions by other
\* steps, and after revisions that failed or died without writing.
GoodWorkIsKept ==
    Idle => \A s \in Steps : \A o \in Makes[s] :
        /\ parts[o][s] = {Fingerprints(Pure(s))} /\ \A k \in Pure(s) : text[k] # 0
        /\ text[o] = wrote[o] /\ text[o] # 0 /\ (Guaranteed(o) \/ o \in Revised(s))
        => OutputFreshness(o, s) = "fresh"

\* What a pipeline is told through freshness() never exceeds what finished
\* attempts vouch for.
PublicFreshIsGuaranteed ==
    Idle => \A o \in Outputs : PublicFreshness(o) = "fresh" => Guaranteed(o)
=============================================================================
