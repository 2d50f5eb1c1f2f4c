--------------------------- MODULE DeliveryReport ---------------------------
(***************************************************************************)
(* The delivery report of a work item's current run: a file the pipeline's *)
(* own code writes and the dashboard reads, checks field by field and      *)
(* shows.  Source: src/dashboard/read-model/report.ts.                     *)
(*                                                                         *)
(* A value is abstracted to what the reading makes of it: a list knows     *)
(* whether it is one, an entry whether it is an object, which of its       *)
(* fields are invalid, how many of its proofs are unknown and, for a group *)
(* of captures, its files.  Cap stands for MAX_WARNINGS.  The documents an *)
(* instance tries are the constant Documents, its runs 1..MaxRun, and the   *)
(* file is written or replaced at most MaxWrites times.                    *)
(***************************************************************************)
EXTENDS Integers, Sequences, SequencesExt

CONSTANTS Documents, MaxRun, MaxWrites, Cap

ReportAssumption == MaxRun \in Nat \ {0} /\ MaxWrites \in Nat /\ Cap \in Nat \ {0}

VARIABLES current, file, writes, reader, shown

vars == <<current, file, writes, reader, shown>>

None == "none"
NoDoc == <<>>

(***************************************************************************)
(* Validation, pure.  Fields are read in the order the code reads them:    *)
(* the first invalid one is the reason the entry is dropped for.           *)
(***************************************************************************)
FieldsOf == [links     |-> <<"primary", "label", "url">>,
             delivered |-> <<"copy", "hint", "label", "value">>,
             criteria  |-> <<"id", "text", "met", "proof", "captures", "reserve">>,
             followUps |-> <<"detail", "source", "text">>,
             forReview |-> <<"title", "items">>,
             items     |-> <<"ref", "text">>,
             captures  |-> <<"dir", "files">>,
             files     |-> <<"caption", "name", "acs">>,
             notes     |-> <<"summary", "title", "path">>]

SlipFailure(kind, bad) == Last(SelectSeq(FieldsOf[kind], LAMBDA field : field \in bad))
Failure(kind, bad) == Head(SelectSeq(FieldsOf[kind], LAMBDA field : field \in bad))

Problem(at, why) == [at |-> at, why |-> why]
Dropped(at, why) == [kept |-> FALSE, problems |-> <<Problem(at, why)>>]

\* An unknown proof is named and dropped; its criterion stays.
Proofs(at, entry) == [i \in 1..entry.unknown |-> Problem(at, "unknown proof")]

\* An entry without entries of its own.
ParseLeaf(kind, at, entry) ==
  IF ~entry.object THEN Dropped(at, "not an object")
  ELSE IF entry.bad # {} THEN Dropped(at, Failure(kind, entry.bad))
  ELSE [kept |-> TRUE, problems |-> IF kind = "criteria" THEN Proofs(at, entry) ELSE <<>>]

\* The warnings of the entries of a list, in document order, and those kept.
Gather(parsed) ==
  [kept |-> {i \in DOMAIN parsed : parsed[i].kept},
   problems |-> FoldLeft(LAMBDA acc, one : acc \o one.problems, <<>>, parsed)]

ParseLeaves(kind, at, entries) ==
  Gather([i \in DOMAIN entries |-> ParseLeaf(kind, Append(at, i), entries[i])])

\* A group dropped for its directory or its list is reported once, not once
\* per file; the files of one that stays are validated one by one.
SlipParseGroup(at, entry) ==
  LET files == ParseLeaves("files", Append(at, 0), entry.inner)
  IN  IF ~entry.object THEN Dropped(at, "not an object")
      ELSE IF entry.bad # {} THEN [kept |-> FALSE, problems |-> Append(files.problems, Problem(at, "bad"))]
      ELSE [kept |-> TRUE, problems |-> files.problems]
ParseGroup(at, entry) ==
  IF ~entry.object THEN Dropped(at, "not an object")
  ELSE IF entry.bad # {} THEN Dropped(at, Failure("captures", entry.bad))
  ELSE [kept |-> TRUE, problems |-> ParseLeaves("files", Append(at, 0), entry.inner).problems]

\* A present value that is not a list drops the list.
SlipParseList(kind, value) ==
  LET at == <<kind>>
  IN  IF ~value.list THEN [kept |-> {}, problems |-> <<>>]
      ELSE ParseLeaves(kind, at, value.entries)
ParseList(kind, value) ==
  LET at == <<kind>>
  IN  IF ~value.present THEN [kept |-> {}, problems |-> <<>>]
      ELSE IF ~value.list THEN [kept |-> {}, problems |-> <<Problem(at, "not a list")>>]
      ELSE IF kind = "captures"
      THEN Gather([i \in DOMAIN value.entries |-> ParseGroup(Append(at, i), value.entries[i])])
      ELSE ParseLeaves(kind, at, value.entries)

\* The review is one object with a title and a list of items.
ForReview(value) ==
  LET at == <<"forReview">> review == value.entries[1]
  IN  IF ~value.present THEN [kept |-> {}, problems |-> <<>>]
      ELSE IF ~review.object THEN [kept |-> {}, problems |-> <<Problem(at, "not an object")>>]
      ELSE IF review.bad # {} THEN [kept |-> {}, problems |-> <<Problem(at, Failure("forReview", review.bad))>>]
      ELSE ParseLeaves("items", at, review.inner)

Order == <<"links", "delivered", "criteria", "followUps", "forReview", "captures", "notes">>
Section(doc, key) == IF key = "forReview" THEN ForReview(doc[key]) ELSE ParseList(key, doc[key])
Sections(doc) == [key \in {Order[i] : i \in DOMAIN Order} |-> Section(doc, key)]

\* Warnings past the cap are not recorded.
Problems(doc) == FoldLeft(LAMBDA acc, key : acc \o Section(doc, key).problems, <<>>, Order)
Warnings(doc) == SubSeq(Problems(doc), 1, IF Len(Problems(doc)) < Cap THEN Len(Problems(doc)) ELSE Cap)

Nothing == [report |-> NoDoc, error |-> None, kept |-> <<>>, warnings |-> <<>>, of |-> 0]
SlipRejected(why) == [Nothing EXCEPT !.error = why, !.warnings = <<Problem(<<>>, why)>>]
Rejected(why) == [Nothing EXCEPT !.error = why]

\* A wrong header rejects the file; the report of another run is stale, and
\* ignored without a word.
SlipParseRunReport(text, run) ==
  IF ~text.json THEN Rejected("not valid JSON")
  ELSE IF ~text.object THEN Rejected("not a JSON object")
  ELSE IF ~text.version THEN Rejected("version")
  ELSE IF text.runId = 0 THEN Rejected("runId")
  ELSE [report |-> text.doc, error |-> None, kept |-> Sections(text.doc), warnings |-> Warnings(text.doc), of |-> text.runId]
SlipStale(text, run) ==
  IF ~text.json THEN Rejected("not valid JSON")
  ELSE IF ~text.object THEN Rejected("not a JSON object")
  ELSE IF ~text.version THEN Rejected("version")
  ELSE IF text.runId # run THEN Rejected("runId")
  ELSE [report |-> text.doc, error |-> None, kept |-> Sections(text.doc), warnings |-> Warnings(text.doc), of |-> text.runId]
ParseRunReport(text, run) ==
  IF ~text.json THEN Rejected("not valid JSON")
  ELSE IF ~text.object THEN Rejected("not a JSON object")
  ELSE IF ~text.version THEN Rejected("version")
  ELSE IF text.runId = 0 THEN Rejected("runId")
  ELSE IF text.runId # run THEN Nothing
  ELSE [report |-> text.doc, error |-> None, kept |-> Sections(text.doc), warnings |-> Warnings(text.doc), of |-> text.runId]

(***************************************************************************)
(* The file, written by the run's own code, and the reading of it.         *)
(***************************************************************************)
Whole(run, doc) == [json |-> TRUE, object |-> TRUE, version |-> TRUE, runId |-> run, doc |-> doc]
Texts(run) == LET doc == CHOOSE d \in Documents : TRUE
              IN  {Whole(run, d) : d \in Documents}
                  \cup {[Whole(run, doc) EXCEPT !.object = FALSE], [Whole(run, doc) EXCEPT !.version = FALSE],
                        [Whole(run, doc) EXCEPT !.runId = 0]}
Half(text) == [text EXCEPT !.json = FALSE]
NoText == Half(Whole(0, NoDoc))
NoFile == [kind |-> "absent", inside |-> TRUE, small |-> TRUE, text |-> NoText]
Fresh == [stage |-> "idle", run |-> 0, began |-> 0, text |-> NoText]

Init == current = 1 /\ file = NoFile /\ writes = 0 /\ reader = Fresh /\ shown = Nothing

\* Project code writes the report of the current run, not at once.
Begin(text) ==
  /\ writes < MaxWrites /\ writes' = writes + 1
  /\ file' = [kind |-> "file", inside |-> TRUE, small |-> TRUE, text |-> Half(text)]
  /\ UNCHANGED <<current, reader, shown>>
Finish(text) ==
  /\ file.kind = "file" /\ file.text = Half(text) /\ file' = [file EXCEPT !.text = text]
  /\ UNCHANGED <<current, writes, reader, shown>>
\* It may leave something else under that name, or a file too large.
Replace(kind, inside, small) ==
  /\ writes < MaxWrites /\ writes' = writes + 1
  /\ file' = [kind |-> kind, inside |-> inside, small |-> small, text |-> file.text]
  /\ UNCHANGED <<current, reader, shown>>
Rerun ==
  /\ current < MaxRun /\ current' = current + 1 /\ UNCHANGED <<file, writes, reader, shown>>

Resolve ==
  /\ reader.stage = "idle"
  /\ reader' = [Fresh EXCEPT !.stage = "locate", !.run = current, !.began = current]
  /\ shown' = Nothing /\ UNCHANGED <<current, file, writes>>

Answer(read) == reader' = [reader EXCEPT !.stage = "idle"] /\ shown' = read /\ UNCHANGED <<current, file, writes>>
Proceed(stage) == reader' = [reader EXCEPT !.stage = stage] /\ UNCHANGED <<current, file, writes, shown>>

\* The path that answers must lie inside the work item.
Locate ==
  /\ reader.stage = "locate"
  /\ IF file.kind = "absent" THEN Answer(Nothing)
     ELSE IF ~file.inside THEN Answer(Rejected("outside"))
     ELSE Proceed("stat")

Stat ==
  /\ reader.stage = "stat"
  /\ IF file.kind # "file" THEN Answer(Nothing)
     ELSE IF ~file.small THEN Answer(Rejected("large"))
     ELSE Proceed("read")

\* Present a moment ago, gone or replaced now: no report.
Read ==
  /\ reader.stage = "read"
  /\ IF file.kind # "file" THEN Answer(Nothing)
     ELSE /\ reader' = [reader EXCEPT !.stage = "parse", !.text = file.text]
          /\ UNCHANGED <<current, file, writes, shown>>

ReadReport ==
  /\ reader.stage = "parse"
  /\ Answer(ParseRunReport(reader.text, reader.run))

Next ==
  \/ \E run \in 1..MaxRun : \E text \in Texts(run) : run = current /\ Begin(text)
  \/ \E run \in 1..MaxRun : \E text \in Texts(run) : Finish(text)
  \/ \E kind \in {"absent", "file", "directory"}, inside, small \in BOOLEAN : Replace(kind, inside, small)
  \/ Rerun \/ Resolve \/ Locate \/ Stat \/ Read \/ ReadReport

Spec == Init /\ [][Next]_vars

----------------------------------------------------------------------------
\* Shape of the state; an answer is a report or an error, never both, and
\* only a report carries warnings.
TypeOK ==
  /\ current \in 1..MaxRun /\ reader.stage \in {"idle", "locate", "stat", "read", "parse"}
  /\ file.kind \in {"absent", "file", "directory"}
  /\ shown.report # NoDoc => shown.error = None
  /\ shown.warnings # <<>> => shown.report # NoDoc /\ Len(shown.warnings) <= Cap

Broken(text) == ~text.json \/ ~text.object \/ ~text.version \/ text.runId = 0

\* A report is shown for the run that was resolved when the reading began,
\* never that of a run before it, however files and runs change meanwhile.
ShownIsOfTheRun == shown.report # NoDoc => shown.of = reader.run /\ reader.run <= current

\* The report of another run is no error: a sheet complains only of a file
\* that is broken, misplaced or too large.
StaleIsSilent ==
  (shown.error \notin {None, "outside", "large"}) => Broken(reader.text)

Entries(kind, doc) == IF doc[kind].present /\ doc[kind].list THEN DOMAIN doc[kind].entries ELSE {}

\* A report shown with fewer entries than it was written with says so.
NothingDropsSilently ==
  shown.report # NoDoc =>
    ((\E key \in DOMAIN shown.kept \ {"forReview"} :
        \/ shown.kept[key].kept # Entries(key, shown.report)
        \/ shown.report[key].present /\ ~shown.report[key].list)
      => shown.warnings # <<>>)

\* Each entry that is dropped is complained of once: a warning never names a
\* place inside an entry another warning says is gone.
OneComplaintPerEntry ==
  \A i, j \in DOMAIN shown.warnings :
    (i # j /\ shown.warnings[i].why # "unknown proof") => ~IsPrefix(shown.warnings[i].at, shown.warnings[j].at)

\* The reason given is that of the first field at fault, in the order a
\* person reads the entry.
ReasonIsTheFirst ==
  \A i \in DOMAIN shown.warnings :
    LET w == shown.warnings[i]
    IN  (Len(w.at) = 2 /\ w.at[1] = "criteria" /\ w.why \in {"met", "proof"}) =>
          {"id", "text"} \cap shown.report["criteria"].entries[w.at[2]].bad = {}

\* The comment on reportWarnings: a dropped criterion never passes silently
\* for a smaller, fully met list.
DroppedCriterionIsNamed ==
  shown.report # NoDoc =>
    \A i \in Entries("criteria", shown.report) \ shown.kept["criteria"].kept :
      \E w \in DOMAIN shown.warnings : shown.warnings[w].at = <<"criteria", i>>
=============================================================================
