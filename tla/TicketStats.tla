----------------------------- MODULE TicketStats -----------------------------
(***************************************************************************)
(* The statistics screen: dashboard/read-model/stats.ts gathers every root  *)
(* run of the listed projects and of the hand-kept archive into tickets,    *)
(* and dashboard/ui/app/lib/stats.ts filters and totals them.               *)
(*                                                                          *)
(* Runs start, spend, reach their handover and end while the screen reads;  *)
(* an export copies them to the archive and their directories are removed.  *)
(* A read is two moments: the live runs, then the archive.  Money is a      *)
(* count of units, times are the number of the event that wrote the         *)
(* snapshot, one project is enough, since its name only prefixes the keys.  *)
(***************************************************************************)
EXTENDS Integers, FiniteSets, FiniteSetsExt, Functions

CONSTANTS
    Runs,          \* run directories
    FactsOf,       \* run -> [ticket, folder, pipeline, parent]: fixed at its creation
    PipelineKinds, \* pipeline -> kind, the rules' `kinds.pipelines`
    Deliveries,    \* the rules' `delivery.pipelines`, {} for no rule
    ShipRule,      \* whether the rules name shipping steps
    Answers,       \* bound: the kinds artifacts may name
    Ships,         \* bound: how a shipping step may settle
    Endings,       \* bound: the verdicts a run may reach
    MaxEvents      \* bound: writes of snapshots

VARIABLES
    disk,      \* run -> its snapshot, or Absent
    archive,   \* run -> the copy the export kept, or Absent
    artifact,  \* folder -> the kind its artifact names, or NONE
    got,       \* the live runs a read in progress has gathered, or NoRead
    shown,     \* the tickets the screen holds
    now,       \* events so far
    spent,     \* units spent by anybody so far
    missing    \* roots removed before their last word was exported

vars == <<disk, archive, artifact, got, shown, now, spent, missing>>

NONE    == "none"
Absent  == [status |-> NONE]
NoRead  == [at |-> "idle", runs |-> {}, known |-> {}, since |-> 0]
Folders == {FactsOf[r].folder : r \in Runs}
Kinds   == {"bug", "feature", "other"}

IsRoot(r)   == FactsOf[r].parent = NONE
OnDisk(r)   == disk[r] # Absent
Archived(r) == archive[r] # Absent

(***************************************************************************)
(* One run as the screen counts it: a child is part of its parent's ledger. *)
(***************************************************************************)
HasVerdict(status) == status \in {"PASS", "FAIL", "STOPPED", "ABORTED"}
StatusOf(status, held) ==
    IF HasVerdict(status) THEN status ELSE IF held THEN "RUNNING" ELSE "ABORTED"

HandoverOf(ship) ==
    CASE ~ShipRule                        -> NONE
      [] ShipRule /\ "done" \in ship      -> "shipped"
      [] ShipRule /\ "done" \notin ship /\ "failed" \in ship -> "failed"
      [] OTHER                            -> NONE

StatsRun(r, state, held, source) ==
    [run |-> r, ticket |-> FactsOf[r].ticket, pipeline |-> FactsOf[r].pipeline,
     status |-> StatusOf(state.status, held), usd |-> state.usd, lower |-> state.lower,
     handover |-> HandoverOf(state.ship), at |-> state.at, kind |-> state.kind,
     source |-> source]

\* The archive is a copy: nobody can hold what it describes.
ArchivedRun(r) == StatsRun(r, archive[r], FALSE, "archive")
LiveRun(r)     == StatsRun(r, disk[r], disk[r].held, "live")

(* Slip: a composed run is counted as a run of its own.                     *)
EveryRun == {LiveRun(r) : r \in {d \in Runs : OnDisk(d)}}

LiveRuns == {LiveRun(r) : r \in {d \in Runs : OnDisk(d) /\ IsRoot(d)}}
ArchivedRuns == {ArchivedRun(r) : r \in {a \in Runs : Archived(a)}}

\* The live snapshot is kept: the archive is a copy of an older one.
Merged(live, archived) ==
    live \cup {copy \in archived :
                 ~\E run \in live : run.ticket = copy.ticket /\ run.run = copy.run}

(***************************************************************************)
(* One ticket from its runs.                                                *)
(***************************************************************************)
ABSENT == -1
SumOf(values) == LET present == {v \in values : v[2] # ABSENT}
                 IN  IF present = {} THEN ABSENT
                     ELSE FoldSet(LAMBDA v, total : total + v[2], 0, present)

Newest(runs) == {run \in runs : \A other \in runs : other.at <= run.at}
IsDelivery(run) == Deliveries = {} \/ run.pipeline \in Deliveries \/ run.handover # NONE

(* Slip: only the most recent delivery run is asked.                        *)
LatestDelivery(runs) ==
    LET delivered == {run \in runs : IsDelivery(run)}
    IN  IF delivered = {} THEN NONE
        ELSE LET run == CHOOSE n \in Newest(delivered) : TRUE
             IN  IF run.handover # NONE THEN "PASS"
                 ELSE IF run.status = "PASS" /\ ShipRule THEN "UNSHIPPED" ELSE run.status

OutcomeOf(runs) ==
    LET delivered == {run \in runs : IsDelivery(run)}
        status    == IF delivered = {} THEN NONE
                     ELSE (CHOOSE n \in Newest(delivered) : TRUE).status
    IN  IF ShipRule /\ \E run \in runs : run.handover # NONE THEN "PASS"
        ELSE IF status = "PASS" /\ ShipRule THEN "UNSHIPPED" ELSE status

\* What the artifacts of the live runs' folders say; NONE when none says anything.
ArtifactKind(runs) ==
    LET folders == {FactsOf[run.run].folder : run \in {r \in runs : r.source = "live"}}
        said    == {artifact[folder] : folder \in folders} \ {NONE}
    IN  IF said = {} THEN NONE ELSE CHOOSE kind \in said : TRUE

(* Slip: the first rule that answers anything answers.                      *)
FirstAnswer(runs) ==
    IF ArtifactKind(runs) # NONE THEN ArtifactKind(runs)
    ELSE PipelineKinds[(CHOOSE n \in Newest(runs) : TRUE).pipeline]

\* An artifact, else the pipeline of the newest run classified for real, else
\* what the archive recorded: `other` never wins over an answer.
TicketKind(runs) ==
    LET classified == {run \in runs : PipelineKinds[run.pipeline] # "other"}
        recorded   == {run \in runs : run.kind \notin {NONE, "other"}}
    IN  IF ArtifactKind(runs) \notin {NONE, "other"} THEN ArtifactKind(runs)
        ELSE IF classified # {}
        THEN PipelineKinds[(CHOOSE n \in Newest(classified) : TRUE).pipeline]
        ELSE IF recorded # {} THEN (CHOOSE n \in Newest(recorded) : TRUE).kind
        ELSE "other"

(* Slip: a ticket is a lower bound only when its newest run is.             *)
NewestLower(runs) == \E run \in Newest(runs) : run.lower
LowerBound(runs)  == \E run \in runs : run.lower

SourceOf(runs) ==
    LET sources == {run.source : run \in runs}
    IN  IF Cardinality(sources) > 1 THEN "mixed" ELSE CHOOSE s \in sources : TRUE

BuildTicket(ticket, runs) ==
    [ticket |-> ticket, runs |-> {run.run : run \in runs},
     usd |-> SumOf({<<run.run, run.usd, run.source>> : run \in runs}),
     unknown |-> LowerBound(runs),
     outcome |-> OutcomeOf(runs), kind |-> TicketKind(runs),
     source |-> SourceOf(runs), rows |-> Cardinality(runs),
     lastAt |-> (CHOOSE n \in Newest(runs) : TRUE).at]

TicketsOf(runs) ==
    {BuildTicket(t, {run \in runs : run.ticket = t}) : t \in {run.ticket : run \in runs}}

(***************************************************************************)
(* What the screen adds up from the tickets it holds.                       *)
(***************************************************************************)
(* Slip: a ticket that shipped nothing falls out of the cards.              *)
StoppedOrRunning(tickets) ==
    {t \in tickets : t.outcome \in {"STOPPED", "ABORTED", "RUNNING", NONE}}

Passed(tickets)     == {t \in tickets : t.outcome = "PASS"}
Failed(tickets)     == {t \in tickets : t.outcome = "FAIL"}
Unfinished(tickets) == {t \in tickets : t.outcome \notin {"PASS", "FAIL"}}

GroupCost(tickets)  == SumOf({<<t.ticket, t.usd>> : t \in tickets})
GroupUnknown(tickets) == \E t \in tickets : t.unknown
Plain(usd) == IF usd = ABSENT THEN 0 ELSE usd

(* Slip: the last day of a period is left out of it.                        *)
InRangeOpen(tickets, from, to) == {t \in tickets : from <= t.lastAt /\ t.lastAt < to}

\* The tickets whose last activity falls in a period, both bounds included.
InRange(tickets, from, to) == {t \in tickets : from <= t.lastAt /\ t.lastAt <= to}

(***************************************************************************)
(* The world the screen reads.                                              *)
(***************************************************************************)
Init ==
    /\ disk = [r \in Runs |-> Absent]
    /\ archive = [r \in Runs |-> Absent]
    /\ artifact = [folder \in Folders |-> NONE]
    /\ got = NoRead /\ shown = {} /\ now = 0 /\ spent = 0 /\ missing = {}

Unread == UNCHANGED <<got, shown>>
Live(r) == OnDisk(r) /\ disk[r].held

Start(r) ==
    /\ ~OnDisk(r) /\ ~Archived(r) /\ r \notin missing /\ now < MaxEvents
    /\ IF IsRoot(r) THEN TRUE ELSE Live(FactsOf[r].parent)
    /\ now' = now + 1
    /\ disk' = [disk EXCEPT ![r] = [status |-> "RUNNING", usd |-> ABSENT, lower |-> FALSE,
                                    ship |-> {}, at |-> now + 1, held |-> TRUE,
                                    kind |-> NONE]]
    /\ Unread /\ UNCHANGED <<archive, artifact, spent, missing>>

Charged(state, lower) ==
    [state EXCEPT !.usd = Plain(@) + 1, !.lower = @ \/ lower, !.at = now + 1]

(* Slip: what a composed run spends stays in its own ledger.                *)
SpendChildOnly(r, lower) ==
    /\ Live(r) /\ now < MaxEvents
    /\ now' = now + 1 /\ spent' = spent + 1
    /\ disk' = [disk EXCEPT ![r] = Charged(@, lower)]
    /\ Unread /\ UNCHANGED <<archive, artifact, missing>>

\* A spend, priced or only bounded; a child's is its parent's too.
Spend(r, lower) ==
    /\ Live(r) /\ now < MaxEvents
    /\ IF IsRoot(r) THEN TRUE ELSE Live(FactsOf[r].parent)
    /\ now' = now + 1 /\ spent' = spent + 1
    /\ disk' = [d \in Runs |-> IF d \in {r, FactsOf[r].parent} THEN Charged(disk[d], lower)
                               ELSE disk[d]]
    /\ Unread /\ UNCHANGED <<archive, artifact, missing>>

\* A shipping step of the run settles.
Ship(r, status) ==
    /\ Live(r) /\ disk[r].ship = {} /\ now < MaxEvents
    /\ now' = now + 1
    /\ disk' = [disk EXCEPT ![r].ship = {status}, ![r].at = now + 1]
    /\ Unread /\ UNCHANGED <<archive, artifact, spent, missing>>

End(r, status) ==
    /\ Live(r) /\ now < MaxEvents
    /\ ~\E child \in Runs : FactsOf[child].parent = r /\ Live(child)
    /\ now' = now + 1
    /\ disk' = [disk EXCEPT ![r].status = status, ![r].at = now + 1, ![r].held = FALSE]
    /\ Unread /\ UNCHANGED <<archive, artifact, spent, missing>>

Classify(folder, kind) ==
    /\ artifact[folder] = NONE
    /\ \E r \in Runs : Live(r) /\ FactsOf[r].folder = folder
    /\ artifact' = [artifact EXCEPT ![folder] = kind]
    /\ Unread /\ UNCHANGED <<disk, archive, now, spent, missing>>

\* The export of a project's runs as they stand.
Copy(r) == [disk[r] EXCEPT !.kind = artifact[FactsOf[r].folder], !.held = FALSE]
Export ==
    /\ \E r \in Runs : OnDisk(r) /\ IsRoot(r)
    /\ archive' = [r \in Runs |-> IF OnDisk(r) /\ IsRoot(r) THEN Copy(r) ELSE archive[r]]
    /\ Unread /\ UNCHANGED <<disk, artifact, now, spent, missing>>

\* A work item's folder is removed, once nothing runs in it.
Remove(folder) ==
    LET gone == {r \in Runs : OnDisk(r) /\ FactsOf[r].folder = folder}
    IN  /\ gone # {} /\ \A r \in gone : ~Live(r)
        /\ disk' = [r \in Runs |-> IF r \in gone THEN Absent ELSE disk[r]]
        /\ artifact' = [artifact EXCEPT ![folder] = NONE]
        /\ missing' = missing \cup {r \in gone : IsRoot(r) /\ archive[r] # Copy(r)}
        /\ Unread /\ UNCHANGED <<archive, now, spent>>

(***************************************************************************)
(* A read of the screen: the live runs, and then the archive.               *)
(***************************************************************************)
(* Slip: the archive is read before the live runs.                          *)
ArchiveFirst == FALSE
LiveFirst == TRUE

ReadLive ==
    /\ got = NoRead
    /\ got' = [at |-> "read", runs |-> IF LiveFirst THEN LiveRuns ELSE ArchivedRuns,
               known |-> {r \in Runs : IsRoot(r) /\ (OnDisk(r) \/ Archived(r))}, since |-> now]
    /\ UNCHANGED <<disk, archive, artifact, shown, now, spent, missing>>

ReadArchive ==
    /\ got.at = "read"
    /\ shown' = TicketsOf(IF LiveFirst THEN Merged(got.runs, ArchivedRuns)
                          ELSE Merged(LiveRuns, got.runs))
    /\ got' = NoRead
    /\ UNCHANGED <<disk, archive, artifact, now, spent, missing>>

Next ==
    \/ \E r \in Runs : \/ Start(r) \/ \E lower \in BOOLEAN : Spend(r, lower)
                       \/ \E s \in Ships : Ship(r, s)
                       \/ \E v \in Endings : End(r, v)
    \/ \E folder \in Folders, kind \in Answers : Classify(folder, kind)
    \/ Export \/ \E folder \in Folders : Remove(folder)
    \/ ReadLive \/ ReadArchive

Spec == Init /\ [][Next]_vars

-----------------------------------------------------------------------------
\* Types, and what a spend ties together: a composed run never holds more than
\* the ledger of the run that composed it.
TypeOK ==
    /\ \A r \in Runs : OnDisk(r) =>
         /\ disk[r].status \in {"RUNNING", "PASS", "FAIL", "STOPPED"}
         /\ disk[r].at \in 1..now
         /\ (~IsRoot(r) /\ OnDisk(FactsOf[r].parent)) =>
                Plain(disk[r].usd) <= Plain(disk[FactsOf[r].parent].usd)
    /\ \A t \in shown : t.kind \in Kinds /\ t.rows >= 1
    /\ got.runs = {} \/ got.at = "read"

Roots == {r \in Runs : IsRoot(r)}
Counted(tickets) == UNION {t.runs : t \in tickets}

\* readStats: a root run known when the read began is in exactly one ticket, once,
\* even when it is exported and its folder removed in the middle of the read.
EachRootOnce ==
    ReadArchive =>
     /\ got.known \ missing \subseteq Counted(shown')
     /\ Counted(shown') \subseteq Roots
     /\ FoldSet(LAMBDA t, rows : rows + t.rows, 0, shown') = Cardinality(Counted(shown'))

\* With nothing spent during the read and every word exported before its removal,
\* the tickets add up to what was spent, the children's spend counted once.
ShownIsSpent ==
    ReadArchive /\ got.since = now /\ missing = {} =>
     Plain(GroupCost(shown')) = spent

\* outcomeOf: a ticket that passed by its handover stays passed whatever its
\* later runs do, as long as none of its runs was lost.
PassStays ==
    ShipRule /\ ReadArchive /\ missing = {} =>
     \A t \in Passed(shown) : \E u \in Passed(shown') : u.ticket = t.ticket

\* ticketKind: a classified ticket does not go back to `other` when another
\* pipeline runs on it or its folder is exported and removed.
KindStays ==
    ReadArchive /\ missing = {} =>
     \A t \in shown : t.kind # "other" =>
         \E u \in shown' : u.ticket = t.ticket /\ u.kind # "other"

\* A spend nobody could price is told of its ticket, and of the card it is in.
BoundIsTold ==
    ReadArchive /\ got.since = now /\ missing = {} =>
     \A r \in Roots : (OnDisk(r) /\ disk[r].lower) \/ (Archived(r) /\ archive[r].lower) =>
         /\ \E t \in shown' : r \in t.runs /\ t.unknown
         /\ GroupUnknown(Passed(shown')) \/ GroupUnknown(Failed(shown'))
              \/ GroupUnknown(Unfinished(shown'))

\* totalsOf: the three cards hold every ticket once and all of its cost.
CardsAddUp ==
    LET cards == <<Passed(shown), Failed(shown), Unfinished(shown)>>
    IN  /\ Cardinality(cards[1]) + Cardinality(cards[2]) + Cardinality(cards[3]) = Cardinality(shown)
        /\ Plain(GroupCost(cards[1])) + Plain(GroupCost(cards[2])) + Plain(GroupCost(cards[3]))
             = Plain(GroupCost(shown))

\* app/lib/stats.ts: two periods that follow each other hold each ticket once, so
\* "the periods add up".
PeriodsAddUp ==
    \A day \in 0..MaxEvents :
        Cardinality(InRange(shown, 0, day)) + Cardinality(InRange(shown, day + 1, MaxEvents))
            = Cardinality(shown)
=============================================================================
