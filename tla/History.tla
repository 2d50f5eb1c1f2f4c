------------------------------ MODULE History ------------------------------
(***************************************************************************)
(* The history of runs, pipeline-history/runs.jsonl.                       *)
(*   run/stats/run-stats-sink.ts         one line per run, under a lock    *)
(*   run/stats/run-stats-projection.ts, run-stats-projector.ts, run-stats.ts *)
(*                                       what the line of a run says       *)
(*   run/stats/history-reader.ts, history-schema.ts, stats-core.ts,        *)
(*   entry/commands/stats.ts             what is summed and printed of it  *)
(*                                                                         *)
(* Writers are processes that end a run, one call of emitRunStats each; a  *)
(* run is written again when it is resumed.  The lock is a directory.      *)
(* Times are two facts: a lock is older than LOCK_STALE_MS or not, and a   *)
(* writer gives up when its deadline has passed.  A line is an entry, or   *)
(* Bad when it does not parse.  A run has two steps, each with one of the  *)
(* measures costStatusOf tells apart; the dollars of a run are its own     *)
(* ledger's, and a child's are in its parent's ledger too.  Labels, dates  *)
(* as text, tokens, profiles, git values and layout are left out.          *)
(***************************************************************************)
EXTENDS Naturals, Sequences, FiniteSets, FiniteSetsExt, SequencesExt

CONSTANTS Writers, RunOf, ParentOf, \* who writes which run, and the run that composed it
          Roots, Children, \* the runs
          NoRun,
          OldFiles,    \* the lines a file may start with
          Measures,    \* what a step may report, see StepMeasures
          Statuses, Dates, \* what a line may say of its run's end and start; 0 for no date
          MaxDeaths,
          TornAppends  \* may a death leave part of an appended line

VARIABLES
    file,    \* the lines
    open,    \* the last line has no end of line
    lock,    \* [held, by, old]
    w,       \* by writer: [at, entry, lines]
    ledger,  \* by run: dollars spent, children included
    deaths,
    robbed,  \* history: a removal meant for an old lock met one that was just made
    wrote    \* history: by run, the entry of its last completed write
vars == <<file, open, lock, w, ledger, deaths, robbed, wrote>>

RunIds == Roots \cup Children
Bad == [run |-> NoRun]
NoEntry == Bad
Parsable(line) == line # Bad
Free == [held |-> FALSE, by |-> NoRun, old |-> FALSE]

TypeOK ==
    /\ \A i \in 1..Len(file) : file[i].run \in RunIds \cup {NoRun}
    /\ open => file # <<>> /\ ~Parsable(Last(file))
    /\ lock.held \in BOOLEAN /\ (~lock.held => lock = Free)
    /\ \A p \in Writers : w[p].at \in {"idle", "asking", "looking", "stale", "reading", "writing", "releasing",
                                       "done", "lost", "dead"}
    /\ ledger \in [RunIds -> Nat] /\ robbed \in BOOLEAN

-----------------------------------------------------------------------------
(* The line of a run. *)

\* exact: the provider's figure.  estimated: a rate table's.  mixed: an amount with unpriced attempts
\* beside it.  unpriced: no amount at all.  none: a step with no agent.  cut: interrupted, no report.
StepMeasures == {"none", "exact", "estimated", "mixed", "unpriced", "cut"}

CostStatus(m) == CASE m \in {"estimated", "mixed"} -> "partial" [] m \in {"unpriced", "cut"} -> "unavailable" [] OTHER -> "known"
\* Slip: the last step decides.
MergeLast(current, next) == IF next = "known" THEN current ELSE next
Merge(current, next) == CASE next = "known" -> current [] current = "known" -> next
                          [] "partial" \in {current, next} -> "partial" [] OTHER -> "unavailable"

\* costIsLowerBound: one unpriced attempt of one step.
LowerBound(ms) == \E i \in 1..2 : ms[i] \in {"mixed", "unpriced", "cut"}
Figured(ms) == \E i \in 1..2 : ms[i] \in {"exact", "estimated", "mixed"}

\* projectRunStatsEntry.  An amount is there when a step reported one.
Entry(run, ms, status, at, spent) ==
    [run |-> run, parent |-> ParentOf[run], status |-> status, at |-> at, steps |-> ms,
     usd |-> IF Figured(ms) THEN {spent} ELSE {},
     costStatus |-> Merge(Merge("known", CostStatus(ms[1])), CostStatus(ms[2])),
     costUnknown |-> LowerBound(ms)]

-----------------------------------------------------------------------------
(* The sink. *)

Goto(p, at) == w' = [w EXCEPT ![p].at = at]

\* The run spends, ends and is written.  A child's spend is in its parent's ledger.
Emit(p) ==
    LET r == RunOf[p]
        spent == [x \in RunIds |-> ledger[x] + (IF x \in {r, ParentOf[r]} THEN 1 ELSE 0)]
    IN /\ w[p].at = "idle"
       /\ \A q \in Writers : RunOf[q] = r => w[q].at \in {"idle", "done", "lost", "dead"}
       /\ ledger' = spent
       /\ \E ms \in [1..2 -> Measures], s \in Statuses, d \in Dates :
            w' = [w EXCEPT ![p] = [at |-> "asking", entry |-> Entry(r, ms, s, d, spent[r]), lines |-> <<>>]]
       /\ UNCHANGED <<file, open, lock, deaths, robbed, wrote>>

\* mkdir: one of those that ask gets the lock.
MkDir(p) ==
    /\ w[p].at = "asking"
    /\ lock' = IF lock.held THEN lock ELSE [held |-> TRUE, by |-> p, old |-> FALSE]
    /\ Goto(p, IF lock.held THEN "looking" ELSE "reading")
    /\ UNCHANGED <<file, open, ledger, deaths, robbed, wrote>>

\* Slip: the wait ends in a write without the lock.
LookImpatient(p) == IF lock.held /\ lock.old THEN "stale" ELSE "reading"
\* stat: a lock that is gone or young is asked for again.
Look(p) == IF lock.held /\ lock.old THEN "stale" ELSE "asking"
LookAt(p) ==
    /\ w[p].at = "looking"
    /\ Goto(p, Look(p))
    /\ UNCHANGED <<file, open, lock, ledger, deaths, robbed, wrote>>
\* rmdir, whatever became of the lock that was found old.
RemoveStale(p) ==
    /\ w[p].at = "stale"
    /\ lock' = Free /\ Goto(p, "asking")
    /\ robbed' = (robbed \/ (lock.held /\ ~lock.old))
    /\ UNCHANGED <<file, open, ledger, deaths, wrote>>
\* The deadline: the entry is dropped, the run is not affected.
GiveUp(p) ==
    /\ w[p].at = "looking" /\ lock.held /\ ~lock.old
    /\ Goto(p, "lost")
    /\ UNCHANGED <<file, open, lock, ledger, deaths, robbed, wrote>>

Same(line, e) == Parsable(line) /\ line.run = e.run
Found(lines, e) == \E i \in 1..Len(lines) : Same(lines[i], e)
\* Slip: every line of the run is replaced.
ReplaceEvery(lines, e) == [i \in 1..Len(lines) |-> IF Same(lines[i], e) THEN e ELSE lines[i]]
\* Slip: lines that do not parse are dropped with the rewrite.
ReplaceParsed(lines, e) ==
    LET first == CHOOSE i \in 1..Len(lines) : Same(lines[i], e) /\ \A j \in 1..(i - 1) : ~Same(lines[j], e)
        put == [i \in 1..Len(lines) |-> IF i = first THEN e ELSE IF Same(lines[i], e) THEN Bad ELSE lines[i]]
    IN SelectSeq(put, Parsable)
\* The first line of the run is replaced, later ones are dropped, others are kept as they are.
Replace(lines, e) ==
    LET first == CHOOSE i \in 1..Len(lines) : Same(lines[i], e) /\ \A j \in 1..(i - 1) : ~Same(lines[j], e)
        kept == SetToSortSeq({i \in 1..Len(lines) : i = first \/ ~Same(lines[i], e)}, <)
    IN [k \in 1..Len(kept) |-> IF kept[k] = first THEN e ELSE lines[kept[k]]]
\* appendFileSync: what follows a line that has no end joins it.
Append1(lines, e) == IF open THEN Front(lines) \o <<Bad>> ELSE lines \o <<e>>

ReadFile(p) ==
    /\ w[p].at = "reading"
    /\ w' = [w EXCEPT ![p].at = "writing", ![p].lines = file]
    /\ UNCHANGED <<file, open, lock, ledger, deaths, robbed, wrote>>
Write(p) ==
    LET e == w[p].entry IN
    /\ w[p].at = "writing"
    /\ file' = IF Found(w[p].lines, e) THEN Replace(w[p].lines, e) ELSE Append1(file, e)
    /\ open' = FALSE
    /\ wrote' = [wrote EXCEPT ![e.run] = e]
    /\ Goto(p, "releasing")
    /\ UNCHANGED <<lock, ledger, deaths, robbed>>
\* Slip: the holder of a lock that is gone stays known.
ReleaseHalf(p) ==
    /\ w[p].at = "releasing"
    /\ lock' = [lock EXCEPT !.held = FALSE] /\ Goto(p, "done")
    /\ UNCHANGED <<file, open, ledger, deaths, robbed, wrote>>
\* rmdir, whoever made the directory that is there now.
Release(p) ==
    /\ w[p].at = "releasing"
    /\ lock' = Free /\ Goto(p, "done")
    /\ UNCHANGED <<file, open, ledger, deaths, robbed, wrote>>

Working == {"asking", "looking", "stale", "reading", "writing", "releasing"}
\* A death before the write leaves the file as it was, one within an append may leave part of a line.
Die(p) ==
    /\ deaths < MaxDeaths /\ w[p].at \in Working
    /\ deaths' = deaths + 1
    /\ Goto(p, "dead")
    /\ \/ UNCHANGED <<file, open>>
       \/ /\ TornAppends /\ w[p].at = "writing" /\ ~Found(w[p].lines, w[p].entry)
          /\ file' = (IF open THEN file ELSE Append(file, Bad)) /\ open' = TRUE
    /\ UNCHANGED <<lock, ledger, robbed, wrote>>
\* A critical section is a read and a write: only a dead writer's lock gets old.
GrowOld ==
    /\ lock.held /\ ~lock.old /\ w[lock.by].at = "dead"
    /\ lock' = [lock EXCEPT !.old = TRUE]
    /\ UNCHANGED <<file, open, w, ledger, deaths, robbed, wrote>>

Init ==
    /\ file \in OldFiles /\ open = FALSE /\ lock = Free
    /\ w = [p \in Writers |-> [at |-> "idle", entry |-> NoEntry, lines |-> <<>>]]
    /\ ledger = [r \in RunIds |-> 0] /\ deaths = 0
    /\ robbed = FALSE /\ wrote = [r \in RunIds |-> NoEntry]

\* Slip: the lock is not released.
EmittingHeld(p) == MkDir(p) \/ LookAt(p) \/ RemoveStale(p) \/ ReadFile(p) \/ Write(p)
Emitting(p) == MkDir(p) \/ LookAt(p) \/ RemoveStale(p) \/ ReadFile(p) \/ Write(p) \/ Release(p)
Next == (\E p \in Writers : Emit(p) \/ Emitting(p) \/ GiveUp(p) \/ Die(p)) \/ GrowOld
Spec == Init /\ [][Next]_vars
\* A writer runs on, a lock gets old, and one that keeps asking gets it or gives up at its deadline.
FairSpec == /\ Spec /\ WF_vars(GrowOld)
            /\ \A p \in Writers : WF_vars(Emitting(p)) /\ SF_vars(GiveUp(p))

-----------------------------------------------------------------------------
(* What is read of it. *)

\* Slip: the spend of a child is summed beside its parent's.
IsChildNever(e) == FALSE
IsChild(e) == e.parent # NoRun
Filters == [children : BOOLEAN, failures : BOOLEAN, since : Dates]
Kept(f, e) ==
    /\ f.children \/ ~IsChild(e)
    /\ f.failures => e.status # "PASS"
    /\ f.since # 0 => e.at # 0 /\ e.at >= f.since

Entries(lines) == {i \in 1..Len(lines) : Parsable(lines[i])}
Listed(f, lines) == {i \in Entries(lines) : Kept(f, lines[i])}
\* entryCost: the runner's amount, else the pricing table over the models, when it prices them all.
Cost(e, table) == IF e.usd # {} THEN e.usd
                  ELSE IF table /\ \A i \in 1..2 : e.steps[i] # "unpriced" THEN {0} ELSE {}

SumUsd(lines, S, table) == FoldSet(LAMBDA i, acc : acc + (CHOOSE c \in Cost(lines[i], table) : TRUE), 0, S)
\* aggregateHistory and the count of children summarizeHistory adds.
Summary(f, lines, table) ==
    LET all == Listed(f, lines)
        priced == {i \in all : Cost(lines[i], table) # {}}
    IN [runs |-> Cardinality(all),
        usd |-> SumUsd(lines, priced, table),
        missing |-> Cardinality(all \ priced),
        estimated |-> Cardinality({i \in priced : lines[i].usd = {} \/ lines[i].costStatus = "partial"}),
        under |-> Cardinality({i \in priced : lines[i].costUnknown}),
        skipped |-> Cardinality(Listed([f EXCEPT !.children = TRUE], lines)) - Cardinality(all)]

\* costLine: what stands beside the amount.
Told(s) == IF s.missing = s.runs THEN {"unavailable"}
           ELSE {m \in {"floor", "estimated", "excluded"} :
                   CASE m = "floor" -> s.under > 0 [] m = "estimated" -> s.estimated > 0 [] OTHER -> s.missing > 0}

Quiet == \A p \in Writers : w[p].at \in {"idle", "done", "lost", "dead"}
All == [children |-> FALSE, failures |-> FALSE, since |-> 0]

-----------------------------------------------------------------------------
(* Properties. *)

\* The read and the rewrite of the file are one writer's at a time, whoever dies, waits and reclaims: two
\* meet there only once a removal meant for a dead writer's lock took one that was just made.
OneRewriter == ~robbed => \A p, q \in Writers : {w[p].at, w[q].at} \subseteq {"reading", "writing"} => p = q

\* A line that was written stays until its own run writes it again, and a run has one line, whoever else
\* writes and dies meanwhile, as long as no lock that was just made is removed for an old one.
NoLineLost == ~robbed => \A r \in RunIds : wrote[r] # NoEntry =>
    \E i \in 1..Len(file) : file[i] = wrote[r] /\ \A j \in 1..Len(file) \ {i} : ~Same(file[j], wrote[r])

\* A line that does not parse is nobody's to remove.
BadIsKept == \A i \in 1..Len(file) : ~Parsable(file[i]) =>
                Cardinality({j \in 1..Len(file') : ~Parsable(file'[j])})
                  >= Cardinality({j \in 1..Len(file) : ~Parsable(file[j])})

\* Every dollar a root run recorded is in the total once: a run resumed is not added to itself, nor a
\* child to its parent.
SpentOnce == Quiet /\ OldFiles = {<<>>} =>
    Summary(All, file, FALSE).usd
      = FoldSet(LAMBDA r, acc : acc + (IF wrote[r] = NoEntry \/ wrote[r].usd = {} THEN 0
                                       ELSE CHOOSE u \in wrote[r].usd : TRUE), 0, Roots)

\* Nothing is printed bare of a total that holds a guess: a floor, an estimate or a run left out is told.
TotalsHonest == Quiet => \A f \in Filters, table \in BOOLEAN :
    LET s == Summary(f, file, table)
        steps == {<<i, k>> \in Listed(f, file) \X (1..2) : TRUE}
        kinds == {file[x[1]].steps[x[2]] : x \in steps}
    IN s.runs > 0 =>
         /\ kinds \cap {"mixed", "unpriced", "cut"} # {} => Told(s) \cap {"floor", "excluded", "unavailable"} # {}
         /\ kinds \cap {"estimated", "mixed"} # {} => "estimated" \in Told(s)
         /\ kinds \subseteq {"exact"} => Told(s) = {}

\* Contradicted by two writers that find the same old lock, and checked by no run: "Cross-process mutual
\* exclusion around the read-modify-write" (run-stats-sink.ts:15).
OneRewriterAlways == \A p, q \in Writers : {w[p].at, w[q].at} \subseteq {"reading", "writing"} => p = q
=============================================================================
