----------------------------- MODULE RunJournal -----------------------------
(***************************************************************************)
(* The journal of a run as the file it is: one file of lines, appended to  *)
(* by the runner, by the raw stream of the backend it runs and by the live *)
(* feed, across deaths and resumes; and what its readers make of it: the   *)
(* classification of a line, the attempts a resume restores, a page of its *)
(* end, the pauses of the run.  Sources: src/run/record                    *)
(* (stores/file-run-event-store.ts, journal-schema.ts, run-journal.ts,     *)
(* attempt-projection.ts, run-timeline.ts), src/run/journal.ts and the     *)
(* live output of src/agents/backends; the pauses are RunJourney's.        *)
(*                                                                         *)
(* A line is the sequence of the pieces that landed between two line       *)
(* breaks; only a piece that is an event whole, or the two halves of one   *)
(* record of a backend, can be read.  Timestamps are the order of writing. *)
(* One step, whose attempts the events name.  Bounds: MaxAttempts,         *)
(* MaxLives, MaxTears (deaths in the middle of a write), MaxRefused (appends *)
(* that fail), MaxFeed (records of a backend and lines of the feed).  Odd  *)
(* holds whether the optional fields of an attempt's start may be of a     *)
(* kind this release does not know, Streams whether a backend streams to   *)
(* the file.                                                               *)
(***************************************************************************)
EXTENDS Integers, FiniteSets, RunJourney

CONSTANTS MaxAttempts, MaxLives, MaxTears, MaxRefused, MaxFeed, Odd, Streams

JournalAssumption ==
  /\ MaxAttempts \in Nat \ {0} /\ MaxLives \in Nat \ {0}
  /\ MaxTears \in Nat /\ MaxRefused \in Nat /\ MaxFeed \in Nat
  /\ Odd \subseteq BOOLEAN /\ Odd # {} /\ Streams \in BOOLEAN

VARIABLES
  file,     \* [lines, tail]: complete lines, and the line no break ended yet
  written,  \* the events written whole, in order
  writer,   \* the invocation of the runner
  stream,   \* whether the backend is in the middle of a record
  spawned,  \* the numbers of the attempts that were let run, in order
  tears, refused, feed

vars == <<file, written, writer, stream, spawned, tears, refused, feed>>

Event(type, n, life, text) == [type |-> type, n |-> n, life |-> life, text |-> text, ts |-> Len(written) + 1,
                               odd |-> FALSE, sound |-> TRUE]
Piece(part, event) == [part |-> part, event |-> event]
RawRecord == [type |-> "raw", n |-> 0, life |-> 0, text |-> None, ts |-> 0, odd |-> FALSE, sound |-> TRUE]
NotAnEvent == [RawRecord EXCEPT !.type = None]

(***************************************************************************)
(* Reading, pure.                                                          *)
(***************************************************************************)
Contracted == {"run.started", "run.resumed", "run.stopped", "decision.recorded",
               "step.attempt.started", "step.attempt.finished"}

ParseLine(line) ==
  IF Len(line) = 1 /\ line[1].part = "whole" THEN line[1].event
  ELSE IF Len(line) = 2 /\ line[1].part = "head" /\ line[2].part = "rest" THEN RawRecord
  ELSE NotAnEvent

\* Only the fields a reader acts on decide; an optional one of an unknown
\* kind reads as absent.
SlipParseJournalEntry(event) ==
  IF event.type = None THEN "skipped"
  ELSE IF event.type \notin Contracted THEN "unknown"
  ELSE IF event.sound /\ ~event.odd THEN "known" ELSE "invalid"
ParseJournalEntry(event) ==
  IF event.type = None THEN "skipped"
  ELSE IF event.type \notin Contracted THEN "unknown"
  ELSE IF event.sound THEN "known" ELSE "invalid"

\* The whole file is split, the line no break ended included; an unreadable
\* line costs only itself.
Classify(lines) ==
  LET parsed == [i \in DOMAIN lines |-> ParseLine(lines[i])]
  IN  SelectSeq(parsed, LAMBDA event : ParseJournalEntry(event) # "skipped")

Entries == Classify(IF file.tail = <<>> THEN file.lines ELSE Append(file.lines, file.tail))
Events == SelectSeq(Entries, LAMBDA event : ParseJournalEntry(event) = "known")

\* The page of the end of the file: a piece counts for two, a break for one.
Size(line) == 2 * Len(line) + 1
StartOf(i) == FoldLeft(LAMBDA acc, line : acc + Size(line), 0, SubSeq(file.lines, 1, i - 1))
FileSize == StartOf(Len(file.lines) + 1) + 2 * Len(file.tail)

\* The line the window cuts is discarded, and so is one no break ended yet.
SlipReadTail(window) ==
  LET start == IF FileSize > window THEN FileSize - window ELSE 0
      cut == {i \in DOMAIN file.lines : StartOf(i) < start /\ start < StartOf(i + 1)}
      whole == {i \in DOMAIN file.lines : StartOf(i) >= start}
      rest == {i \in cut : start - StartOf(i) >= 2 /\ Len(file.lines[i]) > 1}
      from == SubSeq(file.lines, Len(file.lines) - Cardinality(whole) + 1, Len(file.lines))
  IN  IF rest = {} THEN Classify(from)
      ELSE Classify(<<Tail(file.lines[CHOOSE i \in rest : TRUE])>> \o from)
ReadTail(window) ==
  LET start == IF FileSize > window THEN FileSize - window ELSE 0
      whole == {i \in DOMAIN file.lines : start = 0 \/ StartOf(i) > start}
  IN  Classify(SubSeq(file.lines, Len(file.lines) - Cardinality(whole) + 1, Len(file.lines)))

\* The attempts of the step: a start registers one as running, a finish
\* closes it, and is kept without its start.
ProjectStepAttempts(events) ==
  FoldLeft(LAMBDA acc, event :
             IF event.type = "step.attempt.started" THEN [acc EXCEPT ![event.n] = "running"]
             ELSE IF event.type = "step.attempt.finished" THEN [acc EXCEPT ![event.n] = event.text]
             ELSE acc,
           [n \in 1..MaxAttempts |-> None], events)

MaxOf(set) == IF set = {} THEN 0 ELSE CHOOSE n \in set : \A m \in set : m <= n
SlipNextAttemptNumber(last, seen) == Cardinality(seen) + 1
NextAttemptNumber(last, seen) == MaxOf({last, MaxOf(seen), Cardinality(seen)}) + 1

(***************************************************************************)
(* Writing.                                                                *)
(***************************************************************************)
Dead == [alive |-> FALSE, life |-> 0, todo |-> <<>>, open |-> 0, last |-> 0, seen |-> {}, ending |-> FALSE, snap |-> 0]

Init ==
  /\ file = [lines |-> <<>>, tail |-> <<>>] /\ written = <<>> /\ writer = Dead
  /\ stream = FALSE /\ spawned = <<>> /\ tears = 0 /\ refused = 0 /\ feed = 0

SlipLanded(piece, broken) ==
  LET line == Append(file.tail, piece)
  IN  [lines |-> <<line>> \o file.lines, tail |-> <<>>]
Landed(piece, broken) ==
  LET line == Append(file.tail, piece)
  IN  IF broken THEN [lines |-> Append(file.lines, line), tail |-> <<>>] ELSE [file EXCEPT !.tail = line]

Ready == writer.alive /\ writer.todo = <<>> /\ ~writer.ending
Todo(events) == writer' = [writer EXCEPT !.todo = events]

\* A run is created, or opened again: the attempts its journal leaves open
\* are settled first, then the resume is journaled, then the decision the
\* invocation recorded.
Open(decision) ==
  /\ ~writer.alive /\ writer.life < MaxLives
  /\ LET life == writer.life + 1
         attempts == ProjectStepAttempts(Events)
         numbers == {n \in 1..MaxAttempts : attempts[n] # None}
         crashed == {n \in numbers : attempts[n] = "running"}
         settles == [i \in 1..Cardinality(crashed) |->
                       Event("step.attempt.finished", SetToSortSeq(crashed, <)[i], life, "failed")]
     IN  writer' = [Dead EXCEPT !.alive = TRUE, !.life = life, !.last = writer.snap, !.snap = writer.snap, !.seen = numbers,
           !.todo = IF life = 1 THEN <<Event("run.started", 0, life, None)>>
                    ELSE settles \o <<Event("run.resumed", 0, life, None)>>
                         \o (IF decision = None THEN <<>> ELSE <<Event("decision.recorded", 0, life, decision)>>)]
  /\ UNCHANGED <<file, written, stream, spawned, tears, refused, feed>>

Write ==
  /\ writer.alive /\ writer.todo # <<>> /\ Head(writer.todo).type # "save"
  /\ LET event == [Head(writer.todo) EXCEPT !.ts = Len(written) + 1]
     IN  file' = Landed(Piece("whole", event), TRUE) /\ written' = Append(written, event)
  /\ writer' = [writer EXCEPT !.todo = Tail(@)]
  /\ UNCHANGED <<stream, spawned, tears, refused, feed>>

\* An append that fails is reported once and interrupts nothing.
Refuse ==
  /\ writer.alive /\ writer.todo # <<>> /\ Head(writer.todo).type # "save"
  /\ refused < MaxRefused /\ refused' = refused + 1
  /\ writer' = [writer EXCEPT !.todo = Tail(@)]
  /\ UNCHANGED <<file, written, stream, spawned, tears, feed>>

\* The snapshot is saved before the attempt it opened is spawned.
Save ==
  /\ writer.alive /\ writer.todo # <<>> /\ Head(writer.todo).type = "save"
  /\ writer' = [writer EXCEPT !.todo = Tail(@), !.snap = writer.last]
  /\ spawned' = IF writer.open = 0 THEN spawned ELSE Append(spawned, writer.open)
  /\ UNCHANGED <<file, written, stream, tears, refused, feed>>

Saving == Event("save", 0, writer.life, None)

Attempt(odd) ==
  LET n == NextAttemptNumber(writer.last, writer.seen)
  IN  /\ Ready /\ writer.open = 0 /\ n <= MaxAttempts
      /\ writer' = [writer EXCEPT !.open = n, !.last = n, !.seen = @ \cup {n},
           !.todo = <<[Event("step.attempt.started", n, writer.life, None) EXCEPT !.odd = odd], Saving>>]
      /\ UNCHANGED <<file, written, stream, spawned, tears, refused, feed>>

\* The backend ended, was killed in the middle of a record or not.
Finish ==
  /\ Ready /\ writer.open # 0
  /\ writer' = [writer EXCEPT !.open = 0,
       !.todo = <<Event("step.attempt.finished", writer.open, writer.life, "done"), Saving>>]
  /\ stream' = FALSE /\ UNCHANGED <<file, written, spawned, tears, refused, feed>>

Stop(reason) ==
  /\ Ready /\ writer.open = 0
  /\ writer' = [writer EXCEPT !.ending = TRUE, !.todo = <<Event("run.stopped", 0, writer.life, reason)>>]
  /\ UNCHANGED <<file, written, stream, spawned, tears, refused, feed>>

Exit ==
  /\ writer.ending /\ writer.alive /\ writer.todo = <<>>
  /\ writer' = [writer EXCEPT !.alive = FALSE] /\ UNCHANGED <<file, written, stream, spawned, tears, refused, feed>>

\* The runner dies, between two writes or in the middle of one.
Die(torn) ==
  /\ writer.alive
  /\ IF torn
     THEN /\ tears < MaxTears /\ tears' = tears + 1
          /\ writer.todo # <<>> /\ Head(writer.todo).type # "save"
          /\ file' = Landed(Piece("torn", Head(writer.todo)), FALSE)
     ELSE UNCHANGED <<file, tears>>
  /\ writer' = [writer EXCEPT !.alive = FALSE, !.todo = <<>>] /\ stream' = FALSE
  /\ UNCHANGED <<written, spawned, refused, feed>>

\* The output of a backend goes to the file as it arrives, never between two
\* synchronous writes of the runner.
AppendLiveOutput ==
  /\ Streams /\ Ready /\ writer.open # 0
  /\ IF stream THEN feed' = feed ELSE feed < MaxFeed /\ feed' = feed + 1
  /\ file' = Landed(Piece(IF stream THEN "rest" ELSE "head", RawRecord), stream)
  /\ stream' = ~stream /\ UNCHANGED <<written, writer, spawned, tears, refused>>

\* A line of the live feed, or an event whose fields are refused.
Feed(sound) ==
  /\ Ready /\ feed < MaxFeed /\ feed' = feed + 1
  /\ LET event == IF sound THEN RawRecord ELSE [RawRecord EXCEPT !.type = "step.attempt.started", !.sound = FALSE]
     IN  file' = Landed(Piece("whole", event), TRUE)
  /\ UNCHANGED <<written, writer, stream, spawned, tears, refused>>

Next ==
  \/ \E decision \in {None, "approved", "rejected"} : Open(decision)
  \/ Write \/ Refuse \/ Save \/ (\E odd \in Odd : Attempt(odd)) \/ Finish
  \/ (\E reason \in {"gate", "budget"} : Stop(reason)) \/ Exit
  \/ (\E torn \in BOOLEAN : Die(torn))
  \/ AppendLiveOutput \/ (\E sound \in BOOLEAN : Feed(sound))

Spec == Init /\ [][Next]_vars

----------------------------------------------------------------------------
Lost == LET read == {Events[j].ts : j \in DOMAIN Events} IN DOMAIN written \ read

\* Shape of the state; what is read was written, in the order it was.
TypeOK ==
  /\ writer.life \in 0..MaxLives /\ tears \in 0..MaxTears /\ feed \in 0..MaxFeed
  /\ LET events == Events IN \A i \in 1..(Len(events) - 1) : events[i].ts < events[i + 1].ts

\* A death in the middle of a write costs at most one event that was written
\* whole, the next one; a payload of a later release costs none.
TearLosesOne == Cardinality(Lost) <= tears

\* No two attempts of a step that ran bear one number, so none writes in the
\* log of another: not after a torn line, a refused append, nor a death
\* before the snapshot.
NumbersNeverReused == \A i, j \in DOMAIN spawned : i # j => spawned[i] # spawned[j]

\* What a page of the end shows is the end of what the whole file shows,
\* wherever the window falls: the rest of a cut line is never an event.
TailAgrees ==
  LET entries == Entries IN \A window \in 1..FileSize : IsSuffix(ReadTail(window), entries)

\* A pause begins after the one before it ended and has no end only while
\* nothing follows it; its reason is that of a stop of the work before it, and
\* its decision the one of the invocation that ended it.
PausesTellTheirStop ==
  LET pauses == PausesOf(Events)
      before(i) == IF i = 1 THEN 0 ELSE pauses[i - 1].to
  IN  \A i \in DOMAIN pauses :
        /\ before(i) <= pauses[i].from
        /\ IF pauses[i].to = 0 THEN i = Len(pauses) /\ pauses[i].from = Len(written)
           ELSE pauses[i].from < pauses[i].to
        /\ pauses[i].reason # None =>
             \E e \in DOMAIN written : /\ written[e].type = "run.stopped" /\ written[e].text = pauses[i].reason
                                       /\ before(i) < e /\ e <= pauses[i].from
        /\ \A e \in DOMAIN written :
             (written[e].type = "decision.recorded" /\ pauses[i].to # 0 /\ written[e].life = written[pauses[i].to].life)
               => pauses[i].decision = written[e].text

\* run-journey.ts: a runner that died without journaling a stop still shows
\* its gap, a pause from the last line of the work before.
GapIsShown ==
  LET pauses == PausesOf(Events)
  IN  \A i \in DOMAIN pauses : pauses[i].to # 0 => written[pauses[i].from].life < written[pauses[i].to].life

\* The store says of a line a crash truncated: the remainder of the log is
\* still valid and must survive the resume.
RemainderSurvives == Lost = {}

\* architecture.md: no line of the run journal is ever discarded.
NoLineIsDiscarded == \A i \in Lost : written[i].type # "step.attempt.finished"
=============================================================================
