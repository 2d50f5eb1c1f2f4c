---------------------------- MODULE RunTimeline ----------------------------
(***************************************************************************)
(* The timeline of the Run tab: a run that works, stops, dies and is       *)
(* resumed, and what is drawn of it at any instant from its journal alone  *)
(* (the spans and tones of its attempts, its pauses and episodes, the      *)
(* scale that compresses the waits, the axis and the takeaways).  Sources: *)
(* src/dashboard/ui/app/lib/run-timeline.ts over the journey of            *)
(* src/dashboard/read-model/run-journey.ts (RunJourney).                   *)
(*                                                                         *)
(* The instants of the journal start at 1, those of the timeline at 0.     *)
(* Plan is the recap: its steps in order.  ModelOf and CostOf are what the *)
(* attempts and the ledger say of a step; MainModel the costliest model.   *)
(* NotableMs and TickSteps are the constants of the source, MinWidth the   *)
(* millisecond a compressed pause takes at least, in hundredths of an      *)
(* instant; StartMs is the epoch of the run.  The share of a pause (0.09)  *)
(* and the gap of labels (9 %) are kept; a position is a fraction.         *)
(* Bounds: MaxNow, MaxAttempts, MaxLives.                                  *)
(***************************************************************************)
EXTENDS Integers, FiniteSets, RunJourney

CONSTANTS Plan, ModelOf, CostOf, MainModel, NotableMs, TickSteps, MinWidth, StartMs, MaxNow, MaxAttempts, MaxLives

StepIds == ToSet(Plan)

TimelineAssumption ==
  /\ NotableMs \in Nat /\ MinWidth \in Nat \ {0} /\ StartMs \in Nat /\ MaxNow \in Nat /\ MaxAttempts \in Nat /\ MaxLives \in Nat \ {0}
  /\ TickSteps \in Seq(Nat \ {0}) /\ TickSteps # <<>> /\ \A s \in StepIds : CostOf[s] \in Nat

VARIABLES
  events,  \* the journal
  now,
  runner,  \* [alive, open, life]: open is the step of the attempt it runs, or None
  ended,   \* whether the run passed
  up       \* the instants a runner was alive in, which no reader sees

vars == <<events, now, runner, ended, up>>

Event(type, step, text, took) == [type |-> type, step |-> step, text |-> text, took |-> took, ts |-> now]
Attempts == SelectSeq(events, LAMBDA event : event.type = "step.attempt.started")

(***************************************************************************)
(* The run.  An instant holds at most one of its transitions.              *)
(***************************************************************************)
Fresh == Last(events).ts < now

Init ==
  /\ events = <<[type |-> "run.started", step |-> None, text |-> None, took |-> 0, ts |-> 1]>>
  /\ now = 1 /\ runner = [alive |-> TRUE, open |-> None, life |-> 1] /\ ended = FALSE /\ up = {}

Tick ==
  /\ now < MaxNow /\ now' = now + 1
  /\ up' = IF runner.alive THEN up \cup {now} ELSE up
  /\ UNCHANGED <<events, runner, ended>>

Attempt(step) ==
  /\ Fresh /\ runner.alive /\ runner.open = None /\ Len(Attempts) < MaxAttempts
  /\ events' = Append(events, Event("step.attempt.started", step, None, 0))
  /\ runner' = [runner EXCEPT !.open = step] /\ UNCHANGED <<now, ended, up>>

Finish(status) ==
  /\ Fresh /\ runner.alive /\ runner.open # None
  /\ events' = Append(events, Event("step.attempt.finished", runner.open, status, now - Last(Attempts).ts))
  /\ runner' = [runner EXCEPT !.open = None] /\ UNCHANGED <<now, ended, up>>

Stop ==
  /\ Fresh /\ runner.alive /\ runner.open = None
  /\ events' = Append(events, Event("run.stopped", None, "gate", 0))
  /\ runner' = [runner EXCEPT !.alive = FALSE] /\ UNCHANGED <<now, ended, up>>

Pass ==
  /\ Fresh /\ runner.alive /\ runner.open = None
  /\ events' = Append(events, Event("run.finished", None, None, 0))
  /\ runner' = [runner EXCEPT !.alive = FALSE] /\ ended' = TRUE /\ UNCHANGED <<now, up>>

Die ==
  /\ runner.alive /\ runner' = [runner EXCEPT !.alive = FALSE] /\ UNCHANGED <<events, now, ended, up>>

\* The attempt its runner died in is settled first, at the instant of the
\* resume, with no figures.
Resume ==
  /\ Fresh /\ ~runner.alive /\ ~ended /\ runner.life < MaxLives
  /\ events' = (IF runner.open = None THEN events
                ELSE Append(events, Event("step.attempt.finished", runner.open, "failed", 0)))
               \o <<Event("run.resumed", None, None, 0)>>
  /\ runner' = [alive |-> TRUE, open |-> None, life |-> runner.life + 1] /\ UNCHANGED <<now, ended, up>>

Next ==
  \/ Tick \/ (\E step \in StepIds : Attempt(step)) \/ (\E status \in {"done", "failed"} : Finish(status))
  \/ Stop \/ Pass \/ Die \/ Resume

Spec == Init /\ [][Next]_vars

(***************************************************************************)
(* The timeline.                                                           *)
(***************************************************************************)
At(ts) == ts - 1
Live == runner.alive
MaxOf(set) == CHOOSE n \in set : \A m \in set : m <= n
SumOf(list) == FoldLeft(LAMBDA acc, n : acc + n, 0, list)
Over(list, value(_)) == SumOf([i \in DOMAIN list |-> value(list[i])])

\* The attempts of the journey, in the order they started.
SlipJourney ==
  FoldLeft(LAMBDA acc, event :
    IF event.type = "step.attempt.started"
      THEN Append(acc, [step |-> event.step, ts |-> event.ts, end |-> 0, took |-> 0, status |-> "running"])
    ELSE IF event.type = "step.attempt.finished"
      THEN [i \in DOMAIN acc |-> IF acc[i].step # event.step THEN acc[i]
                                 ELSE [acc[i] EXCEPT !.end = event.ts, !.took = event.took, !.status = event.text]]
    ELSE acc, <<>>, events)
Journey ==
  FoldLeft(LAMBDA acc, event :
    IF event.type = "step.attempt.started"
      THEN Append(acc, [step |-> event.step, ts |-> event.ts, end |-> 0, took |-> 0, status |-> "running"])
    ELSE IF event.type = "step.attempt.finished"
      THEN [acc EXCEPT ![Len(acc)].end = event.ts, ![Len(acc)].took = event.took, ![Len(acc)].status = event.text]
    ELSE acc, <<>>, events)

IsAgent(step) == ModelOf[step] # None \/ CostOf[step] > 0

ToneOf(attempt, previous) ==
  IF attempt.status = "running" THEN IF Live THEN "running" ELSE "fail"
  ELSE IF attempt.status = "failed" THEN "fail"
  ELSE IF previous = "done" THEN "replay"
  ELSE IF ~IsAgent(attempt.step) THEN "command"
  ELSE IF ModelOf[attempt.step] \notin {None, MainModel} THEN "other-model" ELSE "agent"

\* An attempt with no end runs still, or is drawn of its known length.
EndOf(attempt, tone) ==
  LET from == At(attempt.ts)
      end == IF attempt.end # 0 THEN At(attempt.end) ELSE IF tone = "running" THEN At(now) ELSE from + attempt.took
  IN  MaxOf({end, from})

Drawn(step) ==
  FoldLeft(LAMBDA acc, attempt :
    LET tone == ToneOf(attempt, IF acc = <<>> THEN None ELSE Last(acc).status)
    IN  IF attempt.step # step THEN acc
        ELSE Append(acc, [from |-> At(attempt.ts), to |-> EndOf(attempt, tone), tone |-> tone, status |-> attempt.status]),
    <<>>, Journey)

\* The closed pauses that lasted.
Pauses ==
  FoldLeft(LAMBDA acc, pause :
    IF pause.from < pause.to
    THEN Append(acc, [from |-> At(pause.from), to |-> At(pause.to), reason |-> pause.reason]) ELSE acc,
    <<>>, PausesOf(events))

LastEnd ==
  MaxOf({0} \cup UNION {{span.to : span \in ToSet(Drawn(step))} : step \in StepIds}
            \cup {At(IF pause.to = 0 THEN pause.from ELSE pause.to) : pause \in ToSet(PausesOf(events))})
SlipEndMs == IF Live THEN At(now) ELSE MaxOf({0} \cup {pause.to : pause \in ToSet(Pauses)})
EndMs == IF Live THEN MaxOf({At(now), LastEnd}) ELSE LastEnd
WaitMs == Over(Pauses, LAMBDA pause : pause.to - pause.from)

SlipEpisodes ==
  LET stretch(from, to, kind) == [from |-> from, to |-> to, kind |-> kind]
      read == FoldLeft(LAMBDA acc, pause :
                [from |-> acc.from, list |-> acc.list \o <<stretch(acc.from, pause.from, "run"),
                                                           stretch(pause.from, pause.to, "pause")>>],
                [from |-> 0, list |-> <<>>], Pauses)
  IN  Append(read.list, stretch(read.from, MaxOf({EndMs, read.from}), "run"))
Episodes ==
  LET stretch(from, to, kind) == [from |-> from, to |-> to, kind |-> kind]
      read == FoldLeft(LAMBDA acc, pause :
                [from |-> pause.to, list |-> acc.list \o <<stretch(acc.from, pause.from, "run"),
                                                           stretch(pause.from, pause.to, "pause")>>],
                [from |-> 0, list |-> <<>>], Pauses)
  IN  Append(read.list, stretch(read.from, MaxOf({EndMs, read.from}), "run"))

StepOf(step) ==
  LET drawn == Drawn(step)
      count(test(_)) == Len(SelectSeq(drawn, test))
  IN  [id |-> step, workMs |-> Over(drawn, LAMBDA a : a.to - a.from), cost |-> CostOf[step],
       passes |-> count(LAMBDA a : a.status = "done"), fails |-> count(LAMBDA a : a.tone = "fail"),
       running |-> \E i \in DOMAIN drawn : drawn[i].tone = "running",
       replayed |-> Over(SelectSeq(drawn, LAMBDA a : a.tone = "replay"), LAMBDA a : a.to - a.from)]

SlipIsNotable(step) == step.workMs >= NotableMs \/ step.cost > 0 \/ step.running
IsNotable(step) == step.workMs >= NotableMs \/ step.cost > 0 \/ step.fails > 0 \/ step.running

All == FoldLeft(LAMBDA acc, step : IF Drawn(step) = <<>> THEN acc ELSE Append(acc, StepOf(step)), <<>>, Plan)
Shown == SelectSeq(All, IsNotable)
Minor == SelectSeq(All, LAMBDA step : ~IsNotable(step))

(***************************************************************************)
(* The scale and its axis.  Widths are in hundredths of an instant.        *)
(***************************************************************************)
PauseWidth == MaxOf({(EndMs - WaitMs) * 9, MinWidth})
Segments(compressed) ==
  LET narrow == PauseWidth
      width(s) == IF s.kind = "pause" /\ compressed THEN narrow ELSE (s.to - s.from) * 100
      laid(acc, s) == Append(acc, [from |-> s.from, to |-> s.to, width |-> width(s),
        before |-> IF acc = <<>> THEN 0 ELSE Last(acc).before + Last(acc).width])
      list == Episodes
      last == Last(list)
  IN  FoldLeft(laid, <<>>, IF last.to > last.from THEN list ELSE Front(list))

Total(segments) == MaxOf({1, Over(segments, LAMBDA s : s.width)})

\* The position of an instant, a fraction of the track.
SlipPct(segments, at) ==
  LET holding == {i \in DOMAIN segments : at <= segments[i].to}
      s == segments[CHOOSE i \in holding : \A j \in holding : i <= j]
  IN  IF at <= 0 THEN <<0, 1>>
      ELSE IF holding = {} THEN <<1, 1>>
      ELSE <<s.before + (at - s.from) * 100, Total(segments)>>
Pct(segments, at) ==
  LET holding == {i \in DOMAIN segments : at <= segments[i].to}
      s == segments[CHOOSE i \in holding : \A j \in holding : i <= j]
      length == MaxOf({1, s.to - s.from})
  IN  IF at <= 0 THEN <<0, 1>>
      ELSE IF holding = {} THEN <<1, 1>>
      ELSE <<s.before * length + (at - s.from) * s.width, Total(segments) * length>>

AtMost(x, y) == x[1] * y[2] <= y[1] * x[2]
Gap(x, y) == LET d == x[1] * y[2] - y[1] * x[2] IN 100 * MaxOf({d, -d}) > 9 * x[2] * y[2]

TickStep(span) ==
  LET fits == {i \in DOMAIN TickSteps : span <= 8 * TickSteps[i]}
  IN  IF fits = {} THEN Last(TickSteps) ELSE TickSteps[CHOOSE i \in fits : \A j \in fits : i <= j]

Ticks(compressed) ==
  LET step == TickStep(IF compressed THEN EndMs - WaitMs ELSE EndMs)
      inPause(t) == \E i \in DOMAIN Pauses : Pauses[i].from < t /\ t < Pauses[i].to
  IN  SetToSortSeq({t \in 1..(EndMs - 1) : (t + StartMs) % step = 0 /\ ~inPause(t)}, <)

SlipCandidates(compressed) == Ticks(compressed) \o <<0, EndMs>> \o [i \in DOMAIN Pauses |-> Pauses[i].from]
Candidates(compressed) == <<0, EndMs>> \o [i \in DOMAIN Pauses |-> Pauses[i].from] \o Ticks(compressed)

\* A candidate too close to a label gives way to it.
Labels(segments, candidates) ==
  FoldLeft(LAMBDA acc, at : IF \A label \in acc : Gap(Pct(segments, label), Pct(segments, at)) THEN acc \cup {at} ELSE acc,
           {}, candidates)

(***************************************************************************)
(* The takeaways: at most one of each kind.                                *)
(***************************************************************************)
First(all, value(_)) ==
  LET best == {i \in DOMAIN all : \A j \in DOMAIN all : value(all[j]) <= value(all[i])}
  IN  all[CHOOSE i \in best : \A j \in best : i <= j]
Longest ==
  LET all == All IN {step.id : step \in {s \in ToSet(all) : s = First(all, LAMBDA t : t.workMs) /\ s.workMs >= NotableMs}}
Priciest ==
  LET all == All IN {step.id : step \in {s \in ToSet(all) : s = First(all, LAMBDA t : t.cost) /\ s.cost > 0}}
Replayed == {step.id : step \in {s \in ToSet(All) : s.replayed > 0}}
Refused == {step.id : step \in {s \in ToSet(All) : s.fails > 0}}

----------------------------------------------------------------------------
Spans == UNION {ToSet(Drawn(step)) : step \in StepIds}

\* Shape of the state; every span drawn lies inside the run.
TypeOK ==
  /\ now \in 1..MaxNow /\ up \subseteq 1..MaxNow /\ runner.open \in StepIds \cup {None}
  /\ LET end == EndMs IN \A span \in Spans \cup ToSet(Pauses) : 0 <= span.from /\ span.from <= span.to /\ span.to <= end

\* The episodes tile the run: they follow each other from its start to its
\* end, work and wait in turn.
EpisodesTile ==
  LET list == Episodes
  IN  /\ list[1].from = 0 /\ Last(list).to = EndMs
      /\ \A i \in 1..(Len(list) - 1) : list[i].to = list[i + 1].from /\ list[i].kind # list[i + 1].kind

\* Attempts of one run follow each other: no two of their bars overlap.
BarsApart ==
  LET list == Journey
  IN  \A i \in 1..(Len(list) - 1) : EndOf(list[i], ToneOf(list[i], None)) <= At(list[i + 1].ts)

\* The scale keeps the order of time, from the left edge to the right one,
\* compressed or not, whatever pauses touch each other or the ends.
ScaleKeepsOrder ==
  \A segments \in {Segments(TRUE), Segments(FALSE)}, end \in {EndMs} :
    /\ \A t \in 0..(end - 1) : AtMost(Pct(segments, t), Pct(segments, t + 1))
    /\ end > 0 => AtMost(<<1, 1>>, Pct(segments, end)) /\ AtMost(Pct(segments, end), <<1, 1>>)

\* A wait that ends a stop holds no instant of a runner, and a bar whose
\* attempt passed none of a wait.
WaitsHoldNoWork ==
  /\ \A pause \in ToSet(Pauses) : pause.reason # None => \A t \in pause.from..(pause.to - 1) : t + 1 \notin up
  /\ \A span \in Spans : span.status = "done" => \A t \in span.from..(span.to - 1) : t + 1 \in up

\* What a takeaway names is among the steps drawn on lanes of their own; only
\* a replay too short to note may be a dot.
MinorHidesNothing ==
  LET minor == {step.id : step \in ToSet(Minor)}
  IN  (Longest \cup Priciest \cup Refused) \cap minor = {}

\* Ends and starts of pauses have the axis before any tick: one without a
\* label is too close to another of them.
TicksGiveWay ==
  \A compressed \in BOOLEAN : \A segments \in {Segments(compressed)} : \A labels \in {Labels(segments, Candidates(compressed))} :
    LET marks == {0, EndMs} \cup {pause.from : pause \in ToSet(Pauses)}
    IN  \A mark \in marks \ labels :
          \E other \in marks \cap labels : ~Gap(Pct(segments, mark), Pct(segments, other))

\* run-timeline.ts: the work of a step is the time in its attempts, waits
\* excluded.
WorkExcludesWaits == Over(All, LAMBDA step : step.workMs) <= Cardinality(up)
=============================================================================
