--------------------------- MODULE InboxTimeline ---------------------------
(***************************************************************************)
(* The inbox of the dashboard in morning reading order: what needs you,    *)
(* what runs, then a section per night, and the summary of the latest      *)
(* night with a finished run; over items that move while the clock does.   *)
(* Sources: src/dashboard/ui/app/lib/inbox-timeline.ts and the groups of   *)
(* src/dashboard/ui/app/lib/items.ts.                                      *)
(*                                                                         *)
(* Time is in hours.  The local clock is Shift hours ahead of it from      *)
(* ShiftAt on (a daylight-saving change).  An item carries the instant of  *)
(* its update, 0 when it does not parse; it may lie Skew hours ahead.      *)
(* Labels are left out, ranges are the days they name.  Instants are the   *)
(* moments looked at.                                                      *)
(***************************************************************************)
EXTENDS Integers, Sequences, FiniteSets, SequencesExt

CONSTANTS Items, Instants, Shift, ShiftAt, Skew

InboxAssumption ==
  /\ Instants \subseteq Nat /\ Instants # {} /\ Shift \in {-1, 0, 1} /\ ShiftAt \in Nat /\ Skew \in Nat
  /\ \A t \in Instants : t >= 48

VARIABLES
  items,  \* the group, the update and the closing by hand of each
  now

vars == <<items, now>>

Groups == <<"decision", "failure", "running", "done">>
Waiting == {"decision", "failure"}
Delivered(item) == items[item].group = "done" /\ ~items[item].closed

(***************************************************************************)
(* Nights.                                                                 *)
(***************************************************************************)
NightStartHour == 18
Local(t) == IF t >= ShiftAt THEN t + Shift ELSE t
Absolute(local) == IF local - Shift >= ShiftAt THEN local - Shift ELSE local
Day(t) == Local(t) \div 24

NightStart(t) ==
  LET start == Absolute(24 * Day(t) + NightStartHour)
  IN  IF start > t THEN Absolute(24 * (Day(t) - 1) + NightStartHour) ELSE start

\* Rounded: a change of the clock makes one night 23 or 25 hours long.
SlipNightIndex(t) ==
  LET apart == (NightStart(now) - NightStart(t)) \div 24 IN IF apart < 0 THEN 0 ELSE apart
NightIndex(t) ==
  LET apart == (NightStart(now) - NightStart(t) + 12) \div 24 IN IF apart < 0 THEN 0 ELSE apart

(***************************************************************************)
(* Sections.                                                               *)
(***************************************************************************)
GroupRank(item) == CHOOSE i \in DOMAIN Groups : Groups[i] = items[item].group
NewerOrSame(a, b) == items[a].updated >= items[b].updated
\* A date that does not parse sorts last.  Equal rows keep their order.
SlipNewestFirst(rows) == SetToSortSeq({item \in rows : items[item].updated # 0}, NewerOrSame)
NewestFirst(rows) == SetToSortSeq(rows, NewerOrSame)
NeedsOrder(a, b) == GroupRank(a) < GroupRank(b) \/ (GroupRank(a) = GroupRank(b) /\ NewerOrSame(a, b))

SlipSectionOf(item) ==
  LET i == NightIndex(items[item].updated)
  IN  IF items[item].group \in Waiting THEN "needs"
      ELSE IF items[item].group = "running" THEN "running"
      ELSE IF items[item].updated = 0 THEN "week" ELSE IF i > 7 THEN "earlier"
      ELSE IF i = 0 THEN "night-0" ELSE IF i = 1 THEN "night-1" ELSE "week"
SectionOf(item) ==
  LET i == NightIndex(items[item].updated)
  IN  IF items[item].group \in Waiting THEN "needs"
      ELSE IF items[item].group = "running" THEN "running"
      ELSE IF items[item].updated = 0 \/ i > 7 THEN "earlier"
      ELSE IF i = 0 THEN "night-0" ELSE IF i = 1 THEN "night-1" ELSE "week"

SlipOrder == <<"needs", "running", "earlier", "week", "night-1", "night-0">>
Order == <<"needs", "running", "night-0", "night-1", "week", "earlier">>

\* The days a section names: those of the nights it holds, the week from the
\* oldest of its nights to the newest.
SlipDayOfNight(i) == Day(now) - i
DayOfNight(i) == Day(NightStart(now)) - i
RangeOf(id, rows) ==
  LET nights == {NightIndex(items[item].updated) : item \in rows}
      oldest == CHOOSE i \in nights : \A j \in nights : j <= i
      newest == CHOOSE i \in nights : \A j \in nights : i <= j
  IN  CASE id = "night-0" -> <<DayOfNight(0), DayOfNight(0) + 1>>
        [] id = "night-1" -> <<DayOfNight(1), DayOfNight(1) + 1>>
        [] id = "week" -> <<DayOfNight(oldest), DayOfNight(newest) + 1>>
        [] OTHER -> <<0, DayOfNight(7) - 1>>

Timeline(rows) ==
  LET inside(id) == {item \in rows : SectionOf(item) = id}
      section(id) == [id |-> id, items |-> IF id = "needs" THEN SetToSortSeq(inside(id), NeedsOrder) ELSE NewestFirst(inside(id)),
                      range |-> IF id \in {"needs", "running"} THEN <<>> ELSE RangeOf(id, inside(id))]
  IN  FoldLeft(LAMBDA acc, id : IF inside(id) = {} THEN acc ELSE Append(acc, section(id)), <<>>, Order)

\* The newest section the finished runs fall in.
Finished == {item \in Items : items[item].group = "done"}
NightSummary ==
  LET night == Timeline(Finished)[1]
      rows == ToSet(night.items)
  IN  [id |-> night.id, runs |-> Cardinality(rows), delivered |-> Cardinality({i \in rows : Delivered(i)}),
       closed |-> Cardinality({i \in rows : items[i].closed})]

(***************************************************************************)
(* Items and the clock.                                                    *)
(***************************************************************************)
Init ==
  /\ now = (CHOOSE t \in Instants : \A u \in Instants : t <= u)
  /\ items = [item \in Items |-> [group |-> "done", updated |-> 0, closed |-> FALSE]]

Advance ==
  /\ \E t \in Instants : t > now /\ (\A u \in Instants : u > now => t <= u) /\ now' = t
  /\ UNCHANGED items

Update(item, group, ahead) ==
  /\ items' = [items EXCEPT ![item] = [group |-> group, updated |-> now + ahead, closed |-> FALSE]]
  /\ UNCHANGED now

Close(item) ==
  /\ items[item].group # "running" /\ ~items[item].closed
  /\ items' = [items EXCEPT ![item].group = "done", ![item].closed = TRUE] /\ UNCHANGED now

Next ==
  \/ Advance
  \/ \E item \in Items :
       \/ Close(item)
       \/ \E group \in ToSet(Groups), ahead \in {0, Skew} : Update(item, group, ahead)

Spec == Init /\ [][Next]_vars

----------------------------------------------------------------------------
Sections == Timeline(Items)

\* Shape of the state; every row is in one section, and no section is empty.
TypeOK ==
  /\ now \in Instants
  /\ LET rows == FoldLeft(LAMBDA acc, section : acc \o section.items, <<>>, Sections)
     IN  Len(rows) = Cardinality(Items) /\ ToSet(rows) = Items
  /\ \A section \in ToSet(Sections) : section.items # <<>>

\* The local night of an instant, counted on the calendar.
CalendarNight(t) == IF Local(t) % 24 >= NightStartHour THEN Day(t) ELSE Day(t) - 1

\* A row is in the section of its own night, through a change of the clock
\* and with a date in the future; a date that does not parse is in none.
NightsAreNights ==
  \A section \in ToSet(Sections) : \A item \in ToSet(section.items) :
    LET apart == CalendarNight(now) - CalendarNight(items[item].updated)
    IN  CASE section.id = "night-0" -> items[item].updated # 0 /\ apart <= 0
          [] section.id = "night-1" -> apart = 1
          [] section.id = "week" -> apart \in 2..7
          [] section.id = "earlier" -> items[item].updated = 0 \/ apart > 7
          [] OTHER -> TRUE

\* Read from the top, the sections of the finished go back in time, within
\* each and from one to the next.
ReadsBackInTime ==
  LET rows == FoldLeft(LAMBDA acc, section : acc \o section.items, <<>>, Timeline(Finished))
  IN  \A i \in 1..(Len(rows) - 1) : NewerOrSame(rows[i], rows[i + 1])

\* The days a section of nights names hold the day of each of its rows that
\* does not lie in the future.
RangeHoldsRows ==
  \A section \in ToSet(Sections) : section.id \in {"night-0", "night-1", "week"} =>
    \A item \in ToSet(section.items) : items[item].updated <= now =>
      Day(items[item].updated) \in section.range[1]..section.range[2]

\* The summary is of the section that holds the latest finished run, and
\* what it counts as delivered nobody closed.
SummaryIsOfTheLatest ==
  Finished # {} =>
    /\ NightSummary.delivered + NightSummary.closed = NightSummary.runs
    /\ \E item \in Finished : SectionOf(item) = NightSummary.id /\ \A other \in Finished : NewerOrSame(item, other)

\* inbox-timeline.ts: the range of a section is the dates it covers; the
\* earlier rows lie before the day it names.
EarlierIsBefore ==
  \A section \in ToSet(Sections) : section.id = "earlier" =>
    \A item \in ToSet(section.items) : items[item].updated # 0 => Day(items[item].updated) <= section.range[2]
=============================================================================
