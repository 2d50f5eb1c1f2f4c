----------------------------- MODULE BashStream -----------------------------
(***************************************************************************)
(* A bash step and its two streams.  Source:                               *)
(* src/shared/process/bash-runner.ts.                                      *)
(*                                                                         *)
(* The child writes characters: text, "%" (a line that starts with it is a *)
(* progress tick), "nl" and "cr".  A data event delivers what the pipe     *)
(* holds, so a line is cut anywhere.  The two streams share one output,    *)
(* one step log and one live feed, fed with the same text; a feed or a log *)
(* that cannot be written is passed over.                                  *)
(***************************************************************************)
EXTENDS Naturals, Sequences, SequencesExt

CONSTANTS Chars, MaxChars, TailLines

BashAssumption == MaxChars \in Nat /\ TailLines \in Nat \ {0}

VARIABLES sent, pipe, buf, output, stderrTail, kill, code, stage, answer

vars == <<sent, pipe, buf, output, stderrTail, kill, code, stage, answer>>

Streams == {"out", "err"}
None == "none"

(***************************************************************************)
(* Lines.                                                                  *)
(***************************************************************************)
IndicesOf(text, char) == {i \in DOMAIN text : text[i] = char}
LastIndexOf(text, char) ==
  IF IndicesOf(text, char) = {} THEN 0
  ELSE CHOOSE i \in IndicesOf(text, char) : \A j \in IndicesOf(text, char) : j <= i

\* What a redraw leaves: the text after the last carriage return.
CollapseCR(line) == SubSeq(line, LastIndexOf(line, "cr") + 1, Len(line))
IsProgressLine(line) == line # <<>> /\ line[1] = "%"

\* The lines of a text, the unfinished last one included.
Lines(text) ==
  FoldLeft(LAMBDA acc, c : IF c = "nl" THEN Append(acc, <<>>)
                           ELSE [acc EXCEPT ![Len(acc)] = Append(@, c)],
           <<<<>>>>, text)
JoinLines(lines) ==
  IF lines = <<>> THEN <<>>
  ELSE FoldLeft(LAMBDA acc, line : acc \o <<"nl">> \o line, lines[1], Tail(lines))
Mapped(lines) == [i \in DOMAIN lines |-> CollapseCR(lines[i])]
SlipStripProgressNoise(text) ==
  JoinLines(Mapped(SelectSeq(Lines(text), LAMBDA line : ~IsProgressLine(line))))
StripProgressNoise(text) ==
  JoinLines(SelectSeq(Mapped(Lines(text)), LAMBDA line : ~IsProgressLine(line)))

(***************************************************************************)
(* One data event: the complete lines go out filtered, the rest waits.     *)
(***************************************************************************)
Tagged(s, text) == [i \in DOMAIN text |-> [stream |-> s, char |-> text[i]]]

SlipHeld(s, incoming) ==
  LET combined == buf[s] \o incoming IN SubSeq(combined, LastIndexOf(combined, "nl") + 1, Len(combined))
Held(s, incoming) ==
  LET combined == buf[s] \o incoming
  IN  CollapseCR(SubSeq(combined, LastIndexOf(combined, "nl") + 1, Len(combined)))

SlipComplete(s, incoming) == buf[s] \o incoming
Complete(s, incoming) ==
  LET combined == buf[s] \o incoming
  IN  SubSeq(combined, 1, LastIndexOf(combined, "nl"))

Emit(s, clean) ==
  /\ output' = output \o Tagged(s, clean)
  /\ stderrTail' = IF s = "err" THEN stderrTail \o clean ELSE stderrTail

Init ==
  /\ sent = [s \in Streams |-> <<>>] /\ pipe = [s \in Streams |-> <<>>]
  /\ buf = [s \in Streams |-> <<>>] /\ output = <<>> /\ stderrTail = <<>>
  /\ kill = None /\ code = "running" /\ stage = "streaming"
  /\ answer = [ok |-> FALSE, timedOut |-> FALSE, reason |-> <<>>]

Write(s, char) ==
  /\ code = "running" /\ Len(sent["out"]) + Len(sent["err"]) < MaxChars
  /\ sent' = [sent EXCEPT ![s] = Append(@, char)]
  /\ pipe' = [pipe EXCEPT ![s] = Append(@, char)]
  /\ UNCHANGED <<buf, output, stderrTail, kill, code, stage, answer>>

Pump(s) ==
  /\ stage = "streaming" /\ pipe[s] # <<>>
  /\ pipe' = [pipe EXCEPT ![s] = <<>>]
  /\ buf' = [buf EXCEPT ![s] = Held(s, pipe[s])]
  /\ Emit(s, StripProgressNoise(Complete(s, pipe[s])))
  /\ UNCHANGED <<sent, kill, code, stage, answer>>

Exit(c, k) ==
  /\ code = "running"
  /\ code' = c /\ kill' = k
  /\ UNCHANGED <<sent, pipe, buf, output, stderrTail, stage, answer>>

\* The child has settled and its pipes are drained: what is left of the two
\* buffers goes out, stdout first.
SlipLeftover(s) == <<>>
Leftover(s) == LET line == CollapseCR(buf[s]) IN IF IsProgressLine(line) THEN <<>> ELSE line

Flush ==
  /\ stage = "streaming" /\ code # "running" /\ \A s \in Streams : pipe[s] = <<>>
  /\ stage' = "flushed"
  /\ buf' = [s \in Streams |-> <<>>]
  /\ output' = output \o Tagged("out", Leftover("out")) \o Tagged("err", Leftover("err"))
  /\ stderrTail' = stderrTail \o Leftover("err")
  /\ UNCHANGED <<sent, pipe, kill, code, answer>>

\* The last lines of stderr ride along with the code of a failed command.
IsBlank(line) == line = <<>>
SlipExitCodeFailReason(text) ==
  LET lines == SelectSeq(Lines(text), LAMBDA line : ~IsBlank(line))
  IN  SubSeq(lines, 1, IF Len(lines) < TailLines THEN Len(lines) ELSE TailLines)
ExitCodeFailReason(text) ==
  LET lines == SelectSeq(Lines(text), LAMBDA line : ~IsBlank(line))
  IN  IF Len(lines) <= TailLines THEN lines ELSE SubSeq(lines, Len(lines) - TailLines + 1, Len(lines))

KilledByPolicy == kill \notin {None, "cleanup"}
SlipBashOutcome ==
  [ok |-> code = "0", timedOut |-> kill = "timeout",
   reason |-> IF code = "0" THEN <<>> ELSE ExitCodeFailReason(stderrTail)]
BashOutcome ==
  LET ok == ~KilledByPolicy /\ code = "0"
  IN  [ok |-> ok, timedOut |-> kill = "timeout",
       reason |-> IF ok THEN <<>>
                  ELSE IF KilledByPolicy THEN <<<<"killed">>>> ELSE ExitCodeFailReason(stderrTail)]

\* A deadline leaves its trace in the output, where the fix prompt reads it.
Answer ==
  /\ stage = "flushed" /\ stage' = "done"
  /\ output' = IF kill = "timeout" THEN output \o Tagged("runner", <<"nl", "killed", "nl">>) ELSE output
  /\ answer' = BashOutcome
  /\ UNCHANGED <<sent, pipe, buf, stderrTail, kill, code>>

Next ==
  \/ \E s \in Streams, c \in Chars : Write(s, c)
  \/ \E s \in Streams : Pump(s)
  \/ \E c \in {"0", "1"}, k \in {None, "cleanup", "timeout", "signal"} : Exit(c, k)
  \/ Flush
  \/ Answer

Spec == Init /\ [][Next]_vars

----------------------------------------------------------------------------
Of(s) == LET kept == SelectSeq(output, LAMBDA t : t.stream = s) IN [i \in DOMAIN kept |-> kept[i].char]
Written(s) == Lines(sent[s])
Visible(line) == CollapseCR(line) # <<>> /\ ~IsProgressLine(CollapseCR(line))

\* Shape of the state; a buffer never holds a line feed or a redraw, which is
\* what bounds it.
TypeOK ==
  /\ \A s \in Streams : buf[s] \in Seq(Chars \ {"nl", "cr"})
  /\ stage \in {"streaming", "flushed", "done"} /\ code \in {"running", "0", "1"}
  /\ answer.ok \in BOOLEAN

\* Wherever the pipe cuts the stream, the same lines come out, in order, a
\* progress tick never and a redraw by what it leaves (pump, flush).
ChunksDoNotMatter ==
  stage \in {"flushed", "done"} => \A s \in Streams :
    SelectSeq(Lines(Of(s)), LAMBDA l : l # <<>>)
      = SelectSeq([i \in DOMAIN Written(s) |-> CollapseCR(Written(s)[i])], LAMBDA l : l # <<>> /\ l[1] # "%")

\* While both streams run, a line of one is never cut by a line of the other.
LinesAreWhole ==
  stage = "streaming" => \A i \in DOMAIN output :
    i < Len(output) /\ output[i].stream # output[i + 1].stream => output[i].char = "nl"

\* A command that fails says why: the last thing it wrote to stderr closes
\* the reason, unless it was killed, which is then the reason.
ReasonNamesTheCause ==
  (stage = "done" /\ ~answer.ok /\ \E i \in DOMAIN Written("err") : Visible(Written("err")[i])) =>
    IF KilledByPolicy THEN answer.reason = <<<<"killed">>>>
    ELSE LET seen == SelectSeq(Written("err"), Visible)
         IN  answer.reason # <<>> /\ Last(answer.reason) = CollapseCR(Last(seen))

\* A killed command never passes, whatever code it still returned; a
\* straggler left behind by a command that passed does not fail it.
KillIsAFailure == stage = "done" => (answer.ok <=> code = "0" /\ kill \in {None, "cleanup"})

\* The filter is announced as removing progress lines while retaining errors:
\* a line with text in it reaches the output.
ErrorsAreRetained ==
  stage = "done" => \A i \in DOMAIN Written("err") :
    LET text == SelectSeq(Written("err")[i], LAMBDA c : c = "x")
    IN  (text # <<>> /\ IndicesOf(Written("err")[i], "%") = {}) => \E j \in DOMAIN Of("err") : Of("err")[j] = "x"
=============================================================================
