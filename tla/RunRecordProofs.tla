-------------------------- MODULE RunRecordProofs --------------------------
(***************************************************************************)
(* Proofs about RunRecord, for any pipeline, quotas, prices, command lines *)
(* and bounds: the types of everything a process holds and of everything a *)
(* crash can leave on disk.                                                *)
(*                                                                         *)
(* The argument.  A run is sound when its quotas are within bounds.  A     *)
(* process only computes sound runs, from the sound run it restored, and   *)
(* what it computes reaches the disk through the outbox, so that a crash   *)
(* leaves sound runs and well-formed events whatever it cuts.  Two facts   *)
(* beyond the types are needed.  A quota is refunded only to a rerun that  *)
(* consumed it (Refundable): nothing clamps the refund.  An attempt is     *)
(* named by the greatest number its step knows, which exists while the     *)
(* step has an attempt (Numbered).                                         *)
(*                                                                         *)
(* The second half is about the attempts of a run: the numbers they spawn  *)
(* under, and what the journal holds of them against what the process      *)
(* holds.                                                                  *)
(***************************************************************************)
EXTENDS RunRecord, WellFoundedInduction, SequenceTheorems, FiniteSetTheorems, TLAPS

----------------------------------------------------------------------------
(* The inductive invariant.                                                *)

SoundRun == {r \in Run : \A s \in Steps : r.step[s].retries \in 0..MaxRetries[s]}

\* Writes whose snapshots are runs of R.
WriteOf(R) ==
  [kind: {"status"}, step: Steps, status: StepStatus]
    \cup [kind: {"start"}, step: Steps, n: Nums]
    \cup [kind: {"finish"}, step: Steps, n: Nums, attempt: Attempt]
    \cup [kind: {"guard"}, why: {"budget", "unpriced"}]
    \cup [kind: {"save"}, run: R]
SoundWrite == WriteOf(SoundRun)

Places  == {"off", "booted", "admit", "pass", "ending", "done"}
Stages  == {"idle", "admitted", "started", "opened", "spawned", "settled", "ended"}
Budget  == [cum: 0..MaxSpend, exceeded: BOOLEAN, unknown: BOOLEAN]
Answer  == [ok: BOOLEAN, fig: Figure, blocked: BOOLEAN, cut: {"none", "budget", "unpriced"}]
Signals == [failed: BOOLEAN, stopped: BOOLEAN, exceeded: BOOLEAN, unaccounted: BOOLEAN]

RunsSound ==
  /\ IF pc = "off" THEN run = NoRun ELSE run \in SoundRun
  /\ snap \in SoundRun \cup {NoRun}
WritesSound == outbox \in Seq(SoundWrite)
AttemptsTyped ==
  att \in [Steps -> [Nums -> Attempt]] /\ jAtt \in [Steps -> [Nums -> Attempt]]
LedgerTyped == budget \in Budget /\ result \in [Steps -> Answer]
ControlTyped ==
  /\ pc \in Places /\ cursor \in 1..(NSteps + 1)
  /\ executing \subseteq Steps /\ admitted \subseteq Steps /\ reruns \subseteq Steps
  /\ stop \in Signals /\ inv \in Invocation /\ requested \in BOOLEAN
PassTyped ==
  /\ stage \in [Steps -> Stages]
  /\ pc # "pass" => stage = Idle
DiskTyped ==
  /\ jStatus \in [Steps -> Statuses] /\ jStops \subseteq {"budget", "unpriced"}
  /\ lives \in 0..MaxLives /\ lost \in 0..MaxLost
  /\ finished \subseteq Steps /\ died \subseteq Steps /\ logs \subseteq Steps \X Nums

\* A rerun has consumed the quota that may be given back to it.
Refundable ==
  /\ pc = "off" => reruns = {}
  /\ \A s \in reruns : run.step[s].retries >= 1

\* A pass that opened an attempt has it.
Numbered ==
  \A s \in Steps : stage[s] \in {"opened", "spawned"} => Known(att[s]) # {}

TypeInv ==
  /\ RunsSound /\ WritesSound /\ AttemptsTyped /\ LedgerTyped /\ ControlTyped
  /\ PassTyped /\ DiskTyped /\ Refundable /\ Numbered

----------------------------------------------------------------------------
(* Induction over the naturals for a set instead of a predicate, and what  *)
(* follows from it about finite sets of numbers.                           *)

\* A nonempty set of naturals has a least element.
LEMMA NatMin ==
  ASSUME NEW T \in SUBSET Nat, T # {}
  PROVE \E x \in T : \A y \in T : x <= y
<1> DEFINE R == OpToRel(<, Nat)
<1>1. IsWellFoundedOn(R, Nat)
  BY NatLessThanWellFounded, Zenon
<1>3. \A x, y \in Nat : <<x,y>> \in R <=> x < y
  BY DEF OpToRel
<1> HIDE DEF R
<1>2. PICK x \in T : \A y \in T : ~ (<<y, x>> \in R)
  BY <1>1, WFMin
<1>4. \A y \in T : x <= y
  <2> TAKE y \in T
  <2>1. ~(y < x) /\ x \in Nat /\ y \in Nat
    BY <1>2, <1>3
  <2> QED BY <2>1
<1> QED BY <1>4

\* Induction for a set: one that holds 0 and is closed under successor holds
\* every natural.
LEMMA NatInd ==
  ASSUME NEW S, 0 \in S, \A n \in Nat : n \in S => n + 1 \in S
  PROVE  Nat \subseteq S
<1> SUFFICES ASSUME Nat \ S # {} PROVE FALSE
  OBVIOUS
<1>1. PICK x \in Nat \ S : \A y \in Nat \ S : x <= y
  BY NatMin
<1>2. x # 0 /\ x - 1 \in Nat
  BY <1>1
<1>3. x - 1 \in S
  BY <1>1, <1>2
<1> QED BY <1>1, <1>2, <1>3

\* A finite set of numbers has an increasing enumeration.
LEMMA IncreasingEnumeration ==
  ASSUME NEW n \in Nat, NEW S \in SUBSET (1..n)
  PROVE  \E f \in [1..Cardinality(S) -> S] :
           \A i, j \in 1..Cardinality(S) : i < j => f[i] < f[j]
<1> DEFINE Enums(U) == {f \in [1..Cardinality(U) -> U] :
                          \A i, j \in 1..Cardinality(U) : i < j => f[i] < f[j]}
           T == {m \in Nat : \A U \in SUBSET (1..m) : Enums(U) # {}}
<1>0. \A m \in Nat : \A U \in SUBSET (1..m) : IsFiniteSet(U) /\ Cardinality(U) \in Nat
  <2> TAKE m \in Nat
  <2> TAKE U \in SUBSET (1..m)
  <2>1. IsFiniteSet(1..m)
    BY FS_Interval
  <2>2. IsFiniteSet(U)
    BY <2>1, FS_Subset
  <2> QED BY <2>2, FS_CardinalityType
<1>1. 0 \in T
  <2> SUFFICES ASSUME NEW U \in SUBSET (1..0) PROVE Enums(U) # {}
    OBVIOUS
  <2>1. U = {} /\ Cardinality({}) = 0 /\ 1..0 = {}
    BY FS_EmptySet
  <2>2. [i \in 1..0 |-> i] \in Enums(U)
    BY <2>1
  <2> QED BY <2>2
<1> HIDE DEF Enums
<1>2. ASSUME NEW m \in Nat, m \in T PROVE m + 1 \in T
  <2> SUFFICES ASSUME NEW U \in SUBSET (1..(m + 1)) PROVE Enums(U) # {}
    OBVIOUS
  <2>1. CASE m + 1 \notin U
    <3>1. U \in SUBSET (1..m)
      BY <2>1
    <3> QED BY <3>1, <1>2
  <2>2. CASE m + 1 \in U
    <3> DEFINE V == U \ {m + 1}
               c == Cardinality(V)
    <3>1. V \in SUBSET (1..m)
      OBVIOUS
    <3>2. c \in Nat /\ IsFiniteSet(V)
      BY <3>1, <1>0
    <3>3. U = V \cup {m + 1} /\ m + 1 \notin V
      BY <2>2
    <3>4. Cardinality(U) = c + 1
      BY <3>2, <3>3, FS_AddElement
    <3>5. Enums(V) # {}
      BY <3>1, <1>2
    <3>6. PICK f \in [1..c -> V] : \A i, j \in 1..c : i < j => f[i] < f[j]
      BY <3>5 DEF Enums
    <3> HIDE DEF V, c
    <3> DEFINE g == [i \in 1..(c + 1) |-> IF i = c + 1 THEN m + 1 ELSE f[i]]
    <3>7. g \in [1..(c + 1) -> U]
      <4>1. \A i \in 1..(c + 1) : i # c + 1 => i \in 1..c
        BY <3>2
      <4> QED BY <3>3, <3>6, <4>1
    <3>8. ASSUME NEW i \in 1..(c + 1), NEW j \in 1..(c + 1), i < j
          PROVE  g[i] < g[j]
      <4>1. i \in 1..c /\ i # c + 1 /\ g[i] = f[i]
        BY <3>2, <3>8
      <4>2. CASE j = c + 1
        <5>1. f[i] \in 1..m /\ g[j] = m + 1
          BY <4>1, <4>2, <3>1, <3>6
        <5> QED BY <4>1, <5>1
      <4>3. CASE j # c + 1
        <5>1. j \in 1..c /\ g[j] = f[j]
          BY <3>2, <4>3
        <5> QED BY <4>1, <5>1, <3>6, <3>8
      <4> QED BY <4>2, <4>3
    <3>9. g \in Enums(U)
      BY <3>4, <3>7, <3>8 DEF Enums
    <3> QED BY <3>9
  <2> QED BY <2>1, <2>2
<1> HIDE DEF T
<1>3. Nat \subseteq T
  BY <1>1, <1>2, NatInd
<1>4. n \in T
  BY <1>3
<1> QED BY <1>4 DEF T, Enums

----------------------------------------------------------------------------
(* Sequences of writes.                                                    *)

\* What holds of the empty sequence, and is kept by each concatenation, holds
\* of the concatenation of a sequence of sequences.
LEMMA FlattenInduction ==
  ASSUME NEW S, NEW w \in Seq(Seq(S)), NEW Good, <<>> \in Good[0],
         \A i \in 1..Len(w), q \in Seq(S) : q \in Good[i - 1] => q \o w[i] \in Good[i]
  PROVE  Seqs!FlattenSeq(w) \in Seq(S) /\ Seqs!FlattenSeq(w) \in Good[Len(w)]
<1> DEFINE n == Len(w)
           def(f) == [i \in 1..n |-> IF i = 1 THEN w[i] ELSE f[i - 1] \o w[i]]
           Upto(m) == {f \in [1..m -> Seq(S)] :
                         \A i \in 1..m : f[i] = IF i = 1 THEN w[i] ELSE f[i - 1] \o w[i]}
           flat == CHOOSE f : f = def(f)
<1>0. n \in Nat /\ \A i \in 1..n : w[i] \in Seq(S)
  OBVIOUS
<1>n. \A i \in 1..n, q \in Seq(S) : q \in Good[i - 1] => q \o w[i] \in Good[i]
  OBVIOUS
<1>1. Seqs!FlattenSeq(w) = IF n = 0 THEN w ELSE flat[n]
  BY DEF Seqs!FlattenSeq
<1>a. \A m, f : f \in Upto(m) <=>
        /\ f \in [1..m -> Seq(S)]
        /\ \A i \in 1..m : f[i] = IF i = 1 THEN w[i] ELSE f[i - 1] \o w[i]
  OBVIOUS
<1> HIDE DEF n, Upto
<1>2. \A m \in Nat : m <= n => Upto(m) # {}
  <2> DEFINE T == {m \in Nat : m <= n => Upto(m) # {}}
  <2>1. 0 \in T
    <3>1. [i \in 1..0 |-> w] \in Upto(0)
      <4>1. 1..0 = {}
        OBVIOUS
      <4> QED BY <4>1, <1>a
    <3> QED BY <3>1
  <2>2. ASSUME NEW m \in Nat, m \in T PROVE m + 1 \in T
    <3> SUFFICES ASSUME m + 1 <= n PROVE Upto(m + 1) # {}
      OBVIOUS
    <3>1. PICK f \in Upto(m) : TRUE
      <4>1. m <= n
        BY <1>0
      <4> QED BY <4>1, <2>2
    <3>a. /\ f \in [1..m -> Seq(S)]
          /\ \A i \in 1..m : f[i] = IF i = 1 THEN w[i] ELSE f[i - 1] \o w[i]
      BY <3>1, <1>a
    <3> DEFINE g == [i \in 1..(m + 1) |-> IF i <= m THEN f[i]
                       ELSE IF i = 1 THEN w[i] ELSE f[i - 1] \o w[i]]
    <3>2. \A i \in 1..(m + 1) : g[i] \in Seq(S)
      <4> TAKE i \in 1..(m + 1)
      <4>1. CASE i <= m
        BY <3>a, <4>1
      <4>2. CASE ~(i <= m) /\ i = 1
        BY <1>0, <4>2
      <4>3. CASE ~(i <= m) /\ i # 1
        <5>1. i - 1 \in 1..m /\ i \in 1..n
          BY <1>0, <4>3
        <5>2. f[i - 1] \in Seq(S) /\ w[i] \in Seq(S)
          BY <3>a, <5>1, <1>0
        <5> QED BY <4>3, <5>2, ConcatProperties
      <4> QED BY <4>1, <4>2, <4>3
    <3>3. \A i \in 1..(m + 1) : g[i] = IF i = 1 THEN w[i] ELSE g[i - 1] \o w[i]
      <4> TAKE i \in 1..(m + 1)
      <4>1. CASE i <= m
        <5>1. g[i] = f[i] /\ (i # 1 => g[i - 1] = f[i - 1])
          BY <4>1
        <5>2. f[i] = IF i = 1 THEN w[i] ELSE f[i - 1] \o w[i]
          <6>1. i \in 1..m
            BY <4>1
          <6> QED BY <6>1, <3>a
        <5> QED BY <5>1, <5>2
      <4>2. CASE ~(i <= m)
        <5>1. i # 1 => g[i - 1] = f[i - 1]
          BY <4>2
        <5> QED BY <4>2, <5>1
      <4> QED BY <4>1, <4>2
    <3>4. g \in Upto(m + 1)
      BY <3>2, <3>3, <1>a
    <3> QED BY <3>4
  <2> HIDE DEF T
  <2>3. Nat \subseteq T
    BY <2>1, <2>2, NatInd
  <2> QED BY <2>3 DEF T
<1>3. PICK f \in Upto(n) : TRUE
  <2>1. n <= n
    BY <1>0
  <2> QED BY <1>0, <1>2, <2>1
<1>4. f = def(f)
  <2>1. f = [i \in 1..n |-> f[i]]
    BY <1>3, <1>a
  <2>2. \A i \in 1..n : f[i] = IF i = 1 THEN w[i] ELSE f[i - 1] \o w[i]
    BY <1>3, <1>a
  <2> QED BY <2>1, <2>2
<1>5. flat = def(flat)
  BY <1>4
<1> HIDE DEF flat
<1>b. \A i \in 1..n : flat[i] = IF i = 1 THEN w[i] ELSE flat[i - 1] \o w[i]
  <2> TAKE i \in 1..n
  <2>1. flat[i] = def(flat)[i]
    BY <1>5
  <2> QED BY <2>1
<1>6. \A m \in Nat : m \in 1..n => flat[m] \in Seq(S) /\ flat[m] \in Good[m]
  <2> DEFINE T == {m \in Nat : m \in 1..n => flat[m] \in Seq(S) /\ flat[m] \in Good[m]}
  <2>1. 0 \in T
    OBVIOUS
  <2>2. ASSUME NEW m \in Nat, m \in T PROVE m + 1 \in T
    <3> SUFFICES ASSUME m + 1 \in 1..n
                 PROVE  flat[m + 1] \in Seq(S) /\ flat[m + 1] \in Good[m + 1]
      OBVIOUS
    <3>0. (m + 1) - 1 = m /\ w[m + 1] \in Seq(S)
      BY <1>0
    <3>1. flat[m + 1] = IF m + 1 = 1 THEN w[m + 1] ELSE flat[m] \o w[m + 1]
      BY <3>0, <1>b
    <3>a. \A q \in Seq(S) : q \in Good[m] => q \o w[m + 1] \in Good[m + 1]
      BY <3>0, <1>n
    <3>2. CASE m = 0
      <4>1. flat[m + 1] = w[m + 1]
        BY <3>1, <3>2
      <4>2. <<>> \in Seq(S) /\ <<>> \o w[m + 1] = w[m + 1]
        BY <3>0, EmptySeq, ConcatEmptySeq
      <4>3. <<>> \in Good[m]
        BY <3>2
      <4>4. w[m + 1] \in Good[m + 1]
        BY <3>a, <4>2, <4>3
      <4> QED BY <3>0, <4>1, <4>4
    <3>3. CASE m # 0
      <4>1. flat[m] \in Seq(S) /\ flat[m] \in Good[m]
        BY <3>3, <2>2, <1>0
      <4>a. m + 1 # 1
        BY <3>3
      <4>2. flat[m + 1] = flat[m] \o w[m + 1]
        BY <3>1, <4>a
      <4>3. flat[m] \o w[m + 1] \in Seq(S)
        BY <3>0, <4>1, ConcatProperties
      <4>4. flat[m] \o w[m + 1] \in Good[m + 1]
        BY <3>a, <4>1
      <4> QED BY <4>2, <4>3, <4>4
    <3> QED BY <3>2, <3>3
  <2> HIDE DEF T
  <2>3. Nat \subseteq T
    BY <2>1, <2>2, NatInd
  <2> QED BY <2>3 DEF T
<1>7. CASE n = 0
  <2>1. w = <<>>
    BY <1>7, EmptySeq DEF n
  <2> QED BY <1>1, <1>7, <2>1, EmptySeq DEF n
<1>8. CASE n # 0
  BY <1>0, <1>1, <1>6, <1>8 DEF n
<1> QED BY <1>7, <1>8

\* Concatenating sequences over S gives a sequence over S.
LEMMA FlattenType ==
  ASSUME NEW S, NEW w \in Seq(Seq(S))
  PROVE  Seqs!FlattenSeq(w) \in Seq(S)
<1> DEFINE Good == [i \in 0..Len(w) |-> Seq(S)]
<1>1. Len(w) \in Nat /\ \A i \in 1..Len(w) : w[i] \in Seq(S)
  OBVIOUS
<1>2. <<>> \in Good[0]
  BY <1>1, EmptySeq
<1>3. \A i \in 1..Len(w), q \in Seq(S) : q \in Good[i - 1] => q \o w[i] \in Good[i]
  <2> TAKE i \in 1..Len(w), q \in Seq(S)
  <2>1. q \o w[i] \in Seq(S)
    BY <1>1, ConcatProperties
  <2>2. Good[i] = Seq(S)
    BY <1>1
  <2> QED BY <2>1, <2>2
<1> HIDE DEF Good
<1> QED BY <1>2, <1>3, FlattenInduction

----------------------------------------------------------------------------
(* Sound runs, and the writes that carry them.                             *)

\* The assumptions on the constants, as the proofs use them.
LEMMA Assumptions ==
  /\ NSteps \in Nat \ {0} /\ MaxAttempts \in Nat \ {0} /\ MaxLives \in Nat
  /\ MaxLost \in Nat /\ Ceiling \in Nat /\ MaxSpend \in Nat
  /\ Prices \subseteq Nat \ {0} /\ MaxRetries \in [Steps -> Nat]
  /\ Group \subseteq Steps /\ Metered \subseteq Steps
  /\ Invocations \subseteq Invocation
BY ConstantsAssumption

\* A sound run stays sound when a step within its quota replaces another.
LEMMA SoundStep ==
  ASSUME NEW r \in SoundRun, NEW s \in Steps, NEW x \in Step,
         x.retries \in 0..MaxRetries[s]
  PROVE  [r EXCEPT !.step[s] = x] \in SoundRun
BY DEF SoundRun, Run

\* updateStep keeps a run sound.
LEMMA SoundStatus ==
  ASSUME NEW r \in SoundRun, NEW s \in Steps, NEW st \in StepStatus
  PROVE  WithStatus(r, s, st) \in SoundRun
<1> DEFINE x == [r.step[s] EXCEPT !.status = st,
                                  !.replay = IF st \in Settled THEN FALSE ELSE @]
           q == [r EXCEPT !.step[s] = x]
           h == CASE st = "running" -> "RUNNING" [] st = "failed"  -> "FAIL"
                  [] OTHER -> r.status
<1>1. x \in Step /\ x.retries \in 0..MaxRetries[s]
  BY DEF SoundRun, Run, Step
<1>2. q \in SoundRun
  BY <1>1, SoundStep
<1>3. h \in RunStatus
  BY DEF SoundRun, Run, RunStatus
<1>4. WithStatus(r, s, st) = [q EXCEPT !.status = h]
  BY DEF WithStatus, SoundRun, Run
<1>5. [q EXCEPT !.status = h] \in SoundRun
  BY <1>2, <1>3 DEF SoundRun, Run
<1> QED BY <1>4, <1>5

\* stopRun keeps a run sound.
LEMMA SoundStopped == \A r \in SoundRun : Stopped(r) \in SoundRun
BY DEF SoundRun, Run, Stopped, RunStatus

\* A sound run is a run, and not the absence of one.
LEMMA SoundIsRun == SoundRun \subseteq Run /\ NoRun \notin SoundRun
BY DEF SoundRun, Run, NoRun, RunStatus

\* The writes of saveRun, none or one.
LEMMA SavedWritesIn ==
  ASSUME NEW R, NEW r \in R
  PROVE  Saved(r) \in Seq(WriteOf(R))
<1>1. SaveEntry(r) \in WriteOf(R)
  BY DEF SaveEntry, WriteOf
<1> QED BY <1>1, EmptySeq DEF Saved

\* A step status is a well-formed write.
LEMMA StatusWrite ==
  ASSUME NEW R, NEW s \in Steps, NEW st \in StepStatus
  PROVE  StatusEvent(s, st) \in WriteOf(R)
BY DEF StatusEvent, WriteOf

\* The start of an attempt is a well-formed write.
LEMMA StartWrite ==
  ASSUME NEW R, NEW s \in Steps, NEW n \in Nums
  PROVE  StartEvent(s, n) \in WriteOf(R)
BY DEF StartEvent, WriteOf

\* The finish of an attempt is a well-formed write.
LEMMA FinishWrite ==
  ASSUME NEW R, NEW s \in Steps, NEW n \in Nums, NEW a \in Attempt
  PROVE  FinishEvent(s, n, a) \in WriteOf(R)
BY DEF FinishEvent, WriteOf

\* The event and the snapshot updateStep writes.
LEMMA StatusWritesIn ==
  ASSUME NEW R, NEW r, NEW s \in Steps, NEW st \in StepStatus, WithStatus(r, s, st) \in R
  PROVE  StatusWrites(r, s, st) \in Seq(WriteOf(R))
<1>1. <<StatusEvent(s, st)>> \in Seq(WriteOf(R))
  BY StatusWrite
<1>2. Saved(WithStatus(r, s, st)) \in Seq(WriteOf(R))
  BY SavedWritesIn
<1> QED BY <1>1, <1>2, ConcatProperties DEF StatusWrites

\* What a process writes of sound runs is well formed.
LEMMA SavedWrites == \A r \in SoundRun : Saved(r) \in Seq(SoundWrite)
BY SavedWritesIn DEF SoundWrite

\* The writes of updateStep on a sound run are well formed.
LEMMA StatusWritesTyped ==
  ASSUME NEW r \in SoundRun, NEW s \in Steps, NEW st \in StepStatus
  PROVE  StatusWrites(r, s, st) \in Seq(SoundWrite)
BY SoundStatus, StatusWritesIn DEF SoundWrite

\* The figures the code gives of its own are figures.
LEMMA FigureTypes ==
  /\ NoFigure \in Figure /\ Silent \in Figure /\ Unpriced \in Figure
  /\ \A s : CrashFigure(s) \in Figure
  /\ \A c \in 0..MaxSpend : Priced(c) \in Figure
BY Assumptions DEF NoFigure, Silent, Unpriced, CrashFigure, Priced, Figure

\* So are the attempts it writes of its own.
LEMMA AttemptTypes ==
  /\ NoAttempt \in Attempt /\ OpenRecord \in Attempt
  /\ \A s : Crashed(s) \in Attempt
BY FigureTypes DEF NoAttempt, OpenRecord, Crashed, Attempt

\* The absence of a result is typed as an answer.
LEMMA NoResultTyped == NoResult \in Answer
BY FigureTypes DEF NoResult, Answer

\* The last attempt of a step that has one: attempts have a greatest number
\* because MaxAttempts minus a number has a least value.
LEMMA LastKnown ==
  ASSUME NEW a, Known(a) # {}
  PROVE  /\ LastNum(a) \in Known(a) /\ LastNum(a) \in Nums
         /\ \A m \in Known(a) : m <= LastNum(a)
<1> DEFINE below == {MaxAttempts - n : n \in Known(a)}
<1>1. MaxAttempts \in Nat /\ \A n \in Known(a) : n \in Nat /\ n <= MaxAttempts
  BY Assumptions DEF Known, Nums
<1>2. below \subseteq Nat /\ below # {}
  BY <1>1
<1>3. PICK x \in below : \A y \in below : x <= y
  BY <1>2, NatMin
<1>4. PICK n \in Known(a) : x = MaxAttempts - n
  BY <1>3
<1>5. \A m \in Known(a) : m <= n
  <2> TAKE m \in Known(a)
  <2>1. MaxAttempts - n <= MaxAttempts - m
    BY <1>3, <1>4
  <2> QED BY <1>1, <2>1
<1>6. LastNum(a) = CHOOSE k \in Known(a) : \A m \in Known(a) : m <= k
  BY DEF LastNum
<1>7. LastNum(a) \in Known(a) /\ \A m \in Known(a) : m <= LastNum(a)
  BY <1>5, <1>6
<1> QED BY <1>7 DEF Known

\* Closing the attempts a dead process left open gives attempts.
LEMMA SettledTyped ==
  ASSUME NEW s \in Steps, NEW a \in [Nums -> Attempt]
  PROVE  SettledAttempts(s, a) \in [Nums -> Attempt]
BY AttemptTypes DEF SettledAttempts

\* Ascending lists the steps it is given.
LEMMA AscendingTyped ==
  ASSUME NEW S \in SUBSET Steps
  PROVE  /\ Cardinality(S) \in Nat
         /\ \A k \in 1..Cardinality(S) : Ascending(S)[k] \in S
<1>1. \E f \in [1..Cardinality(S) -> S] :
        \A i, j \in 1..Cardinality(S) : i < j => f[i] < f[j]
  <2>1. NSteps \in Nat /\ S \in SUBSET (1..NSteps)
    BY Assumptions DEF Steps
  <2> QED BY <2>1, IncreasingEnumeration
<1>2. Ascending(S) \in [1..Cardinality(S) -> S]
  BY <1>1 DEF Ascending
<1>3. IsFiniteSet(S)
  <2>1. IsFiniteSet(Steps)
    BY Assumptions, FS_Interval DEF Steps
  <2> QED BY <2>1, FS_Subset
<1> QED BY <1>2, <1>3, FS_CardinalityType

----------------------------------------------------------------------------
(* Initial state, and opening the run.                                     *)

\* A new run has no attempt.
LEMMA NoAttemptsTyped ==
  NoAttempts \in [Steps -> [Nums -> Attempt]]
BY AttemptTypes DEF NoAttempts

\* The memory of no process is typed.
LEMMA EmptyMemoryTyped ==
  /\ NoBudget \in Budget /\ NoResults \in [Steps -> Answer]
  /\ Idle \in [Steps -> Stages] /\ NoStop \in Signals /\ NoInvocation \in Invocation
  /\ 1 \in 1..(NSteps + 1) /\ << >> \in Seq(SoundWrite)
BY Assumptions, NoResultTyped
   DEF NoBudget, Budget, NoResults, Idle, Stages, NoStop, Signals, NoInvocation, Invocation

\* The invariant holds before any process starts.
LEMMA InitTypes == Init => TypeInv
<1> SUFFICES ASSUME Init PROVE TypeInv
  OBVIOUS
<1>1. RunsSound /\ WritesSound /\ AttemptsTyped /\ LedgerTyped
  BY NoAttemptsTyped, EmptyMemoryTyped
     DEF Init, RunsSound, WritesSound, AttemptsTyped, LedgerTyped
<1>2. ControlTyped /\ PassTyped
  BY EmptyMemoryTyped DEF Init, ControlTyped, PassTyped, Places
<1>3. DiskTyped
  BY Assumptions DEF Init, DiskTyped, Statuses
<1>4. Refundable /\ Numbered
  BY DEF Init, Refundable, Numbered, Idle
<1> QED BY <1>1, <1>2, <1>3, <1>4 DEF TypeInv

\* What a process that opens the run leaves as it was.
LEMMA OpeningTypes ==
  ASSUME TypeInv, pc = "off", pc' = "booted", run' \in SoundRun, inv' \in Invocation,
         outbox' \in Seq(SoundWrite), lives < MaxLives, lives' = lives + 1,
         att' \in [Steps -> [Nums -> Attempt]],
         jStops' \subseteq {"budget", "unpriced"},
         UNCHANGED <<budget, executing, stage, result, reruns, cursor, admitted, stop,
                     requested, snap, jStatus, jAtt, lost, finished, died, logs>>
  PROVE  TypeInv'
<1> USE DEF TypeInv
<1>1. RunsSound' /\ WritesSound' /\ LedgerTyped'
  BY DEF RunsSound, WritesSound, LedgerTyped
<1>2. AttemptsTyped'
  BY DEF AttemptsTyped
<1>3. ControlTyped' /\ PassTyped'
  BY DEF ControlTyped, PassTyped, Places
<1>4. DiskTyped'
  BY Assumptions DEF DiskTyped
<1>5. Refundable' /\ Numbered'
  BY DEF Refundable, Numbered, PassTyped, Idle
<1> QED BY <1>1, <1>2, <1>3, <1>4, <1>5

\* Creating a run keeps the types.
LEMMA CreateTypes ==
  ASSUME TypeInv, NEW i \in Invocations, Create(i)
  PROVE  TypeInv'
<1>0. i \in Invocation
  BY Assumptions
<1>1. \A s \in Steps : NewStep(i, s) \in Step /\ NewStep(i, s).retries \in 0..MaxRetries[s]
  <2> TAKE s \in Steps
  <2>1. (~Excludes(i, s) /\ Replays(i, s)) \in BOOLEAN
    OBVIOUS
  <2>2. 0 \in 0..MaxAttempts /\ 0 \in 0..MaxRetries[s]
    BY Assumptions
  <2> QED BY <2>1, <2>2, FigureTypes, SMTT(30) DEF NewStep, Step, StepStatus
<1>2. run' \in SoundRun /\ outbox' = Saved(run')
  BY <1>0, <1>1, Assumptions DEF Create, SoundRun, Run, RunStatus, Invocation
<1>3. outbox' \in Seq(SoundWrite)
  BY <1>2, SavedWrites
<1>4. att' \in [Steps -> [Nums -> Attempt]]
  BY DEF Create, TypeInv, AttemptsTyped
<1>5. jStops' \subseteq {"budget", "unpriced"}
  BY DEF Create, TypeInv, DiskTyped, disk
<1> QED BY <1>0, <1>2, <1>3, <1>4, <1>5, OpeningTypes DEF Create, disk

\* What journal and selection make of a step, its spend aside.
LEMMA ReconciledTypes ==
  ASSUME NEW x \in Step, NEW ev \in Statuses
  PROVE  /\ Reconciled(x, ev) \in Step /\ Reconciled(x, ev).retries = x.retries
         /\ Reconciled(x, ev).last = x.last
<1>1. CASE Reconciled(x, ev) = x
  BY <1>1
<1>2. CASE Reconciled(x, ev) # x
  <2>1. /\ ev \in StepStatus
        /\ Reconciled(x, ev) =
             [x EXCEPT !.status = ev, !.replay = IF ev \in Settled THEN FALSE ELSE @]
    BY <1>2 DEF Reconciled, StepStatus
  <2> QED BY <2>1 DEF Step
<1> QED BY <1>1, <1>2

\* The selection of the command line keeps a step typed, its quota untouched.
LEMMA SelectedTypes ==
  ASSUME NEW x \in Step, NEW i, NEW s
  PROVE  /\ Selected(x, i, s) \in Step /\ Selected(x, i, s).retries = x.retries
         /\ Selected(x, i, s).last = x.last
BY DEF Selected, Step, StepStatus

\* The selection does not look at the spend of a step.
LEMMA SelectedSpend ==
  ASSUME NEW x \in Step, NEW i, NEW s, NEW f
  PROVE  Selected([x EXCEPT !.spend = f], i, s) = [Selected(x, i, s) EXCEPT !.spend = f]
BY DEF Selected, Step

\* The run a resume restores is sound, whatever journal it is projected from.
LEMMA RestoredSound ==
  ASSUME NEW saved \in SoundRun, NEW statuses \in [Steps -> Statuses], NEW attempts,
         NEW i \in Invocation, WithinSpend(Restored(saved, statuses, attempts, i))
  PROVE  /\ Restored(saved, statuses, attempts, i) \in SoundRun
         /\ \A s \in Steps : Restored(saved, statuses, attempts, i).step[s].last
                                = saved.step[s].last
<1> DEFINE r == Restored(saved, statuses, attempts, i)
           y(s) == Reconciled(saved.step[s], statuses[s])
           f(s) == ProjectedSpend(saved.step[s].spend, attempts[s])
           z(s) == Selected(y(s), i, s)
           projected == [s \in Steps |-> [y(s) EXCEPT !.spend = f(s)]]
           selected == [s \in Steps |-> Selected(projected[s], i, s)]
           tookWork == \E s \in Steps : Excludes(i, s) /\ projected[s].status \in OwesWork
           hydrated == [saved EXCEPT !.step = selected]
           terminal == AllSettled(hydrated) /\ ~tookWork /\ ~VerdictOwed(hydrated)
           live == Reopened(hydrated, terminal, i)
           last == [s \in Steps |->
                     IF HasOpen(attempts[s])
                     THEN [live.step[s] EXCEPT !.spend = Merge(@, CrashFigure(s))]
                     ELSE live.step[s]]
<1>1. r = [live EXCEPT !.step = last]
  BY DEF Restored
<1>2. \A s \in Steps : /\ z(s) \in Step /\ z(s).retries \in 0..MaxRetries[s]
                       /\ z(s).last = saved.step[s].last
  <2> TAKE s \in Steps
  <2>1. saved.step[s] \in Step /\ saved.step[s].retries \in 0..MaxRetries[s]
    BY DEF SoundRun, Run
  <2>2. y(s) \in Step /\ y(s).retries = saved.step[s].retries /\ y(s).last = saved.step[s].last
    BY <2>1, ReconciledTypes
  <2>3. z(s) \in Step /\ z(s).retries = y(s).retries /\ z(s).last = y(s).last
    BY <2>2, SelectedTypes
  <2> QED BY <2>1, <2>2, <2>3
<1>3. \A s \in Steps : selected[s] = [z(s) EXCEPT !.spend = f(s)]
  <2> TAKE s \in Steps
  <2>1. saved.step[s] \in Step
    BY DEF SoundRun, Run
  <2>2. y(s) \in Step
    BY <2>1, ReconciledTypes
  <2> HIDE DEF y, f
  <2> QED BY <2>2, SelectedSpend
<1> HIDE DEF y, f, z, projected, terminal
<1>4. /\ live.step = selected
      /\ live = [saved EXCEPT !.step = selected,
                   !.status = IF terminal THEN saved.status ELSE "RUNNING",
                   !.aborted = terminal /\ saved.aborted,
                   !.stopped = terminal /\ saved.stopped,
                   !.exceeded = i.budget = 0 /\ saved.exceeded,
                   !.max = IF i.budget # 0 THEN i.budget ELSE saved.max,
                   !.unmetered = saved.unmetered \/ i.unmetered]
  BY DEF Reopened, SoundRun, Run
<1>5. \A s \in Steps : \E g : last[s] = [z(s) EXCEPT !.spend = g]
  <2> TAKE s \in Steps
  <2> HIDE DEF selected, live
  <2>0. z(s) \in Step /\ live.step[s] = [z(s) EXCEPT !.spend = f(s)]
    BY <1>2, <1>3, <1>4
  <2>1. CASE HasOpen(attempts[s])
    <3>1. last[s] = [live.step[s] EXCEPT !.spend = Merge(live.step[s].spend, CrashFigure(s))]
      BY <2>1
    <3> DEFINE g == Merge(live.step[s].spend, CrashFigure(s))
    <3>2. last[s] = [live.step[s] EXCEPT !.spend = g]
      BY <3>1
    <3> HIDE DEF g
    <3>3. last[s] = [z(s) EXCEPT !.spend = g]
      BY <2>0, <3>2 DEF Step
    <3> QED BY <3>3
  <2>2. CASE ~HasOpen(attempts[s])
    BY <2>0, <2>2
  <2> QED BY <2>1, <2>2
<1>6. last = [s \in Steps |-> last[s]]
  OBVIOUS
<1> HIDE DEF last
<1>7. \A s \in Steps : last[s] \in Step /\ last[s].retries \in 0..MaxRetries[s]
  <2> TAKE s \in Steps
  <2>1. PICK g : last[s] = [z(s) EXCEPT !.spend = g]
    BY <1>5
  <2>2. r.step = last
    BY <1>1, <1>4 DEF SoundRun, Run
  <2>3. g \in Figure
    <3>1. r.step[s].spend \in Figure
      BY DEF WithinSpend
    <3>2. last[s].spend = g
      BY <2>1, <1>2 DEF Step
    <3> QED BY <2>2, <3>1, <3>2
  <2> QED BY <1>2, <2>1, <2>3 DEF Step
<1>8. r = [live EXCEPT !.step = last] /\ last \in [Steps -> Step]
  BY <1>1, <1>6, <1>7
<1> HIDE DEF r, live, selected
<1>9. r \in Run
  <2> DEFINE st == IF terminal THEN saved.status ELSE "RUNNING"
             ab == terminal /\ saved.aborted
             so == terminal /\ saved.stopped
             ex == i.budget = 0 /\ saved.exceeded
             mx == IF i.budget # 0 THEN i.budget ELSE saved.max
             um == saved.unmetered \/ i.unmetered
  <2>1. saved \in Run /\ i.budget \in Nat /\ i.unmetered \in BOOLEAN
    BY DEF SoundRun, Invocation
  <2>2. st \in RunStatus /\ mx \in Nat
    BY <2>1 DEF Run, RunStatus
  <2>3. ab \in BOOLEAN /\ so \in BOOLEAN /\ ex \in BOOLEAN /\ um \in BOOLEAN
    OBVIOUS
  <2>4. r = [saved EXCEPT !.step = last, !.status = st, !.aborted = ab, !.stopped = so,
               !.exceeded = ex, !.max = mx, !.unmetered = um]
    BY <1>4, <1>8, <2>1 DEF Run
  <2> HIDE DEF st, ab, so, ex, mx, um
  <2> QED BY <1>8, <2>1, <2>2, <2>3, <2>4 DEF Run
<1>10. r.step = last
  BY <1>4, <1>8 DEF SoundRun, Run
<1>11. \A s \in Steps : last[s].last = saved.step[s].last
  BY <1>2, <1>5 DEF Step
<1> QED BY <1>7, <1>9, <1>10, <1>11 DEF SoundRun, r

\* The writes of a resume are well formed.
LEMMA RestoreWritesIn ==
  ASSUME NEW saved, NEW attempts \in [Steps -> [Nums -> Attempt]],
         NEW R, NEW r \in R, NEW i
  PROVE  RestoreWrites(saved, attempts, r, i) \in Seq(WriteOf(R))
<1> DEFINE crashed == {s \in Steps : HasOpen(attempts[s])}
           c == Cardinality(crashed)
           order == Ascending(crashed)
           open(s) == CHOOSE n \in Nums : attempts[s][n].status = "running"
           finish(s) == FinishEvent(s, open(s), Crashed(s))
           closes == [k \in 1..c |-> finish(order[k])]
           changed == crashed # {} \/ (i.unmetered /\ ~saved.unmetered)
           saves == IF r.status = "RUNNING" \/ changed THEN Saved(r) ELSE <<>>
<1>1. \A s \in crashed : finish(s) \in WriteOf(R)
  <2> TAKE s \in crashed
  <2>1. open(s) \in Nums
    BY DEF HasOpen
  <2> HIDE DEF open
  <2> QED BY <2>1, AttemptTypes, FinishWrite
<1>2. c \in Nat /\ \A k \in 1..c : order[k] \in crashed
  BY AscendingTyped
<1> HIDE DEF crashed, c, order, finish
<1>3. closes \in Seq(WriteOf(R))
  BY <1>1, <1>2
<1>4. saves \in Seq(WriteOf(R))
  BY SavedWritesIn, EmptySeq
<1>5. closes \o saves \in Seq(WriteOf(R))
  BY <1>3, <1>4, ConcatProperties
<1> QED BY <1>5 DEF RestoreWrites, crashed, c, order, finish

\* On a sound run they are well formed.
LEMMA RestoreWritesTyped ==
  ASSUME NEW saved, NEW attempts \in [Steps -> [Nums -> Attempt]],
         NEW r \in SoundRun, NEW i
  PROVE  RestoreWrites(saved, attempts, r, i) \in Seq(SoundWrite)
BY RestoreWritesIn DEF SoundWrite

\* Resuming a run keeps the types.
LEMMA ResumeTypes ==
  ASSUME TypeInv, NEW i \in Invocations, Resume(i)
  PROVE  TypeInv'
<1>0. i \in Invocation /\ [i EXCEPT !.resuming = TRUE] \in Invocation
  <2>1. i \in Invocation
    BY Assumptions
  <2> QED BY <2>1 DEF Invocation
<1>1. /\ snap \in SoundRun /\ jStatus \in [Steps -> Statuses]
      /\ jAtt \in [Steps -> [Nums -> Attempt]]
      /\ jStops \subseteq {"budget", "unpriced"}
  BY DEF Resume, TypeInv, RunsSound, AttemptsTyped, DiskTyped
<1>2. run' \in SoundRun /\ outbox' = RestoreWrites(snap, jAtt, run', i)
  BY <1>0, <1>1, RestoredSound DEF Resume
<1>3. outbox' \in Seq(SoundWrite)
  BY <1>1, <1>2, RestoreWritesTyped
<1>4. att' \in [Steps -> [Nums -> Attempt]]
  BY <1>1, SettledTyped DEF Resume
<1>5. jStops' \subseteq {"budget", "unpriced"}
  BY <1>1 DEF Resume
<1> QED BY <1>0, <1>2, <1>3, <1>4, <1>5, OpeningTypes DEF Resume

\* Opening the ledger keeps the types: what the steps add up to is bounded.
LEMMA OpenLedgerTypes ==
  ASSUME TypeInv, OpenLedger
  PROVE  TypeInv'
<1> USE DEF TypeInv
<1> DEFINE unknown == run.unaccounted \/ \E s \in Steps : StepProvesUnpriced(s)
<1>1. run \in SoundRun /\ unknown \in BOOLEAN /\ RunCost(run) \in 0..MaxSpend
  BY DEF OpenLedger, RunsSound, WithinSpend
<1>2. /\ run' = [run EXCEPT !.unaccounted = unknown]
      /\ budget' = [cum |-> RunCost(run), exceeded |-> run.exceeded, unknown |-> unknown]
  BY DEF OpenLedger
<1> HIDE DEF unknown
<1>3. run' \in SoundRun /\ run'.step = run.step /\ budget' \in Budget
  BY <1>1, <1>2 DEF SoundRun, Run, Budget
<1>4. RunsSound' /\ WritesSound' /\ AttemptsTyped' /\ LedgerTyped'
  BY <1>3 DEF OpenLedger, RunsSound, WritesSound, AttemptsTyped, LedgerTyped, disk
<1>5. ControlTyped' /\ PassTyped'
  BY DEF OpenLedger, ControlTyped, PassTyped, Places
<1>6. DiskTyped'
  BY DEF OpenLedger, DiskTyped, disk, history
<1>7. Refundable' /\ Numbered'
  BY <1>3 DEF OpenLedger, Refundable, Numbered, PassTyped
<1> QED BY <1>4, <1>5, <1>6, <1>7

----------------------------------------------------------------------------
(* The step loop.                                                          *)

\* updateStep leaves the quotas alone.
LEMMA RetriesKept ==
  ASSUME NEW r \in SoundRun, NEW s \in Steps, NEW st \in StepStatus
  PROVE  \A t \in Steps : WithStatus(r, s, st).step[t].retries = r.step[t].retries
BY DEF WithStatus, SoundRun, Run, Step

\* A step that calls updateStep leaves a sound run and well-formed writes.
LEMMA UpdateStepTypes ==
  ASSUME run \in SoundRun, executing \subseteq Steps, NEW s \in Steps,
         NEW st \in StepStatus, UpdateStep(s, st)
  PROVE  /\ run' \in SoundRun /\ executing' \subseteq Steps
         /\ outbox' \in Seq(SoundWrite)
         /\ \A t \in Steps : run'.step[t].retries = run.step[t].retries
BY SoundStatus, StatusWritesTyped, RetriesKept DEF UpdateStep

\* A run that is stopped, as a process writes it.
LEMMA StopTypes ==
  ASSUME run \in SoundRun, run' = Stopped(run), outbox' = Saved(run')
  PROVE  /\ run' \in SoundRun /\ outbox' \in Seq(SoundWrite)
         /\ \A t \in Steps : run'.step[t].retries = run.step[t].retries
<1>1. run' \in SoundRun
  BY SoundStopped
<1>2. run'.step = run.step
  BY DEF Stopped, SoundRun, Run
<1> QED BY <1>1, <1>2, SavedWrites

\* Breaking the loop keeps its control typed.
LEMMA BrokenLoopTypes ==
  ASSUME NEW signals \in Signals, cursor \in 1..(NSteps + 1), BreakLoop(signals)
  PROVE  /\ pc' \in {"admit", "ending"} /\ admitted' \subseteq Steps /\ stop' \in Signals
         /\ cursor' \in 1..(NSteps + 1)
BY DEF BreakLoop

\* Every decision about a step keeps the types, given what it does to the run,
\* the outbox and the control of the loop.
LEMMA AdmissionKeeps ==
  ASSUME TypeInv, pc = "admit", pc' \in {"admit", "ending"}, run' \in SoundRun,
         \A t \in Steps : run'.step[t].retries = run.step[t].retries,
         outbox' \in Seq(SoundWrite), cursor' \in 1..(NSteps + 1),
         executing' \subseteq Steps, admitted' \subseteq Steps, stop' \in Signals,
         AdmissionFrame
  PROVE  TypeInv'
<1> USE DEF TypeInv
<1>1. RunsSound' /\ WritesSound' /\ AttemptsTyped' /\ LedgerTyped'
  BY DEF AdmissionFrame, RunsSound, WritesSound, AttemptsTyped, LedgerTyped, disk
<1>2. ControlTyped' /\ PassTyped'
  BY DEF AdmissionFrame, ControlTyped, PassTyped, Places
<1>3. DiskTyped'
  BY DEF AdmissionFrame, DiskTyped, disk, history
<1>4. Refundable' /\ Numbered'
  BY DEF AdmissionFrame, Refundable, Numbered, ControlTyped
<1> QED BY <1>1, <1>2, <1>3, <1>4

\* Every decision about a step keeps the types.
LEMMA AdmissionTypes ==
  ASSUME TypeInv, Admission
  PROVE  TypeInv'
<1>0. PICK s \in Steps :
        \/ PassOver(s) \/ CostStopsAdmission(s) \/ WhenSkips(s) \/ WhenStops(s)
        \/ AdmissionFails(s) \/ AdmissionAbsorbed(s) \/ NeedsDecision(s) \/ Admit(s)
  BY DEF Admission
<1>1. /\ pc = "admit" /\ cursor = s
      /\ run \in SoundRun /\ outbox \in Seq(SoundWrite) /\ cursor \in 1..(NSteps + 1)
      /\ executing \subseteq Steps /\ admitted \subseteq Steps /\ stop \in Signals
  <2>1. Considers(s)
    BY <1>0 DEF PassOver, CostStopsAdmission, WhenSkips, WhenStops, AdmissionFails,
                AdmissionAbsorbed, NeedsDecision, Admit, Funded
  <2> QED BY <2>1 DEF Considers, TypeInv, RunsSound, WritesSound, ControlTyped
<1>2. cursor + 1 \in 1..(NSteps + 1)
  BY <1>1, Assumptions DEF Steps
<1>3. CASE PassOver(s)
  BY <1>1, <1>2, <1>3, AdmissionKeeps DEF PassOver
<1>4. CASE CostStopsAdmission(s)
  <2> DEFINE d == CostDecision(run, budget)
             signals == [NoStop EXCEPT !.exceeded = d = "exceeded",
                                       !.unaccounted = d = "unaccounted"]
  <2>1. BreakLoop(signals) /\ UNCHANGED <<run, executing, outbox>> /\ AdmissionFrame
    BY <1>4 DEF CostStopsAdmission
  <2> HIDE DEF d
  <2>2. signals \in Signals
    BY DEF NoStop, Signals
  <2> HIDE DEF signals
  <2> QED BY <1>1, <2>1, <2>2, BrokenLoopTypes, AdmissionKeeps
<1>5. CASE WhenSkips(s)
  <2> DEFINE st == IF run.step[s].status = "done" THEN "done" ELSE "skipped"
  <2>1. UpdateStep(s, st) /\ st \in StepStatus
    BY <1>5 DEF WhenSkips, StepStatus
  <2> HIDE DEF st
  <2>2. /\ run' \in SoundRun /\ executing' \subseteq Steps /\ outbox' \in Seq(SoundWrite)
        /\ \A t \in Steps : run'.step[t].retries = run.step[t].retries
    BY <1>1, <2>1, UpdateStepTypes
  <2> QED BY <1>1, <1>2, <1>5, <2>2, AdmissionKeeps DEF WhenSkips
<1>6. CASE WhenStops(s)
  <2>1. [NoStop EXCEPT !.stopped = TRUE] \in Signals
    BY DEF NoStop, Signals
  <2> QED BY <1>1, <1>6, <2>1, StopTypes, BrokenLoopTypes, AdmissionKeeps DEF WhenStops
<1>7. CASE AdmissionFails(s)
  <2>1. [NoStop EXCEPT !.failed = TRUE] \in Signals
    BY DEF NoStop, Signals
  <2>2. /\ run' \in SoundRun /\ executing' \subseteq Steps /\ outbox' \in Seq(SoundWrite)
        /\ \A t \in Steps : run'.step[t].retries = run.step[t].retries
    BY <1>1, <1>7, UpdateStepTypes DEF AdmissionFails, StepStatus
  <2> QED BY <1>1, <1>7, <2>1, <2>2, BrokenLoopTypes, AdmissionKeeps DEF AdmissionFails
<1>8. CASE AdmissionAbsorbed(s)
  <2>2. /\ run' \in SoundRun /\ executing' \subseteq Steps /\ outbox' \in Seq(SoundWrite)
        /\ \A t \in Steps : run'.step[t].retries = run.step[t].retries
    BY <1>1, <1>8, UpdateStepTypes DEF AdmissionAbsorbed, StepStatus
  <2> QED BY <1>1, <1>2, <1>8, <2>2, AdmissionKeeps DEF AdmissionAbsorbed
<1>9. CASE NeedsDecision(s)
  <2>1. [NoStop EXCEPT !.stopped = TRUE] \in Signals
    BY DEF NoStop, Signals
  <2> QED BY <1>1, <1>9, <2>1, StopTypes, BrokenLoopTypes, AdmissionKeeps DEF NeedsDecision
<1>10. CASE Admit(s)
  BY <1>1, <1>2, <1>10, AdmissionKeeps DEF Admit
<1> QED BY <1>0, <1>3, <1>4, <1>5, <1>6, <1>7, <1>8, <1>9, <1>10

\* Launching a unit keeps the types.
LEMMA LaunchTypes ==
  ASSUME TypeInv, Launch
  PROVE  TypeInv'
<1> USE DEF TypeInv
<1>1. RunsSound' /\ WritesSound' /\ AttemptsTyped' /\ LedgerTyped'
  BY DEF Launch, RunsSound, WritesSound, AttemptsTyped, LedgerTyped, disk
<1>2. ControlTyped' /\ PassTyped'
  BY DEF Launch, ControlTyped, PassTyped, Places, Stages
<1>3. DiskTyped'
  BY DEF Launch, DiskTyped, disk, history
<1>4. Refundable' /\ Numbered'
  BY DEF Launch, Refundable, Numbered
<1> QED BY <1>1, <1>2, <1>3, <1>4

\* Leaving the loop keeps the types.
LEMMA LeaveLoopTypes ==
  ASSUME TypeInv, LeaveLoop
  PROVE  TypeInv'
<1> USE DEF TypeInv
<1>1. RunsSound' /\ WritesSound' /\ AttemptsTyped' /\ LedgerTyped'
  BY DEF LeaveLoop, RunsSound, WritesSound, AttemptsTyped, LedgerTyped, disk
<1>2. ControlTyped' /\ PassTyped'
  BY DEF LeaveLoop, ControlTyped, PassTyped, Places
<1>3. DiskTyped'
  BY DEF LeaveLoop, DiskTyped, disk, history
<1>4. Refundable' /\ Numbered'
  BY DEF LeaveLoop, Refundable, Numbered
<1> QED BY <1>1, <1>2, <1>3, <1>4

----------------------------------------------------------------------------
(* The pass of one step.                                                   *)

\* A step of a pass keeps the types, given what it does to the run, to its
\* attempts and quotas, and to the outbox.
LEMMA PassKeeps ==
  ASSUME TypeInv, pc = "pass", PassFrame, run' \in SoundRun, outbox' \in Seq(SoundWrite),
         att' \in [Steps -> [Nums -> Attempt]],
         budget' \in Budget, result' \in [Steps -> Answer], executing' \subseteq Steps,
         reruns' \subseteq Steps, stop' \in Signals, stage' \in [Steps -> Stages],
         \A t \in reruns' : run'.step[t].retries >= 1, Numbered',
         UNCHANGED <<lives, lost, finished>>, died' \subseteq Steps,
         logs' \subseteq Steps \X Nums
  PROVE  TypeInv'
<1> USE DEF TypeInv
<1>1. RunsSound' /\ WritesSound' /\ AttemptsTyped' /\ LedgerTyped'
  BY DEF PassFrame, RunsSound, WritesSound, AttemptsTyped, LedgerTyped, disk
<1>2. ControlTyped' /\ PassTyped'
  BY DEF PassFrame, ControlTyped, PassTyped, Places
<1>3. DiskTyped'
  BY DEF PassFrame, DiskTyped, disk
<1>4. Refundable'
  BY DEF PassFrame, Refundable
<1> QED BY <1>1, <1>2, <1>3, <1>4

\* What a step of a pass starts from.
LEMMA PassStart ==
  ASSUME TypeInv, pc = "pass"
  PROVE  /\ run \in SoundRun /\ outbox \in Seq(SoundWrite)
         /\ att \in [Steps -> [Nums -> Attempt]]
         /\ budget \in Budget /\ result \in [Steps -> Answer] /\ executing \subseteq Steps
         /\ reruns \subseteq Steps /\ stop \in Signals /\ stage \in [Steps -> Stages]
         /\ \A t \in reruns : run.step[t].retries >= 1
         /\ Numbered /\ died \subseteq Steps /\ logs \subseteq Steps \X Nums
BY DEF TypeInv, RunsSound, WritesSound, AttemptsTyped, LedgerTyped, ControlTyped,
       PassTyped, DiskTyped, Refundable

\* A pass that moves to a stage without attempt keeps Numbered.
LEMMA NumberedKept ==
  ASSUME Numbered, stage \in [Steps -> Stages], NEW s \in Steps, NEW to,
         stage' = [stage EXCEPT ![s] = to], to \notin {"opened", "spawned"},
         UNCHANGED att
  PROVE  Numbered'
BY DEF Numbered

\* Starting a pass keeps the types.
LEMMA StartPassTypes ==
  ASSUME TypeInv, NEW s \in Steps, StartPass(s)
  PROVE  TypeInv'
<1>1. pc = "pass" /\ stage' = [stage EXCEPT ![s] = "started"]
  BY DEF StartPass
<1>2. /\ run' \in SoundRun /\ executing' \subseteq Steps /\ outbox' \in Seq(SoundWrite)
      /\ \A t \in Steps : run'.step[t].retries = run.step[t].retries
  BY <1>1, PassStart, UpdateStepTypes DEF StartPass, StepStatus
<1>3. stage' \in [Steps -> Stages] /\ Numbered'
  BY <1>1, PassStart, NumberedKept DEF StartPass, Stages
<1>4. \A t \in reruns' : run'.step[t].retries >= 1
  BY <1>1, <1>2, PassStart DEF StartPass
<1> QED BY <1>1, <1>2, <1>3, <1>4, PassStart, PassKeeps DEF StartPass, history

\* Opening an attempt keeps the types, and gives the step an attempt.
LEMMA OpenAttemptTypes ==
  ASSUME TypeInv, NEW s \in Steps, OpenAttempt(s)
  PROVE  TypeInv'
<1> DEFINE n == NextNumber(s)
           r == [run EXCEPT !.step[s].last = n]
<1>1. /\ pc = "pass" /\ n \in Nums /\ run' = r /\ outbox' = <<StartEvent(s, n)>> \o Saved(r)
      /\ att' = [att EXCEPT ![s][n] = OpenRecord]
      /\ stage' = [stage EXCEPT ![s] = "opened"] /\ died' = died \ {s}
      /\ UNCHANGED <<budget, executing, result, reruns, stop, lives, lost, finished, logs>>
      /\ PassFrame
  BY DEF OpenAttempt
<1>0. /\ run \in SoundRun /\ att \in [Steps -> [Nums -> Attempt]]
  BY <1>1, PassStart
<1> HIDE DEF n
<1>2. r \in SoundRun /\ \A t \in Steps : r.step[t].retries = run.step[t].retries
  <2>1. n \in 0..MaxAttempts
    BY <1>1 DEF Nums
  <2> QED BY <1>0, <2>1 DEF SoundRun, Run, Step
<1> HIDE DEF r
<1>3. outbox' \in Seq(SoundWrite)
  <2>1. <<StartEvent(s, n)>> \in Seq(SoundWrite)
    BY <1>1, StartWrite DEF SoundWrite
  <2>2. Saved(r) \in Seq(SoundWrite)
    BY <1>2, SavedWrites
  <2> QED BY <1>1, <2>1, <2>2, ConcatProperties
<1>4. /\ att' \in [Steps -> [Nums -> Attempt]]
      /\ Known(att'[s]) # {} /\ \A t \in Steps : t # s => att'[t] = att[t]
  <2> DEFINE b == [att[s] EXCEPT ![n] = OpenRecord]
  <2>1. b \in [Nums -> Attempt] /\ Known(b) # {}
    <3>1. OpenRecord \in Attempt /\ OpenRecord.status # "none"
      BY AttemptTypes DEF OpenRecord, NoAttempt
    <3> QED BY <1>0, <1>1, <3>1 DEF Known
  <2>2. att' = [att EXCEPT ![s] = b]
    BY <1>1
  <2> HIDE DEF b
  <2> QED BY <1>0, <2>1, <2>2
<1>5. stage' \in [Steps -> Stages] /\ Numbered'
  <2>1. stage \in [Steps -> Stages] /\ Numbered
    BY <1>1, PassStart
  <2> QED BY <1>1, <1>4, <2>1 DEF Numbered, Stages
<1>6. \A t \in reruns' : run'.step[t].retries >= 1
  BY <1>1, <1>2, PassStart
<1>7. run' \in SoundRun
  BY <1>1, <1>2
<1> QED BY <1>1, <1>7, <1>3, <1>4, <1>5, <1>6, PassStart, PassKeeps

\* Spawning keeps the types: the log is named by an attempt that exists.
LEMMA SpawnTypes ==
  ASSUME TypeInv, NEW s \in Steps, Spawn(s)
  PROVE  TypeInv'
<1>1. /\ pc = "pass" /\ stage[s] = "opened" /\ stage' = [stage EXCEPT ![s] = "spawned"]
      /\ logs' = logs \cup {<<s, Last(s)>>}
      /\ UNCHANGED <<run, att, budget, executing, result, reruns, stop, outbox,
                     lives, lost, finished, died>>
      /\ PassFrame
  BY DEF Spawn
<1>2. Known(att[s]) # {}
  BY <1>1, PassStart DEF Numbered
<1>3. Last(s) \in Nums
  BY <1>1, <1>2, PassStart, LastKnown DEF Last
<1>4. stage' \in [Steps -> Stages] /\ Numbered'
  <2>1. stage \in [Steps -> Stages] /\ Numbered
    BY <1>1, PassStart
  <2> QED BY <1>1, <1>2, <2>1 DEF Numbered, Stages
<1>5. logs' \subseteq Steps \X Nums
  BY <1>1, <1>3, PassStart
<1> QED BY <1>1, <1>4, <1>5, PassStart, PassKeeps

\* What an attempt answers is typed once the bound on spending admits it.
LEMMA ResultsTyped ==
  ASSUME NEW s, NEW res \in Results(s)
  PROVE  /\ res.fig.cost \in Nat /\ res.fig.unknown \in BOOLEAN /\ res.fig.tokens \in BOOLEAN
         /\ res.cut \in {"none", "budget", "unpriced"}
         /\ res.fig.cost <= MaxSpend => res.fig \in Figure /\ res \in Answer
<1> DEFINE figs == {Priced(c) : c \in Prices} \cup {Unpriced, NoFigure, CrashFigure(s)}
<1>1. /\ res \in [ok: BOOLEAN, fig: figs, cut: {"none", "budget", "unpriced"}, blocked: BOOLEAN]
  <2>1. {Priced(c) : c \in Prices} \cup (IF s \in Metered THEN {Unpriced} ELSE {NoFigure})
          \subseteq figs
    OBVIOUS
  <2>2. {CrashFigure(s)} \subseteq figs
    OBVIOUS
  <2> HIDE DEF figs
  <2> QED BY <2>1, <2>2 DEF Results
<1>2. \A f \in figs : /\ f.cost \in Nat /\ f.unknown \in BOOLEAN /\ f.tokens \in BOOLEAN
                      /\ f.cost <= MaxSpend => f \in Figure
  <2> TAKE f \in figs
  <2>1. CASE \E c \in Prices : f = Priced(c)
    <3>1. PICK c \in Prices : f = Priced(c)
      BY <2>1
    <3>2. c \in Nat
      BY Assumptions
    <3> QED BY <3>1, <3>2, Assumptions DEF Priced, Figure
  <2>2. CASE f \in {Unpriced, NoFigure, CrashFigure(s)}
    <3>1. f \in Figure
      BY <2>2, FigureTypes
    <3> QED BY <3>1, Assumptions DEF Figure
  <2> QED BY <2>1, <2>2
<1> HIDE DEF figs
<1>3. res.fig \in figs /\ res.cut \in {"none", "budget", "unpriced"}
  BY <1>1
<1>4. res.fig \in Figure => res \in Answer
  BY <1>1 DEF Answer
<1> QED BY <1>2, <1>3, <1>4

\* The ledger a charge leaves is typed.
LEMMA ChargedTyped ==
  ASSUME NEW b \in Budget, NEW s, NEW res \in Results(s), Charged(b, res).cum <= MaxSpend
  PROVE  Charged(b, res) \in Budget /\ res.fig \in Figure /\ res \in Answer
<1>1. /\ res.fig.cost \in Nat
      /\ res.fig.cost <= MaxSpend => res.fig \in Figure /\ res \in Answer
  BY ResultsTyped
<1> DEFINE ex == b.exceeded \/ res.cut = "budget"
           un == b.unknown \/ ProvesUnpriced(res.fig) \/ res.cut = "unpriced"
           cum == b.cum + res.fig.cost
<1>2. ex \in BOOLEAN /\ un \in BOOLEAN
  OBVIOUS
<1>3. Charged(b, res) = [b EXCEPT !.cum = cum, !.exceeded = ex, !.unknown = un]
  BY DEF Charged, Budget
<1> HIDE DEF ex, un
<1>4. b.cum \in Nat /\ cum \in Nat /\ cum <= MaxSpend
  BY <1>1, <1>3 DEF Budget
<1>5. res.fig.cost <= MaxSpend /\ cum \in 0..MaxSpend
  BY <1>1, <1>4, Assumptions
<1> HIDE DEF cum
<1>6. Charged(b, res) \in Budget
  BY <1>2, <1>3, <1>5 DEF Budget
<1> QED BY <1>1, <1>5, <1>6

\* What the first result of an attempt does: the run is charged, the attempt is
\* closed, and the run it leaves is the only one it writes.
LEMMA ResultTypes ==
  ASSUME TypeInv, NEW s \in Steps, SettleAttempt(s), StillOpen(s)
  PROVE  /\ run' \in SoundRun /\ run'.aborted = run.aborted
         /\ \A t \in Steps : /\ run'.step[t].retries = run.step[t].retries
                             /\ run'.step[t].last = run.step[t].last
         /\ \A R : run' \in R => outbox' \in Seq(WriteOf(R))
         /\ budget' \in Budget /\ result' \in [Steps -> Answer]
         /\ att' \in [Steps -> [Nums -> Attempt]] /\ Known(att'[s]) # {}
         /\ \A t \in Steps : t # s => att'[t] = att[t]
<1> DEFINE n == Last(s)
           a(res) == [status |-> IF res.ok THEN "done" ELSE "failed", fig |-> res.fig,
                      interrupted |-> FALSE]
           r(res) == [run EXCEPT !.step[s].spend = Merge(@, res.fig),
                          !.exceeded = @ \/ res.cut = "budget",
                          !.unaccounted = @ \/ ProvesUnpriced(res.fig) \/ res.cut = "unpriced"]
<1>1. pc = "pass" /\ stage[s] = "spawned"
  BY DEF SettleAttempt
<1>0. /\ run \in SoundRun /\ att \in [Steps -> [Nums -> Attempt]]
      /\ budget \in Budget /\ result \in [Steps -> Answer] /\ Numbered
  BY <1>1, PassStart
<1>2. n \in Nums
  <2>1. Known(att[s]) # {}
    BY <1>0, <1>1 DEF Numbered
  <2> QED BY <2>1, LastKnown DEF Last
<1>3. PICK res \in Results(s) :
        /\ Charged(budget, res).cum <= MaxSpend /\ WithinSpend(r(res))
        /\ att' = [att EXCEPT ![s][n] = a(res)]
        /\ budget' = Charged(budget, res) /\ run' = r(res)
        /\ result' = [result EXCEPT ![s] = IF Stopping THEN NoResult ELSE res]
        /\ outbox' = <<FinishEvent(s, n, a(res))>> \o GuardWrites(res) \o Saved(r(res))
  BY DEF SettleAttempt
<1>4. budget' \in Budget /\ res.fig \in Figure /\ res \in Answer
  BY <1>0, <1>3, ChargedTyped
<1>5. a(res) \in Attempt /\ a(res).status # "none"
  BY <1>4 DEF Attempt
<1>6. /\ run' \in SoundRun /\ run'.aborted = run.aborted
      /\ \A t \in Steps : /\ run'.step[t].retries = run.step[t].retries
                          /\ run'.step[t].last = run.step[t].last
  <2> DEFINE spend == Merge(run.step[s].spend, res.fig)
             ex == run.exceeded \/ res.cut = "budget"
             un == run.unaccounted \/ ProvesUnpriced(res.fig) \/ res.cut = "unpriced"
  <2>1. ex \in BOOLEAN /\ un \in BOOLEAN
    OBVIOUS
  <2>2. run' = [run EXCEPT !.step[s].spend = spend, !.exceeded = ex, !.unaccounted = un]
    BY <1>3, <1>0 DEF SoundRun, Run, Step
  <2> HIDE DEF spend, ex, un
  <2>3. spend \in Figure
    <3>1. run'.step[s].spend = spend
      BY <2>2, <1>0 DEF SoundRun, Run, Step
    <3> QED BY <1>3, <3>1 DEF WithinSpend
  <2> DEFINE x == [run.step[s] EXCEPT !.spend = spend]
             steps == [run.step EXCEPT ![s] = x]
  <2>4. run \in Run /\ run.step \in [Steps -> Step] /\ run.step[s] \in Step
    BY <1>0 DEF SoundRun, Run
  <2>5. x \in Step /\ x.retries = run.step[s].retries /\ x.last = run.step[s].last
    BY <2>3, <2>4 DEF Step
  <2>6. run' = [run EXCEPT !.step = steps, !.exceeded = ex, !.unaccounted = un]
    BY <2>2
  <2> HIDE DEF x
  <2>7. /\ steps \in [Steps -> Step]
        /\ \A t \in Steps : steps[t].retries = run.step[t].retries /\ steps[t].last = run.step[t].last
    BY <2>4, <2>5
  <2> HIDE DEF steps
  <2>8. run' \in Run /\ run'.aborted = run.aborted /\ run'.step = steps
    BY <2>1, <2>4, <2>6, <2>7 DEF Run
  <2> QED BY <1>0, <2>7, <2>8 DEF SoundRun
<1> HIDE DEF a, r
<1>7. ASSUME NEW R, run' \in R PROVE outbox' \in Seq(WriteOf(R))
  <2>1. <<FinishEvent(s, n, a(res))>> \in Seq(WriteOf(R))
    BY <1>2, <1>5, FinishWrite
  <2>2. GuardWrites(res) \in Seq(WriteOf(R))
    <3>1. CASE res.cut = "none"
      BY <3>1 DEF GuardWrites
    <3>2. CASE res.cut # "none"
      <4>1. GuardEvent(res.cut) \in WriteOf(R)
        BY <3>2, ResultsTyped DEF GuardEvent, WriteOf
      <4> QED BY <3>2, <4>1 DEF GuardWrites
    <3> QED BY <3>1, <3>2
  <2>3. Saved(run') \in Seq(WriteOf(R))
    BY <1>7, SavedWritesIn
  <2>4. <<FinishEvent(s, n, a(res))>> \o GuardWrites(res) \in Seq(WriteOf(R))
    BY <2>1, <2>2, ConcatProperties
  <2> QED BY <1>3, <2>3, <2>4, ConcatProperties
<1>8. /\ att' \in [Steps -> [Nums -> Attempt]] /\ Known(att'[s]) # {}
      /\ \A t \in Steps : t # s => att'[t] = att[t]
  <2> DEFINE b == [att[s] EXCEPT ![n] = a(res)]
  <2>1. b \in [Nums -> Attempt] /\ Known(b) # {}
    BY <1>0, <1>2, <1>5 DEF Known
  <2>2. att' = [att EXCEPT ![s] = b]
    BY <1>3
  <2> HIDE DEF b
  <2> QED BY <1>0, <2>1, <2>2
<1>9. result' \in [Steps -> Answer]
  BY <1>0, <1>3, <1>4, NoResultTyped
<1> QED BY <1>4, <1>6, <1>7, <1>8, <1>9

\* Settling an attempt keeps the types, whether its result arrives first or late.
LEMMA SettleAttemptTypes ==
  ASSUME TypeInv, NEW s \in Steps, SettleAttempt(s)
  PROVE  TypeInv'
<1> DEFINE to == IF Stopping THEN "ended" ELSE "settled"
<1>1. /\ pc = "pass" /\ stage[s] = "spawned" /\ stage' = [stage EXCEPT ![s] = to]
      /\ UNCHANGED <<executing, reruns, stop, lives, lost, finished, died, logs>> /\ PassFrame
  BY DEF SettleAttempt, history
<1>2. /\ stage \in [Steps -> Stages] /\ Numbered
      /\ \A t \in reruns : run.step[t].retries >= 1
  BY <1>1, PassStart
<1>3. stage' \in [Steps -> Stages]
  BY <1>1, <1>2 DEF Stages
<1>4. CASE ~StillOpen(s)
  <2>1. UNCHANGED <<run, att, budget, result, outbox>>
    BY <1>4 DEF SettleAttempt
  <2>2. Numbered'
    BY <1>1, <1>2, <2>1 DEF Numbered
  <2> QED BY <1>1, <1>3, <2>1, <2>2, PassStart, PassKeeps
<1>5. CASE StillOpen(s)
  <2>1. outbox' \in Seq(SoundWrite)
    BY <1>5, ResultTypes DEF SoundWrite
  <2>2. Numbered'
    BY <1>1, <1>2, <1>5, ResultTypes DEF Numbered
  <2>3. \A t \in reruns' : run'.step[t].retries >= 1
    BY <1>1, <1>2, <1>5, ResultTypes, PassStart
  <2> QED BY <1>1, <1>3, <1>5, <2>1, <2>2, <2>3, ResultTypes, PassStart, PassKeeps
<1> QED BY <1>4, <1>5

\* The end of a pass keeps the types, given what it does to the run.
LEMMA EndPassKeeps ==
  ASSUME TypeInv, NEW s \in Steps, pc = "pass", EndPass(s), run' \in SoundRun,
         outbox' \in Seq(SoundWrite), executing' \subseteq Steps, stop' \in Signals,
         \A t \in Steps : t # s => run'.step[t].retries = run.step[t].retries
  PROVE  TypeInv'
<1>0. /\ result \in [Steps -> Answer] /\ reruns \subseteq Steps /\ stage \in [Steps -> Stages]
      /\ Numbered /\ \A t \in reruns : run.step[t].retries >= 1
  BY PassStart
<1>1. /\ stage' = [stage EXCEPT ![s] = "ended"]
      /\ result' = [result EXCEPT ![s] = NoResult] /\ reruns' = reruns \ {s}
      /\ UNCHANGED <<att, budget, lives, lost, finished, died, logs>> /\ PassFrame
  BY DEF EndPass, history
<1>2. stage' \in [Steps -> Stages] /\ Numbered'
  BY <1>0, <1>1, NumberedKept DEF Stages
<1>3. result' \in [Steps -> Answer]
  BY <1>0, <1>1, NoResultTyped
<1>4. reruns' \subseteq Steps /\ \A t \in reruns' : run'.step[t].retries >= 1
  BY <1>0, <1>1
<1> QED BY <1>1, <1>2, <1>3, <1>4, PassStart, PassKeeps

\* Raising a stop keeps the signals of the loop typed.
LEMMA SignalTypes ==
  \A x \in Signals : /\ [x EXCEPT !.failed = TRUE] \in Signals
                     /\ [x EXCEPT !.stopped = TRUE] \in Signals
BY DEF Signals

\* A pass that ends by giving its step a status.
LEMMA StatusEndKeeps ==
  ASSUME TypeInv, NEW s \in Steps, NEW st \in StepStatus, pc = "pass",
         UpdateStep(s, st), EndPass(s), stop' \in Signals
  PROVE  TypeInv'
<1>1. /\ run' \in SoundRun /\ executing' \subseteq Steps /\ outbox' \in Seq(SoundWrite)
      /\ \A t \in Steps : run'.step[t].retries = run.step[t].retries
  BY PassStart, UpdateStepTypes
<1> QED BY <1>1, EndPassKeeps

\* A run stays sound when a quota that was consumed is given back.
LEMMA RefundSound ==
  ASSUME NEW r \in SoundRun, NEW s \in Steps, r.step[s].retries >= 1
  PROVE  [r EXCEPT !.step[s].retries = @ - 1] \in SoundRun
<1> DEFINE x == [r.step[s] EXCEPT !.retries = @ - 1]
<1>1. r.step[s] \in Step /\ r.step[s].retries \in 0..MaxRetries[s]
  BY DEF SoundRun, Run
<1>2. r.step[s].retries - 1 \in 0..MaxRetries[s]
  BY <1>1, Assumptions
<1>3. x \in Step /\ x.retries \in 0..MaxRetries[s]
  BY <1>1, <1>2 DEF Step
<1> HIDE DEF x
<1>4. [r EXCEPT !.step[s] = x] \in SoundRun
  BY <1>3, SoundStep
<1> QED BY <1>4 DEF x

\* A guard kill keeps the types: the quota it refunds had been consumed.
LEMMA CutShortTypes ==
  ASSUME TypeInv, NEW s \in Steps, CutShort(s)
  PROVE  TypeInv'
<1> DEFINE refunded == [run EXCEPT !.step[s].retries = @ - 1]
           r == IF s \in reruns THEN refunded ELSE run
<1>1. /\ pc = "pass" /\ run' = WithStatus(r, s, "failed") /\ executing' = executing \ {s}
      /\ outbox' = (IF s \in reruns THEN Saved(r) ELSE <<>>) \o StatusWrites(r, s, "failed")
      /\ stop' = [stop EXCEPT !.failed = TRUE] /\ EndPass(s)
  BY DEF CutShort, Resolves
<1>0. /\ run \in SoundRun /\ executing \subseteq Steps /\ stop \in Signals
      /\ \A t \in reruns : run.step[t].retries >= 1
  BY <1>1, PassStart
<1>2. s \in reruns => refunded \in SoundRun
  BY <1>0, RefundSound
<1>3. r \in SoundRun /\ \A t \in Steps : t # s => r.step[t].retries = run.step[t].retries
  <2>1. \A t \in Steps : t # s => refunded.step[t].retries = run.step[t].retries
    BY <1>0 DEF SoundRun, Run
  <2> HIDE DEF refunded
  <2> QED BY <1>0, <1>2, <2>1
<1> HIDE DEF r
<1>4. "failed" \in StepStatus
  BY DEF StepStatus
<1>5. run' \in SoundRun /\ \A t \in Steps : t # s => run'.step[t].retries = run.step[t].retries
  BY <1>1, <1>3, <1>4, SoundStatus, RetriesKept
<1>6. outbox' \in Seq(SoundWrite)
  <2>1. (IF s \in reruns THEN Saved(r) ELSE <<>>) \in Seq(SoundWrite)
    BY <1>3, SavedWrites, EmptySeq
  <2>2. StatusWrites(r, s, "failed") \in Seq(SoundWrite)
    BY <1>3, <1>4, StatusWritesTyped
  <2> QED BY <1>1, <2>1, <2>2, ConcatProperties
<1>7. executing' \subseteq Steps /\ stop' \in Signals
  BY <1>0, <1>1, SignalTypes
<1> QED BY <1>1, <1>5, <1>6, <1>7, EndPassKeeps

\* An obstacle that stops the run keeps the types.
LEMMA StopBlockedTypes ==
  ASSUME TypeInv, NEW s \in Steps, StopBlocked(s)
  PROVE  TypeInv'
<1> DEFINE failed == WithStatus(run, s, "failed")
           stopped == Stopped(failed)
<1>1. /\ pc = "pass" /\ run' = stopped /\ executing' = executing \ {s}
      /\ outbox' = StatusWrites(run, s, "failed") \o Saved(stopped)
      /\ stop' = [stop EXCEPT !.stopped = TRUE] /\ EndPass(s)
  BY DEF StopBlocked, Blocked, Refused, Resolves
<1>0. run \in SoundRun /\ executing \subseteq Steps /\ stop \in Signals
  BY <1>1, PassStart
<1>2. "failed" \in StepStatus
  BY DEF StepStatus
<1>3. failed \in SoundRun /\ \A t \in Steps : failed.step[t].retries = run.step[t].retries
  BY <1>0, <1>2, SoundStatus, RetriesKept
<1> HIDE DEF failed
<1>4. stopped \in SoundRun /\ stopped.step = failed.step
  <2>1. stopped \in SoundRun
    BY <1>3, SoundStopped
  <2> QED BY <2>1, <1>3 DEF Stopped, SoundRun, Run
<1> HIDE DEF stopped
<1>5. outbox' \in Seq(SoundWrite)
  BY <1>0, <1>1, <1>2, <1>4, StatusWritesTyped, SavedWrites, ConcatProperties
<1>6. executing' \subseteq Steps /\ stop' \in Signals
  BY <1>0, <1>1, SignalTypes
<1> QED BY <1>1, <1>3, <1>4, <1>5, <1>6, EndPassKeeps

\* A rerun keeps the types: it takes a quota below its maximum.
LEMMA RerunTypes ==
  ASSUME TypeInv, NEW s \in Steps, Rerun(s)
  PROVE  TypeInv'
<1> DEFINE x == [run.step[s] EXCEPT !.retries = @ + 1]
           r == [run EXCEPT !.step[s].retries = @ + 1]
<1>1. /\ pc = "pass" /\ run.step[s].retries < MaxRetries[s]
      /\ run' = r /\ outbox' = Saved(r)
      /\ stage' = [stage EXCEPT ![s] = "started"]
      /\ result' = [result EXCEPT ![s] = NoResult]
      /\ reruns' = reruns \cup {s}
      /\ UNCHANGED <<att, budget, executing, stop, lives, lost, finished, died, logs>>
      /\ PassFrame
  BY DEF Rerun, MayRetry, Refused, Resolves, history
<1>0. /\ run \in SoundRun /\ result \in [Steps -> Answer] /\ reruns \subseteq Steps
      /\ stage \in [Steps -> Stages] /\ Numbered
      /\ \A t \in reruns : run.step[t].retries >= 1
  BY <1>1, PassStart
<1>2. x \in Step /\ x.retries \in 0..MaxRetries[s] /\ x.retries >= 1
  <2>1. run.step[s] \in Step /\ run.step[s].retries \in 0..MaxRetries[s]
    BY <1>0 DEF SoundRun, Run
  <2>2. MaxRetries[s] \in Nat
    BY Assumptions
  <2>3. run.step[s].retries + 1 \in 0..MaxRetries[s] /\ run.step[s].retries + 1 >= 1
    BY <1>1, <2>1, <2>2
  <2> QED BY <2>1, <2>3 DEF Step
<1>3. r = [run EXCEPT !.step[s] = x]
  OBVIOUS
<1> HIDE DEF x, r
<1>4. r \in SoundRun
  BY <1>0, <1>2, <1>3, SoundStep
<1>5. \A t \in reruns' : run'.step[t].retries >= 1
  <2>1. r.step[s] = x /\ \A t \in Steps : t # s => r.step[t] = run.step[t]
    BY <1>0, <1>3 DEF SoundRun, Run
  <2> QED BY <1>0, <1>1, <1>2, <2>1
<1>6. run' \in SoundRun /\ outbox' \in Seq(SoundWrite)
  BY <1>1, <1>4, SavedWrites
<1>7. stage' \in [Steps -> Stages] /\ Numbered'
  <2>1. stage' \in [Steps -> Stages]
    BY <1>0, <1>1 DEF Stages
  <2>2. UNCHANGED att /\ "started" \notin {"opened", "spawned"}
    BY <1>1
  <2> QED BY <1>0, <1>1, <2>1, <2>2, NumberedKept
<1>8. result' \in [Steps -> Answer] /\ reruns' \subseteq Steps
  BY <1>0, <1>1, NoResultTyped
<1> QED BY <1>1, <1>5, <1>6, <1>7, <1>8, PassStart, PassKeeps

\* Every step of a pass keeps the types.
LEMMA PassTypes ==
  ASSUME TypeInv, Pass
  PROVE  TypeInv'
<1>0. PICK s \in Steps :
        \/ StartPass(s) \/ OpenAttempt(s) \/ Spawn(s) \/ SettleAttempt(s)
        \/ Succeed(s) \/ Abandon(s) \/ CutShort(s) \/ StopBlocked(s) \/ Absorb(s)
        \/ Fail(s) \/ CostStopsRetry(s) \/ Rerun(s)
  BY DEF Pass
<1>1. CASE StartPass(s) \/ OpenAttempt(s) \/ Spawn(s) \/ SettleAttempt(s)
  BY <1>1, StartPassTypes, OpenAttemptTypes, SpawnTypes, SettleAttemptTypes
<1>2. CASE Succeed(s)
  <2>1. pc = "pass" /\ stop' \in Signals
    BY <1>2, PassStart DEF Succeed, Resolves
  <2> QED BY <1>2, <2>1, StatusEndKeeps DEF Succeed, StepStatus
<1>3. CASE Abandon(s)
  <2>1. pc = "pass" /\ EndPass(s) /\ UNCHANGED <<run, executing, stop, outbox>>
    BY <1>3 DEF Abandon
  <2> QED BY <2>1, PassStart, EndPassKeeps
<1>4. CASE CutShort(s) \/ StopBlocked(s) \/ Rerun(s)
  BY <1>4, CutShortTypes, StopBlockedTypes, RerunTypes
<1>5. CASE Absorb(s)
  <2>1. pc = "pass" /\ stop' \in Signals
    BY <1>5, PassStart DEF Absorb, Blocked, Exhausted, Refused, Resolves
  <2> QED BY <1>5, <2>1, StatusEndKeeps DEF Absorb, StepStatus
<1>6. CASE Fail(s)
  <2>1. pc = "pass" /\ stop' \in Signals
    BY <1>6, PassStart, SignalTypes DEF Fail, Exhausted, Refused, Resolves
  <2> QED BY <1>6, <2>1, StatusEndKeeps DEF Fail, StepStatus
<1>7. CASE CostStopsRetry(s)
  <2>1. pc = "pass" /\ stop' \in Signals
    BY <1>7, PassStart, SignalTypes DEF CostStopsRetry, MayRetry, Refused, Resolves
  <2> QED BY <1>7, <2>1, StatusEndKeeps DEF CostStopsRetry, StepStatus
<1> QED BY <1>0, <1>1, <1>2, <1>3, <1>4, <1>5, <1>6, <1>7

----------------------------------------------------------------------------
(* The end of a unit and of the run.                                       *)

\* The end of a unit, and of the run, keeps the types given what it does to
\* the run.
LEMMA EndingKeeps ==
  ASSUME TypeInv, pc \in {"pass", "ending"}, pc' \in {"admit", "ending", "done"},
         run' \in SoundRun, \A t \in Steps : run'.step[t].retries = run.step[t].retries,
         outbox' \in Seq(SoundWrite), stage' = Idle, admitted' \subseteq Steps,
         stop' \in Signals,
         UNCHANGED <<att, budget, executing, result, reruns, cursor, inv, requested,
                     disk, history>>
  PROVE  TypeInv'
<1> USE DEF TypeInv
<1>1. RunsSound' /\ WritesSound' /\ AttemptsTyped' /\ LedgerTyped'
  BY DEF RunsSound, WritesSound, AttemptsTyped, LedgerTyped, disk
<1>2. ControlTyped' /\ PassTyped'
  BY EmptyMemoryTyped DEF ControlTyped, PassTyped, Places
<1>3. DiskTyped'
  BY DEF DiskTyped, disk, history
<1>4. Refundable'
  BY DEF Refundable, ControlTyped
<1>5. Numbered'
  BY DEF Numbered, Idle
<1> QED BY <1>1, <1>2, <1>3, <1>4, <1>5

\* The end of a unit keeps the types.
LEMMA UnitTypes ==
  ASSUME TypeInv, NextUnit \/ UnitStops \/ TreeWritesStop
  PROVE  TypeInv'
<1>1. /\ pc = "pass" /\ LeaveUnit
  BY DEF NextUnit, UnitStops, TreeWritesStop, UnitAnswered
<1>2. NoStop \in Signals
  BY EmptyMemoryTyped
<1>3. CASE NextUnit
  BY <1>1, <1>3, PassStart, EndingKeeps DEF NextUnit, LeaveUnit
<1>4. CASE UnitStops
  BY <1>1, <1>2, <1>4, PassStart, EndingKeeps DEF UnitStops, LeaveUnit
<1>5. CASE TreeWritesStop
  <2>1. /\ run' \in SoundRun /\ outbox' \in Seq(SoundWrite)
        /\ \A t \in Steps : run'.step[t].retries = run.step[t].retries
    BY <1>1, <1>5, PassStart, StopTypes DEF TreeWritesStop
  <2>2. stop' \in Signals
    BY <1>1, <1>5, PassStart, SignalTypes DEF TreeWritesStop
  <2> QED BY <1>1, <1>5, <2>1, <2>2, EndingKeeps DEF TreeWritesStop, LeaveUnit
<1> QED BY <1>3, <1>4, <1>5

\* The verdict keeps the types.
LEMMA FinalizeTypes ==
  ASSUME TypeInv, Finalize
  PROVE  TypeInv'
<1>1. /\ pc = "ending" /\ pc' = "done" /\ outbox' = Saved(run')
      /\ \E x : run' = [run EXCEPT !.status = DerivedStatus(run, x)]
      /\ UNCHANGED <<att, budget, executing, stage, result, reruns, cursor,
                     admitted, stop, inv, requested, disk, history>>
  BY DEF Finalize
<1>2. /\ run \in SoundRun /\ stage = Idle /\ admitted \subseteq Steps /\ stop \in Signals
  BY <1>1 DEF TypeInv, RunsSound, PassTyped, ControlTyped
<1>3. run' \in SoundRun /\ run'.step = run.step
  <2>1. PICK x : run' = [run EXCEPT !.status = DerivedStatus(run, x)]
    BY <1>1
  <2>2. DerivedStatus(run, x) \in RunStatus
    BY DEF DerivedStatus, RunStatus
  <2> QED BY <1>2, <2>1, <2>2 DEF SoundRun, Run
<1>4. outbox' \in Seq(SoundWrite)
  BY <1>1, <1>3, SavedWrites
<1> QED BY <1>1, <1>2, <1>3, <1>4, EndingKeeps

\* A process that is gone leaves empty memory, whatever it has on disk.
LEMMA GoneTypes ==
  ASSUME TypeInv, Gone, UNCHANGED <<disk, lives, lost, finished, logs>>, died' \subseteq Steps
  PROVE  TypeInv'
<1> USE DEF TypeInv, Gone
<1>1. RunsSound' /\ WritesSound' /\ LedgerTyped'
  BY EmptyMemoryTyped DEF RunsSound, WritesSound, LedgerTyped, disk
<1>2. AttemptsTyped'
  BY NoAttemptsTyped DEF AttemptsTyped, disk
<1>3. ControlTyped' /\ PassTyped'
  BY EmptyMemoryTyped DEF ControlTyped, PassTyped, Places
<1>4. DiskTyped'
  BY DEF DiskTyped, disk
<1>5. Refundable' /\ Numbered'
  BY DEF Refundable, Numbered, Idle
<1> QED BY <1>1, <1>2, <1>3, <1>4, <1>5

\* The end of a process, chosen or not, keeps the types.
LEMMA DeathTypes ==
  ASSUME TypeInv, Exit \/ Crash
  PROVE  TypeInv'
<1>1. Gone /\ UNCHANGED <<disk, lives, lost, finished, logs>>
  BY DEF Exit, Crash, history
<1>2. died' \subseteq Steps
  <2>1. died \subseteq Steps
    BY DEF TypeInv, DiskTyped
  <2> QED BY <2>1 DEF Exit, Crash, history
<1> QED BY <1>1, <1>2, GoneTypes

----------------------------------------------------------------------------
(* The disk.                                                               *)

\* The first write of the outbox, and the others.
LEMMA OutboxTypes ==
  ASSUME TypeInv, outbox # <<>>
  PROVE  Head(outbox) \in SoundWrite /\ Tail(outbox) \in Seq(SoundWrite)
BY HeadTailProperties DEF TypeInv, WritesSound

\* A write that reaches the disk, or is lost, leaves memory alone.
LEMMA DiskKeeps ==
  ASSUME TypeInv, UNCHANGED memory, outbox' \in Seq(SoundWrite),
         snap' \in SoundRun \cup {NoRun},
         jAtt' \in [Steps -> [Nums -> Attempt]], DiskTyped'
  PROVE  TypeInv'
<1> USE DEF TypeInv
<1>1. RunsSound' /\ WritesSound' /\ AttemptsTyped' /\ LedgerTyped'
  BY DEF memory, RunsSound, WritesSound, AttemptsTyped, LedgerTyped
<1>2. ControlTyped' /\ PassTyped'
  BY DEF memory, ControlTyped, PassTyped
<1>3. Refundable' /\ Numbered'
  BY DEF memory, Refundable, Numbered
<1> QED BY <1>1, <1>2, <1>3

\* A lost append keeps the types.
LEMMA LoseEventTypes ==
  ASSUME TypeInv, LoseEvent
  PROVE  TypeInv'
<1>1. outbox' \in Seq(SoundWrite)
  BY OutboxTypes DEF LoseEvent
<1>2. DiskTyped'
  BY Assumptions DEF LoseEvent, TypeInv, DiskTyped, disk
<1>3. snap' \in SoundRun \cup {NoRun} /\ jAtt' \in [Steps -> [Nums -> Attempt]]
  BY DEF LoseEvent, TypeInv, RunsSound, AttemptsTyped, disk
<1> QED BY <1>1, <1>2, <1>3, DiskKeeps DEF LoseEvent

\* A write that reaches the disk keeps the types.
LEMMA FlushTypes ==
  ASSUME TypeInv, Flush
  PROVE  TypeInv'
<1> DEFINE e == Head(outbox)
<1>1. /\ outbox # <<>> /\ outbox' = Tail(outbox) /\ UNCHANGED <<memory, lives, lost, died, logs>>
      /\ snap' = IF e.kind = "save" THEN e.run ELSE snap
      /\ jStatus' = IF e.kind = "status" THEN [jStatus EXCEPT ![e.step] = e.status] ELSE jStatus
      /\ jAtt' = CASE e.kind = "start"  -> [jAtt EXCEPT ![e.step][e.n] = OpenRecord]
                   [] e.kind = "finish" -> [jAtt EXCEPT ![e.step][e.n] = e.attempt]
                   [] OTHER -> jAtt
      /\ jStops' = IF e.kind = "guard" THEN jStops \cup {e.why} ELSE jStops
      /\ finished' = (finished \ Requeues(e)) \cup Completes(e)
  BY DEF Flush
<1>2. e \in SoundWrite /\ outbox' \in Seq(SoundWrite)
  BY <1>1, OutboxTypes
<1> HIDE DEF e
<1>0. /\ snap \in SoundRun \cup {NoRun} /\ jAtt \in [Steps -> [Nums -> Attempt]]
      /\ jStatus \in [Steps -> Statuses] /\ jStops \subseteq {"budget", "unpriced"}
      /\ finished \subseteq Steps /\ DiskTyped
  BY DEF TypeInv, RunsSound, AttemptsTyped, DiskTyped
<1>3. /\ e.kind = "save" => e.run \in SoundRun
      /\ e.kind = "status" => e.step \in Steps /\ e.status \in StepStatus
      /\ e.kind = "start" => e.step \in Steps /\ e.n \in Nums
      /\ e.kind = "finish" => e.step \in Steps /\ e.n \in Nums /\ e.attempt \in Attempt
      /\ e.kind = "guard" => e.why \in {"budget", "unpriced"}
  BY <1>2 DEF SoundWrite, WriteOf
<1>4. snap' \in SoundRun \cup {NoRun}
  BY <1>0, <1>1, <1>3
<1>5. jStatus' \in [Steps -> Statuses] /\ jStops' \subseteq {"budget", "unpriced"}
  <2>1. e.kind = "status" => e.status \in Statuses
    BY <1>3 DEF Statuses
  <2> QED BY <1>0, <1>1, <1>3, <2>1
<1>6. jAtt' \in [Steps -> [Nums -> Attempt]]
  <2>1. CASE e.kind = "start"
    BY <1>0, <1>1, <1>3, <2>1, AttemptTypes
  <2>2. CASE e.kind = "finish"
    BY <1>0, <1>1, <1>3, <2>2
  <2>3. CASE e.kind \notin {"start", "finish"}
    BY <1>0, <1>1, <2>3
  <2> QED BY <2>1, <2>2, <2>3
<1>7. finished' \subseteq Steps
  BY <1>0, <1>1, <1>3 DEF Completes
<1>8. DiskTyped'
  BY <1>0, <1>1, <1>5, <1>7 DEF DiskTyped
<1> QED BY <1>1, <1>2, <1>4, <1>6, <1>8, DiskKeeps

----------------------------------------------------------------------------
(* The signal.                                                             *)

\* The run an abort closes on live estimates.
LEMMA AbortedSound ==
  ASSUME run \in SoundRun, NEW est, WithinSpend(Aborted(est))
  PROVE  /\ Aborted(est) \in SoundRun
         /\ \A s \in Steps : /\ Aborted(est).step[s].retries = run.step[s].retries
                             /\ Aborted(est).step[s].last = run.step[s].last
<1> DEFINE closes == {s \in Aborting : InFlight(s)}
           step == [s \in Steps |->
             IF s \notin Aborting THEN run.step[s]
             ELSE [run.step[s] EXCEPT !.status = "aborted",
                    !.spend = IF s \in closes THEN Merge(@, LiveFigure(s, est[s])) ELSE @]]
<1>1. Aborted(est) = [run EXCEPT !.aborted = TRUE, !.status = "ABORTED", !.step = step]
  BY DEF Aborted
<1>2. \A s \in Steps : \/ step[s] = run.step[s]
                       \/ \E g : step[s] = [run.step[s] EXCEPT !.status = "aborted", !.spend = g]
  <2> TAKE s \in Steps
  <2> HIDE DEF closes
  <2> DEFINE g == IF s \in closes THEN Merge(run.step[s].spend, LiveFigure(s, est[s]))
                  ELSE run.step[s].spend
  <2>1. run.step[s] \in Step
    BY DEF SoundRun, Run
  <2>2. s \in Aborting => step[s] = [run.step[s] EXCEPT !.status = "aborted", !.spend = g]
    BY <2>1 DEF Step
  <2>3. s \notin Aborting => step[s] = run.step[s]
    OBVIOUS
  <2> HIDE DEF g, step
  <2> QED BY <2>2, <2>3
<1>3. step = [s \in Steps |-> step[s]]
  OBVIOUS
<1> HIDE DEF step
<1>4. Aborted(est).step = step
  BY <1>1 DEF SoundRun, Run
<1>5. \A s \in Steps : step[s] \in Step /\ step[s].retries \in 0..MaxRetries[s]
  <2> TAKE s \in Steps
  <2>1. run.step[s] \in Step /\ run.step[s].retries \in 0..MaxRetries[s]
    BY DEF SoundRun, Run
  <2>2. step[s].spend \in Figure
    BY <1>4 DEF WithinSpend
  <2>3. ASSUME NEW g, step[s] = [run.step[s] EXCEPT !.status = "aborted", !.spend = g]
        PROVE  step[s] \in Step /\ step[s].retries \in 0..MaxRetries[s]
    <3>1. g \in Figure
      BY <2>1, <2>2, <2>3 DEF Step
    <3> QED BY <2>1, <2>3, <3>1 DEF Step, StepStatus
  <2> QED BY <1>2, <2>1, <2>3
<1>6. step \in [Steps -> Step]
  BY <1>3, <1>5
<1>7. \A s \in Steps : step[s].retries = run.step[s].retries /\ step[s].last = run.step[s].last
  BY <1>2 DEF SoundRun, Run, Step
<1>8. Aborted(est) \in Run
  BY <1>1, <1>6 DEF SoundRun, Run, RunStatus
<1> QED BY <1>4, <1>5, <1>7, <1>8 DEF SoundRun
\* An attempt closed by the abort is within the bound on spending.
LEMMA AbortedAttemptTyped ==
  ASSUME run \in SoundRun, executing \subseteq Steps,
         NEW est \in [Steps -> {0} \cup Prices],
         WithinSpend(Aborted(est)), NEW s \in Aborting, InFlight(s)
  PROVE  /\ AbortedAttempt(s, est[s]) \in Attempt
         /\ AbortedAttempt(s, est[s]).status # "none"
<1>0. s \in Steps
  BY DEF Aborting
<1>1. s \in Steps /\ run.step[s] \in Step /\ est[s] \in Nat
  <2>1. run.step[s] \in Step
    BY <1>0 DEF SoundRun, Run
  <2>2. {0} \cup Prices \subseteq Nat
    BY Assumptions
  <2> QED BY <1>0, <2>1, <2>2
<1> DEFINE f == LiveFigure(s, est[s])
<1>2. Merge(run.step[s].spend, f) \in Figure
  <2>1. Aborted(est).step[s] =
          [run.step[s] EXCEPT !.status = "aborted", !.spend = Merge(@, f)]
    BY <1>1 DEF Aborted, SoundRun, Run
  <2> HIDE DEF f
  <2>2. Aborted(est).step[s].spend = Merge(run.step[s].spend, f)
    BY <1>1, <2>1 DEF Step
  <2> QED BY <1>1, <2>2 DEF WithinSpend
<1>3. f \in Figure
  <2>1. CASE est[s] > 0
    <3>1. f = [cost |-> est[s], unknown |-> FALSE, tokens |-> FALSE]
      BY <2>1 DEF LiveFigure, NoFigure
    <3>2. run.step[s].spend.cost + est[s] \in 0..MaxSpend /\ run.step[s].spend.cost \in Nat
      BY <1>1, <1>2, <3>1 DEF Merge, Figure, Step
    <3>3. est[s] \in 0..MaxSpend
      BY <1>1, <3>2, Assumptions
    <3> QED BY <3>1, <3>3 DEF Figure
  <2>2. CASE ~(est[s] > 0)
    BY <2>2, FigureTypes DEF LiveFigure
  <2> QED BY <2>1, <2>2
<1> QED BY <1>3 DEF AbortedAttempt, Attempt

\* An abort writes the closures, the statuses and the run, and nothing else.
LEMMA AbortWritesOver ==
  ASSUME executing \subseteq Steps, NEW est, NEW W, SaveEntry(Aborted(est)) \in W,
         \A s \in Aborting :
           /\ StatusEvent(s, "aborted") \in W
           /\ InFlight(s) => FinishEvent(s, Last(s), AbortedAttempt(s, est[s])) \in W
  PROVE  AbortWrites(est) \in Seq(W)
<1> DEFINE c == Cardinality(Aborting)
           order == Ascending(Aborting)
           closing(s) == IF InFlight(s)
                         THEN <<FinishEvent(s, Last(s), AbortedAttempt(s, est[s]))>> ELSE <<>>
           writes(s) == closing(s) \o <<StatusEvent(s, "aborted")>>
           closes == [k \in 1..c |-> writes(order[k])]
<1>1. \A s \in Aborting : writes(s) \in Seq(W)
  <2> TAKE s \in Aborting
  <2>1. closing(s) \in Seq(W)
    BY EmptySeq
  <2>2. <<StatusEvent(s, "aborted")>> \in Seq(W)
    OBVIOUS
  <2> HIDE DEF closing
  <2> QED BY <2>1, <2>2, ConcatProperties
<1>2. c \in Nat /\ \A k \in 1..c : order[k] \in Aborting
  <2>1. Aborting \in SUBSET Steps
    BY DEF Aborting
  <2> QED BY <2>1, AscendingTyped
<1>3. AbortWrites(est) = Seqs!FlattenSeq(closes) \o Saved(Aborted(est))
  BY DEF AbortWrites
<1> HIDE DEF c, order, writes
<1>4. closes \in Seq(Seq(W))
  BY <1>1, <1>2
<1> HIDE DEF closes
<1>5. Seqs!FlattenSeq(closes) \in Seq(W)
  BY <1>4, FlattenType
<1>6. Saved(Aborted(est)) \in Seq(W)
  BY EmptySeq DEF Saved
<1> QED BY <1>3, <1>5, <1>6, ConcatProperties

\* The writes of an abort are well formed.
LEMMA AbortWritesIn ==
  ASSUME run \in SoundRun, executing \subseteq Steps,
         NEW est \in [Steps -> {0} \cup Prices],
         WithinSpend(Aborted(est)), NEW R, Aborted(est) \in R
  PROVE  AbortWrites(est) \in Seq(WriteOf(R))
<1>1. ASSUME NEW s \in Aborting
      PROVE  /\ StatusEvent(s, "aborted") \in WriteOf(R)
             /\ InFlight(s) =>
                  FinishEvent(s, Last(s), AbortedAttempt(s, est[s])) \in WriteOf(R)
  <2>1. s \in Steps
    BY DEF Aborting
  <2>2. StatusEvent(s, "aborted") \in WriteOf(R)
    BY <2>1, StatusWrite DEF StepStatus
  <2>3. ASSUME InFlight(s)
        PROVE  FinishEvent(s, Last(s), AbortedAttempt(s, est[s])) \in WriteOf(R)
    <3>1. Last(s) \in Nums
      BY <2>3, LastKnown DEF InFlight, HasOpen, Known, Last
    <3> QED BY <2>1, <2>3, <3>1, AbortedAttemptTyped, FinishWrite
  <2> QED BY <2>2, <2>3
<1>2. SaveEntry(Aborted(est)) \in WriteOf(R)
  BY DEF SaveEntry, WriteOf
<1> QED BY <1>1, <1>2, AbortWritesOver

\* A signal keeps the types.
LEMMA SignalStepTypes ==
  ASSUME TypeInv, Signal
  PROVE  TypeInv'
<1> USE DEF TypeInv
<1>1. /\ pc # "off" /\ requested' = TRUE
      /\ UNCHANGED <<pc, budget, stage, result, reruns, cursor, admitted, stop, inv,
                     disk, history>>
  BY DEF Signal
<1>2. /\ run \in SoundRun /\ att \in [Steps -> [Nums -> Attempt]]
      /\ executing \subseteq Steps /\ outbox \in Seq(SoundWrite)
  BY <1>1 DEF RunsSound, AttemptsTyped, ControlTyped, WritesSound
<1>3. /\ run' \in SoundRun /\ \A s \in Steps : run'.step[s].retries = run.step[s].retries
      /\ att' \in [Steps -> [Nums -> Attempt]] /\ executing' \subseteq Steps
      /\ outbox' \in Seq(SoundWrite)
      /\ \A s \in Steps : Known(att[s]) # {} => Known(att'[s]) # {}
  <2>1. CASE UNCHANGED <<run, att, executing, outbox>>
    BY <1>2, <2>1
  <2>2. CASE ~UNCHANGED <<run, att, executing, outbox>>
    <3>1. PICK est \in [Steps -> {0} \cup Prices] :
            /\ WithinSpend(Aborted(est)) /\ run' = Aborted(est)
            /\ att' = [s \in Steps |->
                 IF s \in Aborting /\ InFlight(s)
                 THEN [att[s] EXCEPT ![Last(s)] = AbortedAttempt(s, est[s])]
                 ELSE att[s]]
            /\ executing' = executing \ Aborting /\ outbox' = AbortWrites(est)
      BY <2>2 DEF Signal
    <3>2. /\ run' \in SoundRun /\ outbox' \in Seq(SoundWrite)
          /\ \A s \in Steps : run'.step[s].retries = run.step[s].retries
      BY <1>2, <3>1, AbortedSound, AbortWritesIn DEF SoundWrite
    <3>3. ASSUME NEW s \in Steps
          PROVE  att'[s] \in [Nums -> Attempt] /\ (Known(att[s]) # {} => Known(att'[s]) # {})
      <4>1. CASE s \in Aborting /\ InFlight(s)
        <5>1. /\ AbortedAttempt(s, est[s]) \in Attempt
              /\ AbortedAttempt(s, est[s]).status # "none"
          BY <1>2, <3>1, <4>1, AbortedAttemptTyped
        <5>2. Last(s) \in Nums
          BY <4>1, LastKnown DEF InFlight, HasOpen, Known, Last
        <5>3. att'[s] = [att[s] EXCEPT ![Last(s)] = AbortedAttempt(s, est[s])]
          BY <3>1, <4>1
        <5>4. att'[s] \in [Nums -> Attempt] /\ Last(s) \in Known(att'[s])
          BY <1>2, <5>1, <5>2, <5>3 DEF Known
        <5> QED BY <5>4
      <4>2. CASE ~(s \in Aborting /\ InFlight(s))
        <5>1. att'[s] = att[s]
          BY <3>1, <4>2
        <5> QED BY <1>2, <5>1
      <4> QED BY <4>1, <4>2
    <3>4. att' = [s \in Steps |-> att'[s]]
      BY <3>1
    <3>5. att' \in [Steps -> [Nums -> Attempt]]
      BY <3>3, <3>4
    <3> QED BY <1>2, <3>1, <3>2, <3>3, <3>5
  <2> QED BY <2>1, <2>2
<1>4. RunsSound' /\ WritesSound' /\ AttemptsTyped' /\ LedgerTyped'
  BY <1>1, <1>3 DEF RunsSound, WritesSound, AttemptsTyped, LedgerTyped, disk
<1>5. ControlTyped' /\ PassTyped'
  BY <1>1, <1>3 DEF ControlTyped, PassTyped
<1>6. DiskTyped'
  BY <1>1 DEF DiskTyped, disk, history
<1>7. Refundable' /\ Numbered'
  BY <1>1, <1>3 DEF Refundable, Numbered, ControlTyped
<1> QED BY <1>4, <1>5, <1>6, <1>7

----------------------------------------------------------------------------
(* The theorem.                                                            *)

\* The invariant is inductive.
LEMMA NextTypes == TypeInv /\ [Next]_vars => TypeInv'
<1> SUFFICES ASSUME TypeInv, [Next]_vars PROVE TypeInv'
  OBVIOUS
<1>1. CASE Open
  BY <1>1, CreateTypes, ResumeTypes DEF Open
<1>2. CASE OpenLedger \/ Admission \/ Launch \/ LeaveLoop \/ Pass
  BY <1>2, OpenLedgerTypes, AdmissionTypes, LaunchTypes, LeaveLoopTypes, PassTypes
<1>3. CASE NextUnit \/ UnitStops \/ TreeWritesStop \/ Finalize
  BY <1>3, UnitTypes, FinalizeTypes
<1>4. CASE Exit \/ Crash \/ Flush \/ LoseEvent \/ Signal
  BY <1>4, DeathTypes, FlushTypes, LoseEventTypes, SignalStepTypes
<1>5. CASE UNCHANGED vars
  <2>1. UNCHANGED <<memory, outbox, disk, history>>
    BY <1>5 DEF vars
  <2>2. UNCHANGED <<lives, lost, finished, died, logs, snap, jStatus, jAtt, jStops>>
    BY <2>1 DEF disk, history
  <2>3. DiskTyped'
    BY <2>2 DEF TypeInv, DiskTyped
  <2> QED BY <2>1, <2>2, <2>3, DiskKeeps DEF TypeInv, RunsSound, WritesSound, AttemptsTyped
<1> QED BY <1>1, <1>2, <1>3, <1>4, <1>5 DEF Next, Progress

\* The invariant implies the types.
LEMMA InvTypes == TypeInv => TypeOK
<1> SUFFICES ASSUME TypeInv PROVE TypeOK
  OBVIOUS
<1> USE DEF TypeInv
<1>1. /\ run \in Run \cup {NoRun} /\ snap \in Run \cup {NoRun}
      /\ pc # "off" => run # NoRun
      /\ run # NoRun => \A s \in Steps : run.step[s].retries \in 0..MaxRetries[s]
  BY SoundIsRun DEF RunsSound, SoundRun
<1>2. outbox \in Seq(Write)
  <2>1. SoundWrite \subseteq Write
    BY SoundIsRun DEF SoundWrite, WriteOf, Write
  <2> QED BY <2>1, SeqMonotonic DEF WritesSound
<1>3. /\ att \in [Steps -> [Nums -> Attempt]] /\ jAtt \in [Steps -> [Nums -> Attempt]]
      /\ budget \in [cum: 0..MaxSpend, exceeded: BOOLEAN, unknown: BOOLEAN]
      /\ result \in [Steps -> [ok: BOOLEAN, fig: Figure, blocked: BOOLEAN,
                               cut: {"none", "budget", "unpriced"}]]
  BY DEF AttemptsTyped, LedgerTyped, Budget, Answer
<1>4. /\ pc \in Places /\ cursor \in 1..(NSteps + 1)
      /\ executing \subseteq Steps /\ admitted \subseteq Steps /\ reruns \subseteq Steps
      /\ stop \in Signals /\ inv \in Invocation /\ requested \in BOOLEAN
      /\ stage \in [Steps -> Stages]
  BY DEF ControlTyped, PassTyped
<1>5. DiskTyped
  OBVIOUS
<1> QED BY <1>1, <1>2, <1>3, <1>4, <1>5 DEF TypeOK, DiskTyped, Places, Signals, Stages

\* Whatever the pipeline, the quotas, the prices and the command lines, and
\* wherever a crash cuts, memory and disk keep their types; in particular no
\* refund takes a retry quota below zero and no rerun takes it above max_retries.
THEOREM RunTypesCorrect == Spec => []TypeOK
<1>1. Spec => []TypeInv
  BY InitTypes, NextTypes, PTL DEF Spec
<1> QED BY <1>1, InvTypes, PTL

----------------------------------------------------------------------------
(***************************************************************************)
(* The attempts of a run.                                                  *)
(*                                                                         *)
(* Numbers.  A number is in the snapshot before its log is created:        *)
(* openAttempt saves last_attempt and the spawn waits for the write.  So   *)
(* every number used is at most the last_attempt on disk, in memory and in *)
(* every snapshot still to be written (Below), whatever the journal holds; *)
(* and the next number is greater than that of memory.  Between the two,   *)
(* an attempt that is open and not spawned has a number nobody used, which *)
(* a snapshot holds or is about to hold (Fresh).                           *)
(*                                                                         *)
(* Journal.  Most steps of a process are quiet: they open and close no     *)
(* attempt, and read and write no attempt event (StepKinds).  The others   *)
(* are described once, by a lemma each: an attempt opens, a result closes  *)
(* it, a resume or a signal closes what is open, a write reaches the disk. *)
(* From these facts:                                                       *)
(*   - Mirror: while no append failed, the attempts in memory are those of *)
(*     the journal but for the ones an event in the outbox announces, so   *)
(*     the journal holds every attempt open that a finish closes;          *)
(*   - DiedInv: a hard death leaves a wound in the journal, the process    *)
(*     that reads it a scar, and a scarred step is admitted only when      *)
(*     authorized;                                                         *)
(*   - Uncertain: evidence of unpriced spending stays in the journal, in   *)
(*     memory until the ledger opens, and in the ledger from then on.      *)
(***************************************************************************)


----------------------------------------------------------------------------
(* The numbers.                                                            *)

\* No number used for step s is greater than the last one of the run.
Below(r) == \A s \in Steps, n \in Nums : <<s, n>> \in logs => n <= r.step[s].last
RunsBelow == {r \in SoundRun : Below(r)}
RunsFrom(s, n) == {r \in SoundRun : n <= r.step[s].last}

Pending == {"admitted", "started", "opened"}
Saving  == \E k \in 1..Len(outbox) : outbox[k].kind = "save"

NumbersBelow ==
  /\ IF snap = NoRun THEN logs = {} ELSE Below(snap)
  /\ pc # "off" => Below(run)
  /\ outbox \in Seq(WriteOf(RunsBelow))

\* No abort comes between the admission of a unit and its spawns: openAttempt
\* is not denied its save.
Undisturbed == \A s \in Steps : stage[s] \in Pending => ~run.aborted

Fresh(s) ==
  /\ <<s, Last(s)>> \notin logs /\ Last(s) <= run.step[s].last
  /\ outbox \in Seq(WriteOf(RunsFrom(s, Last(s))))
  /\ Saving \/ (snap # NoRun /\ Last(s) <= snap.step[s].last)
OpenedFresh == \A s \in Steps : stage[s] = "opened" => Fresh(s)

NumbersInv == NumbersBelow /\ Undisturbed /\ OpenedFresh

----------------------------------------------------------------------------
(* Runs that differ in nothing but what numbers are not about.             *)

SameNumbers(r) == {q \in SoundRun : \A t \in Steps : q.step[t].last = r.step[t].last}

\* Writes of fewer runs are writes of more.
LEMMA WritesMonotonic ==
  ASSUME NEW A, NEW B, A \subseteq B
  PROVE  Seq(WriteOf(A)) \subseteq Seq(WriteOf(B))
<1>1. WriteOf(A) \subseteq WriteOf(B)
  BY DEF WriteOf
<1> QED BY <1>1, SeqMonotonic

\* updateStep keeps numbers, and the abort flag.
LEMMA SameStatus ==
  ASSUME NEW r \in SoundRun, NEW s \in Steps, NEW st \in StepStatus
  PROVE  WithStatus(r, s, st) \in SameNumbers(r) /\ WithStatus(r, s, st).aborted = r.aborted
<1>1. /\ \A t \in Steps : WithStatus(r, s, st).step[t].last = r.step[t].last
      /\ WithStatus(r, s, st).aborted = r.aborted
  BY DEF WithStatus, SoundRun, Run, Step
<1> QED BY <1>1, SoundStatus DEF SameNumbers

\* So does stopRun.
LEMMA SameStopped ==
  ASSUME NEW r \in SoundRun
  PROVE  Stopped(r) \in SameNumbers(r) /\ Stopped(r).aborted = r.aborted
<1>1. Stopped(r).step = r.step /\ Stopped(r).aborted = r.aborted
  BY DEF Stopped, SoundRun, Run
<1> QED BY <1>1, SoundStopped DEF SameNumbers

\* The writes of a step that keeps numbers keep them.
LEMMA UpdateStepNumbers ==
  ASSUME run \in SoundRun, NEW s \in Steps, NEW st \in StepStatus, UpdateStep(s, st)
  PROVE  /\ run' \in SameNumbers(run) /\ run'.aborted = run.aborted
         /\ outbox' \in Seq(WriteOf(SameNumbers(run)))
BY SameStatus, StatusWritesIn DEF UpdateStep

\* A step that keeps numbers keeps the invariant: it opens no attempt, and
\* aborts nothing that is about to be spawned.
LEMMA NumbersKeep ==
  ASSUME TypeInv, NumbersInv, pc # "off", UNCHANGED <<snap, logs>>,
         run' \in SameNumbers(run),
         outbox' = outbox \/ (outbox = <<>> /\ outbox' \in Seq(WriteOf(SameNumbers(run)))),
         \A t \in Steps : stage'[t] \in Pending => ~run'.aborted,
         \A t \in Steps : stage'[t] = "opened" => stage[t] = "opened" /\ att'[t] = att[t]
  PROVE  NumbersInv'
<1> USE DEF NumbersInv
<1>1. \A t \in Steps : run'.step[t].last = run.step[t].last
  BY DEF SameNumbers
<1>2. SameNumbers(run) \subseteq RunsBelow
  BY DEF SameNumbers, RunsBelow, NumbersBelow, Below
<1>3. RunsBelow' = RunsBelow
  BY DEF RunsBelow, Below
<1>4. outbox' \in Seq(WriteOf(RunsBelow))
  BY <1>2, WritesMonotonic DEF NumbersBelow
<1>5. NumbersBelow'
  <2>1. Below(run)'
    BY <1>1 DEF NumbersBelow, Below
  <2>2. (IF snap = NoRun THEN logs = {} ELSE Below(snap))'
    BY DEF NumbersBelow, Below
  <2> QED BY <1>3, <1>4, <2>1, <2>2 DEF NumbersBelow
<1>6. OpenedFresh'
  <2> SUFFICES ASSUME NEW s \in Steps, stage'[s] = "opened" PROVE Fresh(s)'
    BY DEF OpenedFresh
  <2>1. Fresh(s) /\ Last(s)' = Last(s)
    BY DEF OpenedFresh, Last
  <2>2. SameNumbers(run) \subseteq RunsFrom(s, Last(s))
    BY <2>1 DEF SameNumbers, RunsFrom, Fresh
  <2>3. outbox' \in Seq(WriteOf(RunsFrom(s, Last(s))))
    BY <2>1, <2>2, WritesMonotonic DEF Fresh
  <2>4. RunsFrom(s, Last(s))' = RunsFrom(s, Last(s))
    BY <2>1 DEF RunsFrom
  <2>5. Saving' \/ (snap # NoRun /\ Last(s) <= snap.step[s].last)
    BY <2>1 DEF Fresh, Saving
  <2> QED BY <1>1, <2>1, <2>3, <2>4, <2>5 DEF Fresh
<1>7. Undisturbed'
  BY DEF Undisturbed
<1> QED BY <1>5, <1>6, <1>7

----------------------------------------------------------------------------
(* The steps that keep numbers.                                            *)

\* What a step that keeps numbers starts from.
LEMMA NumbersStart ==
  ASSUME TypeInv, NumbersInv, pc # "off"
  PROVE  /\ run \in SoundRun /\ run \in SameNumbers(run)
         /\ stage \in [Steps -> Stages]
         /\ \A t \in Steps : stage[t] \in Pending => ~run.aborted
         /\ pc # "pass" => stage = Idle
BY DEF TypeInv, RunsSound, PassTyped, NumbersInv, Undisturbed, SameNumbers

\* Nothing is pending in an idle pass.
LEMMA IdleStages == \A t \in Steps : Idle[t] \notin Pending /\ Idle[t] # "opened" /\ Idle[t] # "spawned"
BY DEF Idle, Pending

\* Opening the ledger keeps numbers.
LEMMA OpenLedgerNumbers ==
  ASSUME TypeInv, NumbersInv, OpenLedger
  PROVE  NumbersInv'
<1>1. pc # "off" /\ pc # "pass" /\ UNCHANGED <<snap, logs, outbox, stage, att>>
  BY DEF OpenLedger, disk, history
<1>2. pc' # "off" /\ \E x : run' = [run EXCEPT !.unaccounted = x]
  BY DEF OpenLedger
<1>3. run' \in SoundRun
  BY <1>2, OpenLedgerTypes DEF TypeInv, RunsSound
<1>4. run'.step = run.step
  BY <1>1, <1>2, NumbersStart DEF SoundRun, Run
<1>5. run' \in SameNumbers(run)
  BY <1>3, <1>4 DEF SameNumbers
<1> QED BY <1>1, <1>5, NumbersStart, IdleStages, NumbersKeep

\* Every decision about a step keeps numbers.
LEMMA AdmissionNumbers ==
  ASSUME TypeInv, NumbersInv, Admission
  PROVE  NumbersInv'
<1>0. PICK s \in Steps :
        \/ PassOver(s) \/ CostStopsAdmission(s) \/ WhenSkips(s) \/ WhenStops(s)
        \/ AdmissionFails(s) \/ AdmissionAbsorbed(s) \/ NeedsDecision(s) \/ Admit(s)
  BY DEF Admission
<1>1. Considers(s) /\ AdmissionFrame
  BY <1>0 DEF PassOver, CostStopsAdmission, WhenSkips, WhenStops, AdmissionFails,
              AdmissionAbsorbed, NeedsDecision, Admit, Funded
<1>2. pc # "off" /\ pc # "pass" /\ outbox = <<>> /\ UNCHANGED <<snap, logs, stage, att>>
  BY <1>1 DEF Considers, AdmissionFrame, disk, history
<1>3. CASE PassOver(s) \/ CostStopsAdmission(s) \/ Admit(s)
  <2>1. UNCHANGED <<run, outbox>>
    BY <1>3 DEF PassOver, CostStopsAdmission, Admit
  <2> QED BY <1>2, <2>1, NumbersStart, IdleStages, NumbersKeep
<1>4. CASE WhenSkips(s) \/ AdmissionFails(s) \/ AdmissionAbsorbed(s)
  <2>1. PICK st \in StepStatus : UpdateStep(s, st)
    BY <1>4 DEF WhenSkips, AdmissionFails, AdmissionAbsorbed, StepStatus
  <2>2. run' \in SameNumbers(run) /\ outbox' \in Seq(WriteOf(SameNumbers(run)))
    BY <1>2, <2>1, NumbersStart, UpdateStepNumbers
  <2> QED BY <1>2, <2>2, NumbersStart, IdleStages, NumbersKeep
<1>5. CASE WhenStops(s) \/ NeedsDecision(s)
  <2>1. run' = Stopped(run) /\ outbox' = Saved(run')
    BY <1>5 DEF WhenStops, NeedsDecision
  <2>2. run' \in SameNumbers(run)
    BY <1>2, <2>1, NumbersStart, SameStopped
  <2>3. outbox' \in Seq(WriteOf(SameNumbers(run)))
    BY <2>1, <2>2, SavedWritesIn
  <2> QED BY <1>2, <2>2, <2>3, NumbersStart, IdleStages, NumbersKeep
<1> QED BY <1>0, <1>3, <1>4, <1>5

\* Launching a unit, which no interruption precedes, and leaving the loop.
LEMMA LoopNumbers ==
  ASSUME TypeInv, NumbersInv, Launch \/ LeaveLoop
  PROVE  NumbersInv'
<1>1. /\ pc # "off" /\ pc # "pass" /\ UNCHANGED <<snap, logs, run, outbox, att>>
  BY DEF Launch, LeaveLoop, disk, history
<1>2. \A t \in Steps : stage'[t] \in Pending => ~run.aborted
  <2>1. CASE Launch
    BY <2>1 DEF Launch, Stopping
  <2>2. CASE LeaveLoop
    BY <1>1, <2>2, NumbersStart DEF LeaveLoop
  <2> QED BY <2>1, <2>2
<1>3. \A t \in Steps : stage'[t] # "opened"
  <2>1. CASE Launch
    BY <2>1 DEF Launch
  <2>2. CASE LeaveLoop
    BY <1>1, <2>2, NumbersStart, IdleStages DEF LeaveLoop
  <2> QED BY <2>1, <2>2
<1> QED BY <1>1, <1>2, <1>3, NumbersStart, NumbersKeep

\* A step of a pass that moves it to a stage without open attempt.
LEMMA PassNumbersKeep ==
  ASSUME TypeInv, NumbersInv, pc = "pass", NEW s \in Steps, NEW to \in Stages \ {"opened"},
         stage' = [stage EXCEPT ![s] = to], UNCHANGED <<snap, logs>>,
         run' \in SameNumbers(run), run'.aborted = run.aborted,
         to \in Pending => ~run.aborted,
         outbox' = outbox \/ (outbox = <<>> /\ outbox' \in Seq(WriteOf(SameNumbers(run)))),
         \A t \in Steps : t # s => att'[t] = att[t]
  PROVE  NumbersInv'
<1>1. \A t \in Steps : stage'[t] \in Pending => ~run'.aborted
  BY NumbersStart
<1>2. \A t \in Steps : stage'[t] = "opened" => stage[t] = "opened" /\ att'[t] = att[t]
  BY NumbersStart
<1> QED BY <1>1, <1>2, NumbersKeep

\* Starting a pass keeps numbers.
LEMMA StartPassNumbers ==
  ASSUME TypeInv, NumbersInv, NEW s \in Steps, StartPass(s)
  PROVE  NumbersInv'
<1>1. /\ pc = "pass" /\ outbox = <<>> /\ stage[s] = "admitted" /\ UpdateStep(s, "running")
      /\ stage' = [stage EXCEPT ![s] = "started"] /\ UNCHANGED <<snap, logs, att>>
  BY DEF StartPass, PassFrame, disk, history
<1>2. /\ run' \in SameNumbers(run) /\ run'.aborted = run.aborted
      /\ outbox' \in Seq(WriteOf(SameNumbers(run)))
  BY <1>1, NumbersStart, UpdateStepNumbers DEF StepStatus
<1>3. ~run.aborted /\ "started" \in Stages \ {"opened"}
  BY <1>1, NumbersStart DEF Pending, Stages
<1> QED BY <1>1, <1>2, <1>3, PassNumbersKeep

\* Settling an attempt keeps numbers.
LEMMA SettleAttemptNumbers ==
  ASSUME TypeInv, NumbersInv, NEW s \in Steps, SettleAttempt(s)
  PROVE  NumbersInv'
<1> DEFINE to == IF Stopping THEN "ended" ELSE "settled"
<1>1. /\ pc = "pass" /\ outbox = <<>> /\ stage' = [stage EXCEPT ![s] = to]
      /\ UNCHANGED <<snap, logs>>
  BY DEF SettleAttempt, Busy, PassFrame, disk, history
<1>2. to \in Stages \ {"opened"} /\ to \notin Pending
  BY DEF Stages, Pending
<1> HIDE DEF to
<1>3. run \in SoundRun /\ att \in [Steps -> [Nums -> Attempt]]
  BY <1>1, PassStart
<1>4. CASE ~StillOpen(s)
  <2>1. UNCHANGED <<run, att, outbox>>
    BY <1>4 DEF SettleAttempt
  <2> QED BY <1>1, <1>2, <2>1, NumbersStart, PassNumbersKeep
<1>5. CASE StillOpen(s)
  <2>1. run' \in SameNumbers(run) /\ run'.aborted = run.aborted
    BY <1>5, ResultTypes DEF SameNumbers
  <2>2. outbox' \in Seq(WriteOf(SameNumbers(run)))
    BY <1>5, <2>1, ResultTypes
  <2>3. \A t \in Steps : t # s => att'[t] = att[t]
    BY <1>5, ResultTypes
  <2> QED BY <1>1, <1>2, <2>1, <2>2, <2>3, PassNumbersKeep
<1> QED BY <1>4, <1>5

\* The end of a pass keeps numbers, given what it does to the run.
LEMMA EndPassNumbers ==
  ASSUME TypeInv, NumbersInv, NEW s \in Steps, pc = "pass", EndPass(s),
         run' \in SameNumbers(run), run'.aborted = run.aborted,
         outbox' = outbox \/ (outbox = <<>> /\ outbox' \in Seq(WriteOf(SameNumbers(run))))
  PROVE  NumbersInv'
<1>1. stage' = [stage EXCEPT ![s] = "ended"] /\ UNCHANGED <<snap, logs, att>>
  BY DEF EndPass, PassFrame, disk, history
<1>2. "ended" \in Stages \ {"opened"} /\ "ended" \notin Pending
  BY DEF Stages, Pending
<1> QED BY <1>1, <1>2, PassNumbersKeep

\* A quota that moves leaves numbers alone.
LEMMA SameQuota ==
  ASSUME NEW r \in SoundRun, NEW s \in Steps, NEW x, NEW q \in SoundRun,
         q = [r EXCEPT !.step[s].retries = x]
  PROVE  q \in SameNumbers(r) /\ q.aborted = r.aborted
BY DEF SameNumbers, SoundRun, Run, Step

\* Numbers kept twice are kept.
LEMMA SameTransitive ==
  ASSUME NEW r, NEW q \in SameNumbers(r), NEW p \in SameNumbers(q)
  PROVE  p \in SameNumbers(r)
BY DEF SameNumbers

\* A guard kill keeps numbers.
LEMMA CutShortNumbers ==
  ASSUME TypeInv, NumbersInv, NEW s \in Steps, CutShort(s)
  PROVE  NumbersInv'
<1> DEFINE refunded == [run EXCEPT !.step[s].retries = @ - 1]
           r == IF s \in reruns THEN refunded ELSE run
<1>1. /\ pc = "pass" /\ outbox = <<>> /\ run' = WithStatus(r, s, "failed") /\ EndPass(s)
      /\ outbox' = (IF s \in reruns THEN Saved(r) ELSE <<>>) \o StatusWrites(r, s, "failed")
  BY DEF CutShort, Resolves, Busy
<1>2. run \in SoundRun /\ run \in SameNumbers(run) /\ "failed" \in StepStatus
  BY <1>1, NumbersStart DEF StepStatus
<1>3. r \in SoundRun
  BY <1>1, <1>2, RefundSound, PassStart
<1>4. r \in SameNumbers(run) /\ r.aborted = run.aborted
  <2>1. refunded = [run EXCEPT !.step[s].retries = run.step[s].retries - 1]
    BY DEF SoundRun, Run
  <2> HIDE DEF refunded
  <2> QED BY <1>2, <1>3, <2>1, SameQuota
<1> HIDE DEF r
<1>5. /\ WithStatus(r, s, "failed") \in SameNumbers(run)
      /\ WithStatus(r, s, "failed").aborted = run.aborted
  BY <1>2, <1>3, <1>4, SameStatus, SameTransitive
<1>6. outbox' \in Seq(WriteOf(SameNumbers(run)))
  <2>1. (IF s \in reruns THEN Saved(r) ELSE <<>>) \in Seq(WriteOf(SameNumbers(run)))
    BY <1>4, SavedWritesIn, EmptySeq
  <2>2. StatusWrites(r, s, "failed") \in Seq(WriteOf(SameNumbers(run)))
    BY <1>2, <1>5, StatusWritesIn
  <2> QED BY <1>1, <2>1, <2>2, ConcatProperties
<1> QED BY <1>1, <1>5, <1>6, EndPassNumbers

\* An obstacle that stops the run keeps numbers.
LEMMA StopBlockedNumbers ==
  ASSUME TypeInv, NumbersInv, NEW s \in Steps, StopBlocked(s)
  PROVE  NumbersInv'
<1> DEFINE failed == WithStatus(run, s, "failed")
           stopped == Stopped(failed)
<1>1. /\ pc = "pass" /\ outbox = <<>> /\ run' = stopped /\ EndPass(s)
      /\ outbox' = StatusWrites(run, s, "failed") \o Saved(stopped)
  BY DEF StopBlocked, Blocked, Refused, Resolves, Busy
<1>2. run \in SoundRun /\ "failed" \in StepStatus
  BY <1>1, NumbersStart DEF StepStatus
<1>3. failed \in SameNumbers(run) /\ failed.aborted = run.aborted /\ failed \in SoundRun
  BY <1>2, SameStatus, SoundStatus
<1>4. StatusWrites(run, s, "failed") \in Seq(WriteOf(SameNumbers(run)))
  BY <1>2, <1>3, StatusWritesIn
<1> HIDE DEF failed
<1>5. stopped \in SameNumbers(run) /\ stopped.aborted = run.aborted
  BY <1>3, SameStopped, SameTransitive
<1> HIDE DEF stopped
<1>6. Saved(stopped) \in Seq(WriteOf(SameNumbers(run)))
  BY <1>5, SavedWritesIn
<1>7. outbox' \in Seq(WriteOf(SameNumbers(run)))
  BY <1>1, <1>4, <1>6, ConcatProperties
<1> QED BY <1>1, <1>5, <1>7, EndPassNumbers

\* A rerun keeps numbers, and no abort precedes its attempt.
LEMMA RerunNumbers ==
  ASSUME TypeInv, NumbersInv, NEW s \in Steps, Rerun(s)
  PROVE  NumbersInv'
<1>1. /\ pc = "pass" /\ outbox = <<>> /\ ~run.aborted
      /\ run' = [run EXCEPT !.step[s].retries = @ + 1] /\ outbox' = Saved(run')
      /\ stage' = [stage EXCEPT ![s] = "started"] /\ UNCHANGED <<snap, logs, att>>
  BY DEF Rerun, MayRetry, Refused, Resolves, Busy, PassFrame, disk, history
<1>2. run \in SoundRun /\ run' \in SoundRun
  BY <1>1, RerunTypes, NumbersStart DEF TypeInv, RunsSound, Rerun, PassFrame
<1>3. run' = [run EXCEPT !.step[s].retries = run.step[s].retries + 1]
  BY <1>1, <1>2 DEF SoundRun, Run
<1>4. run' \in SameNumbers(run) /\ run'.aborted = run.aborted
  BY <1>2, <1>3, SameQuota
<1>5. outbox' \in Seq(WriteOf(SameNumbers(run)))
  BY <1>1, <1>4, SavedWritesIn
<1>6. "started" \in Stages \ {"opened"}
  BY DEF Stages
<1> QED BY <1>1, <1>4, <1>5, <1>6, PassNumbersKeep

\* The other steps of a pass, which end it by giving its step a status.
LEMMA StatusEndNumbers ==
  ASSUME TypeInv, NumbersInv, NEW s \in Steps, NEW st \in StepStatus, pc = "pass",
         outbox = <<>>, UpdateStep(s, st), EndPass(s)
  PROVE  NumbersInv'
<1>1. /\ run' \in SameNumbers(run) /\ run'.aborted = run.aborted
      /\ outbox' \in Seq(WriteOf(SameNumbers(run)))
  BY NumbersStart, UpdateStepNumbers
<1> QED BY <1>1, EndPassNumbers

\* Every end of a pass keeps numbers.
LEMMA EndsNumbers ==
  ASSUME TypeInv, NumbersInv, NEW s \in Steps,
         \/ Succeed(s) \/ Abandon(s) \/ CutShort(s) \/ StopBlocked(s) \/ Absorb(s)
         \/ Fail(s) \/ CostStopsRetry(s)
  PROVE  NumbersInv'
<1>1. CASE Succeed(s) \/ Absorb(s)
  <2>1. /\ pc = "pass" /\ outbox = <<>> /\ UpdateStep(s, "done") /\ EndPass(s)
        /\ "done" \in StepStatus
    BY <1>1 DEF Succeed, Absorb, Blocked, Exhausted, Refused, Resolves, Busy, StepStatus
  <2> QED BY <2>1, StatusEndNumbers
<1>2. CASE Fail(s) \/ CostStopsRetry(s)
  <2>1. /\ pc = "pass" /\ outbox = <<>> /\ UpdateStep(s, "failed") /\ EndPass(s)
        /\ "failed" \in StepStatus
    BY <1>2 DEF Fail, CostStopsRetry, MayRetry, Exhausted, Refused, Resolves, Busy, StepStatus
  <2> QED BY <2>1, StatusEndNumbers
<1>3. CASE Abandon(s)
  <2>1. pc = "pass" /\ EndPass(s) /\ UNCHANGED <<run, outbox>>
    BY <1>3 DEF Abandon
  <2> QED BY <2>1, NumbersStart, EndPassNumbers
<1>4. CASE CutShort(s) \/ StopBlocked(s)
  BY <1>4, CutShortNumbers, StopBlockedNumbers
<1> QED BY <1>1, <1>2, <1>3, <1>4

\* The end of a unit, and of the run.
LEMMA EndingNumbers ==
  ASSUME TypeInv, NumbersInv, NextUnit \/ UnitStops \/ TreeWritesStop \/ Finalize
  PROVE  NumbersInv'
<1>1. pc # "off" /\ outbox = <<>> /\ stage' = Idle /\ UNCHANGED <<snap, logs, att>>
  <2>1. CASE Finalize
    BY <2>1, NumbersStart DEF Finalize, Busy, disk, history
  <2>2. CASE NextUnit \/ UnitStops \/ TreeWritesStop
    BY <2>2 DEF NextUnit, UnitStops, TreeWritesStop, UnitAnswered, Busy, LeaveUnit, disk, history
  <2> QED BY <2>1, <2>2
<1>2. CASE NextUnit \/ UnitStops
  <2>1. UNCHANGED <<run, outbox>>
    BY <1>2 DEF NextUnit, UnitStops
  <2> QED BY <1>1, <2>1, NumbersStart, IdleStages, NumbersKeep
<1>3. CASE TreeWritesStop \/ Finalize
  <2>1. run' \in SameNumbers(run) /\ outbox' = Saved(run')
    <3>1. CASE TreeWritesStop
      BY <1>1, <3>1, NumbersStart, SameStopped DEF TreeWritesStop
    <3>2. CASE Finalize
      <4>1. run' \in SoundRun
        BY <3>2, FinalizeTypes DEF TypeInv, RunsSound, Finalize
      <4>2. (\E x : run' = [run EXCEPT !.status = x]) /\ outbox' = Saved(run')
        BY <3>2 DEF Finalize
      <4>3. run'.step = run.step
        BY <1>1, <4>2, NumbersStart DEF SoundRun, Run
      <4> QED BY <4>1, <4>2, <4>3 DEF SameNumbers
    <3> QED BY <1>3, <3>1, <3>2
  <2>2. outbox' \in Seq(WriteOf(SameNumbers(run)))
    BY <2>1, SavedWritesIn
  <2> QED BY <1>1, <2>1, <2>2, IdleStages, NumbersKeep
<1> QED BY <1>2, <1>3

\* A signal keeps numbers: it closes attempts by theirs.
LEMMA SignalNumbers ==
  ASSUME TypeInv, NumbersInv, Signal
  PROVE  NumbersInv'
<1>1. /\ pc # "off" /\ outbox = <<>> /\ UNCHANGED <<snap, logs, stage>>
      /\ \A t \in Steps : stage[t] \notin Pending
  BY DEF Signal, Busy, Pending, disk, history
<1>2. \A t \in Steps : stage'[t] \notin Pending /\ stage'[t] # "opened"
  BY <1>1 DEF Pending
<1>3. run \in SoundRun /\ run \in SameNumbers(run) /\ executing \subseteq Steps
  BY <1>1, NumbersStart DEF TypeInv, ControlTyped
<1>4. CASE UNCHANGED <<run, outbox>>
  BY <1>1, <1>2, <1>3, <1>4, NumbersKeep
<1>5. CASE ~UNCHANGED <<run, outbox>>
  <2>1. PICK est \in [Steps -> {0} \cup Prices] :
          WithinSpend(Aborted(est)) /\ run' = Aborted(est) /\ outbox' = AbortWrites(est)
    BY <1>5 DEF Signal
  <2>2. run' \in SameNumbers(run)
    BY <1>3, <2>1, AbortedSound DEF SameNumbers
  <2>3. outbox' \in Seq(WriteOf(SameNumbers(run)))
    BY <1>3, <2>1, <2>2, AbortWritesIn
  <2> QED BY <1>1, <1>2, <2>2, <2>3, NumbersKeep
<1> QED BY <1>4, <1>5

----------------------------------------------------------------------------
(* The steps that use numbers, and the disk.                               *)

\* An opened attempt has a number greater than any used.
LEMMA OpenAttemptNumbers ==
  ASSUME TypeInv, NumbersInv, NEW s \in Steps, OpenAttempt(s)
  PROVE  NumbersInv'
<1> USE DEF NumbersInv
<1> DEFINE n == NextNumber(s)
           r == [run EXCEPT !.step[s].last = n]
<1>1. /\ pc = "pass" /\ pc' = "pass" /\ outbox = <<>> /\ stage[s] = "started" /\ n \in Nums
      /\ run' = r /\ outbox' = <<StartEvent(s, n)>> \o Saved(r)
      /\ att' = [att EXCEPT ![s][n] = OpenRecord]
      /\ stage' = [stage EXCEPT ![s] = "opened"] /\ UNCHANGED <<snap, logs>>
  BY DEF OpenAttempt, PassFrame, disk
<1>2. /\ run \in SoundRun /\ att \in [Steps -> [Nums -> Attempt]] /\ stage \in [Steps -> Stages]
      /\ ~run.aborted /\ Below(run)
  BY <1>1, PassStart DEF Undisturbed, Pending, NumbersBelow
<1>3. n > run.step[s].last /\ n > Last(s)
  <2>1. run.step[s].last \in Nat
    BY <1>2 DEF SoundRun, Run, Step
  <2>2. Last(s) \in Nat
    BY LastKnown DEF Last, LastNum, Nums
  <2> QED BY <2>1, <2>2 DEF NextNumber
<1> HIDE DEF n
<1>4. r \in SoundRun /\ r = run' /\ r.aborted = run.aborted
  <2>1. r \in SoundRun
    BY <1>1, OpenAttemptTypes DEF TypeInv, RunsSound
  <2> QED BY <1>1, <1>2, <2>1 DEF SoundRun, Run
<1>5. r.step[s].last = n /\ \A t \in Steps : run.step[t].last <= r.step[t].last
  <2>1. r.step[s].last = n /\ \A t \in Steps : t # s => r.step[t].last = run.step[t].last
    BY <1>2 DEF SoundRun, Run, Step
  <2>2. \A t \in Steps : run.step[t].last \in Nat
    BY <1>2 DEF SoundRun, Run, Step
  <2>3. n \in Nat
    BY <1>1 DEF Nums
  <2> QED BY <1>3, <2>1, <2>2, <2>3
<1>6. Last(s)' = n /\ \A t \in Steps : t # s => Last(t)' = Last(t)
  <2>1. Known(att'[s]) = Known(att[s]) \cup {n}
    BY <1>1, <1>2 DEF Known, OpenRecord, NoAttempt
  <2>2. LastNum(att'[s]) \in Known(att'[s]) /\ n <= LastNum(att'[s])
    BY <2>1, LastKnown
  <2>3. \A m \in Known(att[s]) : m <= Last(s) /\ m < n
    <3> TAKE m \in Known(att[s])
    <3>1. m <= Last(s) /\ Last(s) \in Nums /\ m \in Nums
      BY LastKnown DEF Last, Known
    <3> QED BY <1>1, <1>3, <3>1 DEF Nums
  <2>4. LastNum(att'[s]) = n
    <3>1. CASE LastNum(att'[s]) \in Known(att[s])
      <4>1. LastNum(att'[s]) < n /\ LastNum(att'[s]) \in Nat /\ n \in Nat
        BY <1>1, <2>3, <3>1 DEF Known, Nums
      <4> QED BY <2>2, <4>1
    <3>2. CASE LastNum(att'[s]) \notin Known(att[s])
      BY <2>1, <2>2, <3>2
    <3> QED BY <3>1, <3>2
  <2>5. \A t \in Steps : t # s => att'[t] = att[t]
    BY <1>1, <1>2
  <2> QED BY <2>4, <2>5 DEF Last
<1> HIDE DEF r
<1>7. Below(r) /\ <<s, n>> \notin logs
  <2>1. Below(r)
    <3> SUFFICES ASSUME NEW t \in Steps, NEW m \in Nums, <<t, m>> \in logs
                 PROVE  m <= r.step[t].last
      BY DEF Below
    <3>1. m <= run.step[t].last /\ run.step[t].last <= r.step[t].last
      BY <1>2, <1>5 DEF Below
    <3>2. m \in Int /\ run.step[t].last \in Int /\ r.step[t].last \in Int
      BY <1>2, <1>4 DEF SoundRun, Run, Step, Nums
    <3> QED BY <3>1, <3>2
  <2>2. <<s, n>> \notin logs
    <3> SUFFICES ASSUME <<s, n>> \in logs PROVE FALSE
      OBVIOUS
    <3>1. n <= run.step[s].last /\ run.step[s].last \in Int /\ n \in Int
      BY <1>1, <1>2 DEF Below, SoundRun, Run, Step, Nums
    <3> QED BY <1>3, <3>1
  <2> QED BY <2>1, <2>2
<1>8. \A R : r \in R => outbox' \in Seq(WriteOf(R))
  <2> SUFFICES ASSUME NEW R, r \in R PROVE outbox' \in Seq(WriteOf(R))
    OBVIOUS
  <2>1. <<StartEvent(s, n)>> \in Seq(WriteOf(R))
    BY <1>1, StartWrite
  <2>2. Saved(r) \in Seq(WriteOf(R))
    BY SavedWritesIn
  <2> QED BY <1>1, <2>1, <2>2, ConcatProperties
<1>9. Saving'
  <2> DEFINE start == <<StartEvent(s, n)>>
             save  == <<SaveEntry(r)>>
  <2>1. outbox' = start \o save
    BY <1>1, <1>2, <1>4 DEF Saved
  <2>2. start \in Seq(WriteOf({r})) /\ save \in Seq(WriteOf({r}))
    <3>1. Saved(r) = save
      BY <1>2, <1>4 DEF Saved
    <3>2. Saved(r) \in Seq(WriteOf({r})) /\ StartEvent(s, n) \in WriteOf({r})
      BY <1>1, SavedWritesIn, StartWrite
    <3> QED BY <3>1, <3>2
  <2>3. Len(start) = 1 /\ Len(save) = 1 /\ save[1].kind = "save"
    BY DEF SaveEntry
  <2> HIDE DEF start, save
  <2>4. Len(start \o save) = 2 /\ (start \o save)[2] = save[1]
    <3>1. Len(start \o save) = Len(start) + Len(save)
      BY <2>2, ConcatProperties
    <3>2. 2 \in 1..(Len(start) + Len(save)) /\ 2 - Len(start) = 1 /\ ~(2 <= Len(start))
      BY <2>3
    <3>3. (start \o save)[2] = save[2 - Len(start)]
      BY <2>2, <3>2, ConcatProperties
    <3> QED BY <2>3, <3>1, <3>2, <3>3
  <2>5. 2 \in 1..Len(outbox') /\ outbox'[2].kind = "save"
    BY <2>1, <2>3, <2>4
  <2> QED BY <2>5 DEF Saving
<1>10. NumbersBelow'
  <2>1. RunsBelow' = RunsBelow /\ r \in RunsBelow
    BY <1>1, <1>4, <1>7 DEF RunsBelow, Below
  <2>2. Below(run)' /\ (IF snap = NoRun THEN logs = {} ELSE Below(snap))'
    BY <1>1, <1>4, <1>7 DEF NumbersBelow, Below
  <2> QED BY <1>8, <2>1, <2>2 DEF NumbersBelow
<1>11. Undisturbed'
  BY <1>2, <1>4 DEF Undisturbed
<1>12. OpenedFresh'
  <2> SUFFICES ASSUME NEW t \in Steps, stage'[t] = "opened" PROVE Fresh(t)'
    BY DEF OpenedFresh
  <2>1. <<t, Last(t)'>> \notin logs' /\ Last(t)' <= run'.step[t].last
    <3>1. CASE t = s
      <4>1. n <= n
        BY <1>1 DEF Nums
      <4> QED BY <1>1, <1>4, <1>5, <1>6, <1>7, <3>1, <4>1
    <3>2. CASE t # s
      <4>1. stage[t] = "opened" /\ Last(t)' = Last(t)
        BY <1>1, <1>2, <1>6, <3>2
      <4>2. <<t, Last(t)>> \notin logs /\ Last(t) <= run.step[t].last
        BY <4>1 DEF OpenedFresh, Fresh
      <4>3. run.step[t].last <= r.step[t].last /\ run.step[t].last \in Int /\ r.step[t].last \in Int
        BY <1>2, <1>4, <1>5 DEF SoundRun, Run, Step
      <4>4. Last(t) \in Int
        BY LastKnown DEF Last, LastNum, Nums
      <4> QED BY <1>1, <1>4, <4>1, <4>2, <4>3, <4>4
    <3> QED BY <3>1, <3>2
  <2>2. r \in RunsFrom(t, Last(t))'
    BY <1>4, <2>1 DEF RunsFrom
  <2>3. outbox' \in Seq(WriteOf(RunsFrom(t, Last(t))'))
    BY <1>8, <2>2
  <2>4. RunsFrom(t, Last(t))' = {q \in SoundRun : Last(t)' <= q.step[t].last}
    BY DEF RunsFrom
  <2> QED BY <1>9, <2>1, <2>3, <2>4 DEF Fresh, RunsFrom
<1> QED BY <1>10, <1>11, <1>12

\* The log of a spawned attempt has a number a snapshot holds.
LEMMA SpawnNumbers ==
  ASSUME TypeInv, NumbersInv, NEW s \in Steps, Spawn(s)
  PROVE  NumbersInv'
<1> USE DEF NumbersInv
<1>1. /\ pc = "pass" /\ pc' = "pass" /\ outbox = <<>> /\ stage[s] = "opened"
      /\ stage' = [stage EXCEPT ![s] = "spawned"]
      /\ logs' = logs \cup {<<s, Last(s)>>} /\ UNCHANGED <<snap, run, att, outbox>>
  BY DEF Spawn, PassFrame, disk
<1>2. stage \in [Steps -> Stages]
  BY <1>1, PassStart
<1>3. Fresh(s) /\ ~Saving
  BY <1>1 DEF OpenedFresh, Saving
<1>4. NumbersBelow'
  <2>1. Below(run)'
    BY <1>1, <1>3 DEF NumbersBelow, Below, Fresh
  <2>2. snap # NoRun /\ Below(snap)'
    BY <1>1, <1>3 DEF NumbersBelow, Below, Fresh
  <2>3. outbox' \in Seq(WriteOf(RunsBelow'))
    BY <1>1, EmptySeq
  <2> QED BY <1>1, <2>1, <2>2, <2>3 DEF NumbersBelow, RunsBelow
<1>5. Undisturbed'
  BY <1>1, <1>2 DEF Undisturbed, Pending
<1>6. OpenedFresh'
  <2> SUFFICES ASSUME NEW t \in Steps, stage'[t] = "opened" PROVE Fresh(t)'
    BY DEF OpenedFresh
  <2>1. t # s /\ Fresh(t) /\ Last(t)' = Last(t)
    BY <1>1, <1>2 DEF OpenedFresh, Last
  <2>2. <<t, Last(t)>> \notin logs'
    BY <1>1, <2>1 DEF Fresh
  <2> QED BY <1>1, <2>1, <2>2 DEF Fresh, RunsFrom, Saving
<1> QED BY <1>4, <1>5, <1>6

\* A process that is gone leaves nothing to write, and opens nothing.
LEMMA GoneNumbers ==
  ASSUME TypeInv, NumbersInv, Exit \/ Crash
  PROVE  NumbersInv'
<1>1. pc' = "off" /\ stage' = Idle /\ outbox' = <<>> /\ UNCHANGED <<snap, logs>>
  BY DEF Exit, Crash, Gone, disk, history
<1>2. NumbersBelow'
  <2>1. outbox' \in Seq(WriteOf(RunsBelow'))
    BY <1>1, EmptySeq
  <2>2. (IF snap = NoRun THEN logs = {} ELSE Below(snap))'
    BY <1>1 DEF NumbersInv, NumbersBelow, Below
  <2> QED BY <1>1, <2>1, <2>2 DEF NumbersBelow
<1>3. Undisturbed' /\ OpenedFresh'
  BY <1>1, IdleStages DEF Undisturbed, OpenedFresh
<1> QED BY <1>2, <1>3 DEF NumbersInv

\* A process that opens the run goes on from numbers no smaller.
LEMMA OpeningNumbers ==
  ASSUME TypeInv, NumbersInv, pc = "off", pc' = "booted", UNCHANGED <<snap, logs, stage>>,
         run' \in SoundRun, Below(run)', \A R : run' \in R => outbox' \in Seq(WriteOf(R))
  PROVE  NumbersInv'
<1>1. stage' = Idle
  BY DEF TypeInv, PassTyped
<1>2. run' \in RunsBelow'
  BY DEF RunsBelow
<1>3. outbox' \in Seq(WriteOf(RunsBelow'))
  BY <1>2
<1>4. (IF snap = NoRun THEN logs = {} ELSE Below(snap))'
  BY DEF NumbersInv, NumbersBelow, Below
<1>5. NumbersBelow'
  BY <1>3, <1>4 DEF NumbersBelow
<1>6. Undisturbed' /\ OpenedFresh'
  BY <1>1, IdleStages DEF Undisturbed, OpenedFresh
<1> QED BY <1>5, <1>6 DEF NumbersInv

\* Creating a run: no number was ever used.
LEMMA CreateNumbers ==
  ASSUME TypeInv, NumbersInv, NEW i \in Invocations, Create(i)
  PROVE  NumbersInv'
<1>1. /\ pc = "off" /\ pc' = "booted" /\ snap = NoRun /\ UNCHANGED <<snap, logs, stage>>
      /\ outbox' = Saved(run')
  BY DEF Create, disk
<1>2. run' \in SoundRun
  BY <1>1, CreateTypes DEF TypeInv, RunsSound
<1>3. Below(run)'
  BY <1>1 DEF NumbersInv, NumbersBelow, Below
<1>4. \A R : run' \in R => outbox' \in Seq(WriteOf(R))
  BY <1>1, SavedWritesIn
<1> QED BY <1>1, <1>2, <1>3, <1>4, OpeningNumbers

\* Resuming a run: the snapshot holds the numbers, whatever the journal lost.
LEMMA ResumeNumbers ==
  ASSUME TypeInv, NumbersInv, NEW i \in Invocations, Resume(i)
  PROVE  NumbersInv'
<1>1. /\ pc = "off" /\ pc' = "booted" /\ snap # NoRun /\ UNCHANGED <<snap, logs, stage>>
      /\ run' = Restored(snap, jStatus, jAtt, i) /\ WithinSpend(run')
      /\ outbox' = RestoreWrites(snap, jAtt, run', i)
  BY DEF Resume
<1>2. /\ snap \in SoundRun /\ jStatus \in [Steps -> Statuses]
      /\ jAtt \in [Steps -> [Nums -> Attempt]] /\ i \in Invocation
  BY <1>1, Assumptions DEF TypeInv, RunsSound, AttemptsTyped, DiskTyped
<1>3. run' \in SoundRun /\ \A s \in Steps : run'.step[s].last = snap.step[s].last
  BY <1>1, <1>2, RestoredSound
<1>4. Below(run)'
  BY <1>1, <1>3 DEF NumbersInv, NumbersBelow, Below
<1>5. \A R : run' \in R => outbox' \in Seq(WriteOf(R))
  BY <1>1, <1>2, RestoreWritesIn
<1> QED BY <1>1, <1>3, <1>4, <1>5, OpeningNumbers

\* The first write and the others, for a set of runs.
LEMMA HeadWrite ==
  ASSUME NEW R, outbox \in Seq(WriteOf(R)), outbox # <<>>
  PROVE  /\ Tail(outbox) \in Seq(WriteOf(R))
         /\ Head(outbox).kind = "save" => Head(outbox).run \in R
<1>1. Head(outbox) \in WriteOf(R) /\ Tail(outbox) \in Seq(WriteOf(R))
  BY HeadTailProperties
<1> QED BY <1>1 DEF WriteOf

\* A write that reaches the disk, or is lost: the snapshot becomes one of those
\* to be written, and a lost append is not a snapshot.
LEMMA WriteNumbers ==
  ASSUME TypeInv, NumbersInv, Flush \/ LoseEvent
  PROVE  NumbersInv'
<1> USE DEF NumbersInv
<1> DEFINE e == Head(outbox)
<1>1. /\ outbox # <<>> /\ outbox' = Tail(outbox)
      /\ UNCHANGED <<pc, run, att, stage, logs>>
      /\ snap' = IF e.kind = "save" THEN e.run ELSE snap
  BY DEF Flush, LoseEvent, memory, disk
<1>2. RunsBelow' = RunsBelow
  BY <1>1 DEF RunsBelow, Below
<1>3. /\ outbox' \in Seq(WriteOf(RunsBelow))
      /\ e.kind = "save" => e.run \in RunsBelow
  BY <1>1, HeadWrite DEF NumbersBelow
<1>4. NumbersBelow'
  <2>1. Below(run)' <=> Below(run)
    BY <1>1 DEF Below
  <2>2. (IF snap = NoRun THEN logs = {} ELSE Below(snap))'
    <3>1. CASE e.kind = "save"
      <4>1. snap' \in RunsBelow'
        BY <1>1, <1>2, <1>3, <3>1
      <4> QED BY <4>1, SoundIsRun DEF RunsBelow
    <3>2. CASE e.kind # "save"
      BY <1>1, <3>2 DEF NumbersBelow, Below
    <3> QED BY <3>1, <3>2
  <2> QED BY <1>1, <1>2, <1>3, <2>1, <2>2 DEF NumbersBelow
<1>5. Undisturbed'
  BY <1>1 DEF Undisturbed
<1>6. OpenedFresh'
  <2> SUFFICES ASSUME NEW s \in Steps, stage'[s] = "opened" PROVE Fresh(s)'
    BY DEF OpenedFresh
  <2>1. Fresh(s) /\ Last(s)' = Last(s)
    BY <1>1 DEF OpenedFresh, Last
  <2>2. RunsFrom(s, Last(s))' = RunsFrom(s, Last(s))
    BY <2>1 DEF RunsFrom
  <2>3. /\ outbox' \in Seq(WriteOf(RunsFrom(s, Last(s))))
        /\ e.kind = "save" => e.run \in RunsFrom(s, Last(s))
    BY <1>1, <2>1, HeadWrite DEF Fresh
  <2>4. Saving' \/ (snap' # NoRun /\ Last(s) <= snap'.step[s].last)
    <3>1. CASE e.kind = "save"
      BY <1>1, <2>3, <3>1, SoundIsRun DEF RunsFrom
    <3>2. CASE e.kind # "save"
      <4>1. CASE Saving
        <5>1. PICK k \in 1..Len(outbox) : outbox[k].kind = "save"
          BY <4>1 DEF Saving
        <5>2. outbox \in Seq(SoundWrite) /\ outbox[1] = e
          BY <1>1 DEF TypeInv, WritesSound
        <5>3. k # 1 /\ k - 1 \in 1..Len(outbox') /\ outbox'[k - 1] = outbox[k]
          <6>1. k # 1
            BY <3>2, <5>1, <5>2
          <6>2. Len(outbox') = Len(outbox) - 1 /\ Len(outbox) \in Nat
            BY <1>1, <5>2
          <6>3. k - 1 \in 1..Len(outbox') /\ (k - 1) + 1 = k
            BY <5>1, <6>1, <6>2
          <6>4. \A j \in 1..Len(outbox') : outbox'[j] = outbox[j + 1]
            BY <1>1, <5>2, HeadTailProperties
          <6> QED BY <6>1, <6>3, <6>4
        <5> QED BY <5>1, <5>3 DEF Saving
      <4>2. CASE ~Saving
        BY <1>1, <2>1, <3>2, <4>2 DEF Fresh
      <4> QED BY <4>1, <4>2
    <3> QED BY <3>1, <3>2
  <2> QED BY <1>1, <2>1, <2>2, <2>3, <2>4 DEF Fresh
<1> QED BY <1>4, <1>5, <1>6

----------------------------------------------------------------------------
(* The theorem.                                                            *)

\* No number is used before any process starts.
LEMMA InitNumbers == Init => NumbersInv
<1> SUFFICES ASSUME Init PROVE NumbersInv
  OBVIOUS
<1>1. NumbersBelow
  BY EmptySeq DEF Init, NumbersBelow
<1>2. Undisturbed /\ OpenedFresh
  BY IdleStages DEF Init, Undisturbed, OpenedFresh
<1> QED BY <1>1, <1>2 DEF NumbersInv

\* The invariant is inductive.
LEMMA NextNumbers == TypeInv /\ NumbersInv /\ [Next]_vars => NumbersInv'
<1> SUFFICES ASSUME TypeInv, NumbersInv, [Next]_vars PROVE NumbersInv'
  OBVIOUS
<1>1. CASE Open
  BY <1>1, CreateNumbers, ResumeNumbers DEF Open
<1>2. CASE OpenLedger \/ Admission \/ Launch \/ LeaveLoop
  BY <1>2, OpenLedgerNumbers, AdmissionNumbers, LoopNumbers
<1>3. CASE Pass
  BY <1>3, StartPassNumbers, OpenAttemptNumbers, SpawnNumbers, SettleAttemptNumbers,
     EndsNumbers, RerunNumbers DEF Pass
<1>4. CASE NextUnit \/ UnitStops \/ TreeWritesStop \/ Finalize
  BY <1>4, EndingNumbers
<1>5. CASE Exit \/ Crash \/ Flush \/ LoseEvent \/ Signal
  BY <1>5, GoneNumbers, WriteNumbers, SignalNumbers
<1>6. CASE UNCHANGED vars
  <2>1. UNCHANGED <<pc, run, att, stage, outbox, snap, logs>>
    BY <1>6 DEF vars, memory, disk, history
  <2> QED BY <2>1 DEF NumbersInv, NumbersBelow, RunsBelow, Below, Undisturbed, OpenedFresh,
                      Fresh, RunsFrom, Saving, Last
<1> QED BY <1>1, <1>2, <1>3, <1>4, <1>5, <1>6 DEF Next, Progress

\* Only Spawn spawns.
LEMMA OnlySpawn ==
  ASSUME TypeInv, [Next]_vars, NEW s \in Steps, Spawns(s)
  PROVE  Spawn(s)
<1>1. stage[s] # "spawned" /\ stage'[s] = "spawned" /\ stage \in [Steps -> Stages]
  BY DEF Spawns, TypeInv, PassTyped
<1>2. stage' # stage /\ stage' # Idle
  BY <1>1, IdleStages
<1>3. ~Launch
  BY <1>1 DEF Launch
<1>4. ~(Open \/ OpenLedger \/ Admission \/ LeaveLoop \/ Signal \/ Flush \/ LoseEvent)
  BY <1>2 DEF Open, Create, Resume, OpenLedger, Admission, PassOver, CostStopsAdmission,
     WhenSkips, WhenStops, AdmissionFails, AdmissionAbsorbed, NeedsDecision, Admit,
     AdmissionFrame, LeaveLoop, Signal, Flush, LoseEvent, memory
<1>5. ~(NextUnit \/ UnitStops \/ TreeWritesStop \/ Finalize \/ Exit \/ Crash)
  BY <1>2 DEF NextUnit, UnitStops, TreeWritesStop, LeaveUnit, Finalize, Exit, Crash, Gone
<1>6. stage' # stage => ~UNCHANGED vars
  BY DEF vars, memory
<1>7. Pass
  BY <1>2, <1>3, <1>4, <1>5, <1>6 DEF Next, Progress
<1>8. PICK t \in Steps :
        \/ StartPass(t) \/ OpenAttempt(t) \/ Spawn(t) \/ SettleAttempt(t)
        \/ Succeed(t) \/ Abandon(t) \/ CutShort(t) \/ StopBlocked(t) \/ Absorb(t)
        \/ Fail(t) \/ CostStopsRetry(t) \/ Rerun(t)
  BY <1>7 DEF Pass
<1>9. CASE Spawn(t)
  <2>1. stage' = [stage EXCEPT ![t] = "spawned"]
    BY <1>9 DEF Spawn
  <2>2. t = s
    BY <1>1, <2>1
  <2> QED BY <1>9, <2>2
<1>10. CASE ~Spawn(t)
  <2>1. \E to \in {"started", "opened", "settled", "ended"} : stage' = [stage EXCEPT ![t] = to]
    BY <1>8, <1>10 DEF StartPass, OpenAttempt, SettleAttempt, Succeed, Abandon, CutShort,
       StopBlocked, Absorb, Fail, CostStopsRetry, Rerun, EndPass
  <2> QED BY <1>1, <2>1
<1> QED BY <1>9, <1>10

\* Whatever the crashes, the lost appends, the reruns and the resumes, an attempt
\* spawns under a number no attempt of its step spawned under: no log file is
\* overwritten (nextAttemptNumber reads the snapshot as well as the journal).
THEOREM NumbersAreFresh == Spec => AttemptNumbersFresh
<1> DEFINE Distinct == \A s \in Steps : Spawns(s) => <<s, LastNum(att'[s])>> \notin logs
<1>1. TypeInv /\ NumbersInv /\ [Next]_vars => Distinct
  <2> SUFFICES ASSUME TypeInv, NumbersInv, [Next]_vars, NEW s \in Steps, Spawns(s)
               PROVE  <<s, LastNum(att'[s])>> \notin logs
    OBVIOUS
  <2>1. Spawn(s)
    BY OnlySpawn
  <2>2. stage[s] = "opened" /\ att' = att
    BY <2>1 DEF Spawn
  <2> QED BY <2>2 DEF NumbersInv, OpenedFresh, Fresh, Last
<1>2. Spec => [](TypeInv /\ NumbersInv)
  BY InitTypes, NextTypes, InitNumbers, NextNumbers, PTL DEF Spec
<1>3. TypeInv /\ NumbersInv /\ [Next]_vars => [Distinct]_vars
  BY <1>1
<1> QED BY <1>2, <1>3, PTL DEF Spec, AttemptNumbersFresh

----------------------------------------------------------------------------
(* The attempt events of a sequence of writes.                             *)

IsAttempt(e) == e.kind \in {"start", "finish"}
AttemptsAt(q) == {k \in 1..Len(q) : IsAttempt(q[k])}
AttemptEvents(q) == {q[k] : k \in AttemptsAt(q)}

\* A step has one attempt event at most.
Solo(q) == \A j, k \in AttemptsAt(q) : q[j].step = q[k].step => j = k

PlainWrite == {e \in SoundWrite : ~IsAttempt(e)}

\* Writes without attempt events.
LEMMA PlainEvents ==
  ASSUME NEW q \in Seq(PlainWrite)
  PROVE  AttemptEvents(q) = {} /\ Solo(q) /\ q \in Seq(SoundWrite)
<1>1. AttemptsAt(q) = {}
  BY ElementOfSeq DEF AttemptsAt, PlainWrite
<1>2. q \in Seq(SoundWrite)
  BY SeqMonotonic DEF PlainWrite
<1> QED BY <1>1, <1>2 DEF AttemptEvents, Solo

\* The empty sequence has none.
LEMMA EmptyEvents == AttemptEvents(<<>>) = {} /\ Solo(<<>>)
BY EmptySeq, PlainEvents

\* A concatenation has the attempt events of both parts.
LEMMA ConcatEvents ==
  ASSUME NEW p \in Seq(SoundWrite), NEW q \in Seq(SoundWrite)
  PROVE  /\ AttemptEvents(p \o q) = AttemptEvents(p) \cup AttemptEvents(q)
         /\ p \o q \in Seq(SoundWrite)
         /\ Solo(p) /\ Solo(q)
              /\ (\A e \in AttemptEvents(p), f \in AttemptEvents(q) : e.step # f.step)
            => Solo(p \o q)
<1> DEFINE r == p \o q
<1>1. /\ Len(r) = Len(p) + Len(q) /\ Len(p) \in Nat /\ Len(q) \in Nat
      /\ \A i \in 1..Len(p) : r[i] = p[i]
      /\ \A i \in 1..Len(q) : r[Len(p) + i] = q[i]
      /\ r \in Seq(SoundWrite)
  BY ConcatProperties, LenProperties
<1> HIDE DEF r
<1>2. AttemptEvents(p) \cup AttemptEvents(q) \subseteq AttemptEvents(r)
  <2>1. \A k \in AttemptsAt(p) : k \in AttemptsAt(r) /\ r[k] = p[k]
    BY <1>1 DEF AttemptsAt
  <2>2. \A k \in AttemptsAt(q) : Len(p) + k \in AttemptsAt(r) /\ r[Len(p) + k] = q[k]
    BY <1>1 DEF AttemptsAt
  <2> QED BY <2>1, <2>2 DEF AttemptEvents
<1>3. \A k \in AttemptsAt(r) : \/ k \in AttemptsAt(p) /\ r[k] = p[k]
                               \/ k - Len(p) \in AttemptsAt(q) /\ r[k] = q[k - Len(p)]
  <2> TAKE k \in AttemptsAt(r)
  <2>1. k \in 1..Len(r) /\ IsAttempt(r[k])
    BY DEF AttemptsAt
  <2>2. CASE k <= Len(p)
    BY <1>1, <2>1, <2>2 DEF AttemptsAt
  <2>3. CASE k > Len(p)
    <3> DEFINE i == k - Len(p)
    <3>1. i \in 1..Len(q) /\ Len(p) + i = k
      BY <1>1, <2>1, <2>3
    <3>2. r[k] = q[i]
      BY <1>1, <3>1
    <3> HIDE DEF i
    <3>3. i \in AttemptsAt(q)
      BY <2>1, <3>1, <3>2 DEF AttemptsAt
    <3> QED BY <3>2, <3>3 DEF i
  <2> QED BY <1>1, <2>1, <2>2, <2>3
<1>4. AttemptEvents(r) \subseteq AttemptEvents(p) \cup AttemptEvents(q)
  BY <1>3 DEF AttemptEvents
<1>5. ASSUME Solo(p), Solo(q),
             \A e \in AttemptEvents(p), f \in AttemptEvents(q) : e.step # f.step
      PROVE  Solo(r)
  <2> SUFFICES ASSUME NEW j \in AttemptsAt(r), NEW k \in AttemptsAt(r), r[j].step = r[k].step
               PROVE  j = k
    BY DEF Solo
  <2>1. CASE j \in AttemptsAt(p) /\ r[j] = p[j]
    <3>1. CASE k \in AttemptsAt(p) /\ r[k] = p[k]
      BY <1>5, <2>1, <3>1 DEF Solo
    <3>2. CASE k - Len(p) \in AttemptsAt(q) /\ r[k] = q[k - Len(p)]
      BY <1>5, <2>1, <3>2 DEF AttemptEvents
    <3> QED BY <1>3, <3>1, <3>2
  <2>2. CASE j - Len(p) \in AttemptsAt(q) /\ r[j] = q[j - Len(p)]
    <3>1. CASE k \in AttemptsAt(p) /\ r[k] = p[k]
      BY <1>5, <2>2, <3>1 DEF AttemptEvents
    <3>2. CASE k - Len(p) \in AttemptsAt(q) /\ r[k] = q[k - Len(p)]
      <4>1. j - Len(p) = k - Len(p)
        BY <1>5, <2>2, <3>2 DEF Solo
      <4> QED BY <4>1, <1>1 DEF AttemptsAt
    <3> QED BY <1>3, <3>1, <3>2
  <2> QED BY <1>3, <2>1, <2>2
<1> QED BY <1>1, <1>2, <1>4, <1>5 DEF r

\* One attempt event, and writes that are none.
LEMMA OneEvent ==
  ASSUME NEW e \in SoundWrite, IsAttempt(e), NEW q \in Seq(PlainWrite)
  PROVE  AttemptEvents(<<e>> \o q) = {e} /\ Solo(<<e>> \o q)
<1>1. /\ <<e>> \in Seq(SoundWrite) /\ Len(<<e>>) = 1 /\ <<e>>[1] = e
  OBVIOUS
<1>2. AttemptsAt(<<e>>) = {1}
  BY <1>1 DEF AttemptsAt
<1>3. AttemptEvents(<<e>>) = {e} /\ Solo(<<e>>)
  BY <1>1, <1>2 DEF AttemptEvents, Solo
<1> QED BY <1>1, <1>3, PlainEvents, ConcatEvents

\* The first write and the others.
LEMMA TailEvents ==
  ASSUME NEW q \in Seq(SoundWrite), q # <<>>
  PROVE  /\ AttemptEvents(Tail(q)) \subseteq AttemptEvents(q)
         /\ \A e \in AttemptEvents(q) : e = Head(q) \/ e \in AttemptEvents(Tail(q))
         /\ IsAttempt(Head(q)) => Head(q) \in AttemptEvents(q)
         /\ Solo(q) => /\ Solo(Tail(q))
                       /\ IsAttempt(Head(q)) =>
                            \A e \in AttemptEvents(Tail(q)) : e.step # Head(q).step
<1> DEFINE t == Tail(q)
<1>1. /\ Head(q) = q[1] /\ Len(q) \in Nat \ {0} /\ Len(t) = Len(q) - 1
      /\ \A i \in 1..Len(t) : t[i] = q[i + 1]
  BY HeadTailProperties, EmptySeq, LenProperties
<1> HIDE DEF t
<1>2. \A k \in AttemptsAt(t) : k + 1 \in AttemptsAt(q) /\ t[k] = q[k + 1] /\ k \in Nat \ {0}
  BY <1>1 DEF AttemptsAt
<1>3. \A k \in AttemptsAt(q) : k = 1 \/ (k - 1 \in AttemptsAt(t) /\ t[k - 1] = q[k])
  <2> TAKE k \in AttemptsAt(q)
  <2> SUFFICES ASSUME k # 1 PROVE k - 1 \in AttemptsAt(t) /\ t[k - 1] = q[k]
    OBVIOUS
  <2>1. k - 1 \in 1..Len(t) /\ (k - 1) + 1 = k
    BY <1>1 DEF AttemptsAt
  <2>2. t[k - 1] = q[k]
    BY <1>1, <2>1
  <2> QED BY <2>1, <2>2 DEF AttemptsAt
<1>4. IsAttempt(Head(q)) => 1 \in AttemptsAt(q)
  BY <1>1 DEF AttemptsAt
<1>5. ASSUME Solo(q) PROVE Solo(t)
  <2> SUFFICES ASSUME NEW j \in AttemptsAt(t), NEW k \in AttemptsAt(t), t[j].step = t[k].step
               PROVE  j = k
    BY DEF Solo
  <2>1. j + 1 = k + 1
    BY <1>2, <1>5 DEF Solo
  <2> QED BY <1>2, <2>1
<1>6. ASSUME Solo(q), IsAttempt(Head(q)), NEW k \in AttemptsAt(t)
      PROVE  t[k].step # Head(q).step
  <2>1. k + 1 # 1 /\ k + 1 \in AttemptsAt(q) /\ t[k] = q[k + 1] /\ 1 \in AttemptsAt(q)
    BY <1>2, <1>4, <1>6
  <2> QED BY <1>1, <1>6, <2>1 DEF Solo
<1>7. AttemptEvents(t) \subseteq AttemptEvents(q)
  BY <1>2 DEF AttemptEvents
<1>8. \A e \in AttemptEvents(q) : e = Head(q) \/ e \in AttemptEvents(t)
  BY <1>1, <1>3 DEF AttemptEvents
<1>9. IsAttempt(Head(q)) => Head(q) \in AttemptEvents(q)
  BY <1>1, <1>4 DEF AttemptEvents
<1>10. Solo(q) /\ IsAttempt(Head(q)) => \A e \in AttemptEvents(t) : e.step # Head(q).step
  BY <1>6 DEF AttemptEvents
<1> QED BY <1>5, <1>7, <1>8, <1>9, <1>10 DEF t

----------------------------------------------------------------------------
(* The writes that are no attempt events.                                  *)

\* A snapshot is none.
LEMMA SavedPlain == \A r \in SoundRun : Saved(r) \in Seq(PlainWrite)
<1> TAKE r \in SoundRun
<1>1. SaveEntry(r) \in PlainWrite
  BY DEF SaveEntry, PlainWrite, SoundWrite, WriteOf, IsAttempt
<1> QED BY <1>1, EmptySeq DEF Saved

\* Nor are the writes of updateStep.
LEMMA StatusPlain ==
  ASSUME NEW r \in SoundRun, NEW s \in Steps, NEW st \in StepStatus
  PROVE  StatusWrites(r, s, st) \in Seq(PlainWrite)
<1>1. StatusEvent(s, st) \in PlainWrite
  BY DEF StatusEvent, PlainWrite, SoundWrite, WriteOf, IsAttempt
<1>2. Saved(WithStatus(r, s, st)) \in Seq(PlainWrite)
  BY SoundStatus, SavedPlain
<1>3. <<StatusEvent(s, st)>> \in Seq(PlainWrite)
  BY <1>1
<1> QED BY <1>2, <1>3, ConcatProperties DEF StatusWrites

\* Nor is what a guard journals.
LEMMA GuardPlain ==
  ASSUME NEW res, res.cut \in {"none", "budget", "unpriced"}
  PROVE  GuardWrites(res) \in Seq(PlainWrite)
<1>1. res.cut # "none" => GuardEvent(res.cut) \in PlainWrite
  BY DEF GuardEvent, PlainWrite, SoundWrite, WriteOf, IsAttempt
<1> QED BY <1>1, EmptySeq DEF GuardWrites

----------------------------------------------------------------------------
(* The steps that neither open nor close an attempt.                       *)

Before    == {"idle", "admitted", "started"}
InAttempt == {"opened", "spawned"}
LastInterrupted(s) == Last(s) # 0 /\ att[s][Last(s)].interrupted

Quiet ==
  /\ pc # "off" /\ pc' # "off" /\ outbox = <<>> /\ outbox' \in Seq(PlainWrite)
  /\ UNCHANGED <<att, inv, requested, snap, jAtt, lost, died>>
  /\ \A t \in Steps : stage[t] \in Before => stage'[t] \in Before
  /\ \A t \in Steps : stage[t] \in InAttempt <=> stage'[t] \in InAttempt
  /\ \A t \in Steps : stage'[t] # "idle" => stage[t] # "idle" \/ t \in admitted'
  /\ \A t \in Steps : stage'[t] # "idle" /\ t \in admitted => t \in admitted'
  /\ \A t \in admitted' \ admitted : LastInterrupted(t) => Authorized(t)
  /\ IF pc = "booted" THEN OpenLedger ELSE pc' # "booted" /\ UNCHANGED budget

\* Nothing is under way in an idle pass.
LEMMA NothingUnderWay ==
  \A t \in Steps : Idle[t] = "idle" /\ Idle[t] \in Before /\ Idle[t] \notin InAttempt
BY DEF Idle, Before, InAttempt

\* Opening the ledger is quiet.
LEMMA OpenLedgerQuiet ==
  ASSUME TypeInv, OpenLedger
  PROVE  Quiet
<1>1. stage = Idle /\ outbox' \in Seq(PlainWrite)
  BY EmptySeq DEF OpenLedger, TypeInv, PassTyped
<1> QED BY <1>1, NothingUnderWay DEF OpenLedger, Quiet, disk, history

\* So is every decision about a step.
LEMMA AdmissionQuiet ==
  ASSUME TypeInv, Admission
  PROVE  Quiet
<1>0. PICK s \in Steps :
        \/ PassOver(s) \/ CostStopsAdmission(s) \/ WhenSkips(s) \/ WhenStops(s)
        \/ AdmissionFails(s) \/ AdmissionAbsorbed(s) \/ NeedsDecision(s) \/ Admit(s)
  BY DEF Admission
<1>1. Considers(s) /\ AdmissionFrame
  BY <1>0 DEF PassOver, CostStopsAdmission, WhenSkips, WhenStops, AdmissionFails,
              AdmissionAbsorbed, NeedsDecision, Admit, Funded
<1>2. /\ pc = "admit" /\ outbox = <<>> /\ stage = Idle /\ run \in SoundRun
      /\ UNCHANGED <<att, budget, inv, requested, snap, jAtt, lost, died, stage>>
  BY <1>1 DEF Considers, AdmissionFrame, disk, history, TypeInv, PassTyped, RunsSound
<1>3. pc' \in {"admit", "ending"}
  BY <1>0, <1>2 DEF PassOver, CostStopsAdmission, WhenSkips, WhenStops, AdmissionFails,
                    AdmissionAbsorbed, NeedsDecision, Admit, BreakLoop
<1>4. outbox' \in Seq(PlainWrite)
  <2>1. CASE outbox' = outbox
    BY <1>2, <2>1, EmptySeq
  <2>2. CASE WhenSkips(s) \/ AdmissionFails(s) \/ AdmissionAbsorbed(s)
    <3>1. PICK st \in StepStatus : UpdateStep(s, st)
      BY <2>2 DEF WhenSkips, AdmissionFails, AdmissionAbsorbed, StepStatus
    <3> QED BY <1>2, <3>1, StatusPlain DEF UpdateStep
  <2>3. CASE WhenStops(s) \/ NeedsDecision(s)
    <3>1. run' = Stopped(run) /\ outbox' = Saved(run')
      BY <2>3 DEF WhenStops, NeedsDecision
    <3> QED BY <1>2, <3>1, SoundStopped, SavedPlain
  <2> QED BY <1>0, <2>1, <2>2, <2>3 DEF PassOver, CostStopsAdmission, Admit
<1>5. ASSUME NEW t \in admitted' \ admitted, LastInterrupted(t) PROVE Authorized(t)
  <2>1. t = s /\ Admit(s)
    BY <1>0, <1>5 DEF PassOver, CostStopsAdmission, WhenSkips, WhenStops, AdmissionFails,
       AdmissionAbsorbed, NeedsDecision, Admit, BreakLoop
  <2>2. ~Settles(s) /\ (LastPassInterrupted(s) => Authorized(s))
    BY <2>1 DEF Admit, Funded
  <2>3. CASE run.step[s].status \in OwesWork
    BY <1>5, <2>1, <2>2, <2>3 DEF LastPassInterrupted, LastInterrupted
  <2>4. CASE run.step[s].status \notin OwesWork
    <3>1. run.step[s].status \in Settled
      BY <1>2, <2>4 DEF SoundRun, Run, Step, OwesWork
    <3>2. s \in RerunOnResume
      BY <2>2, <3>1 DEF Settles, Settled
    <3> QED BY <2>1, <3>2 DEF Authorized
  <2> QED BY <2>3, <2>4
<1> QED BY <1>2, <1>3, <1>4, <1>5, NothingUnderWay DEF Quiet

\* Launching a unit and leaving the loop are quiet.
LEMMA LoopQuiet ==
  ASSUME TypeInv, Launch \/ LeaveLoop
  PROVE  Quiet
<1>1. /\ pc = "admit" /\ outbox = <<>> /\ pc' \in {"pass", "ending"} /\ stage = Idle
      /\ UNCHANGED <<att, budget, inv, requested, snap, jAtt, lost, died, outbox>>
  BY DEF Launch, LeaveLoop, disk, history, TypeInv, PassTyped
<1>2. outbox' \in Seq(PlainWrite)
  BY <1>1, EmptySeq
<1>3. CASE Launch
  <2>1. /\ UNCHANGED admitted
        /\ \A t \in Steps : stage'[t] = IF t \in admitted THEN "admitted" ELSE "idle"
    BY <1>3 DEF Launch
  <2> QED BY <1>1, <1>2, <2>1, NothingUnderWay DEF Quiet, Before, InAttempt
<1>4. CASE LeaveLoop
  <2>1. UNCHANGED stage /\ admitted' = {}
    BY <1>4 DEF LeaveLoop
  <2> QED BY <1>1, <1>2, <2>1, NothingUnderWay DEF Quiet
<1> QED BY <1>3, <1>4

Moves == {<<"admitted", "started">>, <<"opened", "spawned">>, <<"settled", "ended">>,
          <<"settled", "started">>}

\* A step of a pass that moves it between those stages is quiet.
LEMMA MoveQuiet ==
  ASSUME TypeInv, pc = "pass", outbox = <<>>, outbox' \in Seq(PlainWrite), PassFrame,
         UNCHANGED <<att, budget, lost, died>>, NEW s \in Steps, NEW to,
         stage' = [stage EXCEPT ![s] = to], <<stage[s], to>> \in Moves
  PROVE  Quiet
<1>1. stage \in [Steps -> Stages]
  BY DEF TypeInv, PassTyped
<1>2. /\ \A t \in Steps : stage'[t] = IF t = s THEN to ELSE stage[t]
      /\ stage[s] \in {"admitted", "opened", "settled"}
      /\ to \in {"started", "spawned", "ended"}
      /\ to = "spawned" <=> stage[s] = "opened"
      /\ to = "ended" => stage[s] = "settled"
  BY <1>1 DEF Moves
<1>3. /\ \A t \in Steps : stage[t] \in Before => stage'[t] \in Before
      /\ \A t \in Steps : stage[t] \in InAttempt <=> stage'[t] \in InAttempt
      /\ \A t \in Steps : stage'[t] # "idle" => stage[t] # "idle"
  BY <1>2 DEF Before, InAttempt
<1>4. UNCHANGED <<pc, admitted, inv, requested, snap, jAtt>>
  BY DEF PassFrame, disk
<1> QED BY <1>3, <1>4 DEF Quiet

\* The end of a pass is quiet, given what it writes.
LEMMA EndPassQuiet ==
  ASSUME TypeInv, pc = "pass", outbox = <<>>, outbox' \in Seq(PlainWrite),
         NEW s \in Steps, stage[s] = "settled", EndPass(s)
  PROVE  Quiet
<1>1. /\ stage' = [stage EXCEPT ![s] = "ended"] /\ PassFrame
      /\ UNCHANGED <<att, budget, lost, died>>
  BY DEF EndPass, history
<1>2. <<stage[s], "ended">> \in Moves
  BY DEF Moves
<1> QED BY <1>1, <1>2, MoveQuiet

\* The ends of a pass are quiet.
LEMMA EndsQuiet ==
  ASSUME TypeInv, NEW s \in Steps,
         \/ Succeed(s) \/ Abandon(s) \/ CutShort(s) \/ StopBlocked(s) \/ Absorb(s)
         \/ Fail(s) \/ CostStopsRetry(s)
  PROVE  Quiet
<1>1. pc = "pass" /\ outbox = <<>> /\ stage[s] = "settled" /\ EndPass(s)
  BY DEF Succeed, Abandon, CutShort, StopBlocked, Absorb, Fail, CostStopsRetry,
         MayRetry, Exhausted, Blocked, Refused, Resolves, Busy
<1>2. run \in SoundRun
  BY <1>1, PassStart
<1>3. outbox' \in Seq(PlainWrite)
  <2>1. CASE Abandon(s)
    BY <1>1, <2>1, EmptySeq DEF Abandon
  <2>2. CASE Succeed(s) \/ Absorb(s) \/ Fail(s) \/ CostStopsRetry(s)
    <3>1. PICK st \in StepStatus : UpdateStep(s, st)
      BY <2>2 DEF Succeed, Absorb, Fail, CostStopsRetry, StepStatus
    <3> QED BY <1>2, <3>1, StatusPlain DEF UpdateStep
  <2>3. CASE CutShort(s)
    <3> DEFINE refunded == [run EXCEPT !.step[s].retries = @ - 1]
               r == IF s \in reruns THEN refunded ELSE run
    <3>1. outbox' = (IF s \in reruns THEN Saved(r) ELSE <<>>) \o StatusWrites(r, s, "failed")
      BY <2>3 DEF CutShort
    <3>2. r \in SoundRun
      BY <1>1, <1>2, RefundSound, PassStart
    <3> HIDE DEF r
    <3>3. (IF s \in reruns THEN Saved(r) ELSE <<>>) \in Seq(PlainWrite)
      BY <3>2, SavedPlain, EmptySeq
    <3>4. StatusWrites(r, s, "failed") \in Seq(PlainWrite)
      BY <3>2, StatusPlain DEF StepStatus
    <3> QED BY <3>1, <3>3, <3>4, ConcatProperties
  <2>4. CASE StopBlocked(s)
    <3> DEFINE stopped == Stopped(WithStatus(run, s, "failed"))
    <3>1. outbox' = StatusWrites(run, s, "failed") \o Saved(stopped)
      BY <2>4 DEF StopBlocked
    <3>2. StatusWrites(run, s, "failed") \in Seq(PlainWrite)
      BY <1>2, StatusPlain DEF StepStatus
    <3>3. stopped \in SoundRun
      BY <1>2, SoundStatus, SoundStopped DEF StepStatus
    <3>4. Saved(stopped) \in Seq(PlainWrite)
      BY <3>3, SavedPlain
    <3> HIDE DEF stopped
    <3> QED BY <3>1, <3>2, <3>4, ConcatProperties
  <2> QED BY <2>1, <2>2, <2>3, <2>4
<1> QED BY <1>1, <1>3, EndPassQuiet

\* So are its start, its spawns and its reruns.
LEMMA PassQuiet ==
  ASSUME TypeInv, NEW s \in Steps, StartPass(s) \/ Spawn(s) \/ Rerun(s)
  PROVE  Quiet
<1>1. /\ pc = "pass" /\ outbox = <<>> /\ PassFrame /\ UNCHANGED <<att, budget, lost, died>>
  BY DEF StartPass, Spawn, Rerun, MayRetry, Refused, Resolves, Busy, history
<1>2. run \in SoundRun
  BY <1>1, PassStart
<1>3. CASE StartPass(s)
  <2>1. /\ stage' = [stage EXCEPT ![s] = "started"] /\ <<stage[s], "started">> \in Moves
        /\ UpdateStep(s, "running")
    BY <1>3 DEF StartPass, Moves
  <2>2. outbox' \in Seq(PlainWrite)
    BY <1>2, <2>1, StatusPlain DEF UpdateStep, StepStatus
  <2> QED BY <1>1, <2>1, <2>2, MoveQuiet
<1>4. CASE Spawn(s)
  <2>1. /\ stage' = [stage EXCEPT ![s] = "spawned"] /\ <<stage[s], "spawned">> \in Moves
        /\ outbox' = outbox
    BY <1>4 DEF Spawn, Moves
  <2>2. outbox' \in Seq(PlainWrite)
    BY <1>1, <2>1, EmptySeq
  <2> QED BY <1>1, <2>1, <2>2, MoveQuiet
<1>5. CASE Rerun(s)
  <2>1. /\ stage' = [stage EXCEPT ![s] = "started"] /\ <<stage[s], "started">> \in Moves
        /\ outbox' = Saved(run') /\ pc' = pc
    BY <1>5 DEF Rerun, MayRetry, Refused, Resolves, PassFrame, Moves
  <2>2. run' \in SoundRun
    BY <1>1, <1>5, <2>1, RerunTypes DEF TypeInv, RunsSound
  <2>3. outbox' \in Seq(PlainWrite)
    BY <2>1, <2>2, SavedPlain
  <2> QED BY <1>1, <2>1, <2>3, MoveQuiet
<1> QED BY <1>3, <1>4, <1>5

\* So are the end of a unit and the end of the run.
LEMMA EndingQuiet ==
  ASSUME TypeInv, NextUnit \/ UnitStops \/ TreeWritesStop \/ Finalize
  PROVE  Quiet
<1>1. /\ pc \in {"pass", "ending"} /\ pc' \in {"admit", "ending", "done"} /\ outbox = <<>>
      /\ UNCHANGED <<att, budget, inv, requested, snap, jAtt, lost, died>>
      /\ \A t \in Steps : stage[t] \in {"idle", "ended"}
      /\ stage' = Idle
      /\ admitted' \subseteq admitted
  <2>1. CASE Finalize
    <3>1. stage = Idle
      BY <2>1 DEF Finalize, TypeInv, PassTyped
    <3> QED BY <2>1, <3>1, NothingUnderWay DEF Finalize, Busy, disk, history
  <2>2. CASE NextUnit \/ UnitStops \/ TreeWritesStop
    BY <2>2 DEF NextUnit, UnitStops, TreeWritesStop, UnitAnswered, Busy, LeaveUnit, disk, history
  <2> QED BY <2>1, <2>2
<1>2. outbox' \in Seq(PlainWrite)
  <2>1. CASE NextUnit \/ UnitStops
    BY <1>1, <2>1, EmptySeq DEF NextUnit, UnitStops
  <2>2. CASE TreeWritesStop \/ Finalize
    <3>1. run' \in SoundRun
      BY <1>1, <2>2, UnitTypes, FinalizeTypes DEF TypeInv, RunsSound
    <3>2. outbox' = Saved(run')
      BY <2>2 DEF TreeWritesStop, Finalize
    <3> QED BY <3>1, <3>2, SavedPlain
  <2> QED BY <2>1, <2>2
<1> QED BY <1>1, <1>2, NothingUnderWay DEF Quiet, Before, InAttempt

\* Every step is quiet, opens or closes attempts, or reads or writes the disk.
LEMMA StepKinds ==
  ASSUME TypeInv, [Next]_vars
  PROVE  \/ Quiet
         \/ \E s \in Steps : OpenAttempt(s) \/ SettleAttempt(s)
         \/ \E i \in Invocations : Create(i) \/ Resume(i)
         \/ Signal \/ Flush \/ LoseEvent \/ Exit \/ Crash \/ UNCHANGED vars
<1>1. CASE OpenLedger \/ Admission \/ Launch \/ LeaveLoop
  BY <1>1, OpenLedgerQuiet, AdmissionQuiet, LoopQuiet
<1>2. CASE Pass
  <2>1. PICK s \in Steps :
        \/ StartPass(s) \/ OpenAttempt(s) \/ Spawn(s) \/ SettleAttempt(s)
        \/ Succeed(s) \/ Abandon(s) \/ CutShort(s) \/ StopBlocked(s) \/ Absorb(s)
        \/ Fail(s) \/ CostStopsRetry(s) \/ Rerun(s)
    BY <1>2 DEF Pass
  <2>2. OpenAttempt(s) \/ SettleAttempt(s) \/ Quiet
    BY <2>1, PassQuiet, EndsQuiet
  <2> QED BY <2>2
<1>3. CASE NextUnit \/ UnitStops \/ TreeWritesStop \/ Finalize
  BY <1>3, EndingQuiet
<1> QED BY <1>1, <1>2, <1>3 DEF Next, Progress, Open

----------------------------------------------------------------------------
(* The attempt events of a resume and of an abort.                         *)

\* Ascending lists each of the steps it is given, once.
LEMMA AscendingOnto ==
  ASSUME NEW S \in SUBSET Steps
  PROVE  LET c == Cardinality(S) IN
         /\ c \in Nat /\ Ascending(S) \in [1..c -> S]
         /\ \A i, j \in 1..c : Ascending(S)[i] = Ascending(S)[j] => i = j
         /\ \A s \in S : \E k \in 1..c : Ascending(S)[k] = s
<1> DEFINE c == Cardinality(S)
           f == Ascending(S)
<1>0. NSteps \in Nat /\ S \in SUBSET (1..NSteps)
  BY Assumptions DEF Steps
<1>1. f \in [1..c -> S] /\ \A i, j \in 1..c : i < j => f[i] < f[j]
  BY <1>0, IncreasingEnumeration DEF Ascending
<1>2. IsFiniteSet(S) /\ c \in Nat
  <2>1. IsFiniteSet(Steps)
    BY Assumptions, FS_Interval DEF Steps
  <2> QED BY <2>1, FS_Subset, FS_CardinalityType
<1> HIDE DEF f, c
<1>3. \A i, j \in 1..c : f[i] = f[j] => i = j
  <2> SUFFICES ASSUME NEW i \in 1..c, NEW j \in 1..c, i # j PROVE f[i] # f[j]
    OBVIOUS
  <2>a. f[i] \in S /\ f[j] \in S
    BY <1>1
  <2>b. \A x \in S : x \in Int
    BY <1>0
  <2>1. f[i] \in Int /\ f[j] \in Int
    BY <2>a, <2>b
  <2>2. i < j \/ j < i
    BY <1>2
  <2> QED BY <1>1, <2>1, <2>2
<1>4. f \in Injection(1..c, S)
  BY <1>1, <1>3 DEF Injection, IsInjective
<1>5. Cardinality(1..c) = c
  BY <1>2, FS_Interval
<1>6. f \in Surjection(1..c, S)
  BY <1>2, <1>4, <1>5, FS_Injection DEF c
<1>7. \A s \in S : \E k \in 1..c : f[k] = s
  BY <1>6 DEF Surjection
<1> QED BY <1>1, <1>2, <1>3, <1>7 DEF f, c

OpenNum(a) == CHOOSE n \in Nums : a[n].status = "running"
Closing(s) == FinishEvent(s, OpenNum(jAtt[s]), Crashed(s))

\* A resume closes the attempt each step left open.
LEMMA RestoreEvents ==
  ASSUME jAtt \in [Steps -> [Nums -> Attempt]], NEW saved, NEW r \in SoundRun, NEW i
  PROVE  LET q == RestoreWrites(saved, jAtt, r, i) IN
         AttemptEvents(q) = {Closing(s) : s \in {t \in Steps : HasOpen(jAtt[t])}} /\ Solo(q)
<1> DEFINE crashed == {s \in Steps : HasOpen(jAtt[s])}
           c == Cardinality(crashed)
           order == Ascending(crashed)
           closes == [k \in 1..c |-> Closing(order[k])]
           changed == crashed # {} \/ (i.unmetered /\ ~saved.unmetered)
           saves == IF r.status = "RUNNING" \/ changed THEN Saved(r) ELSE <<>>
<1>1. RestoreWrites(saved, jAtt, r, i) = closes \o saves
  BY DEF RestoreWrites, Closing, OpenNum
<1>2. \A s \in crashed : /\ Closing(s) \in SoundWrite /\ IsAttempt(Closing(s))
                         /\ Closing(s).step = s
  <2> TAKE s \in crashed
  <2>1. OpenNum(jAtt[s]) \in Nums
    BY DEF HasOpen, OpenNum
  <2>2. Closing(s) \in SoundWrite
    BY <2>1, AttemptTypes, FinishWrite DEF Closing, SoundWrite
  <2> QED BY <2>2 DEF Closing, FinishEvent, IsAttempt
<1>3. saves \in Seq(PlainWrite)
  BY SavedPlain, EmptySeq
<1>4. /\ c \in Nat /\ order \in [1..c -> crashed]
      /\ \A j, k \in 1..c : order[j] = order[k] => j = k
      /\ \A s \in crashed : \E k \in 1..c : order[k] = s
  BY AscendingOnto
<1> HIDE DEF crashed, c, order, saves
<1>5. closes \in Seq(SoundWrite) /\ Len(closes) = c
  BY <1>2, <1>4
<1>6. AttemptsAt(closes) = 1..c
  BY <1>2, <1>4, <1>5 DEF AttemptsAt
<1>7. AttemptEvents(closes) = {Closing(s) : s \in crashed}
  BY <1>4, <1>6 DEF AttemptEvents
<1>8. Solo(closes)
  BY <1>2, <1>4, <1>6 DEF Solo
<1> HIDE DEF closes
<1>9. /\ AttemptEvents(closes \o saves) = {Closing(s) : s \in crashed}
      /\ Solo(closes \o saves)
  BY <1>3, <1>5, <1>7, <1>8, PlainEvents, ConcatEvents
<1> QED BY <1>1, <1>9 DEF crashed

AbortClosing(s, est) == FinishEvent(s, Last(s), AbortedAttempt(s, est[s]))

\* An abort closes the attempt in flight of each step it aborts.
LEMMA AbortEvents ==
  ASSUME run \in SoundRun, executing \subseteq Steps,
         NEW est \in [Steps -> {0} \cup Prices], WithinSpend(Aborted(est))
  PROVE  /\ AttemptEvents(AbortWrites(est))
              = {AbortClosing(s, est) : s \in {t \in Aborting : InFlight(t)}}
         /\ Solo(AbortWrites(est))
<1> DEFINE c == Cardinality(Aborting)
           order == Ascending(Aborting)
           fin(s) == AbortClosing(s, est)
           closing(s) == IF InFlight(s) THEN <<fin(s)>> ELSE <<>>
           writes(s) == closing(s) \o <<StatusEvent(s, "aborted")>>
           closes == [k \in 1..c |-> writes(order[k])]
           Upto(i) == {fin(order[k]) : k \in {j \in 1..i : InFlight(order[j])}}
           Good == [i \in 0..c |-> {q \in Seq(SoundWrite) :
                                      Solo(q) /\ AttemptEvents(q) = Upto(i)}]
<1>0. Aborting \in SUBSET Steps
  BY DEF Aborting
<1>1. \A s \in Aborting : InFlight(s) =>
        fin(s) \in SoundWrite /\ IsAttempt(fin(s)) /\ fin(s).step = s
  <2> SUFFICES ASSUME NEW s \in Aborting, InFlight(s)
               PROVE  fin(s) \in SoundWrite /\ IsAttempt(fin(s)) /\ fin(s).step = s
    OBVIOUS
  <2>1. Last(s) \in Nums
    BY LastKnown DEF InFlight, HasOpen, Known, Last
  <2>2. fin(s) \in SoundWrite
    BY <1>0, <2>1, AbortedAttemptTyped, FinishWrite DEF AbortClosing, SoundWrite
  <2> QED BY <2>2 DEF AbortClosing, FinishEvent, IsAttempt
<1>2. \A s \in Aborting : <<StatusEvent(s, "aborted")>> \in Seq(PlainWrite)
  <2> TAKE s \in Aborting
  <2>1. StatusEvent(s, "aborted") \in PlainWrite
    BY <1>0 DEF StatusEvent, PlainWrite, SoundWrite, WriteOf, IsAttempt, StepStatus
  <2> QED BY <2>1
<1>3. \A s \in Aborting :
        /\ writes(s) \in Seq(SoundWrite) /\ Solo(writes(s))
        /\ AttemptEvents(writes(s)) = IF InFlight(s) THEN {fin(s)} ELSE {}
  <2> TAKE s \in Aborting
  <2> HIDE DEF fin
  <2>1. CASE InFlight(s)
    <3>1. closing(s) = <<fin(s)>> /\ <<fin(s)>> \in Seq(SoundWrite)
      BY <1>1, <2>1
    <3>2. writes(s) \in Seq(SoundWrite)
      BY <1>2, <3>1, PlainEvents, ConcatEvents
    <3> QED BY <1>1, <1>2, <2>1, <3>1, <3>2, OneEvent
  <2>2. CASE ~InFlight(s)
    <3>1. closing(s) = <<>> /\ <<>> \in Seq(PlainWrite)
      BY <2>2, EmptySeq
    <3>2. writes(s) \in Seq(PlainWrite)
      BY <1>2, <3>1, ConcatProperties
    <3> QED BY <2>2, <3>2, PlainEvents
  <2> QED BY <2>1, <2>2
<1>4. /\ c \in Nat /\ order \in [1..c -> Aborting]
      /\ \A j, k \in 1..c : order[j] = order[k] => j = k
      /\ \A s \in Aborting : \E k \in 1..c : order[k] = s
  BY <1>0, AscendingOnto
<1>5. AbortWrites(est) = Seqs!FlattenSeq(closes) \o Saved(Aborted(est))
  BY DEF AbortWrites, AbortClosing
<1> HIDE DEF c, order, writes, fin
<1>6. /\ closes \in Seq(Seq(SoundWrite)) /\ Len(closes) = c
      /\ \A i \in 1..c : closes[i] = writes(order[i])
  BY <1>3, <1>4
<1>7. <<>> \in Good[0]
  <2>1. Upto(0) = {} /\ 0 \in 0..c
    BY <1>4
  <2> HIDE DEF Upto
  <2> QED BY <2>1, EmptyEvents, EmptySeq
<1>8. \A i \in 1..Len(closes), q \in Seq(SoundWrite) :
        q \in Good[i - 1] => q \o closes[i] \in Good[i]
  <2> SUFFICES ASSUME NEW i \in 1..c, NEW q \in Seq(SoundWrite), q \in Good[i - 1]
               PROVE  q \o closes[i] \in Good[i]
    BY <1>6
  <2> DEFINE w == writes(order[i])
  <2>0. i - 1 \in 0..c /\ i \in 0..c /\ order[i] \in Aborting
    BY <1>4
  <2>1. Solo(q) /\ AttemptEvents(q) = Upto(i - 1)
    BY <2>0
  <2>2. /\ w \in Seq(SoundWrite) /\ Solo(w)
        /\ AttemptEvents(w) = IF InFlight(order[i]) THEN {fin(order[i])} ELSE {}
    BY <1>3, <2>0
  <2> HIDE DEF w
  <2>3. \A e \in AttemptEvents(q), f \in AttemptEvents(w) : e.step # f.step
    <3> SUFFICES ASSUME NEW k \in 1..(i - 1), InFlight(order[k]), InFlight(order[i])
                 PROVE  fin(order[k]).step # fin(order[i]).step
      BY <2>1, <2>2
    <3>1. k \in 1..c /\ k # i /\ order[k] \in Aborting
      BY <1>4
    <3> QED BY <1>1, <1>4, <2>0, <3>1
  <2>4. AttemptEvents(q) \cup AttemptEvents(w) = Upto(i)
    <3>1. 1..i = 1..(i - 1) \cup {i}
      BY <1>4
    <3> QED BY <2>1, <2>2, <3>1
  <2>5. q \o w \in Seq(SoundWrite) /\ Solo(q \o w) /\ AttemptEvents(q \o w) = Upto(i)
    BY <2>1, <2>2, <2>3, <2>4, ConcatEvents
  <2> HIDE DEF Upto
  <2> QED BY <1>6, <2>0, <2>5 DEF w
<1> DEFINE flat == Seqs!FlattenSeq(closes)
<1>9. flat \in Seq(SoundWrite) /\ flat \in Good[c]
  <2> HIDE DEF Good, closes
  <2> QED BY <1>6, <1>7, <1>8, FlattenInduction
<1>10. Solo(flat) /\ AttemptEvents(flat) = Upto(c)
  <2> HIDE DEF Upto, flat
  <2> QED BY <1>4, <1>9
<1>11. Upto(c) = {fin(s) : s \in {t \in Aborting : InFlight(t)}}
  BY <1>4
<1>12. Saved(Aborted(est)) \in Seq(PlainWrite)
  BY AbortedSound, SavedPlain
<1> HIDE DEF flat, Upto
<1>13. /\ AttemptEvents(flat \o Saved(Aborted(est))) = Upto(c)
       /\ Solo(flat \o Saved(Aborted(est)))
  <2> HIDE DEF Good, closes
  <2> DEFINE tail == Saved(Aborted(est))
  <2>1. tail \in Seq(SoundWrite) /\ AttemptEvents(tail) = {} /\ Solo(tail)
    BY <1>12, PlainEvents
  <2>2. flat \in Seq(SoundWrite)
    BY <1>9
  <2> HIDE DEF tail
  <2>3. AttemptEvents(flat \o tail) = AttemptEvents(flat) \cup {} /\ Solo(flat \o tail)
    BY <1>10, <2>1, <2>2, ConcatEvents
  <2> QED BY <1>10, <2>3 DEF tail
<1> QED BY <1>5, <1>11, <1>13 DEF flat, fin

----------------------------------------------------------------------------
(* What the steps that are not quiet do to attempts and writes.            *)

Closed == {"done", "failed", "aborted"}

\* What is left alone by the steps of a pass, and by a signal.
AttemptFrame == UNCHANGED <<pc, admitted, inv, snap, jAtt, lost>>

\* An opened attempt has a number above the others, and is announced.
LEMMA OpenFacts ==
  ASSUME TypeInv, NEW s \in Steps, OpenAttempt(s)
  PROVE  LET n == NextNumber(s) IN
         /\ n \in Nums /\ n > Last(s)
         /\ \A t \in Steps, m \in Nums :
              att'[t][m] = IF t = s /\ m = n THEN OpenRecord ELSE att[t][m]
         /\ AttemptEvents(outbox') = {StartEvent(s, n)} /\ Solo(outbox')
         /\ pc = "pass" /\ outbox = <<>> /\ stage[s] = "started"
         /\ \A t \in Steps : stage'[t] = IF t = s THEN "opened" ELSE stage[t]
         /\ died' = died \ {s}
         /\ AttemptFrame /\ UNCHANGED <<budget, requested>>
<1> DEFINE n == NextNumber(s)
           r == [run EXCEPT !.step[s].last = n]
<1>1. /\ pc = "pass" /\ outbox = <<>> /\ stage[s] = "started" /\ n \in Nums
      /\ att' = [att EXCEPT ![s][n] = OpenRecord]
      /\ run' = r /\ outbox' = <<StartEvent(s, n)>> \o Saved(r)
      /\ stage' = [stage EXCEPT ![s] = "opened"]
      /\ died' = died \ {s} /\ UNCHANGED lost
      /\ PassFrame /\ UNCHANGED budget
  BY DEF OpenAttempt
<1>2. /\ run \in SoundRun /\ att \in [Steps -> [Nums -> Attempt]]
      /\ stage \in [Steps -> Stages]
  BY <1>1, PassStart
<1>3. n > Last(s)
  <2>1. run.step[s].last \in 0..MaxAttempts /\ MaxAttempts \in Nat
    BY <1>2, Assumptions DEF SoundRun, Run, Step
  <2>2. Last(s) \in Nat
    BY LastKnown, Assumptions DEF Last, LastNum, Nums
  <2> QED BY <2>1, <2>2 DEF NextNumber
<1> HIDE DEF n
<1>4. run' \in SoundRun
  BY <1>1, OpenAttemptTypes DEF TypeInv, RunsSound, PassFrame
<1>5. Saved(r) \in Seq(PlainWrite)
  BY <1>1, <1>4, SavedPlain
<1>6. StartEvent(s, n) \in SoundWrite /\ IsAttempt(StartEvent(s, n))
  BY <1>1, StartWrite DEF SoundWrite, IsAttempt, StartEvent
<1>7. AttemptEvents(outbox') = {StartEvent(s, n)} /\ Solo(outbox')
  BY <1>1, <1>5, <1>6, OneEvent
<1>8. \A t \in Steps, m \in Nums :
         att'[t][m] = IF t = s /\ m = n THEN OpenRecord ELSE att[t][m]
  BY <1>1, <1>2
<1>9. \A t \in Steps : stage'[t] = IF t = s THEN "opened" ELSE stage[t]
  BY <1>1, <1>2
<1>10. AttemptFrame /\ UNCHANGED <<budget, requested>>
  BY <1>1 DEF AttemptFrame, PassFrame, disk
<1> QED BY <1>1, <1>3, <1>7, <1>8, <1>9, <1>10 DEF n

\* A result that comes after the attempt was closed changes none.
LEMMA LateResult ==
  ASSUME TypeInv, NEW s \in Steps, SettleAttempt(s)
  PROVE  /\ pc = "pass" /\ outbox = <<>> /\ stage[s] = "spawned"
         /\ \A t \in Steps : stage'[t] = IF t = s THEN stage'[s] ELSE stage[t]
         /\ stage'[s] \in {"ended", "settled"}
         /\ AttemptFrame /\ UNCHANGED <<requested, died>>
         /\ ~StillOpen(s) => UNCHANGED <<att, budget, outbox>>
<1>1. stage \in [Steps -> Stages]
  BY DEF TypeInv, PassTyped
<1>2. /\ pc = "pass" /\ outbox = <<>> /\ stage[s] = "spawned"
      /\ stage' = [stage EXCEPT ![s] = IF Stopping THEN "ended" ELSE "settled"]
      /\ PassFrame /\ UNCHANGED history
      /\ ~StillOpen(s) => UNCHANGED <<att, budget, outbox>>
  BY DEF SettleAttempt, Busy
<1>3. AttemptFrame /\ UNCHANGED <<requested, died>>
  BY <1>2 DEF AttemptFrame, PassFrame, disk, history
<1> QED BY <1>1, <1>2, <1>3

\* A result closes the attempt it answers, and is charged.
LEMMA SettleFacts ==
  ASSUME TypeInv, NEW s \in Steps, SettleAttempt(s), StillOpen(s)
  PROVE  \E a \in Attempt :
           /\ a.status \in Closed /\ Last(s) \in Nums
           /\ \A t \in Steps, m \in Nums :
                att'[t][m] = IF t = s /\ m = Last(s) THEN a ELSE att[t][m]
           /\ AttemptEvents(outbox') = {FinishEvent(s, Last(s), a)} /\ Solo(outbox')
           /\ budget.unknown \/ ProvesUnpriced(a.fig) => budget'.unknown
<1> DEFINE n == Last(s)
           a(res) == [status |-> IF res.ok THEN "done" ELSE "failed", fig |-> res.fig,
                      interrupted |-> FALSE]
           r(res) == [run EXCEPT !.step[s].spend = Merge(@, res.fig),
                          !.exceeded = @ \/ res.cut = "budget",
                          !.unaccounted = @ \/ ProvesUnpriced(res.fig) \/ res.cut = "unpriced"]
<1>1. pc = "pass" /\ outbox = <<>> /\ stage[s] = "spawned"
  BY LateResult
<1>2. /\ run \in SoundRun /\ att \in [Steps -> [Nums -> Attempt]]
      /\ budget \in Budget /\ result \in [Steps -> Answer] /\ Numbered
  BY <1>1, PassStart
<1>3. n \in Nums
  <2>1. Known(att[s]) # {}
    BY <1>1, <1>2 DEF Numbered
  <2> QED BY <2>1, LastKnown DEF Last
<1>4. PICK res \in Results(s) :
        /\ Charged(budget, res).cum <= MaxSpend /\ WithinSpend(r(res))
        /\ att' = [att EXCEPT ![s][n] = a(res)]
        /\ budget' = Charged(budget, res) /\ run' = r(res)
        /\ outbox' = <<FinishEvent(s, n, a(res))>> \o GuardWrites(res) \o Saved(r(res))
  BY DEF SettleAttempt
<1>5. res.fig \in Figure /\ res \in Answer
  BY <1>2, <1>4, ChargedTyped
<1>6. a(res) \in Attempt /\ a(res).status \in Closed /\ a(res).fig = res.fig
  BY <1>5 DEF Attempt, Closed
<1>7. run' \in SoundRun
  BY ResultTypes
<1> HIDE DEF n, a, r
<1>8. GuardWrites(res) \o Saved(r(res)) \in Seq(PlainWrite)
  <2>1. GuardWrites(res) \in Seq(PlainWrite)
    BY <1>5, GuardPlain DEF Answer
  <2>2. Saved(r(res)) \in Seq(PlainWrite)
    BY <1>4, <1>7, SavedPlain
  <2> QED BY <2>1, <2>2, ConcatProperties
<1>9. FinishEvent(s, n, a(res)) \in SoundWrite /\ IsAttempt(FinishEvent(s, n, a(res)))
  BY <1>3, <1>6, FinishWrite DEF SoundWrite, IsAttempt, FinishEvent
<1>10. outbox' = <<FinishEvent(s, n, a(res))>> \o (GuardWrites(res) \o Saved(r(res)))
  <2>1. /\ <<FinishEvent(s, n, a(res))>> \in Seq(SoundWrite)
        /\ GuardWrites(res) \in Seq(SoundWrite) /\ Saved(r(res)) \in Seq(SoundWrite)
    BY <1>4, <1>5, <1>7, <1>9, GuardPlain, SavedPlain, PlainEvents DEF Answer
  <2> QED BY <1>4, <2>1, ConcatAssociative
<1>11. AttemptEvents(outbox') = {FinishEvent(s, n, a(res))} /\ Solo(outbox')
  BY <1>8, <1>9, <1>10, OneEvent
<1>12. \A t \in Steps, m \in Nums : att'[t][m] = IF t = s /\ m = n THEN a(res) ELSE att[t][m]
  BY <1>2, <1>3, <1>4
<1>13. budget.unknown \/ ProvesUnpriced(a(res).fig) => budget'.unknown
  BY <1>2, <1>4, <1>6 DEF Charged, Budget
<1> QED BY <1>3, <1>6, <1>11, <1>12, <1>13 DEF n

\* What the runner charges of its own is no evidence of unpriced spending.
LEMMA LiveProvesNothing ==
  \A s, e : ~ProvesUnpriced(LiveFigure(s, e)) /\ ~ProvesUnpriced(CrashFigure(s))
<1> TAKE s, e
<1>1. ~ProvesUnpriced(CrashFigure(s))
  BY DEF ProvesUnpriced, CrashFigure, NoFigure, Silent
<1>2. ~[NoFigure EXCEPT !.cost = e].unknown
  BY DEF NoFigure
<1> QED BY <1>1, <1>2 DEF LiveFigure, ProvesUnpriced

\* A signal closes the attempts in flight of the steps it aborts, if any.
LEMMA SignalFacts ==
  ASSUME TypeInv, Signal
  PROVE  \E C \in SUBSET {t \in Steps : InFlight(t)}, x \in [Steps -> Attempt] :
           /\ \A t \in C : /\ x[t].status \in Closed /\ ~x[t].interrupted
                           /\ ~ProvesUnpriced(x[t].fig) /\ Last(t) \in Nums
           /\ \A t \in Steps, m \in Nums :
                att'[t][m] = IF t \in C /\ m = Last(t) THEN x[t] ELSE att[t][m]
           /\ AttemptEvents(outbox') = {FinishEvent(t, Last(t), x[t]) : t \in C}
           /\ Solo(outbox')
<1>1. /\ pc # "off" /\ outbox = <<>>
      /\ run \in SoundRun /\ executing \subseteq Steps
      /\ att \in [Steps -> [Nums -> Attempt]]
  BY DEF Signal, Busy, TypeInv, RunsSound, ControlTyped, AttemptsTyped
<1>2. CASE UNCHANGED <<att, outbox>>
  <2> DEFINE x == [t \in Steps |-> NoAttempt]
  <2>1. x \in [Steps -> Attempt] /\ {} \in SUBSET {t \in Steps : InFlight(t)}
    BY AttemptTypes
  <2>2. AttemptEvents(outbox') = {} /\ Solo(outbox')
    BY <1>1, <1>2, EmptyEvents
  <2>3. {FinishEvent(t, Last(t), x[t]) : t \in {}} = {}
    OBVIOUS
  <2> HIDE DEF x
  <2> QED BY <1>2, <2>1, <2>2, <2>3
<1>3. CASE ~UNCHANGED <<att, outbox>>
  <2>1. PICK est \in [Steps -> {0} \cup Prices] :
            /\ WithinSpend(Aborted(est))
            /\ att' = [t \in Steps |->
                 IF t \in Aborting /\ InFlight(t)
                 THEN [att[t] EXCEPT ![Last(t)] = AbortedAttempt(t, est[t])]
                 ELSE att[t]]
            /\ outbox' = AbortWrites(est)
    BY <1>3 DEF Signal
  <2> DEFINE C == {t \in Aborting : InFlight(t)}
             x == [t \in Steps |-> IF t \in C THEN AbortedAttempt(t, est[t]) ELSE NoAttempt]
  <2>2. C \in SUBSET {t \in Steps : InFlight(t)}
    BY <1>1 DEF Aborting
  <2>3. \A t \in C : x[t] = AbortedAttempt(t, est[t]) /\ x[t] \in Attempt /\ Last(t) \in Nums
    <3> TAKE t \in C
    <3>1. Last(t) \in Nums
      BY LastKnown DEF InFlight, HasOpen, Known, Last
    <3> QED BY <1>1, <2>1, <2>2, <3>1, AbortedAttemptTyped
  <2>4. x \in [Steps -> Attempt]
    BY <2>3, AttemptTypes
  <2>5. \A t \in C : x[t].status \in Closed /\ ~x[t].interrupted /\ ~ProvesUnpriced(x[t].fig)
    <3> TAKE t \in C
    <3> DEFINE a == AbortedAttempt(t, est[t])
    <3>1. a.status = "aborted" /\ a.interrupted = FALSE /\ a.fig = LiveFigure(t, est[t])
      BY DEF AbortedAttempt
    <3>2. x[t] = a
      BY <2>3
    <3> HIDE DEF a, x, C
    <3> QED BY <3>1, <3>2, LiveProvesNothing DEF Closed
  <2>6. \A t \in Steps, m \in Nums :
           att'[t][m] = IF t \in C /\ m = Last(t) THEN x[t] ELSE att[t][m]
    <3> TAKE t \in Steps, m \in Nums
    <3>1. CASE t \in C
      <4>1. att'[t] = [att[t] EXCEPT ![Last(t)] = x[t]]
        BY <2>1, <2>3, <3>1
      <4> QED BY <1>1, <3>1, <4>1
    <3>2. CASE t \notin C
      BY <2>1, <3>2
    <3> QED BY <3>1, <3>2
  <2>7. Solo(outbox') /\ AttemptEvents(outbox') = {AbortClosing(t, est) : t \in C}
    BY <1>1, <2>1, AbortEvents
  <2>8. \A t \in C : AbortClosing(t, est) = FinishEvent(t, Last(t), x[t])
    BY <2>3 DEF AbortClosing
  <2> HIDE DEF C, x
  <2>9. AttemptEvents(outbox') = {FinishEvent(t, Last(t), x[t]) : t \in C}
    BY <2>7, <2>8
  <2> WITNESS C \in SUBSET {t \in Steps : InFlight(t)}, x \in [Steps -> Attempt]
  <2> QED BY <2>3, <2>5, <2>6, <2>7, <2>9
<1> QED BY <1>2, <1>3

\* A resume takes the attempts of the journal, the open ones closed as crashed.
LEMMA ResumeFacts ==
  ASSUME TypeInv, NEW i \in Invocations, Resume(i)
  PROVE  /\ pc = "off" /\ pc' = "booted" /\ stage' = Idle /\ snap # NoRun
         /\ \A s \in Steps, n \in Nums :
              att'[s][n] = IF jAtt[s][n].status = "running" THEN Crashed(s) ELSE jAtt[s][n]
         /\ AttemptEvents(outbox') = {Closing(s) : s \in {t \in Steps : HasOpen(jAtt[t])}}
         /\ Solo(outbox')
         /\ UNCHANGED <<budget, admitted, requested, snap, jAtt, lost, died>>
<1>1. /\ pc = "off" /\ pc' = "booted" /\ snap # NoRun
      /\ att' = [s \in Steps |-> SettledAttempts(s, jAtt[s])]
      /\ outbox' = RestoreWrites(snap, jAtt, run', i)
      /\ UNCHANGED <<budget, stage, admitted, requested, snap, jAtt, lost, died>>
  BY DEF Resume
<1>2. run' \in SoundRun
  BY <1>1, ResumeTypes DEF TypeInv, RunsSound
<1>3. stage' = Idle /\ jAtt \in [Steps -> [Nums -> Attempt]]
  BY <1>1 DEF TypeInv, PassTyped, AttemptsTyped
<1>4. \A s \in Steps, n \in Nums :
         att'[s][n] = IF jAtt[s][n].status = "running" THEN Crashed(s) ELSE jAtt[s][n]
  BY <1>1 DEF SettledAttempts
<1> QED BY <1>1, <1>2, <1>3, <1>4, RestoreEvents

----------------------------------------------------------------------------
(* What an absent process, and a run not yet on disk, leave empty.         *)

Blank == pc = "off" => att = NoAttempts /\ outbox = <<>> /\ admitted = {}
Newborn ==
  snap = NoRun => /\ jAtt = NoAttempts
                  /\ pc = "off" \/ (pc = "booted" /\ \E r : outbox = <<SaveEntry(r)>>)
EmptyInv == Blank /\ Newborn

\* A write that reaches the disk, or is lost, and the writes that follow it.
LEMMA WriteFacts ==
  ASSUME TypeInv, EmptyInv, Flush \/ LoseEvent
  PROVE  LET e == Head(outbox) IN
         /\ outbox # <<>> /\ pc # "off" /\ outbox' = Tail(outbox)
         /\ e \in SoundWrite /\ outbox \in Seq(SoundWrite)
         /\ UNCHANGED <<memory, died>>
         /\ LoseEvent => e.kind # "save" /\ lost' = lost + 1 /\ lost' # 0 /\ UNCHANGED <<jAtt, snap>>
         /\ Flush => /\ UNCHANGED lost /\ snap' = IF e.kind = "save" THEN e.run ELSE snap
                     /\ ~IsAttempt(e) => UNCHANGED jAtt
                     /\ IsAttempt(e) =>
                          /\ e.step \in Steps /\ e.n \in Nums
                          /\ \A s \in Steps, n \in Nums :
                               jAtt'[s][n] = IF s = e.step /\ n = e.n
                                             THEN IF e.kind = "start" THEN OpenRecord ELSE e.attempt
                                             ELSE jAtt[s][n]
<1> DEFINE e == Head(outbox)
<1>1. /\ outbox \in Seq(SoundWrite) /\ lost \in Nat
      /\ jAtt \in [Steps -> [Nums -> Attempt]]
  BY DEF TypeInv, WritesSound, DiskTyped, AttemptsTyped
<1>2. outbox # <<>> /\ outbox' = Tail(outbox) /\ UNCHANGED <<memory, died>>
  BY DEF Flush, LoseEvent
<1>3. pc # "off"
  BY <1>2 DEF EmptyInv, Blank
<1>4. e \in SoundWrite
  BY <1>1, <1>2
<1>5. LoseEvent => e.kind # "save" /\ lost' = lost + 1 /\ lost' # 0 /\ UNCHANGED <<jAtt, snap>>
  BY <1>1 DEF LoseEvent, disk
<1>6. Flush => /\ UNCHANGED lost /\ snap' = IF e.kind = "save" THEN e.run ELSE snap
               /\ ~IsAttempt(e) => UNCHANGED jAtt
  BY DEF Flush, IsAttempt
<1>7. ASSUME Flush, IsAttempt(e)
      PROVE  /\ e.step \in Steps /\ e.n \in Nums
             /\ \A s \in Steps, n \in Nums :
                  jAtt'[s][n] = IF s = e.step /\ n = e.n
                                THEN IF e.kind = "start" THEN OpenRecord ELSE e.attempt
                                ELSE jAtt[s][n]
  <2>1. e.step \in Steps /\ e.n \in Nums
    BY <1>4, <1>7 DEF SoundWrite, WriteOf, IsAttempt
  <2>2. jAtt' = CASE e.kind = "start"  -> [jAtt EXCEPT ![e.step][e.n] = OpenRecord]
                  [] e.kind = "finish" -> [jAtt EXCEPT ![e.step][e.n] = e.attempt]
                  [] OTHER -> jAtt
    BY <1>7 DEF Flush
  <2> HIDE DEF e
  <2>3. CASE e.kind = "start"
    BY <1>1, <2>1, <2>2, <2>3
  <2>4. CASE e.kind = "finish"
    BY <1>1, <2>1, <2>2, <2>4
  <2> QED BY <1>7, <2>1, <2>3, <2>4 DEF IsAttempt
<1> HIDE DEF e
<1> QED BY <1>1, <1>2, <1>3, <1>4, <1>5, <1>6, <1>7 DEF e

\* Nothing is there before the first process.
LEMMA InitEmpty == Init => EmptyInv
BY DEF Init, EmptyInv, Blank, Newborn

\* The invariant is inductive.
LEMMA NextEmpty == TypeInv /\ EmptyInv /\ [Next]_vars => EmptyInv'
<1> SUFFICES ASSUME TypeInv, EmptyInv, [Next]_vars PROVE EmptyInv'
  OBVIOUS
<1> USE DEF EmptyInv
<1>0. \A r : <<SaveEntry(r)>> # <<>>
  OBVIOUS
<1>1. CASE Quiet
  BY <1>0, <1>1 DEF Quiet, Blank, Newborn
<1>2. ASSUME NEW s \in Steps, OpenAttempt(s) \/ SettleAttempt(s) PROVE EmptyInv'
  <2>1. /\ pc = "pass" /\ outbox = <<>> /\ UNCHANGED <<pc, snap, jAtt>>
    BY <1>2, OpenFacts, LateResult DEF AttemptFrame
  <2> QED BY <2>1 DEF Blank, Newborn
<1>3. ASSUME NEW i \in Invocations, Create(i) PROVE EmptyInv'
  <2>1. /\ pc = "off" /\ pc' = "booted" /\ snap = NoRun /\ UNCHANGED <<snap, jAtt>>
        /\ outbox' = Saved(run') /\ run'.aborted = FALSE
    BY <1>3 DEF Create, disk
  <2>2. outbox' = <<SaveEntry(run')>>
    BY <2>1 DEF Saved
  <2> QED BY <2>1, <2>2 DEF Blank, Newborn
<1>4. ASSUME NEW i \in Invocations, Resume(i) PROVE EmptyInv'
  BY <1>4 DEF Resume, Blank, Newborn
<1>5. CASE Signal
  BY <1>0, <1>5 DEF Signal, Busy, disk, Blank, Newborn
<1>6. CASE Flush \/ LoseEvent
  <2> DEFINE e == Head(outbox)
  <2>1. /\ pc # "off" /\ pc' = pc
        /\ LoseEvent => e.kind # "save" /\ UNCHANGED <<jAtt, snap>>
        /\ Flush => /\ snap' = IF e.kind = "save" THEN e.run ELSE snap
                    /\ ~IsAttempt(e) => UNCHANGED jAtt
        /\ e \in SoundWrite
    BY <1>6, WriteFacts DEF memory
  <2>2. snap = NoRun => e.kind = "save"
    BY <2>1 DEF Newborn, SaveEntry
  <2>3. e.kind = "save" => e.run # NoRun
    BY <2>1, SoundIsRun DEF SoundWrite, WriteOf
  <2>4. snap' # NoRun
    BY <1>6, <2>1, <2>2, <2>3
  <2> QED BY <2>1, <2>4 DEF Blank, Newborn
<1>7. CASE Exit \/ Crash
  BY <1>7 DEF Exit, Crash, Gone, disk, Blank, Newborn
<1>8. CASE UNCHANGED vars
  BY <1>8 DEF vars, memory, disk, Blank, Newborn
<1> QED BY <1>1, <1>2, <1>3, <1>4, <1>5, <1>6, <1>7, <1>8, StepKinds

----------------------------------------------------------------------------
(* The journal mirrors the memory, once what is to be written is written.  *)

\* An attempt that runs is the last of its step.
RunningLast(a) ==
  \A s \in Steps, n, m \in Nums :
    a[s][n].status = "running" /\ a[s][m].status # "none" => m <= n

Announced(s, n) == \E e \in AttemptEvents(outbox) : e.step = s /\ e.n = n

\* An event to be written says what memory holds; a finish closes an attempt
\* the journal holds open.
EventTrue(e) ==
  /\ e.kind = "start" => att[e.step][e.n] = OpenRecord /\ stage[e.step] = "opened"
  /\ e.kind = "finish" => /\ att[e.step][e.n] = e.attempt /\ e.attempt.status \in Closed
                          /\ jAtt[e.step][e.n].status = "running"

Mirror ==
  /\ RunningLast(jAtt) /\ RunningLast(att)
  /\ \A s \in Steps, n \in Nums : att[s][n].status = "running" => stage[s] \in InAttempt
  /\ Solo(outbox)
  /\ \A e \in AttemptEvents(outbox) : EventTrue(e)
  /\ pc # "off" => \A s \in Steps, n \in Nums : att[s][n] = jAtt[s][n] \/ Announced(s, n)

MirrorInv == lost = 0 => Mirror

\* The records of a crash, of an opening and of no attempt, as statuses.
LEMMA RecordStatus ==
  /\ OpenRecord.status = "running" /\ NoAttempt.status = "none"
  /\ \A s : Crashed(s).status = "failed" /\ Crashed(s).interrupted
  /\ ~OpenRecord.interrupted
  /\ \A s \in Steps, n \in Nums : NoAttempts[s][n] = NoAttempt
BY DEF OpenRecord, NoAttempt, Crashed, NoAttempts

\* The attempt that runs is the one the code calls the last.
LEMMA RunningIsLast ==
  ASSUME NEW a \in [Steps -> [Nums -> Attempt]], RunningLast(a), NEW s \in Steps, NEW n \in Nums,
         a[s][n].status = "running"
  PROVE  /\ n = LastNum(a[s])
         /\ \A m \in Nums : a[s][m].status = "running" => m = n
<1>1. n \in Known(a[s])
  BY DEF Known
<1>2. LastNum(a[s]) \in Known(a[s]) /\ n <= LastNum(a[s])
  BY <1>1, LastKnown
<1>3. LastNum(a[s]) <= n /\ LastNum(a[s]) \in Nums
  BY <1>2 DEF RunningLast, Known
<1>4. \A m \in Nums : m \in Int
  BY DEF Nums
<1>5. \A m \in Nums : a[s][m].status = "running" => m <= n /\ n <= m
  BY DEF RunningLast
<1> QED BY <1>2, <1>3, <1>4, <1>5

\* Before any process the journal is empty.
LEMMA InitMirror == Init => MirrorInv
<1> SUFFICES ASSUME Init PROVE Mirror
  BY DEF MirrorInv
<1>1. \A s \in Steps, n \in Nums : att[s][n].status = "none" /\ jAtt[s][n].status = "none"
  BY RecordStatus DEF Init
<1>2. outbox = <<>> /\ pc = "off"
  BY DEF Init
<1> QED BY <1>1, <1>2, EmptyEvents DEF Mirror, RunningLast

\* A process that opens an attempt has it, as the journal soon will.
LEMMA OpenMirror ==
  ASSUME TypeInv, Mirror, NEW s \in Steps, OpenAttempt(s)
  PROVE  Mirror'
<1> DEFINE n == NextNumber(s)
<1>1. /\ n \in Nums /\ n > Last(s)
      /\ \A t \in Steps, m \in Nums :
           att'[t][m] = IF t = s /\ m = n THEN OpenRecord ELSE att[t][m]
      /\ AttemptEvents(outbox') = {StartEvent(s, n)} /\ Solo(outbox')
      /\ pc = "pass" /\ outbox = <<>> /\ stage[s] = "started" /\ UNCHANGED <<pc, jAtt>>
      /\ \A t \in Steps : stage'[t] = IF t = s THEN "opened" ELSE stage[t]
  BY OpenFacts DEF AttemptFrame
<1> HIDE DEF n
<1>2. /\ \A t \in Steps, m \in Nums : att[t][m] = jAtt[t][m]
      /\ \A m \in Nums : att[s][m].status # "running"
  BY <1>1, EmptyEvents DEF Mirror, Announced, InAttempt
<1>3. \A m \in Nums : att[s][m].status # "none" => m <= Last(s)
  BY LastKnown DEF Known, Last
<1>4. Last(s) \in Nat /\ \A m \in Nums : m \in Nat
  BY LastKnown, Assumptions DEF Last, LastNum, Nums
<1>5. RunningLast(att)'
  <2> SUFFICES ASSUME NEW t \in Steps, NEW k \in Nums, NEW m \in Nums,
                      att'[t][k].status = "running", att'[t][m].status # "none"
               PROVE  m <= k
    BY DEF RunningLast
  <2>1. CASE t = s
    <3>1. k = n
      BY <1>1, <1>2, <2>1
    <3>2. m = n \/ m <= Last(s)
      BY <1>1, <1>3, <2>1
    <3> QED BY <1>1, <1>4, <3>1, <3>2
  <2>2. CASE t # s
    BY <1>1, <2>2 DEF Mirror, RunningLast
  <2> QED BY <2>1, <2>2
<1>6. RunningLast(jAtt)'
  BY <1>1 DEF Mirror, RunningLast
<1>7. \A t \in Steps, m \in Nums : att'[t][m].status = "running" => stage'[t] \in InAttempt
  BY <1>1, <1>2 DEF Mirror, InAttempt
<1>8. \A e \in AttemptEvents(outbox') : EventTrue(e)'
  BY <1>1 DEF EventTrue, StartEvent
<1>9. \A t \in Steps, m \in Nums : att'[t][m] = jAtt'[t][m] \/ Announced(t, m)'
  BY <1>1, <1>2 DEF Announced, StartEvent
<1> QED BY <1>1, <1>5, <1>6, <1>7, <1>8, <1>9 DEF Mirror

\* A result closes an attempt the journal holds open.
LEMMA SettleMirror ==
  ASSUME TypeInv, Mirror, NEW s \in Steps, SettleAttempt(s)
  PROVE  Mirror'
<1>1. /\ pc = "pass" /\ outbox = <<>> /\ stage[s] = "spawned" /\ UNCHANGED <<pc, jAtt>>
      /\ \A t \in Steps : t # s => stage'[t] = stage[t]
      /\ ~StillOpen(s) => UNCHANGED <<att, outbox>>
  BY LateResult DEF AttemptFrame
<1>2. att \in [Steps -> [Nums -> Attempt]]
  BY DEF TypeInv, AttemptsTyped
<1>3. \A t \in Steps, m \in Nums : att[t][m] = jAtt[t][m]
  BY <1>1, EmptyEvents DEF Mirror, Announced
<1>4. \A m \in Nums : att[s][m].status = "running" => m = Last(s) /\ StillOpen(s)
  BY <1>2, RunningIsLast DEF Mirror, Last, StillOpen
<1>5. CASE ~StillOpen(s)
  <2>1. \A t \in Steps, m \in Nums : att'[t][m].status = "running" => stage'[t] \in InAttempt
    BY <1>1, <1>4, <1>5 DEF Mirror
  <2>2. RunningLast(jAtt)' /\ RunningLast(att)'
    BY <1>1, <1>5 DEF Mirror, RunningLast
  <2> QED BY <1>1, <1>3, <1>5, <2>1, <2>2, EmptyEvents DEF Mirror
<1>6. CASE StillOpen(s)
  <2>1. PICK a \in Attempt :
           /\ a.status \in Closed /\ Last(s) \in Nums
           /\ \A t \in Steps, m \in Nums :
                att'[t][m] = IF t = s /\ m = Last(s) THEN a ELSE att[t][m]
           /\ AttemptEvents(outbox') = {FinishEvent(s, Last(s), a)} /\ Solo(outbox')
    BY <1>6, SettleFacts
  <2>2. /\ a.status # "running" /\ a.status # "none"
        /\ att[s][Last(s)].status = "running"
    BY <1>6, <2>1 DEF Closed, StillOpen
  <2>3. \A t \in Steps, m \in Nums :
           /\ att'[t][m].status = "running" => att[t][m].status = "running" /\ t # s
           /\ att'[t][m].status # "none" => att[t][m].status # "none"
    BY <1>4, <2>1, <2>2
  <2>4. RunningLast(att)' /\ RunningLast(jAtt)'
    BY <1>1, <2>3 DEF Mirror, RunningLast
  <2>5. \A t \in Steps, m \in Nums : att'[t][m].status = "running" => stage'[t] \in InAttempt
    BY <1>1, <2>3 DEF Mirror
  <2>6. \A e \in AttemptEvents(outbox') : EventTrue(e)'
    BY <1>1, <1>3, <2>1, <2>2 DEF EventTrue, FinishEvent
  <2>7. \A t \in Steps, m \in Nums : att'[t][m] = jAtt'[t][m] \/ Announced(t, m)'
    BY <1>1, <1>3, <2>1 DEF Announced, FinishEvent
  <2> QED BY <2>1, <2>4, <2>5, <2>6, <2>7 DEF Mirror
<1> QED BY <1>5, <1>6

\* So does an abort.
LEMMA SignalMirror ==
  ASSUME TypeInv, Mirror, Signal
  PROVE  Mirror'
<1>1. pc # "off" /\ outbox = <<>> /\ UNCHANGED <<pc, jAtt, stage>>
  BY DEF Signal, Busy, disk
<1>2. att \in [Steps -> [Nums -> Attempt]]
  BY DEF TypeInv, AttemptsTyped
<1>3. \A t \in Steps, m \in Nums : att[t][m] = jAtt[t][m]
  BY <1>1, EmptyEvents DEF Mirror, Announced
<1>4. PICK C \in SUBSET {t \in Steps : InFlight(t)}, x \in [Steps -> Attempt] :
           /\ \A t \in C : x[t].status \in Closed /\ Last(t) \in Nums
           /\ \A t \in Steps, m \in Nums :
                att'[t][m] = IF t \in C /\ m = Last(t) THEN x[t] ELSE att[t][m]
           /\ AttemptEvents(outbox') = {FinishEvent(t, Last(t), x[t]) : t \in C}
           /\ Solo(outbox')
  BY SignalFacts
<1>5. \A t \in C : att[t][Last(t)].status = "running"
  BY <1>2, RunningIsLast DEF Mirror, Last, InFlight, HasOpen
<1>6. \A t \in Steps, m \in Nums :
           /\ att'[t][m].status = "running" => att[t][m].status = "running"
           /\ att'[t][m].status # "none" => att[t][m].status # "none"
  BY <1>4, <1>5 DEF Closed
<1>7. RunningLast(att)' /\ RunningLast(jAtt)'
  BY <1>1, <1>6 DEF Mirror, RunningLast
<1>8. \A t \in Steps, m \in Nums : att'[t][m].status = "running" => stage'[t] \in InAttempt
  BY <1>1, <1>6 DEF Mirror
<1>9. \A e \in AttemptEvents(outbox') : EventTrue(e)'
  <2> SUFFICES ASSUME NEW t \in C, NEW e, e = FinishEvent(t, Last(t), x[t])
               PROVE  EventTrue(e)'
    BY <1>4
  <2>1. e.kind = "finish" /\ e.step = t /\ e.n = Last(t) /\ e.attempt = x[t]
    BY DEF FinishEvent
  <2>2. att'[t][Last(t)] = x[t] /\ x[t].status \in Closed
        /\ jAtt'[t][Last(t)].status = "running"
    BY <1>1, <1>3, <1>4, <1>5
  <2> QED BY <2>1, <2>2 DEF EventTrue
<1>10. \A t \in Steps, m \in Nums : att'[t][m] = jAtt'[t][m] \/ Announced(t, m)'
  <2> TAKE t \in Steps, m \in Nums
  <2>1. CASE t \in C /\ m = Last(t)
    <3> DEFINE e == FinishEvent(t, Last(t), x[t])
    <3>1. e \in AttemptEvents(outbox')
      BY <1>4, <2>1
    <3>2. e.step = t /\ e.n = m
      BY <2>1 DEF FinishEvent
    <3> HIDE DEF e
    <3> QED BY <3>1, <3>2 DEF Announced
  <2>2. CASE ~(t \in C /\ m = Last(t))
    BY <1>1, <1>3, <1>4, <2>2
  <2> QED BY <2>1, <2>2
<1>11. Solo(outbox')
  BY <1>4
<1> QED BY <1>7, <1>8, <1>9, <1>10, <1>11 DEF Mirror

\* A resume announces the closure of what a crash left open.
LEMMA ResumeMirror ==
  ASSUME TypeInv, Mirror, NEW i \in Invocations, Resume(i)
  PROVE  Mirror'
<1>1. /\ UNCHANGED jAtt
      /\ \A s \in Steps, n \in Nums :
              att'[s][n] = IF jAtt[s][n].status = "running" THEN Crashed(s) ELSE jAtt[s][n]
      /\ AttemptEvents(outbox') = {Closing(s) : s \in {t \in Steps : HasOpen(jAtt[t])}}
      /\ Solo(outbox')
  BY ResumeFacts
<1>2. jAtt \in [Steps -> [Nums -> Attempt]]
  BY DEF TypeInv, AttemptsTyped
<1>3. \A s \in Steps, n \in Nums : att'[s][n].status # "running"
  BY <1>1, RecordStatus
<1>4. \A s \in Steps, n \in Nums : jAtt[s][n].status = "running" =>
         HasOpen(jAtt[s]) /\ n = OpenNum(jAtt[s])
  <2> TAKE s \in Steps, n \in Nums
  <2> HAVE jAtt[s][n].status = "running"
  <2>1. OpenNum(jAtt[s]) \in Nums /\ jAtt[s][OpenNum(jAtt[s])].status = "running"
    BY DEF OpenNum
  <2> QED BY <1>2, <2>1, RunningIsLast DEF Mirror, HasOpen
<1>5. \A e \in AttemptEvents(outbox') : EventTrue(e)'
  <2> SUFFICES ASSUME NEW s \in Steps, HasOpen(jAtt[s]), NEW e, e = Closing(s)
               PROVE  EventTrue(e)'
    BY <1>1
  <2> DEFINE n == OpenNum(jAtt[s])
  <2>1. e.kind = "finish" /\ e.step = s /\ e.n = n /\ e.attempt = Crashed(s)
    BY DEF Closing, FinishEvent
  <2>2. n \in Nums /\ jAtt[s][n].status = "running"
    BY DEF OpenNum, HasOpen
  <2>3. att'[s][n] = Crashed(s) /\ Crashed(s).status \in Closed /\ jAtt' = jAtt
    BY <1>1, <2>2, RecordStatus DEF Closed
  <2> HIDE DEF n
  <2>4. att'[e.step][e.n] = e.attempt /\ e.attempt.status \in Closed
        /\ jAtt'[e.step][e.n].status = "running"
    BY <2>1, <2>2, <2>3
  <2> QED BY <2>1, <2>4 DEF EventTrue
<1>6. \A s \in Steps, n \in Nums : att'[s][n] = jAtt'[s][n] \/ Announced(s, n)'
  <2> TAKE s \in Steps, n \in Nums
  <2>1. CASE jAtt[s][n].status = "running"
    <3>1. Closing(s) \in AttemptEvents(outbox') /\ Closing(s).step = s /\ Closing(s).n = n
      BY <1>1, <1>4, <2>1 DEF Closing, FinishEvent
    <3> QED BY <3>1 DEF Announced
  <2>2. CASE jAtt[s][n].status # "running"
    BY <1>1, <2>2
  <2> QED BY <2>1, <2>2
<1>7. RunningLast(jAtt)' /\ RunningLast(att)'
  BY <1>1, <1>3 DEF Mirror, RunningLast
<1> QED BY <1>1, <1>3, <1>5, <1>6, <1>7 DEF Mirror

\* A write that reaches the disk makes the journal say what memory holds.
LEMMA FlushMirror ==
  ASSUME TypeInv, EmptyInv, Mirror, Flush
  PROVE  Mirror'
<1> DEFINE e == Head(outbox)
<1>1. /\ outbox # <<>> /\ pc # "off" /\ outbox' = Tail(outbox)
      /\ e \in SoundWrite /\ outbox \in Seq(SoundWrite) /\ UNCHANGED <<pc, att, stage>>
      /\ ~IsAttempt(e) => UNCHANGED jAtt
      /\ IsAttempt(e) =>
           /\ e.step \in Steps /\ e.n \in Nums
           /\ \A s \in Steps, n \in Nums :
                jAtt'[s][n] = IF s = e.step /\ n = e.n
                              THEN IF e.kind = "start" THEN OpenRecord ELSE e.attempt
                              ELSE jAtt[s][n]
  BY WriteFacts DEF memory
<1>2. /\ AttemptEvents(outbox') \subseteq AttemptEvents(outbox)
      /\ \A f \in AttemptEvents(outbox) : f = e \/ f \in AttemptEvents(outbox')
      /\ IsAttempt(e) => e \in AttemptEvents(outbox)
      /\ Solo(outbox')
      /\ IsAttempt(e) => \A f \in AttemptEvents(outbox') : f.step # e.step
  BY <1>1, TailEvents DEF Mirror
<1> HIDE DEF e
<1>3. CASE ~IsAttempt(e)
  <2>1. \A f \in AttemptEvents(outbox) : f = e \/ f \in AttemptEvents(outbox')
    BY <1>2
  <2>2. \A f \in AttemptEvents(outbox) : IsAttempt(f)
    BY DEF AttemptEvents, AttemptsAt
  <2>3. AttemptEvents(outbox') = AttemptEvents(outbox)
    BY <1>2, <1>3, <2>2
  <2>4. \A f \in AttemptEvents(outbox') : EventTrue(f)'
    BY <1>1, <1>3, <2>3 DEF Mirror, EventTrue
  <2>5. \A s \in Steps, n \in Nums : att'[s][n] = jAtt'[s][n] \/ Announced(s, n)'
    BY <1>1, <1>3, <2>3 DEF Mirror, Announced
  <2>6. RunningLast(jAtt)' /\ RunningLast(att)'
    BY <1>1, <1>3 DEF Mirror, RunningLast
  <2> QED BY <1>1, <1>2, <2>4, <2>5, <2>6 DEF Mirror
<1>4. CASE IsAttempt(e)
  <2>1. /\ e \in AttemptEvents(outbox) /\ EventTrue(e) /\ e.step \in Steps /\ e.n \in Nums
        /\ e.kind = "start" \/ e.kind = "finish"
        /\ \A f \in AttemptEvents(outbox') : f.step # e.step
    BY <1>1, <1>2, <1>4 DEF Mirror, IsAttempt
  <2> DEFINE x == att[e.step][e.n]
  <2>2. \A s \in Steps, n \in Nums :
           jAtt'[s][n] = IF s = e.step /\ n = e.n THEN x ELSE jAtt[s][n]
    BY <1>1, <1>4, <2>1 DEF EventTrue
  <2>3. x.status = "running" \/ (x.status \in Closed /\ jAtt[e.step][e.n].status = "running")
    BY <2>1, RecordStatus DEF EventTrue
  <2> HIDE DEF x
  <2>4. \A n \in Nums : n # e.n => att[e.step][n] = jAtt[e.step][n]
    <3> TAKE n \in Nums
    <3> HAVE n # e.n
    <3>1. ~Announced(e.step, n)
      BY <1>2, <2>1 DEF Announced
    <3> QED BY <1>1, <2>1, <3>1 DEF Mirror
  <2>5. \A s \in Steps, n \in Nums : att'[s][n] = jAtt'[s][n] \/ Announced(s, n)'
    <3> TAKE s \in Steps, n \in Nums
    <3>1. CASE s = e.step
      <4>1. CASE n = e.n
        BY <1>1, <2>2, <3>1, <4>1 DEF x
      <4>2. CASE n # e.n
        BY <1>1, <2>2, <2>4, <3>1, <4>2
      <4> QED BY <4>1, <4>2
    <3>2. CASE s # e.step
      <4>1. Announced(s, n) => Announced(s, n)'
        BY <1>2, <3>2 DEF Announced
      <4>2. jAtt'[s][n] = jAtt[s][n] /\ att' = att
        BY <1>1, <2>2, <3>2
      <4> QED BY <1>1, <4>1, <4>2 DEF Mirror
    <3> QED BY <3>1, <3>2
  <2>6. \A f \in AttemptEvents(outbox') : EventTrue(f)'
    <3> TAKE f \in AttemptEvents(outbox')
    <3>1. EventTrue(f) /\ f.step # e.step /\ f \in AttemptEvents(outbox)
      BY <1>2, <2>1 DEF Mirror
    <3>2. f.step \in Steps /\ f.n \in Nums
      <4>1. f \in SoundWrite /\ IsAttempt(f)
        BY <1>1, <3>1, ElementOfSeq DEF AttemptEvents, AttemptsAt
      <4> QED BY <4>1 DEF SoundWrite, WriteOf, IsAttempt
    <3>3. jAtt'[f.step][f.n] = jAtt[f.step][f.n]
      BY <2>2, <3>1, <3>2
    <3> QED BY <1>1, <3>1, <3>3 DEF EventTrue
  <2>7. RunningLast(jAtt)'
    <3> SUFFICES ASSUME NEW s \in Steps, NEW n \in Nums, NEW m \in Nums,
                        jAtt'[s][n].status = "running", jAtt'[s][m].status # "none"
                 PROVE  m <= n
      BY DEF RunningLast
    <3>1. CASE s # e.step
      BY <2>2, <3>1 DEF Mirror, RunningLast
    <3>2. CASE s = e.step
      <4>1. CASE x.status = "running"
        <5>1. att[s][n].status = "running" /\ att[s][m].status # "none"
          BY <2>2, <2>4, <3>2, <4>1 DEF x
        <5> QED BY <5>1 DEF Mirror, RunningLast
      <4>2. CASE x.status # "running"
        <5>1. n # e.n /\ jAtt[s][n].status = "running" /\ jAtt[s][e.n].status = "running"
          BY <2>2, <2>3, <3>2, <4>2
        <5>2. jAtt \in [Steps -> [Nums -> Attempt]]
          BY DEF TypeInv, AttemptsTyped
        <5> QED BY <2>1, <5>1, <5>2, RunningIsLast DEF Mirror
      <4> QED BY <4>1, <4>2
    <3> QED BY <3>1, <3>2
  <2>8. RunningLast(att)'
    BY <1>1 DEF Mirror, RunningLast
  <2> QED BY <1>1, <1>2, <2>5, <2>6, <2>7, <2>8 DEF Mirror
<1> QED BY <1>3, <1>4

\* A process that goes leaves the journal as it was.
LEMMA GoneMirror ==
  ASSUME Mirror, Exit \/ Crash
  PROVE  Mirror'
<1>1. pc' = "off" /\ att' = NoAttempts /\ outbox' = <<>> /\ UNCHANGED jAtt
  BY DEF Exit, Crash, Gone, disk
<1>2. \A s \in Steps, n \in Nums : att'[s][n].status = "none"
  BY <1>1, RecordStatus
<1> QED BY <1>1, <1>2, EmptyEvents DEF Mirror, RunningLast

\* The invariant is inductive.
LEMMA NextMirror == TypeInv /\ EmptyInv /\ MirrorInv /\ [Next]_vars => MirrorInv'
<1> SUFFICES ASSUME TypeInv, EmptyInv, MirrorInv, [Next]_vars, lost' = 0 PROVE Mirror'
  BY DEF MirrorInv
<1>0. lost \in Nat
  BY DEF TypeInv, DiskTyped
<1>1. CASE Quiet
  <2>1. /\ pc # "off" /\ pc' # "off" /\ outbox = <<>> /\ UNCHANGED <<att, jAtt, lost>>
        /\ AttemptEvents(outbox') = {} /\ Solo(outbox')
        /\ \A t \in Steps : stage[t] \in InAttempt => stage'[t] \in InAttempt
    BY <1>1, PlainEvents DEF Quiet
  <2>2. Mirror /\ AttemptEvents(outbox) = {}
    BY <2>1, EmptyEvents DEF MirrorInv
  <2>3. RunningLast(jAtt)' /\ RunningLast(att)'
    BY <2>1, <2>2 DEF Mirror, RunningLast
  <2> QED BY <2>1, <2>2, <2>3 DEF Mirror, Announced
<1>2. ASSUME NEW s \in Steps, OpenAttempt(s) \/ SettleAttempt(s) PROVE Mirror'
  <2>1. UNCHANGED lost
    BY <1>2, OpenFacts, LateResult DEF AttemptFrame
  <2> QED BY <1>2, <2>1, OpenMirror, SettleMirror DEF MirrorInv
<1>3. ASSUME NEW i \in Invocations, Create(i) PROVE Mirror'
  <2>1. /\ pc = "off" /\ snap = NoRun /\ UNCHANGED <<att, jAtt, lost>> /\ outbox' = Saved(run')
    BY <1>3 DEF Create, disk
  <2>2. att' = NoAttempts /\ jAtt' = NoAttempts
    BY <2>1 DEF EmptyInv, Blank, Newborn
  <2>3. \A s \in Steps, n \in Nums : att'[s][n].status = "none" /\ jAtt'[s][n].status = "none"
    BY <2>2, RecordStatus
  <2>4. run' \in SoundRun
    BY <1>3, CreateTypes DEF TypeInv, RunsSound, Create
  <2>5. AttemptEvents(outbox') = {} /\ Solo(outbox')
    BY <2>1, <2>4, SavedPlain, PlainEvents
  <2> QED BY <2>2, <2>3, <2>5 DEF Mirror, RunningLast
<1>4. ASSUME NEW i \in Invocations, Resume(i) PROVE Mirror'
  BY <1>4, ResumeFacts, ResumeMirror DEF MirrorInv
<1>5. CASE Signal
  BY <1>5, SignalMirror DEF MirrorInv, Signal, history
<1>6. CASE Flush
  BY <1>6, FlushMirror DEF MirrorInv, Flush
<1>7. CASE LoseEvent
  BY <1>0, <1>7 DEF LoseEvent
<1>8. CASE Exit \/ Crash
  BY <1>8, GoneMirror DEF MirrorInv, Exit, Crash, history
<1>9. CASE UNCHANGED vars
  <2>1. UNCHANGED <<pc, att, jAtt, stage, outbox, lost>>
    BY <1>9 DEF vars, memory, disk, history
  <2>2. Mirror
    BY <2>1 DEF MirrorInv
  <2> QED BY <2>1, <2>2 DEF Mirror, RunningLast, EventTrue, Announced
<1> QED BY <1>1, <1>2, <1>3, <1>4, <1>5, <1>6, <1>7, <1>8, <1>9, StepKinds

\* No append having failed, the journal receives a finish only for an attempt it
\* holds open: of the loop, the signal handler and the crash settlement, the first
\* closer wins, whatever the interleaving, the group and the crashes.
THEOREM AttemptsClosedOnce == Spec => ClosedOnce
<1> DEFINE Once ==
      outbox # <<>> /\ outbox' = Tail(outbox) /\ Head(outbox).kind = "finish" /\ lost' = 0
        => jAtt[Head(outbox).step][Head(outbox).n].status = "running"
<1>1. TypeInv /\ EmptyInv /\ MirrorInv /\ [Next]_vars => Once
  <2> SUFFICES ASSUME TypeInv, EmptyInv, MirrorInv, [Next]_vars,
                      outbox # <<>>, Head(outbox).kind = "finish", lost' = 0
               PROVE  jAtt[Head(outbox).step][Head(outbox).n].status = "running"
    OBVIOUS
  <2>1. outbox \in Seq(SoundWrite) /\ lost \in Nat
    BY DEF TypeInv, WritesSound, DiskTyped
  <2>2. lost = 0
    <3>1. lost' = lost \/ LoseEvent
      BY StepKinds, OpenFacts, LateResult
         DEF Quiet, AttemptFrame, Create, Resume, Signal, Flush, Exit, Crash, history, vars
    <3> QED BY <2>1, <3>1 DEF LoseEvent
  <2>3. Head(outbox) \in AttemptEvents(outbox)
    BY <2>1, TailEvents DEF IsAttempt
  <2> QED BY <2>2, <2>3 DEF MirrorInv, Mirror, EventTrue
<1>2. Spec => [](TypeInv /\ EmptyInv /\ MirrorInv)
  BY InitTypes, NextTypes, InitEmpty, NextEmpty, InitMirror, NextMirror, PTL DEF Spec
<1>3. TypeInv /\ EmptyInv /\ MirrorInv /\ [Next]_vars => [Once]_vars
  BY <1>1
<1> QED BY <1>2, <1>3, PTL DEF Spec, ClosedOnce

----------------------------------------------------------------------------
(* The steps a hard death caught with an attempt in flight.                *)

\* The last attempt of a journal is open, or closed as interrupted.
Wounded(a) ==
  \E n \in Nums : /\ a[n].status = "running" \/ (a[n].status \in Closed /\ a[n].interrupted)
                  /\ \A m \in Nums : a[m].status # "none" => m <= n

\* The last attempt of a step is closed as interrupted.
Scarred(a) ==
  \E n \in Nums : /\ a[n].status \in Closed /\ a[n].interrupted
                  /\ \A m \in Nums : a[m].status # "none" => m <= n

\* No append having failed: the journal shows the wound between two processes;
\* the process that reads it holds the scar, and admits the step only when
\* authorized.
DiedInv ==
  lost = 0 =>
    /\ pc = "off" => \A s \in died : Wounded(jAtt[s])
    /\ pc # "off" => \A s \in died : /\ Scarred(att[s]) /\ stage[s] \in Before
                                     /\ s \in admitted => Authorized(s)

\* A pass is under way for members of the unit only.
UnitInv == \A s \in Steps : stage[s] # "idle" => s \in admitted

\* A scar is the code's last attempt interrupted.
LEMMA ScarIsLast ==
  ASSUME NEW s \in Steps, Scarred(att[s])
  PROVE  LastInterrupted(s)
<1>1. PICK n \in Nums : /\ att[s][n].status \in Closed /\ att[s][n].interrupted
                        /\ \A m \in Nums : att[s][m].status # "none" => m <= n
  BY DEF Scarred
<1>2. n \in Known(att[s]) /\ \A m \in Known(att[s]) : m <= n
  BY <1>1 DEF Known, Closed
<1>3. /\ LastNum(att[s]) \in Known(att[s]) /\ LastNum(att[s]) \in Nums
      /\ n <= LastNum(att[s])
  BY <1>2, LastKnown
<1>4. \A m \in Nums : m \in Int /\ m # 0
  BY DEF Nums
<1>5. LastNum(att[s]) = n
  BY <1>2, <1>3, <1>4
<1> QED BY <1>1, <1>4, <1>5 DEF LastInterrupted, Last

\* An attempt event to be written names a step and a number.
LEMMA EventNames ==
  ASSUME TypeInv, NEW e \in AttemptEvents(outbox)
  PROVE  /\ e.step \in Steps /\ e.n \in Nums
         /\ e.kind = "start" \/ e.kind = "finish"
<1>1. outbox \in Seq(SoundWrite)
  BY DEF TypeInv, WritesSound
<1>2. e \in SoundWrite /\ IsAttempt(e)
  BY <1>1, ElementOfSeq DEF AttemptEvents, AttemptsAt
<1> QED BY <1>2 DEF SoundWrite, WriteOf, IsAttempt

\* The journal shows a scar at least as a wound.
LEMMA ScarIsJournaled ==
  ASSUME TypeInv, Mirror, pc # "off", NEW s \in Steps, Scarred(att[s])
  PROVE  Wounded(jAtt[s])
<1>1. PICK n \in Nums : /\ att[s][n].status \in Closed /\ att[s][n].interrupted
                        /\ \A m \in Nums : att[s][m].status # "none" => m <= n
  BY DEF Scarred
<1>2. ASSUME NEW m \in Nums, Announced(s, m)
      PROVE  att[s][m].status # "none" /\ (att[s][m].status \in Closed => jAtt[s][m].status = "running")
  <2>1. PICK e \in AttemptEvents(outbox) : e.step = s /\ e.n = m
    BY <1>2 DEF Announced
  <2>2. EventTrue(e) /\ (e.kind = "start" \/ e.kind = "finish")
    BY EventNames DEF Mirror
  <2>3. CASE e.kind = "start"
    BY <2>1, <2>2, <2>3, RecordStatus DEF EventTrue, Closed
  <2>4. CASE e.kind = "finish"
    BY <2>1, <2>2, <2>4 DEF EventTrue, Closed
  <2> QED BY <2>2, <2>3, <2>4
<1>3. \A m \in Nums : att[s][m] = jAtt[s][m] \/ Announced(s, m)
  BY DEF Mirror
<1>4. \A m \in Nums : jAtt[s][m].status # "none" => m <= n
  BY <1>1, <1>2, <1>3
<1>5. jAtt[s][n].status = "running" \/ (jAtt[s][n].status \in Closed /\ jAtt[s][n].interrupted)
  BY <1>1, <1>2, <1>3
<1> QED BY <1>4, <1>5 DEF Wounded

\* A death that catches an attempt in flight leaves a wound in the journal.
LEMMA DeathIsJournaled ==
  ASSUME TypeInv, Mirror, pc # "off", NEW s \in Steps, Unsettled(s)
  PROVE  Wounded(jAtt[s])
<1>1. ASSUME NEW n \in Nums, jAtt[s][n].status = "running" PROVE Wounded(jAtt[s])
  BY <1>1 DEF Mirror, RunningLast, Wounded
<1>2. CASE stage[s] = "spawned" /\ InFlight(s)
  <2>1. PICK n \in Nums : att[s][n].status = "running"
    BY <1>2 DEF InFlight, HasOpen
  <2>2. ~Announced(s, n)
    <3> SUFFICES ASSUME NEW e \in AttemptEvents(outbox), e.step = s, e.n = n PROVE FALSE
      BY DEF Announced
    <3>1. EventTrue(e) /\ (e.kind = "start" \/ e.kind = "finish")
      BY EventNames DEF Mirror
    <3> QED BY <1>2, <2>1, <3>1 DEF EventTrue, Closed
  <2> QED BY <1>1, <2>1, <2>2 DEF Mirror
<1>3. CASE \E k \in 1..Len(outbox) : outbox[k].kind = "finish" /\ outbox[k].step = s
  <2>1. PICK e \in AttemptEvents(outbox) : e.kind = "finish" /\ e.step = s
    BY <1>3 DEF AttemptEvents, AttemptsAt, IsAttempt
  <2>2. e.n \in Nums /\ jAtt[s][e.n].status = "running"
    BY <2>1, EventNames DEF Mirror, EventTrue
  <2> QED BY <1>1, <2>2
<1> QED BY <1>2, <1>3 DEF Unsettled

\* The invariant holds before any process.
LEMMA InitDied == Init => DiedInv /\ UnitInv
BY NothingUnderWay DEF Init, DiedInv, UnitInv

\* A pass stays within its unit.
LEMMA NextUnitInv == TypeInv /\ EmptyInv /\ UnitInv /\ [Next]_vars => UnitInv'
<1> SUFFICES ASSUME TypeInv, EmptyInv, UnitInv, [Next]_vars PROVE UnitInv'
  OBVIOUS
<1>1. CASE Quiet
  BY <1>1 DEF Quiet, UnitInv
<1>2. ASSUME NEW s \in Steps, OpenAttempt(s) \/ SettleAttempt(s) PROVE UnitInv'
  <2>1. /\ UNCHANGED admitted /\ stage[s] # "idle"
        /\ \A t \in Steps : stage'[t] = IF t = s THEN stage'[s] ELSE stage[t]
    BY <1>2, OpenFacts, LateResult DEF AttemptFrame
  <2> QED BY <2>1 DEF UnitInv
<1>3. ASSUME NEW i \in Invocations, Create(i) \/ Resume(i) PROVE UnitInv'
  BY <1>3 DEF Create, Resume, UnitInv
<1>4. CASE Signal \/ Flush \/ LoseEvent \/ UNCHANGED vars
  BY <1>4 DEF Signal, Flush, LoseEvent, vars, memory, UnitInv
<1>5. CASE Exit \/ Crash
  BY <1>5, NothingUnderWay DEF Exit, Crash, Gone, UnitInv
<1> QED BY <1>1, <1>2, <1>3, <1>4, <1>5, StepKinds

\* The invariant is inductive.
LEMMA NextDied ==
  TypeInv /\ EmptyInv /\ MirrorInv /\ UnitInv /\ DiedInv /\ [Next]_vars => DiedInv'
<1> SUFFICES ASSUME TypeInv, EmptyInv, MirrorInv, UnitInv, DiedInv, [Next]_vars, lost' = 0
             PROVE  /\ pc' = "off" => \A s \in died' : Wounded(jAtt[s])'
                    /\ pc' # "off" => \A s \in died' : /\ Scarred(att[s])' /\ stage'[s] \in Before
                                                       /\ s \in admitted' => Authorized(s)'
  BY DEF DiedInv
<1>0. lost \in Nat /\ died \subseteq Steps
  BY DEF TypeInv, DiskTyped
<1>1. CASE Quiet
  <2>1. /\ pc # "off" /\ pc' # "off" /\ UNCHANGED <<att, inv, lost, died>>
        /\ \A t \in Steps : stage[t] \in Before => stage'[t] \in Before
        /\ \A t \in admitted' \ admitted : LastInterrupted(t) => Authorized(t)
    BY <1>1 DEF Quiet
  <2> SUFFICES ASSUME NEW s \in died
               PROVE  /\ Scarred(att[s])' /\ stage'[s] \in Before
                      /\ s \in admitted' => Authorized(s)'
    BY <2>1
  <2>2. /\ s \in Steps /\ Scarred(att[s]) /\ stage[s] \in Before
        /\ s \in admitted => Authorized(s)
    BY <1>0, <2>1 DEF DiedInv
  <2>3. Scarred(att[s])'
    BY <2>1, <2>2 DEF Scarred
  <2>4. s \in admitted' => Authorized(s)
    BY <2>1, <2>2, ScarIsLast
  <2> QED BY <2>1, <2>2, <2>3, <2>4 DEF Authorized
<1>2. ASSUME pc # "off", UNCHANGED <<pc, admitted, inv, lost>>, NEW T \in SUBSET Steps,
             died' \subseteq died, \A s \in died' : s \notin T /\ stage'[s] = stage[s],
             \A s \in Steps \ T, n \in Nums : att'[s][n] = att[s][n]
      PROVE  \A s \in died' : /\ Scarred(att[s])' /\ stage'[s] \in Before
                              /\ s \in admitted' => Authorized(s)'
  <2> TAKE s \in died'
  <2>1. /\ s \in Steps \ T /\ Scarred(att[s]) /\ stage[s] \in Before
        /\ s \in admitted => Authorized(s)
    BY <1>0, <1>2 DEF DiedInv
  <2>2. Scarred(att[s])'
    BY <1>2, <2>1 DEF Scarred
  <2> QED BY <1>2, <2>1, <2>2 DEF Authorized
<1>3. ASSUME NEW s \in Steps, OpenAttempt(s) \/ SettleAttempt(s)
      PROVE  /\ pc' # "off"
             /\ \A t \in died' : /\ Scarred(att[t])' /\ stage'[t] \in Before
                                 /\ t \in admitted' => Authorized(t)'
  <2>1. /\ pc = "pass" /\ UNCHANGED <<pc, admitted, inv, lost>>
        /\ \A t \in Steps : stage'[t] = IF t = s THEN stage'[s] ELSE stage[t]
        /\ died' \subseteq died
    BY <1>3, OpenFacts, LateResult DEF AttemptFrame
  <2>2. s \notin died'
    <3>1. CASE OpenAttempt(s)
      BY <3>1, OpenFacts
    <3>2. CASE SettleAttempt(s)
      BY <2>1, <3>2, LateResult DEF DiedInv, Before
    <3> QED BY <1>3, <3>1, <3>2
  <2>3. \A t \in Steps \ {s}, n \in Nums : att'[t][n] = att[t][n]
    <3>1. CASE OpenAttempt(s)
      BY <3>1, OpenFacts
    <3>2. CASE SettleAttempt(s) /\ StillOpen(s)
      BY <3>2, SettleFacts
    <3>3. CASE SettleAttempt(s) /\ ~StillOpen(s)
      BY <3>3, LateResult
    <3> QED BY <1>3, <3>1, <3>2, <3>3
  <2>4. \A t \in died' : t \notin {s} /\ stage'[t] = stage[t]
    BY <1>0, <2>1, <2>2
  <2> QED BY <1>2, <2>1, <2>3, <2>4
<1>4. ASSUME NEW i \in Invocations, Create(i)
      PROVE  pc' # "off" /\ died' = {}
  <2>1. pc = "off" /\ pc' = "booted" /\ snap = NoRun /\ UNCHANGED <<lost, died>>
    BY <1>4 DEF Create
  <2>2. jAtt = NoAttempts
    BY <2>1 DEF EmptyInv, Newborn
  <2>3. \A s \in died, n \in Nums : jAtt[s][n].status = "none"
    BY <1>0, <2>2, RecordStatus
  <2>4. \A s \in died : ~Wounded(jAtt[s])
    BY <2>3 DEF Wounded, Closed
  <2> QED BY <2>1, <2>4 DEF DiedInv
<1>5. ASSUME NEW i \in Invocations, Resume(i)
      PROVE  /\ pc' # "off"
             /\ \A s \in died' : /\ Scarred(att[s])' /\ stage'[s] \in Before /\ s \notin admitted'
  <2>1. /\ pc = "off" /\ pc' = "booted" /\ stage' = Idle
        /\ \A s \in Steps, n \in Nums :
             att'[s][n] = IF jAtt[s][n].status = "running" THEN Crashed(s) ELSE jAtt[s][n]
        /\ UNCHANGED <<admitted, lost, died>>
    BY <1>5, ResumeFacts
  <2>2. admitted = {}
    BY <2>1 DEF EmptyInv, Blank
  <2> SUFFICES ASSUME NEW s \in died PROVE Scarred(att[s])'
    BY <1>0, <2>1, <2>2, NothingUnderWay
  <2>3. s \in Steps /\ Wounded(jAtt[s])
    BY <1>0, <2>1 DEF DiedInv
  <2>4. PICK n \in Nums :
          /\ jAtt[s][n].status = "running" \/ (jAtt[s][n].status \in Closed /\ jAtt[s][n].interrupted)
          /\ \A m \in Nums : jAtt[s][m].status # "none" => m <= n
    BY <2>3 DEF Wounded
  <2>5. att'[s][n].status \in Closed /\ att'[s][n].interrupted
    BY <2>1, <2>3, <2>4, RecordStatus DEF Closed
  <2>6. \A m \in Nums : att'[s][m].status # "none" => m <= n
    BY <2>1, <2>3, <2>4
  <2> QED BY <2>5, <2>6 DEF Scarred
<1>6. CASE Signal
  <2>1. PICK C \in SUBSET {t \in Steps : InFlight(t)} :
          \A t \in Steps \ C, m \in Nums : att'[t][m] = att[t][m]
    BY <1>6, SignalFacts
  <2>2. pc # "off" /\ UNCHANGED <<pc, admitted, inv, lost, stage, died>>
    BY <1>6 DEF Signal, history
  <2>3. \A t \in died : t \notin C
    <3> SUFFICES ASSUME NEW t \in died, InFlight(t) PROVE FALSE
      BY <2>1
    <3>1. t \in Steps /\ stage[t] \in Before
      BY <1>0, <2>2 DEF DiedInv
    <3>2. stage[t] \in InAttempt
      BY <2>2, <3>1 DEF MirrorInv, Mirror, InFlight, HasOpen
    <3> QED BY <3>1, <3>2 DEF Before, InAttempt
  <2> QED BY <1>2, <2>1, <2>2, <2>3
<1>7. CASE Flush
  <2>1. pc # "off" /\ UNCHANGED <<memory, died, lost>>
    BY <1>7, WriteFacts
  <2>2. UNCHANGED <<pc, att, stage, admitted, inv, lost, died>>
    BY <2>1 DEF memory
  <2>3. {} \in SUBSET Steps /\ \A s \in died : s \notin {}
    OBVIOUS
  <2> QED BY <1>2, <2>1, <2>2, <2>3
<1>8. CASE LoseEvent
  BY <1>0, <1>8 DEF LoseEvent
<1>9. CASE Exit \/ Crash
  <2>1. pc # "off" /\ pc' = "off" /\ UNCHANGED <<jAtt, lost>>
        /\ \A s \in died' : s \in died \/ (s \in Steps /\ Unsettled(s))
    BY <1>9 DEF Exit, Crash, Gone, disk, history
  <2>2. \A s \in died' : Wounded(jAtt[s])
    BY <1>0, <2>1, ScarIsJournaled, DeathIsJournaled DEF DiedInv, MirrorInv
  <2> QED BY <2>1, <2>2 DEF Wounded
<1>10. CASE UNCHANGED vars
  <2>1. UNCHANGED <<pc, att, jAtt, stage, admitted, inv, lost, died>>
    BY <1>10 DEF vars, memory, disk, history
  <2> QED BY <2>1 DEF DiedInv, Wounded, Scarred, Authorized
<1> QED BY <1>1, <1>3, <1>4, <1>5, <1>6, <1>7, <1>8, <1>9, <1>10, StepKinds

\* No append having failed, a step a hard death caught with an attempt in flight
\* is opened again only under an authorization of the operator or the definition,
\* through any number of further deaths, resumes and skips.
THEOREM InterruptedReplayAuthorized == Spec => InterruptedNeedsAuthorization
<1> DEFINE Asks == \A s \in Steps : Opens(s) /\ s \in died /\ lost = 0 => Authorized(s)
<1>1. TypeInv /\ EmptyInv /\ UnitInv /\ DiedInv /\ [Next]_vars => Asks
  <2> SUFFICES ASSUME TypeInv, EmptyInv, UnitInv, DiedInv, [Next]_vars,
                      NEW s \in Steps, Opens(s), s \in died, lost = 0
               PROVE  Authorized(s)
    OBVIOUS
  <2>1. stage[s] # "opened" /\ stage'[s] = "opened"
    BY DEF Opens
  <2>2. pc # "off"
    <3>1. SUFFICES ASSUME pc = "off" PROVE FALSE
      OBVIOUS
    <3>2. stage = Idle
      BY <3>1 DEF TypeInv, PassTyped
    <3>3. stage' = stage
      BY <3>1, StepKinds, OpenFacts, LateResult, WriteFacts
         DEF Quiet, Create, Resume, Signal, Exit, Crash, Gone, vars, memory
    <3> QED BY <2>1, <3>3
  <2>3. stage[s] \in Before /\ (s \in admitted => Authorized(s))
    BY <2>2 DEF DiedInv
  <2>4. ~Quiet
    BY <2>1, <2>3 DEF Quiet, Before
  <2>5. PICK t \in Steps : OpenAttempt(t) \/ SettleAttempt(t)
    BY <2>1, <2>2, <2>4, StepKinds, NothingUnderWay
       DEF Create, Resume, Signal, Flush, LoseEvent, Exit, Crash, Gone, vars, memory, Idle
  <2>6. stage[s] # "idle"
    BY <2>1, <2>5, OpenFacts, LateResult
  <2> QED BY <2>3, <2>6 DEF UnitInv
<1>2. Spec => [](TypeInv /\ EmptyInv /\ MirrorInv /\ UnitInv /\ DiedInv)
  BY InitTypes, NextTypes, InitEmpty, NextEmpty, InitMirror, NextMirror, InitDied,
     NextUnitInv, NextDied, PTL DEF Spec
<1>3. TypeInv /\ EmptyInv /\ UnitInv /\ DiedInv /\ [Next]_vars => [Asks]_vars
  BY <1>1
<1> QED BY <1>2, <1>3, PTL DEF Spec, InterruptedNeedsAuthorization

----------------------------------------------------------------------------
(* What the ledger knows of the unpriced spending the journal proves.      *)

\* Only a closed attempt is evidence, in the journal and on its way to it.
ClosedEvidence ==
  /\ \A s \in Steps, n \in Nums : ProvesUnpriced(jAtt[s][n].fig) => jAtt[s][n].status \in Closed
  /\ \A e \in AttemptEvents(outbox) : e.kind = "finish" => e.attempt.status \in Closed

\* What is about to reach the journal proves nothing.
NoProofWritten ==
  \A e \in AttemptEvents(outbox) : e.kind = "finish" => ~ProvesUnpriced(e.attempt.fig)

\* Until the ledger opens, memory holds the evidence of the journal.
EvidenceRead ==
  pc = "booted" =>
    /\ NoProofWritten
    /\ \A s \in Steps, n \in Nums :
         /\ att[s][n].status # "running"
         /\ ProvesUnpriced(jAtt[s][n].fig) => att[s][n] = jAtt[s][n]

\* From then on, a ledger that knows of none has none to know of.
EvidenceCharged ==
  pc \notin {"off", "booted"} /\ ~budget.unknown =>
    /\ NoProofWritten
    /\ \A s \in Steps, n \in Nums : ~ProvesUnpriced(jAtt[s][n].fig)

Uncertain == ClosedEvidence /\ EvidenceRead /\ EvidenceCharged

\* Neither no attempt nor one that opens proves anything.
LEMMA BlankProvesNothing ==
  ~ProvesUnpriced(NoAttempt.fig) /\ ~ProvesUnpriced(OpenRecord.fig)
BY DEF ProvesUnpriced, NoAttempt, OpenRecord, NoFigure

\* Before any process there is no evidence.
LEMMA InitUncertain == Init => Uncertain
<1> SUFFICES ASSUME Init PROVE Uncertain
  OBVIOUS
<1>1. \A s \in Steps, n \in Nums : ~ProvesUnpriced(jAtt[s][n].fig)
  BY BlankProvesNothing, RecordStatus DEF Init
<1>2. pc = "off" /\ AttemptEvents(outbox) = {}
  BY EmptyEvents DEF Init
<1> QED BY <1>1, <1>2 DEF Uncertain, ClosedEvidence, EvidenceRead, EvidenceCharged

\* The invariant is inductive.
LEMMA NextUncertain == TypeInv /\ EmptyInv /\ Uncertain /\ [Next]_vars => Uncertain'
<1> SUFFICES ASSUME TypeInv, EmptyInv, Uncertain, [Next]_vars PROVE Uncertain'
  OBVIOUS
<1> USE DEF Uncertain
\* What a step that leaves the journal alone has to say of its writes.
<1>0. ASSUME UNCHANGED jAtt,
             \A e \in AttemptEvents(outbox') : e.kind = "finish" => e.attempt.status \in Closed
      PROVE  ClosedEvidence'
  BY <1>0 DEF ClosedEvidence
<1>1. CASE Quiet
  <2>1. /\ pc # "off" /\ pc' # "off" /\ outbox = <<>> /\ UNCHANGED <<att, jAtt>>
        /\ AttemptEvents(outbox') = {}
        /\ IF pc = "booted" THEN OpenLedger ELSE pc' # "booted" /\ UNCHANGED budget
    BY <1>1, PlainEvents DEF Quiet
  <2>2. ClosedEvidence' /\ NoProofWritten'
    BY <1>0, <2>1 DEF NoProofWritten
  <2>3. CASE pc = "booted"
    <3>1. /\ pc' = "admit"
          /\ (\E s \in Steps : StepProvesUnpriced(s)) => budget'.unknown
      <4> DEFINE unknown == run.unaccounted \/ \E s \in Steps : StepProvesUnpriced(s)
      <4>1. /\ pc' = "admit"
            /\ budget' = [cum |-> RunCost(run), exceeded |-> run.exceeded, unknown |-> unknown]
        BY <2>1, <2>3 DEF OpenLedger
      <4>2. budget'.unknown = unknown
        BY <4>1
      <4> QED BY <4>1, <4>2
    <3>2. ASSUME NEW s \in Steps, NEW n \in Nums, ProvesUnpriced(jAtt[s][n].fig)
          PROVE  StepProvesUnpriced(s)
      <4>1. att[s][n] = jAtt[s][n] /\ jAtt[s][n].status \in Closed
        BY <2>3, <3>2 DEF EvidenceRead, ClosedEvidence
      <4>2. n \in Known(att[s]) /\ att[s][n].status # "running" /\ ProvesUnpriced(att[s][n].fig)
        BY <3>2, <4>1 DEF Known, Closed
      <4> QED BY <4>2 DEF StepProvesUnpriced
    <3>3. ~budget'.unknown => \A s \in Steps, n \in Nums : ~ProvesUnpriced(jAtt'[s][n].fig)
      BY <2>1, <3>1, <3>2
    <3> QED BY <2>2, <3>1, <3>3 DEF EvidenceRead, EvidenceCharged
  <2>4. CASE pc # "booted"
    BY <2>1, <2>2, <2>4 DEF EvidenceRead, EvidenceCharged
  <2> QED BY <2>3, <2>4
<1>2. ASSUME pc \notin {"off", "booted"}, UNCHANGED <<pc, jAtt>>,
             \A e \in AttemptEvents(outbox') : e.kind = "finish" => e.attempt.status \in Closed,
             ~budget'.unknown => ~budget.unknown /\ NoProofWritten'
      PROVE  Uncertain'
  BY <1>0, <1>2 DEF EvidenceRead, EvidenceCharged
<1>3. ASSUME NEW s \in Steps, OpenAttempt(s) PROVE Uncertain'
  <2>1. /\ pc = "pass" /\ UNCHANGED <<pc, jAtt, budget>>
        /\ AttemptEvents(outbox') = {StartEvent(s, NextNumber(s))}
    BY <1>3, OpenFacts DEF AttemptFrame
  <2>2. \A e \in AttemptEvents(outbox') : e.kind # "finish"
    BY <2>1 DEF StartEvent
  <2> QED BY <1>2, <2>1, <2>2 DEF NoProofWritten
<1>4. ASSUME NEW s \in Steps, SettleAttempt(s) PROVE Uncertain'
  <2>1. pc = "pass" /\ outbox = <<>> /\ UNCHANGED <<pc, jAtt>>
    BY <1>4, LateResult DEF AttemptFrame
  <2>2. CASE StillOpen(s)
    <3>1. PICK a \in Attempt :
            /\ a.status \in Closed
            /\ AttemptEvents(outbox') = {FinishEvent(s, Last(s), a)}
            /\ budget.unknown \/ ProvesUnpriced(a.fig) => budget'.unknown
      BY <1>4, <2>2, SettleFacts
    <3>2. \A e \in AttemptEvents(outbox') : e.attempt = a
      BY <3>1 DEF FinishEvent
    <3> QED BY <1>2, <2>1, <3>1, <3>2 DEF NoProofWritten
  <2>3. CASE ~StillOpen(s)
    <3>1. UNCHANGED <<budget, outbox>> /\ AttemptEvents(outbox') = {}
      BY <1>4, <2>1, <2>3, LateResult, EmptyEvents
    <3> QED BY <1>2, <2>1, <3>1 DEF NoProofWritten
  <2> QED BY <2>2, <2>3
<1>5. ASSUME NEW i \in Invocations, Create(i) PROVE Uncertain'
  <2>1. /\ pc = "off" /\ pc' = "booted" /\ snap = NoRun /\ UNCHANGED <<att, jAtt>>
        /\ outbox' = Saved(run')
    BY <1>5 DEF Create, disk
  <2>2. att = NoAttempts /\ jAtt = NoAttempts
    BY <2>1 DEF EmptyInv, Blank, Newborn
  <2>3. run' \in SoundRun
    BY <1>5, CreateTypes DEF TypeInv, RunsSound, Create
  <2>4. AttemptEvents(outbox') = {}
    BY <2>1, <2>3, SavedPlain, PlainEvents
  <2>5. \A s \in Steps, n \in Nums :
           att'[s][n].status # "running" /\ ~ProvesUnpriced(jAtt'[s][n].fig)
    BY <2>1, <2>2, RecordStatus, BlankProvesNothing
  <2> QED BY <1>0, <2>1, <2>4, <2>5 DEF EvidenceRead, EvidenceCharged, NoProofWritten
<1>6. ASSUME NEW i \in Invocations, Resume(i) PROVE Uncertain'
  <2>1. /\ pc' = "booted" /\ UNCHANGED jAtt
        /\ \A s \in Steps, n \in Nums :
             att'[s][n] = IF jAtt[s][n].status = "running" THEN Crashed(s) ELSE jAtt[s][n]
        /\ AttemptEvents(outbox') = {Closing(s) : s \in {t \in Steps : HasOpen(jAtt[t])}}
    BY <1>6, ResumeFacts
  <2>2. \A s : Closing(s).attempt = Crashed(s) /\ Crashed(s).fig = CrashFigure(s)
    BY DEF Closing, FinishEvent, Crashed
  <2>3. \A e \in AttemptEvents(outbox') :
           e.attempt.status \in Closed /\ ~ProvesUnpriced(e.attempt.fig)
    BY <2>1, <2>2, RecordStatus, LiveProvesNothing DEF Closed
  <2>4. \A s \in Steps, n \in Nums :
           /\ att'[s][n].status # "running"
           /\ ProvesUnpriced(jAtt[s][n].fig) => att'[s][n] = jAtt[s][n]
    BY <2>1, RecordStatus DEF ClosedEvidence, Closed
  <2> QED BY <1>0, <2>1, <2>3, <2>4 DEF EvidenceRead, EvidenceCharged, NoProofWritten
<1>7. CASE Signal
  <2>1. pc # "off" /\ UNCHANGED <<pc, budget, jAtt>>
    BY <1>7 DEF Signal, disk
  <2>2. PICK C \in SUBSET {t \in Steps : InFlight(t)}, x \in [Steps -> Attempt] :
           /\ \A t \in C : x[t].status \in Closed /\ ~ProvesUnpriced(x[t].fig)
           /\ \A t \in Steps, m \in Nums :
                att'[t][m] = IF t \in C /\ m = Last(t) THEN x[t] ELSE att[t][m]
           /\ AttemptEvents(outbox') = {FinishEvent(t, Last(t), x[t]) : t \in C}
    BY <1>7, SignalFacts
  <2>3. \A e \in AttemptEvents(outbox') :
           e.attempt.status \in Closed /\ ~ProvesUnpriced(e.attempt.fig)
    BY <2>2 DEF FinishEvent
  <2>4. ClosedEvidence' /\ NoProofWritten'
    BY <1>0, <2>1, <2>3 DEF NoProofWritten
  <2>5. pc = "booted" => \A t \in Steps, m \in Nums : att'[t][m] = att[t][m]
    BY <2>2 DEF EvidenceRead, InFlight, HasOpen
  <2> QED BY <2>1, <2>4, <2>5 DEF EvidenceRead, EvidenceCharged
<1>8. CASE Flush \/ LoseEvent
  <2> DEFINE e == Head(outbox)
  <2>1. /\ outbox # <<>> /\ outbox' = Tail(outbox) /\ outbox \in Seq(SoundWrite)
        /\ UNCHANGED <<pc, att, budget>>
    BY <1>8, WriteFacts DEF memory
  <2>2. /\ AttemptEvents(outbox') \subseteq AttemptEvents(outbox)
        /\ IsAttempt(e) => e \in AttemptEvents(outbox)
    BY <2>1, TailEvents
  <2>3. \A s \in Steps, n \in Nums :
           \/ jAtt'[s][n] = jAtt[s][n]
           \/ jAtt'[s][n] = OpenRecord
           \/ IsAttempt(e) /\ e.kind = "finish" /\ jAtt'[s][n] = e.attempt
    BY <1>8, WriteFacts DEF IsAttempt
  <2> HIDE DEF e
  <2>4. ClosedEvidence'
    <3>1. \A f \in AttemptEvents(outbox') : f.kind = "finish" => f.attempt.status \in Closed
      BY <2>2 DEF ClosedEvidence
    <3>2. \A s \in Steps, n \in Nums :
             ProvesUnpriced(jAtt'[s][n].fig) => jAtt'[s][n].status \in Closed
      BY <2>2, <2>3, BlankProvesNothing DEF ClosedEvidence
    <3> QED BY <3>1, <3>2 DEF ClosedEvidence
  <2>5. NoProofWritten => NoProofWritten'
    BY <2>2 DEF NoProofWritten
  <2>6. NoProofWritten => \A s \in Steps, n \in Nums :
           ProvesUnpriced(jAtt'[s][n].fig) => jAtt'[s][n] = jAtt[s][n]
    BY <2>2, <2>3, BlankProvesNothing DEF NoProofWritten
  <2>7. EvidenceRead' /\ EvidenceCharged'
    BY <2>1, <2>5, <2>6 DEF EvidenceRead, EvidenceCharged
  <2> QED BY <2>4, <2>7
<1>9. CASE Exit \/ Crash
  <2>1. pc' = "off" /\ outbox' = <<>> /\ UNCHANGED jAtt
    BY <1>9 DEF Exit, Crash, Gone, disk
  <2> QED BY <1>0, <2>1, EmptyEvents DEF EvidenceRead, EvidenceCharged
<1>10. CASE UNCHANGED vars
  <2>1. UNCHANGED <<pc, att, jAtt, budget, outbox>>
    BY <1>10 DEF vars, memory, disk
  <2> QED BY <2>1 DEF ClosedEvidence, EvidenceRead, EvidenceCharged, NoProofWritten
<1> QED BY <1>1, <1>3, <1>4, <1>5, <1>6, <1>7, <1>8, <1>9, <1>10, StepKinds

\* What the journal proves unpriced is known to the ledger of the process that
\* admits steps, whatever was lost: no crash, resume or dropped append launders it.
THEOREM EvidenceKept == Spec => []UncertaintyNeverLaundered
<1>1. Uncertain => UncertaintyNeverLaundered
  BY DEF Uncertain, EvidenceCharged, UncertaintyNeverLaundered
<1>2. Spec => [](TypeInv /\ EmptyInv /\ Uncertain)
  BY InitTypes, NextTypes, InitEmpty, NextEmpty, InitUncertain, NextUncertain, PTL DEF Spec
<1> QED BY <1>1, <1>2, PTL
=============================================================================
