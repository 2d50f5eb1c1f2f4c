----------------------------- MODULE Allowance -----------------------------
(***************************************************************************)
(* What each attempt in flight may spend of a run's ceiling                *)
(* (src/run/record/cost-accounting.ts, budget.ts, cost-stop-events.ts),    *)
(* as attempts reserve it, are charged and give it back                    *)
(* (src/execution/step/step-attempt.ts).                                   *)
(*                                                                         *)
(* A unit is one step, or a group whose members run at once.  The members  *)
(* of a group ask for their share in the tick that starts the group; a     *)
(* rerun asks when its own gate let it through, whatever its siblings are  *)
(* doing.  The cost an attempt ends with is any small amount: a guard      *)
(* kills on its own estimate, which the provider need not confirm, and a   *)
(* step without a guard stops at nothing.  Shares are rounded down to the  *)
(* unit of account.  The signal handler closes attempts without a ledger.  *)
(***************************************************************************)
EXTENDS Naturals, Sequences, FiniteSetsExt, Functions, FiniteSetTheorems, TLAPS

CONSTANTS
  Steps,
  Units,      \* sequence of the sets of steps run at once
  Ceiling,    \* max_cost_usd, or NoCeiling
  NoCeiling,
  Guarded,    \* steps whose backend has a live guard
  Unmetered,  \* run.allow_unmetered
  MaxCost,    \* bound: what one attempt costs
  Retries     \* reruns of a step

Amounts == 0..(MaxCost * Cardinality(Steps) * (Retries + 1))

AllowanceAssumption ==
  /\ IsFiniteSet(Steps)
  /\ Units \in Seq((SUBSET Steps) \ {{}}) /\ Guarded \subseteq Steps
  /\ Ceiling \in Nat \cup {NoCeiling} /\ NoCeiling \notin Nat
  /\ Unmetered \in BOOLEAN /\ MaxCost \in Nat /\ Retries \in Nat

VARIABLES
  unit,      \* position in Units
  phase,     \* where the attempt of each step stands
  ledger,    \* RunBudget: cumulative and the latches
  held,      \* allowances: what each attempt in flight may spend
  awaiting,  \* awaitingAllowance
  left,      \* reruns left to each step
  run,       \* "going", "stopped" or "aborted"
  overshoot  \* history: what closed attempts spent beyond their allowance

vars == <<unit, phase, ledger, held, awaiting, left, run, overshoot>>

Phases == {"idle", "asking", "running", "closed", "over"}
Capped == Ceiling # NoCeiling

TypeOK ==
  /\ unit \in 1..(Len(Units) + 1) /\ phase \in [Steps -> Phases]
  /\ ledger \in [cumulative: Amounts, costUnknown: BOOLEAN, exceeded: BOOLEAN, unaccountedStop: BOOLEAN]
  /\ \E S \in SUBSET Steps : held \in [S -> Nat]
  /\ awaiting \subseteq Steps /\ left \in [Steps -> 0..Retries]
  /\ run \in {"going", "stopped", "aborted"} /\ overshoot \in Amounts

Without(f, s) == Restrict(f, DOMAIN f \ {s})
TotalHeld == FoldFunction(LAMBDA a, total : a + total, 0, held)
Monus(a, b) == IF a > b THEN a - b ELSE 0

\* Slip: what the siblings hold is not subtracted.
LedgerOnly == Monus(Ceiling, ledger.cumulative)
\* available: what neither the closed attempts spent nor those in flight hold.
Available == Monus(Ceiling, ledger.cumulative + TotalHeld)

\* Slip: the first to start takes all that is left.
GreedyShare(waiting) == Available
Share(waiting) == Available \div (Cardinality(waiting) + 1)

BudgetExceeded == ledger.exceeded \/ (Capped /\ ledger.cumulative >= Ceiling)
Strict == Capped /\ ~Unmetered
\* costDecision: a reached ceiling wins over uncertainty.
CostDecision ==
  IF BudgetExceeded THEN "budget-exceeded"
  ELSE IF ledger.costUnknown /\ Strict THEN "cost-unaccounted" ELSE "none"

Init ==
  /\ unit = 1 /\ phase = [s \in Steps |-> "idle"]
  /\ ledger = [cumulative |-> 0, costUnknown |-> FALSE, exceeded |-> FALSE, unaccountedStop |-> FALSE]
  /\ held = << >> /\ awaiting = {} /\ left = [s \in Steps |-> Retries]
  /\ run = "going" /\ overshoot = 0

\* The first attempts of a group start before anything else runs.
Starting == \E s \in Steps : phase[s] = "asking"
Settled  == \A s \in Steps : phase[s] \in {"idle", "over"}

\* costGate: withheld work is recorded on the ledger, which later gates read.
Withheld == ledger' = [ledger EXCEPT !.unaccountedStop = @ \/ CostDecision = "cost-unaccounted"]

\* Admission passed: a group announces its members, a lone step does not.
StartUnit ==
  /\ run = "going" /\ unit <= Len(Units) /\ Settled
  /\ \A s \in Units[unit] : phase[s] = "idle"
  /\ CostDecision = "none"
  /\ phase' = [s \in Steps |-> IF s \in Units[unit] THEN "asking" ELSE phase[s]]
  /\ awaiting' = IF Cardinality(Units[unit]) > 1 THEN Units[unit] ELSE awaiting
  /\ UNCHANGED <<unit, ledger, held, left, run, overshoot>>

AdmissionWithheld ==
  /\ run = "going" /\ unit <= Len(Units) /\ Settled
  /\ \A s \in Units[unit] : phase[s] = "idle"
  /\ CostDecision # "none"
  /\ Withheld /\ run' = "stopped"
  /\ UNCHANGED <<unit, phase, held, awaiting, left, overshoot>>

\* reserveAllowance, as close to the spawn as possible.
Reserve(s) ==
  /\ awaiting' = awaiting \ {s}
  /\ held' = IF Capped THEN [t \in DOMAIN held \cup {s} |-> IF t = s THEN Share(awaiting \ {s}) ELSE held[t]]
             ELSE held
  /\ phase' = [phase EXCEPT ![s] = "running"]

Ask(s) ==
  /\ phase[s] = "asking"
  /\ Reserve(s)
  /\ UNCHANGED <<unit, ledger, left, run, overshoot>>

\* chargeAttemptToLedger, and the latch of a guard's kill (recordCostStop).
Charge(s, cost, unpriced, killed) ==
  ledger' = [ledger EXCEPT !.cumulative = @ + cost,
                           !.costUnknown = @ \/ unpriced,
                           !.exceeded = @ \/ killed]
Overspent(s, cost) == IF s \in DOMAIN held THEN Monus(cost, held[s]) ELSE 0

\* Slip: an attempt that failed keeps what it held.
KeepWhenKilled(s, killed) == held' = IF killed THEN held ELSE Without(held, s)
\* releaseAllowance, in the tick of the charge, whatever the settlement did.
Release(s, killed) == held' = Without(held, s)

\* finishAttempt: the attempt is charged and gives its allowance back.  A guard
\* kills for the estimate, or for usage it proves unpriceable under a strict ceiling.
Finish(s, cost, unpriced, killed) ==
  /\ ~Starting /\ run # "aborted" /\ phase[s] = "running"
  /\ killed => s \in Guarded /\ Capped
  /\ Charge(s, cost, unpriced, killed)
  /\ overshoot' = overshoot + Overspent(s, cost)
  /\ Release(s, killed)
  /\ phase' = [phase EXCEPT ![s] = "closed"]
  /\ UNCHANGED <<unit, awaiting, left, run>>

\* A live accounting guard withholds the rest of the attempt it kills.
GuardUnpriced(s, cost) ==
  /\ ~Starting /\ run # "aborted" /\ phase[s] = "running" /\ s \in Guarded /\ Strict
  /\ ledger' = [ledger EXCEPT !.cumulative = @ + cost, !.costUnknown = TRUE, !.unaccountedStop = TRUE]
  /\ overshoot' = overshoot + Overspent(s, cost)
  /\ held' = Without(held, s)
  /\ phase' = [phase EXCEPT ![s] = "closed"]
  /\ UNCHANGED <<unit, awaiting, left, run>>

\* A verdict, or no rerun left: the step is over.
EndStep(s) ==
  /\ ~Starting /\ phase[s] = "closed" /\ run # "aborted"
  /\ phase' = [phase EXCEPT ![s] = "over"]
  /\ UNCHANGED <<unit, ledger, held, awaiting, left, run, overshoot>>

\* Slip: the quota is consumed only when the rerun fails, or is not checked.
FreeRerun(s) ==
  /\ ~Starting /\ phase[s] = "closed" /\ left[s] > 0 /\ run # "aborted" /\ CostDecision = "none"
  /\ Reserve(s)
  /\ UNCHANGED <<unit, ledger, left, run, overshoot>>
UncheckedRerun(s) ==
  /\ ~Starting /\ phase[s] = "closed" /\ run # "aborted" /\ CostDecision = "none"
  /\ left' = [left EXCEPT ![s] = @ - 1]
  /\ Reserve(s)
  /\ UNCHANGED <<unit, ledger, run, overshoot>>
\* A rerun the gate lets through; its attempt reserves what it finds.
Rerun(s) ==
  /\ ~Starting /\ phase[s] = "closed" /\ left[s] > 0 /\ run # "aborted"
  /\ CostDecision = "none"
  /\ left' = [left EXCEPT ![s] = @ - 1]
  /\ Reserve(s)
  /\ UNCHANGED <<unit, ledger, run, overshoot>>

RerunWithheld(s) ==
  /\ ~Starting /\ phase[s] = "closed" /\ left[s] > 0 /\ run # "aborted"
  /\ CostDecision # "none"
  /\ Withheld
  /\ phase' = [phase EXCEPT ![s] = "over"]
  /\ UNCHANGED <<unit, held, awaiting, left, run, overshoot>>

\* The unit answered: the loop goes on, or stops for a cost stop of a member.
NextUnit ==
  /\ run = "going" /\ unit <= Len(Units)
  /\ \A s \in Units[unit] : phase[s] = "over"
  /\ unit' = unit + 1
  /\ UNCHANGED <<phase, ledger, held, awaiting, left, run, overshoot>>

\* abortRun closes the attempts on the step totals; it has no ledger.
Abort ==
  /\ ~Starting /\ run = "going"
  /\ run' = "aborted"
  /\ UNCHANGED <<unit, phase, ledger, held, awaiting, left, overshoot>>

\* The spawn of an attempt the handler closed returns: not charged, still released.
FinishAborted(s) ==
  /\ run = "aborted" /\ phase[s] = "running"
  /\ Release(s, FALSE) /\ phase' = [phase EXCEPT ![s] = "over"]
  /\ UNCHANGED <<unit, ledger, awaiting, left, run, overshoot>>
LeaveAborted(s) ==
  /\ run = "aborted" /\ phase[s] = "closed"
  /\ phase' = [phase EXCEPT ![s] = "over"]
  /\ UNCHANGED <<unit, ledger, held, awaiting, left, run, overshoot>>

Attempts(s) ==
  \/ Ask(s) \/ EndStep(s) \/ Rerun(s) \/ RerunWithheld(s) \/ FinishAborted(s) \/ LeaveAborted(s)
  \/ \E cost \in 0..MaxCost :
       GuardUnpriced(s, cost) \/ \E unpriced, killed \in BOOLEAN : Finish(s, cost, unpriced, killed)
Progress == StartUnit \/ AdmissionWithheld \/ NextUnit \/ \E s \in Steps : Attempts(s)
Next == Progress \/ Abort
Spec == Init /\ [][Next]_vars
FairSpec == Spec /\ WF_vars(Progress)

----------------------------------------------------------------------------
\* What is spent and what is promised to attempts in flight stays under the
\* ceiling, but for what closed attempts spent beyond their own allowance: the
\* invariant reserveAllowance names, with the overshoot no guard can prevent.
CeilingShared == Capped => ledger.cumulative + TotalHeld <= Ceiling + overshoot

\* Only a running attempt holds an allowance, and nobody is awaited once a group
\* has started: nothing is lost to the steps that follow.
NothingLeaks ==
  /\ \A s \in DOMAIN held : phase[s] = "running"
  /\ ~Starting => awaiting = {}

\* The first attempt of a group member finds an equal share of what was left when
\* the group started, whatever the order of the members.
EqualFirstShares ==
  \A s \in Steps : phase[s] = "asking" /\ phase'[s] = "running" /\ Capped =>
    held'[s] >= Monus(Ceiling, ledger.cumulative) \div Cardinality(Units[unit])

----------------------------------------------------------------------------
(* The proofs: sums over finite sets, and what each action does to them.   *)

\* A nonempty set of naturals has a least element.
LEMMA NatMin ==
  ASSUME NEW T \in SUBSET Nat, T # {}
  PROVE \E x \in T : \A y \in T : x <= y
<1> DEFINE R == OpToRel(<, Nat)
<1>1. IsWellFoundedOn(R, Nat)
  BY NatLessThanWellFounded, Zenon
<1>3. \A x, y \in Nat : <<x,y>> \in R <=> x < y
  BY DEF OpToRel
<1> HIDE DEF R
<1>2. PICK x \in T : \A y \in T : ~ (<<y, x>> \in R)
  BY <1>1, WFMin
<1>4. \A y \in T : x <= y
  <2> TAKE y \in T
  <2>1. ~(y < x) /\ x \in Nat /\ y \in Nat
    BY <1>2, <1>3
  <2> QED BY <2>1
<1> QED BY <1>4

\* Induction for a set: one that holds 0 and is closed under successor holds
\* every natural.
LEMMA NatInd ==
  ASSUME NEW S, 0 \in S, \A n \in Nat : n \in S => n + 1 \in S
  PROVE  Nat \subseteq S
<1> SUFFICES ASSUME Nat \ S # {} PROVE FALSE
  OBVIOUS
<1>1. PICK x \in Nat \ S : \A y \in Nat \ S : x <= y
  BY NatMin
<1>2. x # 0 /\ x - 1 \in Nat
  BY <1>1
<1>3. x - 1 \in S
  BY <1>1, <1>2
<1> QED BY <1>1, <1>2, <1>3

\* What holds of the empty set, and of a finite set once it holds of it without one
\* of its members, holds of all its subsets.
LEMMA SubsetInduction ==
  ASSUME NEW D, IsFiniteSet(D), NEW P, {} \in P,
         \A S \in SUBSET D : (\A x \in S : S \ {x} \in P) => S \in P
  PROVE  SUBSET D \subseteq P
<1> SUFFICES ASSUME (SUBSET D) \ P # {} PROVE FALSE
  OBVIOUS
<1> DEFINE R == StrictSubsetOrdering(D)
<1>1. IsWellFoundedOn(R, SUBSET D)
  <2>1. FiniteSubsetsOf(D) = SUBSET D
    BY FS_FiniteSubsetsOfFinite
  <2>2. IsWellFoundedOn(R, FiniteSubsetsOf(D))
    BY FS_StrictSubsetOrderingWellFounded
  <2> QED BY <2>1, <2>2
<1>2. \A S \in SUBSET D : \A x \in S : <<S \ {x}, S>> \in R
  BY DEF StrictSubsetOrdering
<1> HIDE DEF R
<1>3. PICK S \in (SUBSET D) \ P : \A T \in (SUBSET D) \ P : ~(<<T, S>> \in R)
  BY <1>1, WFMin
<1>4. \A x \in S : S \ {x} \in P
  BY <1>2, <1>3
<1> QED BY <1>3, <1>4

\* The equation of the fold of the community modules, over every subset of D.
UnfoldsOver(D, f, g) ==
  g = [S \in SUBSET D |-> IF S = {} THEN 0
         ELSE f[CHOOSE x \in S : TRUE] + g[S \ {CHOOSE x \in S : TRUE}]]

\* The fold of the community modules takes its elements in an order CHOOSE decides.
\* A fold of numbers exists, is the sum of the part it is taken over, and any
\* element may be taken out first.
LEMMA SumExists ==
  ASSUME NEW D, IsFiniteSet(D), NEW f \in [D -> Nat]
  PROVE  \E g \in [SUBSET D -> Nat] : UnfoldsOver(D, f, g)
<1> DEFINE c(S) == CHOOSE x \in S : TRUE
           Small(n) == {S \in SUBSET D : Cardinality(S) <= n}
           Good(g, n) == \A S \in Small(n) :
                            g[S] = IF S = {} THEN 0 ELSE f[c(S)] + g[S \ {c(S)}]
           T == {n \in Nat : \E g \in [Small(n) -> Nat] : Good(g, n)}
<1>1. \A S \in SUBSET D : IsFiniteSet(S) /\ Cardinality(S) \in Nat /\ Cardinality(S) <= Cardinality(D)
  BY FS_Subset, FS_CardinalityType
<1>2. Cardinality({}) = 0 /\ \A S \in SUBSET D : Cardinality(S) = 0 => S = {}
  BY <1>1, FS_EmptySet
<1>3. \A S \in SUBSET D : S # {} => c(S) \in S
  OBVIOUS
<1> HIDE DEF c
<1>4. \A S \in SUBSET D : S # {} => /\ S \ {c(S)} \in SUBSET D /\ f[c(S)] \in Nat
                                    /\ Cardinality(S \ {c(S)}) = Cardinality(S) - 1
  <2> TAKE S \in SUBSET D
  <2> HAVE S # {}
  <2>1. c(S) \in S /\ c(S) \in D /\ IsFiniteSet(S)
    BY <1>1, <1>3
  <2> QED BY <2>1, FS_RemoveElement
<1>5. 0 \in T
  <2> DEFINE g == [S \in Small(0) |-> 0]
  <2>1. g \in [Small(0) -> Nat]
    OBVIOUS
  <2>2. \A S \in Small(0) : S = {}
    BY <1>1, <1>2
  <2>3. Good(g, 0)
    BY <2>2
  <2> QED BY <2>1, <2>3
<1>6. ASSUME NEW n \in Nat, n \in T PROVE n + 1 \in T
  <2>1. PICK g \in [Small(n) -> Nat] : Good(g, n)
    BY <1>6
  <2> DEFINE h == [S \in Small(n + 1) |-> IF S \in Small(n) THEN g[S] ELSE f[c(S)] + g[S \ {c(S)}]]
  <2>2. \A S \in Small(n + 1) : S # {} => S \ {c(S)} \in Small(n) /\ f[c(S)] \in Nat
    BY <1>1, <1>4
  <2>3. \A S \in Small(n + 1) : S \notin Small(n) => S # {}
    <3>1. {} \in Small(n)
      BY <1>2
    <3> QED BY <3>1
  <2>4. Small(n) \subseteq Small(n + 1)
    BY <1>1
  <2> HIDE DEF Small
  <2>5. h \in [Small(n + 1) -> Nat]
    BY <2>1, <2>2, <2>3
  <2>6. Good(h, n + 1)
    <3> SUFFICES ASSUME NEW S \in Small(n + 1)
                 PROVE  h[S] = IF S = {} THEN 0 ELSE f[c(S)] + h[S \ {c(S)}]
      OBVIOUS
    <3>1. S # {} => h[S \ {c(S)}] = g[S \ {c(S)}]
      BY <2>2, <2>4
    <3>2. CASE S \in Small(n)
      BY <2>1, <3>1, <3>2
    <3>3. CASE S \notin Small(n)
      BY <2>3, <3>1, <3>3
    <3> QED BY <3>2, <3>3
  <2> HIDE DEF Good, h
  <2> QED BY <2>5, <2>6
<1> HIDE DEF T
<1>7. Cardinality(D) \in T
  BY <1>1, <1>5, <1>6, NatInd
<1>8. PICK g \in [Small(Cardinality(D)) -> Nat] : Good(g, Cardinality(D))
  BY <1>7 DEF T
<1>9. Small(Cardinality(D)) = SUBSET D
  BY <1>1
<1>10. g = [S \in SUBSET D |-> IF S = {} THEN 0 ELSE f[c(S)] + g[S \ {c(S)}]]
  BY <1>8, <1>9
<1>11. UnfoldsOver(D, f, g)
  BY <1>10, Zenon DEF c, UnfoldsOver
<1> QED BY <1>8, <1>9, <1>11

Total(f) == FoldFunction(LAMBDA a, total : a + total, 0, f)
\* g has the sum of f over each subset of D.
Sums(D, f, g) ==
  /\ g \in [SUBSET D -> Nat] /\ g[{}] = 0
  /\ \A S \in SUBSET D : \A x \in S : g[S] = f[x] + g[S \ {x}]

LEMMA FoldIsSum ==
  ASSUME NEW D, IsFiniteSet(D), NEW f \in [D -> Nat]
  PROVE  \E g : Sums(D, f, g) /\ Total(f) = g[D]
<1> DEFINE c(S) == CHOOSE x \in S : TRUE
           Rec(g) == [S \in SUBSET D |-> IF S = {} THEN 0 ELSE f[c(S)] + g[S \ {c(S)}]]
           iter == CHOOSE g : g = Rec(g)
<1>1. iter = Rec(iter) /\ Total(f) = iter[D]
  <2>1. \E g : g = Rec(g)
    <3>1. PICK g \in [SUBSET D -> Nat] : UnfoldsOver(D, f, g)
      BY SumExists
    <3>2. g = Rec(g)
      BY <3>1, Zenon DEF UnfoldsOver
    <3> QED BY <3>2, Zenon
  <2>2. Total(f) = iter[D]
    BY DEF Total, FoldFunction, FoldFunctionOnSet, MapThenFoldSet
  <2> HIDE DEF Rec
  <2> QED BY <2>1, <2>2
<1> HIDE DEF iter
<1>2. \A S \in SUBSET D : iter[S] = IF S = {} THEN 0 ELSE f[c(S)] + iter[S \ {c(S)}]
  BY <1>1
<1>3. \A S \in SUBSET D : S # {} => c(S) \in S
  OBVIOUS
<1> HIDE DEF c
<1>9. \A S \in SUBSET D : iter[S] \in Nat
  <2> DEFINE N == {S \in SUBSET D : iter[S] \in Nat}
  <2>1. {} \in N
    <3>1. iter[{}] = 0
      BY <1>2
    <3> QED BY <3>1
  <2>2. ASSUME NEW S \in SUBSET D, \A x \in S : S \ {x} \in N PROVE S \in N
    <3>1. CASE S = {}
      BY <2>1, <3>1
    <3>2. CASE S # {}
      <4>1. iter[S] = f[c(S)] + iter[S \ {c(S)}] /\ c(S) \in S
        BY <1>2, <1>3, <3>2
      <4>2. f[c(S)] \in Nat /\ iter[S \ {c(S)}] \in Nat
        BY <2>2, <4>1
      <4> QED BY <4>1, <4>2
    <3> QED BY <3>1, <3>2
  <2>3. SUBSET D \subseteq N
    <3> HIDE DEF N
    <3> QED BY <2>1, <2>2, SubsetInduction
  <2> QED BY <2>3
<1> DEFINE P == {S \in SUBSET D : \A x \in S : iter[S] = f[x] + iter[S \ {x}]}
<1>4. {} \in P
  OBVIOUS
<1>5. ASSUME NEW S \in SUBSET D, \A x \in S : S \ {x} \in P PROVE S \in P
  <2>1. CASE S = {}
    BY <2>1, <1>4
  <2>2. CASE S # {}
    <3>1. c(S) \in S /\ iter[S] = f[c(S)] + iter[S \ {c(S)}] /\ iter[S \ {c(S)}] \in Nat /\ f[c(S)] \in Nat
      BY <1>2, <1>9, <1>3, <2>2
    <3>2. ASSUME NEW x \in S PROVE iter[S] = f[x] + iter[S \ {x}]
      <4>1. CASE x = c(S)
        BY <3>1, <4>1
      <4>2. CASE x # c(S)
        <5>1. iter[S \ {c(S)}] = f[x] + iter[(S \ {c(S)}) \ {x}]
          BY <1>5, <3>1, <4>2
        <5>2. iter[S \ {x}] = f[c(S)] + iter[(S \ {x}) \ {c(S)}]
          BY <1>5, <3>1, <4>2
        <5>3. (S \ {c(S)}) \ {x} = (S \ {x}) \ {c(S)}
          OBVIOUS
        <5>4. iter[(S \ {x}) \ {c(S)}] \in Nat /\ f[x] \in Nat
          <6>1. f[x] \in Nat
            OBVIOUS
          <6>2. \A U \in SUBSET D : iter[U] \in Nat
            BY <1>9
          <6> QED BY <6>1, <6>2
        <5> QED BY <3>1, <5>1, <5>2, <5>3, <5>4
      <4> QED BY <4>1, <4>2
    <3> QED BY <3>1, <3>2
  <2> QED BY <2>1, <2>2
<1>6. SUBSET D \subseteq P
  <2> HIDE DEF P
  <2> QED BY <1>4, <1>5, SubsetInduction
<1>7. iter = [S \in SUBSET D |-> iter[S]]
  BY <1>1
<1>8. iter \in [SUBSET D -> Nat] /\ iter[{}] = 0
  BY <1>2, <1>9, <1>7
<1>10. Sums(D, f, iter)
  BY <1>6, <1>8 DEF Sums
<1> QED BY <1>1, <1>10, Zenon

\* One more key adds its value.
LEMMA TotalGrows ==
  ASSUME NEW D, IsFiniteSet(D), NEW f \in [D -> Nat], NEW x, x \notin D,
         NEW g \in [D \cup {x} -> Nat], \A y \in D : g[y] = f[y]
  PROVE  Total(f) \in Nat /\ Total(g) \in Nat /\ Total(g) = Total(f) + g[x]
<1> DEFINE E == D \cup {x}
<1>1. PICK F : Sums(D, f, F) /\ Total(f) = F[D]
  BY FoldIsSum
<1>2. IsFiniteSet(E)
  BY FS_AddElement
<1>3. PICK G : Sums(E, g, G) /\ Total(g) = G[E]
  BY <1>2, FoldIsSum
<1>9. /\ F[{}] = 0 /\ F[D] \in Nat
      /\ \A S \in SUBSET D : \A y \in S : F[S] = f[y] + F[S \ {y}]
  BY <1>1 DEF Sums
<1>10. /\ G[{}] = 0 /\ G[E] \in Nat
       /\ \A S \in SUBSET E : \A y \in S : G[S] = g[y] + G[S \ {y}]
  BY <1>3 DEF Sums
<1> DEFINE P == {S \in SUBSET D : F[S] = G[S]}
<1>4. {} \in P
  BY <1>9, <1>10
<1>5. ASSUME NEW S \in SUBSET D, \A y \in S : S \ {y} \in P PROVE S \in P
  <2>1. CASE S = {}
    BY <1>4, <2>1
  <2>2. CASE S # {}
    <3>1. PICK y \in S : TRUE
      BY <2>2
    <3>2. F[S] = f[y] + F[S \ {y}]
      BY <1>9, <3>1
    <3>3. G[S] = g[y] + G[S \ {y}]
      BY <1>10, <3>1
    <3> QED BY <1>5, <3>1, <3>2, <3>3
  <2> QED BY <2>1, <2>2
<1>6. D \in P
  <2> HIDE DEF P
  <2>1. SUBSET D \subseteq P
    BY <1>4, <1>5, SubsetInduction
  <2> QED BY <2>1
<1>7. G[E] = g[x] + G[E \ {x}] /\ E \ {x} = D
  <2>1. x \in E /\ E \in SUBSET E /\ E \ {x} = D
    OBVIOUS
  <2> QED BY <1>10, <2>1
<1>8. F[D] \in Nat /\ G[E] \in Nat /\ g[x] \in Nat
  BY <1>9, <1>10
<1> QED BY <1>1, <1>3, <1>6, <1>7, <1>8

\* Nothing adds up to nothing.
LEMMA TotalEmpty == ASSUME NEW f \in [{} -> Nat] PROVE Total(f) = 0
<1>1. IsFiniteSet({})
  BY FS_EmptySet
<1>2. PICK F : Sums({}, f, F) /\ Total(f) = F[{}]
  BY <1>1, FoldIsSum
<1> QED BY <1>2 DEF Sums

----------------------------------------------------------------------------
(* The invariant.                                                          *)

Running == {s \in Steps : phase[s] = "running"}
Asking == {s \in Steps : phase[s] = "asking"}
Members == Units[unit]
\* What the ledger leaves of the ceiling, whoever holds it.
Room == Monus(Ceiling, ledger.cumulative)

Ledgers == [cumulative: Nat, costUnknown: BOOLEAN, exceeded: BOOLEAN, unaccountedStop: BOOLEAN]

Typed ==
  /\ unit \in 1..(Len(Units) + 1) /\ phase \in [Steps -> Phases]
  /\ ledger \in Ledgers
  /\ held \in [IF Capped THEN Running ELSE {} -> Nat]
  /\ awaiting \subseteq Asking /\ left \in [Steps -> 0..Retries]
  /\ run \in {"going", "stopped", "aborted"} /\ overshoot \in Nat
\* While a group starts nothing else moves, those not served are awaited, and what
\* is left of the room covers an equal share for each of them.
Fair ==
  Starting =>
    /\ run = "going" /\ unit <= Len(Units) /\ Asking \subseteq Members
    /\ awaiting = Asking \/ (awaiting = {} /\ Cardinality(Members) = 1)
    /\ Capped => Available >= Cardinality(Asking) * (Room \div Cardinality(Members))
AllowanceInv == Typed /\ CeilingShared /\ Fair

LEMMA Constants ==
  ASSUME AllowanceAssumption
  PROVE  /\ IsFiniteSet(Steps) /\ Len(Units) \in Nat
         /\ \A i \in 1..Len(Units) : Units[i] \in SUBSET Steps /\ Units[i] # {}
         /\ \A i \in 1..Len(Units) : IsFiniteSet(Units[i]) /\ Cardinality(Units[i]) \in Nat \ {0}
         /\ Capped => Ceiling \in Nat
         /\ Retries \in Nat /\ MaxCost \in Nat
<1>1. IsFiniteSet(Steps) /\ Len(Units) \in Nat /\ (Capped => Ceiling \in Nat) /\ Retries \in Nat /\ MaxCost \in Nat
  BY DEF AllowanceAssumption, Capped
<1>2. \A i \in 1..Len(Units) : Units[i] \in SUBSET Steps /\ Units[i] # {}
  BY DEF AllowanceAssumption
<1>3. ASSUME NEW i \in 1..Len(Units)
      PROVE  IsFiniteSet(Units[i]) /\ Cardinality(Units[i]) \in Nat \ {0}
  <2>1. IsFiniteSet(Units[i])
    BY <1>1, <1>2, FS_Subset
  <2>2. Cardinality(Units[i]) \in Nat /\ Cardinality(Units[i]) # 0
    BY <1>2, <2>1, FS_CardinalityType, FS_EmptySet
  <2> QED BY <2>1, <2>2
<1> QED BY <1>1, <1>2, <1>3

LEMMA MonusType ==
  ASSUME NEW a \in Nat, NEW b \in Nat
  PROVE  Monus(a, b) \in Nat /\ (a > b => Monus(a, b) = a - b) /\ (~(a > b) => Monus(a, b) = 0)
BY DEF Monus

\* What runs is finite, and what it holds adds up to a number.
LEMMA HeldTypes ==
  ASSUME AllowanceAssumption, Typed
  PROVE  /\ IsFiniteSet(Running) /\ IsFiniteSet(DOMAIN held) /\ IsFiniteSet(Asking) /\ IsFiniteSet(awaiting)
         /\ Cardinality(Asking) \in Nat /\ Cardinality(awaiting) \in Nat
         /\ held \in [DOMAIN held -> Nat] /\ DOMAIN held = IF Capped THEN Running ELSE {}
         /\ TotalHeld \in Nat /\ TotalHeld = Total(held)
<1>1. IsFiniteSet(Running) /\ IsFiniteSet(Asking)
  BY Constants, FS_Subset DEF Running, Asking
<1>2. IsFiniteSet(DOMAIN held) /\ held \in [DOMAIN held -> Nat] /\ DOMAIN held = IF Capped THEN Running ELSE {}
  BY <1>1, FS_EmptySet DEF Typed, Ledgers
<1>3. IsFiniteSet(awaiting)
  BY <1>1, FS_Subset DEF Typed, Ledgers
<1>4. TotalHeld = Total(held)
  BY DEF TotalHeld, Total
<1>5. Total(held) \in Nat
  <2>1. PICK F : Sums(DOMAIN held, held, F) /\ Total(held) = F[DOMAIN held]
    BY <1>2, FoldIsSum
  <2> QED BY <2>1 DEF Sums
<1> QED BY <1>1, <1>2, <1>3, <1>4, <1>5, FS_CardinalityType

\* An equal share of what covers equal shares leaves the others theirs.
LEMMA ShareCovers ==
  ASSUME NEW a \in Nat, NEW k \in Nat, NEW q \in Nat, a >= (k + 1) * q
  PROVE  /\ a \div (k + 1) \in Nat /\ a \div (k + 1) <= a
         /\ a \div (k + 1) >= q
         /\ a - (a \div (k + 1)) >= k * q
<1> DEFINE d == a \div (k + 1)
<1>1. d \in Nat /\ (k + 1) * d <= a /\ a < (k + 1) * d + (k + 1)
  OBVIOUS
<1> HIDE DEF d
<1>2. d >= q
  <2> SUFFICES ASSUME d + 1 <= q PROVE FALSE
    BY <1>1
  <2>1. (k + 1) * (d + 1) <= (k + 1) * q
    BY <1>1
  <2>2. (k + 1) * (d + 1) = (k + 1) * d + (k + 1)
    BY <1>1
  <2>3. (k + 1) * d \in Nat /\ (k + 1) * q \in Nat
    BY <1>1
  <2> QED BY <1>1, <2>1, <2>2, <2>3
<1>3. (k + 1) * d = k * d + d /\ k * d >= k * q /\ k * d \in Nat /\ k * q \in Nat
  BY <1>1, <1>2
<1>4. a - d >= k * d /\ d <= a
  BY <1>1, <1>3
<1> QED BY <1>1, <1>2, <1>3, <1>4 DEF d

LEMMA AllowanceInit == AllowanceAssumption /\ Init => AllowanceInv
<1> SUFFICES ASSUME AllowanceAssumption, Init PROVE AllowanceInv
  OBVIOUS
<1>1. Running = {} /\ Asking = {} /\ ~Starting
  BY DEF Init, Running, Asking, Starting
<1>2. held \in [{} -> Nat]
  BY DEF Init
<1>3. TotalHeld = 0
  BY <1>2, TotalEmpty DEF TotalHeld, Total
<1>4. Typed
  BY <1>1, <1>2, Constants DEF Init, Typed, Ledgers, Phases
<1>5. CeilingShared
  BY <1>3, Constants DEF CeilingShared, Init
<1> QED BY <1>1, <1>4, <1>5 DEF AllowanceInv, Fair

\* A share is held by nobody else, and fits in what is available.
LEMMA ReserveKeeps ==
  ASSUME AllowanceAssumption, Typed, CeilingShared, NEW s \in Steps, phase[s] \in {"asking", "closed"},
         Reserve(s), UNCHANGED <<unit, ledger, run, overshoot>>, left' \in [Steps -> 0..Retries]
  PROVE  /\ Typed' /\ CeilingShared' /\ Asking' = Asking \ {s} /\ Running' = Running \cup {s}
         /\ Capped => LET share == Share(awaiting \ {s}) IN
              /\ Available \in Nat /\ share \in Nat /\ share <= Available
              /\ Available' = Available - share /\ held'[s] = share
<1> DEFINE share == Share(awaiting \ {s})
           W == awaiting \ {s}
<1>1. Asking' = Asking \ {s} /\ Running' = Running \cup {s} /\ s \notin Running
  BY DEF Typed, Ledgers, Phases, Reserve, Asking, Running
<1>2. Cardinality(W) \in Nat
  BY HeldTypes, FS_RemoveElement, FS_CardinalityType
<1>3. TotalHeld \in Nat /\ ledger.cumulative \in Nat /\ ledger'.cumulative = ledger.cumulative
      /\ overshoot \in Nat
  BY HeldTypes DEF Typed, Ledgers
<1>4. CASE Capped
  <2>1. Ceiling \in Nat /\ Available \in Nat
    BY <1>3, <1>4, Constants, MonusType DEF Available
  <2>2. share \in Nat /\ share <= Available
    <3>1. Available >= (Cardinality(W) + 1) * 0
      BY <1>2, <2>1
    <3>2. share = Available \div (Cardinality(W) + 1)
      BY DEF Share
    <3> QED BY <1>2, <2>1, <3>1, <3>2, ShareCovers
  <2>3. held \in [Running -> Nat] /\ IsFiniteSet(Running)
    BY <1>4, HeldTypes
  <2>4. held' = [t \in Running \cup {s} |-> IF t = s THEN share ELSE held[t]]
    BY <1>4, <2>3 DEF Reserve
  <2> HIDE DEF share
  <2>5. held' \in [Running \cup {s} -> Nat] /\ held'[s] = share /\ \A y \in Running : held'[y] = held[y]
    BY <1>1, <2>2, <2>3, <2>4
  <2>6. Total(held') = Total(held) + held'[s]
    BY <1>1, <2>3, <2>5, TotalGrows
  <2>7. TotalHeld' = TotalHeld + share /\ TotalHeld' \in Nat
    <3>1. TotalHeld' = Total(held') /\ TotalHeld = Total(held)
      BY DEF TotalHeld, Total, FoldFunction, FoldFunctionOnSet, MapThenFoldSet
    <3> QED BY <1>3, <2>2, <2>5, <2>6, <3>1
  <2>8. Available' = Available - share
    <3>1. Available = Monus(Ceiling, ledger.cumulative + TotalHeld)
          /\ Available' = Monus(Ceiling, ledger.cumulative + TotalHeld')
      BY <1>3 DEF Available, Monus
    <3>2. CASE Ceiling > ledger.cumulative + TotalHeld
      BY <1>3, <2>1, <2>2, <2>7, <3>1, <3>2 DEF Monus
    <3>3. CASE ~(Ceiling > ledger.cumulative + TotalHeld)
      BY <1>3, <2>1, <2>2, <2>7, <3>1, <3>3 DEF Monus
    <3> QED BY <3>2, <3>3
  <2>9. CeilingShared'
    <3>1. ledger.cumulative + TotalHeld <= Ceiling + overshoot
      BY <1>4 DEF CeilingShared
    <3>2. share = 0 \/ ledger.cumulative + TotalHeld + share <= Ceiling
      BY <1>3, <2>1, <2>2 DEF Available, Monus
    <3>3. overshoot' = overshoot
      OBVIOUS
    <3> QED BY <1>3, <2>1, <2>2, <2>7, <3>1, <3>2, <3>3 DEF CeilingShared
  <2>10. Typed'
    <3>1. held' \in [IF Capped THEN Running' ELSE {} -> Nat]
      BY <1>1, <1>4, <2>5
    <3> QED BY <1>1, <3>1 DEF Typed, Ledgers, Reserve, Phases, Capped
  <2> QED BY <1>1, <2>1, <2>2, <2>5, <2>8, <2>9, <2>10 DEF share
<1>5. CASE ~Capped
  <2>1. Typed'
    <3>1. held' \in [IF Capped THEN Running' ELSE {} -> Nat]
      BY <1>5 DEF Typed, Ledgers, Reserve
    <3> QED BY <1>1, <3>1 DEF Typed, Ledgers, Reserve, Phases, Capped
  <2>2. CeilingShared'
    BY <1>5 DEF CeilingShared, Capped
  <2> QED BY <1>1, <1>5, <2>1, <2>2
<1> QED BY <1>4, <1>5

\* What ends gives back what it held.
LEMMA ReleaseKeeps ==
  ASSUME AllowanceAssumption, Typed, NEW s \in Steps, phase[s] = "running", NEW p \in {"closed", "over"},
         held' = Without(held, s), phase' = [phase EXCEPT ![s] = p]
  PROVE  /\ phase' \in [Steps -> Phases] /\ Asking' = Asking /\ Running' = Running \ {s}
         /\ held' \in [IF Capped THEN Running' ELSE {} -> Nat]
         /\ Capped => /\ s \in DOMAIN held /\ held[s] \in Nat /\ TotalHeld' \in Nat
                      /\ TotalHeld = TotalHeld' + held[s]
         /\ ~Capped => s \notin DOMAIN held
<1>1. phase' \in [Steps -> Phases] /\ Asking' = Asking /\ Running' = Running \ {s} /\ s \in Running
  BY DEF Typed, Ledgers, Phases, Asking, Running
<1>2. held \in [DOMAIN held -> Nat] /\ DOMAIN held = (IF Capped THEN Running ELSE {}) /\ IsFiniteSet(Running)
  BY HeldTypes
<1>3. held' = [x \in DOMAIN held \ {s} |-> held[x]]
  BY DEF Without, Restrict
<1>4. held' \in [DOMAIN held \ {s} -> Nat] /\ \A y \in DOMAIN held \ {s} : held[y] = held'[y]
  BY <1>2, <1>3
<1>5. DOMAIN held \ {s} = IF Capped THEN Running' ELSE {}
  BY <1>1, <1>2
<1>6. held' \in [IF Capped THEN Running' ELSE {} -> Nat]
  BY <1>4, <1>5
<1>7. ASSUME Capped
      PROVE  s \in DOMAIN held /\ held[s] \in Nat /\ TotalHeld' \in Nat /\ TotalHeld = TotalHeld' + held[s]
  <2> DEFINE D == Running \ {s}
  <2>1. IsFiniteSet(D) /\ held' \in [D -> Nat] /\ s \notin D /\ D \cup {s} = Running
    BY <1>1, <1>2, <1>4, <1>7, FS_RemoveElement
  <2>2. held \in [D \cup {s} -> Nat] /\ \A y \in D : held[y] = held'[y]
    BY <1>2, <1>4, <1>7, <2>1
  <2> HIDE DEF D
  <2>3. Total(held') \in Nat /\ Total(held) = Total(held') + held[s]
    BY <2>1, <2>2, TotalGrows
  <2>4. TotalHeld' = Total(held') /\ TotalHeld = Total(held)
    BY DEF TotalHeld, Total, FoldFunction, FoldFunctionOnSet, MapThenFoldSet
  <2> QED BY <1>1, <1>2, <1>7, <2>3, <2>4 DEF D
<1> QED BY <1>1, <1>2, <1>6, <1>7

\* What changes neither the ledger, what is held nor who starts keeps the sharing.
LEMMA QuietKeeps ==
  ASSUME AllowanceAssumption, AllowanceInv, ~Starting, ~Starting',
         unit' \in 1..(Len(Units) + 1), phase' \in [Steps -> Phases], Running' = Running, Asking' = Asking,
         ledger' \in Ledgers,
         ledger'.cumulative = ledger.cumulative, left' = left,
         run' \in {"going", "stopped", "aborted"}, UNCHANGED <<held, awaiting, overshoot>>
  PROVE  AllowanceInv'
<1>1. Typed'
  BY DEF AllowanceInv, Typed, Ledgers, Capped
<1>2. CeilingShared'
  <2>1. TotalHeld' = TotalHeld
    BY DEF TotalHeld, FoldFunction, FoldFunctionOnSet, MapThenFoldSet
  <2> QED BY <2>1 DEF AllowanceInv, CeilingShared, Capped
<1> QED BY <1>1, <1>2 DEF AllowanceInv, Fair

\* An attempt that is charged gives back its allowance, and what it spent beyond it
\* is in the overshoot.
LEMMA ChargeKeeps ==
  ASSUME AllowanceAssumption, AllowanceInv, NEW s \in Steps, phase[s] = "running", ~Starting,
         NEW cost \in 0..MaxCost, ledger'.cumulative = ledger.cumulative + cost,
         ledger' \in Ledgers,
         overshoot' = overshoot + Overspent(s, cost), held' = Without(held, s),
         phase' = [phase EXCEPT ![s] = "closed"], UNCHANGED <<unit, awaiting, left, run>>
  PROVE  AllowanceInv'
<1>1. /\ phase' \in [Steps -> Phases] /\ Asking' = Asking /\ Running' = Running \ {s}
      /\ held' \in [IF Capped THEN Running' ELSE {} -> Nat]
      /\ Capped => /\ s \in DOMAIN held /\ held[s] \in Nat /\ TotalHeld' \in Nat
                   /\ TotalHeld = TotalHeld' + held[s]
  BY ReleaseKeeps DEF AllowanceInv
<1>2. cost \in Nat /\ ledger.cumulative \in Nat /\ overshoot \in Nat
  BY Constants DEF AllowanceInv, Typed, Ledgers
<1>3. Overspent(s, cost) \in Nat /\ (Capped => cost <= held[s] + Overspent(s, cost))
  <2>1. DOMAIN held = (IF Capped THEN Running ELSE {}) /\ held \in [DOMAIN held -> Nat]
    BY HeldTypes DEF AllowanceInv
  <2>2. CASE s \in DOMAIN held
    <3>1. held[s] \in Nat /\ Overspent(s, cost) = Monus(cost, held[s])
      BY <2>1, <2>2 DEF Overspent
    <3> QED BY <1>2, <3>1 DEF Monus
  <2>3. CASE s \notin DOMAIN held
    BY <1>1, <2>3 DEF Overspent
  <2> QED BY <2>2, <2>3
<1>4. Typed'
  BY <1>1, <1>2, <1>3 DEF AllowanceInv, Typed, Ledgers, Capped
<1>5. CeilingShared'
  <2> SUFFICES ASSUME Capped PROVE ledger'.cumulative + TotalHeld' <= Ceiling + overshoot'
    BY DEF CeilingShared, Capped
  <2>1. ledger.cumulative + TotalHeld <= Ceiling + overshoot /\ Ceiling \in Nat
    BY Constants DEF AllowanceInv, CeilingShared
  <2> QED BY <1>1, <1>2, <1>3, <2>1
<1>6. ~Starting'
  BY <1>1 DEF Starting, Asking
<1> QED BY <1>4, <1>5, <1>6 DEF AllowanceInv, Fair

\* A group starts with nothing held: what is left covers an equal share each.
LEMMA StartKeeps ==
  ASSUME AllowanceAssumption, AllowanceInv, StartUnit PROVE AllowanceInv'
<1>1. unit \in 1..Len(Units) /\ Members \in SUBSET Steps /\ IsFiniteSet(Members)
      /\ Cardinality(Members) \in Nat \ {0}
  BY Constants DEF StartUnit, AllowanceInv, Typed, Ledgers, Members
<1>2. Running = {} /\ Asking = {} /\ ~Starting
  BY DEF StartUnit, Settled, Running, Asking, Starting
<1>3. phase' \in [Steps -> Phases] /\ Running' = {} /\ Asking' = Members
  <2>1. phase' = [s \in Steps |-> IF s \in Members THEN "asking" ELSE phase[s]] /\ phase \in [Steps -> Phases]
    BY DEF StartUnit, Members, AllowanceInv, Typed, Ledgers
  <2> QED BY <1>1, <1>2, <2>1 DEF Phases, Running, Asking
<1>4. awaiting = {} /\ awaiting' = IF Cardinality(Members) > 1 THEN Members ELSE {}
  BY <1>2 DEF StartUnit, AllowanceInv, Typed, Ledgers, Members
<1>5. Typed'
  BY <1>1, <1>2, <1>3, <1>4 DEF StartUnit, AllowanceInv, Typed, Ledgers, Capped
<1>6. TotalHeld' = TotalHeld /\ ledger' = ledger /\ Members' = Members
  BY DEF StartUnit, TotalHeld, FoldFunction, FoldFunctionOnSet, MapThenFoldSet, Members
<1>7. CeilingShared'
  BY <1>6 DEF StartUnit, AllowanceInv, CeilingShared, Capped
<1>8. ASSUME Capped
      PROVE  Available' >= Cardinality(Members) * (Room' \div Cardinality(Members))
  <2>1. held \in [{} -> Nat] /\ ledger.cumulative \in Nat /\ Ceiling \in Nat
    BY <1>2, <1>8, Constants DEF AllowanceInv, Typed, Ledgers
  <2>2. TotalHeld = 0
    BY <2>1, TotalEmpty DEF TotalHeld, Total
  <2>3. Available' = Room /\ Room' = Room /\ Room \in Nat
    BY <1>6, <2>1, <2>2, MonusType DEF Available, Room, Monus
  <2> QED BY <1>1, <2>3
<1>9. Fair'
  BY <1>1, <1>3, <1>4, <1>6, <1>8 DEF StartUnit, Fair, AllowanceInv, Typed, Ledgers, Capped
<1> QED BY <1>5, <1>7, <1>9 DEF AllowanceInv

\* The share of a member that asks, while its group starts.
LEMMA AskShare ==
  ASSUME AllowanceAssumption, AllowanceInv, NEW s \in Steps, phase[s] = "asking"
  PROVE  /\ unit \in 1..Len(Units) /\ Cardinality(Members) \in Nat \ {0}
         /\ Cardinality(Asking) \in Nat
         /\ Cardinality(Asking) = Cardinality(Asking \ {s}) + 1 /\ Cardinality(Asking \ {s}) \in Nat
         /\ Cardinality(awaiting \ {s}) = Cardinality(Asking \ {s})
         /\ Capped => /\ Available \in Nat /\ Room \in Nat /\ Room \div Cardinality(Members) \in Nat
                      /\ Share(awaiting \ {s}) >= Room \div Cardinality(Members)
                      /\ Available - Share(awaiting \ {s}) >=
                           Cardinality(Asking \ {s}) * (Room \div Cardinality(Members))
<1>1. Starting /\ s \in Asking
  BY DEF Starting, Asking
<1>2. unit \in 1..Len(Units) /\ IsFiniteSet(Members) /\ Cardinality(Members) \in Nat \ {0}
  BY <1>1, Constants DEF AllowanceInv, Fair, Typed, Ledgers, Members
<1>3. /\ IsFiniteSet(Asking) /\ Cardinality(Asking) \in Nat /\ Cardinality(Asking \ {s}) \in Nat
      /\ Cardinality(Asking) = Cardinality(Asking \ {s}) + 1
  <2>1. IsFiniteSet(Asking) /\ Cardinality(Asking) \in Nat
    BY HeldTypes DEF AllowanceInv
  <2>2. IsFiniteSet(Asking \ {s}) /\ Cardinality(Asking \ {s}) = Cardinality(Asking) - 1
    BY <1>1, <2>1, FS_RemoveElement
  <2>3. Cardinality(Asking \ {s}) \in Nat
    BY <2>2, FS_CardinalityType
  <2> QED BY <2>1, <2>2, <2>3
<1>4. Cardinality(awaiting \ {s}) = Cardinality(Asking \ {s})
  <2>1. CASE awaiting = Asking
    BY <2>1
  <2>2. CASE awaiting = {} /\ Cardinality(Members) = 1
    <3>1. Asking \subseteq Members
      BY <1>1 DEF AllowanceInv, Fair
    <3>2. PICK x : Members = {x}
      BY <1>2, <2>2, FS_Singleton
    <3>3. Asking \ {s} = {}
      BY <1>1, <3>1, <3>2
    <3> QED BY <2>2, <3>3
  <2> QED BY <1>1, <2>1, <2>2 DEF AllowanceInv, Fair
<1>5. ASSUME Capped
      PROVE  /\ Available \in Nat /\ Room \in Nat /\ Room \div Cardinality(Members) \in Nat
             /\ Share(awaiting \ {s}) >= Room \div Cardinality(Members)
             /\ Available - Share(awaiting \ {s}) >=
                  Cardinality(Asking \ {s}) * (Room \div Cardinality(Members))
  <2>1. ledger.cumulative \in Nat /\ TotalHeld \in Nat /\ Ceiling \in Nat
    BY <1>5, Constants, HeldTypes DEF AllowanceInv, Typed, Ledgers
  <2>2. Available \in Nat /\ Room \in Nat
    <3>1. ledger.cumulative + TotalHeld \in Nat
      BY <2>1
    <3> QED BY <2>1, <3>1, MonusType DEF Available, Room
  <2> DEFINE q == Room \div Cardinality(Members)
             k == Cardinality(Asking \ {s})
  <2>3. q \in Nat
    BY <1>2, <2>2
  <2>4. Available >= (k + 1) * q
    BY <1>1, <1>3, <1>5 DEF AllowanceInv, Fair
  <2>5. Share(awaiting \ {s}) = Available \div (k + 1)
    BY <1>4 DEF Share
  <2>6. k \in Nat
    BY <1>3
  <2> HIDE DEF q, k
  <2>7. Available \div (k + 1) >= q /\ Available - (Available \div (k + 1)) >= k * q
    BY <2>2, <2>3, <2>4, <2>6, ShareCovers
  <2> QED BY <2>2, <2>3, <2>5, <2>7 DEF q, k
<1> QED BY <1>2, <1>3, <1>4, <1>5

LEMMA AskKeeps ==
  ASSUME AllowanceAssumption, AllowanceInv, NEW s \in Steps, Ask(s) PROVE AllowanceInv'
<1>1. /\ phase[s] = "asking" /\ Reserve(s) /\ UNCHANGED <<unit, ledger, left, run, overshoot>>
      /\ awaiting' = awaiting \ {s} /\ left' \in [Steps -> 0..Retries]
  BY DEF Ask, Reserve, AllowanceInv, Typed, Ledgers
<1>2. /\ Typed' /\ CeilingShared' /\ Asking' = Asking \ {s}
      /\ Capped => Available' = Available - Share(awaiting \ {s})
  BY <1>1, ReserveKeeps DEF AllowanceInv
<1>3. Room' = Room /\ Members' = Members /\ (Capped <=> Capped')
  BY <1>1 DEF Room, Members, Capped, Monus
<1>4. Starting /\ s \in Asking
  BY <1>1 DEF Starting, Asking
<1>5. Fair'
  <2>1. /\ run = "going" /\ unit <= Len(Units) /\ Asking \subseteq Members
        /\ awaiting = Asking \/ (awaiting = {} /\ Cardinality(Members) = 1)
    BY <1>4 DEF AllowanceInv, Fair
  <2>2. Capped' => Available' >= Cardinality(Asking') * (Room' \div Cardinality(Members'))
    BY <1>1, <1>2, <1>3, AskShare
  <2> QED BY <1>1, <1>2, <1>3, <2>1, <2>2 DEF Fair
<1> QED BY <1>2, <1>5 DEF AllowanceInv

LEMMA RerunKeeps ==
  ASSUME AllowanceAssumption, AllowanceInv, NEW s \in Steps, Rerun(s) PROVE AllowanceInv'
<1>1. /\ phase[s] = "closed" /\ Reserve(s) /\ UNCHANGED <<unit, ledger, run, overshoot>> /\ ~Starting
  BY DEF Rerun
<1>2. left' \in [Steps -> 0..Retries]
  BY Constants DEF Rerun, AllowanceInv, Typed, Ledgers
<1>3. Typed' /\ CeilingShared' /\ Asking' = Asking \ {s}
  BY <1>1, <1>2, ReserveKeeps DEF AllowanceInv
<1>4. ~Starting'
  BY <1>1, <1>3 DEF Starting, Asking
<1> QED BY <1>3, <1>4 DEF AllowanceInv, Fair

LEMMA LedgerFields ==
  ASSUME ledger \in Ledgers, NEW cost \in Nat, NEW b, NEW c
  PROVE  /\ [ledger EXCEPT !.cumulative = @ + cost, !.costUnknown = @ \/ b, !.exceeded = @ \/ c] \in Ledgers
         /\ [ledger EXCEPT !.cumulative = @ + cost, !.costUnknown = TRUE, !.unaccountedStop = TRUE] \in Ledgers
         /\ [ledger EXCEPT !.unaccountedStop = @ \/ b] \in Ledgers
<1> DEFINE x == ledger.costUnknown \/ b
           y == ledger.exceeded \/ c
           z == ledger.unaccountedStop \/ b
<1>1. x \in BOOLEAN /\ y \in BOOLEAN /\ z \in BOOLEAN
  BY Zenon
<1>2. ledger.cumulative + cost \in Nat
  BY DEF Ledgers
<1> HIDE DEF x, y, z
<1>3. [ledger EXCEPT !.cumulative = @ + cost, !.costUnknown = x, !.exceeded = y] \in Ledgers
  BY <1>1, <1>2 DEF Ledgers
<1>4. [ledger EXCEPT !.unaccountedStop = z] \in Ledgers
  BY <1>1 DEF Ledgers
<1>5. [ledger EXCEPT !.cumulative = @ + cost, !.costUnknown = TRUE, !.unaccountedStop = TRUE] \in Ledgers
  BY <1>2 DEF Ledgers
<1> QED BY <1>3, <1>4, <1>5, Zenon DEF x, y, z

LEMMA AttemptsKeep ==
  ASSUME AllowanceAssumption, AllowanceInv, NEW s \in Steps, Attempts(s) PROVE AllowanceInv'
<1>1. CASE Ask(s)
  BY <1>1, AskKeeps
<1>2. CASE Rerun(s)
  BY <1>2, RerunKeeps
<1>3. CASE EndStep(s)
  <2>1. phase' \in [Steps -> Phases] /\ Running' = Running /\ Asking' = Asking /\ ~Starting /\ ~Starting'
    BY <1>3 DEF EndStep, AllowanceInv, Typed, Ledgers, Phases, Running, Asking, Starting
  <2> QED BY <1>3, <2>1, QuietKeeps DEF EndStep, AllowanceInv, Typed, Ledgers
<1>4. CASE RerunWithheld(s)
  <2>1. phase' \in [Steps -> Phases] /\ Running' = Running /\ Asking' = Asking /\ ~Starting /\ ~Starting'
    BY <1>4 DEF RerunWithheld, AllowanceInv, Typed, Ledgers, Phases, Running, Asking, Starting
  <2>2. PICK b : ledger' = [ledger EXCEPT !.unaccountedStop = @ \/ b]
    BY <1>4 DEF RerunWithheld, Withheld
  <2>3. /\ ledger' \in Ledgers
        /\ ledger'.cumulative = ledger.cumulative
    <3>1. ledger \in Ledgers /\ 0 \in Nat
      BY DEF AllowanceInv, Typed
    <3>2. ledger' \in Ledgers
      BY <2>2, <3>1, LedgerFields
    <3>3. ledger'.cumulative = ledger.cumulative
      BY <2>2, <3>1 DEF Ledgers
    <3> QED BY <3>2, <3>3
  <2> QED BY <1>4, <2>1, <2>3, QuietKeeps DEF RerunWithheld, AllowanceInv, Typed, Ledgers
<1>5. CASE FinishAborted(s)
  <2>1. phase[s] = "running" /\ held' = Without(held, s) /\ phase' = [phase EXCEPT ![s] = "over"]
        /\ UNCHANGED <<unit, ledger, awaiting, left, run, overshoot>> /\ run = "aborted"
    BY <1>5 DEF FinishAborted, Release
  <2>2. /\ phase' \in [Steps -> Phases] /\ Asking' = Asking /\ Running' = Running \ {s}
        /\ held' \in [IF Capped THEN Running' ELSE {} -> Nat]
        /\ Capped => held[s] \in Nat /\ TotalHeld' \in Nat /\ TotalHeld = TotalHeld' + held[s]
    BY <2>1, ReleaseKeeps DEF AllowanceInv
  <2>3. Typed'
    BY <2>1, <2>2 DEF AllowanceInv, Typed, Ledgers, Capped
  <2>4. CeilingShared'
    <3> SUFFICES ASSUME Capped PROVE ledger'.cumulative + TotalHeld' <= Ceiling + overshoot'
      BY DEF CeilingShared, Capped
    <3>1. ledger.cumulative + TotalHeld <= Ceiling + overshoot /\ Ceiling \in Nat
          /\ ledger.cumulative \in Nat /\ overshoot \in Nat
      BY Constants DEF AllowanceInv, CeilingShared, Typed, Ledgers
    <3> QED BY <2>1, <2>2, <3>1
  <2>5. ~Starting'
    <3>1. ~Starting
      BY <2>1 DEF AllowanceInv, Fair
    <3> QED BY <2>2, <3>1 DEF Starting, Asking
  <2> QED BY <2>3, <2>4, <2>5 DEF AllowanceInv, Fair
<1>6. CASE LeaveAborted(s)
  <2>1. phase' \in [Steps -> Phases] /\ Running' = Running /\ Asking' = Asking
    BY <1>6 DEF LeaveAborted, AllowanceInv, Typed, Ledgers, Phases, Running, Asking
  <2>2. ~Starting /\ ~Starting'
    BY <1>6, <2>1 DEF LeaveAborted, AllowanceInv, Fair, Starting, Asking
  <2> QED BY <1>6, <2>1, <2>2, QuietKeeps DEF LeaveAborted, AllowanceInv, Typed, Ledgers
<1>7. ASSUME NEW cost \in 0..MaxCost, GuardUnpriced(s, cost) PROVE AllowanceInv'
  <2>1. cost \in Nat
    BY Constants
  <2>2. /\ ledger' = [ledger EXCEPT !.cumulative = @ + cost, !.costUnknown = TRUE, !.unaccountedStop = TRUE]
        /\ phase[s] = "running" /\ ~Starting /\ overshoot' = overshoot + Overspent(s, cost)
        /\ held' = Without(held, s) /\ phase' = [phase EXCEPT ![s] = "closed"]
        /\ UNCHANGED <<unit, awaiting, left, run>>
    BY <1>7 DEF GuardUnpriced
  <2>4. ledger \in Ledgers
    BY DEF AllowanceInv, Typed, Ledgers
  <2>5. ledger' \in Ledgers
    BY <2>1, <2>2, <2>4, LedgerFields
  <2>6. ledger'.cumulative = ledger.cumulative + cost
    BY <2>2, <2>4 DEF Ledgers
  <2> QED BY <2>2, <2>5, <2>6, ChargeKeeps
<1>8. ASSUME NEW cost \in 0..MaxCost, NEW unpriced \in BOOLEAN, NEW killed \in BOOLEAN,
             Finish(s, cost, unpriced, killed)
      PROVE  AllowanceInv'
  <2>1. cost \in Nat
    BY Constants
  <2>2. /\ ledger' = [ledger EXCEPT !.cumulative = @ + cost, !.costUnknown = @ \/ unpriced,
                                    !.exceeded = @ \/ killed]
        /\ phase[s] = "running" /\ ~Starting /\ overshoot' = overshoot + Overspent(s, cost)
        /\ held' = Without(held, s) /\ phase' = [phase EXCEPT ![s] = "closed"]
        /\ UNCHANGED <<unit, awaiting, left, run>>
    BY <1>8 DEF Finish, Charge, Release
  <2>4. ledger \in Ledgers
    BY DEF AllowanceInv, Typed, Ledgers
  <2>5. ledger' \in Ledgers
    BY <2>1, <2>2, <2>4, LedgerFields
  <2>6. ledger'.cumulative = ledger.cumulative + cost
    BY <2>2, <2>4 DEF Ledgers
  <2> QED BY <2>2, <2>5, <2>6, ChargeKeeps
<1> QED BY <1>1, <1>2, <1>3, <1>4, <1>5, <1>6, <1>7, <1>8 DEF Attempts

LEMMA AllowanceNext == AllowanceAssumption /\ AllowanceInv /\ [Next]_vars => AllowanceInv'
<1> SUFFICES ASSUME AllowanceAssumption, AllowanceInv, [Next]_vars PROVE AllowanceInv'
  OBVIOUS
<1>1. CASE StartUnit
  BY <1>1, StartKeeps
<1>2. CASE AdmissionWithheld
  <2>1. Running' = Running /\ Asking' = Asking /\ ~Starting /\ ~Starting'
    BY <1>2 DEF AdmissionWithheld, Settled, Running, Asking, Starting
  <2>2. PICK b : ledger' = [ledger EXCEPT !.unaccountedStop = @ \/ b]
    BY <1>2 DEF AdmissionWithheld, Withheld
  <2>3. /\ ledger' \in Ledgers
        /\ ledger'.cumulative = ledger.cumulative
    <3>1. ledger \in Ledgers /\ 0 \in Nat
      BY DEF AllowanceInv, Typed
    <3>2. ledger' \in Ledgers
      BY <2>2, <3>1, LedgerFields
    <3>3. ledger'.cumulative = ledger.cumulative
      BY <2>2, <3>1 DEF Ledgers
    <3> QED BY <3>2, <3>3
  <2> QED BY <1>2, <2>1, <2>3, QuietKeeps DEF AdmissionWithheld, AllowanceInv, Typed, Ledgers
<1>3. CASE NextUnit
  <2>1. Running' = Running /\ Asking' = Asking
    BY <1>3 DEF NextUnit, Running, Asking
  <2>2. ~Starting /\ ~Starting'
    BY <1>3, <2>1 DEF NextUnit, AllowanceInv, Fair, Starting, Asking, Members
  <2>3. unit' \in 1..(Len(Units) + 1)
    BY <1>3, Constants DEF NextUnit, AllowanceInv, Typed, Ledgers
  <2> QED BY <1>3, <2>1, <2>2, <2>3, QuietKeeps DEF NextUnit, AllowanceInv, Typed, Ledgers
<1>4. CASE Abort
  <2>1. Running' = Running /\ Asking' = Asking /\ ~Starting /\ ~Starting'
    BY <1>4 DEF Abort, Running, Asking, Starting
  <2> QED BY <1>4, <2>1, QuietKeeps DEF Abort, AllowanceInv, Typed, Ledgers
<1>5. CASE UNCHANGED vars
  <2>1. TotalHeld' = TotalHeld
    BY <1>5 DEF vars, TotalHeld, FoldFunction, FoldFunctionOnSet, MapThenFoldSet
  <2>2. Typed' /\ CeilingShared'
    BY <1>5, <2>1 DEF vars, AllowanceInv, Typed, Ledgers, CeilingShared, Running, Asking, Capped
  <2>3. Fair'
    BY <1>5, <2>1 DEF vars, AllowanceInv, Fair, Starting, Asking, Members, Room, Available, Capped
  <2> QED BY <2>2, <2>3 DEF AllowanceInv
<1> QED BY <1>1, <1>2, <1>3, <1>4, <1>5, AttemptsKeep DEF Next, Progress

LEMMA AllowanceInvariant == AllowanceAssumption => (Spec => []AllowanceInv)
<1> SUFFICES ASSUME AllowanceAssumption PROVE Spec => []AllowanceInv
  OBVIOUS
<1>1. Init => AllowanceInv
  BY AllowanceInit
<1>2. AllowanceInv /\ [Next]_vars => AllowanceInv'
  BY AllowanceNext
<1> QED BY <1>1, <1>2, PTL DEF Spec

\* What closed attempts spent and what those in flight may spend is within the
\* ceiling, but for what they spent beyond their allowances (reserveAllowance), over
\* any pipeline; only a running attempt holds one, and nobody is awaited for ever.
THEOREM CeilingIsShared ==
    AllowanceAssumption => (Spec => [](CeilingShared /\ NothingLeaks))
<1> SUFFICES ASSUME AllowanceAssumption PROVE Spec => [](CeilingShared /\ NothingLeaks)
  OBVIOUS
<1>1. AllowanceInv => CeilingShared /\ NothingLeaks
  <2> SUFFICES ASSUME AllowanceInv PROVE NothingLeaks
    BY DEF AllowanceInv
  <2>1. \A s \in DOMAIN held : phase[s] = "running"
    BY DEF AllowanceInv, Typed, Ledgers, Running
  <2>2. ~Starting => awaiting = {}
    BY DEF AllowanceInv, Typed, Ledgers, Starting, Asking
  <2> QED BY <2>1, <2>2 DEF NothingLeaks
<1> QED BY <1>1, AllowanceInvariant, PTL

\* Whatever the order in which the members of a group ask, none finds less than an
\* equal share of what the group found.
THEOREM FirstSharesAreEqual ==
    AllowanceAssumption => (Spec => [][EqualFirstShares]_vars)
<1> SUFFICES ASSUME AllowanceAssumption PROVE Spec => [][EqualFirstShares]_vars
  OBVIOUS
<1>1. AllowanceInv /\ [Next]_vars => [EqualFirstShares]_vars
  <2> SUFFICES ASSUME AllowanceInv, Next, NEW s \in Steps, phase[s] = "asking", phase'[s] = "running", Capped
               PROVE  held'[s] >= Monus(Ceiling, ledger.cumulative) \div Cardinality(Units[unit])
    BY DEF EqualFirstShares
  <2>1. Starting /\ run = "going" /\ s \in Asking /\ phase \in [Steps -> Phases]
    BY DEF AllowanceInv, Fair, Starting, Asking, Typed, Ledgers
  <2>2. Ask(s)
    <3>1. \A t \in Steps : phase' = [phase EXCEPT ![t] = "running"] => t = s
      BY <2>1
    <3>2. \A t \in Steps : Ask(t) => t = s
      BY <3>1 DEF Ask, Reserve
    <3>3. ~StartUnit /\ ~AdmissionWithheld
      BY <2>1 DEF StartUnit, AdmissionWithheld, Settled
    <3>4. ~NextUnit /\ ~Abort
      BY <2>1 DEF NextUnit, Abort
    <3>5. \A t \in Steps : ~EndStep(t) /\ ~Rerun(t) /\ ~RerunWithheld(t) /\ ~FinishAborted(t) /\ ~LeaveAborted(t)
      BY <2>1 DEF EndStep, Rerun, RerunWithheld, FinishAborted, LeaveAborted
    <3>6. \A t \in Steps, cost \in 0..MaxCost : ~GuardUnpriced(t, cost)
                /\ \A unpriced, killed \in BOOLEAN : ~Finish(t, cost, unpriced, killed)
      BY <2>1 DEF GuardUnpriced, Finish
    <3> QED BY <3>2, <3>3, <3>4, <3>5, <3>6 DEF Next, Progress, Attempts
  <2>3. Reserve(s) /\ UNCHANGED <<unit, ledger, left, run, overshoot>>
    BY <2>2 DEF Ask
  <2>4. left' \in [Steps -> 0..Retries]
    BY <2>3 DEF AllowanceInv, Typed, Ledgers
  <2>5. held'[s] = Share(awaiting \ {s})
    BY <2>3, <2>4, ReserveKeeps DEF AllowanceInv
  <2>6. Share(awaiting \ {s}) >= Room \div Cardinality(Members)
    BY AskShare
  <2> QED BY <2>5, <2>6 DEF Room, Members
<1> QED BY <1>1, AllowanceInvariant, PTL DEF Spec
=============================================================================
