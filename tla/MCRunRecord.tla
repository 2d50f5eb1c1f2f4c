---------------------------- MODULE MCRunRecord ----------------------------
(***************************************************************************)
(* Instances of RunRecord for TLC: quotas, and the command lines an        *)
(* operator may start or resume the run with.                              *)
(***************************************************************************)
EXTENDS RunRecord

NoRetry    == [s \in Steps |-> 0]
RetryFirst == [s \in Steps |-> IF s = 1 THEN 1 ELSE 0]

Plain    == NoInvocation
Raise    == [NoInvocation EXCEPT !.budget = 4]       \* --budget 4
Accept   == [NoInvocation EXCEPT !.unmetered = TRUE] \* --allow-unmetered
ReplayIt == [NoInvocation EXCEPT !.replay = TRUE]    \* --replay-interrupted
From(s)  == [NoInvocation EXCEPT !.startAt = s]      \* --start-at s
Without1 == [NoInvocation EXCEPT !.skip = {1}]       \* --skip 1

Plainly        == {Plain}
PlainOrReplay  == {Plain, ReplayIt}
AllInvocations == {Plain, Raise, Accept, ReplayIt, From(1), From(2), Without1}
=============================================================================
