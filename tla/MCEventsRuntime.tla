--------------------------- MODULE MCEventsRuntime ---------------------------
(* Constant values for the runs of EventsRuntime. *)
EXTENDS EventsRuntime, TLC

CONSTANTS i1, i2, p1, p2, u1, s1, s2, t1, t2, k1, k2, r1, r2

OneId == {i1}
TwoIds == {i1, i2}
OnePrincipal == {p1}
TwoPrincipals == {p1, p2}
OneCallback == {u1}
OneSource == {s1}
TwoSources == {s1, s2}
NoTrace == {}
OneTrace == {t1}
TwoTraces == {t1, t2}
OneSecret == {k1}
TwoSecrets == {k1, k2}
OneRequest == {r1}
TwoRequests == {r1, r2}

AllOwnedByOne == [i \in Id |-> p1]
EachItsOwner == [i \in Id |-> IF i = i1 THEN p1 ELSE p2]
OneUrl == [i \in Id |-> u1]
OneProject == [p \in Principal |-> s1]
EachItsProject == [p \in Principal |-> IF p = p1 THEN s1 ELSE s2]
OneOrigin == [t \in Trace |-> s1]
AllWanted == Id \X Trace

DefaultOnly == {Unspecified}
\* Left out, unbounded, below, between and above the limits.
AllTtls == {Unspecified, Null, 0, 2, 9}

AllFaults == Fault
StoreFaults == {"write", "challenge", "crash"}
AccessFaults == {"outage", "revoke", "collector"}
OutageFaults == {"outage"}
AnswerFaults == {"transient", "gone"}
NoFaults == {}

Symmetry == Permutations(Request)
=============================================================================
