------------------------ MODULE MCEventsAuthorization ------------------------
EXTENDS EventsAuthorization, TLC

CONSTANTS d1, d2, s1, s2, c1

\* Two subscribers of one client, a CIMD one; the second account is gone.
One == [subject |-> s1, clientId |-> c1]
Other == [subject |-> s2, clientId |-> c1]
TwoDeliveries == {d1, d2}
TwoSubscribers == d1 :> One @@ d2 :> Other
OneUrl == {c1}
NoAccount == {<<"user", {s2}>>}
ItsConsent == {<<"consent", {s1, c1}>>}
=============================================================================
