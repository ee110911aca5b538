------------------------- MODULE EventsAuthorization -------------------------
(***************************************************************************)
(* server/src/events-authorization.ts: may this principal still receive    *)
(* events?  Each delivery asks; the answer is remembered for a while, a    *)
(* check under way is shared by all who ask about the same principal, and  *)
(* one management token serves every request to Auth0.                     *)
(*                                                                         *)
(* Time is counted in ticks.  Every deadline of the code is a countdown of *)
(* the thing it belongs to, and no tick passes over a timer that is due.   *)
(* Auth0 is external: `fact` is what it holds, and a reply tells what a    *)
(* fact was at some moment between the sending of the request and now.     *)
(***************************************************************************)
EXTENDS Naturals, FiniteSets

CONSTANTS
    Callers,         \* the subscriptions whose deliveries ask
    Who,             \* Who[c]: the principal of c, a [subject, clientId]
    Cimd,            \* client ids that are https:// URLs
    Listings,        \* the listings of check(): permissions, client-grants, grants
    Lacking,         \* facts Auth0 does not hold at first
    Volatile,        \* facts Auth0 may withdraw
    RequestTimeout,  \* REQUEST_TIMEOUT_MS, in ticks
    AccessCache,     \* ACCESS_CACHE_MS
    MaxCache,        \* MAX_CACHE_ENTRIES
    MaxPages,        \* MAX_PAGES
    Lifetime,        \* expires_in of a management token
    Margin,          \* the 60 seconds it is given up before it expires
    MaxStray,        \* how many kinds of request may be left behind at once
    None             \* undefined

ASSUME AuthorizationAssumption ==
    /\ IsFiniteSet(Callers)
    /\ {RequestTimeout, AccessCache, MaxCache, MaxPages, Lifetime, Margin, MaxStray}
           \subseteq Nat \ {0}
    /\ Listings \subseteq {"permission", "application", "consent"}
    /\ Margin >= 2 * RequestTimeout
    /\ Lifetime > 2 * RequestTimeout

VARIABLES
    fact,     \* fact[f]: Auth0's: held now, and ticks since it was otherwise
    token,    \* the management token
    refresh,  \* `refreshing`: the request for a new token
    check,    \* `pending`: check[k], the check under way for key k
    stray,    \* lives of the requests that failed checks left behind
    cache,    \* cache[k]: the remembered answer, if any
    asked     \* asked[c]: c waits for a check, or the last one failed

vars == <<fact, token, refresh, check, stray, cache, asked>>

Kinds == {"user", "client"} \cup Listings
Principals == {Who[c] : c \in Callers}

\* What one request asks about: the account and its RBAC permission belong to
\* the subject, the CIMD lookup and the application's grant to the client, the
\* consent to both.
FactOf(p, kind) ==
    CASE kind \in {"user", "permission"}    -> <<kind, {p.subject}>>
      [] kind \in {"client", "application"} -> <<kind, {p.clientId}>>
      [] kind = "consent"                   -> <<kind, {p.subject, p.clientId}>>

KindsFor(p) == IF p.clientId \in Cimd THEN Kinds ELSE Kinds \ {"client"}
FactsOf(p) == {FactOf(p, kind) : kind \in KindsFor(p)}
Facts == UNION {FactsOf(p) : p \in Principals}

\* The longest an answer can lag behind Auth0: every request of a check takes
\* its whole timeout, then the answer is cached.
Lag == AccessCache + RequestTimeout * (2 + MaxPages)

WasWithin(f, value, ticks) == fact[f].held = value \/ fact[f].ago <= ticks

\* The key of the cache and of the shared checks.  (Faulty variant: the
\* subscribers of a client share one.)
KeyOfClient(p) == [p EXCEPT !.subject = None]
Key(p) == p
Keys == {Key(p) : p \in Principals}

Get == [at : {"token", "sent"}, left : 0 .. RequestTimeout, page : 0 .. MaxPages - 1,
        life : 0 .. Lifetime]
Decision == {"allowed", "denied"}

TypeOK ==
    /\ fact \in [Facts -> [held : BOOLEAN, ago : 0 .. Lag + 1]]
    /\ token = None \/ token \in [life : 0 .. Lifetime, use : 0 .. Lifetime]
    /\ refresh = None
       \/ refresh \in [at : {"sent", "issued"}, left : 0 .. RequestTimeout,
                       life : 0 .. Lifetime]
    /\ DOMAIN check = Keys
    /\ \A k \in Keys :
          \/ check[k] = None
          \/ /\ DOMAIN check[k] = {"who", "gets", "no"}
             /\ check[k].who \in Principals
             /\ DOMAIN check[k].gets \subseteq Kinds
             /\ \A i \in DOMAIN check[k].gets : check[k].gets[i] \in Get
             /\ check[k].no \subseteq Listings
    /\ stray \subseteq 0 .. Lifetime \cup {None}
    /\ DOMAIN cache = Keys
    /\ \A k \in Keys : cache[k] = None \/ cache[k] \in [is : Decision, left : 0 .. AccessCache]
    /\ asked \in [Callers -> {"no", "waiting", "unavailable"}]
    /\ Cardinality({k \in Keys : cache[k] # None}) <= MaxCache

Init ==
    /\ fact = [f \in Facts |-> [held |-> f \notin Lacking, ago |-> Lag + 1]]
    /\ token = None
    /\ refresh = None
    /\ check = [k \in Keys |-> None]
    /\ stray = {}
    /\ cache = [k \in Keys |-> None]
    /\ asked = [c \in Callers |-> "no"]

-----------------------------------------------------------------------------
(* managementToken() and get().                                            *)

\* A token is used until it is near its end.
Usable == token # None /\ token.use > 0

NewGet(page) ==
    IF Usable
    THEN [at |-> "sent", left |-> RequestTimeout, page |-> page,
          life |-> token.life]
    ELSE [at |-> "token", left |-> RequestTimeout, page |-> page, life |-> 0]

\* A request that finds no token to use asks for one, or joins who already did.
EnsureToken ==
    refresh' = IF Usable \/ refresh # None THEN refresh
               ELSE [at |-> "sent", left |-> RequestTimeout, life |-> 0]

\* When a new token is given up, counted from its arrival.  (Faulty variant:
\* when it expires.)
WholeLifetime == Lifetime
UsableFor == IF Lifetime > Margin THEN Lifetime - Margin ELSE 0

\* A request that was waiting for the token goes out with it.
Sent(g, t) ==
    IF g.at = "token" THEN [g EXCEPT !.at = "sent", !.life = t.life] ELSE g

\* Auth0 issues the token; its lifetime begins before the client has it.
TokenIssued ==
    /\ refresh # None /\ refresh.at = "sent"
    /\ refresh' = [refresh EXCEPT !.at = "issued", !.life = Lifetime]
    /\ UNCHANGED <<fact, token, check, stray, cache, asked>>

TokenArrives ==
    /\ refresh # None /\ refresh.at = "issued"
    /\ token' = [life |-> refresh.life, use |-> UsableFor]
    /\ refresh' = None
    /\ check' = [k \in Keys |->
           IF check[k] = None THEN None
           ELSE [check[k] EXCEPT !.gets = [i \in DOMAIN @ |-> Sent(@[i], token')]]]
    /\ stray' = {IF life = None THEN token'.life ELSE life : life \in stray}
    /\ UNCHANGED <<fact, cache, asked>>

-----------------------------------------------------------------------------
(* The shared check: then, catch and finally of the promise.               *)

Waiting(k) == {c \in Callers : Key(Who[c]) = k /\ asked[c] = "waiting"}
Answered(k, a) == asked' = [c \in Callers |-> IF c \in Waiting(k) THEN a ELSE asked[c]]

\* (Faulty variant: one entry more than the limit.)
FullLate == Cardinality({j \in Keys : cache[j] # None}) > MaxCache
Full == Cardinality({j \in Keys : cache[j] # None}) >= MaxCache

Settles(k, decision) ==
    /\ cache' = [j \in Keys |->
           IF j = k THEN [is |-> decision, left |-> AccessCache]
           ELSE IF Full THEN None ELSE cache[j]]
    /\ check' = [check EXCEPT ![k] = None]
    /\ Answered(k, "no")

\* A failed check is dropped, so that the next caller starts another.  (Faulty
\* variant: it stays.)
KeptPending(k) == [check[k] EXCEPT !.gets = << >>]
AfterFailure(k) == None

\* Promise.all rejects with the first failure; the other listings run on, and
\* nobody awaits them.  (What is kept of a request that nobody awaits is the
\* life of its token, None while it waits for one: all it can still do is drop
\* or renew the token.)
LeftBehind(k, kind) ==
    {IF check[k].gets[i].at = "sent" THEN check[k].gets[i].life ELSE None :
         i \in DOMAIN check[k].gets \ {kind}}

Fails(k, kind) ==
    /\ stray' = stray \cup LeftBehind(k, kind)
    /\ Cardinality(stray') <= MaxStray
    /\ check' = [check EXCEPT ![k] = AfterFailure(k)]
    /\ Answered(k, "unavailable")
    /\ UNCHANGED cache

\* The token request fails: so does every request that waits for it.
Starved == {k \in Keys : /\ check[k] # None
                         /\ \E i \in DOMAIN check[k].gets : check[k].gets[i].at = "token"}
TokenFails ==
    /\ refresh # None
    /\ refresh' = None
    /\ check' = [k \in Keys |-> IF k \in Starved THEN AfterFailure(k) ELSE check[k]]
    /\ asked' = [c \in Callers |->
           IF \E k \in Starved : c \in Waiting(k) THEN "unavailable" ELSE asked[c]]
    /\ stray' = (stray \cup UNION {LeftBehind(k, None) : k \in Starved}) \ {None}
    /\ Cardinality(stray') <= MaxStray
    /\ UNCHANGED <<fact, token, cache>>

-----------------------------------------------------------------------------
(* check() and the function that is returned.                              *)

\* isAuthorized(): a fresh answer, a check under way, or a new check.
CachedForGood(k) == cache[k] # None
Cached(k) == cache[k] # None /\ cache[k].left > 0

Asks(c) ==
    LET k == Key(Who[c]) IN
    /\ asked[c] # "waiting"
    /\ \/ /\ Cached(k)
          /\ asked' = [asked EXCEPT ![c] = "no"]
          /\ UNCHANGED <<check, refresh>>
       \/ /\ ~Cached(k) /\ check[k] # None
          /\ asked' = [asked EXCEPT ![c] = "waiting"]
          /\ UNCHANGED <<check, refresh>>
       \/ /\ ~Cached(k) /\ check[k] = None
          /\ asked' = [asked EXCEPT ![c] = "waiting"]
          /\ check' = [check EXCEPT ![k] =
                 [who |-> Who[c], gets |-> [i \in {"user"} |-> NewGet(0)], no |-> {}]]
          /\ EnsureToken
    /\ UNCHANGED <<fact, token, stray, cache>>

Runs(k, kind) ==
    /\ check[k] # None
    /\ kind \in DOMAIN check[k].gets
    /\ check[k].gets[kind].at = "sent"

\* The token is neither expired nor revoked.
Accepted(g) == g.life > 0

\* Auth0 answers request `kind` of check k, which asks about a fact.
Tells(k, kind, value) ==
    LET g == check[k].gets[kind] IN
    /\ Runs(k, kind)
    /\ Accepted(g)
    /\ WasWithin(FactOf(check[k].who, kind), value, RequestTimeout - g.left)
    /\ UNCHANGED <<fact, token>>

\* The requests that follow: the CIMD lookup of the account's client, then the
\* three listings together.
After(k, kind) ==
    IF kind = "user" /\ "client" \in KindsFor(check[k].who) THEN {"client"} ELSE Listings

\* The account exists and is not blocked; the client id resolves to one match.
GoesOn(k, kind) ==
    /\ kind \in {"user", "client"}
    /\ Tells(k, kind, TRUE)
    /\ check' = [check EXCEPT ![k].gets = [i \in After(k, kind) |-> NewGet(0)]]
    /\ EnsureToken
    /\ UNCHANGED <<stray, cache, asked>>

\* 404, blocked, or no single match: the answer is no.
Refutes(k, kind) ==
    /\ kind \in {"user", "client"}
    /\ Tells(k, kind, FALSE)
    /\ Settles(k, "denied")
    /\ UNCHANGED <<refresh, stray>>

\* any(): the listing has the entry, or ends without it.  The last of the three
\* settles the check.
Listed(k, kind, value) ==
    LET no == IF value THEN check[k].no ELSE check[k].no \cup {kind} IN
    /\ kind \in Listings
    /\ Tells(k, kind, value)
    /\ IF DOMAIN check[k].gets = {kind}
       THEN Settles(k, IF no = {} THEN "allowed" ELSE "denied")
       ELSE /\ check' = [check EXCEPT ![k].no = no,
                                      ![k].gets = [i \in DOMAIN @ \ {kind} |-> @[i]]]
            /\ UNCHANGED <<cache, asked>>
    /\ UNCHANGED <<refresh, stray>>

\* (Faulty variant: one page more than the limit.)
LastPageLate(g) == g.page = MaxPages
LastPage(g) == g.page + 1 = MaxPages

\* A full page without the entry: the next page.
NextPage(k, kind) ==
    LET g == check[k].gets[kind] IN
    /\ kind \in Listings /\ Runs(k, kind) /\ Accepted(g)
    /\ ~LastPage(g)
    /\ check' = [check EXCEPT ![k].gets[kind] = NewGet(g.page + 1)]
    /\ EnsureToken
    /\ UNCHANGED <<fact, token, stray, cache, asked>>

\* MAX_PAGES full pages without the entry are no evidence.  (Faulty variant:
\* they are a no.)
EnoughPages(k, kind) == Settles(k, "denied") /\ UNCHANGED stray
OutOfPages(k, kind) == Fails(k, kind)

Incomplete(k, kind) ==
    /\ kind \in Listings /\ Runs(k, kind) /\ Accepted(check[k].gets[kind])
    /\ LastPage(check[k].gets[kind])
    /\ OutOfPages(k, kind)
    /\ UNCHANGED <<fact, token, refresh>>

\* 401: the stored token is dropped, be it the one that was refused or not.
Rejected(k, kind) ==
    /\ Runs(k, kind)
    /\ ~Accepted(check[k].gets[kind])
    /\ token' = None
    /\ Fails(k, kind)
    /\ UNCHANGED <<fact, refresh>>

\* Another status, a body that is not what it should be, no answer in time.
RequestFails(k, kind) ==
    /\ Runs(k, kind)
    /\ Fails(k, kind)
    /\ UNCHANGED <<fact, token, refresh>>

\* A request nobody awaits still pages on, and drops the token at a 401.
StrayEnds(life) ==
    /\ life \in stray \ {None}
    /\ stray' = stray \ {life}
    /\ token' = IF life > 0 THEN token ELSE None
    /\ UNCHANGED <<fact, refresh, check, cache, asked>>

StrayPages(life) ==
    /\ life \in stray \ {None} /\ life > 0
    /\ stray' = (stray \ {life}) \cup {IF Usable THEN token.life ELSE None}
    /\ EnsureToken
    /\ UNCHANGED <<fact, token, check, cache, asked>>

-----------------------------------------------------------------------------
(* Auth0 and time.                                                         *)

\* (What is withdrawn is not granted again: a bound of the model.)
Withdraw(f) ==
    /\ f \in Volatile /\ fact[f].held
    /\ fact' = [fact EXCEPT ![f] = [held |-> FALSE, ago |-> 0]]
    /\ UNCHANGED <<token, refresh, check, stray, cache, asked>>

\* Every token issued so far stops being accepted.
Revoked(g) == [g EXCEPT !.life = 0]
Rotate ==
    /\ token # None /\ token.life > 0
    /\ token' = Revoked(token)
    /\ refresh' = IF refresh = None THEN None ELSE Revoked(refresh)
    /\ check' = [k \in Keys |->
           IF check[k] = None THEN None
           ELSE [check[k] EXCEPT !.gets = [i \in DOMAIN @ |-> Revoked(@[i])]]]
    /\ stray' = {IF life = None THEN None ELSE 0 : life \in stray}
    /\ UNCHANGED <<fact, cache, asked>>

Less(n) == IF n = 0 THEN 0 ELSE n - 1
Aged(g) == [g EXCEPT !.left = Less(@), !.life = Less(@)]

\* A request that is out of time is answered or fails first.
Due ==
    \/ refresh # None /\ refresh.left = 0
    \/ \E k \in Keys : /\ check[k] # None
                       /\ \E i \in DOMAIN check[k].gets : check[k].gets[i].left = 0

Tick ==
    /\ ~Due
    /\ fact' = [f \in Facts |-> IF fact[f].ago > Lag THEN fact[f]
                                ELSE [fact[f] EXCEPT !.ago = @ + 1]]
    /\ token' = IF token = None THEN None
                ELSE [token EXCEPT !.life = Less(@), !.use = Less(@)]
    /\ refresh' = IF refresh = None THEN None ELSE Aged(refresh)
    /\ check' = [k \in Keys |->
           IF check[k] = None THEN None
           ELSE [check[k] EXCEPT !.gets = [i \in DOMAIN @ |-> Aged(@[i])]]]
    /\ stray' = {IF life = None THEN None ELSE Less(life) : life \in stray}
    /\ cache' = [k \in Keys |-> IF cache[k] = None THEN None
                                ELSE [cache[k] EXCEPT !.left = Less(@)]]
    /\ UNCHANGED asked

Ends(k, kind) ==
    \/ GoesOn(k, kind) \/ Refutes(k, kind)
    \/ \E value \in BOOLEAN : Listed(k, kind, value)
    \/ NextPage(k, kind) \/ Incomplete(k, kind)
    \/ Rejected(k, kind) \/ RequestFails(k, kind)

TokenSettles == TokenIssued \/ TokenArrives \/ TokenFails
Auth0 == Rotate \/ \E f \in Volatile : Withdraw(f)

Next ==
    \/ \E c \in Callers : Asks(c)
    \/ \E k \in Keys, kind \in Kinds : Ends(k, kind)
    \/ \E life \in stray : StrayEnds(life) \/ StrayPages(life)
    \/ TokenSettles \/ Auth0 \/ Tick

Spec == Init /\ [][Next]_vars

\* Requests are answered or time out, and time passes; a delivery that was put
\* off asks again.
FairSpec ==
    /\ Spec
    /\ WF_vars(Tick) /\ WF_vars(TokenSettles)
    /\ \A c \in Callers : WF_vars(asked[c] = "unavailable" /\ Asks(c))
    /\ WF_vars(\E life \in stray : StrayEnds(life))
    /\ \A k \in Keys : WF_vars(\E kind \in Kinds : Ends(k, kind))

-----------------------------------------------------------------------------
(* Properties.                                                             *)

\* What c is told now; what the callers of a check are told when it settles.
Answer(c) == IF Cached(Key(Who[c])) THEN cache[Key(Who[c])].is ELSE "unknown"

\* Delivery is allowed only on facts that Auth0 held, each one, no longer ago
\* than a check and the cache can last: the account, the client's resolution,
\* the permission, the application grant and the consent of this principal.
AllowedIsFresh ==
    \A c \in Callers : Answer(c) = "allowed" =>
        \A f \in FactsOf(Who[c]) : WasWithin(f, TRUE, Lag)

\* A subscription is told no, and so ends, only if Auth0 lacked one of them
\* that recently: no outage, timeout, refused token or incomplete listing
\* reads as a revocation.
DeniedHasEvidence ==
    \A c \in Callers : Answer(c) = "denied" =>
        \E f \in FactsOf(Who[c]) : WasWithin(f, FALSE, Lag)

\* Every question is answered: a check that failed is not joined again.
CallsAnswered == \A c \in Callers : asked[c] = "waiting" ~> asked[c] # "waiting"

\* Once Auth0 answers all requests, in time and in full, nobody is told
\* "unavailable" for ever: an expired or revoked token costs a few answers, not
\* all later ones.
Trouble ==
    \/ Rotate \/ TokenFails
    \/ \E k \in Keys, kind \in Kinds : RequestFails(k, kind) \/ Incomplete(k, kind)
Recovers == <>[][~Trouble]_vars => <>[](\A c \in Callers : asked[c] # "unavailable")
=============================================================================
