----------------------- MODULE EventsAuthorizationProofs -----------------------
(***************************************************************************)
(* That an answer about a principal is evidence, and recent, for any       *)
(* number of callers, any listings and any timeouts: every request of a    *)
(* check knows for how long the check has run, and so how old what the     *)
(* requests before it have found may be.  And that the cache stays within  *)
(* its limit, with the types of all variables.                             *)
(***************************************************************************)
EXTENDS EventsAuthorization, TLAPS, FiniteSetTheorems

\* A check and a request are records.
Shaped(r) == r = [who |-> r.who, gets |-> r.gets, no |-> r.no]
ShapedGet(g) == g = [at |-> g.at, left |-> g.left, page |-> g.page, life |-> g.life]

\* The most time that can have passed since the first page was asked for.
Elapsed(g) == g.page * RequestTimeout + (RequestTimeout - g.left)

\* What the check has found out: the kinds of request it has finished.
Passed(r) ==
    IF DOMAIN r.gets = {"user"} THEN {}
    ELSE IF DOMAIN r.gets = {"client"} THEN {"user"}
    ELSE KindsFor(r.who) \ DOMAIN r.gets

\* The time that the requests before the present ones may have taken.
Before(r) == IF DOMAIN r.gets = {"client"} THEN RequestTimeout ELSE 2 * RequestTimeout

Known(r) ==
    \A i \in DOMAIN r.gets, kind \in Passed(r) :
        WasWithin(FactOf(r.who, kind), kind \notin r.no, Before(r) + Elapsed(r.gets[i]))

Phased(k, gets) ==
    \/ DOMAIN gets = {"user"}
    \/ DOMAIN gets = {"client"} /\ "client" \in KindsFor(k)
    \/ DOMAIN gets \subseteq Listings

\* The listings run side by side: the present page of one was asked for after
\* the first page of every other.
TimedGets(gets) ==
    /\ gets = [i \in DOMAIN gets |-> gets[i]]
    /\ \A i \in DOMAIN gets :
          /\ ShapedGet(gets[i])
          /\ gets[i].left \in 0 .. RequestTimeout
          /\ gets[i].page \in 0 .. MaxPages - 1
    /\ \A i, j \in DOMAIN gets : RequestTimeout - gets[i].left <= Elapsed(gets[j])

Formed(k, r) ==
    /\ Shaped(r) /\ r.who = k
    /\ Phased(k, r.gets) /\ TimedGets(r.gets)
    /\ r.no \subseteq Listings \ DOMAIN r.gets
    /\ DOMAIN r.gets \in {{"user"}, {"client"}} =>
          r.no = {} /\ \A i \in DOMAIN r.gets : r.gets[i].page = 0

CheckInv == \A k \in Keys : check[k] # None => Formed(k, check[k]) /\ Known(check[k])

\* How old the evidence of a remembered answer may be.
Evidence(k, a) ==
    /\ a.is = "allowed" => \A f \in FactsOf(k) : WasWithin(f, TRUE, Lag - a.left)
    /\ a.is = "denied" => \E f \in FactsOf(k) : WasWithin(f, FALSE, Lag - a.left)

CacheInv == \A k \in Keys : Cached(k) => Evidence(k, cache[k])

Typed ==
    /\ fact \in [Facts -> [held : BOOLEAN, ago : Nat]]
    /\ check = [k \in Keys |-> check[k]]
    /\ cache = [k \in Keys |-> cache[k]]
    /\ \A k \in Keys : cache[k] # None => cache[k] \in [is : Decision, left : 0 .. AccessCache]

IInv == Typed /\ CheckInv /\ CacheInv

-----------------------------------------------------------------------------
(* Numbers.                                                                *)

LEMMA Constants ==
    /\ RequestTimeout \in Nat \ {0} /\ MaxPages \in Nat \ {0} /\ AccessCache \in Nat \ {0}
    /\ Lag \in Nat /\ MaxPages * RequestTimeout \in Nat
    /\ Lag = AccessCache + 2 * RequestTimeout + MaxPages * RequestTimeout
    /\ AccessCache + RequestTimeout <= Lag
  <1>1. RequestTimeout \in Nat \ {0} /\ MaxPages \in Nat \ {0} /\ AccessCache \in Nat \ {0}
    BY AuthorizationAssumption
  <1>2. MaxPages * RequestTimeout \in Nat
    BY <1>1
  <1>3. Lag = AccessCache + 2 * RequestTimeout + MaxPages * RequestTimeout
    BY <1>1 DEF Lag
  <1> QED
    BY <1>1, <1>2, <1>3

LEMMA PagesTake ==
    ASSUME NEW p \in 0 .. MaxPages - 1
    PROVE  /\ p * RequestTimeout \in Nat
           /\ (p + 1) * RequestTimeout = p * RequestTimeout + RequestTimeout
           /\ p * RequestTimeout + RequestTimeout <= MaxPages * RequestTimeout
  <1>1. p \in Nat /\ MaxPages \in Nat /\ RequestTimeout \in Nat /\ MaxPages - (p + 1) \in Nat
    BY Constants
  <1>2. (MaxPages - (p + 1)) * RequestTimeout \in Nat
    BY <1>1
  <1>3. /\ (p + 1) * RequestTimeout = p * RequestTimeout + RequestTimeout
        /\ MaxPages * RequestTimeout
               = (MaxPages - (p + 1)) * RequestTimeout + (p * RequestTimeout + RequestTimeout)
    BY <1>1
  <1>4. p * RequestTimeout \in Nat
    BY <1>1
  <1> QED
    BY <1>1, <1>2, <1>3, <1>4

LEMMA ElapsedFacts ==
    ASSUME NEW g, g.page \in 0 .. MaxPages - 1, g.left \in 0 .. RequestTimeout
    PROVE  /\ Elapsed(g) \in Nat /\ RequestTimeout - g.left \in Nat
           /\ RequestTimeout - g.left <= Elapsed(g)
           /\ 2 * RequestTimeout + Elapsed(g) + AccessCache <= Lag
  BY PagesTake, Constants DEF Elapsed

LEMMA Weaker ==
    ASSUME NEW f, NEW v, NEW s \in Nat, NEW t \in Nat, s <= t, fact[f].ago \in Nat,
           WasWithin(f, v, s)
    PROVE  WasWithin(f, v, t)
  BY DEF WasWithin

-----------------------------------------------------------------------------
(* Principals, kinds and facts.                                            *)

LEMMA Kinds1 ==
    ASSUME NEW k \in Keys
    PROVE  /\ k \in Principals /\ FactsOf(k) = {FactOf(k, kind) : kind \in KindsFor(k)}
           /\ Listings \subseteq KindsFor(k) /\ "user" \in KindsFor(k)
           /\ KindsFor(k) \subseteq {"user", "client"} \cup Listings
           /\ "user" \notin Listings /\ "client" \notin Listings
           /\ \A kind \in KindsFor(k) : FactOf(k, kind) \in Facts
  <1>1. k \in Principals
    BY DEF Keys, Key
  <1>2. FactsOf(k) \in {FactsOf(p) : p \in Principals}
    BY <1>1
  <1>3. "user" \notin Listings /\ "client" \notin Listings
    BY AuthorizationAssumption
  <1> QED
    BY <1>1, <1>2, <1>3 DEF FactsOf, KindsFor, Kinds, Facts

\* Whatever happens but time, what was the case within t ticks still was.
Kept == \A f \in Facts, v \in BOOLEAN, t \in Nat : WasWithin(f, v, t) => WasWithin(f, v, t)'

LEMMA SameFactsKept == ASSUME fact' = fact PROVE Kept
  BY DEF Kept, WasWithin

LEMMA WithdrawKept ==
    ASSUME Typed, NEW g \in Facts, Withdraw(g)
    PROVE  Kept /\ fact' \in [Facts -> [held : BOOLEAN, ago : Nat]]
  <1>1. /\ fact' = [fact EXCEPT ![g] = [held |-> FALSE, ago |-> 0]]
        /\ fact \in [Facts -> [held : BOOLEAN, ago : Nat]]
    BY DEF Withdraw, Typed
  <1>2. [held |-> FALSE, ago |-> 0] \in [held : BOOLEAN, ago : Nat]
    OBVIOUS
  <1>3. fact' \in [Facts -> [held : BOOLEAN, ago : Nat]]
    BY <1>1, <1>2
  <1>4. \A f \in Facts : IF f = g THEN fact'[f].ago = 0 ELSE fact'[f] = fact[f]
    BY <1>1
  <1> QED
    BY <1>3, <1>4 DEF Kept, WasWithin

-----------------------------------------------------------------------------
(* Records that are updated.                                               *)

LEMMA NewShaped ==
    ASSUME NEW w, NEW g, NEW n
    PROVE  LET r == [who |-> w, gets |-> g, no |-> n]
           IN  Shaped(r) /\ r.who = w /\ r.gets = g /\ r.no = n
  BY DEF Shaped

LEMMA GetsSet ==
    ASSUME NEW r, Shaped(r), NEW g
    PROVE  LET s == [r EXCEPT !.gets = g]
           IN  Shaped(s) /\ s.who = r.who /\ s.gets = g /\ s.no = r.no
  <1>1. [r EXCEPT !.gets = g] = [who |-> r.who, gets |-> g, no |-> r.no]
    BY DEF Shaped
  <1> QED
    BY <1>1, NewShaped

LEMMA NoSet ==
    ASSUME NEW r, Shaped(r), NEW n
    PROVE  LET s == [r EXCEPT !.no = n]
           IN  Shaped(s) /\ s.who = r.who /\ s.gets = r.gets /\ s.no = n
  <1>1. [r EXCEPT !.no = n] = [who |-> r.who, gets |-> r.gets, no |-> n]
    BY DEF Shaped
  <1> QED
    BY <1>1, NewShaped

LEMMA NewGetShaped ==
    ASSUME NEW a, NEW l, NEW p, NEW f
    PROVE  LET g == [at |-> a, left |-> l, page |-> p, life |-> f]
           IN  ShapedGet(g) /\ g.left = l /\ g.page = p /\ g.at = a /\ g.life = f
  BY DEF ShapedGet

LEMMA NewGetFacts ==
    ASSUME NEW p
    PROVE  /\ ShapedGet(NewGet(p)) /\ NewGet(p).left = RequestTimeout
           /\ NewGet(p).page = p
  BY NewGetShaped DEF NewGet

LEMMA AgedFacts ==
    ASSUME NEW g, ShapedGet(g)
    PROVE  /\ ShapedGet(Aged(g)) /\ Aged(g).left = Less(g.left)
           /\ Aged(g).page = g.page /\ Aged(g).at = g.at /\ Aged(g).life = Less(g.life)
  <1> DEFINE h == [g EXCEPT !.left = Less(g.left)]
  <1>1. h = [at |-> g.at, left |-> Less(g.left), page |-> g.page, life |-> g.life]
    BY DEF ShapedGet
  <1>2. /\ ShapedGet(h) /\ h.left = Less(g.left) /\ h.page = g.page /\ h.life = g.life
        /\ h.at = g.at
    BY <1>1, NewGetShaped
  <1>3. Aged(g) = [h EXCEPT !.life = Less(g.life)]
    BY DEF Aged
  <1> HIDE DEF h
  <1>4. [h EXCEPT !.life = Less(g.life)]
            = [at |-> h.at, left |-> h.left, page |-> h.page, life |-> Less(g.life)]
    BY <1>2 DEF ShapedGet
  <1> QED
    BY <1>2, <1>3, <1>4, NewGetShaped

LEMMA RevokedFacts ==
    ASSUME NEW g, ShapedGet(g)
    PROVE  /\ ShapedGet(Revoked(g)) /\ Revoked(g).left = g.left
           /\ Revoked(g).page = g.page /\ Revoked(g).at = g.at /\ Revoked(g).life = 0
  <1>1. Revoked(g) = [at |-> g.at, left |-> g.left, page |-> g.page, life |-> 0]
    BY DEF Revoked, ShapedGet
  <1> QED
    BY <1>1, NewGetShaped

LEMMA SentFacts ==
    ASSUME NEW g, ShapedGet(g), NEW t
    PROVE  /\ ShapedGet(Sent(g, t)) /\ Sent(g, t).left = g.left
           /\ Sent(g, t).page = g.page /\ Sent(g, t).at \in {g.at, "sent"}
           /\ Sent(g, t).life \in {g.life, t.life}
  <1> DEFINE h == [g EXCEPT !.at = "sent"]
  <1>1. h = [at |-> "sent", left |-> g.left, page |-> g.page, life |-> g.life]
    BY DEF ShapedGet
  <1>2. ShapedGet(h) /\ h.left = g.left /\ h.page = g.page /\ h.at = "sent"
    BY <1>1, NewGetShaped
  <1>3. Sent(g, t) = IF g.at = "token" THEN [h EXCEPT !.life = t.life] ELSE g
    BY DEF Sent
  <1> HIDE DEF h
  <1>4. [h EXCEPT !.life = t.life]
            = [at |-> h.at, left |-> h.left, page |-> h.page, life |-> t.life]
    BY <1>2 DEF ShapedGet
  <1> QED
    BY <1>2, <1>3, <1>4, NewGetShaped

-----------------------------------------------------------------------------
(* Steps that change no more of a check than the tokens of its requests.   *)

Alike(k) ==
    /\ Shaped(check'[k]) /\ check'[k].who = check[k].who /\ check'[k].no = check[k].no
    /\ DOMAIN check'[k].gets = DOMAIN check[k].gets
    /\ check'[k].gets = [i \in DOMAIN check'[k].gets |-> check'[k].gets[i]]
    /\ \A i \in DOMAIN check[k].gets :
          /\ ShapedGet(check'[k].gets[i])
          /\ check'[k].gets[i].left = check[k].gets[i].left
          /\ check'[k].gets[i].page = check[k].gets[i].page

LEMMA AlikeKeeps ==
    ASSUME NEW k \in Keys, Kept, Alike(k), Formed(k, check[k]), Known(check[k])
    PROVE  Formed(k, check'[k]) /\ Known(check[k])'
  <1>1. \A i \in DOMAIN check[k].gets :
            /\ Elapsed(check'[k].gets[i]) = Elapsed(check[k].gets[i])
            /\ Elapsed(check[k].gets[i]) \in Nat
    BY ElapsedFacts DEF Alike, Elapsed, Formed, TimedGets
  <1>2. Formed(k, check'[k])
    <2>1. TimedGets(check'[k].gets)
      BY <1>1 DEF Alike, Formed, TimedGets
    <2>2. Phased(k, check'[k].gets)
      BY DEF Alike, Formed, Phased
    <2> QED
      BY <2>1, <2>2 DEF Alike, Formed
  <1>3. Known(check[k])'
    <2>1. Passed(check'[k]) = Passed(check[k]) /\ Before(check'[k]) = Before(check[k])
      BY DEF Alike, Passed, Before
    <2>2. Before(check[k]) \in Nat
      BY Constants DEF Before
    <2>3. Passed(check[k]) \subseteq KindsFor(k) /\ check[k].who = k
      BY Kinds1 DEF Passed, Formed
    <2> SUFFICES ASSUME NEW i \in DOMAIN check[k].gets, NEW kind \in Passed(check[k])
                 PROVE  WasWithin(FactOf(k, kind), kind \notin check[k].no,
                                  Before(check[k]) + Elapsed(check[k].gets[i]))'
      BY <1>1, <2>1, <2>3 DEF Known, Alike, Before, Passed
    <2>4. WasWithin(FactOf(k, kind), kind \notin check[k].no,
                    Before(check[k]) + Elapsed(check[k].gets[i]))
      BY <2>3 DEF Known
    <2>5. FactOf(k, kind) \in Facts
      BY <2>3, Kinds1
    <2> DEFINE v == kind \notin check[k].no
               t == Before(check[k]) + Elapsed(check[k].gets[i])
    <2>6. v \in BOOLEAN /\ t \in Nat
      BY <1>1, <2>2
    <2> QED
      BY <1>1, <2>1, <2>4, <2>5, <2>6 DEF Kept, WasWithin, Alike
  <1> QED
    BY <1>2, <1>3

\* A check that is alike, the same, or gone.
LEMMA OthersKeep ==
    ASSUME CheckInv, Kept,
           \A k \in Keys : check[k] # None /\ check'[k] # None => check'[k] = check[k] \/ Alike(k),
           \A k \in Keys : check'[k] # None => check[k] # None
    PROVE  CheckInv'
  <1> SUFFICES ASSUME NEW k \in Keys, check'[k] # None
               PROVE  Formed(k, check'[k]) /\ Known(check[k])'
    BY DEF CheckInv, Formed, Shaped, Phased, TimedGets, ShapedGet, Elapsed
  <1>1. check[k] # None /\ Formed(k, check[k]) /\ Known(check[k])
    BY DEF CheckInv
  <1>2. CASE check'[k] = check[k]
    <2>1. Shaped(check[k]) /\ TimedGets(check[k].gets)
      BY <1>1 DEF Formed
    <2>2. Alike(k)
      BY <1>2, <2>1 DEF Alike, TimedGets
    <2> QED
      BY <1>1, <2>2, AlikeKeeps
  <1>3. CASE Alike(k)
    BY <1>1, <1>3, AlikeKeeps
  <1> QED
    BY <1>1, <1>2, <1>3

\* A cache that loses entries keeps its evidence.
LEMMA CacheKeeps ==
    ASSUME Typed, CacheInv, Kept, NEW Changed,
           \A k \in Keys \ Changed : cache'[k] = None \/ cache'[k] = cache[k],
           \A k \in Keys \cap Changed : Evidence(k, cache[k])'
    PROVE  CacheInv'
  <1> SUFFICES ASSUME NEW k \in Keys, Cached(k)'
               PROVE  Evidence(k, cache[k])'
    BY DEF CacheInv
  <1>1. CASE k \in Changed
    BY <1>1
  <1>2. CASE k \notin Changed
    <2>1. cache'[k] = cache[k] /\ Cached(k)
      BY <1>2 DEF Cached
    <2>2. cache[k].left \in Nat /\ Lag - cache[k].left \in Nat
      BY <2>1, Constants DEF Typed, Cached
    <2>3. Evidence(k, cache[k])
      BY <2>1 DEF CacheInv
    <2>4. \A f \in FactsOf(k) : f \in Facts
      BY Kinds1
    <2> QED
      BY <2>1, <2>2, <2>3, <2>4 DEF Evidence, Kept, WasWithin
  <1> QED
    BY <1>1, <1>2

LEMMA SameCacheKeeps ==
    ASSUME Typed, CacheInv, Kept, cache' = cache
    PROVE  CacheInv'
  <1> DEFINE Changed == {}
  <1>1. /\ \A k \in Keys \ Changed : cache'[k] = None \/ cache'[k] = cache[k]
        /\ \A k \in Keys \cap Changed : Evidence(k, cache[k])'
    OBVIOUS
  <1> HIDE DEF Changed
  <1> QED
    BY <1>1, CacheKeeps

\* One check is replaced, the others and all answers are kept.
LEMMA OneCheckKeeps ==
    ASSUME IInv, Kept, NEW k \in Keys, NEW r, check' = [check EXCEPT ![k] = r],
           Formed(k, r), Known(check[k])'
    PROVE  CheckInv'
  <1>1. \A j \in Keys : check'[j] = IF j = k THEN r ELSE check[j]
    BY DEF IInv, Typed
  <1> SUFFICES ASSUME NEW j \in Keys, check'[j] # None
               PROVE  Formed(j, check'[j]) /\ Known(check[j])'
    BY DEF CheckInv, Formed, Shaped, Phased, TimedGets, ShapedGet, Elapsed
  <1>2. CASE j = k
    BY <1>1, <1>2
  <1>3. CASE j # k
    <2>1. Formed(j, check[j]) /\ Known(check[j]) /\ check'[j] = check[j]
      BY <1>1, <1>3 DEF IInv, CheckInv
    <2>2. Shaped(check[j]) /\ TimedGets(check[j].gets)
      BY <2>1 DEF Formed
    <2>3. Alike(j)
      BY <2>1, <2>2 DEF Alike, TimedGets
    <2> QED
      BY <2>1, <2>3, AlikeKeeps
  <1> QED
    BY <1>2, <1>3

-----------------------------------------------------------------------------
(* isAuthorized().                                                         *)

LEMMA AsksKeeps ==
    ASSUME IInv, NEW c \in Callers, Asks(c)
    PROVE  IInv'
  <1>0. fact' = fact /\ cache' = cache /\ Kept
    BY SameFactsKept DEF Asks
  <1>1. CASE check' = check
    BY <1>0, <1>1, OthersKeep, SameCacheKeeps DEF IInv, Typed
  <1>2. CASE check' # check
    <2> DEFINE k == Who[c]
               gets == [i \in {"user"} |-> NewGet(0)]
               r == [who |-> k, gets |-> gets, no |-> {}]
    <2>1. k \in Keys /\ check' = [check EXCEPT ![k] = r]
      BY <1>2 DEF Asks, Key, Keys, Principals
    <2>2. Shaped(r) /\ r.who = k /\ r.gets = gets /\ r.no = {}
      BY NewShaped
    <2>3. DOMAIN gets = {"user"} /\ gets["user"] = NewGet(0)
      OBVIOUS
    <2>4. TimedGets(gets)
      <3>1. /\ NewGet(0).left \in 0 .. RequestTimeout /\ NewGet(0).page \in 0 .. MaxPages - 1
            /\ NewGet(0).page = 0 /\ NewGet(0).left = RequestTimeout /\ ShapedGet(NewGet(0))
        BY NewGetFacts, Constants
      <3>2. RequestTimeout - NewGet(0).left <= Elapsed(NewGet(0))
        BY <3>1, ElapsedFacts
      <3> QED
        BY <2>3, <3>1, <3>2 DEF TimedGets
    <2>5. Formed(k, r)
      <3>1. \A i \in DOMAIN gets : gets[i].page = 0
        BY <2>3, NewGetFacts
      <3>2. Phased(k, gets)
        BY <2>3 DEF Phased
      <3>3. {} \subseteq Listings \ DOMAIN gets
        OBVIOUS
      <3> HIDE DEF r, gets
      <3> QED
        BY <2>2, <2>4, <3>1, <3>2, <3>3 DEF Formed
    <2>6. Known(check[k])'
      <3>1. check'[k] = r
        BY <2>1 DEF IInv, Typed
      <3>2. DOMAIN check'[k].gets = {"user"}
        BY <2>2, <2>3, <3>1
      <3> QED
        BY <3>2 DEF Known, Passed
    <2>7. CheckInv'
      <3> HIDE DEF r
      <3> QED
        BY <1>0, <2>1, <2>5, <2>6, OneCheckKeeps
    <2>8. Typed'
      BY <1>0, <2>1 DEF IInv, Typed
    <2>9. CacheInv'
      BY <1>0, SameCacheKeeps DEF IInv
    <2> QED
      BY <2>7, <2>8, <2>9 DEF IInv
  <1> QED
    BY <1>1, <1>2

-----------------------------------------------------------------------------
(* Requests that are answered.                                             *)

\* What is known of a check that has a request of the given kind on its way.
LEMMA RunningFacts ==
    ASSUME IInv, NEW k \in Keys, NEW kind \in Kinds, Runs(k, kind)
    PROVE  /\ Shaped(check[k]) /\ check[k].who = k /\ TimedGets(check[k].gets)
           /\ Formed(k, check[k]) /\ Known(check[k])
           /\ kind \in DOMAIN check[k].gets /\ kind \in KindsFor(k)
           /\ kind \in {"user", "client"} => DOMAIN check[k].gets = {kind}
           /\ kind \in Listings => DOMAIN check[k].gets \subseteq Listings
           /\ check[k].no \subseteq Listings \ DOMAIN check[k].gets
           /\ check[k].gets[kind].left \in 0 .. RequestTimeout
           /\ check[k].gets[kind].page \in 0 .. MaxPages - 1
           /\ RequestTimeout - check[k].gets[kind].left \in Nat
           /\ Elapsed(check[k].gets[kind]) \in Nat
  <1>1. Formed(k, check[k]) /\ Known(check[k]) /\ kind \in DOMAIN check[k].gets
    BY DEF IInv, CheckInv, Runs
  <1>2. Phased(k, check[k].gets) /\ TimedGets(check[k].gets)
    BY <1>1 DEF Formed
  <1>3. /\ kind \in KindsFor(k)
        /\ kind \in {"user", "client"} => DOMAIN check[k].gets = {kind}
        /\ kind \in Listings => DOMAIN check[k].gets \subseteq Listings
    BY <1>1, <1>2, Kinds1 DEF Phased
  <1>4. /\ check[k].gets[kind].left \in 0 .. RequestTimeout
        /\ check[k].gets[kind].page \in 0 .. MaxPages - 1
    BY <1>1, <1>2 DEF TimedGets
  <1>5. /\ RequestTimeout - check[k].gets[kind].left \in Nat
        /\ Elapsed(check[k].gets[kind]) \in Nat
    BY <1>4, ElapsedFacts
  <1> QED
    BY <1>1, <1>2, <1>3, <1>4, <1>5 DEF Formed

\* A settled check leaves its evidence with its answer.
LEMMA SettlesKeeps ==
    ASSUME IInv, fact' = fact, NEW k \in Keys, NEW decision \in Decision,
           Settles(k, decision),
           decision = "allowed" =>
               \A kind \in KindsFor(k) : WasWithin(FactOf(k, kind), TRUE, Lag - AccessCache),
           decision = "denied" =>
               \E kind \in KindsFor(k) : WasWithin(FactOf(k, kind), FALSE, Lag - AccessCache)
    PROVE  IInv'
  <1>0. Kept
    BY SameFactsKept
  <1>1. /\ check' = [check EXCEPT ![k] = None]
        /\ cache' = [j \in Keys |-> cache'[j]]
        /\ cache'[k] = [is |-> decision, left |-> AccessCache]
        /\ \A j \in Keys \ {k} : cache'[j] = None \/ cache'[j] = cache[j]
    BY DEF Settles
  <1>2. cache'[k] \in [is : Decision, left : 0 .. AccessCache]
        /\ cache'[k].is = decision /\ cache'[k].left = AccessCache
    BY <1>1, Constants
  <1>3. Evidence(k, cache[k])'
    BY <1>2, Kinds1 DEF Evidence, WasWithin
  <1>4. CacheInv'
    <2> DEFINE Changed == {k}
    <2>1. /\ \A j \in Keys \ Changed : cache'[j] = None \/ cache'[j] = cache[j]
          /\ \A j \in Keys \cap Changed : Evidence(j, cache[j])'
      BY <1>1, <1>3
    <2> HIDE DEF Changed
    <2> QED
      BY <1>0, <2>1, CacheKeeps DEF IInv
  <1>5. \A j \in Keys : check'[j] = IF j = k THEN None ELSE check[j]
    BY <1>1 DEF IInv, Typed
  <1>6. CheckInv'
    BY <1>0, <1>5, OthersKeep DEF IInv
  <1>7. Typed'
    <2>1. \A j \in Keys : cache'[j] # None => cache'[j] \in [is : Decision, left : 0 .. AccessCache]
      BY <1>1, <1>2 DEF IInv, Typed
    <2>2. check' = [j \in Keys |-> check'[j]]
      BY <1>1 DEF IInv, Typed
    <2> QED
      BY <1>1, <2>1, <2>2 DEF IInv, Typed
  <1> QED
    BY <1>4, <1>6, <1>7 DEF IInv

LEMMA RefutesKeeps ==
    ASSUME IInv, NEW k \in Keys, NEW kind \in Kinds, Refutes(k, kind)
    PROVE  IInv'
  <1>1. /\ Runs(k, kind) /\ fact' = fact /\ Settles(k, "denied")
        /\ WasWithin(FactOf(check[k].who, kind), FALSE,
                     RequestTimeout - check[k].gets[kind].left)
    BY DEF Refutes, Tells
  <1>2. /\ check[k].who = k /\ kind \in KindsFor(k)
        /\ RequestTimeout - check[k].gets[kind].left \in Nat
        /\ RequestTimeout - check[k].gets[kind].left <= Lag - AccessCache
        /\ Lag - AccessCache \in Nat
    BY <1>1, RunningFacts, Constants
  <1>3. FactOf(k, kind) \in Facts /\ fact[FactOf(k, kind)].ago \in Nat
    BY <1>2, Kinds1 DEF IInv, Typed
  <1>4. WasWithin(FactOf(k, kind), FALSE, Lag - AccessCache)
    BY <1>1, <1>2, <1>3 DEF WasWithin
  <1> QED
    BY <1>1, <1>2, <1>4, SettlesKeeps DEF Decision

\* The last of the listings: what all requests have found decides.
LEMMA LastListedKeeps ==
    ASSUME IInv, NEW k \in Keys, NEW kind \in Kinds, NEW value \in BOOLEAN,
           Listed(k, kind, value), DOMAIN check[k].gets = {kind}
    PROVE  IInv'
  <1> DEFINE no == IF value THEN check[k].no ELSE check[k].no \cup {kind}
             g == check[k].gets[kind]
  <1>1. /\ kind \in Listings /\ Runs(k, kind) /\ fact' = fact
        /\ Settles(k, IF no = {} THEN "allowed" ELSE "denied")
        /\ WasWithin(FactOf(check[k].who, kind), value, RequestTimeout - g.left)
    BY DEF Listed, Tells
  <1>2. /\ check[k].who = k /\ Known(check[k]) /\ check[k].no \subseteq Listings \ {kind}
        /\ g.left \in 0 .. RequestTimeout /\ g.page \in 0 .. MaxPages - 1
        /\ RequestTimeout - g.left \in Nat
    BY <1>1, RunningFacts
  <1>3. /\ Elapsed(g) \in Nat /\ 2 * RequestTimeout + Elapsed(g) \in Nat
        /\ 2 * RequestTimeout + Elapsed(g) <= Lag - AccessCache
        /\ RequestTimeout - g.left <= Lag - AccessCache /\ Lag - AccessCache \in Nat
    BY <1>2, ElapsedFacts, Constants
  <1>4. Passed(check[k]) = KindsFor(k) \ {kind} /\ Before(check[k]) = 2 * RequestTimeout
    BY <1>1, <1>2, Kinds1 DEF Passed, Before
  <1>5. \A i \in KindsFor(k) : FactOf(k, i) \in Facts /\ fact[FactOf(k, i)].ago \in Nat
    BY Kinds1 DEF IInv, Typed
  <1>6. WasWithin(FactOf(k, kind), value, Lag - AccessCache) /\ kind \in KindsFor(k)
    BY <1>1, <1>2, <1>3, <1>5, Kinds1 DEF WasWithin
  <1>7. ASSUME NEW i \in KindsFor(k) \ {kind}
        PROVE  WasWithin(FactOf(k, i), i \notin check[k].no, Lag - AccessCache)
    <2>1. WasWithin(FactOf(k, i), i \notin check[k].no, 2 * RequestTimeout + Elapsed(g))
      BY <1>2, <1>4 DEF Known
    <2> HIDE DEF g
    <2> QED
      BY <2>1, <1>3, <1>5 DEF WasWithin
  <1>8. CASE no = {}
    <2>1. value = TRUE /\ check[k].no = {}
      BY <1>8
    <2>2. \A i \in KindsFor(k) : WasWithin(FactOf(k, i), TRUE, Lag - AccessCache)
      <3> SUFFICES ASSUME NEW i \in KindsFor(k)
                   PROVE  WasWithin(FactOf(k, i), TRUE, Lag - AccessCache)
        OBVIOUS
      <3>1. CASE i = kind
        BY <1>6, <2>1, <3>1
      <3>2. CASE i # kind
        BY <1>7, <2>1, <3>2 DEF WasWithin
      <3> QED
        BY <3>1, <3>2
    <2>3. Settles(k, "allowed")
      BY <1>1, <1>8
    <2> QED
      BY <1>1, <2>2, <2>3, SettlesKeeps DEF Decision
  <1>9. CASE no # {}
    <2>1. Settles(k, "denied")
      BY <1>1, <1>9
    <2>2. \E i \in KindsFor(k) : WasWithin(FactOf(k, i), FALSE, Lag - AccessCache)
      <3>1. CASE value = FALSE
        BY <1>6, <3>1
      <3>2. CASE value = TRUE
        <4>1. PICK i \in check[k].no : TRUE
          BY <1>9, <3>2
        <4>2. i \in KindsFor(k) \ {kind}
          BY <1>2, <4>1, Kinds1
        <4>3. WasWithin(FactOf(k, i), FALSE, Lag - AccessCache)
          BY <1>7, <4>1, <4>2 DEF WasWithin
        <4> QED
          BY <4>2, <4>3
      <3> QED
        BY <3>1, <3>2
    <2> QED
      BY <1>1, <2>1, <2>2, SettlesKeeps DEF Decision
  <1> QED
    BY <1>8, <1>9

\* A check that goes on with other requests; its answers are kept.
LEMMA OneCheckHolds ==
    ASSUME IInv, fact' = fact, cache' = cache, NEW k \in Keys, NEW r,
           check' = [check EXCEPT ![k] = r], Formed(k, r), Known(check[k])'
    PROVE  IInv'
  <1>1. CheckInv'
    BY SameFactsKept, OneCheckKeeps
  <1>2. CacheInv'
    BY SameFactsKept, SameCacheKeeps DEF IInv
  <1>3. Typed'
    BY DEF IInv, Typed
  <1> QED
    BY <1>1, <1>2, <1>3 DEF IInv

\* The first page of each of the kinds that are asked about next.
FirstPages(after) == [i \in after |-> NewGet(0)]

LEMMA FirstPagesTimed ==
    ASSUME NEW after
    PROVE  /\ TimedGets(FirstPages(after)) /\ DOMAIN FirstPages(after) = after
           /\ \A i \in after : FirstPages(after)[i] = NewGet(0)
           /\ NewGet(0).page = 0 /\ Elapsed(NewGet(0)) = 0
  <1>1. /\ NewGet(0).left \in 0 .. RequestTimeout /\ NewGet(0).page \in 0 .. MaxPages - 1
        /\ NewGet(0).page = 0 /\ NewGet(0).left = RequestTimeout /\ ShapedGet(NewGet(0))
    BY NewGetFacts, Constants
  <1>2. RequestTimeout - NewGet(0).left <= Elapsed(NewGet(0)) /\ Elapsed(NewGet(0)) = 0
    BY <1>1, Constants DEF Elapsed
  <1> QED
    BY <1>1, <1>2 DEF FirstPages, TimedGets

LEMMA GoesOnKeeps ==
    ASSUME IInv, NEW k \in Keys, NEW kind \in Kinds, GoesOn(k, kind)
    PROVE  IInv'
  <1> DEFINE after == After(k, kind)
             g == check[k].gets[kind]
             r == [check[k] EXCEPT !.gets = FirstPages(after)]
  <1>1. /\ kind \in {"user", "client"} /\ Runs(k, kind) /\ fact' = fact /\ cache' = cache
        /\ check' = [check EXCEPT ![k] = r]
        /\ WasWithin(FactOf(check[k].who, kind), TRUE, RequestTimeout - g.left)
    BY DEF GoesOn, Tells, FirstPages
  <1>2. /\ Shaped(check[k]) /\ check[k].who = k /\ Formed(k, check[k]) /\ Known(check[k])
        /\ DOMAIN check[k].gets = {kind} /\ kind \in KindsFor(k)
        /\ g.left \in 0 .. RequestTimeout /\ RequestTimeout - g.left \in Nat
    BY <1>1, RunningFacts
  <1>3. /\ Shaped(r) /\ r.who = k /\ r.gets = FirstPages(after) /\ r.no = {}
        /\ g.page = 0
    BY <1>2, <1>1, GetsSet DEF Formed
  <1>4. /\ after = IF kind = "user" /\ "client" \in KindsFor(k) THEN {"client"} ELSE Listings
        /\ DOMAIN r.gets = after
    BY <1>2, <1>3, FirstPagesTimed DEF After
  <1>5. Formed(k, r)
    <2>1. Phased(k, r.gets)
      BY <1>4 DEF Phased
    <2>2. TimedGets(r.gets) /\ \A i \in DOMAIN r.gets : r.gets[i].page = 0
      BY <1>3, <1>4, FirstPagesTimed
    <2> HIDE DEF r, after
    <2> QED
      BY <1>3, <2>1, <2>2 DEF Formed
  <1>6. Known(check[k])'
    <2>1. check'[k] = r
      BY <1>1 DEF IInv, Typed
    <2>2. \A i \in DOMAIN r.gets : Elapsed(r.gets[i]) = 0
      BY <1>3, <1>4, FirstPagesTimed
    <2>3. Before(r) \in Nat /\ RequestTimeout <= Before(r)
      BY Constants DEF Before
    <2>4. WasWithin(FactOf(k, kind), TRUE, Before(r))
      <3>1. FactOf(k, kind) \in Facts /\ RequestTimeout - g.left <= Before(r)
        BY <1>2, <2>3, Kinds1, Constants
      <3> HIDE DEF g, r, after
      <3> QED
        BY <1>1, <1>2, <2>3, <3>1 DEF WasWithin, IInv, Typed
    <2>5. ASSUME NEW i \in Passed(r), i # kind
          PROVE  WasWithin(FactOf(k, i), TRUE, Before(r))
      <3>1. i = "user" /\ kind = "client" /\ after = Listings
        BY <1>1, <1>2, <1>3, <1>4, <2>5, Kinds1 DEF Passed
      <3>2. Passed(check[k]) = {"user"} /\ Before(check[k]) = RequestTimeout
        BY <1>2, <3>1 DEF Passed, Before
      <3>3. Before(r) = 2 * RequestTimeout
        BY <1>4, <3>1, Kinds1 DEF Before
      <3>4. WasWithin(FactOf(k, i), i \notin check[k].no, RequestTimeout + Elapsed(g))
        BY <1>2, <3>1, <3>2 DEF Known
      <3>5. i \notin check[k].no /\ Elapsed(g) = RequestTimeout - g.left
        BY <1>2, <1>3, <3>1, Kinds1, Constants DEF Elapsed, Formed
      <3>6. /\ RequestTimeout + Elapsed(g) \in Nat /\ 2 * RequestTimeout \in Nat
            /\ RequestTimeout + Elapsed(g) <= 2 * RequestTimeout
        BY <1>2, <3>5, Constants
      <3>7. FactOf(k, i) \in Facts
        BY <3>1, Kinds1
      <3> HIDE DEF g, r, after
      <3> QED
        BY <3>3, <3>4, <3>5, <3>6, <3>7 DEF WasWithin, IInv, Typed
    <2>6. \A i \in Passed(r) : WasWithin(FactOf(k, i), TRUE, Before(r))
      BY <2>4, <2>5
    <2> HIDE DEF r, after, g
    <2>7. \A i \in DOMAIN r.gets : Before(r) + Elapsed(r.gets[i]) = Before(r)
      BY <2>2, <2>3
    <2> QED
      BY <1>1, <1>3, <2>1, <2>6, <2>7 DEF Known, WasWithin, Passed, Before
  <1> HIDE DEF r, after, g
  <1> QED
    BY <1>1, <1>5, <1>6, OneCheckHolds

\* One of the listings ends, the others run on.
LEMMA ListedKeeps ==
    ASSUME IInv, NEW k \in Keys, NEW kind \in Kinds, NEW value \in BOOLEAN,
           Listed(k, kind, value), DOMAIN check[k].gets # {kind}
    PROVE  IInv'
  <1> DEFINE no == IF value THEN check[k].no ELSE check[k].no \cup {kind}
             g == check[k].gets[kind]
             rest == DOMAIN check[k].gets \ {kind}
             gets == [i \in rest |-> check[k].gets[i]]
             h == [check[k] EXCEPT !.no = no]
             r == [h EXCEPT !.gets = gets]
  <1>1. /\ kind \in Listings /\ Runs(k, kind) /\ fact' = fact /\ cache' = cache
        /\ WasWithin(FactOf(check[k].who, kind), value, RequestTimeout - g.left)
    BY DEF Listed, Tells
  <1>2. /\ Shaped(check[k]) /\ check[k].who = k /\ Known(check[k]) /\ Formed(k, check[k])
        /\ check[k].no \subseteq Listings \ DOMAIN check[k].gets
        /\ DOMAIN check[k].gets \subseteq Listings /\ kind \in DOMAIN check[k].gets
        /\ TimedGets(check[k].gets) /\ RequestTimeout - g.left \in Nat
    BY <1>1, RunningFacts
  <1>3. Shaped(h) /\ h.who = k /\ h.gets = check[k].gets /\ h.no = no
    BY <1>2, NoSet
  <1>4. check' = [check EXCEPT ![k] = r]
    <2>1. check' = [check EXCEPT ![k].no = no,
                                 ![k].gets = [i \in DOMAIN @ \ {kind} |-> @[i]]]
      BY DEF Listed
    <2>2. check[k] = [who |-> check[k].who, gets |-> check[k].gets, no |-> check[k].no]
      BY <1>2 DEF Shaped
    <2>3. h.gets = check[k].gets
      BY <1>3
    <2>4. \A j \in Keys : check'[j] = IF j = k THEN r ELSE check[j]
      BY <2>1, <2>2, <2>3 DEF IInv, Typed
    <2>5. check' = [j \in Keys |-> check'[j]]
      BY <2>1 DEF IInv, Typed
    <2> HIDE DEF r
    <2> QED
      BY <2>4, <2>5 DEF IInv, Typed
  <1>5. Shaped(r) /\ r.who = k /\ r.gets = gets /\ r.no = no
    <2> HIDE DEF h, gets
    <2> QED
      BY <1>3, GetsSet
  <1>6. /\ DOMAIN gets = rest /\ rest \subseteq Listings
        /\ \A i \in rest : gets[i] = check[k].gets[i]
    BY <1>2
  <1>7. Formed(k, r)
    <2>1. TimedGets(gets)
      BY <1>2, <1>6 DEF TimedGets
    <2>2. Phased(k, gets)
      BY <1>6 DEF Phased
    <2>3. no \subseteq Listings \ rest
      BY <1>1, <1>2
    <2>4. DOMAIN gets \notin {{"user"}, {"client"}}
      BY <1>6, Kinds1
    <2> HIDE DEF r, gets, no, rest, g, h
    <2> QED
      BY <1>5, <1>6, <2>1, <2>2, <2>3, <2>4 DEF Formed
  <1>8. Known(check[k])'
    <2>1. check'[k] = r
      BY <1>4 DEF IInv, Typed
    <2>2. /\ Passed(check[k]) = KindsFor(k) \ DOMAIN check[k].gets
          /\ Before(check[k]) = 2 * RequestTimeout
      BY <1>2, Kinds1 DEF Passed, Before
    <2>3. Passed(r) = KindsFor(k) \ rest /\ Before(r) = 2 * RequestTimeout
      BY <1>5, <1>6, Kinds1 DEF Passed, Before
    <2>4. ASSUME NEW i \in rest, NEW j \in KindsFor(k) \ rest
          PROVE  WasWithin(FactOf(k, j), j \notin no,
                           2 * RequestTimeout + Elapsed(check[k].gets[i]))
      <3>1. CASE j = kind
        <4>1. (kind \notin no) = value
          BY <1>2
        <4>2. /\ RequestTimeout - g.left <= Elapsed(check[k].gets[i])
              /\ Elapsed(check[k].gets[i]) \in Nat
          BY <1>2, <2>4, ElapsedFacts DEF TimedGets
        <4>3. /\ RequestTimeout - g.left <= 2 * RequestTimeout + Elapsed(check[k].gets[i])
              /\ 2 * RequestTimeout + Elapsed(check[k].gets[i]) \in Nat
          BY <1>2, <4>2, Constants
        <4>4. FactOf(k, kind) \in Facts
          BY <1>2, <1>1, Kinds1
        <4> HIDE DEF g, no, rest, gets, h, r
        <4> QED
          BY <1>1, <1>2, <3>1, <4>1, <4>3, <4>4 DEF WasWithin, IInv, Typed
      <3>2. CASE j # kind
        <4>1. j \in Passed(check[k]) /\ i \in DOMAIN check[k].gets
          BY <2>2, <2>4, <3>2
        <4>2. WasWithin(FactOf(k, j), j \notin check[k].no,
                        2 * RequestTimeout + Elapsed(check[k].gets[i]))
          BY <1>2, <2>2, <4>1 DEF Known
        <4>3. (j \notin no) = (j \notin check[k].no)
          BY <3>2
        <4> HIDE DEF g, no, rest, gets, h, r
        <4> QED
          BY <4>2, <4>3
      <3> QED
        BY <3>1, <3>2
    <2> HIDE DEF g, no, rest, gets, h, r
    <2> QED
      BY <1>1, <1>5, <1>6, <2>1, <2>3, <2>4 DEF Known, WasWithin, Passed, Before
  <1> HIDE DEF g, no, rest, gets, h, r
  <1> QED
    BY <1>1, <1>4, <1>7, <1>8, OneCheckHolds

\* The next page of a listing.
LEMMA NextPageKeeps ==
    ASSUME IInv, NEW k \in Keys, NEW kind \in Kinds, NextPage(k, kind)
    PROVE  IInv'
  <1> DEFINE g == check[k].gets[kind]
             n == NewGet(g.page + 1)
             gets == [check[k].gets EXCEPT ![kind] = n]
             r == [check[k] EXCEPT !.gets = gets]
  <1>1. /\ kind \in Listings /\ Runs(k, kind) /\ fact' = fact /\ cache' = cache
        /\ ~LastPage(g) /\ check' = [check EXCEPT ![k] = r]
    BY DEF NextPage
  <1>2. /\ Shaped(check[k]) /\ check[k].who = k /\ Known(check[k]) /\ Formed(k, check[k])
        /\ check[k].no \subseteq Listings \ DOMAIN check[k].gets
        /\ DOMAIN check[k].gets \subseteq Listings /\ kind \in DOMAIN check[k].gets
        /\ TimedGets(check[k].gets) /\ g.page \in 0 .. MaxPages - 1
        /\ g.left \in 0 .. RequestTimeout
    BY <1>1, RunningFacts
  <1>3. Shaped(r) /\ r.who = k /\ r.gets = gets /\ r.no = check[k].no
    <2> HIDE DEF gets
    <2> QED
      BY <1>2, GetsSet
  <1>4. /\ ShapedGet(n) /\ n.left = RequestTimeout /\ n.page = g.page + 1
        /\ n.left \in 0 .. RequestTimeout /\ n.page \in 0 .. MaxPages - 1
    <2>1. g.page + 1 # MaxPages
      BY <1>1 DEF LastPage
    <2> HIDE DEF g
    <2>2. ShapedGet(n) /\ n.left = RequestTimeout /\ n.page = g.page + 1
      BY NewGetFacts
    <2> HIDE DEF n
    <2> QED
      BY <1>2, <2>1, <2>2, Constants
  <1>5. Elapsed(n) \in Nat /\ Elapsed(g) \in Nat /\ Elapsed(g) <= Elapsed(n)
    <2> HIDE DEF g, n
    <2>1. Elapsed(n) = g.page * RequestTimeout + RequestTimeout
      BY <1>2, <1>4, PagesTake, Constants DEF Elapsed
    <2>2. Elapsed(g) = g.page * RequestTimeout + (RequestTimeout - g.left)
          /\ g.page * RequestTimeout \in Nat
      BY <1>2, PagesTake DEF Elapsed
    <2> QED
      BY <1>2, <2>1, <2>2, Constants
  <1>6. /\ DOMAIN gets = DOMAIN check[k].gets
        /\ gets = [i \in DOMAIN gets |-> gets[i]]
        /\ \A i \in DOMAIN gets : gets[i] = IF i = kind THEN n ELSE check[k].gets[i]
    <2> HIDE DEF n
    <2> QED
      BY <1>2 DEF TimedGets
  <1>7. \A i \in DOMAIN gets : /\ Elapsed(check[k].gets[i]) \in Nat
                               /\ Elapsed(gets[i]) \in Nat
                               /\ Elapsed(check[k].gets[i]) <= Elapsed(gets[i])
    <2> SUFFICES ASSUME NEW i \in DOMAIN gets
                 PROVE  /\ Elapsed(check[k].gets[i]) \in Nat
                        /\ Elapsed(gets[i]) \in Nat
                        /\ Elapsed(check[k].gets[i]) <= Elapsed(gets[i])
      OBVIOUS
    <2>1. Elapsed(check[k].gets[i]) \in Nat
      BY <1>2, <1>6, ElapsedFacts DEF TimedGets
    <2> HIDE DEF n, gets
    <2> QED
      BY <1>5, <1>6, <2>1
  <1>8. Formed(k, r)
    <2>1. TimedGets(gets)
      <3>1. \A i \in DOMAIN gets : /\ ShapedGet(gets[i])
                                   /\ gets[i].left \in 0 .. RequestTimeout
                                   /\ gets[i].page \in 0 .. MaxPages - 1
        <4> HIDE DEF n, gets
        <4> QED
          BY <1>2, <1>4, <1>6 DEF TimedGets
      <3>2. ASSUME NEW i \in DOMAIN gets, NEW j \in DOMAIN gets
            PROVE  RequestTimeout - gets[i].left <= Elapsed(gets[j])
        <4>1. CASE i = kind
          <5> HIDE DEF n, gets
          <5> QED
            BY <1>4, <1>6, <1>7, <4>1, Constants
        <4>2. CASE i # kind
          <5>1. RequestTimeout - gets[i].left <= Elapsed(check[k].gets[j])
            BY <1>2, <1>6, <4>2 DEF TimedGets
          <5>2. RequestTimeout - gets[i].left \in Nat
            BY <3>1, Constants
          <5> HIDE DEF n, gets
          <5> QED
            BY <1>7, <5>1, <5>2
        <4> QED
          BY <4>1, <4>2
      <3> HIDE DEF n, gets
      <3> QED
        BY <1>6, <3>1, <3>2 DEF TimedGets
    <2>2. Phased(k, gets)
      BY <1>2, <1>6 DEF Phased
    <2>3. DOMAIN gets \notin {{"user"}, {"client"}}
      BY <1>2, <1>6, Kinds1
    <2> HIDE DEF r, gets, n, g
    <2> QED
      BY <1>2, <1>3, <1>6, <2>1, <2>2, <2>3 DEF Formed
  <1>9. Known(check[k])'
    <2>1. check'[k] = r
      BY <1>1 DEF IInv, Typed
    <2>2. /\ Passed(check[k]) = KindsFor(k) \ DOMAIN gets
          /\ Passed(r) = KindsFor(k) \ DOMAIN gets
          /\ Before(check[k]) = 2 * RequestTimeout /\ Before(r) = 2 * RequestTimeout
      <3> HIDE DEF r, gets, n, g
      <3> QED
        BY <1>2, <1>3, <1>6, Kinds1 DEF Passed, Before
    <2>3. ASSUME NEW i \in DOMAIN gets, NEW j \in KindsFor(k) \ DOMAIN gets
          PROVE  WasWithin(FactOf(k, j), j \notin check[k].no,
                           2 * RequestTimeout + Elapsed(gets[i]))
      <3>1. WasWithin(FactOf(k, j), j \notin check[k].no,
                      2 * RequestTimeout + Elapsed(check[k].gets[i]))
        BY <1>2, <1>6, <2>2 DEF Known
      <3>2. FactOf(k, j) \in Facts
        BY Kinds1
      <3>3. /\ 2 * RequestTimeout + Elapsed(gets[i]) \in Nat
            /\ 2 * RequestTimeout + Elapsed(check[k].gets[i]) \in Nat
            /\ 2 * RequestTimeout + Elapsed(check[k].gets[i])
                   <= 2 * RequestTimeout + Elapsed(gets[i])
        <4> HIDE DEF r, gets, n, g
        <4> QED
          BY <1>7, Constants
      <3> HIDE DEF r, gets, n, g
      <3> QED
        BY <3>1, <3>2, <3>3 DEF WasWithin, IInv, Typed
    <2> HIDE DEF r, gets, n, g
    <2> QED
      BY <1>1, <1>3, <2>1, <2>2, <2>3 DEF Known, WasWithin, Passed, Before
  <1> HIDE DEF r, gets, n, g
  <1> QED
    BY <1>1, <1>8, <1>9, OneCheckHolds

-----------------------------------------------------------------------------
(* Failures, tokens and what Auth0 does.                                   *)

\* A step that leaves facts, answers and checks alone, or drops checks.
LEMMA DroppingKeeps ==
    ASSUME IInv, fact' = fact, cache' = cache, check' = [k \in Keys |-> check'[k]],
           \A k \in Keys : check'[k] = None \/ check'[k] = check[k]
    PROVE  IInv'
  <1>1. CheckInv'
    BY SameFactsKept, OthersKeep DEF IInv
  <1>2. CacheInv'
    BY SameFactsKept, SameCacheKeeps DEF IInv
  <1>3. Typed'
    BY DEF IInv, Typed
  <1> QED
    BY <1>1, <1>2, <1>3 DEF IInv

LEMMA FailsKeeps ==
    ASSUME IInv, fact' = fact, NEW k \in Keys, NEW kind, Fails(k, kind)
    PROVE  IInv'
  BY DroppingKeeps DEF Fails, AfterFailure, IInv, Typed

\* A check whose requests get new tokens, or lose theirs.
LEMMA GetsAlike ==
    ASSUME IInv, NEW k \in Keys, check[k] # None, NEW h,
           h = [i \in DOMAIN check[k].gets |-> h[i]],
           check'[k] = [check[k] EXCEPT !.gets = h],
           \A i \in DOMAIN check[k].gets :
               /\ ShapedGet(h[i]) /\ h[i].left = check[k].gets[i].left
               /\ h[i].page = check[k].gets[i].page
    PROVE  Alike(k)
  <1>1. Shaped(check[k])
    BY DEF IInv, CheckInv, Formed
  <1>2. PICK r : r = check[k]
    OBVIOUS
  <1>3. /\ Shaped([r EXCEPT !.gets = h]) /\ [r EXCEPT !.gets = h].who = r.who
        /\ [r EXCEPT !.gets = h].gets = h /\ [r EXCEPT !.gets = h].no = r.no
    BY <1>1, <1>2, GetsSet
  <1>4. DOMAIN h = DOMAIN check[k].gets
    OBVIOUS
  <1>5. /\ Shaped(check'[k]) /\ check'[k].who = check[k].who
        /\ check'[k].gets = h /\ check'[k].no = check[k].no
    BY <1>2, <1>3
  <1> QED
    BY <1>4, <1>5 DEF Alike

LEMMA AllAlikeKeeps ==
    ASSUME IInv, fact' = fact, cache' = cache, check' = [k \in Keys |-> check'[k]],
           \A k \in Keys : IF check[k] = None THEN check'[k] = None ELSE Alike(k)
    PROVE  IInv'
  <1>1. CheckInv'
    BY SameFactsKept, OthersKeep DEF IInv
  <1>2. CacheInv'
    BY SameFactsKept, SameCacheKeeps DEF IInv
  <1>3. Typed'
    BY DEF IInv, Typed
  <1> QED
    BY <1>1, <1>2, <1>3 DEF IInv

LEMMA TokenArrivesKeeps == ASSUME IInv, TokenArrives PROVE IInv'
  <1>1. PICK t : t = token'
    OBVIOUS
  <1>2. /\ fact' = fact /\ cache' = cache /\ check' = [k \in Keys |-> check'[k]]
        /\ \A k \in Keys : check'[k] =
               IF check[k] = None THEN None
               ELSE [check[k] EXCEPT
                        !.gets = [i \in DOMAIN check[k].gets |-> Sent(check[k].gets[i], t)]]
    BY <1>1 DEF TokenArrives
  <1>3. ASSUME NEW k \in Keys, check[k] # None
        PROVE  Alike(k)
    <2>1. PICK h : h = [i \in DOMAIN check[k].gets |-> Sent(check[k].gets[i], t)]
      OBVIOUS
    <2>2. \A i \in DOMAIN check[k].gets : ShapedGet(check[k].gets[i])
      BY <1>3 DEF IInv, CheckInv, Formed, TimedGets
    <2>3. ASSUME NEW i \in DOMAIN check[k].gets
          PROVE  /\ ShapedGet(h[i]) /\ h[i].left = check[k].gets[i].left
                 /\ h[i].page = check[k].gets[i].page
      <3>1. PICK g : g = check[k].gets[i]
        OBVIOUS
      <3>2. ShapedGet(g) /\ h[i] = Sent(g, t)
        BY <2>1, <2>2, <2>3, <3>1
      <3>3. ShapedGet(Sent(g, t)) /\ Sent(g, t).left = g.left /\ Sent(g, t).page = g.page
        BY <3>2, SentFacts
      <3> QED
        BY <3>1, <3>2, <3>3
    <2>4. check'[k] = [check[k] EXCEPT !.gets = h]
      BY <1>2, <1>3, <2>1
    <2>5. h = [i \in DOMAIN check[k].gets |-> h[i]]
      BY <2>1
    <2> QED
      BY <1>3, <2>3, <2>4, <2>5, GetsAlike
  <1> QED
    BY <1>2, <1>3, AllAlikeKeeps

LEMMA RotateKeeps == ASSUME IInv, Rotate PROVE IInv'
  <1>2. /\ fact' = fact /\ cache' = cache /\ check' = [k \in Keys |-> check'[k]]
        /\ \A k \in Keys : check'[k] =
               IF check[k] = None THEN None
               ELSE [check[k] EXCEPT
                        !.gets = [i \in DOMAIN check[k].gets |-> Revoked(check[k].gets[i])]]
    BY DEF Rotate
  <1>3. ASSUME NEW k \in Keys, check[k] # None
        PROVE  Alike(k)
    <2>1. PICK h : h = [i \in DOMAIN check[k].gets |-> Revoked(check[k].gets[i])]
      OBVIOUS
    <2>2. \A i \in DOMAIN check[k].gets : ShapedGet(check[k].gets[i])
      BY <1>3 DEF IInv, CheckInv, Formed, TimedGets
    <2>3. ASSUME NEW i \in DOMAIN check[k].gets
          PROVE  /\ ShapedGet(h[i]) /\ h[i].left = check[k].gets[i].left
                 /\ h[i].page = check[k].gets[i].page
      <3>1. PICK g : g = check[k].gets[i]
        OBVIOUS
      <3>2. ShapedGet(g) /\ h[i] = Revoked(g)
        BY <2>1, <2>2, <2>3, <3>1
      <3>3. ShapedGet(Revoked(g)) /\ Revoked(g).left = g.left /\ Revoked(g).page = g.page
        BY <3>2, RevokedFacts
      <3> QED
        BY <3>1, <3>2, <3>3
    <2>4. check'[k] = [check[k] EXCEPT !.gets = h]
      BY <1>2, <1>3, <2>1
    <2>5. h = [i \in DOMAIN check[k].gets |-> h[i]]
      BY <2>1
    <2> QED
      BY <1>3, <2>3, <2>4, <2>5, GetsAlike
  <1> QED
    BY <1>2, <1>3, AllAlikeKeeps

LEMMA TokenFailsKeeps == ASSUME IInv, TokenFails PROVE IInv'
  <1>1. /\ fact' = fact /\ cache' = cache /\ check' = [k \in Keys |-> check'[k]]
        /\ \A k \in Keys : check'[k] = None \/ check'[k] = check[k]
    BY DEF TokenFails, AfterFailure
  <1> QED
    BY <1>1, DroppingKeeps

LEMMA SameKeeps ==
    ASSUME IInv, fact' = fact, cache' = cache, check' = check
    PROVE  IInv'
  <1>1. check' = [k \in Keys |-> check'[k]]
    BY DEF IInv, Typed
  <1> QED
    BY <1>1, DroppingKeeps

LEMMA WithdrawKeeps ==
    ASSUME IInv, NEW g \in Volatile, Withdraw(g)
    PROVE  IInv'
  <1>1. CASE g \in Facts
    <2>1. Kept /\ fact' \in [Facts -> [held : BOOLEAN, ago : Nat]]
      BY <1>1, WithdrawKept DEF IInv
    <2>2. check' = check /\ cache' = cache
      BY DEF Withdraw
    <2>3. CheckInv'
      BY <2>1, <2>2, OthersKeep DEF IInv
    <2>4. CacheInv'
      BY <2>1, <2>2, SameCacheKeeps DEF IInv
    <2>5. Typed'
      BY <2>1, <2>2 DEF IInv, Typed
    <2> QED
      BY <2>3, <2>4, <2>5 DEF IInv
  <1>2. CASE g \notin Facts
    <2>1. fact' = fact
      BY <1>2 DEF Withdraw, IInv, Typed
    <2> QED
      BY <2>1, SameKeeps DEF Withdraw
  <1> QED
    BY <1>1, <1>2

-----------------------------------------------------------------------------
(* Time.                                                                   *)

\* After a tick, what was the case within t ticks was the case within t + 1.
LEMMA TickFacts ==
    ASSUME Typed, Tick
    PROVE  /\ fact' \in [Facts -> [held : BOOLEAN, ago : Nat]]
           /\ \A f \in Facts, v \in BOOLEAN, t \in 0 .. Lag :
                  WasWithin(f, v, t) => WasWithin(f, v, t + 1)'
  <1>1. \A f \in Facts : /\ fact[f] \in [held : BOOLEAN, ago : Nat]
                         /\ fact'[f] = IF fact[f].ago > Lag THEN fact[f]
                                       ELSE [fact[f] EXCEPT !.ago = @ + 1]
    BY DEF Typed, Tick
  <1>2. \A f \in Facts : /\ fact'[f] \in [held : BOOLEAN, ago : Nat]
                         /\ fact'[f].held = fact[f].held
                         /\ fact'[f].ago = IF fact[f].ago > Lag THEN fact[f].ago
                                           ELSE fact[f].ago + 1
    <2> SUFFICES ASSUME NEW f \in Facts
                 PROVE  /\ fact'[f] \in [held : BOOLEAN, ago : Nat]
                        /\ fact'[f].held = fact[f].held
                        /\ fact'[f].ago = IF fact[f].ago > Lag THEN fact[f].ago
                                          ELSE fact[f].ago + 1
      OBVIOUS
    <2>1. fact[f] \in [held : BOOLEAN, ago : Nat]
      BY <1>1
    <2>2. CASE fact[f].ago > Lag
      BY <1>1, <2>2
    <2>3. CASE ~ (fact[f].ago > Lag)
      <3>1. fact'[f] = [fact[f] EXCEPT !.ago = @ + 1]
        BY <1>1, <2>3
      <3> QED
        BY <2>1, <2>3, <3>1
    <2> QED
      BY <2>2, <2>3
  <1>3. fact' = [f \in Facts |-> fact'[f]]
    BY DEF Tick
  <1>4. fact' \in [Facts -> [held : BOOLEAN, ago : Nat]]
    BY <1>2, <1>3
  <1> SUFFICES ASSUME NEW f \in Facts, NEW v \in BOOLEAN, NEW t \in 0 .. Lag,
                      WasWithin(f, v, t)
               PROVE  WasWithin(f, v, t + 1)'
    BY <1>4
  <1>5. fact[f].ago \in Nat /\ Lag \in Nat
    BY <1>1, Constants
  <1>6. CASE fact[f].held = v
    BY <1>2, <1>6 DEF WasWithin
  <1>7. CASE fact[f].ago <= t
    <2>1. fact'[f].ago = fact[f].ago + 1
      BY <1>2, <1>5, <1>7
    <2> QED
      BY <1>5, <1>7, <2>1 DEF WasWithin
  <1> QED
    BY <1>6, <1>7 DEF WasWithin

\* A request that is not due has a tick less.
LEMMA AgedElapsed ==
    ASSUME NEW g, ShapedGet(g), g.page \in 0 .. MaxPages - 1,
           g.left \in 0 .. RequestTimeout, g.left # 0
    PROVE  /\ ShapedGet(Aged(g)) /\ Aged(g).page = g.page
           /\ Aged(g).left \in 0 .. RequestTimeout
           /\ RequestTimeout - Aged(g).left = RequestTimeout - g.left + 1
           /\ Elapsed(Aged(g)) = Elapsed(g) + 1
  <1>1. ShapedGet(Aged(g)) /\ Aged(g).left = g.left - 1 /\ Aged(g).page = g.page
    BY AgedFacts DEF Less
  <1>2. PICK a : a = Aged(g)
    OBVIOUS
  <1>3. PICK m : m = g.page * RequestTimeout
    OBVIOUS
  <1>4. m \in Nat /\ RequestTimeout \in Nat
    BY <1>3, PagesTake, Constants
  <1>5. Elapsed(a) = m + (RequestTimeout - a.left)
    BY <1>1, <1>2, <1>3 DEF Elapsed
  <1>6. Elapsed(g) = m + (RequestTimeout - g.left)
    BY <1>3 DEF Elapsed
  <1>7. a.left = g.left - 1
    BY <1>1, <1>2
  <1> QED
    BY <1>1, <1>2, <1>4, <1>5, <1>6, <1>7

LEMMA TickChecks ==
    ASSUME IInv, Tick, NEW k \in Keys, check[k] # None
    PROVE  Formed(k, check'[k]) /\ Known(check[k])'
  <1>1. Formed(k, check[k]) /\ Known(check[k])
    BY DEF IInv, CheckInv
  <1>2. PICK r : r = check[k]
    OBVIOUS
  <1>3. PICK h : h = [i \in DOMAIN r.gets |-> Aged(r.gets[i])]
    OBVIOUS
  <1>4. check'[k] = [r EXCEPT !.gets = h]
    BY <1>2, <1>3 DEF Tick
  <1>5. /\ Shaped(check'[k]) /\ check'[k].who = k /\ check'[k].gets = h
        /\ check'[k].no = r.no /\ DOMAIN h = DOMAIN r.gets
        /\ Shaped(r) /\ r.who = k
    <2>1. Shaped(r) /\ r.who = k
      BY <1>1, <1>2 DEF Formed
    <2>2. /\ Shaped([r EXCEPT !.gets = h]) /\ [r EXCEPT !.gets = h].who = r.who
          /\ [r EXCEPT !.gets = h].gets = h /\ [r EXCEPT !.gets = h].no = r.no
      BY <2>1, GetsSet
    <2> QED
      BY <1>3, <1>4, <2>1, <2>2
  <1>6. \A i \in DOMAIN r.gets :
            /\ ShapedGet(h[i]) /\ h[i].page = r.gets[i].page
            /\ r.gets[i].page \in 0 .. MaxPages - 1
            /\ h[i].left \in 0 .. RequestTimeout
            /\ RequestTimeout - r.gets[i].left \in Nat
            /\ RequestTimeout - h[i].left = RequestTimeout - r.gets[i].left + 1
            /\ Elapsed(r.gets[i]) \in Nat
            /\ Elapsed(h[i]) = Elapsed(r.gets[i]) + 1
            /\ 2 * RequestTimeout + Elapsed(r.gets[i]) <= Lag
    <2> SUFFICES ASSUME NEW i \in DOMAIN r.gets, NEW g, g = r.gets[i]
                 PROVE  /\ ShapedGet(h[i]) /\ h[i].page = g.page
                        /\ g.page \in 0 .. MaxPages - 1
                        /\ h[i].left \in 0 .. RequestTimeout
                        /\ RequestTimeout - g.left \in Nat
                        /\ RequestTimeout - h[i].left = RequestTimeout - g.left + 1
                        /\ Elapsed(g) \in Nat
                        /\ Elapsed(h[i]) = Elapsed(g) + 1
                        /\ 2 * RequestTimeout + Elapsed(g) <= Lag
      OBVIOUS
    <2>1. /\ ShapedGet(g) /\ g.page \in 0 .. MaxPages - 1
          /\ g.left \in 0 .. RequestTimeout
      BY <1>1, <1>2 DEF Formed, TimedGets
    <2>2. g.left # 0
      BY <1>2 DEF Tick, Due
    <2>3. h[i] = Aged(g)
      BY <1>3
    <2>4. /\ ShapedGet(Aged(g)) /\ Aged(g).page = g.page
          /\ Aged(g).left \in 0 .. RequestTimeout
          /\ RequestTimeout - Aged(g).left = RequestTimeout - g.left + 1
          /\ Elapsed(Aged(g)) = Elapsed(g) + 1
      BY <2>1, <2>2, AgedElapsed
    <2>5. /\ Elapsed(g) \in Nat /\ RequestTimeout - g.left \in Nat
          /\ 2 * RequestTimeout + Elapsed(g) <= Lag
      BY <2>1, ElapsedFacts, Constants
    <2> QED
      BY <2>1, <2>3, <2>4, <2>5
  <1>7. Formed(k, check'[k])
    <2>1. TimedGets(h)
      <3>1. h = [i \in DOMAIN h |-> h[i]]
        BY <1>3
      <3>2. ASSUME NEW i \in DOMAIN h, NEW j \in DOMAIN h
            PROVE  RequestTimeout - h[i].left <= Elapsed(h[j])
        <4>1. RequestTimeout - r.gets[i].left <= Elapsed(r.gets[j])
          BY <1>1, <1>2, <1>5 DEF Formed, TimedGets
        <4> QED
          BY <1>5, <1>6, <4>1
      <3> QED
        BY <1>5, <1>6, <3>1, <3>2 DEF TimedGets
    <2>2. Phased(k, h)
      BY <1>1, <1>2, <1>5 DEF Formed, Phased
    <2> QED
      BY <1>1, <1>2, <1>5, <1>6, <2>1, <2>2 DEF Formed
  <1>8. Known(check[k])'
    <2>1. /\ Passed(check'[k]) = Passed(r) /\ Before(check'[k]) = Before(r)
          /\ Before(r) \in Nat /\ Before(r) <= 2 * RequestTimeout
          /\ Passed(r) \subseteq KindsFor(k)
      BY <1>5, Constants, Kinds1 DEF Passed, Before
    <2>2. ASSUME NEW i \in DOMAIN r.gets, NEW kind \in Passed(r)
          PROVE  WasWithin(FactOf(k, kind), kind \notin r.no, Before(r) + Elapsed(h[i]))'
      <3>1. PICK t : t = Before(r) + Elapsed(r.gets[i])
        OBVIOUS
      <3>2. t \in 0 .. Lag /\ Before(r) + Elapsed(h[i]) = t + 1
        BY <1>6, <2>1, <3>1, Constants
      <3>3. WasWithin(FactOf(k, kind), kind \notin r.no, t)
        BY <1>1, <1>2, <1>5, <3>1 DEF Known
      <3>4. FactOf(k, kind) \in Facts /\ (kind \notin r.no) \in BOOLEAN
        BY <2>1, Kinds1
      <3>5. WasWithin(FactOf(k, kind), kind \notin r.no, t + 1)'
        BY <3>2, <3>3, <3>4, TickFacts DEF IInv
      <3> QED
        BY <3>2, <3>5 DEF WasWithin
    <2> QED
      BY <1>5, <2>1, <2>2 DEF Known, WasWithin, Passed, Before
  <1> QED
    BY <1>7, <1>8

LEMMA TickKeeps == ASSUME IInv, Tick PROVE IInv'
  <1>1. /\ check' = [k \in Keys |-> check'[k]] /\ cache' = [k \in Keys |-> cache'[k]]
        /\ \A k \in Keys : check[k] = None => check'[k] = None
        /\ \A k \in Keys : cache'[k] = IF cache[k] = None THEN None
                                       ELSE [cache[k] EXCEPT !.left = Less(@)]
    BY DEF Tick
  <1>2. CheckInv'
    <2> SUFFICES ASSUME NEW k \in Keys, check'[k] # None
                 PROVE  Formed(k, check'[k]) /\ Known(check[k])'
      BY DEF CheckInv, Formed, Shaped, Phased, TimedGets, ShapedGet, Elapsed
    <2> QED
      BY <1>1, TickChecks
  <1>3. ASSUME NEW k \in Keys, cache[k] # None
        PROVE  /\ cache[k] \in [is : Decision, left : 0 .. AccessCache]
               /\ cache'[k] \in [is : Decision, left : 0 .. AccessCache]
               /\ cache'[k].is = cache[k].is /\ cache'[k].left = Less(cache[k].left)
    <2>1. cache[k] \in [is : Decision, left : 0 .. AccessCache]
      BY <1>3 DEF IInv, Typed
    <2>2. Less(cache[k].left) \in 0 .. AccessCache
      BY <2>1, Constants DEF Less
    <2> QED
      BY <1>1, <1>3, <2>1, <2>2
  <1>4. CacheInv'
    <2> SUFFICES ASSUME NEW k \in Keys, Cached(k)'
                 PROVE  Evidence(k, cache[k])'
      BY DEF CacheInv
    <2>1. cache[k] # None
      BY <1>1 DEF Cached
    <2>2. /\ cache[k].left \in 0 .. AccessCache /\ cache[k].left > 0
          /\ cache'[k].left = cache[k].left - 1 /\ cache'[k].is = cache[k].is
      BY <1>3, <2>1, Constants DEF Cached, Less
    <2>3. Evidence(k, cache[k])
      BY <2>1, <2>2 DEF CacheInv, Cached, IInv
    <2>4. PICK t : t = Lag - cache[k].left
      OBVIOUS
    <2>5. t \in 0 .. Lag /\ Lag - cache'[k].left = t + 1
      BY <2>2, <2>4, Constants
    <2>6. \A f \in FactsOf(k) : f \in Facts
      BY Kinds1
    <2>7. /\ \A f \in FactsOf(k) : WasWithin(f, TRUE, t) => WasWithin(f, TRUE, t + 1)'
          /\ \A f \in FactsOf(k) : WasWithin(f, FALSE, t) => WasWithin(f, FALSE, t + 1)'
      BY <2>5, <2>6, TickFacts DEF IInv
    <2> QED
      BY <2>2, <2>3, <2>4, <2>5, <2>7 DEF Evidence, WasWithin
  <1>5. Typed'
    <2>1. fact' \in [Facts -> [held : BOOLEAN, ago : Nat]]
      BY TickFacts DEF IInv
    <2>2. \A k \in Keys : cache'[k] # None
              => cache'[k] \in [is : Decision, left : 0 .. AccessCache]
      BY <1>1, <1>3
    <2> QED
      BY <1>1, <2>1, <2>2 DEF Typed
  <1> QED
    BY <1>2, <1>4, <1>5 DEF IInv

-----------------------------------------------------------------------------
(* The invariant and what follows from it.                                 *)

LEMMA InitHolds == ASSUME Init PROVE IInv
  <1>1. Typed
    <2>1. Lag + 1 \in Nat
      BY Constants
    <2> QED
      BY <2>1 DEF Init, Typed
  <1>2. CheckInv
    BY DEF Init, CheckInv
  <1>3. CacheInv
    BY DEF Init, CacheInv, Cached
  <1> QED
    BY <1>1, <1>2, <1>3 DEF IInv

LEMMA EndsKeeps ==
    ASSUME IInv, NEW k \in Keys, NEW kind \in Kinds, Ends(k, kind)
    PROVE  IInv'
  <1>1. CASE GoesOn(k, kind)
    BY <1>1, GoesOnKeeps
  <1>2. CASE Refutes(k, kind)
    BY <1>2, RefutesKeeps
  <1>3. CASE \E value \in BOOLEAN : Listed(k, kind, value)
    <2>1. PICK value \in BOOLEAN : Listed(k, kind, value)
      BY <1>3
    <2> QED
      BY <2>1, LastListedKeeps, ListedKeeps
  <1>4. CASE NextPage(k, kind)
    BY <1>4, NextPageKeeps
  <1>5. CASE Incomplete(k, kind)
    BY <1>5, FailsKeeps DEF Incomplete, OutOfPages
  <1>6. CASE Rejected(k, kind)
    BY <1>6, FailsKeeps DEF Rejected
  <1>7. CASE RequestFails(k, kind)
    BY <1>7, FailsKeeps DEF RequestFails
  <1> QED
    BY <1>1, <1>2, <1>3, <1>4, <1>5, <1>6, <1>7 DEF Ends

LEMMA StepHolds == ASSUME IInv, [Next]_vars PROVE IInv'
  <1>1. CASE UNCHANGED vars
    BY <1>1, SameKeeps DEF vars
  <1>2. ASSUME NEW c \in Callers, Asks(c) PROVE IInv'
    BY <1>2, AsksKeeps
  <1>3. ASSUME NEW k \in Keys, NEW kind \in Kinds, Ends(k, kind) PROVE IInv'
    BY <1>3, EndsKeeps
  <1>4. ASSUME NEW life \in stray, StrayEnds(life) \/ StrayPages(life) PROVE IInv'
    BY <1>4, SameKeeps DEF StrayEnds, StrayPages
  <1>5. CASE TokenSettles
    <2>1. CASE TokenIssued
      BY <2>1, SameKeeps DEF TokenIssued
    <2> QED
      BY <1>5, <2>1, TokenArrivesKeeps, TokenFailsKeeps DEF TokenSettles
  <1>6. CASE Auth0
    BY <1>6, RotateKeeps, WithdrawKeeps DEF Auth0
  <1>7. CASE Tick
    BY <1>7, TickKeeps
  <1> QED
    BY <1>1, <1>2, <1>3, <1>4, <1>5, <1>6, <1>7 DEF Next

\* Every check knows how old what it has found may be, and every remembered
\* answer is no older than the checks and the cache allow.
THEOREM Inductive == Spec => []IInv
  <1>1. Init => IInv
    BY InitHolds
  <1>2. IInv /\ [Next]_vars => IInv'
    BY StepHolds
  <1> QED
    BY <1>1, <1>2, PTL DEF Spec

\* What a delivery is told rests on evidence of the last Lag ticks.
LEMMA AnswersHold == ASSUME IInv PROVE AllowedIsFresh /\ DeniedHasEvidence
  <1>1. ASSUME NEW c \in Callers, Cached(Key(Who[c]))
        PROVE  LET a == cache[Key(Who[c])].is IN
               /\ a = "allowed" => \A f \in FactsOf(Who[c]) : WasWithin(f, TRUE, Lag)
               /\ a = "denied" => \E f \in FactsOf(Who[c]) : WasWithin(f, FALSE, Lag)
    <2>1. PICK k : k = Who[c]
      OBVIOUS
    <2>2. k \in Keys /\ Key(Who[c]) = k
      BY <2>1 DEF Keys, Key, Principals
    <2>3. Evidence(k, cache[k])
      BY <1>1, <2>2 DEF IInv, CacheInv
    <2>4. cache[k].left \in 0 .. AccessCache
      BY <1>1, <2>2 DEF Cached, IInv, Typed
    <2>5. Lag - cache[k].left \in Nat /\ Lag \in Nat /\ Lag - cache[k].left <= Lag
      BY <2>4, Constants
    <2>6. \A f \in FactsOf(k) : fact[f].ago \in Nat
      BY <2>2, Kinds1 DEF IInv, Typed
    <2>7. \A f \in FactsOf(k), v \in BOOLEAN :
              WasWithin(f, v, Lag - cache[k].left) => WasWithin(f, v, Lag)
      BY <2>5, <2>6 DEF WasWithin
    <2> QED
      BY <2>1, <2>2, <2>3, <2>7 DEF Evidence
  <1>2. AllowedIsFresh
    BY <1>1 DEF AllowedIsFresh, Answer
  <1>3. DeniedHasEvidence
    BY <1>1 DEF DeniedHasEvidence, Answer
  <1> QED
    BY <1>2, <1>3

\* No delivery is allowed on facts that are older than a check and the cache
\* can last.
THEOREM FreshWhenAllowed == Spec => []AllowedIsFresh
  <1>1. IInv => AllowedIsFresh
    BY AnswersHold
  <1> QED
    BY <1>1, Inductive, PTL

\* No subscription is ended without a fact that was missing that recently.
THEOREM DeniedOnEvidence == Spec => []DeniedHasEvidence
  <1>1. IInv => DeniedHasEvidence
    BY AnswersHold
  <1> QED
    BY <1>1, Inductive, PTL

-----------------------------------------------------------------------------
(* Types, and the limit of the cache.                                      *)

Requested(g) == g.at \in {"token", "sent"} /\ g.life \in 0 .. Lifetime

Held == {k \in Keys : cache[k] # None}

Rest ==
    /\ fact \in [Facts -> [held : BOOLEAN, ago : 0 .. Lag + 1]]
    /\ token # None => token \in [life : 0 .. Lifetime, use : 0 .. Lifetime]
    /\ refresh # None => refresh \in [at : {"sent", "issued"}, left : 0 .. RequestTimeout,
                                      life : 0 .. Lifetime]
    /\ \A k \in Keys : check[k] # None =>
           \A i \in DOMAIN check[k].gets : Requested(check[k].gets[i])
    /\ stray \subseteq 0 .. Lifetime \cup {None}
    /\ asked \in [Callers -> {"no", "waiting", "unavailable"}]
    /\ Cardinality(Held) <= MaxCache

LEMMA MoreConstants ==
    /\ Lifetime \in Nat \ {0} /\ Margin \in Nat /\ MaxCache \in Nat \ {0}
    /\ IsFiniteSet(Keys)
  <1>1. Lifetime \in Nat \ {0} /\ Margin \in Nat /\ MaxCache \in Nat \ {0}
    BY AuthorizationAssumption
  <1> DEFINE f == [c \in Callers |-> Who[c]]
  <1>2. Keys = Principals
    BY DEF Keys, Key
  <1>3. f \in Surjection(Callers, Principals)
    BY DEF Principals, Surjection
  <1>4. IsFiniteSet(Principals)
    BY <1>3, AuthorizationAssumption, FS_Surjection
  <1> QED
    BY <1>1, <1>2, <1>4

LEMMA TypesFollow == ASSUME IInv, Rest PROVE TypeOK
  <1>1. ASSUME NEW k \in Keys, check[k] # None
        PROVE  /\ DOMAIN check[k] = {"who", "gets", "no"}
               /\ check[k].who \in Principals
               /\ DOMAIN check[k].gets \subseteq Kinds
               /\ \A i \in DOMAIN check[k].gets : check[k].gets[i] \in Get
               /\ check[k].no \subseteq Listings
    <2>1. Formed(k, check[k]) /\ \A i \in DOMAIN check[k].gets : Requested(check[k].gets[i])
      BY <1>1 DEF IInv, CheckInv, Rest
    <2>2. PICK r : r = check[k]
      OBVIOUS
    <2>3. r = [who |-> r.who, gets |-> r.gets, no |-> r.no] /\ r.who = k
      BY <2>1, <2>2 DEF Formed, Shaped
    <2>4. DOMAIN r = {"who", "gets", "no"}
      BY <2>3
    <2>5. DOMAIN r.gets \subseteq Kinds
      BY <2>1, <2>2 DEF Formed, Phased, Kinds
    <2>6. ASSUME NEW i \in DOMAIN r.gets
          PROVE  r.gets[i] \in Get
      <3>1. PICK g : g = r.gets[i]
        OBVIOUS
      <3>2. /\ g = [at |-> g.at, left |-> g.left, page |-> g.page, life |-> g.life]
            /\ g.at \in {"token", "sent"} /\ g.left \in 0 .. RequestTimeout
            /\ g.page \in 0 .. MaxPages - 1 /\ g.life \in 0 .. Lifetime
        BY <2>1, <2>2, <3>1 DEF Formed, TimedGets, ShapedGet, Requested
      <3>3. [at |-> g.at, left |-> g.left, page |-> g.page, life |-> g.life] \in Get
        BY <3>2 DEF Get
      <3> QED
        BY <3>1, <3>2, <3>3
    <2>7. r.no \subseteq Listings
      BY <2>1, <2>2 DEF Formed
    <2> QED
      BY <2>2, <2>3, <2>4, <2>5, <2>6, <2>7, Kinds1
  <1>2. DOMAIN check = Keys /\ DOMAIN cache = Keys
    BY DEF IInv, Typed
  <1>3. \A k \in Keys : cache[k] = None \/ cache[k] \in [is : Decision, left : 0 .. AccessCache]
    BY DEF IInv, Typed
  <1> QED
    BY <1>1, <1>2, <1>3 DEF TypeOK, Rest, Held

\* The token of a request, and what asks for one.
LEMMA NewGetRequested ==
    ASSUME Rest, NEW p
    PROVE  Requested(NewGet(p))
  <1>1. CASE Usable
    <2>1. token.life \in 0 .. Lifetime
      BY <1>1 DEF Usable, Rest
    <2>2. NewGet(p) = [at |-> "sent", left |-> RequestTimeout, page |-> p, life |-> token.life]
      BY <1>1 DEF NewGet
    <2> QED
      BY <2>1, <2>2 DEF Requested
  <1>2. CASE ~Usable
    <2>1. NewGet(p) = [at |-> "token", left |-> RequestTimeout, page |-> p, life |-> 0]
      BY <1>2 DEF NewGet
    <2> QED
      BY <2>1, MoreConstants DEF Requested
  <1> QED
    BY <1>1, <1>2

TypedRefresh ==
    refresh # None => refresh \in [at : {"sent", "issued"}, left : 0 .. RequestTimeout,
                                   life : 0 .. Lifetime]

LEMMA EnsureTyped == ASSUME Rest, EnsureToken PROVE TypedRefresh'
  BY Constants, MoreConstants DEF EnsureToken, Rest, TypedRefresh

TypedGets ==
    \A k \in Keys : check[k] # None =>
        \A i \in DOMAIN check[k].gets : Requested(check[k].gets[i])

\* One check changes.
LEMMA OneTyped ==
    ASSUME IInv, Rest, NEW k \in Keys, NEW r, check' = [check EXCEPT ![k] = r],
           r # None => \A i \in DOMAIN r.gets : Requested(r.gets[i])
    PROVE  TypedGets'
  <1>1. \A j \in Keys : check'[j] = IF j = k THEN r ELSE check[j]
    BY DEF IInv, Typed
  <1> QED
    BY <1>1 DEF TypedGets, Rest, Requested

\* Checks are dropped.
LEMMA DroppedTyped ==
    ASSUME Rest, \A k \in Keys : check'[k] = None \/ check'[k] = check[k]
    PROVE  TypedGets'
  BY DEF TypedGets, Rest, Requested

\* The requests of a check change.
LEMMA GetsTyped ==
    ASSUME IInv, NEW k \in Keys, check[k] # None, NEW h,
           check'[k] = [check[k] EXCEPT !.gets = h],
           \A i \in DOMAIN h : Requested(h[i])
    PROVE  \A i \in DOMAIN check'[k].gets : Requested(check'[k].gets[i])
  <1>1. PICK r : r = check[k]
    OBVIOUS
  <1>2. Shaped(r)
    BY <1>1 DEF IInv, CheckInv, Formed
  <1>3. [r EXCEPT !.gets = h].gets = h
    BY <1>2, GetsSet
  <1> QED
    BY <1>1, <1>3

\* What a settled check leaves in the cache is within its limit.
LEMMA SettlesTyped ==
    ASSUME Typed, Rest, NEW k \in Keys, NEW decision, Settles(k, decision)
    PROVE  /\ Cardinality(Held)' <= MaxCache
           /\ asked' \in [Callers -> {"no", "waiting", "unavailable"}]
           /\ TypedGets'
  <1>1. /\ \A j \in Keys : cache'[j] = IF j = k THEN [is |-> decision, left |-> AccessCache]
                                       ELSE IF Full THEN None ELSE cache[j]
        /\ check' = [check EXCEPT ![k] = None]
    BY DEF Settles
  <1>2. IsFiniteSet(Held) /\ Cardinality(Held) \in Nat
    BY MoreConstants, FS_Subset, FS_CardinalityType DEF Held
  <1>3. Cardinality(Held)' <= MaxCache
    <2>1. CASE Full
      <3>1. Held' \subseteq {k}
        BY <1>1, <2>1 DEF Held
      <3>2. IsFiniteSet({k}) /\ Cardinality({k}) = 1
        BY FS_Singleton
      <3>3. Cardinality(Held') <= 1 /\ Cardinality(Held') \in Nat
        BY <3>1, <3>2, FS_Subset, FS_CardinalityType
      <3> QED
        BY <3>3, MoreConstants DEF Held
    <2>2. CASE ~Full
      <3>1. Cardinality(Held) + 1 <= MaxCache
        BY <1>2, <2>2, MoreConstants DEF Full, Held
      <3>2. Held' \subseteq Held \cup {k}
        BY <1>1 DEF Held
      <3>3. /\ IsFiniteSet(Held \cup {k}) /\ Cardinality(Held \cup {k}) \in Nat
            /\ Cardinality(Held \cup {k}) <= Cardinality(Held) + 1
        BY <1>2, FS_AddElement
      <3>4. Cardinality(Held') <= Cardinality(Held \cup {k}) /\ Cardinality(Held') \in Nat
        BY <3>2, <3>3, FS_Subset, FS_CardinalityType
      <3> QED
        BY <1>2, <3>1, <3>3, <3>4, MoreConstants DEF Held
    <2> QED
      BY <2>1, <2>2
  <1>4. asked' \in [Callers -> {"no", "waiting", "unavailable"}]
    BY DEF Settles, Answered, Rest
  <1>5. TypedGets'
    <2>1. \A j \in Keys : check'[j] = None \/ check'[j] = check[j]
      BY <1>1 DEF Typed
    <2> QED
      BY <2>1, DroppedTyped
  <1> QED
    BY <1>3, <1>4, <1>5

LEMMA LeftTyped ==
    ASSUME Rest, NEW k \in Keys, check[k] # None, NEW kind
    PROVE  LeftBehind(k, kind) \subseteq 0 .. Lifetime \cup {None}
  <1> SUFFICES ASSUME NEW i \in DOMAIN check[k].gets
               PROVE  (IF check[k].gets[i].at = "sent" THEN check[k].gets[i].life ELSE None)
                          \in 0 .. Lifetime \cup {None}
    BY DEF LeftBehind
  <1>1. check[k].gets[i].life \in 0 .. Lifetime
    BY DEF Rest, Requested
  <1> QED
    BY <1>1

LEMMA FailsTyped ==
    ASSUME IInv, Rest, NEW k \in Keys, NEW kind, Runs(k, kind), Fails(k, kind)
    PROVE  /\ TypedGets' /\ stray' \subseteq 0 .. Lifetime \cup {None}
           /\ asked' \in [Callers -> {"no", "waiting", "unavailable"}]
           /\ cache' = cache
  <1>1. \A j \in Keys : check'[j] = None \/ check'[j] = check[j]
    BY DEF Fails, AfterFailure, IInv, Typed
  <1>2. TypedGets'
    BY <1>1, DroppedTyped
  <1>3. LeftBehind(k, kind) \subseteq 0 .. Lifetime \cup {None}
    BY LeftTyped DEF Runs
  <1>4. stray' \subseteq 0 .. Lifetime \cup {None}
    BY <1>3 DEF Fails, Rest
  <1> QED
    BY <1>2, <1>4 DEF Fails, Answered, Rest

\* The cache gains nothing.
LEMMA HeldSame ==
    ASSUME Rest, \A k \in Keys : cache[k] = None => cache'[k] = None
    PROVE  Cardinality(Held)' <= MaxCache
  <1>1. Held' \subseteq Held /\ Held \subseteq Keys
    BY DEF Held
  <1>2. IsFiniteSet(Held) /\ Cardinality(Held) \in Nat /\ IsFiniteSet(Held')
    BY <1>1, MoreConstants, FS_Subset, FS_CardinalityType
  <1>3. Cardinality(Held') <= Cardinality(Held) /\ Cardinality(Held') \in Nat
    BY <1>1, <1>2, FS_Subset, FS_CardinalityType
  <1> QED
    BY <1>2, <1>3, MoreConstants DEF Rest, Held

\* A step of isAuthorized().
LEMMA AsksTyped ==
    ASSUME IInv, Rest, NEW c \in Callers, Asks(c)
    PROVE  Rest'
  <1>1. /\ fact' = fact /\ token' = token /\ stray' = stray /\ cache' = cache
        /\ asked' \in [Callers -> {"no", "waiting", "unavailable"}]
    BY DEF Asks, Rest
  <1>2. TypedRefresh'
    BY EnsureTyped DEF Asks, Rest, TypedRefresh
  <1>3. TypedGets'
    <2>1. CASE check' = check
      BY <2>1 DEF Rest, TypedGets, Requested
    <2>2. CASE check' # check
      <3>1. PICK g : g = [i \in {"user"} |-> NewGet(0)]
        OBVIOUS
      <3>2. PICK r : r = [who |-> Who[c], gets |-> g, no |-> {}]
        OBVIOUS
      <3>3. Who[c] \in Keys /\ check' = [check EXCEPT ![Who[c]] = r]
        BY <2>2, <3>1, <3>2 DEF Asks, Key, Keys, Principals
      <3>4. r.gets = g
        BY <3>2
      <3>5. \A i \in DOMAIN g : Requested(g[i])
        BY <3>1, NewGetRequested
      <3> QED
        BY <3>3, <3>4, <3>5, OneTyped
    <2> QED
      BY <2>1, <2>2
  <1>4. Cardinality(Held)' <= MaxCache
    BY <1>1, HeldSame
  <1> QED
    BY <1>1, <1>2, <1>3, <1>4 DEF Rest, TypedRefresh, TypedGets

\* Requests that go on.
LEMMA GoesOnTyped ==
    ASSUME IInv, Rest, NEW k \in Keys, NEW kind \in Kinds, GoesOn(k, kind)
    PROVE  Rest'
  <1>1. /\ fact' = fact /\ token' = token /\ stray' = stray /\ cache' = cache /\ asked' = asked
        /\ EnsureToken
    BY DEF GoesOn, Tells
  <1>2. PICK g : g = [i \in After(k, kind) |-> NewGet(0)]
    OBVIOUS
  <1>3. PICK c : c = check[k]
    OBVIOUS
  <1>4. Shaped(c)
    BY <1>3, RunningFacts DEF GoesOn, Tells
  <1>5. [c EXCEPT !.gets = g].gets = g
    BY <1>4, GetsSet
  <1>6. check' = [check EXCEPT ![k] = [c EXCEPT !.gets = g]]
    BY <1>2, <1>3 DEF GoesOn
  <1>7. \A i \in DOMAIN g : Requested(g[i])
    BY <1>2, NewGetRequested
  <1>8. TypedGets'
    BY <1>5, <1>6, <1>7, OneTyped
  <1>9. TypedRefresh' /\ Cardinality(Held)' <= MaxCache
    BY <1>1, EnsureTyped, HeldSame
  <1> QED
    BY <1>1, <1>8, <1>9 DEF Rest, TypedRefresh, TypedGets

LEMMA NextPageTyped ==
    ASSUME IInv, Rest, NEW k \in Keys, NEW kind \in Kinds, NextPage(k, kind)
    PROVE  Rest'
  <1>1. /\ fact' = fact /\ token' = token /\ stray' = stray /\ cache' = cache /\ asked' = asked
        /\ EnsureToken
    BY DEF NextPage
  <1>2. PICK n : n = NewGet(check[k].gets[kind].page + 1)
    OBVIOUS
  <1>3. PICK c : c = check[k]
    OBVIOUS
  <1>4. PICK g : g = [c.gets EXCEPT ![kind] = n]
    OBVIOUS
  <1>5. Shaped(c) /\ TimedGets(c.gets)
    BY <1>3, RunningFacts DEF NextPage
  <1>6. [c EXCEPT !.gets = g].gets = g
    BY <1>5, GetsSet
  <1>7. check' = [check EXCEPT ![k] = [c EXCEPT !.gets = g]]
    BY <1>2, <1>3, <1>4 DEF NextPage
  <1>8. \A i \in DOMAIN g : Requested(g[i])
    <2>1. Requested(n)
      BY <1>2, NewGetRequested
    <2>2. \A i \in DOMAIN c.gets : Requested(c.gets[i])
      BY <1>3 DEF Rest, NextPage, Runs
    <2>3. \A i \in DOMAIN g : i \in DOMAIN c.gets /\ (g[i] = n \/ g[i] = c.gets[i])
      BY <1>4
    <2> QED
      BY <2>1, <2>2, <2>3
  <1>9. TypedGets'
    BY <1>6, <1>7, <1>8, OneTyped
  <1>10. TypedRefresh' /\ Cardinality(Held)' <= MaxCache
    BY <1>1, EnsureTyped, HeldSame
  <1> QED
    BY <1>1, <1>9, <1>10 DEF Rest, TypedRefresh, TypedGets

\* A listing ends.
LEMMA ListedTyped ==
    ASSUME IInv, Rest, NEW k \in Keys, NEW kind \in Kinds, NEW value \in BOOLEAN,
           Listed(k, kind, value)
    PROVE  Rest'
  <1>1. fact' = fact /\ token' = token /\ stray' = stray /\ refresh' = refresh
    BY DEF Listed, Tells
  <1>2. CASE DOMAIN check[k].gets = {kind}
    <2>1. PICK no : no = IF value THEN check[k].no ELSE check[k].no \cup {kind}
      OBVIOUS
    <2>2. PICK decision : decision = IF no = {} THEN "allowed" ELSE "denied"
      OBVIOUS
    <2>3. Settles(k, decision)
      BY <1>2, <2>1, <2>2 DEF Listed
    <2> QED
      BY <1>1, <2>3, SettlesTyped DEF IInv, Rest, TypedGets
  <1>3. CASE DOMAIN check[k].gets # {kind}
    <2>1. PICK no : no = IF value THEN check[k].no ELSE check[k].no \cup {kind}
      OBVIOUS
    <2>2. PICK c : c = check[k]
      OBVIOUS
    <2>3. PICK g : g = [i \in DOMAIN c.gets \ {kind} |-> c.gets[i]]
      OBVIOUS
    <2>4. Shaped(c)
      BY <2>2, RunningFacts DEF Listed, Tells
    <2>5. PICK h : h = [c EXCEPT !.no = no]
      OBVIOUS
    <2>6. Shaped(h) /\ h.gets = c.gets
      BY <2>4, <2>5, NoSet
    <2>7. PICK r : r = [h EXCEPT !.gets = g]
      OBVIOUS
    <2>8. r.gets = g
      BY <2>6, <2>7, GetsSet
    <2>9. \A j \in Keys : check'[j] = IF j = k THEN r ELSE check[j]
      <3>1. check' = [check EXCEPT ![k].no = no,
                                   ![k].gets = [i \in DOMAIN @ \ {kind} |-> @[i]]]
        BY <1>3, <2>1 DEF Listed
      <3>2. c = [who |-> c.who, gets |-> c.gets, no |-> c.no]
        BY <2>4 DEF Shaped
      <3> QED
        BY <2>2, <2>3, <2>5, <2>6, <2>7, <3>1, <3>2 DEF IInv, Typed
    <2>10. \A i \in DOMAIN g : Requested(g[i])
      BY <2>2, <2>3 DEF Rest, Listed, Tells, Runs
    <2>11. TypedGets'
      BY <2>8, <2>9, <2>10 DEF Rest, TypedGets, Requested
    <2>12. cache' = cache /\ asked' = asked
      BY <1>3 DEF Listed
    <2>13. Cardinality(Held)' <= MaxCache
      BY <2>12, HeldSame
    <2> QED
      BY <1>1, <2>11, <2>12, <2>13 DEF Rest, TypedGets
  <1> QED
    BY <1>2, <1>3

LEMMA EndsTyped ==
    ASSUME IInv, Rest, NEW k \in Keys, NEW kind \in Kinds, Ends(k, kind)
    PROVE  Rest'
  <1>1. CASE Refutes(k, kind)
    <2>1. /\ fact' = fact /\ token' = token /\ stray' = stray /\ refresh' = refresh
          /\ Settles(k, "denied")
      BY <1>1 DEF Refutes, Tells
    <2> QED
      BY <2>1, SettlesTyped DEF IInv, Rest, TypedGets
  <1>2. CASE Incomplete(k, kind) \/ Rejected(k, kind) \/ RequestFails(k, kind)
    <2>1. /\ fact' = fact /\ token' \in {token, None} /\ refresh' = refresh
          /\ Runs(k, kind) /\ Fails(k, kind)
      BY <1>2 DEF Incomplete, OutOfPages, Rejected, RequestFails
    <2>2. Cardinality(Held)' <= MaxCache
      BY <2>1, FailsTyped, HeldSame
    <2> QED
      BY <2>1, <2>2, FailsTyped DEF Rest, TypedGets
  <1>3. CASE \E value \in BOOLEAN : Listed(k, kind, value)
    BY <1>3, ListedTyped
  <1> QED
    BY <1>1, <1>2, <1>3, GoesOnTyped, NextPageTyped DEF Ends

\* Tokens.
LEMMA TokensTyped ==
    ASSUME IInv, Rest, TokenIssued \/ TokenArrives \/ Rotate
    PROVE  Rest'
  <1>1. CASE TokenIssued
    <2>1. PICK r : r = refresh
      OBVIOUS
    <2>2. /\ r \in [at : {"sent", "issued"}, left : 0 .. RequestTimeout, life : 0 .. Lifetime]
          /\ refresh' = [r EXCEPT !.at = "issued", !.life = Lifetime]
      BY <1>1, <2>1 DEF TokenIssued, Rest
    <2>3. refresh' \in [at : {"sent", "issued"}, left : 0 .. RequestTimeout, life : 0 .. Lifetime]
      <3>1. r = [at |-> r.at, left |-> r.left, life |-> r.life]
        BY <2>2
      <3>2. refresh' = [at |-> "issued", left |-> r.left, life |-> Lifetime]
        BY <2>2, <3>1
      <3> QED
        BY <2>2, <3>2, MoreConstants
    <2>4. Cardinality(Held)' <= MaxCache
      BY <1>1, HeldSame DEF TokenIssued
    <2> QED
      BY <1>1, <2>3, <2>4 DEF TokenIssued, Rest
  <1>2. CASE TokenArrives
    <2>1. PICK t : t = token'
      OBVIOUS
    <2>2. t.life \in 0 .. Lifetime /\ t \in [life : 0 .. Lifetime, use : 0 .. Lifetime]
      <3>1. refresh.life \in 0 .. Lifetime
        BY <1>2 DEF TokenArrives, Rest
      <3>2. UsableFor \in 0 .. Lifetime
        BY MoreConstants DEF UsableFor
      <3> QED
        BY <1>2, <2>1, <3>1, <3>2 DEF TokenArrives
    <2>3. ASSUME NEW k \in Keys, check'[k] # None
          PROVE  \A i \in DOMAIN check'[k].gets : Requested(check'[k].gets[i])
      <3>1. PICK h : h = [i \in DOMAIN check[k].gets |-> Sent(check[k].gets[i], t)]
        OBVIOUS
      <3>2. check[k] # None /\ check'[k] = [check[k] EXCEPT !.gets = h]
        BY <1>2, <2>1, <2>3, <3>1 DEF TokenArrives
      <3>3. ASSUME NEW i \in DOMAIN h
            PROVE  Requested(h[i])
        <4>1. PICK g : g = check[k].gets[i]
          OBVIOUS
        <4>2. Requested(g) /\ ShapedGet(g) /\ h[i] = Sent(g, t)
          BY <3>1, <3>2, <3>3, <4>1 DEF Rest, IInv, CheckInv, Formed, TimedGets
        <4>3. Sent(g, t).at \in {g.at, "sent"} /\ Sent(g, t).life \in {g.life, t.life}
          BY <4>2, SentFacts
        <4> QED
          BY <2>2, <4>2, <4>3 DEF Requested
      <3> QED
        BY <3>2, <3>3, GetsTyped
    <2>4. stray' \subseteq 0 .. Lifetime \cup {None}
      BY <1>2, <2>1, <2>2 DEF TokenArrives, Rest
    <2>5. fact' = fact /\ cache' = cache /\ asked' = asked /\ refresh' = None
      BY <1>2 DEF TokenArrives
    <2>6. Cardinality(Held)' <= MaxCache
      BY <2>5, HeldSame
    <2> QED
      BY <2>1, <2>2, <2>3, <2>4, <2>5, <2>6 DEF Rest
  <1>3. CASE Rotate
    <2>1. ASSUME NEW k \in Keys, check'[k] # None
          PROVE  \A i \in DOMAIN check'[k].gets : Requested(check'[k].gets[i])
      <3>1. PICK h : h = [i \in DOMAIN check[k].gets |-> Revoked(check[k].gets[i])]
        OBVIOUS
      <3>2. check[k] # None /\ check'[k] = [check[k] EXCEPT !.gets = h]
        BY <1>3, <2>1, <3>1 DEF Rotate
      <3>3. ASSUME NEW i \in DOMAIN h
            PROVE  Requested(h[i])
        <4>1. PICK g : g = check[k].gets[i]
          OBVIOUS
        <4>2. Requested(g) /\ ShapedGet(g) /\ h[i] = Revoked(g)
          BY <3>1, <3>2, <3>3, <4>1 DEF Rest, IInv, CheckInv, Formed, TimedGets
        <4>3. Revoked(g).at = g.at /\ Revoked(g).life = 0
          BY <4>2, RevokedFacts
        <4> QED
          BY <4>2, <4>3, MoreConstants DEF Requested
      <3> QED
        BY <3>2, <3>3, GetsTyped
    <2>2. token' \in [life : 0 .. Lifetime, use : 0 .. Lifetime]
      <3>1. PICK t : t = token
        OBVIOUS
      <3>2. t \in [life : 0 .. Lifetime, use : 0 .. Lifetime] /\ token' = [t EXCEPT !.life = 0]
        BY <1>3, <3>1 DEF Rotate, Rest, Revoked
      <3> QED
        BY <3>2, MoreConstants
    <2>3. TypedRefresh'
      <3>1. CASE refresh = None
        BY <1>3, <3>1 DEF Rotate, TypedRefresh
      <3>2. CASE refresh # None
        <4>1. PICK r : r = refresh
          OBVIOUS
        <4>2. /\ r \in [at : {"sent", "issued"}, left : 0 .. RequestTimeout, life : 0 .. Lifetime]
              /\ refresh' = [r EXCEPT !.life = 0]
          BY <1>3, <3>2, <4>1 DEF Rotate, Rest, Revoked
        <4>3. refresh' \in [at : {"sent", "issued"}, left : 0 .. RequestTimeout,
                            life : 0 .. Lifetime]
          BY <4>2, MoreConstants
        <4> QED
          BY <4>3 DEF TypedRefresh
      <3> QED
        BY <3>1, <3>2
    <2>4. stray' \subseteq 0 .. Lifetime \cup {None}
      BY <1>3, MoreConstants DEF Rotate, Rest
    <2>5. fact' = fact /\ cache' = cache /\ asked' = asked
      BY <1>3 DEF Rotate
    <2>6. Cardinality(Held)' <= MaxCache
      BY <2>5, HeldSame
    <2> QED
      BY <2>1, <2>2, <2>3, <2>4, <2>5, <2>6 DEF Rest, TypedRefresh
  <1> QED
    BY <1>1, <1>2, <1>3

LEMMA TokenFailsTyped == ASSUME IInv, Rest, TokenFails PROVE Rest'
  <1>1. \A k \in Keys : check'[k] = None \/ check'[k] = check[k]
    BY DEF TokenFails, AfterFailure
  <1>2. TypedGets'
    BY <1>1, DroppedTyped
  <1>3. \A k \in Starved : LeftBehind(k, None) \subseteq 0 .. Lifetime \cup {None}
    BY LeftTyped DEF Starved
  <1>4. stray' \subseteq 0 .. Lifetime \cup {None}
    <2>1. stray' = (stray \cup UNION {LeftBehind(k, None) : k \in Starved}) \ {None}
      BY DEF TokenFails
    <2>2. \A k \in Starved : \A x \in LeftBehind(k, None) : x \in 0 .. Lifetime \cup {None}
      BY <1>3
    <2>3. \A x \in stray' : x \in stray \/ \E k \in Starved : x \in LeftBehind(k, None)
      BY <2>1
    <2> QED
      BY <2>2, <2>3 DEF Rest
  <1>5. asked' \in [Callers -> {"no", "waiting", "unavailable"}]
    BY DEF TokenFails, Rest
  <1>6. Cardinality(Held)' <= MaxCache
    BY HeldSame DEF TokenFails
  <1> QED
    BY <1>2, <1>4, <1>5, <1>6 DEF TokenFails, Rest, TypedGets

LEMMA StrayTyped ==
    ASSUME IInv, Rest, NEW life \in stray, StrayEnds(life) \/ StrayPages(life)
    PROVE  Rest'
  <1>1. /\ fact' = fact /\ check' = check /\ cache' = cache /\ asked' = asked
        /\ token' \in {token, None}
    BY DEF StrayEnds, StrayPages
  <1>2. TypedRefresh'
    BY EnsureTyped DEF StrayEnds, StrayPages, Rest, TypedRefresh
  <1>3. stray' \subseteq 0 .. Lifetime \cup {None}
    <2>1. Usable => token.life \in 0 .. Lifetime
      BY DEF Usable, Rest
    <2> QED
      BY <2>1 DEF StrayEnds, StrayPages, Rest
  <1>4. Cardinality(Held)' <= MaxCache
    BY <1>1, HeldSame
  <1> QED
    BY <1>1, <1>2, <1>3, <1>4 DEF Rest, TypedRefresh

LEMMA WithdrawTyped ==
    ASSUME IInv, Rest, NEW f \in Volatile, Withdraw(f)
    PROVE  Rest'
  <1>1. [held |-> FALSE, ago |-> 0] \in [held : BOOLEAN, ago : 0 .. Lag + 1]
    BY Constants
  <1>2. fact' \in [Facts -> [held : BOOLEAN, ago : 0 .. Lag + 1]]
    BY <1>1 DEF Withdraw, Rest
  <1>3. Cardinality(Held)' <= MaxCache
    BY HeldSame DEF Withdraw
  <1> QED
    BY <1>2, <1>3 DEF Withdraw, Rest

LEMMA LessTyped == ASSUME NEW n \in Nat, NEW m \in 0 .. n PROVE Less(m) \in 0 .. n
  BY DEF Less

LEMMA TickTyped == ASSUME IInv, Rest, Tick PROVE Rest'
  <1>1. fact' \in [Facts -> [held : BOOLEAN, ago : 0 .. Lag + 1]]
    <2>1. ASSUME NEW f \in Facts
          PROVE  fact'[f] \in [held : BOOLEAN, ago : 0 .. Lag + 1]
      <3>1. PICK x : x = fact[f]
        OBVIOUS
      <3>2. x \in [held : BOOLEAN, ago : 0 .. Lag + 1]
        BY <3>1 DEF Rest
      <3>3. fact'[f] = IF x.ago > Lag THEN x ELSE [x EXCEPT !.ago = x.ago + 1]
        BY <3>1 DEF Tick
      <3> QED
        BY <3>2, <3>3, Constants
    <2>2. fact' = [f \in Facts |-> fact'[f]]
      BY DEF Tick
    <2> QED
      BY <2>1, <2>2
  <1>2. token' # None => token' \in [life : 0 .. Lifetime, use : 0 .. Lifetime]
    <2> SUFFICES ASSUME token # None
                 PROVE  token' \in [life : 0 .. Lifetime, use : 0 .. Lifetime]
      BY DEF Tick
    <2>1. PICK t : t = token
      OBVIOUS
    <2>2. /\ t \in [life : 0 .. Lifetime, use : 0 .. Lifetime]
          /\ token' = [t EXCEPT !.life = Less(t.life), !.use = Less(t.use)]
      BY <2>1 DEF Tick, Rest
    <2>3. Less(t.life) \in 0 .. Lifetime /\ Less(t.use) \in 0 .. Lifetime
      BY <2>2, LessTyped, MoreConstants
    <2> QED
      BY <2>2, <2>3
  <1>3. TypedRefresh'
    <2>1. CASE refresh = None
      BY <2>1 DEF Tick, TypedRefresh
    <2>2. CASE refresh # None
      <3>1. PICK r : r = refresh
        OBVIOUS
      <3>2. /\ r \in [at : {"sent", "issued"}, left : 0 .. RequestTimeout, life : 0 .. Lifetime]
            /\ refresh' = [r EXCEPT !.left = Less(r.left), !.life = Less(r.life)]
        BY <2>2, <3>1 DEF Tick, Rest, Aged
      <3>3. Less(r.left) \in 0 .. RequestTimeout /\ Less(r.life) \in 0 .. Lifetime
        BY <3>2, LessTyped, MoreConstants, Constants
      <3>4. refresh' \in [at : {"sent", "issued"}, left : 0 .. RequestTimeout, life : 0 .. Lifetime]
        BY <3>2, <3>3
      <3> QED
        BY <3>4 DEF TypedRefresh
    <2> QED
      BY <2>1, <2>2
  <1>4. ASSUME NEW k \in Keys, check'[k] # None
        PROVE  \A i \in DOMAIN check'[k].gets : Requested(check'[k].gets[i])
    <2>1. PICK h : h = [i \in DOMAIN check[k].gets |-> Aged(check[k].gets[i])]
      OBVIOUS
    <2>2. check[k] # None /\ check'[k] = [check[k] EXCEPT !.gets = h]
      BY <1>4, <2>1 DEF Tick
    <2>3. ASSUME NEW i \in DOMAIN h
          PROVE  Requested(h[i])
      <3>1. PICK g : g = check[k].gets[i]
        OBVIOUS
      <3>2. Requested(g) /\ ShapedGet(g) /\ h[i] = Aged(g)
        BY <2>1, <2>2, <2>3, <3>1 DEF Rest, IInv, CheckInv, Formed, TimedGets
      <3>3. Aged(g).at = g.at /\ Aged(g).life = Less(g.life)
        BY <3>2, AgedFacts
      <3>4. Less(g.life) \in 0 .. Lifetime
        BY <3>2, LessTyped, MoreConstants DEF Requested
      <3> QED
        BY <3>2, <3>3, <3>4 DEF Requested
    <2> QED
      BY <2>2, <2>3, GetsTyped
  <1>5. stray' \subseteq 0 .. Lifetime \cup {None}
    <2>1. \A life \in stray : life # None => Less(life) \in 0 .. Lifetime
      BY LessTyped, MoreConstants DEF Rest
    <2> QED
      BY <2>1 DEF Tick
  <1>6. Cardinality(Held)' <= MaxCache
    BY HeldSame DEF Tick
  <1> QED
    BY <1>1, <1>2, <1>3, <1>4, <1>5, <1>6 DEF Tick, Rest, TypedRefresh

LEMMA TypesKept == ASSUME IInv, Rest, [Next]_vars PROVE Rest'
  <1>1. CASE UNCHANGED vars
    BY <1>1 DEF vars, Rest, Requested, Held
  <1>2. ASSUME NEW c \in Callers, Asks(c) PROVE Rest'
    BY <1>2, AsksTyped
  <1>3. ASSUME NEW k \in Keys, NEW kind \in Kinds, Ends(k, kind) PROVE Rest'
    BY <1>3, EndsTyped
  <1>4. ASSUME NEW life \in stray, StrayEnds(life) \/ StrayPages(life) PROVE Rest'
    BY <1>4, StrayTyped
  <1>5. CASE TokenSettles \/ Auth0
    BY <1>5, TokensTyped, TokenFailsTyped, WithdrawTyped DEF TokenSettles, Auth0
  <1>6. CASE Tick
    BY <1>6, TickTyped
  <1> QED
    BY <1>1, <1>2, <1>3, <1>4, <1>5, <1>6 DEF Next

LEMMA InitTyped == ASSUME Init PROVE Rest
  <1>1. fact \in [Facts -> [held : BOOLEAN, ago : 0 .. Lag + 1]]
    <2>1. \A f \in Facts : [held |-> f \notin Lacking, ago |-> Lag + 1]
                               \in [held : BOOLEAN, ago : 0 .. Lag + 1]
      BY Constants
    <2> QED
      BY <2>1 DEF Init
  <1>2. Held = {}
    BY DEF Init, Held
  <1>3. Cardinality(Held) <= MaxCache
    BY <1>2, FS_EmptySet, MoreConstants
  <1> QED
    BY <1>1, <1>3 DEF Init, Rest

\* Every variable keeps its type, and the cache never holds more answers than
\* its limit.
THEOREM TypeCorrect == Spec => []TypeOK
  <1>1. Init => IInv /\ Rest
    BY InitHolds, InitTyped
  <1>2. IInv /\ Rest /\ [Next]_vars => IInv' /\ Rest'
    BY StepHolds, TypesKept
  <1>3. IInv /\ Rest => TypeOK
    BY TypesFollow
  <1> QED
    BY <1>1, <1>2, <1>3, PTL DEF Spec

===============================================================================
