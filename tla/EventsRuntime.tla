---------------------------- MODULE EventsRuntime ----------------------------
(***************************************************************************)
(* server/src/events.ts: subscriptions to trace.error events, the poller   *)
(* that finds new error traces, and their delivery to webhooks.            *)
(*                                                                         *)
(* The runtime is one JavaScript process.  Code between two awaits runs to *)
(* completion, so an action is the code from the answer to one await up to *)
(* the next: an authorization check, a callback POST, a collector query, a *)
(* backoff sleep, a timer.  A store transaction is one step, as            *)
(* DurableDocument promises and AtomicJsonStore delivers, together with    *)
(* the code of its caller that runs when it settles.                       *)
(***************************************************************************)
EXTENDS Naturals, FiniteSets

CONSTANTS
    Id,             \* subscription identities: subscriptionId(principal, url, name, args)
    Principal,      \* (clientId, subject) pairs
    Callback,       \* callback URLs
    Source,         \* collector projects, as sourceKey() tells them apart
    Trace,          \* error traces the collector may come to hold
    Secret,         \* webhook secrets
    Request,        \* subscribe and unsubscribe calls that may run at once
    Owner,          \* Owner[id]: the principal of id
    Url,            \* Url[id]: the callback of id
    Project,        \* Project[p]: the project collectorAccessForSubject gives p
    Origin,         \* Origin[t]: the project t was recorded in
    Wanted,         \* the pairs <<id, t>> with matches(id's arguments, t)
    None,           \* no record, no secret, no baseline
    Ttls,           \* the ttlMs values that callers send
    Unspecified,    \* ttlMs left out
    Null,           \* ttlMs: null
    DefaultTtl, MinTtl, MaxTtl,
    RotationWindow, \* SECRET_ROTATION_WINDOW_MS
    VerifyFor,      \* VERIFICATION_CACHE_MS
    MaxVerified,    \* the size at which the verification cache is cleared
    Cap,            \* MAX_SUBSCRIPTIONS_PER_PRINCIPAL
    Attempts,       \* DELIVERY_ATTEMPTS
    MaxTime,        \* bound: the clock stops here
    Faults          \* what may go wrong, a subset of Fault

Fault == {"write", "outage", "revoke", "collector", "challenge",
          "transient", "gone", "crash", "stop"}
Delivery == Id \X Trace

ASSUME ConstantsAssumption ==
    /\ IsFiniteSet(Id)
    /\ Owner \in [Id -> Principal] /\ Url \in [Id -> Callback]
    /\ Project \in [Principal -> Source] /\ Origin \in [Trace -> Source]
    /\ Wanted \subseteq Delivery
    /\ \A t \in Ttls : t \in {Unspecified, Null} \/ t \in Nat
    /\ DefaultTtl \in Nat /\ MinTtl \in Nat /\ MaxTtl \in Nat
    /\ MinTtl <= DefaultTtl /\ DefaultTtl <= MaxTtl
    /\ RotationWindow \in Nat /\ VerifyFor \in Nat /\ MaxVerified \in Nat
    /\ Cap \in Nat /\ Attempts \in Nat \ {0} /\ MaxTime \in Nat
    /\ Faults \subseteq Fault

\* StoredSubscription: previousSecret is None and its deadline 0 when absent.
Sub == [secret: Secret, previous: {None} \cup Secret, previousUntil: Nat, refreshBefore: Nat]

ASSUME NoneAssumption ==
    /\ None \notin Sub /\ None \notin Secret
    /\ \A known \in SUBSET Trace : known # None

VARIABLES
    subs,      \* the stored document: subs[id] is a Sub or None
    now,       \* Date.now()
    proc,      \* "down", "up", or "stopping" (stop() was called: this.stopped)
    armed,     \* this.timer !== undefined
    poll,      \* the pollOnce() in progress, if any
    seen,      \* this.seen: seen[id] is the set of known traces, or None
    verified,  \* this.verified: until when a principal's callback needs no challenge
    deliv,     \* deliverWhileActive() calls, by subscription and trace
    req,       \* subscribe() and unsubscribe() calls
    access,    \* what isAuthorized(p) answers, or "outage" when it throws
    arrived,   \* the error traces the collector holds
    fate,      \* history: what became of each delivery
    cut,       \* history: ids unsubscribed and not subscribed again
    before,    \* history: traces that arrived before this process started
    backlog,   \* history: backlog[id], what had arrived when id's record was created
    proven     \* history: callbacks that ever echoed a challenge to their principal

store == <<subs, now>>
runtime == <<proc, armed, poll, seen, verified, deliv, req>>
world == <<access, arrived>>
history == <<fate, cut, before, backlog, proven>>
vars == <<subs, now, proc, armed, poll, seen, verified, deliv, req,
          access, arrived, fate, cut, before, backlog, proven>>

NoPoll == [phase |-> "idle", snapshot |-> {}, todo |-> {}, allowed |-> {}, groups |-> {}]
NoDelivery == [phase |-> "none", attempt |-> 0, aborted |-> FALSE, keys |-> {}, late |-> 0]
NoRequest == [phase |-> "idle", id |-> None, secret |-> None, ttl |-> None, joins |-> {}]

Poll == [phase: {"idle", "starting", "authorizing", "fetching"}, snapshot: SUBSET Id,
         todo: SUBSET Id, allowed: SUBSET Id, groups: SUBSET Source]
\* late: POSTs begun since the owner's access last stopped being granted.
DeliveryState ==
    {s \in [phase: {"none", "authorizing", "reading", "posting", "sleeping"},
            attempt: 0..Attempts, aborted: BOOLEAN, keys: SUBSET Secret, late: Nat] :
        s.phase = "sleeping" => s.attempt < Attempts}
SubscribePhase == {"authorizing", "verifying", "committing"}
UnsubscribePhase == {"removing", "joining"}
RequestState ==
    {q \in [phase: {"idle"} \cup SubscribePhase \cup UnsubscribePhase, id: {None} \cup Id,
            secret: {None} \cup Secret, ttl: {None} \cup Ttls, joins: SUBSET Trace] :
        /\ q.phase # "idle" => q.id \in Id
        /\ q.phase \in SubscribePhase => q.secret \in Secret /\ q.ttl \in Ttls}

StoreType == subs \in [Id -> {None} \cup Sub] /\ now \in Nat
PollerType ==
    /\ proc \in {"down", "up", "stopping"} /\ armed \in BOOLEAN /\ poll \in Poll
    /\ seen \in [Id -> {None} \cup SUBSET Trace]
CallType ==
    /\ verified \in [Principal \X Callback -> Nat]
    /\ req \in [Request -> RequestState]
DeliveryType ==
    /\ deliv \in [Delivery -> DeliveryState]
    /\ fate \in [Delivery -> {"new", "active", "ended", "suspended"}]
WorldType == access \in [Principal -> {"granted", "revoked", "outage"}] /\ arrived \subseteq Trace
HistoryType ==
    /\ cut \subseteq Id /\ before \subseteq Trace /\ backlog \in [Id -> SUBSET Trace]
    /\ proven \subseteq Principal \X Callback

TypeOK == StoreType /\ PollerType /\ CallType /\ DeliveryType /\ WorldType /\ HistoryType

Init ==
    /\ subs = [i \in Id |-> None]
    /\ now = 1
    /\ proc = "down"
    /\ armed = FALSE
    /\ poll = NoPoll
    /\ seen = [i \in Id |-> None]
    /\ verified = [k \in Principal \X Callback |-> 0]
    /\ deliv = [d \in Delivery |-> NoDelivery]
    /\ req = [r \in Request |-> NoRequest]
    /\ access = [p \in Principal |-> "granted"]
    /\ arrived = {}
    /\ fate = [d \in Delivery |-> "new"]
    /\ cut = {}
    /\ before = {}
    /\ backlog = [i \in Id |-> {}]
    /\ proven = {}

-----------------------------------------------------------------------------
\* isLive(entry)
Live(s) == s # None /\ s.refreshBefore > now

\* pruneState: lapsed records go, and so do previous secrets past their window.
Prune(document) ==
    [i \in Id |->
        IF ~ Live(document[i]) THEN None
        ELSE IF document[i].previousUntil > now THEN document[i]
        ELSE [document[i] EXCEPT !.previous = None, !.previousUntil = 0]]

Remove(document, id) == [document EXCEPT ![id] = None]

LiveOf(document, p) == {i \in Id : Owner[i] = p /\ Live(document[i])}

\* assertCapacity: a refresh always passes, a new record needs a free slot.
HasSlot(document, id) ==
    \/ document[id] # None
    \/ Cardinality(LiveOf(document, Owner[id])) < Cap

\* Faulty variant: the requested lifetime is not clamped from above.
GrantedTtlUnclamped(ttl) ==
    CASE ttl = Unspecified -> DefaultTtl
      [] ttl = Null        -> MaxTtl
      [] OTHER -> IF ttl < MinTtl THEN MinTtl ELSE ttl

\* The second assertCapacity, against the document about to be written.
\* (Faulty variant: the check before the challenge is the only one.)
AdmittedUnchecked(pruned, id) == TRUE
Admitted(pruned, id) == HasSlot(pruned, id)

\* grantedTtlMs
GrantedTtl(ttl) ==
    CASE ttl = Unspecified -> DefaultTtl
      [] ttl = Null        -> MaxTtl
      [] OTHER -> IF ttl < MinTtl THEN MinTtl ELSE IF ttl > MaxTtl THEN MaxTtl ELSE ttl

\* Faulty variant: a refresh with the same secret forgets the previous one.
RenewedForgetful(existing, secret, ttl) ==
    LET rotated == existing # None /\ existing.secret # secret IN
    [secret |-> secret,
     previous |-> IF rotated THEN existing.secret ELSE None,
     previousUntil |-> IF rotated THEN now + RotationWindow ELSE 0,
     refreshBefore |-> now + GrantedTtl(ttl)]

\* The record subscribe() writes over an existing one (or None) for the same id.
Renewed(existing, secret, ttl) ==
    LET rotated == existing # None /\ existing.secret # secret IN
    [secret |-> secret,
     previous |-> IF rotated THEN existing.secret
                  ELSE IF existing # None THEN existing.previous ELSE None,
     previousUntil |-> IF rotated THEN now + RotationWindow
                       ELSE IF existing # None THEN existing.previousUntil ELSE 0,
     refreshBefore |-> now + GrantedTtl(ttl)]

CallbackKey(id) == <<Owner[id], Url[id]>>

\* A cached verification saves the challenge.
\* (Faulty variant: the cache is keyed by the callback alone.)
CachedForAnyOwner(id) == \E p \in Principal : verified[<<p, Url[id]>>] > now
Cached(id) == verified[CallbackKey(id)] > now

\* The verification cache after a challenge for id was echoed.
Remember(id) ==
    LET full == Cardinality({k \in DOMAIN verified : verified[k] > 0}) >= MaxVerified
    IN [k \in DOMAIN verified |-> IF k = CallbackKey(id) THEN now + VerifyFor
                                  ELSE IF full THEN 0 ELSE verified[k]]

\* Faulty variant: the end of the rotation window is left to the next prune.
SigningKeysUnbounded(s) == {s.secret} \cup (IF s.previous # None THEN {s.previous} ELSE {})

\* The secrets one POST is signed with.
SigningKeys(s) == {s.secret} \cup (IF s.previous # None /\ s.previousUntil > now
                                   THEN {s.previous} ELSE {})

Active(d) == deliv[d].phase # "none"
DeliveriesOf(id) == {d \in Delivery : d[1] = id /\ Active(d)}

\* The deliveries an unsubscribe waits for.  (Faulty variant: none.)
JoinedNone(id) == {}
Joined(id) == {t \in Trace : Active(<<id, t>>)}

\* ensurePolling()  (Faulty variant: only start() arms the interval.)
EnsurePollingOnStart == armed
EnsurePolling == armed \/ proc = "up"

-----------------------------------------------------------------------------
(* subscribe() *)

Reject(r) == req' = [req EXCEPT ![r] = NoRequest]

SubscribeCall(r, id, secret, ttl) ==
    /\ proc = "up" /\ req[r].phase = "idle"
    /\ req' = [req EXCEPT ![r] = [phase |-> "authorizing", id |-> id, secret |-> secret,
                                  ttl |-> ttl, joins |-> {}]]
    /\ UNCHANGED <<store, proc, armed, poll, seen, verified, deliv, world, history>>

\* isAuthorized() answers; a first look at the capacity; a cached verification
\* saves the challenge.
SubscribeAuthorized(r) ==
    /\ req[r].phase = "authorizing"
    /\ LET id == req[r].id IN
       IF access[Owner[id]] = "granted" /\ HasSlot(subs, id)
       THEN req' = [req EXCEPT ![r].phase =
                        IF Cached(id) THEN "committing" ELSE "verifying"]
       ELSE Reject(r)
    /\ UNCHANGED <<store, proc, armed, poll, seen, verified, deliv, world, history>>

ChallengeEchoed(r) ==
    /\ req[r].phase = "verifying"
    /\ verified' = Remember(req[r].id)
    /\ proven' = proven \cup {CallbackKey(req[r].id)}
    /\ req' = [req EXCEPT ![r].phase = "committing"]
    /\ UNCHANGED <<store, proc, armed, poll, seen, deliv, world, fate, cut, before, backlog>>

ChallengeFails(r) ==
    /\ "challenge" \in Faults
    /\ req[r].phase = "verifying"
    /\ Reject(r)
    /\ UNCHANGED <<store, proc, armed, poll, seen, verified, deliv, world, history>>

\* The transaction prunes, checks the capacity again, writes; ensurePolling().
SubscribeCommits(r) ==
    /\ req[r].phase = "committing"
    /\ LET id == req[r].id
           pruned == Prune(subs) IN
       /\ Admitted(pruned, id)
       /\ subs' = [pruned EXCEPT ![id] = Renewed(pruned[id], req[r].secret, req[r].ttl)]
       /\ cut' = cut \ {id}
       /\ backlog' = IF pruned[id] = None THEN [backlog EXCEPT ![id] = arrived] ELSE backlog
    /\ armed' = EnsurePolling
    /\ Reject(r)
    /\ UNCHANGED <<now, proc, poll, seen, verified, deliv, world, fate, before, proven>>

SubscribeRefused(r) ==
    /\ req[r].phase = "committing"
    /\ "write" \in Faults \/ ~ Admitted(Prune(subs), req[r].id)
    /\ Reject(r)
    /\ UNCHANGED <<store, proc, armed, poll, seen, verified, deliv, world, history>>

(* unsubscribe() *)

UnsubscribeCall(r, id) ==
    /\ proc = "up" /\ req[r].phase = "idle"
    /\ req' = [req EXCEPT ![r] = [NoRequest EXCEPT !.phase = "removing", !.id = id]]
    /\ UNCHANGED <<store, proc, armed, poll, seen, verified, deliv, world, history>>

\* The record is gone: abort the active deliveries and wait for them.
UnsubscribeCommits(r) ==
    /\ req[r].phase = "removing"
    /\ LET id == req[r].id IN
       /\ subs' = Remove(subs, id)
       /\ deliv' = [d \in Delivery |-> IF d \in DeliveriesOf(id)
                                       THEN [deliv[d] EXCEPT !.aborted = TRUE] ELSE deliv[d]]
       /\ req' = [req EXCEPT ![r].phase = "joining",
                             ![r].joins = Joined(id)]
       /\ cut' = cut \cup {id}
    /\ UNCHANGED <<now, proc, armed, poll, seen, verified, world, fate, before, backlog, proven>>

UnsubscribeFails(r) ==
    /\ "write" \in Faults
    /\ req[r].phase = "removing"
    /\ Reject(r)
    /\ UNCHANGED <<store, proc, armed, poll, seen, verified, deliv, world, history>>

UnsubscribeReturns(r) ==
    /\ req[r].phase = "joining"
    /\ \A t \in req[r].joins : ~ Active(<<req[r].id, t>>)
    /\ Reject(r)
    /\ UNCHANGED <<store, proc, armed, poll, seen, verified, deliv, world, history>>

-----------------------------------------------------------------------------
(* The poller *)

\* The interval fires; poll() joins a poll that is still running.
PollTimer ==
    /\ armed /\ poll.phase = "idle"
    /\ poll' = [NoPoll EXCEPT !.phase = "starting"]
    /\ UNCHANGED <<store, proc, armed, seen, verified, deliv, req, world, history>>

Stored(document) == {i \in Id : document[i] # None}

\* Without subscriptions the poller stops itself.  (Faulty variant: it does not.)
StaysArmedAlways(document) == armed
StaysArmed(document) == armed /\ Stored(document) # {}

\* The pruning transaction; the snapshot of this poll is what it left.
PollBegins ==
    /\ poll.phase = "starting"
    /\ subs' = Prune(subs)
    /\ armed' = StaysArmed(subs')
    /\ IF Stored(subs') = {}
       THEN /\ seen' = [i \in Id |-> None]
            /\ poll' = NoPoll
       ELSE /\ poll' = [NoPoll EXCEPT !.phase = "authorizing",
                                      !.snapshot = Stored(subs'), !.todo = Stored(subs')]
            /\ UNCHANGED seen
    /\ UNCHANGED <<now, proc, verified, deliv, req, world, history>>

\* authorized(subscription) for each record of the snapshot, one at a time.
\* Revoked access removes the record; an outage only leaves it out of this poll.
PollAuthorizes(id) ==
    /\ poll.phase = "authorizing" /\ id \in poll.todo
    /\ poll' = [poll EXCEPT !.todo = @ \ {id},
                            !.allowed = IF access[Owner[id]] = "granted" THEN @ \cup {id} ELSE @]
    /\ subs' = IF access[Owner[id]] = "revoked" THEN Remove(subs, id) ELSE subs
    /\ UNCHANGED <<now, proc, armed, seen, verified, deliv, req, world, history>>

\* A store write that fails rejects pollOnce().
PollFails ==
    /\ "write" \in Faults
    /\ \/ poll.phase = "starting"
       \/ /\ poll.phase = "authorizing"
          /\ \E id \in poll.todo : access[Owner[id]] = "revoked"
    /\ poll' = NoPoll
    /\ UNCHANGED <<store, proc, armed, seen, verified, deliv, req, world, history>>

\* The ids whose baseline a poll keeps: all of its snapshot, suspended ones
\* included.  (Faulty variant: those it may deliver to.)
RetainedIfAllowed == poll.allowed
Retained == poll.snapshot

\* All answers are in: query the project of every allowed subscription.
PollGroups ==
    /\ poll.phase = "authorizing" /\ poll.todo = {}
    /\ poll' = [poll EXCEPT !.phase = "fetching",
                            !.groups = {Project[Owner[id]] : id \in poll.allowed}]
    /\ seen' = [i \in Id |-> IF i \in Retained THEN seen[i] ELSE None]
    /\ UNCHANGED <<store, proc, armed, verified, deliv, req, world, history>>

\* The subscriptions served by one fetch, and what it lists.  (Faulty variant:
\* one fetch serves all that are allowed.)
GroupOfAll(s) == poll.allowed
Group(s) == {id \in poll.allowed : Project[Owner[id]] = s}
Recent(s) == {t \in arrived : Origin[t] = s}

\* What subscription i has seen after a fetch of its project s: the first fetch
\* is its baseline.  (Faulty variants: only the baseline is remembered; the
\* baseline is empty.)
SeenBaselineOnly(i, s) == IF seen[i] = None THEN Recent(s) ELSE seen[i]
SeenFromNothing(i, s) == IF seen[i] = None THEN {} ELSE seen[i] \cup Recent(s)
SeenAfter(i, s) == IF seen[i] = None THEN Recent(s) ELSE seen[i] \cup Recent(s)

\* The deliveries that a fetch of project s starts: what is new to the
\* subscriptions that have a baseline.  (Faulty variant: one per fetch.)
New(s) == {d \in Wanted : d[1] \in Group(s) /\ seen[d[1]] # None
                          /\ d[2] \in Recent(s) \ seen[d[1]]}
FreshOne(s) == IF New(s) = {} THEN {} ELSE {CHOOSE d \in New(s) : TRUE}
Fresh(s) == New(s)

\* After stop() a delivery returns before its first attempt.
\* (Faulty variant: this.stopped is not read.)
MayStartAlways == TRUE
MayStart == proc # "stopping"

\* recentTraces() answers for project s, and deliver() starts for what is new.
PollFetches(s) ==
    /\ poll.phase = "fetching" /\ s \in poll.groups
    /\ poll' = [poll EXCEPT !.groups = @ \ {s}]
    /\ seen' = [i \in Id |-> IF i \in Group(s) THEN SeenAfter(i, s) ELSE seen[i]]
    /\ fate' = [d \in Delivery |-> IF d \notin Fresh(s) THEN fate[d]
                                    ELSE IF MayStart THEN "active" ELSE "ended"]
    /\ deliv' = [d \in Delivery |->
                    IF MayStart /\ d \in Fresh(s)
                    THEN [NoDelivery EXCEPT !.phase = "authorizing", !.attempt = 1]
                    ELSE deliv[d]]
    /\ UNCHANGED <<store, proc, armed, verified, req, world, cut, before, backlog, proven>>

PollFetchFails(s) ==
    /\ "collector" \in Faults
    /\ poll.phase = "fetching" /\ s \in poll.groups
    /\ poll' = [poll EXCEPT !.groups = @ \ {s}]
    /\ UNCHANGED <<store, proc, armed, seen, verified, deliv, req, world, history>>

\* pollOnce() returns when every delivery it started has settled.
PollEnds ==
    /\ poll.phase = "fetching" /\ poll.groups = {}
    /\ \A d \in Delivery : ~ Active(d)
    /\ poll' = NoPoll
    /\ UNCHANGED <<store, proc, armed, seen, verified, deliv, req, world, history>>

-----------------------------------------------------------------------------
(* deliverWhileActive() *)

EndDelivery(d, how) ==
    /\ deliv' = [deliv EXCEPT ![d] = NoDelivery]
    /\ fate' = [fate EXCEPT ![d] = how]

\* authorized() answers for the attempt.  A removal that cannot be written
\* rejects the delivery and leaves the record.
AttemptAuthorized(d) ==
    /\ deliv[d].phase = "authorizing"
    /\ LET answer == access[Owner[d[1]]] IN
       \/ /\ answer = "granted"
          /\ deliv' = [deliv EXCEPT ![d].phase = "reading"]
          /\ UNCHANGED <<subs, fate>>
       \/ /\ answer = "outage"
          /\ EndDelivery(d, "suspended")
          /\ UNCHANGED subs
       \/ /\ answer = "revoked"
          /\ EndDelivery(d, "ended")
          /\ \/ subs' = Remove(subs, d[1])
             \/ "write" \in Faults /\ subs' = subs
    /\ UNCHANGED <<now, proc, armed, poll, seen, verified, req, world,
                   cut, before, backlog, proven>>

\* store.read() answers: the record must still be there and live; the POST
\* goes out in the same step, signed with the keys of the record just read.
AttemptPosts(d) ==
    /\ deliv[d].phase = "reading"
    /\ LET current == subs[d[1]]
           revoked == access[Owner[d[1]]] # "granted" IN
       IF proc = "stopping" \/ deliv[d].aborted \/ ~ Live(current)
       THEN EndDelivery(d, "ended")
       ELSE /\ deliv' = [deliv EXCEPT ![d].phase = "posting",
                                      ![d].keys = SigningKeys(current),
                                      ![d].late = IF revoked THEN @ + 1 ELSE 0]
            /\ UNCHANGED fate
    /\ UNCHANGED <<store, proc, armed, poll, seen, verified, req, world,
                   cut, before, backlog, proven>>

\* The callback answers 2xx, or in a way that ends the delivery; or the abort
\* signal destroys the request.
PostSettles(d) ==
    /\ deliv[d].phase = "posting"
    /\ EndDelivery(d, "ended")
    /\ UNCHANGED <<store, proc, armed, poll, seen, verified, req, world,
                   cut, before, backlog, proven>>

\* 410 Gone removes the subscription.
PostGone(d) ==
    /\ "gone" \in Faults
    /\ deliv[d].phase = "posting" /\ ~ deliv[d].aborted
    /\ EndDelivery(d, "ended")
    /\ subs' = Remove(subs, d[1])
    /\ UNCHANGED <<now, proc, armed, poll, seen, verified, req, world,
                   cut, before, backlog, proven>>

\* The loop bound.  (Faulty variant: one attempt too many.)
AttemptsLeftOffByOne(d) == deliv[d].attempt <= Attempts
AttemptsLeft(d) == deliv[d].attempt < Attempts

\* No answer, 429 or 5xx: back off, or give up after the last attempt.
PostTransient(d) ==
    /\ "transient" \in Faults
    /\ deliv[d].phase = "posting" /\ ~ deliv[d].aborted
    /\ IF AttemptsLeft(d)
       THEN /\ deliv' = [deliv EXCEPT ![d].phase = "sleeping", ![d].keys = {}]
            /\ UNCHANGED fate
       ELSE EndDelivery(d, "ended")
    /\ UNCHANGED <<store, proc, armed, poll, seen, verified, req, world,
                   cut, before, backlog, proven>>

\* A retry is a new attempt, from the authorization check on.  (Faulty variants:
\* it starts at the POST; it is not counted.)
RetryUnchecked(d) == [deliv[d] EXCEPT !.phase = "reading", !.attempt = @ + 1]
RetryUncounted(d) == [deliv[d] EXCEPT !.phase = "authorizing"]
Retry(d) == [deliv[d] EXCEPT !.phase = "authorizing", !.attempt = @ + 1]

\* The sleep ends by itself or with the abort signal.
\* (Faulty variant: an aborted sleep never settles.)
SleepEndsUnaborted(d) == deliv[d].phase = "sleeping" /\ ~ deliv[d].aborted
SleepEnds(d) == deliv[d].phase = "sleeping"

Wakes(d) ==
    /\ SleepEnds(d)
    /\ IF deliv[d].aborted
       THEN EndDelivery(d, "ended")
       ELSE deliv' = [deliv EXCEPT ![d] = Retry(d)] /\ UNCHANGED fate
    /\ UNCHANGED <<store, proc, armed, poll, seen, verified, req, world,
                   cut, before, backlog, proven>>

-----------------------------------------------------------------------------
(* start(), stop(), and the end of the process *)

\* A failed pruning transaction ends the start-up: the process stays down.
Start ==
    /\ proc = "down"
    /\ proc' = "up"
    /\ subs' = Prune(subs)
    /\ armed' = (Stored(subs') # {})
    /\ before' = arrived
    /\ UNCHANGED <<now, poll, seen, verified, deliv, req, world, fate, cut, backlog, proven>>

Stop ==
    /\ "stop" \in Faults
    /\ proc = "up"
    /\ proc' = "stopping"
    /\ armed' = FALSE
    /\ deliv' = [d \in Delivery |-> IF Active(d) THEN [deliv[d] EXCEPT !.aborted = TRUE]
                                    ELSE deliv[d]]
    /\ UNCHANGED <<store, poll, seen, verified, req, world, history>>

\* Everything but the store is lost with the process.
GoDown ==
    /\ proc' = "down"
    /\ armed' = FALSE
    /\ poll' = NoPoll
    /\ seen' = [i \in Id |-> None]
    /\ verified' = [k \in DOMAIN verified |-> 0]
    /\ deliv' = [d \in Delivery |-> NoDelivery]
    /\ req' = [r \in Request |-> NoRequest]
    /\ fate' = [d \in Delivery |-> IF Active(d) THEN "ended" ELSE fate[d]]
    /\ UNCHANGED <<store, world, cut, before, backlog, proven>>

\* stop() returns once the poll in progress has ended.
Exit == proc = "stopping" /\ poll.phase = "idle" /\ GoDown

Crash == "crash" \in Faults /\ proc # "down" /\ GoDown

-----------------------------------------------------------------------------
(* The world: time, the collector, the authorization service *)

Tick ==
    /\ now < MaxTime
    /\ now' = now + 1
    /\ UNCHANGED <<subs, runtime, world, history>>

Arrives(t) ==
    /\ t \notin arrived
    /\ arrived' = arrived \cup {t}
    /\ UNCHANGED <<store, runtime, access, history>>

AccessChanges(p, answer) ==
    /\ answer = "granted" \/ (answer = "revoked" /\ "revoke" \in Faults)
                          \/ (answer = "outage" /\ "outage" \in Faults)
    /\ access[p] # answer
    /\ access' = [access EXCEPT ![p] = answer]
    /\ deliv' = [d \in Delivery |->
                    IF answer = "granted" /\ Owner[d[1]] = p
                    THEN [deliv[d] EXCEPT !.late = 0] ELSE deliv[d]]
    /\ UNCHANGED <<store, proc, armed, poll, seen, verified, req, arrived, history>>

Handler(r) ==
    \/ SubscribeAuthorized(r) \/ ChallengeEchoed(r) \/ ChallengeFails(r)
    \/ SubscribeCommits(r) \/ SubscribeRefused(r)
    \/ UnsubscribeCommits(r) \/ UnsubscribeFails(r) \/ UnsubscribeReturns(r)

PollStep ==
    \/ PollBegins \/ PollFails \/ PollGroups \/ PollEnds
    \/ \E id \in Id : PollAuthorizes(id)
    \/ \E s \in Source : PollFetches(s) \/ PollFetchFails(s)

DeliveryStep(d) ==
    AttemptAuthorized(d) \/ AttemptPosts(d) \/ PostSettles(d) \/ PostGone(d)
    \/ PostTransient(d) \/ Wakes(d)

Next ==
    \/ \E r \in Request, id \in Id :
          \/ \E secret \in Secret, ttl \in Ttls : SubscribeCall(r, id, secret, ttl)
          \/ UnsubscribeCall(r, id)
    \/ \E r \in Request : Handler(r)
    \/ PollTimer \/ PollStep
    \/ \E d \in Delivery : DeliveryStep(d)
    \/ Start \/ Stop \/ Exit \/ Crash
    \/ Tick
    \/ \E t \in Trace : Arrives(t)
    \/ \E p \in Principal, answer \in {"granted", "revoked", "outage"} : AccessChanges(p, answer)

Spec == Init /\ [][Next]_vars

-----------------------------------------------------------------------------
(* Safety *)

\* A principal never holds more live subscriptions than the cap, although the
\* check and the write of a subscribe are separated by a challenge during
\* which other calls, polls and expiries go on (assertCapacity, twice).
CapacityHeld == \A p \in Principal : Cardinality(LiveOf(subs, p)) <= Cap

\* Once the unsubscribe calls for an id have returned, and until it is
\* subscribed again, no webhook POST for it is in flight: the removal, the
\* abort of active deliveries and the re-read before each POST leave no gap
\* for a poll snapshot, a retry or a delivery started meanwhile.
QuietAfterUnsubscribe ==
    \A id \in cut :
        (\A r \in Request : req[r].phase = "joining" => req[r].id # id)
            => \A t \in Trace : deliv[<<id, t>>].phase # "posting"

\* Once access is no longer granted, a delivery sends at most the one POST
\* whose check had already passed: retries are rechecked.
OnePostPastRevocation == \A d \in Delivery : deliv[d].late <= 1

\* No trace is delivered twice to a subscription identity: not by overlapping
\* polls, not after an outage, not after it is unsubscribed and subscribed
\* again, and not after a restart.
DeliveredOnce ==
    [][\A d \in Delivery : ~ Active(d) /\ Active(d)' => fate[d] = "new"]_vars

\* "There is no replay; traces that arrive while the server is down are not
\* delivered": nothing that arrived before the process started is delivered.
NoReplay == \A d \in Delivery : Active(d) => d[2] \notin before

\* While the rotation window of a replaced secret lasts, the record keeps that
\* secret: a refresh, a prune or a restart never drops it early, and a
\* rotation hands over the secret it replaces.
KeyHandover ==
    [][\A id \in Id :
          LET old == subs[id]  new == subs'[id] IN
          Live(old) /\ new # None =>
             IF new.secret # old.secret
             THEN new.previous = old.secret /\ new.previousUntil = now + RotationWindow
             ELSE old.previousUntil > now =>
                     new.previous = old.previous /\ new.previousUntil = old.previousUntil]_vars

\* Every POST, a retry included, is signed with the secret that is current
\* when it goes out, and with no secret whose rotation window is over.
FreshSignature ==
    [][\A d \in Delivery :
          deliv[d].phase # "posting" /\ deliv'[d].phase = "posting" =>
             /\ subs[d[1]].secret \in deliv'[d].keys
             /\ \A k \in deliv'[d].keys :
                   \/ k = subs[d[1]].secret
                   \/ k = subs[d[1]].previous /\ subs[d[1]].previousUntil > now]_vars

\* A rotated secret is handed over, and nothing else signs.
SecretsHandOver == KeyHandover /\ FreshSignature

\* Error data goes only to a callback that echoed a challenge to the
\* subscription's own principal, in this process or an earlier one.
VerifiedBeforeData ==
    \A id \in Id : subs[id] # None \/ (\E t \in Trace : Active(<<id, t>>))
                    => CallbackKey(id) \in proven

\* While a subscription is stored and the server runs, the poller is armed: a
\* subscribe that commits while a poll finds nothing left is not forgotten.
PollerArmed == proc = "up" /\ (\E id \in Id : subs[id] # None) => armed

\* After stop(), every delivery that is still running has been told to abort.
StopReachesDeliveries ==
    proc = "stopping" => ~ armed /\ \A d \in Delivery : Active(d) => deliv[d].aborted

\* A baseline only moves when its own subscription was authorised by the poll,
\* and is only forgotten when no record stood behind it: sharing one fetch per
\* project, and an authorization outage, cost no subscriber its baseline.
BaselineKept ==
    [][\A id \in Id :
          seen[id] # None /\ seen'[id] # seen[id] /\ proc' # "down" =>
             \/ seen'[id] # None /\ seen[id] \subseteq seen'[id] /\ id \in poll.allowed
             \/ seen'[id] = None /\ id \notin poll.snapshot]_vars

\* One poll serves the subscribers of several projects, each project from one
\* fetch: a subscriber is sent traces of its own principal's project only, and
\* its baseline holds no others, however polls, calls and fetches interleave.
OwnProjectOnly ==
    /\ \A d \in Delivery : Active(d) => Origin[d[2]] = Project[Owner[d[1]]]
    /\ \A id \in Id : seen[id] # None
                        => \A t \in seen[id] : Origin[t] = Project[Owner[id]]

\* Lifetimes are bounded and never unbounded (grantedTtlMs).
LifetimeBounded ==
    \A id \in Id : subs[id] # None => subs[id].refreshBefore <= now + MaxTtl

\* "The first poll sets a baseline, so a subscription never receives a
\* backlog": what had arrived when a record was created is not delivered to it.
\* The code does not keep this: a baseline outlives its record until the next
\* poll, so a subscription that is ended and made again between two polls
\* receives what arrived before it was made (events.ts:581-591, 609-613).
NoBacklog == \A d \in Delivery : Active(d) => d[2] \notin backlog[d[1]]

\* "Authorization outages suspend delivery ... so recovery can still deliver
\* errors that arrived during the outage": an event whose delivery an outage
\* suspended is still new to its subscription.  The code marks a trace as seen
\* before the delivery's own check, so an outage there loses the event.
SuspendedIsKept ==
    \A d \in Delivery : fate[d] = "suspended" /\ seen[d[1]] # None => d[2] \notin seen[d[1]]

-----------------------------------------------------------------------------
(***************************************************************************)
(* Liveness.  What is awaited settles: the authorization check, the        *)
(* collector query and the callback POST have timeouts, a backoff sleep    *)
(* ends, a store write succeeds or throws, and setInterval fires while it  *)
(* is armed.  Nothing is assumed of callers, of the clock, of access or of *)
(* which answer comes.                                                     *)
(***************************************************************************)
FairSpec ==
    /\ Spec
    /\ WF_vars(PollTimer) /\ WF_vars(PollStep) /\ WF_vars(Exit)
    /\ \A r \in Request : WF_vars(Handler(r))
    /\ \A d \in Delivery : WF_vars(DeliveryStep(d))

\* Every poll ends, so the next one can start: no delivery, however often its
\* callback fails, and no failed write holds the single poll for ever.
PollsEnd == poll.phase # "idle" ~> poll.phase = "idle"

\* Every subscribe and unsubscribe is answered, the deliveries an unsubscribe
\* waits for included.
CallsAreAnswered == \A r \in Request : req[r].phase # "idle" ~> req[r].phase = "idle"

\* stop() returns.
StopCompletes == proc = "stopping" ~> proc = "down"

\* Without subscriptions the poller disarms itself, unless one is made first.
IdlePollerStops ==
    (\A id \in Id : subs[id] = None) ~> (~ armed \/ \E id \in Id : subs[id] # None)

\* What the runtime has begun comes to an end: polls, calls and stop().
EverythingEnds == PollsEnd /\ CallsAreAnswered /\ StopCompletes

\* A matching error that arrives after the baseline is attempted, as long as
\* the baseline lasts and the server runs.
NewErrorsAreAttempted ==
    \A d \in Wanted :
        seen[d[1]] # None /\ d[2] \in Recent(Project[Owner[d[1]]]) \ seen[d[1]]
            ~> fate[d] # "new" \/ seen[d[1]] = None \/ proc # "up"

\* The poller works while there is something to do, and no longer.
PollerDoesItsWork == NewErrorsAreAttempted /\ IdlePollerStops

=============================================================================
