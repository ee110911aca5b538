------------------------- MODULE EventsRuntimeProofs -------------------------
(***************************************************************************)
(* Theorems about EventsRuntime, for any finite set of subscriptions and   *)
(* any number of principals, traces, callers, attempts and ticks.          *)
(***************************************************************************)
EXTENDS EventsRuntime, FiniteSetTheorems, TLAPS

-----------------------------------------------------------------------------
(* The operators on the stored document *)

\* Every lifetime that is granted lies between the limits.
LEMMA GrantedTtlBounds ==
    ASSUME NEW ttl \in Ttls
    PROVE  GrantedTtl(ttl) \in Nat /\ GrantedTtl(ttl) <= MaxTtl
  <1>1. ttl \in {Unspecified, Null} \/ ttl \in Nat
    BY ConstantsAssumption
  <1> QED
    BY <1>1, ConstantsAssumption DEF GrantedTtl

\* Pruning yields a document: the live records, none of them renewed.
LEMMA PruneResult ==
    ASSUME subs \in [Id -> {None} \cup Sub], now \in Nat
    PROVE  /\ Prune(subs) \in [Id -> {None} \cup Sub]
           /\ \A i \in Id : Prune(subs)[i] # None <=> Live(subs[i])
           /\ \A i \in Id : Live(subs[i]) =>
                 Prune(subs)[i].refreshBefore = subs[i].refreshBefore
  <1> DEFINE Trimmed(s) == [s EXCEPT !.previous = None, !.previousUntil = 0]
  <1>1. ASSUME NEW i \in Id, Live(subs[i])
        PROVE  /\ subs[i] \in Sub
               /\ Trimmed(subs[i]) \in Sub
               /\ Trimmed(subs[i]).refreshBefore = subs[i].refreshBefore
    BY <1>1 DEF Live, Sub
  <1>2. \A i \in Id : Live(subs[i]) => Trimmed(subs[i]) # None /\ subs[i] # None
    BY <1>1, NoneAssumption
  <1> QED
    BY <1>1, <1>2 DEF Prune

\* What subscribe() writes is a record.
LEMMA RenewedType ==
    ASSUME NEW existing \in {None} \cup Sub, NEW secret \in Secret, NEW ttl \in Ttls,
           now \in Nat
    PROVE  /\ Renewed(existing, secret, ttl) \in Sub
           /\ Renewed(existing, secret, ttl).refreshBefore = now + GrantedTtl(ttl)
  BY GrantedTtlBounds, ConstantsAssumption DEF Renewed, Sub

-----------------------------------------------------------------------------
(* Type correctness *)

LEMMA DefaultsTyped ==
    /\ NoPoll \in Poll /\ NoDelivery \in DeliveryState /\ NoRequest \in RequestState
    /\ [NoDelivery EXCEPT !.phase = "authorizing", !.attempt = 1] \in DeliveryState
  <1>1. NoPoll \in Poll
    BY DEF NoPoll, Poll
  <1>2. NoDelivery \in DeliveryState
    BY ConstantsAssumption DEF NoDelivery, DeliveryState
  <1>3. NoRequest \in RequestState
    BY DEF NoRequest, RequestState, SubscribePhase, UnsubscribePhase
  <1>4. [NoDelivery EXCEPT !.phase = "authorizing", !.attempt = 1] \in DeliveryState
    <2>1. 1 \in 0..Attempts
      BY ConstantsAssumption
    <2> QED
      BY <2>1 DEF NoDelivery, DeliveryState
  <1> QED
    BY <1>1, <1>2, <1>3, <1>4

LEMMA InitType == Init => TypeOK
  <1> SUFFICES ASSUME Init PROVE TypeOK
    OBVIOUS
  <1>1. StoreType /\ PollerType
    BY DefaultsTyped DEF Init, StoreType, PollerType
  <1>2. CallType /\ DeliveryType
    BY DefaultsTyped DEF Init, CallType, DeliveryType
  <1>3. WorldType /\ HistoryType
    BY DEF Init, WorldType, HistoryType
  <1> QED
    BY <1>1, <1>2, <1>3 DEF TypeOK

\* A call that ends leaves a well-typed table of calls.
LEMMA RejectType ==
    ASSUME CallType, NEW r \in Request, Reject(r)
    PROVE  req' \in [Request -> RequestState]
  BY DefaultsTyped DEF CallType, Reject

\* Steps of subscribe() keep the types.
LEMMA SubscribeType ==
    ASSUME TypeOK, NEW r \in Request,
           \/ \E id \in Id, secret \in Secret, ttl \in Ttls : SubscribeCall(r, id, secret, ttl)
           \/ SubscribeAuthorized(r) \/ ChallengeEchoed(r) \/ ChallengeFails(r)
           \/ SubscribeCommits(r) \/ SubscribeRefused(r)
    PROVE  TypeOK'
  <1> USE DEF TypeOK, StoreType, PollerType, CallType, DeliveryType, WorldType, HistoryType,
              store, world, history
  <1>1. CASE \E id \in Id, secret \in Secret, ttl \in Ttls : SubscribeCall(r, id, secret, ttl)
    BY <1>1 DEF SubscribeCall, RequestState, SubscribePhase
  <1>2. CASE SubscribeAuthorized(r)
    <2>1. CASE Reject(r)
      BY <1>2, <2>1, RejectType DEF SubscribeAuthorized
    <2>2. CASE \E p \in {"committing", "verifying"} : req' = [req EXCEPT ![r].phase = p]
      <3>1. req[r].phase = "authorizing" /\ req[r] \in RequestState
        BY <1>2 DEF SubscribeAuthorized
      <3>2. \A p \in {"committing", "verifying"} : [req[r] EXCEPT !.phase = p] \in RequestState
        BY <3>1 DEF RequestState, SubscribePhase
      <3> QED
        BY <1>2, <2>2, <3>2 DEF SubscribeAuthorized
    <2> QED
      BY <1>2, <2>1, <2>2 DEF SubscribeAuthorized
  <1>3. CASE ChallengeEchoed(r)
    <2>1. req[r].phase = "verifying" /\ req[r] \in RequestState
      BY <1>3 DEF ChallengeEchoed
    <2>2. [req[r] EXCEPT !.phase = "committing"] \in RequestState
      BY <2>1 DEF RequestState, SubscribePhase
    <2>3. req[r].id \in Id
      BY <2>1 DEF RequestState
    <2>4. verified' \in [Principal \X Callback -> Nat] /\ proven' \subseteq Principal \X Callback
      BY <1>3, <2>3, ConstantsAssumption DEF ChallengeEchoed, Remember, CallbackKey
    <2> QED
      BY <1>3, <2>2, <2>4 DEF ChallengeEchoed
  <1>4. CASE ChallengeFails(r)
    BY <1>4, RejectType DEF ChallengeFails
  <1>5. CASE SubscribeRefused(r)
    BY <1>5, RejectType DEF SubscribeRefused
  <1>6. CASE SubscribeCommits(r)
    <2>1. req[r].id \in Id /\ req[r].secret \in Secret /\ req[r].ttl \in Ttls
      BY <1>6 DEF SubscribeCommits, RequestState, SubscribePhase
    <2>2. subs' \in [Id -> {None} \cup Sub]
      BY <1>6, <2>1, PruneResult, RenewedType DEF SubscribeCommits
    <2>3. armed' \in BOOLEAN /\ cut' \subseteq Id /\ backlog' \in [Id -> SUBSET Trace]
      BY <1>6, <2>1 DEF SubscribeCommits, EnsurePolling
    <2> QED
      BY <1>6, <2>2, <2>3, RejectType DEF SubscribeCommits
  <1> QED
    BY <1>1, <1>2, <1>3, <1>4, <1>5, <1>6

\* Steps of unsubscribe() keep the types.
LEMMA UnsubscribeType ==
    ASSUME TypeOK, NEW r \in Request,
           \/ \E id \in Id : UnsubscribeCall(r, id)
           \/ UnsubscribeCommits(r) \/ UnsubscribeFails(r) \/ UnsubscribeReturns(r)
    PROVE  TypeOK'
  <1> USE DEF TypeOK, StoreType, PollerType, CallType, DeliveryType, WorldType, HistoryType,
              store, world, history
  <1>1. CASE \E id \in Id : UnsubscribeCall(r, id)
    <2>1. PICK id \in Id : UnsubscribeCall(r, id)
      BY <1>1
    <2>2. [NoRequest EXCEPT !.phase = "removing", !.id = id] \in RequestState
      BY DEF NoRequest, RequestState, SubscribePhase, UnsubscribePhase
    <2> QED
      BY <2>1, <2>2 DEF UnsubscribeCall
  <1>2. CASE UnsubscribeCommits(r)
    <2>1. req[r].phase = "removing" /\ req[r] \in RequestState
      BY <1>2 DEF UnsubscribeCommits
    <2>2. \A js \in SUBSET Trace : [req[r] EXCEPT !.phase = "joining", !.joins = js] \in RequestState
      BY <2>1 DEF RequestState, SubscribePhase, UnsubscribePhase
    <2>3. req' = [req EXCEPT ![r] = [@ EXCEPT !.phase = "joining", !.joins = Joined(req[r].id)]]
      BY <1>2 DEF UnsubscribeCommits
    <2>4. req' \in [Request -> RequestState]
      BY <2>2, <2>3 DEF Joined
    <2>5. \A d \in Delivery : [deliv[d] EXCEPT !.aborted = TRUE] \in DeliveryState
      BY DEF DeliveryState
    <2>6. deliv' \in [Delivery -> DeliveryState]
      BY <1>2, <2>5 DEF UnsubscribeCommits
    <2>7. subs' \in [Id -> {None} \cup Sub] /\ cut' \subseteq Id
      BY <1>2, <2>1 DEF UnsubscribeCommits, Remove, RequestState
    <2> QED
      BY <1>2, <2>4, <2>6, <2>7 DEF UnsubscribeCommits
  <1>3. CASE UnsubscribeFails(r)
    BY <1>3, RejectType DEF UnsubscribeFails
  <1>4. CASE UnsubscribeReturns(r)
    BY <1>4, RejectType DEF UnsubscribeReturns
  <1> QED
    BY <1>1, <1>2, <1>3, <1>4

\* Steps of the poller keep the types.
LEMMA PollType ==
    ASSUME TypeOK, PollTimer \/ PollStep
    PROVE  TypeOK'
  <1> USE DEF TypeOK, StoreType, PollerType, CallType, DeliveryType, WorldType, HistoryType,
              store, world, history
  <1>1. CASE PollTimer
    BY <1>1 DEF PollTimer, NoPoll, Poll
  <1>2. CASE PollBegins
    <2>1. subs' \in [Id -> {None} \cup Sub]
      BY <1>2, PruneResult DEF PollBegins
    <2>2. \A ids \in SUBSET Id :
             [NoPoll EXCEPT !.phase = "authorizing", !.snapshot = ids, !.todo = ids] \in Poll
      BY DEF NoPoll, Poll
    <2>3. Stored(subs') \in SUBSET Id
      BY DEF Stored
    <2>4. poll' \in Poll
      BY <1>2, <2>2, <2>3, DefaultsTyped DEF PollBegins
    <2>5. seen' \in [Id -> {None} \cup SUBSET Trace]
      BY <1>2 DEF PollBegins
    <2> QED
      BY <1>2, <2>1, <2>4, <2>5 DEF PollBegins, StaysArmed
  <1>3. CASE PollFails
    BY <1>3, DefaultsTyped DEF PollFails
  <1>4. CASE PollGroups
    <2>1. {Project[Owner[id]] : id \in poll.allowed} \in SUBSET Source
      BY ConstantsAssumption DEF Poll
    <2>2. \A g \in SUBSET Source : [poll EXCEPT !.phase = "fetching", !.groups = g] \in Poll
      BY DEF Poll
    <2> QED
      BY <1>4, <2>1, <2>2 DEF PollGroups
  <1>5. CASE PollEnds
    BY <1>5, DefaultsTyped DEF PollEnds
  <1>6. ASSUME NEW id \in Id, PollAuthorizes(id) PROVE TypeOK'
    <2>1. subs' \in [Id -> {None} \cup Sub]
      BY <1>6 DEF PollAuthorizes, Remove
    <2>2. poll' \in Poll
      BY <1>6 DEF PollAuthorizes, Poll
    <2> QED
      BY <1>6, <2>1, <2>2 DEF PollAuthorizes
  <1>7. ASSUME NEW s \in Source, PollFetches(s) PROVE TypeOK'
    <2>1. poll' \in Poll
      BY <1>7 DEF PollFetches, Poll
    <2>2. seen' \in [Id -> {None} \cup SUBSET Trace]
      BY <1>7 DEF PollFetches, SeenAfter, Recent
    <2>3. deliv' \in [Delivery -> DeliveryState]
      BY <1>7, DefaultsTyped DEF PollFetches
    <2>4. fate' \in [Delivery -> {"new", "active", "ended", "suspended"}]
      BY <1>7, ZenonT(30) DEF PollFetches
    <2> QED
      BY <1>7, <2>1, <2>2, <2>3, <2>4 DEF PollFetches
  <1>8. ASSUME NEW s \in Source, PollFetchFails(s) PROVE TypeOK'
    BY <1>8 DEF PollFetchFails, Poll
  <1> QED
    BY <1>1, <1>2, <1>3, <1>4, <1>5, <1>6, <1>7, <1>8 DEF PollStep

\* Steps of a delivery keep the types.
LEMMA DeliveryStepType ==
    ASSUME TypeOK, NEW d \in Delivery, DeliveryStep(d)
    PROVE  TypeOK'
  <1> USE DEF TypeOK, StoreType, PollerType, CallType, DeliveryType, WorldType, HistoryType,
              store, world, history
  <1>1. d[1] \in Id /\ deliv[d] \in DeliveryState
    BY DEF Delivery
  <1>2. ASSUME NEW how \in {"ended", "suspended"}, EndDelivery(d, how) PROVE DeliveryType'
    BY <1>2, DefaultsTyped DEF EndDelivery
  <1>3. \A document \in [Id -> {None} \cup Sub] :
           Remove(document, d[1]) \in [Id -> {None} \cup Sub]
    BY DEF Remove
  <1>4. CASE AttemptAuthorized(d)
    <2>1. [deliv[d] EXCEPT !.phase = "reading"] \in DeliveryState
      BY <1>1 DEF DeliveryState
    <2>2. DeliveryType'
      BY <1>4, <1>2, <2>1 DEF AttemptAuthorized
    <2>3. subs' \in [Id -> {None} \cup Sub]
      BY <1>4, <1>3 DEF AttemptAuthorized
    <2> QED
      BY <1>4, <2>2, <2>3 DEF AttemptAuthorized
  <1>5. CASE AttemptPosts(d)
    <2>1. CASE EndDelivery(d, "ended")
      BY <1>5, <1>2, <2>1 DEF AttemptPosts
    <2>2. CASE ~ EndDelivery(d, "ended")
      <3> DEFINE late == IF access[Owner[d[1]]] # "granted" THEN deliv[d].late + 1 ELSE 0
      <3>1. subs[d[1]] \in Sub
        BY <1>1, <1>5, <2>2 DEF AttemptPosts, Live
      <3>2. SigningKeys(subs[d[1]]) \in SUBSET Secret /\ late \in Nat
        BY <1>1, <3>1 DEF SigningKeys, Sub, DeliveryState
      <3>3. \A keys \in SUBSET Secret, n \in Nat :
               [deliv[d] EXCEPT !.phase = "posting", !.keys = keys, !.late = n] \in DeliveryState
        BY <1>1 DEF DeliveryState
      <3>4. deliv' = [deliv EXCEPT ![d] = [@ EXCEPT !.phase = "posting",
                                              !.keys = SigningKeys(subs[d[1]]), !.late = late]]
        BY <1>5, <2>2 DEF AttemptPosts
      <3> HIDE DEF late
      <3>5. deliv' \in [Delivery -> DeliveryState]
        BY <3>2, <3>3, <3>4
      <3> QED
        BY <1>5, <2>2, <3>5 DEF AttemptPosts
    <2> QED
      BY <2>1, <2>2
  <1>6. CASE PostSettles(d)
    BY <1>6, <1>2 DEF PostSettles
  <1>7. CASE PostGone(d)
    BY <1>7, <1>2, <1>3 DEF PostGone
  <1>8. CASE PostTransient(d)
    <2>1. AttemptsLeft(d) => [deliv[d] EXCEPT !.phase = "sleeping", !.keys = {}] \in DeliveryState
      BY <1>1 DEF DeliveryState, AttemptsLeft
    <2>2. CASE AttemptsLeft(d)
      BY <1>8, <2>1, <2>2 DEF PostTransient
    <2>3. CASE ~ AttemptsLeft(d)
      BY <1>8, <1>2, <2>3 DEF PostTransient
    <2> QED
      BY <2>2, <2>3
  <1>9. CASE Wakes(d)
    <2>1. ASSUME deliv[d].phase = "sleeping" PROVE Retry(d) \in DeliveryState
      <3>1. deliv[d].attempt \in 0..Attempts /\ deliv[d].attempt < Attempts
        BY <1>1, <2>1 DEF DeliveryState
      <3>2. deliv[d].attempt + 1 \in 0..Attempts
        BY <3>1, ConstantsAssumption
      <3> QED
        BY <1>1, <3>2 DEF Retry, DeliveryState
    <2>2. CASE EndDelivery(d, "ended")
      BY <1>9, <1>2, <2>2 DEF Wakes
    <2>3. CASE deliv' = [deliv EXCEPT ![d] = Retry(d)] /\ UNCHANGED fate
      <3>1. deliv' \in [Delivery -> DeliveryState]
        BY <1>9, <2>1, <2>3 DEF Wakes, SleepEnds
      <3> QED
        BY <1>9, <2>3, <3>1 DEF Wakes
    <2> QED
      BY <1>9, <2>2, <2>3 DEF Wakes
  <1> QED
    BY <1>4, <1>5, <1>6, <1>7, <1>8, <1>9 DEF DeliveryStep

\* Steps of the process, the clock and the world keep the types.
LEMMA ProcessType ==
    ASSUME TypeOK, Start \/ Stop \/ Exit \/ Crash \/ Tick
    PROVE  TypeOK'
  <1> USE DEF TypeOK, StoreType, PollerType, CallType, DeliveryType, WorldType, HistoryType,
              store, runtime, world, history
  <1>1. CASE Start
    <2>1. subs' \in [Id -> {None} \cup Sub]
      BY <1>1, PruneResult DEF Start
    <2> QED
      BY <1>1, <2>1 DEF Start
  <1>2. CASE Stop
    <2>1. \A d \in Delivery : [deliv[d] EXCEPT !.aborted = TRUE] \in DeliveryState
      BY DEF DeliveryState
    <2>2. deliv' \in [Delivery -> DeliveryState]
      BY <1>2, <2>1 DEF Stop
    <2> QED
      BY <1>2, <2>2 DEF Stop
  <1>3. CASE GoDown
    <2>1. PollerType' /\ CallType'
      BY <1>3, DefaultsTyped DEF GoDown
    <2>2. DeliveryType'
      BY <1>3, DefaultsTyped DEF GoDown
    <2> QED
      BY <1>3, <2>1, <2>2 DEF GoDown
  <1>4. CASE Tick
    BY <1>4 DEF Tick
  <1> QED
    BY <1>1, <1>2, <1>3, <1>4 DEF Exit, Crash

LEMMA WorldStepType ==
    ASSUME TypeOK,
           \/ \E t \in Trace : Arrives(t)
           \/ \E p \in Principal, answer \in {"granted", "revoked", "outage"} :
                 AccessChanges(p, answer)
    PROVE  TypeOK'
  <1> USE DEF TypeOK, StoreType, PollerType, CallType, DeliveryType, WorldType, HistoryType,
              store, runtime, world, history
  <1>1. ASSUME NEW t \in Trace, Arrives(t) PROVE TypeOK'
    BY <1>1 DEF Arrives
  <1>2. ASSUME NEW p \in Principal, NEW answer \in {"granted", "revoked", "outage"},
               AccessChanges(p, answer)
        PROVE TypeOK'
    <2>1. \A d \in Delivery : [deliv[d] EXCEPT !.late = 0] \in DeliveryState
      BY DEF DeliveryState
    <2>2. deliv' \in [Delivery -> DeliveryState]
      BY <1>2, <2>1 DEF AccessChanges
    <2> QED
      BY <1>2, <2>2 DEF AccessChanges
  <1> QED
    BY <1>1, <1>2

\* Every step keeps the types.
LEMMA StepType == TypeOK /\ [Next]_vars => TypeOK'
  <1> SUFFICES ASSUME TypeOK, [Next]_vars PROVE TypeOK'
    OBVIOUS
  <1>1. CASE UNCHANGED vars
    BY <1>1 DEF vars, TypeOK, StoreType, PollerType, CallType, DeliveryType, WorldType,
                HistoryType
  <1>2. CASE Next
    BY <1>2, SubscribeType, UnsubscribeType, PollType, DeliveryStepType, ProcessType,
       WorldStepType DEF Next, Handler
  <1> QED
    BY <1>1, <1>2

\* Every variable keeps its type, no call loses the data it is about, and no
\* delivery is tried more often than DELIVERY_ATTEMPTS allows.
THEOREM TypeCorrect == Spec => []TypeOK
  BY InitType, StepType, PTL DEF Spec

-----------------------------------------------------------------------------
(* The stored document *)

\* No record is made or renewed.
Shrinks == \A i \in Id : subs'[i] # None =>
               subs[i] # None /\ subs'[i].refreshBefore = subs[i].refreshBefore

\* Only subscribe() makes or renews records; the clock never runs back.
LEMMA DocumentStep ==
    ASSUME TypeOK, [Next]_vars, \A r \in Request : ~ SubscribeCommits(r)
    PROVE  Shrinks /\ now' \in Nat /\ now' >= now
  <1> USE DEF store, runtime, world, history
  <1>0. subs \in [Id -> {None} \cup Sub] /\ now \in Nat
    BY DEF TypeOK, StoreType
  <1>1. subs' = Prune(subs) => Shrinks
    BY <1>0, PruneResult DEF Live, Shrinks
  <1>2. \A i \in Id : subs' = Remove(subs, i) => Shrinks
    BY <1>0 DEF Remove, Shrinks
  <1>3. subs' = subs => Shrinks
    BY DEF Shrinks
  <1>4. CASE UNCHANGED vars
    BY <1>0, <1>3, <1>4 DEF vars
  <1>5. ASSUME NEW r \in Request, NEW id \in Id,
               \/ \E secret \in Secret, ttl \in Ttls : SubscribeCall(r, id, secret, ttl)
               \/ UnsubscribeCall(r, id)
        PROVE  Shrinks /\ now' = now
    BY <1>3, <1>5 DEF SubscribeCall, UnsubscribeCall
  <1>6. ASSUME NEW r \in Request, Handler(r)
        PROVE  Shrinks /\ now' = now
    <2>1. CASE UnsubscribeCommits(r)
      <3>1. req[r].id \in Id
        BY <2>1 DEF TypeOK, CallType, RequestState, UnsubscribeCommits
      <3> QED
        BY <1>2, <2>1, <3>1 DEF UnsubscribeCommits
    <2> QED
      BY <1>3, <1>6, <2>1 DEF Handler, SubscribeAuthorized, ChallengeEchoed, ChallengeFails,
         SubscribeRefused, UnsubscribeFails, UnsubscribeReturns
  <1>7. CASE PollTimer \/ PollStep
    <2>1. CASE PollTimer \/ PollFails \/ PollGroups \/ PollEnds
      BY <1>0, <1>3, <2>1 DEF PollTimer, PollFails, PollGroups, PollEnds
    <2>2. CASE PollBegins
      BY <1>0, <1>1, <2>2 DEF PollBegins
    <2>3. ASSUME NEW id \in Id, PollAuthorizes(id) PROVE Shrinks /\ now' = now
      BY <1>2, <1>3, <2>3 DEF PollAuthorizes
    <2>4. ASSUME NEW s \in Source, PollFetches(s) \/ PollFetchFails(s)
          PROVE  Shrinks /\ now' = now
      BY <1>3, <2>4 DEF PollFetches, PollFetchFails
    <2> QED
      BY <1>0, <1>7, <2>1, <2>2, <2>3, <2>4 DEF PollStep
  <1>8. ASSUME NEW d \in Delivery, DeliveryStep(d)
        PROVE  Shrinks /\ now' = now
    <2>1. d[1] \in Id
      BY DEF Delivery
    <2>2. CASE AttemptAuthorized(d)
      BY <1>2, <1>3, <2>1, <2>2 DEF AttemptAuthorized
    <2>3. CASE PostGone(d)
      BY <1>2, <2>1, <2>3 DEF PostGone
    <2>4. CASE AttemptPosts(d) \/ PostSettles(d) \/ PostTransient(d) \/ Wakes(d)
      BY <1>3, <2>4 DEF AttemptPosts, PostSettles, PostTransient, Wakes
    <2> QED
      BY <1>8, <2>2, <2>3, <2>4 DEF DeliveryStep
  <1>9. CASE Start
    BY <1>0, <1>1, <1>9 DEF Start
  <1>10. CASE Stop \/ Exit \/ Crash
    BY <1>0, <1>3, <1>10 DEF Stop, Exit, Crash, GoDown
  <1>11. CASE Tick
    BY <1>0, <1>3, <1>11 DEF Tick
  <1>12. CASE \/ \E t \in Trace : Arrives(t)
              \/ \E p \in Principal, answer \in {"granted", "revoked", "outage"} :
                    AccessChanges(p, answer)
    BY <1>0, <1>3, <1>12 DEF Arrives, AccessChanges
  <1> QED
    BY <1>0, <1>4, <1>5, <1>6, <1>7, <1>8, <1>9, <1>10, <1>11, <1>12 DEF Next

\* What subscribe() has written: one record is new or renewed, with a lifetime
\* between the limits, in a document that had room for it.
LEMMA CommitResult ==
    ASSUME TypeOK, NEW r \in Request, SubscribeCommits(r)
    PROVE  \E id \in Id :
              /\ now' = now
              /\ subs'[id] # None
              /\ subs'[id].refreshBefore \in Nat /\ subs'[id].refreshBefore <= now + MaxTtl
              /\ \A i \in Id \ {id} : subs'[i] # None =>
                    Live(subs[i]) /\ subs'[i].refreshBefore = subs[i].refreshBefore
              /\ Live(subs[id]) \/ Cardinality(LiveOf(Prune(subs), Owner[id])) < Cap
  <1> DEFINE id == req[r].id
  <1> DEFINE new == Renewed(Prune(subs)[id], req[r].secret, req[r].ttl)
  <1>1. id \in Id /\ req[r].secret \in Secret /\ req[r].ttl \in Ttls
    BY DEF SubscribeCommits, TypeOK, CallType, RequestState, SubscribePhase
  <1>2. subs \in [Id -> {None} \cup Sub] /\ now \in Nat
    BY DEF TypeOK, StoreType
  <1>3. Prune(subs) \in [Id -> {None} \cup Sub]
    BY <1>2, PruneResult
  <1>4. new \in Sub /\ new.refreshBefore = now + GrantedTtl(req[r].ttl)
    BY <1>1, <1>2, <1>3, RenewedType
  <1>5. new.refreshBefore \in Nat /\ new.refreshBefore <= now + MaxTtl
    BY <1>1, <1>2, <1>4, GrantedTtlBounds, ConstantsAssumption
  <1>6. now' = now /\ subs' = [Prune(subs) EXCEPT ![id] = new]
    BY DEF SubscribeCommits
  <1>7. Live(subs[id]) \/ Cardinality(LiveOf(Prune(subs), Owner[id])) < Cap
    BY <1>1, <1>2, PruneResult DEF SubscribeCommits, Admitted, HasSlot
  <1> HIDE DEF new, id
  <1>8. subs'[id] = new /\ \A i \in Id \ {id} : subs'[i] = Prune(subs)[i]
    BY <1>1, <1>3, <1>6
  <1>9. \A i \in Id \ {id} : subs'[i] # None =>
           Live(subs[i]) /\ subs'[i].refreshBefore = subs[i].refreshBefore
    BY <1>2, <1>8, PruneResult
  <1> QED
    BY <1>1, <1>4, <1>5, <1>6, <1>7, <1>8, <1>9, NoneAssumption

-----------------------------------------------------------------------------
(* Capacity and lifetimes *)

\* A principal never holds more live subscriptions than the cap, whatever the
\* calls, polls and expiries between a subscribe's two capacity checks.
LEMMA CapacityStep ==
    ASSUME TypeOK, CapacityHeld, [Next]_vars
    PROVE  CapacityHeld'
  <1> SUFFICES ASSUME NEW p \in Principal
               PROVE  Cardinality(LiveOf(subs, p)') <= Cap
    BY DEF CapacityHeld
  <1>0. subs \in [Id -> {None} \cup Sub] /\ now \in Nat /\ subs' \in [Id -> {None} \cup Sub]
    BY StepType DEF TypeOK, StoreType
  <1>1. LiveOf(subs, p) \in SUBSET Id /\ LiveOf(Prune(subs), p) \in SUBSET Id
    BY DEF LiveOf
  <1>2. IsFiniteSet(LiveOf(subs, p)) /\ IsFiniteSet(LiveOf(Prune(subs), p))
    BY <1>1, FS_Subset, ConstantsAssumption
  <1>3. ASSUME LiveOf(subs, p)' \subseteq LiveOf(subs, p)
        PROVE  Cardinality(LiveOf(subs, p)') <= Cap
    <2>1. Cardinality(LiveOf(subs, p)') <= Cardinality(LiveOf(subs, p))
      BY <1>2, <1>3, FS_Subset
    <2>2. IsFiniteSet(LiveOf(subs, p)')
      BY <1>2, <1>3, FS_Subset
    <2> QED
      BY <1>2, <2>1, <2>2, FS_CardinalityType, ConstantsAssumption DEF CapacityHeld
  <1>4. CASE \A r \in Request : ~ SubscribeCommits(r)
    <2>1. Shrinks /\ now' \in Nat /\ now' >= now
      BY <1>4, DocumentStep
    <2>2. \A i \in Id : Live(subs[i])' => Live(subs[i])
      BY <1>0, <2>1 DEF Shrinks, Live, Sub
    <2> QED
      BY <1>3, <2>2 DEF LiveOf
  <1>5. ASSUME NEW r \in Request, SubscribeCommits(r)
        PROVE  Cardinality(LiveOf(subs, p)') <= Cap
    <2>1. PICK id \in Id :
              /\ now' = now
              /\ \A i \in Id \ {id} : subs'[i] # None =>
                    Live(subs[i]) /\ subs'[i].refreshBefore = subs[i].refreshBefore
              /\ Live(subs[id]) \/ Cardinality(LiveOf(Prune(subs), Owner[id])) < Cap
      BY <1>5, CommitResult
    <2>2. LiveOf(subs, p)' \subseteq LiveOf(subs, p) \cup {id}
      BY <2>1 DEF LiveOf, Live
    <2>3. CASE Live(subs[id]) \/ Owner[id] # p
      BY <1>3, <2>1, <2>2, <2>3 DEF LiveOf
    <2>4. CASE ~ Live(subs[id]) /\ Owner[id] = p
      <3>1. LiveOf(Prune(subs), p) = LiveOf(subs, p)
        BY <1>0, PruneResult DEF LiveOf, Live
      <3>2. Cardinality(LiveOf(subs, p)) < Cap
        BY <2>1, <2>4, <3>1
      <3>3. Cardinality(LiveOf(subs, p) \cup {id}) <= Cap
        <4>1. Cardinality(LiveOf(subs, p)) \in Nat
          BY <1>2, FS_CardinalityType
        <4>2. \/ Cardinality(LiveOf(subs, p) \cup {id}) = Cardinality(LiveOf(subs, p))
              \/ Cardinality(LiveOf(subs, p) \cup {id}) = Cardinality(LiveOf(subs, p)) + 1
          BY <1>2, FS_AddElement
        <4> QED
          BY <3>2, <4>1, <4>2, ConstantsAssumption
      <3>4. /\ IsFiniteSet(LiveOf(subs, p) \cup {id})
            /\ IsFiniteSet(LiveOf(subs, p)')
            /\ Cardinality(LiveOf(subs, p)') <= Cardinality(LiveOf(subs, p) \cup {id})
        BY <1>2, <2>2, FS_AddElement, FS_Subset
      <3> QED
        BY <3>3, <3>4, FS_CardinalityType, ConstantsAssumption
    <2> QED
      BY <2>3, <2>4
  <1> QED
    BY <1>4, <1>5

\* No principal ever exceeds MAX_SUBSCRIPTIONS_PER_PRINCIPAL.
THEOREM CapacityNeverExceeded == Spec => []CapacityHeld
  <1>1. Init => CapacityHeld
    <2> SUFFICES ASSUME Init, NEW p \in Principal
                 PROVE  Cardinality(LiveOf(subs, p)) <= Cap
      BY DEF CapacityHeld
    <2>1. LiveOf(subs, p) = {}
      BY DEF Init, LiveOf, Live
    <2> QED
      BY <2>1, FS_EmptySet, ConstantsAssumption
  <1>2. TypeOK /\ CapacityHeld /\ [Next]_vars => CapacityHeld'
    BY CapacityStep
  <1> QED
    BY <1>1, <1>2, TypeCorrect, PTL DEF Spec

\* No record's deadline is ever further away than MAX_TTL.
THEOREM LifetimesBounded == Spec => []LifetimeBounded
  <1>1. Init => LifetimeBounded
    BY DEF Init, LifetimeBounded
  <1>2. ASSUME TypeOK, LifetimeBounded, [Next]_vars PROVE LifetimeBounded'
    <2>0. /\ subs \in [Id -> {None} \cup Sub] /\ now \in Nat
          /\ \A i \in Id : subs[i] # None => subs[i].refreshBefore \in Nat
      BY <1>2 DEF TypeOK, StoreType, Sub
    <2>1. CASE \A r \in Request : ~ SubscribeCommits(r)
      <3>1. Shrinks /\ now' \in Nat /\ now' >= now
        BY <1>2, <2>1, DocumentStep
      <3> QED
        BY <1>2, <2>0, <3>1, ConstantsAssumption DEF Shrinks, LifetimeBounded
    <2>2. ASSUME NEW r \in Request, SubscribeCommits(r) PROVE LifetimeBounded'
      BY <1>2, <2>0, <2>2, CommitResult, ConstantsAssumption DEF LifetimeBounded, Live
    <2> QED
      BY <2>1, <2>2
  <1> QED
    BY <1>1, <1>2, TypeCorrect, PTL DEF Spec

-----------------------------------------------------------------------------
(* Deliveries *)

\* What can change a delivery, or the access it depends on.
LEMMA DeliveryChanges ==
    ASSUME [Next]_vars
    PROVE  \/ deliv' = deliv /\ access' = access
           \/ \E r \in Request : UnsubscribeCommits(r)
           \/ \E s \in Source : PollFetches(s)
           \/ \E d \in Delivery : DeliveryStep(d)
           \/ Stop \/ GoDown
           \/ \E p \in Principal, answer \in {"granted", "revoked", "outage"} :
                 AccessChanges(p, answer)
  <1> USE DEF store, runtime, world, history
  <1>1. CASE UNCHANGED vars
    BY <1>1 DEF vars
  <1>2. ASSUME NEW r \in Request, NEW id \in Id,
               \/ \E secret \in Secret, ttl \in Ttls : SubscribeCall(r, id, secret, ttl)
               \/ UnsubscribeCall(r, id)
        PROVE  deliv' = deliv /\ access' = access
    BY <1>2 DEF SubscribeCall, UnsubscribeCall
  <1>3. ASSUME NEW r \in Request, Handler(r), ~ UnsubscribeCommits(r)
        PROVE  deliv' = deliv /\ access' = access
    BY <1>3 DEF Handler, SubscribeAuthorized, ChallengeEchoed, ChallengeFails,
       SubscribeCommits, SubscribeRefused, UnsubscribeFails, UnsubscribeReturns
  <1>4. ASSUME PollTimer \/ PollBegins \/ PollFails \/ PollGroups \/ PollEnds
        PROVE  deliv' = deliv /\ access' = access
    BY <1>4 DEF PollTimer, PollBegins, PollFails, PollGroups, PollEnds
  <1>5. ASSUME NEW id \in Id, PollAuthorizes(id)
        PROVE  deliv' = deliv /\ access' = access
    BY <1>5 DEF PollAuthorizes
  <1>6. ASSUME NEW s \in Source, PollFetchFails(s)
        PROVE  deliv' = deliv /\ access' = access
    BY <1>6 DEF PollFetchFails
  <1>7. ASSUME Start \/ Tick \/ \E t \in Trace : Arrives(t)
        PROVE  deliv' = deliv /\ access' = access
    BY <1>7 DEF Start, Tick, Arrives
  <1> QED
    BY <1>1, <1>2, <1>3, <1>4, <1>5, <1>6, <1>7 DEF Next, PollStep, Exit, Crash

\* A delivery whose owner has access, or has just been found to have it, has
\* sent nothing since access was withdrawn.
LateBounded ==
    \A d \in Delivery :
        /\ access[Owner[d[1]]] = "granted" \/ deliv[d].phase = "reading" => deliv[d].late = 0
        /\ deliv[d].late <= 1

LEMMA LateStep ==
    ASSUME TypeOK, LateBounded, [Next]_vars
    PROVE  LateBounded'
  <1> USE DEF LateBounded
  <1>0. /\ deliv \in [Delivery -> DeliveryState]
        /\ access \in [Principal -> {"granted", "revoked", "outage"}]
        /\ \A d \in Delivery : deliv[d] \in DeliveryState /\ Owner[d[1]] \in Principal
    BY ConstantsAssumption DEF TypeOK, DeliveryType, WorldType, Delivery
  <1>1. CASE deliv' = deliv /\ access' = access
    BY <1>1
  <1>2. CASE (\E r \in Request : UnsubscribeCommits(r)) \/ Stop
    <2>1. access' = access
      BY <1>2 DEF UnsubscribeCommits, Stop, world
    <2>2. \A d \in Delivery : \/ deliv'[d] = deliv[d]
                              \/ deliv'[d] = [deliv[d] EXCEPT !.aborted = TRUE]
      BY <1>2 DEF UnsubscribeCommits, Stop
    <2>3. \A d \in Delivery : deliv'[d].phase = deliv[d].phase /\ deliv'[d].late = deliv[d].late
      BY <1>0, <2>2 DEF DeliveryState
    <2> QED
      BY <2>1, <2>3
  <1>3. ASSUME NEW s \in Source, PollFetches(s) PROVE LateBounded'
    <2>1. access' = access
      BY <1>3 DEF PollFetches, world
    <2>2. \A d \in Delivery : deliv'[d] = deliv[d] \/ deliv'[d].late = 0
      BY <1>3 DEF PollFetches, NoDelivery
    <2> QED
      BY <2>1, <2>2
  <1>4. ASSUME NEW d \in Delivery, DeliveryStep(d) PROVE LateBounded'
    <2>1. access' = access /\ \A e \in Delivery \ {d} : deliv'[e] = deliv[e]
      BY <1>0, <1>4 DEF DeliveryStep, AttemptAuthorized, AttemptPosts, PostSettles, PostGone,
         PostTransient, Wakes, EndDelivery, world
    <2>2. SUFFICES /\ access[Owner[d[1]]] = "granted" \/ deliv'[d].phase = "reading"
                          => deliv'[d].late = 0
                   /\ deliv'[d].late <= 1
      BY <2>1
    <2>3. ASSUME NEW how, EndDelivery(d, how) PROVE deliv'[d].late = 0
      BY <1>0, <2>3 DEF EndDelivery, NoDelivery
    <2>4. CASE AttemptAuthorized(d)
      <3>1. \/ deliv'[d].late = 0
            \/ access[Owner[d[1]]] = "granted" /\ deliv'[d].late = deliv[d].late
        BY <1>0, <2>3, <2>4 DEF AttemptAuthorized, DeliveryState
      <3> QED
        BY <3>1
    <2>5. CASE AttemptPosts(d)
      <3>1. deliv[d].phase = "reading"
        BY <2>5 DEF AttemptPosts
      <3>2. deliv[d].late = 0
        BY <3>1
      <3>3. CASE EndDelivery(d, "ended")
        BY <2>3, <3>3
      <3>4. CASE ~ EndDelivery(d, "ended")
        <4>1. /\ deliv'[d].phase = "posting"
              /\ deliv'[d].late = IF access[Owner[d[1]]] # "granted" THEN deliv[d].late + 1 ELSE 0
          BY <1>0, <2>5, <3>4 DEF AttemptPosts, DeliveryState
        <4> QED
          BY <3>2, <4>1
      <3> QED
        BY <3>3, <3>4
    <2>6. CASE PostSettles(d) \/ PostGone(d)
      BY <2>3, <2>6 DEF PostSettles, PostGone
    <2>7. CASE PostTransient(d)
      <3>1. \/ EndDelivery(d, "ended")
            \/ deliv' = [deliv EXCEPT ![d] = [@ EXCEPT !.phase = "sleeping", !.keys = {}]]
        BY <2>7 DEF PostTransient
      <3>2. LET next == [deliv[d] EXCEPT !.phase = "sleeping", !.keys = {}]
            IN  next.phase = "sleeping" /\ next.late = deliv[d].late
        BY <1>0 DEF DeliveryState
      <3>3. \/ deliv'[d].late = 0
            \/ deliv'[d].phase = "sleeping" /\ deliv'[d].late = deliv[d].late
        BY <1>0, <2>3, <3>1, <3>2
      <3> QED
        BY <3>3
    <2>8. CASE Wakes(d)
      <3>1. EndDelivery(d, "ended") \/ deliv' = [deliv EXCEPT ![d] = Retry(d)]
        BY <2>8 DEF Wakes
      <3>2. Retry(d).phase = "authorizing" /\ Retry(d).late = deliv[d].late
        BY <1>0 DEF Retry, DeliveryState
      <3>3. \/ deliv'[d].late = 0
            \/ deliv'[d].phase = "authorizing" /\ deliv'[d].late = deliv[d].late
        BY <1>0, <2>3, <3>1, <3>2
      <3> QED
        BY <3>3
    <2> QED
      BY <1>4, <2>4, <2>5, <2>6, <2>7, <2>8 DEF DeliveryStep
  <1>5. CASE GoDown
    BY <1>5 DEF GoDown, NoDelivery
  <1>6. ASSUME NEW p \in Principal, NEW answer \in {"granted", "revoked", "outage"},
               AccessChanges(p, answer)
        PROVE  LateBounded'
    <2>1. access' = [access EXCEPT ![p] = answer]
      BY <1>6 DEF AccessChanges
    <2>2. \A d \in Delivery :
             IF answer = "granted" /\ Owner[d[1]] = p
             THEN deliv'[d].late = 0
             ELSE deliv'[d] = deliv[d]
      BY <1>0, <1>6 DEF AccessChanges, DeliveryState
    <2> QED
      BY <1>0, <2>1, <2>2
  <1> QED
    BY <1>1, <1>2, <1>3, <1>4, <1>5, <1>6, DeliveryChanges

\* Once access is withdrawn, a delivery sends at most the one POST whose check
\* had passed: every retry starts from the check (deliverWhileActive).
THEOREM OnePostAfterRevocation == Spec => []OnePostPastRevocation
  <1>1. Init => LateBounded
    BY DEF Init, LateBounded, NoDelivery
  <1>2. TypeOK /\ LateBounded /\ [Next]_vars => LateBounded'
    BY LateStep
  <1>3. LateBounded => OnePostPastRevocation
    BY DEF LateBounded, OnePostPastRevocation
  <1> QED
    BY <1>1, <1>2, <1>3, TypeCorrect, PTL DEF Spec

-----------------------------------------------------------------------------
(* Unsubscribing *)

\* A step that ends no wait of an unsubscribe and begins no POST.
Calm ==
    /\ cut' = cut
    /\ \A r \in Request : req[r].phase = "joining" => req'[r] = req[r]
    /\ \A d \in Delivery : deliv'[d].phase = "posting" => deliv[d].phase = "posting"

LEMMA CalmSteps ==
    ASSUME TypeOK, [Next]_vars
    PROVE  \/ Calm
           \/ \E r \in Request : \/ SubscribeCommits(r) \/ UnsubscribeCommits(r)
                                 \/ UnsubscribeReturns(r)
           \/ \E d \in Delivery : AttemptPosts(d)
           \/ GoDown
  <1> USE DEF store, runtime, world, history
  <1>0. /\ deliv \in [Delivery -> DeliveryState] /\ req \in [Request -> RequestState]
        /\ \A d \in Delivery : deliv[d] \in DeliveryState
    BY DEF TypeOK, DeliveryType, CallType
  <1>1. CASE UNCHANGED vars
    BY <1>1 DEF vars, Calm
  <1>2. ASSUME NEW r \in Request, NEW id \in Id,
               \/ \E secret \in Secret, ttl \in Ttls : SubscribeCall(r, id, secret, ttl)
               \/ UnsubscribeCall(r, id)
        PROVE  Calm
    <2>1. cut' = cut /\ deliv' = deliv
      BY <1>2 DEF SubscribeCall, UnsubscribeCall
    <2>2. req[r].phase = "idle" /\ \A q \in Request \ {r} : req'[q] = req[q]
      BY <1>0, <1>2 DEF SubscribeCall, UnsubscribeCall
    <2> QED
      BY <2>1, <2>2 DEF Calm
  <1>3. ASSUME NEW r \in Request, SubscribeAuthorized(r) \/ ChallengeEchoed(r) \/ ChallengeFails(r)
               \/ SubscribeRefused(r) \/ UnsubscribeFails(r)
        PROVE  Calm
    <2>1. cut' = cut /\ deliv' = deliv
      BY <1>3 DEF SubscribeAuthorized, ChallengeEchoed, ChallengeFails, SubscribeRefused,
         UnsubscribeFails
    <2>2. req[r].phase # "joining" /\ \A q \in Request \ {r} : req'[q] = req[q]
      BY <1>0, <1>3 DEF SubscribeAuthorized, ChallengeEchoed, ChallengeFails, SubscribeRefused,
         UnsubscribeFails, Reject
    <2> QED
      BY <2>1, <2>2 DEF Calm
  <1>4. ASSUME PollTimer \/ PollBegins \/ PollFails \/ PollGroups \/ PollEnds
        PROVE  Calm
    BY <1>4 DEF PollTimer, PollBegins, PollFails, PollGroups, PollEnds, Calm
  <1>5. ASSUME NEW id \in Id, PollAuthorizes(id) PROVE Calm
    BY <1>5 DEF PollAuthorizes, Calm
  <1>6. ASSUME NEW s \in Source, PollFetchFails(s) PROVE Calm
    BY <1>6 DEF PollFetchFails, Calm
  <1>7. ASSUME NEW s \in Source, PollFetches(s) PROVE Calm
    <2>1. cut' = cut /\ req' = req
      BY <1>7 DEF PollFetches
    <2>2. \A d \in Delivery : deliv'[d] = deliv[d] \/ deliv'[d].phase = "authorizing"
      BY <1>7 DEF PollFetches, NoDelivery
    <2> QED
      BY <2>1, <2>2 DEF Calm
  <1>8. ASSUME NEW d \in Delivery, AttemptAuthorized(d) \/ PostSettles(d) \/ PostGone(d)
               \/ PostTransient(d) \/ Wakes(d)
        PROVE  Calm
    <2>1. cut' = cut /\ req' = req
      BY <1>8 DEF AttemptAuthorized, PostSettles, PostGone, PostTransient, Wakes
    <2>2. \E next : deliv' = [deliv EXCEPT ![d] = next] /\ next.phase # "posting"
      <3>1. NoDelivery.phase = "none" /\ Retry(d).phase = "authorizing"
        BY <1>0 DEF NoDelivery, Retry, DeliveryState
      <3>2. /\ [deliv[d] EXCEPT !.phase = "reading"].phase = "reading"
            /\ [deliv[d] EXCEPT !.phase = "sleeping", !.keys = {}].phase = "sleeping"
        BY <1>0 DEF DeliveryState
      <3>3. \E next \in {NoDelivery, Retry(d), [deliv[d] EXCEPT !.phase = "reading"],
                         [deliv[d] EXCEPT !.phase = "sleeping", !.keys = {}]} :
               deliv' = [deliv EXCEPT ![d] = next]
        BY <1>8 DEF AttemptAuthorized, PostSettles, PostGone, PostTransient, Wakes, EndDelivery
      <3> QED
        BY <3>1, <3>2, <3>3
    <2> QED
      BY <1>0, <2>1, <2>2 DEF Calm
  <1>9. ASSUME Start \/ Tick \/ \E t \in Trace : Arrives(t)
        PROVE  Calm
    BY <1>9 DEF Start, Tick, Arrives, Calm
  <1>10. ASSUME Stop PROVE Calm
    <2>1. cut' = cut /\ req' = req
      BY <1>10 DEF Stop
    <2>2. \A d \in Delivery : \/ deliv'[d] = deliv[d]
                              \/ deliv'[d] = [deliv[d] EXCEPT !.aborted = TRUE]
      BY <1>10 DEF Stop
    <2>3. \A d \in Delivery : deliv'[d].phase = deliv[d].phase
      BY <1>0, <2>2 DEF DeliveryState
    <2> QED
      BY <2>1, <2>3 DEF Calm
  <1>11. ASSUME NEW p \in Principal, NEW answer \in {"granted", "revoked", "outage"},
                AccessChanges(p, answer)
         PROVE  Calm
    <2>1. cut' = cut /\ req' = req
      BY <1>11 DEF AccessChanges
    <2>2. \A d \in Delivery : \/ deliv'[d] = deliv[d]
                              \/ deliv'[d] = [deliv[d] EXCEPT !.late = 0]
      BY <1>11 DEF AccessChanges
    <2>3. \A d \in Delivery : deliv'[d].phase = deliv[d].phase
      BY <1>0, <2>2 DEF DeliveryState
    <2> QED
      BY <2>1, <2>3 DEF Calm
  <1> QED
    BY <1>1, <1>2, <1>3, <1>4, <1>5, <1>6, <1>7, <1>8, <1>9, <1>10, <1>11
    DEF Next, Handler, PollStep, DeliveryStep, Exit, Crash

\* An unsubscribed id has no record, and a POST still in flight for it is one
\* that some unsubscribe call waits for.
PostsAreJoined ==
    /\ \A id \in cut : subs[id] = None
    /\ \A id \in cut, t \in Trace :
          deliv[<<id, t>>].phase = "posting" =>
             \E r \in Request : req[r].phase = "joining" /\ req[r].id = id /\ t \in req[r].joins

LEMMA JoinStep ==
    ASSUME TypeOK, PostsAreJoined, [Next]_vars
    PROVE  PostsAreJoined'
  <1> USE DEF PostsAreJoined
  <1>0. /\ deliv \in [Delivery -> DeliveryState] /\ req \in [Request -> RequestState]
        /\ subs \in [Id -> {None} \cup Sub] /\ cut \subseteq Id
        /\ \A id \in Id, t \in Trace : <<id, t>> \in Delivery
        /\ \A d \in Delivery : d[1] \in Id /\ d[2] \in Trace /\ d = <<d[1], d[2]>>
    BY DEF TypeOK, DeliveryType, CallType, StoreType, HistoryType, Delivery
  <1>a. \A d \in Delivery : deliv[d] \in DeliveryState
    BY DEF TypeOK, DeliveryType
  <1>1. ASSUME Calm, \A r \in Request : ~ SubscribeCommits(r)
        PROVE  PostsAreJoined'
    <2>1. Shrinks
      BY <1>1, DocumentStep
    <2> QED
      BY <1>0, <1>1, <2>1 DEF Calm, Shrinks
  <1>2. ASSUME NEW r \in Request, SubscribeCommits(r)
        PROVE  PostsAreJoined'
    <2>1. cut' = cut \ {req[r].id} /\ deliv' = deliv /\ req[r].phase = "committing"
      BY <1>2 DEF SubscribeCommits
    <2>2. \A q \in Request \ {r} : req'[q] = req[q]
      BY <1>0, <1>2 DEF SubscribeCommits, Reject
    <2>3. subs' = [Prune(subs) EXCEPT ![req[r].id] =
                      Renewed(Prune(subs)[req[r].id], req[r].secret, req[r].ttl)]
      BY <1>2 DEF SubscribeCommits
    <2>4. \A i \in Id \ {req[r].id} : subs[i] = None => subs'[i] = None
      BY <1>0, <2>3 DEF Prune, Live
    <2> QED
      BY <1>0, <2>1, <2>2, <2>4
  <1>3. ASSUME NEW r \in Request, UnsubscribeCommits(r)
        PROVE  PostsAreJoined'
    <2> DEFINE id == req[r].id
    <2>0. id \in Id /\ req[r].phase = "removing" /\ req[r] \in RequestState
      BY <1>0, <1>3 DEF UnsubscribeCommits, RequestState
    <2>1. cut' = cut \cup {id} /\ subs' = Remove(subs, id)
      BY <1>3 DEF UnsubscribeCommits
    <2>2. \A d \in Delivery : \/ deliv'[d] = deliv[d]
                              \/ deliv'[d] = [deliv[d] EXCEPT !.aborted = TRUE]
      BY <1>3 DEF UnsubscribeCommits
    <2>3. \A d \in Delivery : deliv'[d].phase = deliv[d].phase
      <3> HIDE DEF PostsAreJoined
      <3> QED
        BY <1>a, <2>2 DEF DeliveryState
    <2>4. req' = [req EXCEPT ![r] = [@ EXCEPT !.phase = "joining", !.joins = Joined(id)]]
      BY <1>3 DEF UnsubscribeCommits
    <2>5. /\ \A q \in Request \ {r} : req'[q] = req[q]
          /\ req'[r].phase = "joining" /\ req'[r].id = id /\ req'[r].joins = Joined(id)
      BY <1>0, <2>0, <2>4 DEF RequestState
    <2>6. \A i \in cut' : subs'[i] = None
      BY <1>0, <2>0, <2>1 DEF Remove
    <2>7. ASSUME NEW i \in cut', NEW t \in Trace, deliv'[<<i, t>>].phase = "posting"
          PROVE  \E q \in Request : /\ req'[q].phase = "joining" /\ req'[q].id = i
                                    /\ t \in req'[q].joins
      <3>1. i \in Id /\ deliv[<<i, t>>].phase = "posting"
        BY <1>0, <2>0, <2>1, <2>3, <2>7
      <3>2. CASE i = id
        BY <2>5, <3>1, <3>2 DEF Joined, Active
      <3>3. CASE i # id
        <4>1. i \in cut
          BY <2>1, <3>3
        <4>2. PICK q \in Request : req[q].phase = "joining" /\ req[q].id = i /\ t \in req[q].joins
          BY <3>1, <4>1
        <4> QED
          BY <2>0, <2>5, <4>2
      <3> QED
        BY <3>2, <3>3
    <2> QED
      BY <2>6, <2>7
  <1>4. ASSUME NEW r \in Request, UnsubscribeReturns(r)
        PROVE  PostsAreJoined'
    <2>1. /\ cut' = cut /\ subs' = subs /\ deliv' = deliv
          /\ \A t \in req[r].joins : deliv[<<req[r].id, t>>].phase = "none"
      BY <1>4 DEF UnsubscribeReturns, Active, store, history
    <2>2. \A q \in Request \ {r} : req'[q] = req[q]
      BY <1>0, <1>4 DEF UnsubscribeReturns, Reject
    <2> QED
      BY <2>1, <2>2
  <1>5. ASSUME NEW d \in Delivery, AttemptPosts(d)
        PROVE  PostsAreJoined'
    <2>1. cut' = cut /\ subs' = subs /\ req' = req
      BY <1>5 DEF AttemptPosts, store
    <2>2. \A e \in Delivery \ {d} : deliv'[e] = deliv[e]
      BY <1>0, <1>5 DEF AttemptPosts, EndDelivery
    <2>3. deliv'[d].phase = "posting" => d[1] \notin cut
      <3>1. CASE EndDelivery(d, "ended")
        BY <1>0, <3>1 DEF EndDelivery, NoDelivery
      <3>2. CASE ~ EndDelivery(d, "ended")
        BY <1>5, <3>2 DEF AttemptPosts, Live
      <3> QED
        BY <3>1, <3>2
    <2> QED
      BY <1>0, <2>1, <2>2, <2>3
  <1>6. CASE GoDown
    <2>1. cut' = cut /\ subs' = subs /\ \A d \in Delivery : deliv'[d].phase = "none"
      BY <1>6 DEF GoDown, NoDelivery, store
    <2> QED
      BY <1>0, <2>1
  <1> QED
    BY <1>1, <1>2, <1>3, <1>4, <1>5, <1>6, CalmSteps

\* When the unsubscribe calls for an id have returned, no POST for it is in
\* flight until it is subscribed again (unsubscribe, deliverWhileActive).
THEOREM UnsubscribeIsQuiet == Spec => []QuietAfterUnsubscribe
  <1>1. Init => PostsAreJoined
    BY DEF Init, PostsAreJoined
  <1>2. TypeOK /\ PostsAreJoined /\ [Next]_vars => PostsAreJoined'
    BY JoinStep
  <1>3. PostsAreJoined => QuietAfterUnsubscribe
    BY DEF PostsAreJoined, QuietAfterUnsubscribe
  <1> QED
    BY <1>1, <1>2, <1>3, TypeCorrect, PTL DEF Spec

-----------------------------------------------------------------------------
(* The interval and stop() *)

\* How a step may change the interval: a subscribe arms it, an empty poll
\* clears it, most steps leave it alone; only three steps change the process.
LEMMA ArmedStep ==
    ASSUME TypeOK, [Next]_vars
    PROVE  \/ proc' = proc /\ armed' = armed /\ \A r \in Request : ~ SubscribeCommits(r)
           \/ proc' = proc /\ armed' = (armed \/ proc = "up")
           \/ proc' = proc /\ armed' = (armed /\ \E id \in Id : subs'[id] # None)
           \/ Start \/ Stop \/ GoDown
  <1> USE DEF store, runtime, world, history
  <1> DEFINE
      Same == proc' = proc /\ armed' = armed
      Goal == \/ Same /\ \A r \in Request : ~ SubscribeCommits(r)
              \/ proc' = proc /\ armed' = (armed \/ proc = "up")
              \/ proc' = proc /\ armed' = (armed /\ \E id \in Id : subs'[id] # None)
              \/ Start \/ Stop \/ GoDown
  <1>1. ASSUME NEW r \in Request, SubscribeCommits(r)
        PROVE  proc' = proc /\ armed' = (armed \/ proc = "up")
    BY <1>1 DEF SubscribeCommits, EnsurePolling
  <1>2. ASSUME PollBegins
        PROVE  proc' = proc /\ armed' = (armed /\ \E id \in Id : subs'[id] # None)
    BY <1>2 DEF PollBegins, StaysArmed, Stored
  <1>3. ASSUME UNCHANGED vars PROVE Same
    BY <1>3 DEF vars
  <1>4. ASSUME NEW r \in Request, NEW id \in Id,
               \/ \E secret \in Secret, ttl \in Ttls : SubscribeCall(r, id, secret, ttl)
               \/ UnsubscribeCall(r, id)
        PROVE  Same
    BY <1>4 DEF SubscribeCall, UnsubscribeCall
  <1>5. ASSUME NEW r \in Request, Handler(r), ~ SubscribeCommits(r) PROVE Same
    BY <1>5 DEF Handler, SubscribeAuthorized, ChallengeEchoed, ChallengeFails, SubscribeRefused,
       UnsubscribeCommits, UnsubscribeFails, UnsubscribeReturns
  <1>6. ASSUME PollTimer \/ PollStep, ~ PollBegins PROVE Same
    BY <1>6 DEF PollStep, PollTimer, PollFails, PollGroups, PollEnds, PollAuthorizes,
       PollFetches, PollFetchFails
  <1>7. ASSUME NEW d \in Delivery, DeliveryStep(d) PROVE Same
    BY <1>7 DEF DeliveryStep, AttemptAuthorized, AttemptPosts, PostSettles, PostGone,
       PostTransient, Wakes
  <1>8. ASSUME \/ Tick \/ \E t \in Trace : Arrives(t)
               \/ \E p \in Principal, answer \in {"granted", "revoked", "outage"} :
                     AccessChanges(p, answer)
        PROVE  Same
    BY <1>8 DEF Tick, Arrives, AccessChanges
  <1>9. ASSUME Same PROVE Goal
    BY <1>1, <1>9
  <1>10. \A r \in Request : SubscribeCommits(r) => Goal
    BY <1>1
  <1>11. GoDown \/ Start \/ Stop \/ PollBegins => Goal
    BY <1>2
  <1> HIDE DEF Same, Goal
  <1>12. Goal
    BY <1>3, <1>4, <1>5, <1>6, <1>7, <1>8, <1>9, <1>10, <1>11 DEF Next, Exit, Crash
  <1> QED
    BY <1>12 DEF Same, Goal

\* A running server with a stored subscription always has its interval armed:
\* no interleaving of subscribes, expiries, removals and polls leaves a record
\* without a poller (subscribe, ensurePolling, pollOnce).
THEOREM PollerStaysArmed == Spec => []PollerArmed
  <1>1. Init => PollerArmed
    BY DEF Init, PollerArmed
  <1>2. ASSUME TypeOK, PollerArmed, [Next]_vars
        PROVE  PollerArmed'
    <2>1. CASE proc' = proc /\ armed' = armed /\ \A r \in Request : ~ SubscribeCommits(r)
      <3>1. Shrinks
        BY <1>2, <2>1, DocumentStep
      <3> QED
        BY <1>2, <2>1, <3>1 DEF PollerArmed, Shrinks
    <2>2. CASE proc' = proc /\ armed' = (armed \/ proc = "up")
      BY <2>2 DEF PollerArmed
    <2>3. CASE proc' = proc /\ armed' = (armed /\ \E id \in Id : subs'[id] # None)
      <3>1. \A r \in Request : SubscribeCommits(r) => armed' = (armed \/ proc = "up")
        BY DEF SubscribeCommits, EnsurePolling
      <3>2. CASE \A r \in Request : ~ SubscribeCommits(r)
        <4>1. Shrinks
          BY <1>2, <3>2, DocumentStep
        <4> QED
          BY <1>2, <2>3, <4>1 DEF PollerArmed, Shrinks
      <3> QED
        BY <2>3, <3>1, <3>2 DEF PollerArmed
    <2>4. CASE Start
      BY <2>4 DEF PollerArmed, Start, Stored
    <2>5. CASE Stop \/ GoDown
      BY <2>5 DEF PollerArmed, Stop, GoDown
    <2> QED
      BY <1>2, <2>1, <2>2, <2>3, <2>4, <2>5, ArmedStep
  <1> QED
    BY <1>1, <1>2, TypeCorrect, PTL DEF Spec

\* How a step that does not end the process may change one delivery: it stays,
\* it ends, it is aborted, it goes on without losing its abort, or a running
\* server starts it.
LEMMA AbortKept ==
    ASSUME TypeOK, [Next]_vars, proc = "stopping", proc' = "stopping"
    PROVE  \A d \in Delivery :
              deliv'[d].phase # "none" =>
                 deliv[d].phase # "none" /\ (deliv[d].aborted => deliv'[d].aborted)
  <1> USE DEF store, runtime, world, history
  <1> DEFINE Kept == \A d \in Delivery :
              deliv'[d].phase # "none" =>
                 deliv[d].phase # "none" /\ (deliv[d].aborted => deliv'[d].aborted)
  <1>0. deliv \in [Delivery -> DeliveryState] /\ \A d \in Delivery : deliv[d] \in DeliveryState
    BY DEF TypeOK, DeliveryType
  <1>1. deliv' = deliv => Kept
    OBVIOUS
  <1>2. ASSUME NEW r \in Request, UnsubscribeCommits(r) PROVE Kept
    <2>1. \A d \in Delivery : \/ deliv'[d] = deliv[d]
                              \/ deliv'[d] = [deliv[d] EXCEPT !.aborted = TRUE] /\ Active(d)
      BY <1>2 DEF UnsubscribeCommits, DeliveriesOf
    <2> QED
      BY <1>0, <2>1 DEF DeliveryState, Active
  <1>3. ASSUME NEW s \in Source, PollFetches(s) PROVE Kept
    <2>1. deliv' = [d \in Delivery |-> deliv[d]]
      BY <1>3 DEF PollFetches, MayStart
    <2> QED
      BY <2>1
  <1>4. ASSUME NEW e \in Delivery, DeliveryStep(e) PROVE Kept
    <2>1. NoDelivery.phase = "none"
      BY DEF NoDelivery
    <2>2. \E next : /\ deliv' = [deliv EXCEPT ![e] = next]
                    /\ next.phase # "none" => next.aborted = deliv[e].aborted
                    /\ deliv[e].phase # "none"
      <3>1. CASE EndDelivery(e, "ended") \/ EndDelivery(e, "suspended")
        BY <1>4, <2>1, <3>1 DEF EndDelivery, DeliveryStep, AttemptAuthorized, AttemptPosts,
           PostSettles, PostGone, PostTransient, Wakes, SleepEnds
      <3>2. CASE deliv[e].phase = "authorizing" /\ deliv' = [deliv EXCEPT ![e].phase = "reading"]
        BY <1>0, <3>2 DEF DeliveryState
      <3>3. CASE AttemptPosts(e) /\ ~ EndDelivery(e, "ended")
        BY <1>0, <3>3 DEF AttemptPosts, DeliveryState
      <3>4. CASE /\ deliv[e].phase = "posting"
                 /\ deliv' = [deliv EXCEPT ![e].phase = "sleeping", ![e].keys = {}]
        BY <1>0, <3>4 DEF DeliveryState
      <3>5. CASE deliv[e].phase = "sleeping" /\ deliv' = [deliv EXCEPT ![e] = Retry(e)]
        BY <1>0, <3>5 DEF Retry, DeliveryState
      <3> QED
        BY <1>4, <3>1, <3>2, <3>3, <3>4, <3>5 DEF DeliveryStep, AttemptAuthorized, PostSettles,
           PostGone, PostTransient, Wakes, SleepEnds
    <2> QED
      BY <1>0, <2>2
  <1>5. ASSUME NEW p \in Principal, NEW answer \in {"granted", "revoked", "outage"},
               AccessChanges(p, answer)
        PROVE  Kept
    <2>1. \A d \in Delivery : \/ deliv'[d] = deliv[d]
                              \/ deliv'[d] = [deliv[d] EXCEPT !.late = 0]
      BY <1>5 DEF AccessChanges
    <2> QED
      BY <1>0, <2>1 DEF DeliveryState
  <1>6. ASSUME NEW r \in Request, Handler(r), ~ UnsubscribeCommits(r) PROVE deliv' = deliv
    BY <1>6 DEF Handler, SubscribeAuthorized, ChallengeEchoed, ChallengeFails, SubscribeCommits,
       SubscribeRefused, UnsubscribeFails, UnsubscribeReturns
  <1>7. ASSUME PollTimer \/ PollStep, \A s \in Source : ~ PollFetches(s) PROVE deliv' = deliv
    BY <1>7 DEF PollStep, PollTimer, PollBegins, PollFails, PollGroups, PollEnds, PollAuthorizes,
       PollFetchFails
  <1>8. ASSUME \/ UNCHANGED vars \/ Tick \/ \E t \in Trace : Arrives(t)
               \/ \E r \in Request, id \in Id :
                     \/ \E secret \in Secret, ttl \in Ttls : SubscribeCall(r, id, secret, ttl)
                     \/ UnsubscribeCall(r, id)
        PROVE  deliv' = deliv
    BY <1>8 DEF Tick, Arrives, SubscribeCall, UnsubscribeCall, vars
  <1>9. ~ Start /\ ~ Stop /\ ~ Exit /\ ~ Crash
    BY DEF Start, Stop, Exit, Crash, GoDown
  <1> HIDE DEF Kept
  <1>10. Kept
    BY <1>1, <1>2, <1>3, <1>4, <1>5, <1>6, <1>7, <1>8, <1>9 DEF Next
  <1> QED
    BY <1>10 DEF Kept

\* After stop() the interval is clear and every delivery still running has its
\* abort signal set, those of a poll that stop() met half-way included (stop,
\* deliver).
THEOREM StopReachesAll == Spec => []StopReachesDeliveries
  <1>1. Init => StopReachesDeliveries
    BY DEF Init, StopReachesDeliveries
  <1>2. ASSUME TypeOK, StopReachesDeliveries, [Next]_vars
        PROVE  StopReachesDeliveries'
    <2> SUFFICES ASSUME proc' = "stopping"
                 PROVE  ~ armed' /\ \A d \in Delivery : Active(d)' => deliv'[d].aborted
      BY DEF StopReachesDeliveries
    <2>1. CASE proc = "stopping"
      <3>1. ~ armed'
        BY <1>2, <2>1, ArmedStep DEF StopReachesDeliveries, Start, Stop, GoDown
      <3> QED
        BY <1>2, <2>1, <3>1, AbortKept DEF StopReachesDeliveries, Active
    <2>2. CASE proc # "stopping"
      <3>1. Stop
        BY <1>2, <2>2, ArmedStep DEF Start, GoDown
      <3>2. \A d \in Delivery : deliv[d] \in DeliveryState
        BY <1>2 DEF TypeOK, DeliveryType
      <3> QED
        BY <3>1, <3>2 DEF Stop, Active, DeliveryState
    <2> QED
      BY <2>1, <2>2
  <1> QED
    BY <1>1, <1>2, TypeCorrect, PTL DEF Spec

=============================================================================
