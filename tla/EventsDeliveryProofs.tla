------------------------- MODULE EventsDeliveryProofs -------------------------
(***************************************************************************)
(* What EventsRuntime promises of each delivery, proved for every number   *)
(* of subscriptions, callers and traces: no trace is delivered twice, none *)
(* from before the process started, and none to an unverified callback; a  *)
(* secret is handed over, never dropped, and a baseline is never lost.     *)
(***************************************************************************)
EXTENDS EventsRuntimeProofs

\* Baselines move in few ways: a fetch extends them, an empty poll, the end of
\* a record or the end of the process forgets them.
LEMMA SeenChanges ==
    ASSUME TypeOK, [Next]_vars, NEW id \in Id
    PROVE  \/ seen'[id] = seen[id]
           \/ seen'[id] = None /\ (\/ PollBegins \/ GoDown
                                   \/ id \notin poll.snapshot)
           \/ \E s \in Source : PollFetches(s) /\ id \in Group(s) /\ seen'[id] = SeenAfter(id, s)
  <1> USE DEF store, runtime, world, history
  <1>1. CASE PollBegins
    BY <1>1 DEF PollBegins
  <1>2. CASE PollGroups
    BY <1>2 DEF PollGroups, Retained
  <1>3. ASSUME NEW s \in Source, PollFetches(s)
        PROVE  seen'[id] = seen[id] \/ (id \in Group(s) /\ seen'[id] = SeenAfter(id, s))
    BY <1>3 DEF PollFetches
  <1>4. CASE GoDown
    BY <1>4 DEF GoDown
  <1>5. ASSUME \/ PollTimer \/ PollFails \/ PollEnds
               \/ \E i \in Id : PollAuthorizes(i)
               \/ \E s \in Source : PollFetchFails(s)
        PROVE  seen' = seen
    BY <1>5 DEF PollTimer, PollFails, PollEnds, PollAuthorizes, PollFetchFails
  <1>6. ASSUME NEW r \in Request, Handler(r)
        PROVE  seen' = seen
    BY <1>6 DEF Handler, SubscribeAuthorized, ChallengeEchoed, ChallengeFails, SubscribeCommits,
       SubscribeRefused, UnsubscribeCommits, UnsubscribeFails, UnsubscribeReturns
  <1>7. ASSUME NEW d \in Delivery, DeliveryStep(d)
        PROVE  seen' = seen
    BY <1>7 DEF DeliveryStep, AttemptAuthorized, AttemptPosts, PostSettles, PostGone,
       PostTransient, Wakes
  <1>8. ASSUME \/ UNCHANGED vars \/ Start \/ Stop \/ Tick \/ \E t \in Trace : Arrives(t)
               \/ \E p \in Principal, answer \in {"granted", "revoked", "outage"} :
                     AccessChanges(p, answer)
               \/ \E r \in Request, i \in Id :
                     \/ \E secret \in Secret, ttl \in Ttls : SubscribeCall(r, i, secret, ttl)
                     \/ UnsubscribeCall(r, i)
        PROVE  seen' = seen
    BY <1>8 DEF Start, Stop, Tick, Arrives, AccessChanges, SubscribeCall, UnsubscribeCall, vars
  <1> QED
    BY <1>1, <1>2, <1>3, <1>4, <1>5, <1>6, <1>7, <1>8 DEF Next, PollStep, Exit, Crash

\* A delivery starts only in a fetch to which it is new; otherwise it goes on
\* or ends, and its fate never becomes "new" again.
LEMMA DeliveryLife ==
    ASSUME TypeOK, [Next]_vars, NEW d \in Delivery
    PROVE  \/ /\ Active(d)' => Active(d)
              /\ fate'[d] = fate[d] \/ (Active(d) /\ fate'[d] # "new")
           \/ \E s \in Source : PollFetches(s) /\ d \in Fresh(s) /\ fate'[d] # "new"
  <1> USE DEF store, runtime, world, history
  <1> DEFINE GoesOn == /\ Active(d)' => Active(d)
                       /\ fate'[d] = fate[d] \/ (Active(d) /\ fate'[d] # "new")
  <1>0. /\ \A e \in Delivery : deliv[e] \in DeliveryState
        /\ deliv \in [Delivery -> DeliveryState] /\ fate = [e \in Delivery |-> fate[e]]
    BY DEF TypeOK, DeliveryType
  <1>1. ASSUME deliv' = deliv, fate' = fate PROVE GoesOn
    BY <1>1 DEF Active
  <1>2. ASSUME NEW r \in Request, UnsubscribeCommits(r) PROVE GoesOn
    <2>1. fate' = fate /\ \/ deliv'[d] = deliv[d]
                          \/ deliv'[d] = [deliv[d] EXCEPT !.aborted = TRUE]
      BY <1>2 DEF UnsubscribeCommits
    <2> QED
      BY <1>0, <2>1 DEF DeliveryState, Active
  <1>3. ASSUME NEW s \in Source, PollFetches(s)
        PROVE  GoesOn \/ (d \in Fresh(s) /\ fate'[d] # "new")
    BY <1>0, <1>3 DEF PollFetches, Active
  <1>4. ASSUME NEW e \in Delivery, DeliveryStep(e) PROVE GoesOn
    <2>1. /\ Active(e)
          /\ \E next : deliv' = [deliv EXCEPT ![e] = next]
          /\ fate' = fate \/ \E how \in {"ended", "suspended"} : fate' = [fate EXCEPT ![e] = how]
      BY <1>4 DEF DeliveryStep, AttemptAuthorized, AttemptPosts, PostSettles, PostGone,
         PostTransient, Wakes, SleepEnds, EndDelivery, Active
    <2>2. CASE d = e
      BY <1>0, <2>1, <2>2
    <2>3. CASE d # e
      BY <1>0, <2>1, <2>3 DEF Active
    <2> QED
      BY <2>2, <2>3
  <1>5. ASSUME Stop PROVE GoesOn
    <2>1. fate' = fate /\ \/ deliv'[d] = deliv[d]
                          \/ deliv'[d] = [deliv[d] EXCEPT !.aborted = TRUE]
      BY <1>5 DEF Stop
    <2> QED
      BY <1>0, <2>1 DEF DeliveryState, Active
  <1>6. ASSUME GoDown PROVE GoesOn
    BY <1>6 DEF GoDown, Active, NoDelivery
  <1>7. ASSUME NEW p \in Principal, NEW answer \in {"granted", "revoked", "outage"},
               AccessChanges(p, answer)
        PROVE  GoesOn
    <2>1. fate' = fate /\ \/ deliv'[d] = deliv[d]
                          \/ deliv'[d] = [deliv[d] EXCEPT !.late = 0]
      BY <1>7 DEF AccessChanges
    <2> QED
      BY <1>0, <2>1 DEF DeliveryState, Active
  <1>8. ASSUME NEW r \in Request, Handler(r), ~ UnsubscribeCommits(r)
        PROVE  deliv' = deliv /\ fate' = fate
    BY <1>8 DEF Handler, SubscribeAuthorized, ChallengeEchoed, ChallengeFails, SubscribeCommits,
       SubscribeRefused, UnsubscribeFails, UnsubscribeReturns
  <1>9. ASSUME PollTimer \/ PollStep, \A s \in Source : ~ PollFetches(s)
        PROVE  deliv' = deliv /\ fate' = fate
    BY <1>9 DEF PollStep, PollTimer, PollBegins, PollFails, PollGroups, PollEnds, PollAuthorizes,
       PollFetchFails
  <1>10. ASSUME \/ UNCHANGED vars \/ Start \/ Tick \/ \E t \in Trace : Arrives(t)
                \/ \E r \in Request, id \in Id :
                      \/ \E secret \in Secret, ttl \in Ttls : SubscribeCall(r, id, secret, ttl)
                      \/ UnsubscribeCall(r, id)
         PROVE  deliv' = deliv /\ fate' = fate
    BY <1>10 DEF Start, Tick, Arrives, SubscribeCall, UnsubscribeCall, vars
  <1> HIDE DEF GoesOn
  <1>11. GoesOn \/ \E s \in Source : PollFetches(s) /\ d \in Fresh(s) /\ fate'[d] # "new"
    BY <1>1, <1>2, <1>3, <1>4, <1>5, <1>6, <1>7, <1>8, <1>9, <1>10 DEF Next, Exit, Crash
  <1> QED
    BY <1>11 DEF GoesOn

\* The collector forgets nothing.
LEMMA ArrivedGrows ==
    ASSUME [Next]_vars
    PROVE  arrived \subseteq arrived'
  <1> USE DEF store, runtime, world, history
  <1>1. ASSUME NEW r \in Request, NEW id \in Id,
               \/ \E secret \in Secret, ttl \in Ttls : SubscribeCall(r, id, secret, ttl)
               \/ UnsubscribeCall(r, id)
        PROVE  arrived' = arrived
    BY <1>1 DEF SubscribeCall, UnsubscribeCall
  <1>2. ASSUME NEW r \in Request, Handler(r) PROVE arrived' = arrived
    BY <1>2 DEF Handler, SubscribeAuthorized, ChallengeEchoed, ChallengeFails, SubscribeCommits,
       SubscribeRefused, UnsubscribeCommits, UnsubscribeFails, UnsubscribeReturns
  <1>3. CASE PollTimer \/ PollStep
    BY <1>3 DEF PollStep, PollTimer, PollBegins, PollFails, PollGroups, PollEnds, PollAuthorizes,
       PollFetches, PollFetchFails
  <1>4. ASSUME NEW d \in Delivery, DeliveryStep(d) PROVE arrived' = arrived
    BY <1>4 DEF DeliveryStep, AttemptAuthorized, AttemptPosts, PostSettles, PostGone,
       PostTransient, Wakes
  <1>5. CASE Start \/ Stop \/ Exit \/ Crash
    BY <1>5 DEF Start, Stop, Exit, Crash, GoDown
  <1>6. CASE \/ UNCHANGED vars \/ Tick \/ \E t \in Trace : Arrives(t)
             \/ \E p \in Principal, answer \in {"granted", "revoked", "outage"} :
                   AccessChanges(p, answer)
    BY <1>6 DEF Tick, Arrives, AccessChanges, vars
  <1> QED
    BY <1>1, <1>2, <1>3, <1>4, <1>5, <1>6 DEF Next

-----------------------------------------------------------------------------
(* At most one delivery of a trace *)

\* What was ever delivered is in the collector and, while the subscription has
\* a baseline, known to it.
DeliveredIsKnown ==
    \A d \in Delivery : fate[d] # "new" =>
        /\ d[2] \in Recent(Project[Owner[d[1]]])
        /\ seen[d[1]] # None => d[2] \in seen[d[1]]

\* A delivery that runs has a fate.
ActiveIsStarted == \A d \in Delivery : Active(d) => fate[d] # "new"

LEMMA KnownStep ==
    ASSUME TypeOK, DeliveredIsKnown, ActiveIsStarted, [Next]_vars
    PROVE  DeliveredIsKnown'
  <1> SUFFICES ASSUME NEW d \in Delivery, fate'[d] # "new"
               PROVE  /\ d[2] \in Recent(Project[Owner[d[1]]])'
                      /\ seen'[d[1]] # None => d[2] \in seen'[d[1]]
    BY DEF DeliveredIsKnown
  <1> DEFINE source == Project[Owner[d[1]]]
  <1>0. d[1] \in Id /\ d[2] \in Trace
    BY DEF Delivery
  <1>1. \A t \in Recent(source) : t \in Recent(source)'
    BY ArrivedGrows DEF Recent
  <1>2. ASSUME NEW s \in Source, PollFetches(s), d[1] \in Group(s)
        PROVE  s = source /\ seen'[d[1]] = SeenAfter(d[1], s)
    BY <1>0, <1>2 DEF PollFetches, Group
  <1>3. ASSUME NEW s \in Source, PollFetches(s), d \in Fresh(s)
        PROVE  d[1] \in Group(s) /\ d[2] \in Recent(s) /\ seen[d[1]] # None
    BY <1>3 DEF Fresh, New
  <1>4. CASE fate[d] # "new"
    <2>1. d[2] \in Recent(source) /\ (seen[d[1]] # None => d[2] \in seen[d[1]])
      BY <1>4 DEF DeliveredIsKnown
    <2>2. seen'[d[1]] # None => d[2] \in seen'[d[1]]
      BY <1>0, <1>2, <2>1, SeenChanges DEF SeenAfter
    <2> QED
      BY <1>1, <2>1, <2>2
  <1>5. CASE fate[d] = "new"
    <2>1. CASE \E s \in Source : PollFetches(s) /\ d \in Fresh(s)
      BY <1>1, <1>2, <1>3, <2>1 DEF SeenAfter
    <2>2. CASE \A s \in Source : ~ (PollFetches(s) /\ d \in Fresh(s))
      <3>1. fate'[d] = "new" \/ Active(d)
        BY <1>5, <2>2, DeliveryLife
      <3> QED
        BY <1>5, <3>1 DEF ActiveIsStarted
    <2> QED
      BY <2>1, <2>2
  <1> QED
    BY <1>4, <1>5

LEMMA StartedStep ==
    ASSUME TypeOK, ActiveIsStarted, [Next]_vars
    PROVE  ActiveIsStarted'
  <1> SUFFICES ASSUME NEW d \in Delivery, Active(d)'
               PROVE  fate'[d] # "new"
    BY DEF ActiveIsStarted
  <1>1. CASE (Active(d)' => Active(d)) /\ (fate'[d] = fate[d] \/ (Active(d) /\ fate'[d] # "new"))
    BY <1>1 DEF ActiveIsStarted
  <1> QED
    BY <1>1, DeliveryLife

\* No trace is delivered twice to a subscription identity, whatever polls,
\* outages, restarts and subscriptions of the same identity come between
\* (pollOnce, deliver).
THEOREM NoSecondDelivery == Spec => DeliveredOnce
  <1>1. Init => DeliveredIsKnown /\ ActiveIsStarted
    BY DEF Init, DeliveredIsKnown, ActiveIsStarted, Active, NoDelivery
  <1>2. TypeOK /\ DeliveredIsKnown /\ ActiveIsStarted /\ [Next]_vars
            => DeliveredIsKnown' /\ ActiveIsStarted'
    BY KnownStep, StartedStep
  <1>3. TypeOK /\ DeliveredIsKnown /\ ActiveIsStarted /\ [Next]_vars
            => [\A d \in Delivery : ~ Active(d) /\ Active(d)' => fate[d] = "new"]_vars
    <2> SUFFICES ASSUME TypeOK, DeliveredIsKnown, [Next]_vars,
                        NEW d \in Delivery, ~ Active(d), Active(d)'
                 PROVE  fate[d] = "new"
      OBVIOUS
    <2>1. PICK s \in Source : d \in Fresh(s)
      BY DeliveryLife
    <2>2. d[1] \in Group(s) /\ d[2] \in Recent(s) \ seen[d[1]] /\ seen[d[1]] # None
      BY <2>1 DEF Fresh, New
    <2> QED
      BY <2>2 DEF DeliveredIsKnown
  <1> QED
    BY <1>1, <1>2, <1>3, TypeCorrect, PTL DEF Spec, DeliveredOnce

-----------------------------------------------------------------------------
(* No replay after a start *)

\* A process that is down remembers nothing; one that runs has, in every
\* baseline, all that arrived in the subscriber's project before it started.
FreshStart ==
    /\ before \subseteq arrived
    /\ proc = "down" => /\ ~ armed /\ poll = NoPoll
                        /\ \A id \in Id : seen[id] = None
                        /\ \A d \in Delivery : ~ Active(d)
    /\ \A id \in Id, t \in before :
          seen[id] # None /\ Origin[t] = Project[Owner[id]] => t \in seen[id]

\* What start() finds in the collector is fixed when it runs.
LEMMA BeforeChanges ==
    ASSUME [Next]_vars, ~ Start
    PROVE  before' = before
  <1> USE DEF store, runtime, world, history
  <1>1. ASSUME NEW r \in Request, NEW id \in Id,
               \/ \E secret \in Secret, ttl \in Ttls : SubscribeCall(r, id, secret, ttl)
               \/ UnsubscribeCall(r, id)
        PROVE  before' = before
    BY <1>1 DEF SubscribeCall, UnsubscribeCall
  <1>2. ASSUME NEW r \in Request, Handler(r) PROVE before' = before
    BY <1>2 DEF Handler, SubscribeAuthorized, ChallengeEchoed, ChallengeFails, SubscribeCommits,
       SubscribeRefused, UnsubscribeCommits, UnsubscribeFails, UnsubscribeReturns
  <1>3. CASE PollTimer \/ PollStep
    BY <1>3 DEF PollStep, PollTimer, PollBegins, PollFails, PollGroups, PollEnds, PollAuthorizes,
       PollFetches, PollFetchFails
  <1>4. ASSUME NEW d \in Delivery, DeliveryStep(d) PROVE before' = before
    BY <1>4 DEF DeliveryStep, AttemptAuthorized, AttemptPosts, PostSettles, PostGone,
       PostTransient, Wakes
  <1>5. CASE Stop \/ Exit \/ Crash
    BY <1>5 DEF Stop, Exit, Crash, GoDown
  <1>6. CASE \/ UNCHANGED vars \/ Tick \/ \E t \in Trace : Arrives(t)
             \/ \E p \in Principal, answer \in {"granted", "revoked", "outage"} :
                   AccessChanges(p, answer)
    BY <1>6 DEF Tick, Arrives, AccessChanges, vars
  <1> QED
    BY <1>1, <1>2, <1>3, <1>4, <1>5, <1>6 DEF Next

\* Nothing polls while the process is down.
LEMMA DownPollIsIdle ==
    ASSUME TypeOK, FreshStart, [Next]_vars, proc' = "down"
    PROVE  ~ armed' /\ poll' = NoPoll /\ (\A id \in Id : seen'[id] = None)
           /\ \A d \in Delivery : ~ Active(d)'
  <1> USE DEF store, runtime, world, history
  <1>1. CASE GoDown
    BY <1>1 DEF GoDown, Active, NoDelivery
  <1>2. CASE proc = "down" /\ ~ GoDown
    <2>1. ~ armed /\ poll = NoPoll /\ poll.phase = "idle"
      BY <1>2 DEF FreshStart, NoPoll
    <2>2. ~ PollTimer /\ ~ PollStep
      BY <2>1 DEF PollTimer, PollStep, PollBegins, PollFails, PollGroups, PollEnds,
         PollAuthorizes, PollFetches, PollFetchFails
    <2>3. ~ armed'
      BY <1>2, <2>1, ArmedStep DEF Start, Stop
    <2>4. poll' = poll
      <3>1. ASSUME NEW r \in Request, NEW id \in Id,
                   \/ \E secret \in Secret, ttl \in Ttls : SubscribeCall(r, id, secret, ttl)
                   \/ UnsubscribeCall(r, id)
            PROVE  poll' = poll
        BY <3>1 DEF SubscribeCall, UnsubscribeCall
      <3>2. ASSUME NEW r \in Request, Handler(r) PROVE poll' = poll
        BY <3>2 DEF Handler, SubscribeAuthorized, ChallengeEchoed, ChallengeFails,
           SubscribeCommits, SubscribeRefused, UnsubscribeCommits, UnsubscribeFails,
           UnsubscribeReturns
      <3>3. ASSUME NEW d \in Delivery, DeliveryStep(d) PROVE poll' = poll
        BY <3>3 DEF DeliveryStep, AttemptAuthorized, AttemptPosts, PostSettles, PostGone,
           PostTransient, Wakes
      <3>4. CASE \/ UNCHANGED vars \/ Start \/ Stop \/ Tick \/ \E t \in Trace : Arrives(t)
                 \/ \E p \in Principal, answer \in {"granted", "revoked", "outage"} :
                       AccessChanges(p, answer)
        BY <3>4 DEF Start, Stop, Tick, Arrives, AccessChanges, vars
      <3> QED
        BY <1>2, <2>2, <3>1, <3>2, <3>3, <3>4 DEF Next, Exit, Crash
    <2>5. \A s \in Source : ~ PollFetches(s)
      BY <2>2 DEF PollStep
    <2>6. \A id \in Id : seen'[id] = None
      BY <1>2, <2>5, SeenChanges DEF FreshStart
    <2>7. \A d \in Delivery : ~ Active(d)'
      BY <1>2, <2>5, DeliveryLife DEF FreshStart
    <2> QED
      BY <2>1, <2>3, <2>4, <2>6, <2>7
  <1>3. CASE proc # "down" /\ ~ GoDown
    BY <1>3, ArmedStep DEF Start, Stop
  <1> QED
    BY <1>1, <1>2, <1>3

LEMMA FreshStartStep ==
    ASSUME TypeOK, FreshStart, [Next]_vars
    PROVE  FreshStart'
  <1>1. before' \subseteq arrived'
    <2>1. CASE Start
      BY <2>1 DEF Start, world
    <2> QED
      BY <2>1, BeforeChanges, ArrivedGrows DEF FreshStart
  <1>2. ASSUME NEW id \in Id, NEW t \in before', seen'[id] # None,
               Origin[t] = Project[Owner[id]]
        PROVE  t \in seen'[id]
    <2>1. CASE Start
      BY <1>2, <2>1 DEF Start, FreshStart
    <2>2. CASE ~ Start
      <3>1. t \in before /\ t \in arrived
        BY <1>2, <2>2, BeforeChanges DEF FreshStart
      <3>2. CASE seen'[id] = seen[id]
        BY <1>2, <3>1, <3>2 DEF FreshStart
      <3>3. ASSUME NEW s \in Source, id \in Group(s), seen'[id] = SeenAfter(id, s)
            PROVE  t \in seen'[id]
        <4>1. t \in Recent(s)
          BY <1>2, <3>1, <3>3 DEF Group, Recent
        <4> QED
          BY <3>3, <4>1 DEF SeenAfter
      <3> QED
        BY <1>2, <3>2, <3>3, SeenChanges
    <2> QED
      BY <2>1, <2>2
  <1> QED
    BY <1>1, <1>2, DownPollIsIdle DEF FreshStart

\* Nothing that arrived before the process started is ever delivered, whatever
\* the store held when it started (start, pollOnce).
THEOREM NothingIsReplayed == Spec => []NoReplay
  <1>1. Init => FreshStart /\ NoReplay
    BY DEF Init, FreshStart, NoReplay, Active, NoDelivery
  <1>2. TypeOK /\ FreshStart /\ [Next]_vars => FreshStart'
    BY FreshStartStep
  <1>3. ASSUME TypeOK, FreshStart, NoReplay, [Next]_vars
        PROVE  NoReplay'
    <2> SUFFICES ASSUME NEW d \in Delivery, Active(d)'
                 PROVE  d[2] \notin before'
      BY DEF NoReplay
    <2>1. CASE Start
      <3>1. deliv' = deliv /\ proc = "down"
        BY <2>1 DEF Start, world
      <3> QED
        BY <1>3, <3>1 DEF FreshStart, Active
    <2>2. CASE ~ Start
      <3>1. before' = before
        BY <1>3, <2>2, BeforeChanges
      <3>2. CASE Active(d)
        BY <1>3, <3>1, <3>2 DEF NoReplay
      <3>3. CASE ~ Active(d)
        <4>1. PICK s \in Source : d \in Fresh(s)
          BY <1>3, <3>3, DeliveryLife
        <4>2. /\ d[1] \in Group(s) /\ seen[d[1]] # None
              /\ d[2] \in Recent(s) /\ d[2] \notin seen[d[1]]
          BY <4>1 DEF Fresh, New
        <4>3. d[1] \in Id /\ Origin[d[2]] = Project[Owner[d[1]]]
          BY <4>2 DEF Delivery, Group, Recent
        <4> QED
          BY <1>3, <3>1, <4>2, <4>3 DEF FreshStart
      <3> QED
        BY <3>2, <3>3
    <2> QED
      BY <2>1, <2>2
  <1> QED
    BY <1>1, <1>2, <1>3, TypeCorrect, PTL DEF Spec

-----------------------------------------------------------------------------
(* Data of the subscriber's own project *)

\* One fetch serves one project: what a subscription is sent, and what it
\* counts as known, are traces of the project its principal is mapped to,
\* whatever other projects the same poll serves (pollOnce, sourceKey).
THEOREM DataStaysInProject == Spec => []OwnProjectOnly
  <1>1. Init => OwnProjectOnly
    BY DEF Init, OwnProjectOnly, Active, NoDelivery
  <1>2. ASSUME TypeOK, OwnProjectOnly, [Next]_vars
        PROVE  OwnProjectOnly'
    <2>1. ASSUME NEW d \in Delivery, Active(d)'
          PROVE  Origin[d[2]] = Project[Owner[d[1]]]
      <3>1. CASE Active(d)
        BY <1>2, <3>1 DEF OwnProjectOnly
      <3>2. ASSUME NEW s \in Source, d \in Fresh(s)
            PROVE  Origin[d[2]] = Project[Owner[d[1]]]
        BY <3>2 DEF Fresh, New, Group, Recent
      <3> QED
        BY <1>2, <2>1, <3>1, <3>2, DeliveryLife
    <2>2. ASSUME NEW id \in Id, seen'[id] # None, NEW t \in seen'[id]
          PROVE  Origin[t] = Project[Owner[id]]
      <3>1. CASE seen'[id] = seen[id]
        BY <1>2, <2>2, <3>1 DEF OwnProjectOnly
      <3>2. ASSUME NEW s \in Source, id \in Group(s), seen'[id] = SeenAfter(id, s)
            PROVE  Origin[t] = Project[Owner[id]]
        <4>1. t \in Recent(s) \/ (seen[id] # None /\ t \in seen[id])
          BY <2>2, <3>2 DEF SeenAfter
        <4> QED
          BY <1>2, <3>2, <4>1 DEF OwnProjectOnly, Group, Recent
      <3> QED
        BY <1>2, <2>2, <3>1, <3>2, SeenChanges
    <2> QED
      BY <2>1, <2>2 DEF OwnProjectOnly
  <1> QED
    BY <1>1, <1>2, TypeCorrect, PTL DEF Spec

-----------------------------------------------------------------------------
(* Data goes to proven callbacks only *)

\* Whatever may lead to a POST (a cached verification, a subscribe about to
\* commit, a record, a place in the poll in progress, a running delivery)
\* belongs to a callback that has echoed a challenge to its principal.
ProvenCache == \A k \in Principal \X Callback : verified[k] > 0 => k \in proven
ProvenCalls == \A r \in Request : req[r].phase = "committing" => CallbackKey(req[r].id) \in proven
ProvenRecords == \A id \in Id : subs[id] # None => CallbackKey(id) \in proven
ProvenPoll ==
    \A id \in poll.snapshot \cup poll.todo \cup poll.allowed : CallbackKey(id) \in proven
ProvenDeliveries == \A d \in Delivery : Active(d) => CallbackKey(d[1]) \in proven
Proven == ProvenCache /\ ProvenCalls /\ ProvenRecords /\ ProvenPoll /\ ProvenDeliveries

\* Only an echoed challenge fills the cache or moves a call to its commit,
\* except for a call whose callback is in the cache.
LEMMA ProvenChanges ==
    ASSUME TypeOK, [Next]_vars
    PROVE  /\ proven \subseteq proven'
           /\ \/ \E r \in Request : ChallengeEchoed(r)
              \/ /\ \A k \in Principal \X Callback : verified'[k] \in {0, verified[k]}
                 /\ \A r \in Request : req'[r].phase = "committing" =>
                       \/ req'[r] = req[r]
                       \/ req'[r].id = req[r].id /\ req[r].id \in Id /\ Cached(req[r].id)
  <1> USE DEF store, runtime, world, history
  <1>0. /\ req \in [Request -> RequestState] /\ \A r \in Request : req[r] \in RequestState
        /\ verified \in [Principal \X Callback -> Nat]
        /\ NoRequest.phase = "idle"
    BY DEF TypeOK, CallType, NoRequest
  <1> DEFINE
      Kept == /\ proven' = proven
              /\ \A k \in Principal \X Callback : verified'[k] \in {0, verified[k]}
              /\ \A r \in Request : req'[r].phase = "committing" =>
                    \/ req'[r] = req[r]
                    \/ req'[r].id = req[r].id /\ req[r].id \in Id /\ Cached(req[r].id)
  <1>1. ASSUME NEW r \in Request, NEW id \in Id,
               \/ \E secret \in Secret, ttl \in Ttls : SubscribeCall(r, id, secret, ttl)
               \/ UnsubscribeCall(r, id)
        PROVE  Kept
    <2>1. proven' = proven /\ verified' = verified
      BY <1>1 DEF SubscribeCall, UnsubscribeCall
    <2>2. \E next : req' = [req EXCEPT ![r] = next] /\ next.phase # "committing"
      BY <1>1 DEF SubscribeCall, UnsubscribeCall, NoRequest
    <2> QED
      BY <1>0, <2>1, <2>2
  <1>2. ASSUME NEW r \in Request, SubscribeAuthorized(r)
        PROVE  Kept
    <2>1. proven' = proven /\ verified' = verified /\ req[r].id \in Id
      BY <1>0, <1>2 DEF SubscribeAuthorized, RequestState
    <2>2. \E next : req' = [req EXCEPT ![r] = next]
      BY <1>2 DEF SubscribeAuthorized, Reject
    <2>3. req'[r].phase = "committing" => req'[r].id = req[r].id /\ Cached(req[r].id)
      BY <1>0, <1>2 DEF SubscribeAuthorized, Reject, RequestState
    <2> QED
      BY <1>0, <2>1, <2>2, <2>3
  <1>3. ASSUME NEW r \in Request,
               \/ ChallengeFails(r) \/ SubscribeCommits(r) \/ SubscribeRefused(r)
               \/ UnsubscribeFails(r) \/ UnsubscribeReturns(r)
        PROVE  Kept
    <2>1. proven' = proven /\ verified' = verified /\ Reject(r)
      BY <1>3 DEF ChallengeFails, SubscribeCommits, SubscribeRefused, UnsubscribeFails,
         UnsubscribeReturns
    <2> QED
      BY <1>0, <2>1 DEF Reject
  <1>4. ASSUME NEW r \in Request, UnsubscribeCommits(r)
        PROVE  Kept
    <2>1. proven' = proven /\ verified' = verified
      BY <1>4 DEF UnsubscribeCommits
    <2>2. req' = [req EXCEPT ![r] = [@ EXCEPT !.phase = "joining", !.joins = Joined(req[r].id)]]
      BY <1>4 DEF UnsubscribeCommits
    <2>3. req'[r].phase = "joining"
      BY <1>0, <2>2 DEF RequestState
    <2> QED
      BY <1>0, <2>1, <2>2, <2>3
  <1>5. ASSUME NEW r \in Request, ChallengeEchoed(r)
        PROVE  proven \subseteq proven'
    BY <1>5 DEF ChallengeEchoed
  <1>6. ASSUME PollTimer \/ PollStep PROVE Kept
    <2>1. proven' = proven /\ verified' = verified /\ req' = req
      BY <1>6 DEF PollStep, PollTimer, PollBegins, PollFails, PollGroups, PollEnds,
         PollAuthorizes, PollFetches, PollFetchFails
    <2> QED
      BY <2>1
  <1>7. ASSUME NEW d \in Delivery, DeliveryStep(d) PROVE Kept
    <2>1. proven' = proven /\ verified' = verified /\ req' = req
      BY <1>7 DEF DeliveryStep, AttemptAuthorized, AttemptPosts, PostSettles, PostGone,
         PostTransient, Wakes
    <2> QED
      BY <2>1
  <1>8. ASSUME GoDown PROVE Kept
    BY <1>0, <1>8 DEF GoDown
  <1>9. ASSUME \/ UNCHANGED vars \/ Start \/ Stop \/ Tick \/ \E t \in Trace : Arrives(t)
               \/ \E p \in Principal, answer \in {"granted", "revoked", "outage"} :
                     AccessChanges(p, answer)
        PROVE  Kept
    <2>1. proven' = proven /\ verified' = verified /\ req' = req
      BY <1>9 DEF Start, Stop, Tick, Arrives, AccessChanges, vars
    <2> QED
      BY <2>1
  <1> HIDE DEF Kept
  <1>10. Kept \/ \E r \in Request : ChallengeEchoed(r)
    BY <1>1, <1>2, <1>3, <1>4, <1>6, <1>7, <1>8, <1>9 DEF Next, Handler, Exit, Crash
  <1> QED
    BY <1>5, <1>10 DEF Kept

\* Only PollBegins and the authorization of its snapshot put an id in the poll.
LEMMA PollMembers ==
    ASSUME TypeOK, [Next]_vars
    PROVE  \A id \in Id :
              id \in poll'.snapshot \cup poll'.todo \cup poll'.allowed =>
                 \/ id \in poll.snapshot \cup poll.todo \cup poll.allowed
                 \/ Shrinks /\ subs'[id] # None
  <1> USE DEF store, runtime, world, history
  <1>0. poll \in Poll
    BY DEF TypeOK, PollerType
  <1> DEFINE Goal == \A id \in Id :
              id \in poll'.snapshot \cup poll'.todo \cup poll'.allowed =>
                 \/ id \in poll.snapshot \cup poll.todo \cup poll.allowed
                 \/ Shrinks /\ subs'[id] # None
  <1>1. ASSUME PollBegins PROVE Goal
    <2>1. Shrinks
      BY <1>1, PruneResult DEF PollBegins, Live, Shrinks, TypeOK, StoreType
    <2>2. CASE poll' = NoPoll
      BY <2>2 DEF NoPoll
    <2>3. CASE poll' = [NoPoll EXCEPT !.phase = "authorizing", !.snapshot = Stored(subs'),
                                      !.todo = Stored(subs')]
      BY <2>1, <2>3 DEF Stored, NoPoll
    <2> QED
      BY <1>1, <2>2, <2>3 DEF PollBegins
  <1>2. ASSUME NEW i \in Id, PollAuthorizes(i) PROVE Goal
    BY <1>0, <1>2 DEF PollAuthorizes, Poll
  <1>3. ASSUME \/ PollTimer \/ PollFails \/ PollGroups \/ PollEnds \/ GoDown
               \/ \E s \in Source : PollFetches(s) \/ PollFetchFails(s)
        PROVE  Goal
    <2>1. CASE PollTimer \/ PollFails \/ PollEnds \/ GoDown
      BY <2>1 DEF PollTimer, PollFails, PollEnds, GoDown, NoPoll
    <2>2. CASE PollGroups
      BY <1>0, <2>2 DEF PollGroups, Poll
    <2>3. ASSUME NEW s \in Source, PollFetches(s) \/ PollFetchFails(s) PROVE Goal
      BY <1>0, <2>3 DEF PollFetches, PollFetchFails, Poll
    <2> QED
      BY <1>3, <2>1, <2>2, <2>3
  <1>4. ASSUME poll' = poll PROVE Goal
    BY <1>4
  <1>5. ASSUME NEW r \in Request, NEW id \in Id,
               \/ \E secret \in Secret, ttl \in Ttls : SubscribeCall(r, id, secret, ttl)
               \/ UnsubscribeCall(r, id)
        PROVE  poll' = poll
    BY <1>5 DEF SubscribeCall, UnsubscribeCall
  <1>6. ASSUME NEW r \in Request, Handler(r) PROVE poll' = poll
    BY <1>6 DEF Handler, SubscribeAuthorized, ChallengeEchoed, ChallengeFails, SubscribeCommits,
       SubscribeRefused, UnsubscribeCommits, UnsubscribeFails, UnsubscribeReturns
  <1>7. ASSUME NEW d \in Delivery, DeliveryStep(d) PROVE poll' = poll
    BY <1>7 DEF DeliveryStep, AttemptAuthorized, AttemptPosts, PostSettles, PostGone,
       PostTransient, Wakes
  <1>8. ASSUME \/ UNCHANGED vars \/ Start \/ Stop \/ Tick \/ \E t \in Trace : Arrives(t)
               \/ \E p \in Principal, answer \in {"granted", "revoked", "outage"} :
                     AccessChanges(p, answer)
        PROVE  poll' = poll
    BY <1>8 DEF Start, Stop, Tick, Arrives, AccessChanges, vars
  <1> HIDE DEF Goal
  <1>9. Goal
    BY <1>1, <1>2, <1>3, <1>4, <1>5, <1>6, <1>7, <1>8 DEF Next, PollStep, Exit, Crash
  <1> QED
    BY <1>9 DEF Goal

LEMMA ProvenStep ==
    ASSUME TypeOK, Proven, [Next]_vars
    PROVE  Proven'
  <1>0. /\ now \in Nat /\ verified \in [Principal \X Callback -> Nat]
        /\ req \in [Request -> RequestState] /\ \A r \in Request : req[r] \in RequestState
        /\ \A id \in Id : CallbackKey(id) \in Principal \X Callback
        /\ poll' \in Poll
        /\ \A d \in Delivery : d[1] \in Id
    BY StepType, ConstantsAssumption
    DEF TypeOK, StoreType, CallType, PollerType, CallbackKey, Delivery
  <1>1. proven \subseteq proven'
    BY ProvenChanges
  <1>2. ProvenCache'
    <2>1. ASSUME NEW r \in Request, ChallengeEchoed(r)
          PROVE  ProvenCache'
      BY <1>0, <2>1 DEF ChallengeEchoed, Remember, Proven, ProvenCache
    <2> QED
      BY <1>1, <2>1, ProvenChanges DEF Proven, ProvenCache
  <1>3. ProvenCalls'
    <2>1. ASSUME NEW r \in Request, ChallengeEchoed(r)
          PROVE  ProvenCalls'
      <3>1. /\ \A q \in Request \ {r} : req'[q] = req[q]
            /\ req'[r].id = req[r].id /\ CallbackKey(req[r].id) \in proven'
        BY <1>0, <2>1 DEF ChallengeEchoed, RequestState
      <3> QED
        BY <1>1, <3>1 DEF Proven, ProvenCalls, CallbackKey
    <2>2. ASSUME NEW id \in Id, Cached(id) PROVE CallbackKey(id) \in proven
      BY <1>0, <2>2 DEF Cached, Proven, ProvenCache
    <2> QED
      BY <1>1, <2>1, <2>2, ProvenChanges DEF Proven, ProvenCalls, CallbackKey
  <1>4. ProvenRecords'
    <2>1. ASSUME NEW r \in Request, SubscribeCommits(r)
          PROVE  ProvenRecords'
      <3>1. CallbackKey(req[r].id) \in proven
        BY <2>1 DEF SubscribeCommits, Proven, ProvenCalls
      <3>2. \A i \in Id \ {req[r].id} : subs[i] = None => subs'[i] = None
        BY <2>1 DEF SubscribeCommits, Prune, Live
      <3> QED
        BY <1>1, <3>1, <3>2 DEF Proven, ProvenRecords, CallbackKey
    <2>2. CASE \A r \in Request : ~ SubscribeCommits(r)
      <3>1. Shrinks
        BY <2>2, DocumentStep
      <3> QED
        BY <1>1, <3>1 DEF Shrinks, Proven, ProvenRecords, CallbackKey
    <2> QED
      BY <2>1, <2>2
  <1>5. ProvenPoll'
    <2>1. \A id \in poll'.snapshot \cup poll'.todo \cup poll'.allowed : id \in Id
      BY <1>0 DEF Poll
    <2> QED
      BY <1>1, <1>4, <2>1, PollMembers DEF Proven, ProvenPoll, ProvenRecords, CallbackKey
  <1>6. ProvenDeliveries'
    <2>1. ASSUME NEW d \in Delivery, NEW s \in Source, d \in Fresh(s)
          PROVE  CallbackKey(d[1]) \in proven
      BY <2>1 DEF Fresh, New, Group, Proven, ProvenPoll
    <2> QED
      BY <1>1, <2>1, DeliveryLife DEF Proven, ProvenDeliveries, CallbackKey
  <1> QED
    BY <1>2, <1>3, <1>4, <1>5, <1>6 DEF Proven

\* A stored subscription and a running delivery always belong to a callback
\* that echoed a challenge to the subscription's own principal (subscribe).
THEOREM DataNeedsProof == Spec => []VerifiedBeforeData
  <1>1. Init => Proven
    <2> SUFFICES ASSUME Init PROVE Proven
      OBVIOUS
    <2>1. ProvenCache /\ ProvenRecords
      BY DEF Init, ProvenCache, ProvenRecords
    <2>2. ProvenCalls /\ ProvenPoll /\ ProvenDeliveries
      BY DEF Init, ProvenCalls, ProvenPoll, ProvenDeliveries, NoRequest, NoPoll, NoDelivery, Active
    <2> QED
      BY <2>1, <2>2 DEF Proven
  <1>2. TypeOK /\ Proven /\ [Next]_vars => Proven'
    BY ProvenStep
  <1>3. Proven => VerifiedBeforeData
    <2> SUFFICES ASSUME Proven, NEW id \in Id,
                        subs[id] # None \/ \E t \in Trace : Active(<<id, t>>)
                 PROVE  CallbackKey(id) \in proven
      BY DEF VerifiedBeforeData
    <2>1. \A t \in Trace : <<id, t>> \in Delivery /\ <<id, t>>[1] = id
      BY DEF Delivery
    <2> QED
      BY <2>1 DEF Proven, ProvenRecords, ProvenDeliveries
  <1> QED
    BY <1>1, <1>2, <1>3, TypeCorrect, PTL DEF Spec

-----------------------------------------------------------------------------
(* Secrets *)

\* The document changes in four ways: a subscribe writes a record, a prune trims
\* all of them, a removal takes one out, anything else leaves it alone.
LEMMA DocumentMoves ==
    ASSUME TypeOK, [Next]_vars
    PROVE  \/ subs' = subs
           \/ subs' = Prune(subs)
           \/ \E i \in Id : subs' = Remove(subs, i)
           \/ \E r \in Request : SubscribeCommits(r)
  <1> USE DEF store, runtime, world, history
  <1> DEFINE Goal == \/ subs' = subs
                     \/ subs' = Prune(subs)
                     \/ \E i \in Id : subs' = Remove(subs, i)
                     \/ \E r \in Request : SubscribeCommits(r)
  <1>1. ASSUME NEW r \in Request, Handler(r) PROVE Goal
    <2>1. CASE UnsubscribeCommits(r)
      <3>1. req[r].id \in Id
        BY <2>1 DEF TypeOK, CallType, RequestState, UnsubscribeCommits
      <3> QED
        BY <2>1, <3>1 DEF UnsubscribeCommits
    <2> QED
      BY <1>1, <2>1 DEF Handler, SubscribeAuthorized, ChallengeEchoed, ChallengeFails,
         SubscribeRefused, UnsubscribeFails, UnsubscribeReturns
  <1>2. CASE PollTimer \/ PollStep
    BY <1>2 DEF PollStep, PollTimer, PollBegins, PollFails, PollGroups, PollEnds, PollAuthorizes,
       PollFetches, PollFetchFails
  <1>3. ASSUME NEW d \in Delivery, DeliveryStep(d) PROVE Goal
    <2>1. d[1] \in Id
      BY DEF Delivery
    <2> QED
      BY <1>3, <2>1 DEF DeliveryStep, AttemptAuthorized, AttemptPosts, PostSettles, PostGone,
         PostTransient, Wakes
  <1>4. CASE \/ UNCHANGED vars \/ Start \/ Stop \/ GoDown \/ Tick \/ \E t \in Trace : Arrives(t)
             \/ \E p \in Principal, answer \in {"granted", "revoked", "outage"} :
                   AccessChanges(p, answer)
             \/ \E r \in Request, i \in Id :
                   \/ \E secret \in Secret, ttl \in Ttls : SubscribeCall(r, i, secret, ttl)
                   \/ UnsubscribeCall(r, i)
    BY <1>4 DEF Start, Stop, GoDown, Tick, Arrives, AccessChanges, SubscribeCall, UnsubscribeCall,
       vars
  <1> QED
    BY <1>1, <1>2, <1>3, <1>4 DEF Next, Exit, Crash

\* A prune keeps the secrets of a live record, and drops a previous one only when
\* its window is over.
LEMMA PruneKeepsSecrets ==
    ASSUME TypeOK, NEW i \in Id, Prune(subs)[i] # None
    PROVE  /\ Live(subs[i]) /\ subs[i] \in Sub /\ Prune(subs)[i].secret = subs[i].secret
           /\ subs[i].previousUntil > now => Prune(subs)[i] = subs[i]
  <1>1. subs[i] \in {None} \cup Sub /\ Live(subs[i])
    BY DEF TypeOK, StoreType, Prune
  <1>2. subs[i] \in Sub
    BY <1>1 DEF Live
  <1> QED
    BY <1>1, <1>2 DEF Prune, Sub

\* What KeyHandover says of one record.
HandsOver(old, new) ==
    IF new.secret # old.secret
    THEN new.previous = old.secret /\ new.previousUntil = now + RotationWindow
    ELSE old.previousUntil > now =>
            new.previous = old.previous /\ new.previousUntil = old.previousUntil

\* A subscribe hands over the secret it replaces, and keeps what it does not.
LEMMA RenewalHandsOver ==
    ASSUME TypeOK, NEW r \in Request, SubscribeCommits(r), NEW i \in Id, Live(subs[i]),
           subs'[i] # None
    PROVE  HandsOver(subs[i], subs'[i])
  <1> DEFINE id == req[r].id
             pruned == Prune(subs)
  <1>1. id \in Id /\ pruned \in [Id -> {None} \cup Sub]
    BY PruneResult DEF SubscribeCommits, TypeOK, CallType, RequestState, SubscribePhase, StoreType
  <1>2. pruned[i] # None
    BY PruneResult DEF TypeOK, StoreType
  <1>3. /\ pruned[i].secret = subs[i].secret
        /\ subs[i].previousUntil > now => pruned[i] = subs[i]
    BY <1>2, PruneKeepsSecrets
  <1>4. subs'[i] = IF i = id THEN Renewed(pruned[i], req[r].secret, req[r].ttl) ELSE pruned[i]
    BY <1>1 DEF SubscribeCommits
  <1> HIDE DEF pruned, id
  <1>5. CASE i = id
    BY <1>2, <1>3, <1>4, <1>5 DEF Renewed, HandsOver
  <1>6. CASE i # id
    BY <1>3, <1>4, <1>6 DEF HandsOver
  <1> QED
    BY <1>5, <1>6

\* While the window of a replaced secret lasts, no step drops it.
LEMMA HandoverStep ==
    ASSUME TypeOK, [Next]_vars, NEW i \in Id, Live(subs[i]), subs'[i] # None
    PROVE  HandsOver(subs[i], subs'[i])
  <1>1. CASE subs' = subs
    BY <1>1 DEF HandsOver
  <1>2. CASE subs' = Prune(subs)
    BY <1>2, PruneKeepsSecrets DEF HandsOver
  <1>3. ASSUME NEW k \in Id, subs' = Remove(subs, k)
        PROVE  HandsOver(subs[i], subs'[i])
    <2>1. subs'[i] = subs[i]
      BY <1>3 DEF Remove, TypeOK, StoreType
    <2> QED
      BY <2>1 DEF HandsOver
  <1>4. ASSUME NEW r \in Request, SubscribeCommits(r)
        PROVE  HandsOver(subs[i], subs'[i])
    BY <1>4, RenewalHandsOver
  <1> QED
    BY <1>1, <1>2, <1>3, <1>4, DocumentMoves

\* A POST goes out signed with the secrets that its record has just then.
LEMMA PostSigned ==
    ASSUME TypeOK, [Next]_vars, NEW d \in Delivery, deliv[d].phase # "posting",
           deliv'[d].phase = "posting"
    PROVE  deliv'[d].keys = SigningKeys(subs[d[1]])
  <1>0. deliv \in [Delivery -> DeliveryState] /\ deliv[d] \in DeliveryState
    BY DEF TypeOK, DeliveryType
  <1>1. \E e \in Delivery : AttemptPosts(e)
    <2>1. ~ Calm
      BY DEF Calm
    <2>2. ASSUME NEW r \in Request, SubscribeCommits(r) \/ UnsubscribeReturns(r) PROVE FALSE
      BY <2>2 DEF SubscribeCommits, UnsubscribeReturns
    <2>3. ASSUME NEW r \in Request, UnsubscribeCommits(r) PROVE FALSE
      <3>1. deliv'[d] = deliv[d] \/ deliv'[d] = [deliv[d] EXCEPT !.aborted = TRUE]
        BY <2>3 DEF UnsubscribeCommits
      <3> QED
        BY <1>0, <3>1 DEF DeliveryState
    <2>4. ~ GoDown
      BY DEF GoDown, NoDelivery
    <2> QED
      BY <2>1, <2>2, <2>3, <2>4, CalmSteps
  <1>2. PICK e \in Delivery : AttemptPosts(e)
    BY <1>1
  <1>3. /\ deliv' = [deliv EXCEPT ![e] = NoDelivery]
        \/ \E late : deliv' = [deliv EXCEPT ![e].phase = "posting",
                                            ![e].keys = SigningKeys(subs[e[1]]), ![e].late = late]
    BY <1>2 DEF AttemptPosts, EndDelivery
  <1>4. d = e
    BY <1>0, <1>3
  <1> QED
    BY <1>0, <1>3, <1>4 DEF DeliveryState, NoDelivery

\* A secret that is replaced signs beside its successor until its window is over,
\* whatever refreshes, prunes and restarts come between, and no POST is signed
\* with any other (subscribe, pruneState, deliver).
THEOREM SecretsAreHandedOver == Spec => SecretsHandOver
  <1>1. ASSUME TypeOK, [Next]_vars
        PROVE  [\A id \in Id : LET old == subs[id]  new == subs'[id] IN
                  Live(old) /\ new # None =>
                     IF new.secret # old.secret
                     THEN new.previous = old.secret /\ new.previousUntil = now + RotationWindow
                     ELSE old.previousUntil > now =>
                             new.previous = old.previous
                             /\ new.previousUntil = old.previousUntil]_vars
    BY <1>1, HandoverStep DEF HandsOver
  <1>2. ASSUME TypeOK, [Next]_vars
        PROVE  [\A d \in Delivery :
                  deliv[d].phase # "posting" /\ deliv'[d].phase = "posting" =>
                     /\ subs[d[1]].secret \in deliv'[d].keys
                     /\ \A k \in deliv'[d].keys :
                           \/ k = subs[d[1]].secret
                           \/ k = subs[d[1]].previous /\ subs[d[1]].previousUntil > now]_vars
    BY <1>2, PostSigned DEF SigningKeys
  <1>3. Spec => KeyHandover
    BY <1>1, TypeCorrect, PTL DEF Spec, KeyHandover
  <1>4. Spec => FreshSignature
    BY <1>2, TypeCorrect, PTL DEF Spec, FreshSignature
  <1> QED
    BY <1>3, <1>4 DEF SecretsHandOver

-----------------------------------------------------------------------------
(* Baselines *)

\* A poll that has not read the document has no snapshot yet.
SnapshotIsFresh == poll.phase \in {"idle", "starting"} => poll.snapshot = {}

LEMMA SnapshotStep ==
    ASSUME TypeOK, SnapshotIsFresh, [Next]_vars
    PROVE  SnapshotIsFresh'
  <1> USE DEF store, runtime, world, history
  <1>0. poll \in Poll
    BY DEF TypeOK, PollerType
  <1>1. CASE PollTimer \/ PollFails \/ PollEnds \/ GoDown
    BY <1>1 DEF PollTimer, PollFails, PollEnds, GoDown, NoPoll, SnapshotIsFresh
  <1>2. CASE PollBegins
    <2>1. CASE Stored(subs') = {}
      BY <1>2, <2>1 DEF PollBegins, NoPoll, SnapshotIsFresh
    <2>2. CASE Stored(subs') # {}
      <3>1. poll'.phase = "authorizing"
        BY <1>2, <2>2 DEF PollBegins, NoPoll
      <3> QED
        BY <3>1 DEF SnapshotIsFresh
    <2> QED
      BY <2>1, <2>2
  <1>3. CASE PollGroups \/ \E i \in Id : PollAuthorizes(i)
    BY <1>0, <1>3 DEF PollGroups, PollAuthorizes, Poll, SnapshotIsFresh
  <1>4. CASE \E s \in Source : PollFetches(s) \/ PollFetchFails(s)
    BY <1>0, <1>4 DEF PollFetches, PollFetchFails, Poll, SnapshotIsFresh
  <1>5. ASSUME NEW r \in Request, Handler(r) PROVE poll' = poll
    BY <1>5 DEF Handler, SubscribeAuthorized, ChallengeEchoed, ChallengeFails, SubscribeCommits,
       SubscribeRefused, UnsubscribeCommits, UnsubscribeFails, UnsubscribeReturns
  <1>6. ASSUME NEW d \in Delivery, DeliveryStep(d) PROVE poll' = poll
    BY <1>6 DEF DeliveryStep, AttemptAuthorized, AttemptPosts, PostSettles, PostGone,
       PostTransient, Wakes
  <1>7. ASSUME \/ UNCHANGED vars \/ Start \/ Stop \/ Tick \/ \E t \in Trace : Arrives(t)
               \/ \E p \in Principal, answer \in {"granted", "revoked", "outage"} :
                     AccessChanges(p, answer)
               \/ \E r \in Request, i \in Id :
                     \/ \E secret \in Secret, ttl \in Ttls : SubscribeCall(r, i, secret, ttl)
                     \/ UnsubscribeCall(r, i)
        PROVE  poll' = poll
    BY <1>7 DEF Start, Stop, Tick, Arrives, AccessChanges, SubscribeCall, UnsubscribeCall, vars
  <1>8. poll' = poll => SnapshotIsFresh'
    BY DEF SnapshotIsFresh
  <1> QED
    BY <1>1, <1>2, <1>3, <1>4, <1>5, <1>6, <1>7, <1>8 DEF Next, PollStep, Exit, Crash

\* A baseline moves only for a subscription that this poll authorised, and only
\* forwards; it is forgotten only when no record stood behind it.  Neither an
\* outage nor the project it shares with others costs a subscriber its baseline
\* (pollOnce).
THEOREM BaselinesAreKept == Spec => BaselineKept
  <1>1. Init => SnapshotIsFresh
    BY DEF Init, NoPoll, SnapshotIsFresh
  <1>2. TypeOK /\ SnapshotIsFresh /\ [Next]_vars => SnapshotIsFresh'
    BY SnapshotStep
  <1>3. ASSUME TypeOK, SnapshotIsFresh, [Next]_vars, NEW id \in Id,
               seen[id] # None, seen'[id] # seen[id], proc' # "down"
        PROVE  \/ seen'[id] # None /\ seen[id] \subseteq seen'[id] /\ id \in poll.allowed
               \/ seen'[id] = None /\ id \notin poll.snapshot
    <2>1. ASSUME NEW s \in Source, id \in Group(s), seen'[id] = SeenAfter(id, s)
          PROVE  seen'[id] # None /\ seen[id] \subseteq seen'[id] /\ id \in poll.allowed
      <3>1. seen'[id] = seen[id] \cup Recent(s) /\ id \in poll.allowed
        BY <1>3, <2>1 DEF SeenAfter, Group
      <3>2. seen[id] \cup Recent(s) \in SUBSET Trace
        BY <1>3 DEF TypeOK, PollerType, WorldType, Recent
      <3> QED
        BY <3>1, <3>2, NoneAssumption
    <2>2. CASE seen'[id] = None
      <3>1. CASE PollBegins
        BY <1>3, <3>1 DEF PollBegins, SnapshotIsFresh
      <3>2. CASE GoDown
        BY <1>3, <3>2 DEF GoDown
      <3>3. ASSUME NEW s \in Source, id \in Group(s), seen'[id] = SeenAfter(id, s)
            PROVE  FALSE
        BY <2>1, <2>2, <3>3
      <3> QED
        BY <1>3, <2>2, <3>1, <3>2, <3>3, SeenChanges
    <2> QED
      BY <1>3, <2>1, <2>2, SeenChanges
  <1>4. TypeOK /\ SnapshotIsFresh /\ [Next]_vars =>
          [\A id \in Id : seen[id] # None /\ seen'[id] # seen[id] /\ proc' # "down" =>
              \/ seen'[id] # None /\ seen[id] \subseteq seen'[id] /\ id \in poll.allowed
              \/ seen'[id] = None /\ id \notin poll.snapshot]_vars
    BY <1>3
  <1> QED
    BY <1>1, <1>2, <1>4, TypeCorrect, PTL DEF Spec, BaselineKept

=============================================================================
