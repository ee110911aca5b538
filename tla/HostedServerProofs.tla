-------------------------- MODULE HostedServerProofs --------------------------
(***************************************************************************)
(* What HostedServer promises, for every set of configurations and         *)
(* requests, every hierarchy of scopes, every mapping of subjects to       *)
(* projects and every number of attempts.                                  *)
(***************************************************************************)
EXTENDS HostedServer, RequestGateProofs

Early == {"starting", "probing", "configuring", "discovering", "opening"}

\* What the start has established by the time it is at a phase.
ProjectsRead ==
    Cfg("projects") # "invalid" /\ (Cfg("projects") = "valid" => Cfg("transport") = "http")
ContractHeld ==
    seen \cap {"other", "none"} = {} /\ (Cfg("transport") = "http" => "same" \in seen)
GateBuilt == auth = (IF Cfg("url") = "none" THEN "none" ELSE Cfg("provider"))

StartInv ==
    /\ phase \notin {"starting", "failed"} \cup Ended => ProjectsRead
    /\ phase = "starting" => seen = {} /\ attempt = 0
    /\ phase = "probing" => seen \cap {"other", "none"} = {}
    /\ phase \in {"configuring", "discovering", "opening", "binding", "serving"} => ContractHeld
    /\ phase \in {"configuring", "discovering", "opening"} => Cfg("transport") = "http"
    /\ phase \in {"starting", "probing", "configuring"} => auth = "none"
    /\ phase = "probing" => attempt < Attempts
    /\ phase = "discovering" => auth = "auth0" /\ attempt < Candidates
    /\ phase \in {"discovering", "opening", "binding", "serving", "stopping"}
          /\ Cfg("transport") = "http" => ~Misconfigured /\ GateBuilt
    /\ Cfg("transport") = "stdio" => auth = "none"

SupportInv ==
    phase \in {"opening", "binding", "serving"} /\ auth = "auth0"
        => HasProfile(metadata) /\ Satisfies(metadata)

EventsInv ==
    /\ events = "running" => Cfg("transport") = "http"
    /\ phase \in Early => events = "none"
    /\ EventsCanRecheck

RequestInv ==
    /\ phase \notin {"serving", "stopping"} \cup Ended => request = Idle
    /\ Cfg("transport") = "stdio" => request = Idle
    /\ request.at = "handler" /\ Cfg("projects") # "unset" =>
           Cfg("projects") = "valid" /\ request.who \in Subjects

StopInv ==
    /\ phase \notin {"stopping"} \cup Ended =>
           runtime = "open" /\ closing = {} /\ left = {} /\ events # "stopped"
    /\ phase = "serving" => listeners = Signal
    /\ phase = "failed" \/ left # {} => exitCode = 1
    /\ phase = "stopping" /\ events = "running" => "events" \in closing
    /\ phase = "stopping" /\ request.at = "handler" => "handler" \in closing \/ exitCode = 1
    /\ TelemetryClosesLast
    /\ ExitZeroIsClean

IInv == TypeOK /\ StartInv /\ SupportInv /\ EventsInv /\ RequestInv /\ StopInv

LEMMA InitHolds == ASSUME Init PROVE IInv
  BY HostedAssumption DEF Init, IInv, TypeOK, StartInv, SupportInv, EventsInv, RequestInv,
     StopInv, TelemetryClosesLast, ExitZeroIsClean, EventsCanRecheck, Early, Ended, Idle, Signal,
     Part, Endpoint, Cfg

\* What the proofs use of a configuration.
LEMMA ConfigTyped ==
    ASSUME TypeOK
    PROVE  /\ Cfg("transport") \in {"http", "stdio"}
           /\ Cfg("projects") \in {"unset", "invalid", "valid"}
           /\ Cfg("url") \in {"none", "bad", "https"}
           /\ Cfg("provider") \in {"auth0", "access", "bad"}
  BY HostedAssumption DEF TypeOK, Configuration, Cfg

\* A probe that leaves the handshake has found the revision of this build, or
\* nothing at all and serves stdio.
LEMMA ProbeOutcome ==
    ASSUME TypeOK, StartInv, Probe
    PROVE  /\ phase = "probing"
           /\ UNCHANGED <<config, auth, metadata, events, listeners>>
           /\ attempt' = attempt + 1
           /\ seen' \subseteq seen \cup {"same", "other", "none", "nothing"}
           /\ \/ phase' = "failed" /\ exitCode' = 1
              \/ /\ phase' = "probing" /\ exitCode' = exitCode
                 /\ attempt + 1 < Attempts /\ seen' = seen \cup {"nothing"}
              \/ /\ phase' = Serves /\ exitCode' = exitCode
                 /\ \/ seen' = seen \cup {"same"}
                    \/ Cfg("transport") = "stdio" /\ seen' = seen \cup {"nothing"}
  <1>0. phase = "probing" /\ UNCHANGED <<config, auth, metadata, events, listeners>>
    BY DEF Probe
  <1>1. PICK h \in Health :
          /\ seen' = seen \cup {Evidence(h)}
          /\ attempt' = attempt + 1
          /\ CASE Kind(h) = "match" -> GoesTo(Serves)
               [] Kind(h) \in {"skew", "pre-revision"} -> StartupFails
               [] Kind(h) = "unreachable" ->
                      IF Another THEN GoesTo("probing")
                      ELSE Checks(~StartsUnverified, Serves)
    BY DEF Probe
  <1>2. \/ Kind(h) = "match" /\ Evidence(h) = "same"
        \/ Kind(h) \in {"skew", "pre-revision"}
        \/ Kind(h) = "unreachable" /\ Evidence(h) = "nothing"
    BY DEF Kind, Evidence, Health
  <1>3. seen' \subseteq seen \cup {"same", "other", "none", "nothing"}
    BY <1>1 DEF Evidence, Health
  <1>4. CASE Kind(h) = "match" /\ Evidence(h) = "same"
    BY <1>0, <1>1, <1>3, <1>4 DEF GoesTo
  <1>5. CASE Kind(h) \in {"skew", "pre-revision"}
    BY <1>0, <1>1, <1>3, <1>5 DEF StartupFails
  <1>6. CASE Kind(h) = "unreachable" /\ Evidence(h) = "nothing"
    BY <1>0, <1>1, <1>3, <1>6 DEF StartupFails, GoesTo, Checks, Another, StartsUnverified
  <1> QED
    BY <1>2, <1>4, <1>5, <1>6

\* Each step of the start keeps the invariant.
LEMMA StartupKeeps == ASSUME IInv, Startup PROVE IInv'
  <1>0. /\ TypeOK /\ StartInv /\ SupportInv /\ EventsInv /\ RequestInv /\ StopInv
        /\ Cfg("transport") \in {"http", "stdio"} /\ Cfg("projects") \in {"unset", "invalid", "valid"}
        /\ Cfg("url") \in {"none", "bad", "https"} /\ Cfg("provider") \in {"auth0", "access", "bad"}
    BY ConfigTyped DEF IInv
  <1>t. /\ UNCHANGED <<config, request, closing, left, runtime>>
        /\ phase \in Early \cup {"binding"}
        /\ \A field : Cfg(field)' = Cfg(field)
    BY  DEF Startup, Cfg, Early, ReadProjects, Probe, Configure, CandidateFails,
       Discovered, OpenEvents, Bind
  <1>1. CASE ReadProjects
    <2>1. TypeOK'
      BY <1>0, <1>t, <1>1, HostedAssumption DEF ReadProjects, Checks, StartupFails,
         GoesTo, TypeOK, StartInv, Ended, Signal, Attempts, Early
    <2>2. StartInv'
      BY <1>0, <1>t, <1>1, HostedAssumption DEF ReadProjects, Checks, StartupFails,
         GoesTo, TypeOK, StartInv, ProjectsRead, ContractHeld, GateBuilt, Ended,
         Attempts, Candidates, Misconfigured, ProviderRefused, UrlRefused, UrlMissing,
         PinRefused, NeedsAuth0
    <2>3. SupportInv'
      BY <1>0, <1>t, <1>1 DEF ReadProjects, Checks, StartupFails, GoesTo, StartInv,
         SupportInv, HasProfile, Satisfies
    <2>4. EventsInv'
      BY <1>0, <1>t, <1>1 DEF ReadProjects, Checks, StartupFails, GoesTo, StartInv,
         SupportInv, EventsInv, EventsCanRecheck, Early, Misconfigured, UrlRefused,
         GateBuilt, HasProfile
    <2>5. RequestInv'
      BY <1>0, <1>t, <1>1 DEF ReadProjects, Checks, StartupFails, GoesTo, RequestInv,
         Ended, Early
    <2>6. StopInv'
      BY <1>0, <1>t, <1>1 DEF ReadProjects, Checks, StartupFails, GoesTo, EventsInv,
         RequestInv, StopInv, TelemetryClosesLast, ExitZeroIsClean, Ended, Early, Idle
    <2> QED
      BY <2>1, <2>2, <2>3, <2>4, <2>5, <2>6 DEF IInv
  <1>2. CASE Probe
    <2>1. TypeOK'
      <3>1. attempt \in Nat /\ attempt < Attempts /\ auth = "none"
        BY <1>0, <1>2, ProbeOutcome, HostedAssumption DEF TypeOK, StartInv
      <3>2. attempt' \in 0 .. HttpAttempts
        BY <1>0, <1>2, <3>1, ProbeOutcome, HostedAssumption DEF Attempts
      <3>3. /\ phase' \in {"probing", "binding", "configuring", "failed"}
            /\ seen' \subseteq {"same", "other", "none", "nothing"} /\ exitCode' \in {0, 1}
        BY <1>0, <1>2, ProbeOutcome DEF Serves, TypeOK
      <3> QED
        BY <1>0, <1>t, <1>2, <3>1, <3>2, <3>3, ProbeOutcome DEF TypeOK
    <2>2. StartInv'
      BY <1>0, <1>t, <1>2, ProbeOutcome DEF TypeOK, StartInv, ProjectsRead,
         ContractHeld, GateBuilt, Ended, Attempts, Candidates, Misconfigured,
         ProviderRefused, UrlRefused, UrlMissing, PinRefused, NeedsAuth0, Serves
    <2>3. SupportInv'
      BY <1>0, <1>t, <1>2, ProbeOutcome DEF StartInv, SupportInv, HasProfile, Satisfies,
         Serves
    <2>4. EventsInv'
      BY <1>0, <1>t, <1>2, ProbeOutcome DEF StartInv, SupportInv, EventsInv,
         EventsCanRecheck, Early, Misconfigured, UrlRefused, GateBuilt, HasProfile,
         Serves
    <2>5. RequestInv'
      BY <1>0, <1>t, <1>2, ProbeOutcome DEF RequestInv, Ended, Early, Serves
    <2>6. StopInv'
      BY <1>0, <1>t, <1>2, ProbeOutcome DEF EventsInv, RequestInv, StopInv,
         TelemetryClosesLast, ExitZeroIsClean, Ended, Early, Idle, Serves
    <2> QED
      BY <2>1, <2>2, <2>3, <2>4, <2>5, <2>6 DEF IInv
  <1>3. CASE Configure
    <2>1. TypeOK'
      BY <1>0, <1>t, <1>3, HostedAssumption DEF Configure, Checks, StartupFails, GoesTo,
         Misconfigured, ProviderRefused, UrlRefused, NeedsAuth0, TypeOK, StartInv,
         Ended, Signal, Attempts, Early
    <2>2. StartInv'
      BY <1>0, <1>t, <1>3 DEF Configure, Checks, StartupFails, GoesTo, Misconfigured,
         ProviderRefused, UrlRefused, NeedsAuth0, TypeOK, StartInv, ProjectsRead,
         ContractHeld, GateBuilt, Ended, Attempts, Candidates, UrlMissing, PinRefused
    <2>3. SupportInv'
      BY <1>0, <1>t, <1>3 DEF Configure, Checks, StartupFails, GoesTo, Misconfigured,
         ProviderRefused, UrlRefused, NeedsAuth0, StartInv, SupportInv, HasProfile,
         Satisfies
    <2>4. EventsInv'
      BY <1>0, <1>t, <1>3 DEF Configure, Checks, StartupFails, GoesTo, Misconfigured,
         ProviderRefused, UrlRefused, NeedsAuth0, StartInv, SupportInv, EventsInv,
         EventsCanRecheck, Early, GateBuilt, HasProfile
    <2>5. RequestInv'
      BY <1>0, <1>t, <1>3 DEF Configure, Checks, StartupFails, GoesTo, Misconfigured,
         ProviderRefused, UrlRefused, NeedsAuth0, RequestInv, Ended, Early
    <2>6. StopInv'
      BY <1>0, <1>t, <1>3 DEF Configure, Checks, StartupFails, GoesTo, Misconfigured,
         ProviderRefused, UrlRefused, NeedsAuth0, EventsInv, RequestInv, StopInv,
         TelemetryClosesLast, ExitZeroIsClean, Ended, Early, Idle
    <2> QED
      BY <2>1, <2>2, <2>3, <2>4, <2>5, <2>6 DEF IInv
  <1>4. CASE CandidateFails
    <2>1. TypeOK'
      BY <1>0, <1>t, <1>4, HostedAssumption DEF CandidateFails, Checks, StartupFails,
         GoesTo, Candidates, TypeOK, StartInv, Ended, Signal, Attempts, Early
    <2>2. StartInv'
      BY <1>0, <1>t, <1>4 DEF CandidateFails, Checks, StartupFails, GoesTo, Candidates,
         TypeOK, StartInv, ProjectsRead, ContractHeld, GateBuilt, Ended, Attempts,
         Misconfigured, ProviderRefused, UrlRefused, UrlMissing, PinRefused, NeedsAuth0
    <2>3. SupportInv'
      BY <1>0, <1>t, <1>4 DEF CandidateFails, Checks, StartupFails, GoesTo, Candidates,
         StartInv, SupportInv, HasProfile, Satisfies
    <2>4. EventsInv'
      BY <1>0, <1>t, <1>4 DEF CandidateFails, Checks, StartupFails, GoesTo, Candidates,
         StartInv, SupportInv, EventsInv, EventsCanRecheck, Early, Misconfigured,
         UrlRefused, GateBuilt, HasProfile
    <2>5. RequestInv'
      BY <1>0, <1>t, <1>4 DEF CandidateFails, Checks, StartupFails, GoesTo, Candidates,
         RequestInv, Ended, Early
    <2>6. StopInv'
      BY <1>0, <1>t, <1>4 DEF CandidateFails, Checks, StartupFails, GoesTo, Candidates,
         EventsInv, RequestInv, StopInv, TelemetryClosesLast, ExitZeroIsClean, Ended,
         Early, Idle
    <2> QED
      BY <2>1, <2>2, <2>3, <2>4, <2>5, <2>6 DEF IInv
  <1>5. CASE Discovered
    <2>1. TypeOK'
      BY <1>0, <1>t, <1>5, HostedAssumption DEF Discovered, Checks, StartupFails,
         GoesTo, HasProfile, TypeOK, StartInv, Ended, Signal, Attempts, Early
    <2>2. StartInv'
      BY <1>0, <1>t, <1>5 DEF Discovered, Checks, StartupFails, GoesTo, HasProfile,
         TypeOK, StartInv, ProjectsRead, ContractHeld, GateBuilt, Ended, Attempts,
         Candidates, Misconfigured, ProviderRefused, UrlRefused, UrlMissing, PinRefused,
         NeedsAuth0
    <2>3. SupportInv'
      BY <1>0, <1>t, <1>5 DEF Discovered, Checks, StartupFails, GoesTo, HasProfile,
         StartInv, SupportInv, Satisfies
    <2>4. EventsInv'
      BY <1>0, <1>t, <1>5 DEF Discovered, Checks, StartupFails, GoesTo, HasProfile,
         StartInv, SupportInv, EventsInv, EventsCanRecheck, Early, Misconfigured,
         UrlRefused, GateBuilt
    <2>5. RequestInv'
      BY <1>0, <1>t, <1>5 DEF Discovered, Checks, StartupFails, GoesTo, HasProfile,
         RequestInv, Ended, Early
    <2>6. StopInv'
      BY <1>0, <1>t, <1>5 DEF Discovered, Checks, StartupFails, GoesTo, HasProfile,
         EventsInv, RequestInv, StopInv, TelemetryClosesLast, ExitZeroIsClean, Ended,
         Early, Idle
    <2> QED
      BY <2>1, <2>2, <2>3, <2>4, <2>5, <2>6 DEF IInv
  <1>6. CASE OpenEvents
    <2>1. TypeOK'
      BY <1>0, <1>t, <1>6, HostedAssumption DEF OpenEvents, StartupFails, GoesTo,
         EventsRefused, TypeOK, StartInv, Ended, Signal, Attempts, Early
    <2>2. StartInv'
      BY <1>0, <1>t, <1>6 DEF OpenEvents, StartupFails, GoesTo, EventsRefused, TypeOK,
         StartInv, ProjectsRead, ContractHeld, GateBuilt, Ended, Attempts, Candidates,
         Misconfigured, ProviderRefused, UrlRefused, UrlMissing, PinRefused, NeedsAuth0
    <2>3. SupportInv'
      BY <1>0, <1>t, <1>6 DEF OpenEvents, StartupFails, GoesTo, EventsRefused, StartInv,
         SupportInv, HasProfile, Satisfies
    <2>4. EventsInv'
      BY <1>0, <1>t, <1>6 DEF OpenEvents, StartupFails, GoesTo, EventsRefused, StartInv,
         SupportInv, EventsInv, EventsCanRecheck, Early, Misconfigured, UrlRefused,
         GateBuilt, HasProfile
    <2>5. RequestInv'
      BY <1>0, <1>t, <1>6 DEF OpenEvents, StartupFails, GoesTo, EventsRefused,
         RequestInv, Ended, Early
    <2>6. StopInv'
      BY <1>0, <1>t, <1>6 DEF OpenEvents, StartupFails, GoesTo, EventsRefused,
         EventsInv, RequestInv, StopInv, TelemetryClosesLast, ExitZeroIsClean, Ended,
         Early, Idle
    <2> QED
      BY <2>1, <2>2, <2>3, <2>4, <2>5, <2>6 DEF IInv
  <1>7. CASE Bind
    <2>1. TypeOK'
      <3>1. /\ phase' \in {"serving", "failed"} /\ listeners' \subseteq Signal
            /\ exitCode' \in {0, 1}
        BY <1>0, <1>7 DEF Bind, StartupFails, GoesTo, TypeOK
      <3> QED
        BY <1>0, <1>t, <1>7, <3>1 DEF Bind, TypeOK
    <2>2. StartInv'
      BY <1>0, <1>t, <1>7 DEF Bind, StartupFails, GoesTo, TypeOK, StartInv,
         ProjectsRead, ContractHeld, GateBuilt, Ended, Attempts, Candidates,
         Misconfigured, ProviderRefused, UrlRefused, UrlMissing, PinRefused, NeedsAuth0
    <2>3. SupportInv'
      BY <1>0, <1>t, <1>7 DEF Bind, StartupFails, GoesTo, StartInv, SupportInv,
         HasProfile, Satisfies
    <2>4. EventsInv'
      BY <1>0, <1>t, <1>7 DEF Bind, StartupFails, GoesTo, StartInv, SupportInv,
         EventsInv, EventsCanRecheck, Early, Misconfigured, UrlRefused, GateBuilt,
         HasProfile
    <2>5. RequestInv'
      BY <1>0, <1>t, <1>7 DEF Bind, StartupFails, GoesTo, RequestInv, Ended, Early
    <2>6. StopInv'
      BY <1>0, <1>t, <1>7 DEF Bind, Cfg, LeftByClient, StartupFails, GoesTo, EventsInv, RequestInv,
         StopInv, TelemetryClosesLast, ExitZeroIsClean, Ended, Early, Idle
    <2> QED
      BY <2>1, <2>2, <2>3, <2>4, <2>5, <2>6 DEF IInv
  <1> QED
    BY <1>1, <1>2, <1>3, <1>4, <1>5, <1>6, <1>7 DEF Startup

\* What a gate answers; under Auth0 it admits nobody but the subject of a token.
LEMMA GateAnswers ==
    ASSUME NEW keys \in BOOLEAN, NEW r \in Request, auth \in {"none", "auth0", "access"}
    PROVE  LET answer == Gate(auth, r, keys) IN
           /\ answer.asks \in SUBSET Scope
           /\ answer.who \in Subjects \cup {Nobody}
           /\ auth = "auth0" /\ answer.status = 200 => answer.who \in Subjects
  <1>1. r.subject \in Subjects /\ Required \subseteq Scope
    BY ScopeAssumption DEF Request
  <1>2. CASE auth = "auth0"
    <2>1. \/ BearerGate(r, keys) = Refuse(400, Required)
          \/ BearerGate(r, keys) = Admit(r.subject)
          \/ BearerGate(r, keys) = Refuse(403, Lacking(r))
          \/ BearerGate(r, keys) = Refuse(401, Scope)
      BY DEF BearerGate, Verifies, Request
    <2> QED
      BY <1>1, <1>2, <2>1 DEF Gate, Admit, Refuse, Lacking
  <1>3. CASE auth # "auth0"
    BY <1>1, <1>3 DEF Gate, AccessGate, Admit, Refuse
  <1> QED
    BY <1>2, <1>3

\* A request moves without touching the process.
LEMMA RequestsKeep ==
    ASSUME IInv, (\E r \in Requests : Arrives(r)) \/ RequestStep
    PROVE  IInv'
  <1>0. /\ TypeOK /\ StartInv /\ SupportInv /\ EventsInv /\ RequestInv /\ StopInv
        /\ RequestMoves
        /\ \A field : Cfg(field)' = Cfg(field)
    BY DEF IInv, RequestStep, Arrives, GateEnds, HandlerEnds, Responds, RequestMoves, Cfg
  <1>1. /\ StartInv' /\ SupportInv' /\ EventsInv'
    BY <1>0 DEF RequestMoves, StartInv, SupportInv, EventsInv, EventsCanRecheck, ProjectsRead,
       ContractHeld, GateBuilt, Attempts, Satisfies, Misconfigured, UrlRefused, UrlMissing,
       ProviderRefused, PinRefused, NeedsAuth0
  <1> DEFINE Moved ==
        [at : {"gate", "handler", "challenged", "answered"}, r : Requests,
         asks : SUBSET Scope, who : Subjects \cup {Nobody}]
  <1>2. ASSUME NEW r \in Requests, Arrives(r)
        PROVE  /\ request' \in Moved /\ request'.at # "handler"
               /\ phase = "serving" /\ Cfg("transport") = "http"
    BY <1>2 DEF Arrives
  <1>a. ASSUME request.at \in {"gate", "handler"}
        PROVE  /\ request \in Moved /\ request.r \in Request
               /\ phase \in {"serving", "stopping"} /\ Cfg("transport") = "http"
               /\ auth \in {"none", "auth0", "access"}
    <2>1. request # Idle
      BY <1>a DEF Idle
    <2> QED
      BY <1>0, <2>1, ConfigTyped, HostedAssumption DEF TypeOK, RequestInv, RequestMoves
  <1>3. ASSUME NEW keys \in BOOLEAN, GateEnds(keys)
        PROVE  /\ request' = Idle \/ request' \in Moved
               /\ request'.at = "handler" =>
                      /\ ~ HandlerClosed
                      /\ Cfg("projects") # "unset" =>
                             Cfg("projects") = "valid" /\ request'.who \in Subjects
    <2>1. /\ request \in Moved /\ request.r \in Request /\ phase \in {"serving", "stopping"}
          /\ Cfg("transport") = "http"
          /\ auth \in {"none", "auth0", "access"}
      BY <1>a, <1>3 DEF GateEnds
    <2>2. Cfg("projects") # "unset" => Cfg("projects") = "valid" /\ auth = "auth0"
      BY <1>0, <2>1, ConfigTyped
         DEF StartInv, ProjectsRead, GateBuilt, Misconfigured, NeedsAuth0, ProviderRefused, Ended
    <2> DEFINE answer == Gate(auth, request.r, keys)
    <2>3. /\ answer.asks \in SUBSET Scope /\ answer.who \in Subjects \cup {Nobody}
          /\ auth = "auth0" /\ answer.status = 200 => answer.who \in Subjects
      BY <2>1, GateAnswers
    <2>4. CASE answer.status = 200 /\ ~ HandlerClosed
      <3>1. request' = [request EXCEPT !.at = "handler", !.who = answer.who]
        BY <1>3, <2>4 DEF GateEnds
      <3> HIDE DEF answer
      <3> QED
        BY <2>1, <2>2, <2>3, <2>4, <3>1
    <2>5. CASE answer.status # 200
      <3>1. request' = [request EXCEPT !.at = "challenged", !.asks = answer.asks]
        BY <1>3, <2>5 DEF GateEnds
      <3> HIDE DEF answer
      <3> QED
        BY <2>1, <2>3, <3>1
    <2>6. CASE answer.status = 200 /\ HandlerClosed
      BY <1>3, <2>6 DEF GateEnds, Idle
    <2> QED
      BY <2>4, <2>5, <2>6
  <1>4. ASSUME HandlerEnds
        PROVE  request' \in Moved /\ request'.at = "answered" /\ request # Idle
    <2>1. request # Idle /\ request \in Moved
      BY <1>a, <1>4 DEF HandlerEnds, Idle
    <2> QED
      BY <1>4, <2>1 DEF HandlerEnds
  <1>5. ASSUME Responds PROVE request' = Idle
    BY <1>5 DEF Responds
  <1>6. request' = Idle \/ request' \in Moved
    BY <1>2, <1>3, <1>4, <1>5 DEF RequestStep
  <1>7. TypeOK'
    BY <1>0, <1>6 DEF TypeOK, RequestMoves
  <1>8. Idle.at \notin {"gate", "handler", "challenged", "answered"}
    BY DEF Idle
  <1>9. RequestInv'
    <2>1. CASE request' = Idle
      BY <2>1, <1>8 DEF RequestInv
    <2>2. CASE request' # Idle
      <3>1. phase \in {"serving", "stopping"} /\ Cfg("transport") = "http"
        BY <1>2, <1>a, <1>5, <2>2 DEF RequestStep, GateEnds, HandlerEnds
      <3>2. request'.at = "handler" /\ Cfg("projects") # "unset" =>
                Cfg("projects") = "valid" /\ request'.who \in Subjects
        BY <1>2, <1>3, <1>4, <1>5, <2>2 DEF RequestStep
      <3> QED
        BY <1>0, <3>1, <3>2, ConfigTyped DEF RequestInv, RequestMoves
    <2> QED
      BY <2>1, <2>2
  <1>10. request'.at = "handler" => phase = "serving" \/ "handler" \in closing
    <2>1. request'.at = "handler" => \E keys \in BOOLEAN : GateEnds(keys)
      BY <1>2, <1>4, <1>5, <1>8 DEF RequestStep
    <2>2. (\E keys \in BOOLEAN : GateEnds(keys)) => phase \in {"serving", "stopping"}
      BY <1>a DEF GateEnds
    <2> QED
      BY <1>3, <2>1, <2>2 DEF HandlerClosed
  <1>11. StopInv'
    BY <1>0, <1>10 DEF RequestMoves, StopInv, TelemetryClosesLast, ExitZeroIsClean, LeftByClient,
       Ended
  <1> QED
    BY <1>1, <1>7, <1>9, <1>11 DEF IInv

\* The shutdown, the end of the process, and signals.
LEMMA ShutdownKeeps ==
    ASSUME IInv, Shutdown \/ StdinEnds \/ \E s \in Signal : Signalled(s)
    PROVE  IInv'
  <1>a. /\ TypeOK /\ StartInv /\ SupportInv /\ EventsInv /\ RequestInv /\ StopInv
        /\ Cfg("transport") \in {"http", "stdio"}
    BY ConfigTyped DEF IInv
  <1>b. /\ UNCHANGED <<config, attempt, seen, auth, metadata>>
        /\ \/ phase' = phase \/ phase' \in Ended
           \/ phase' = "stopping" /\ phase = "serving"
        /\ events' = events \/ (phase = "stopping" /\ events' = "stopped")
        /\ request' \in {request, Idle}
    <2>1. CASE \E part \in Part : Stops(part)
      BY <2>1 DEF Stops, Resolves, Rejects
    <2>2. CASE CloseRuntime
      BY <2>2 DEF CloseRuntime
    <2>3. CASE Exits \/ StdinEnds
      BY <2>3 DEF Exits, StdinEnds, Ends, Ended
    <2>4. CASE \E s \in Signal : Signalled(s)
      BY <2>4 DEF Signalled, Begins, Ended
    <2> QED
      BY <2>1, <2>2, <2>3, <2>4 DEF Shutdown
  <1>0. \A field : Cfg(field)' = Cfg(field)
    BY <1>b DEF Cfg
  <1>1. /\ StartInv' /\ SupportInv'
    BY <1>a, <1>b, <1>0 DEF StartInv, SupportInv, ProjectsRead, ContractHeld,
       GateBuilt, Attempts, Satisfies, Misconfigured, UrlRefused, UrlMissing, ProviderRefused,
       PinRefused, NeedsAuth0, Ended
  <1>2. EventsInv' /\ RequestInv'
    <2>1. /\ events' = "running" => events = "running"
          /\ phase' \in Early => phase \in Early /\ events' = events
      BY <1>b DEF Early, Ended
    <2>2. EventsInv'
      BY <1>a, <1>b, <2>1 DEF EventsInv, EventsCanRecheck, Cfg
    <2>3. RequestInv'
      <3>1. phase' \notin {"serving", "stopping"} \cup Ended =>
                phase \notin {"serving", "stopping"} \cup Ended
        BY <1>b DEF Ended
      <3> QED
        BY <1>a, <1>b, <1>0, <3>1 DEF RequestInv, Idle
    <2> QED
      BY <2>2, <2>3
  <1>3. CASE \E part \in Part : Stops(part)
    <2>1. PICK part \in Part : Stops(part)
      BY <1>3
    <2>2. /\ closing' \subseteq closing /\ phase = "stopping" /\ UNCHANGED <<phase, runtime, listeners>>
          /\ events' = IF part = "events" THEN "stopped" ELSE events
          /\ closing' = closing \ {part}
      BY <2>1 DEF Stops
    <2>3. /\ request' = request \/ request' = Idle
          /\ \/ left' = left /\ exitCode' = exitCode
             \/ left' \subseteq left \cup Endpoint /\ exitCode' = 1
          /\ request'.at = "handler" => request.at = "handler" /\ (part # "handler" \/ exitCode' = 1)
      BY <2>1 DEF Stops, Resolves, Rejects, Idle
    <2>4. TypeOK'
      BY <1>a, <1>b, <2>2, <2>3 DEF TypeOK
    <2>5. runtime = "closed" => closing = {}
      BY <1>a DEF StopInv, TelemetryClosesLast
    <2>6. StopInv'
      BY <1>a, <2>1, <2>2, <2>3, <2>5 DEF Stops, StopInv, TelemetryClosesLast, ExitZeroIsClean, Ended
    <2> QED
      BY <1>1, <1>2, <2>4, <2>6 DEF IInv
  <1>4. CASE CloseRuntime
    <2>1. TypeOK'
      BY <1>a, <1>b, <1>4 DEF CloseRuntime, TypeOK
    <2>2. StopInv'
      BY <1>a, <1>4 DEF CloseRuntime, AfterAll, StopInv, TelemetryClosesLast, ExitZeroIsClean, Ended
    <2> QED
      BY <1>1, <1>2, <2>1, <2>2 DEF IInv
  <1>5. CASE Exits \/ StdinEnds
    <2>1. Ends
      BY <1>5 DEF Exits, StdinEnds
    <2>2. TypeOK'
      BY <1>a, <2>1 DEF Ends, TypeOK, Ended
    <2>3. exitCode = 0 => \/ runtime = "closed" /\ closing = {} /\ left = {}
                          \/ Cfg("transport") = "stdio" /\ listeners = Signal
      BY <1>a, <1>5 DEF Exits, LoopEmpty, Stopped, StdinEnds, StopInv
    <2>4. StopInv'
      BY <1>a, <1>0, <2>1, <2>3 DEF Ends, StopInv, TelemetryClosesLast, ExitZeroIsClean,
         LeftByClient, Ended
    <2> QED
      BY <1>1, <1>2, <2>2, <2>4 DEF IInv
  <1>6. CASE \E s \in Signal : Signalled(s)
    <2>1. PICK s \in Signal : Signalled(s)
      BY <1>6
    <2>2. /\ UNCHANGED <<events, request, left, runtime, exitCode>>
          /\ listeners' \subseteq listeners /\ phase \notin Ended
          /\ \/ phase # "serving" /\ UNCHANGED <<phase, closing>>
             \/ phase = "serving" /\ phase' = "stopping" /\ closing' = Parts
             \/ phase' = "killed" /\ UNCHANGED closing
      BY <2>1 DEF Signalled, Begins
    <2>3. Parts \subseteq Part
      BY DEF Parts, Part
    <2>4. TypeOK'
      <3>1. /\ phase' \in {phase, "stopping"} \cup Ended /\ listeners' \subseteq Signal
            /\ closing' \subseteq Part
        BY <1>a, <2>2, <2>3 DEF TypeOK, Ended
      <3> QED
        BY <1>a, <1>b, <2>2, <3>1 DEF TypeOK
    <2>5. phase = "serving" /\ events = "running" => Cfg("transport") = "http"
      BY <1>a, <1>b, <1>0 DEF StartInv, EventsInv, EventsCanRecheck
    <2>6. /\ request.at = "handler" => Cfg("transport") = "http"
          /\ Cfg("transport") = "http" =>
                 /\ "handler" \in Parts
                 /\ events = "running" => "events" \in Parts
      BY <1>a, <1>b, <1>0 DEF RequestInv, Idle, Parts
    <2>7. StopInv'
      BY <1>a, <1>0, <2>2, <2>5, <2>6 DEF StopInv, TelemetryClosesLast, ExitZeroIsClean, Ended
    <2> QED
      BY <1>1, <1>2, <2>4, <2>7 DEF IInv
  <1> QED
    BY <1>3, <1>4, <1>5, <1>6 DEF Shutdown

LEMMA NextKeeps == ASSUME IInv, [Next]_vars PROVE IInv'
  <1>1. CASE Startup
    BY <1>1, StartupKeeps
  <1>2. CASE (\E r \in Requests : Arrives(r)) \/ RequestStep
    BY <1>2, RequestsKeep
  <1>3. CASE Shutdown \/ StdinEnds \/ \E s \in Signal : Signalled(s)
    BY <1>3, ShutdownKeeps
  <1>4. CASE UNCHANGED vars
    BY <1>4 DEF vars, IInv, TypeOK, StartInv, SupportInv, EventsInv, RequestInv, StopInv,
       TelemetryClosesLast, ExitZeroIsClean, LeftByClient, EventsCanRecheck, ProjectsRead,
       ContractHeld, GateBuilt, Attempts, Satisfies, Misconfigured, UrlRefused, UrlMissing, ProviderRefused,
       PinRefused, NeedsAuth0, Cfg
  <1> QED
    BY <1>1, <1>2, <1>3, <1>4 DEF Next

\* What a start has established stays established: each phase of bootstrap() is
\* reached only with what the phases before it have checked, and nothing that a
\* request or the shutdown does takes it back.
THEOREM Inductive == Spec => []IInv
  <1>1. Init => IInv
    BY InitHolds
  <1>2. IInv /\ [Next]_vars => IInv'
    BY NextKeeps
  <1> QED
    BY <1>1, <1>2, PTL DEF Spec

\* Every variable keeps its type; the attempts of the handshake and of discovery
\* stay within their limits.
THEOREM TypeCorrect == Spec => []TypeOK
  <1>1. IInv => TypeOK
    BY DEF IInv
  <1> QED
    BY <1>1, Inductive, PTL

\* However many attempts the handshake has, and whatever each of them finds, no
\* transport serves on evidence of another contract, and the hosted one only on
\* evidence of this one (contract-handshake.ts).
THEOREM MatchedContract == Spec => []ServesOnlyMatched
  <1>1. IInv => ServesOnlyMatched
    BY DEF IInv, StartInv, ContractHeld, ServesOnlyMatched
  <1> QED
    BY <1>1, Inductive, PTL

\* Events run only under Auth0 with its management credentials, on a public URL,
\* whatever the environment enables (hostedEvents of main.ts).
THEOREM RecheckableEvents == Spec => []EventsCanRecheck
  <1>1. IInv => EventsCanRecheck
    BY DEF IInv, EventsInv
  <1> QED
    BY <1>1, Inductive, PTL

\* An endpoint under Auth0 serves only what its authorization server supports,
\* for any set of extensions and any answer of discovery (auth-extensions.ts).
THEOREM SupportedOnly == Spec => []ServesWhatIsSupported
  <1>1. IInv => ServesWhatIsSupported
    BY DEF IInv, SupportInv, ServesWhatIsSupported, HasProfile, Satisfies, Requires
  <1> QED
    BY <1>1, Inductive, PTL

\* All three together: what is served was checked before it was served.
THEOREM OnlyCheckedServes == Spec => []ServesOnlyChecked
  BY MatchedContract, RecheckableEvents, SupportedOnly, PTL DEF ServesOnlyChecked

\* A call is made, and its telemetry exported, with the credential of the verified
\* caller's own project, for any mapping of subjects to projects (collector-access.ts).
THEOREM OwnProject == Spec => []CallsUseOwnProject
  <1>1. IInv => CallsUseOwnProject
    BY DEF IInv, RequestInv, CallsUseOwnProject, ProjectOf, ExporterOf
  <1> QED
    BY <1>1, Inductive, PTL

\* Telemetry is closed after everything that uses it, whichever parts of the
\* shutdown fail and in whatever order they end (shutdown of main.ts).
THEOREM TelemetryLast == Spec => []TelemetryClosesLast
  <1>1. IInv => TelemetryClosesLast
    BY DEF IInv, StopInv
  <1> QED
    BY <1>1, Inductive, PTL

\* Exit code 0 is that of a server that served and was stopped whole, or of a stdio
\* server that its client left before any signal.
THEOREM CleanExit == Spec => []ExitZeroIsClean
  <1>1. IInv => ExitZeroIsClean
    BY DEF IInv, StopInv
  <1> QED
    BY <1>1, Inductive, PTL

\* A second signal, of either kind, does not stop again what has stopped.
THEOREM OneShutdown == Spec => StopsOnce
  <1>1. ASSUME [Next]_vars PROVE phase = "stopping" => closing' \subseteq closing
    <2>1. CASE Startup
      BY <2>1 DEF Startup, ReadProjects, Probe, Configure, CandidateFails, Discovered, OpenEvents,
         Bind
    <2>2. CASE (\E r \in Requests : Arrives(r)) \/ RequestStep
      BY <2>2 DEF RequestStep, Arrives, GateEnds, HandlerEnds, Responds, RequestMoves
    <2>3. CASE Shutdown \/ StdinEnds \/ \E s \in Signal : Signalled(s)
      BY <2>3 DEF Shutdown, Stops, CloseRuntime, Exits, StdinEnds, Ends, Signalled, Begins
    <2>4. CASE UNCHANGED vars
      BY <2>4 DEF vars
    <2> QED
      BY <1>1, <2>1, <2>2, <2>3, <2>4 DEF Next
  <1>2. [Next]_vars => [phase = "stopping" => closing' \subseteq closing]_vars
    BY <1>1
  <1> QED
    BY <1>2, PTL DEF Spec, StopsOnce

\* A shutdown stops every part once and telemetry last, and its exit code tells
\* of one that was completed, whatever rejects and whatever requests still run.
THEOREM ShutdownInOrder == Spec => StopsInOrder
  BY TelemetryLast, CleanExit, OneShutdown, PTL DEF StopsInOrder

-----------------------------------------------------------------------------
(* Requests.                                                               *)

\* What a request has passed by the time it is where it is: nothing before the
\* gate answered it when the gate did, and the gate vouched for it when it is
\* with the handler, or asked for what its challenge says.
Passed(r) == BeforeGate(Cfg("url"), auth, Cfg("portal"), r) = 0
Vouched(r) ==
    /\ auth = "auth0" => r.token = "valid" /\ Required \subseteq Effective(r)
    /\ auth = "access" => r.assertion = "valid"

Challenged(r, asks) ==
    \E keys \in BOOLEAN : LET answer == Gate(auth, r, keys) IN
        answer.status # 200 /\ answer.asks = asks

VerifiedInv ==
    request # Idle =>
        /\ ~Misconfigured /\ GateBuilt
        /\ request.at \in {"gate", "handler", "challenged"} => Passed(request.r)
        /\ request.at = "handler" => Vouched(request.r)
        /\ request.at = "challenged" => Challenged(request.r, request.asks)

\* The gate vouches for whom it admits.
LEMMA GateVouches ==
    ASSUME NEW keys \in BOOLEAN, NEW r \in Request, Gate(auth, r, keys).status = 200
    PROVE  Vouched(r)
  <1>1. CASE auth = "auth0"
    <2>1. BearerGate(r, keys).status = 200
      BY <1>1 DEF Gate
    <2>2. Verifies(r, keys) /\ Required \subseteq Effective(r)
      BY <2>1 DEF BearerGate, Refuse
    <2> QED
      BY <1>1, <2>2 DEF Vouched, Verifies
  <1>2. CASE auth = "access"
    BY <1>2 DEF Gate, AccessGate, Refuse, Vouched
  <1> QED
    BY <1>1, <1>2 DEF Vouched

\* The configuration, and the gate built from it, outlive every request.
LEMMA VerifiedStep == ASSUME IInv, VerifiedInv, [Next]_vars PROVE VerifiedInv'
  <1>0. TypeOK /\ StartInv /\ RequestInv
    BY DEF IInv
  <1>1. ASSUME request' \in {request, Idle}, UNCHANGED <<config, auth>> PROVE VerifiedInv'
    BY <1>1 DEF VerifiedInv, Passed, Vouched, Challenged, Misconfigured, UrlRefused, UrlMissing,
       ProviderRefused, PinRefused, NeedsAuth0, GateBuilt, Cfg
  <1>2. CASE Startup
    <2>1. request = Idle /\ request' = request
      BY <1>0, <1>2 DEF RequestInv, Ended, Startup, ReadProjects, Probe, Configure,
         CandidateFails, Discovered, OpenEvents, Bind
    <2> QED
      BY <2>1 DEF VerifiedInv
  <1>3. CASE \/ Shutdown \/ StdinEnds \/ \E s \in Signal : Signalled(s)
             \/ Responds \/ UNCHANGED vars
    <2>1. request' \in {request, Idle} /\ UNCHANGED <<config, auth>>
      BY <1>3 DEF Shutdown, Stops, Resolves, Rejects, CloseRuntime, Exits, StdinEnds, Ends,
         Signalled, Responds, RequestMoves, vars
    <2> QED
      BY <1>1, <2>1
  <1>4. ASSUME UNCHANGED <<config, auth>>, ~Misconfigured, GateBuilt,
               request'.at \in {"gate", "handler", "challenged"} => Passed(request'.r),
               request'.at = "handler" => Vouched(request'.r),
               request'.at = "challenged" => Challenged(request'.r, request'.asks)
        PROVE  VerifiedInv'
    BY <1>4 DEF VerifiedInv, Passed, Vouched, Challenged, Misconfigured, UrlRefused, UrlMissing,
       ProviderRefused, PinRefused, NeedsAuth0, GateBuilt, Cfg
  <1>5. ASSUME NEW r \in Requests, Arrives(r) PROVE VerifiedInv'
    <2>1. /\ UNCHANGED <<config, auth>> /\ ~Misconfigured /\ GateBuilt
      BY <1>0, <1>5 DEF Arrives, RequestMoves, StartInv
    <2>2. /\ request'.at \in {"gate", "answered"} /\ request'.r = r
          /\ request'.at = "gate" => Passed(r)
      BY <1>5 DEF Arrives, Passed
    <2> QED
      BY <1>4, <2>1, <2>2
  <1>6. ASSUME NEW keys \in BOOLEAN, GateEnds(keys) PROVE VerifiedInv'
    <2>1. request # Idle /\ request.at = "gate" /\ UNCHANGED <<config, auth>>
      BY <1>6 DEF GateEnds, RequestMoves, Idle
    <2>2. /\ request \in [at : {"gate", "handler", "challenged", "answered"}, r : Requests,
                          asks : SUBSET Scope, who : Subjects \cup {Nobody}]
          /\ request.r \in Request
      BY <1>0, <2>1, HostedAssumption DEF TypeOK
    <2>3. ~Misconfigured /\ GateBuilt /\ Passed(request.r)
      BY <2>1 DEF VerifiedInv
    <2> DEFINE answer == Gate(auth, request.r, keys)
    <2>4. CASE request' = Idle
      BY <2>4 DEF VerifiedInv
    <2>5. CASE answer.status = 200 /\ request' # Idle
      <3>1. request'.r = request.r /\ request'.at = "handler"
        BY <1>6, <2>2, <2>5 DEF GateEnds
      <3> QED
        BY <1>4, <2>1, <2>2, <2>3, <2>5, <3>1, GateVouches
    <2>6. CASE answer.status # 200
      <3>1. request'.r = request.r /\ request'.at = "challenged" /\ request'.asks = answer.asks
        BY <1>6, <2>2, <2>6 DEF GateEnds
      <3>2. Challenged(request.r, answer.asks)
        BY <2>6 DEF Challenged
      <3> HIDE DEF answer
      <3> QED
        BY <1>4, <2>1, <2>3, <3>1, <3>2
    <2> QED
      BY <2>4, <2>5, <2>6
  <1>7. CASE HandlerEnds
    <2>1. request # Idle /\ UNCHANGED <<config, auth>>
      BY <1>7 DEF HandlerEnds, RequestMoves, Idle
    <2>2. request'.at = "answered"
      BY <1>0, <1>7, <2>1 DEF HandlerEnds, TypeOK
    <2> QED
      BY <1>4, <2>1, <2>2 DEF VerifiedInv
  <1> QED
    BY <1>2, <1>3, <1>5, <1>6, <1>7 DEF Next, RequestStep

THEOREM VerifiedRequests == Spec => []VerifiedInv
  <1>1. Init => VerifiedInv
    BY DEF Init, VerifiedInv
  <1>2. IInv /\ VerifiedInv /\ [Next]_vars => VerifiedInv'
    BY VerifiedStep
  <1> QED
    BY <1>1, <1>2, Inductive, PTL DEF Spec

\* The closure that the gate computes says just what a hierarchy of scopes means.
LEMMA EffectiveIncludes ==
    ASSUME NEW r \in Request
    PROVE  Required \subseteq Effective(r) <=> Includes(r.scopes, Required)
  <1>1. r.scopes \in SUBSET Scope
    BY DEF Request
  <1>2. ASSUME Includes(r.scopes, Required) PROVE Required \subseteq Effective(r)
    <2>1. ScopeClosure(r.scopes) \in SUBSET Scope
      BY <1>1, ScopeClosureIsLeast
    <2>2. r.scopes \subseteq ScopeClosure(r.scopes) /\ Closed(ScopeClosure(r.scopes))
      BY <1>1, ScopeClosureIsLeast
    <2> QED
      BY <1>2, <2>1, <2>2 DEF Includes, Effective, Closed
  <1>3. ASSUME Required \subseteq Effective(r), NEW C \in SUBSET Scope, r.scopes \subseteq C,
               \A s \in C : Implies[s] \subseteq C
        PROVE  Required \subseteq C
    BY <1>1, <1>3, ScopeClosureIsLeast DEF Effective, Closed
  <1> QED
    BY <1>2, <1>3 DEF Includes

\* Nobody reaches the MCP handler but a caller that the configured gate vouches
\* for, under any hierarchy of scopes, or one on this very machine
\* (createFetch, createResourceAuthorization, createCloudflareAccessAuth).
THEOREM VerifiedOnly == Spec => []HandlerSeesVerified
  <1>1. IInv /\ VerifiedInv => HandlerSeesVerified
    <2> SUFFICES ASSUME IInv, VerifiedInv, request.at = "handler" PROVE HandlerSeesVerified
      BY DEF HandlerSeesVerified
    <2>1. request # Idle
      BY DEF Idle
    <2>2. request.r \in Request
      BY <2>1, HostedAssumption DEF IInv, TypeOK
    <2>3. ~Misconfigured /\ GateBuilt /\ Passed(request.r) /\ Vouched(request.r)
      BY <2>1 DEF VerifiedInv
    <2>4. /\ request.r.path = "mcp" /\ ~ Preflight(request.r)
          /\ ~ Rebinds(Cfg("url"), request.r)
      <3>1. AnswerDiscovery(request.r) # 0 /\ Plain(Cfg("portal"), request.r) # 0
        BY <2>2 DEF AnswerDiscovery, Plain, Request
      <3> QED
        BY <2>3, <3>1 DEF Passed, BeforeGate, Ungated
    <2>5. Cfg("url") = "none" =>
             /\ Cfg("bind") = "loopback"
             /\ request.r.host = "localhost" /\ request.r.origin \in {"none", "localhost"}
      <3>1. Cfg("bind") \in {"loopback", "any"}
        BY HostedAssumption DEF IInv, TypeOK, Configuration, Cfg
      <3> QED
        BY <2>3, <2>4, <3>1 DEF Misconfigured, UrlRefused, UrlMissing, Rebinds, AllowedNames
    <2>6. Cfg("url") # "none" =>
             /\ request.r.host = "public" /\ request.r.origin \in {"none", "public"}
             /\ CASE Cfg("provider") = "auth0" ->
                       request.r.token = "valid" /\ Includes(request.r.scopes, Required)
                  [] Cfg("provider") = "access" -> request.r.assertion = "valid"
      <3>1. Cfg("provider") \in {"auth0", "access"}
        BY <2>3, ConfigTyped DEF IInv, Misconfigured, ProviderRefused
      <3>2. Required \subseteq Effective(request.r) <=> Includes(request.r.scopes, Required)
        BY <2>2, EffectiveIncludes
      <3> QED
        BY <2>3, <2>4, <3>1, <3>2 DEF GateBuilt, Vouched, Rebinds, AllowedNames
    <2> QED
      BY <2>4, <2>5, <2>6 DEF HandlerSeesVerified, Preflight
  <1> QED
    BY <1>1, Inductive, VerifiedRequests, PTL

\* Whoever is challenged under Auth0 can follow the challenge, whatever it was for
\* and under any hierarchy of scopes: the discovery document is served, a browser
\* may ask first, and a token with what the challenge asks for, besides the scopes
\* of the first one, is admitted (createFetch, createResourceAuthorization).
THEOREM FollowableChallenges == Spec => []ChallengeIsFollowable
  <1>1. IInv /\ VerifiedInv => ChallengeIsFollowable
    <2> SUFFICES ASSUME IInv, VerifiedInv, request.at = "challenged", auth = "auth0"
                 PROVE  ChallengeIsFollowable
      BY DEF ChallengeIsFollowable
    <2> DEFINE Answered(q) == BeforeGate(Cfg("url"), auth, Cfg("portal"), q)
               r == request.r
               look == [r EXCEPT !.path = "discovery", !.method = "GET"]
               flight == [r EXCEPT !.method = "OPTIONS"]
               again == [r EXCEPT !.token = "valid", !.scopes = @ \cup request.asks]
    <2>1. r \in Request /\ request.asks \in SUBSET Scope
      <3>1. request # Idle
        BY DEF Idle
      <3> QED
        BY <3>1, HostedAssumption DEF IInv, TypeOK
    <2>2. Passed(r) /\ Challenged(r, request.asks)
      <3>1. request # Idle
        BY DEF Idle
      <3> QED
        BY <3>1 DEF VerifiedInv
    <2> HIDE DEF r
    <2>3. r.path = "mcp" /\ ~ Rebinds(Cfg("url"), r) /\ ~ Preflight(r)
      <3>1. AnswerDiscovery(r) # 0 /\ Plain(Cfg("portal"), r) # 0
        BY <2>1 DEF AnswerDiscovery, Plain, Request
      <3> QED
        BY <2>2, <3>1 DEF Passed, BeforeGate, Ungated
    <2>4. Answered(look) = 200
      <3>1. look.path = "discovery" /\ look.method = "GET"
        BY <2>1 DEF Request
      <3> HIDE DEF look
      <3> QED
        BY <3>1 DEF BeforeGate, Discovery, AnswerDiscovery
    <2>5. r.origin # "none" => Answered(flight) = 204
      <3>1. /\ flight.path = r.path /\ flight.method = "OPTIONS"
            /\ flight.host = r.host /\ flight.origin = r.origin
        BY <2>1 DEF Request
      <3> HIDE DEF flight
      <3> QED
        BY <2>3, <3>1 DEF BeforeGate, Discovery, Rebinds, Ungated, Preflight, Plain
    <2>6. Answered(again) = 0
      <3>1. /\ again.path = r.path /\ again.method = r.method
            /\ again.host = r.host /\ again.origin = r.origin
        BY <2>1 DEF Request
      <3> HIDE DEF again
      <3> QED
        BY <2>3, <3>1 DEF BeforeGate, Discovery, Rebinds, Ungated, Preflight
    <2>7. Gate(auth, again, TRUE) = Admit(r.subject)
      <3>1. PICK keys \in BOOLEAN : /\ BearerGate(r, keys).status # 200
                                    /\ BearerGate(r, keys).asks = request.asks
        BY <2>2 DEF Challenged, Gate
      <3>2. again = [r EXCEPT !.token = "valid", !.scopes = r.scopes \cup request.asks]
            /\ r.scopes \cup request.asks \in SUBSET Scope
        BY <2>1 DEF Request
      <3> HIDE DEF again
      <3>3. BearerGate(again, TRUE) = Admit(r.subject)
        BY <2>1, <3>1, <3>2, StepUpSuffices
      <3> QED
        BY <3>3 DEF Gate
    <2> QED
      BY <2>4, <2>5, <2>6, <2>7 DEF ChallengeIsFollowable, r
  <1> QED
    BY <1>1, Inductive, VerifiedRequests, PTL

================================================================================
