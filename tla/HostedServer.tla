----------------------------- MODULE HostedServer -----------------------------
(***************************************************************************)
(* server/src/main.ts: the life of the process.  It reads its              *)
(* configuration, proves that the Collector serves the contract revision   *)
(* of this build (contract-handshake.ts), builds the authorization of      *)
(* requests (oauth.ts, oauth-metadata.ts, auth-extensions.ts,              *)
(* cloudflare-access.ts), opens the event subscriptions, serves, and stops *)
(* on a signal.  Every await of the code is a point between two actions.   *)
(***************************************************************************)
EXTENDS RequestGate

CONSTANTS
    Config,        \* the configurations a process may be started with
    Requests,      \* the requests that may arrive
    HttpAttempts,  \* attempts of the handshake over HTTP (stdio: one)
    Extension,     \* the authorization extensions this build knows
    Capability     \* what the authorization server may advertise

Configuration ==
    [transport : {"http", "stdio"},
     projects : {"unset", "invalid", "valid"},    \* MCP_COLLECTOR_PROJECTS
     url : {"none", "bad", "https"},              \* MCP_PUBLIC_URL
     bind : {"loopback", "any"},                  \* MCP_BIND_HOST
     provider : {"auth0", "access", "bad"},       \* MCP_AUTH_PROVIDER and its settings
     extensions : SUBSET (Extension \cup {"unknown"}),  \* MCP_AUTH_EXTENSIONS
     store : BOOLEAN,                             \* MCP_EVENTS_STORE
     credentials : BOOLEAN,                       \* MCP_EVENTS_AUTH0_CLIENT_ID and _SECRET
     portal : BOOLEAN]                            \* OPENAI_APPS_CHALLENGE

ASSUME HostedAssumption ==
    /\ Config \subseteq Configuration
    /\ Requests \subseteq Request
    /\ HttpAttempts \in Nat \ {0}

VARIABLES
    config,     \* the environment of this process
    phase,      \* how far it is
    attempt,    \* probes of the Collector so far, or candidates of discovery
    seen,       \* the revisions that the probes have seen
    auth,       \* the gate: "none", "auth0", "access"
    metadata,   \* what the authorization server advertises
    events,     \* the events runtime: "none", "running", "stopped"
    request,    \* one request: where it is, what it is, its caller or its challenge
    closing,    \* what the shutdown still waits for
    left,       \* what failed to close and still holds the process
    runtime,    \* the native execution runtime: "open", "closed"
    listeners,  \* the signals whose handler is still installed
    exitCode    \* process.exitCode

vars == <<config, phase, attempt, seen, auth, metadata, events, request, closing,
          left, runtime, listeners, exitCode>>

Signal == {"SIGINT", "SIGTERM"}
Part == {"http", "handler", "events", "stdio"}
Endpoint == {"http", "stdio"}   \* the listening socket, stdin
Idle == [at |-> "none"]
Ended == {"exited", "killed"}
Cfg(field) == config[field]

TypeOK ==
    /\ config \in Config
    /\ phase \in {"starting", "probing", "configuring", "discovering", "opening", "binding",
                  "serving", "stopping", "failed"} \cup Ended
    /\ attempt \in 0 .. (IF auth = "auth0" THEN 2 ELSE HttpAttempts)
    /\ seen \subseteq {"same", "other", "none", "nothing"}
    /\ auth \in {"none", "auth0", "access"}
    /\ metadata \subseteq Capability
    /\ events \in {"none", "running", "stopped"}
    /\ request = Idle \/ request \in [at : {"gate", "handler", "challenged", "answered"},
                                      r : Requests, asks : SUBSET Scope,
                                      who : Subjects \cup {Nobody}]
    /\ closing \subseteq Part /\ left \subseteq Endpoint
    /\ runtime \in {"open", "closed"}
    /\ listeners \subseteq Signal
    /\ exitCode \in {0, 1}

Init ==
    /\ config \in Config
    /\ phase = "starting"
    /\ attempt = 0
    /\ seen = {}
    /\ auth = "none"
    /\ metadata = {}
    /\ events = "none"
    /\ request = Idle
    /\ closing = {} /\ left = {}
    /\ runtime = "open"
    /\ listeners = {}
    /\ exitCode = 0

-----------------------------------------------------------------------------
(* bootstrap().                                                            *)

\* The catch of bootstrap(): the error is reported, nothing is served.  (Faulty
\* variant: the exit code does not say so.)
StartupFailsQuietly == phase' = "failed" /\ UNCHANGED exitCode
StartupFails == phase' = "failed" /\ exitCode' = 1
GoesTo(p) == phase' = p /\ UNCHANGED exitCode

\* Either the check fails, or the start goes on.
Checks(bad, next) == IF bad THEN StartupFails ELSE GoesTo(next)

ReadProjects ==
    /\ phase = "starting"
    /\ Checks(\/ Cfg("projects") = "invalid"
              \/ Cfg("projects") = "valid" /\ Cfg("transport") = "stdio", "probing")
    /\ UNCHANGED <<config, attempt, seen, auth, metadata, events, request, closing, left, runtime,
                   listeners>>

\* probeCollectorHealth: any health body that names a revision counts, whatever
\* its status; one that names none is evidence of an older Collector only when
\* the Collector is well.
Health == [reached : BOOLEAN, ok : BOOLEAN, revision : {"same", "other", "none"}]
Kind(h) ==
    CASE h.reached /\ h.revision = "same" -> "match"
      [] h.reached /\ h.revision = "other" -> "skew"
      [] h.reached /\ h.revision = "none" /\ h.ok -> "pre-revision"
      [] ~h.reached \/ (h.revision = "none" /\ ~h.ok) -> "unreachable"

\* What a probe shows about the Collector's contract.
Evidence(h) ==
    CASE h.reached /\ h.revision # "none" -> h.revision
      [] h.reached /\ h.revision = "none" /\ h.ok -> "none"
      [] OTHER -> "nothing"

Attempts == IF Cfg("transport") = "http" THEN HttpAttempts ELSE 1

\* (Faulty variant: one attempt too many.)
AnotherLate == attempt + 1 <= Attempts
Another == attempt + 1 < Attempts

\* After the last attempt only stdio starts.  (Faulty variant: both do.)
StartsAnyhow == TRUE
StartsUnverified == Cfg("transport") = "stdio"

Serves == IF Cfg("transport") = "stdio" THEN "binding" ELSE "configuring"

\* assertCollectorContractRevision: one probe and what follows from it.
Probe ==
    /\ phase = "probing"
    /\ \E h \in Health :
        LET kind == Kind(h) IN
        /\ seen' = seen \cup {Evidence(h)}
        /\ attempt' = attempt + 1
        /\ CASE kind = "match" -> GoesTo(Serves)
             [] kind \in {"skew", "pre-revision"} -> StartupFails
             [] kind = "unreachable" ->
                    IF Another THEN GoesTo("probing")
                    ELSE Checks(~StartsUnverified, Serves)
    /\ UNCHANGED <<config, auth, metadata, events, request, closing, left, runtime, listeners>>

\* readStreamableHTTPConfig and hostedAuth up to its await.
UrlMissing == Cfg("bind") = "any" /\ Cfg("url") = "none"
NeedsAuth0(present) == present /\ (Cfg("provider") = "access" \/ Cfg("url") = "none")

\* readStreamableHTTPConfig: the URL is HTTPS and nothing but an origin.
UrlRefused == Cfg("url") = "bad" \/ UrlMissing

\* readAccessConfig: a provider that exists, and all of its settings.
ProviderRefused == Cfg("provider") = "bad"

\* resolveAuthorizationExtensions: each pin is one extension in its exact version.
PinRefused == Cfg("extensions") \cap {"unknown"} # {}

Misconfigured ==
    \/ UrlRefused \/ ProviderRefused \/ PinRefused
    \/ NeedsAuth0(Cfg("projects") = "valid" \/ Cfg("extensions") # {})
    \/ Cfg("provider") = "access" /\ Cfg("url") = "none"

Configure ==
    /\ phase = "configuring"
    /\ attempt' = 0
    /\ IF Misconfigured THEN StartupFails /\ UNCHANGED auth
       ELSE /\ auth' = IF Cfg("url") = "none" THEN "none" ELSE Cfg("provider")
            /\ GoesTo(IF auth' = "auth0" THEN "discovering" ELSE "opening")
    /\ UNCHANGED <<config, seen, metadata, events, request, closing, left, runtime, listeners>>

\* fetchAuthorizationServerMetadata: the candidates in turn (for an issuer
\* without a path there are two), and the first document of this issuer.
Candidates == 2

CandidateFails ==
    /\ phase = "discovering"
    /\ attempt' = attempt + 1
    /\ Checks(attempt' = Candidates, "discovering")
    /\ UNCHANGED <<config, seen, auth, metadata, events, request, closing, left, runtime, listeners>>

\* What an enabled extension requires of the authorization server.
Requires(e) == {e}

\* validateAuthorizationServerCapabilities: endpoints, flow, PKCE, registration.
HasProfile(advertised) == "profile" \in advertised

\* validateAuthorizationExtensions: the union of what the extensions require.
\* (Faulty variant: one extension that is satisfied is enough.)
SatisfiesOne(advertised) ==
    Cfg("extensions") = {} \/ \E e \in Cfg("extensions") : Requires(e) \subseteq advertised
Satisfies(advertised) == UNION {Requires(e) : e \in Cfg("extensions")} \subseteq advertised

Discovered ==
    /\ phase = "discovering"
    /\ metadata' \in SUBSET Capability
    /\ Checks(~(HasProfile(metadata') /\ Satisfies(metadata')), "opening")
    /\ UNCHANGED <<config, attempt, seen, auth, events, request, closing, left, runtime, listeners>>

\* hostedEvents.  (Faulty variant: any authorization will do.)
EventsRefusedWithout == auth = "none"
EventsRefused == auth # "auth0" \/ ~Cfg("credentials")

\* events.start() may reject: its store cannot be read or written.
OpenEvents ==
    /\ phase = "opening"
    /\ IF ~Cfg("store") THEN GoesTo("binding") /\ UNCHANGED events
       ELSE \/ /\ ~EventsRefused
               /\ events' = "running"
               /\ GoesTo("binding")
            \/ StartupFails /\ UNCHANGED events
    /\ UNCHANGED <<config, attempt, seen, auth, metadata, request, closing, left, runtime,
                   listeners>>

\* Bun.serve, or serveStdio, and the signal handlers; a port may be taken.
Bind ==
    /\ phase = "binding"
    /\ \/ /\ GoesTo("serving")
          /\ listeners' = Signal
       \/ /\ Cfg("transport") = "http"
          /\ StartupFails
          /\ UNCHANGED listeners
    /\ UNCHANGED <<config, attempt, seen, auth, metadata, events, request, closing, left, runtime>>

-----------------------------------------------------------------------------
(* Requests (HTTP only; over stdio a message reaches the server directly). *)

RequestMoves ==
    /\ phase \notin Ended
    /\ UNCHANGED <<config, phase, attempt, seen, auth, metadata, events, closing, left, runtime,
                   listeners, exitCode>>

Arrives(r) ==
    /\ phase = "serving" /\ Cfg("transport") = "http"
    /\ request = Idle
    /\ request' = [at |-> IF BeforeGate(Cfg("url"), auth, Cfg("portal"), r) = 0
                         THEN "gate" ELSE "answered",
                   r |-> r, asks |-> {}, who |-> Nobody]
    /\ RequestMoves

\* A handler that has closed takes no request.
HandlerClosed == phase = "stopping" /\ "handler" \notin closing

\* The gate ends, perhaps after the shutdown has begun: a challenge, or verified
\* AuthInfo for the handler.
GateEnds(keys) ==
    /\ request.at = "gate"
    /\ LET answer == Gate(auth, request.r, keys) IN
       request' = IF answer.status # 200
                  THEN [request EXCEPT !.at = "challenged", !.asks = answer.asks]
                  ELSE IF HandlerClosed THEN Idle
                  ELSE [request EXCEPT !.at = "handler", !.who = answer.who]
    /\ RequestMoves

\* A server is made for it, and it answers.
HandlerEnds ==
    /\ request.at = "handler"
    /\ request' = [request EXCEPT !.at = "answered"]
    /\ RequestMoves

Responds ==
    /\ request.at \in {"challenged", "answered"}
    /\ request' = Idle
    /\ RequestMoves

-----------------------------------------------------------------------------
(* Signals, the shutdown and the end of the process.                       *)

\* process.once: the second signal of a kind, or one before the server serves,
\* ends the process at once.  (Faulty variant: each signal starts a shutdown.)
BeginsAgain == TRUE
Begins == phase = "serving"

Parts == IF Cfg("transport") = "stdio" THEN {"stdio"}
         ELSE {"http", "handler"} \cup IF events = "none" THEN {} ELSE {"events"}

Signalled(s) ==
    /\ phase \notin Ended
    /\ IF s \in listeners
       THEN /\ listeners' = listeners \ {s}
            /\ IF Begins THEN phase' = "stopping" /\ closing' = Parts
                         ELSE UNCHANGED <<phase, closing>>
       ELSE phase' = "killed" /\ UNCHANGED <<listeners, closing>>
    /\ UNCHANGED <<config, attempt, seen, auth, metadata, events, request, left, runtime,
                   exitCode>>

\* One of the three ends.  A handler that has closed runs no request any more;
\* http.stop(true) drops the connections, and what runs behind them goes on.
Resolves(part) ==
    /\ request' = IF part = "handler" /\ request.at = "handler" THEN Idle ELSE request
    /\ UNCHANGED <<left, exitCode>>

\* Or its promise rejects: then the cleanup that follows is skipped, the exit code
\* says so, and an endpoint may still be open.
Rejects(part) ==
    /\ exitCode' = 1
    /\ left' \in {left, left \cup ({part} \cap Endpoint)}
    /\ UNCHANGED request

Stops(part) ==
    /\ phase = "stopping" /\ part \in closing
    /\ closing' = closing \ {part}
    /\ events' = IF part = "events" THEN "stopped" ELSE events
    /\ Resolves(part) \/ Rejects(part)
    /\ UNCHANGED <<config, phase, attempt, seen, auth, metadata, runtime, listeners>>

\* then(closeDefaultNativeExecutionRuntime), after all three.  (Faulty variant:
\* as soon as the endpoint is down.)
AfterHttp == closing \cap {"http", "stdio"} = {}
AfterAll == closing = {}

CloseRuntime ==
    /\ phase = "stopping" /\ AfterAll
    /\ exitCode = 0 /\ runtime = "open"
    /\ runtime' = "closed"
    /\ exitCode' \in {0, 1}
    /\ UNCHANGED <<config, phase, attempt, seen, auth, metadata, events, request, closing,
                   left, listeners>>

\* Nothing that was stopped, or failed to, holds the event loop any more, and no
\* request is awaited.
Stopped == phase = "stopping" /\ closing = {} /\ left = {} /\ request = Idle

\* The event loop is empty: the poll timer of the events is unreferenced, so it
\* keeps no process that failed to start; nor does the telemetry that a failed
\* shutdown left open.  (Faulty variants: they do.)
TimerHolds ==
    \/ phase = "failed" /\ events # "running"
    \/ Stopped /\ (runtime = "closed" \/ exitCode = 1)
TelemetryHolds ==
    \/ phase = "failed"
    \/ Stopped /\ runtime = "closed"
LoopEmpty ==
    \/ phase = "failed"
    \/ Stopped /\ (runtime = "closed" \/ exitCode = 1)

Ends ==
    /\ phase' = "exited"
    /\ UNCHANGED <<config, attempt, seen, auth, metadata, events, request, closing, left,
                   runtime, listeners, exitCode>>

Exits == LoopEmpty /\ Ends

\* The client of a stdio server closes stdin, which held the event loop: no code
\* runs, and the process ends with its telemetry open.
StdinEnds ==
    /\ Cfg("transport") = "stdio"
    /\ phase = "serving" \/ (phase = "stopping" /\ closing = {} /\ "stdio" \in left)
    /\ Ends

Startup ==
    ReadProjects \/ Probe \/ Configure \/ CandidateFails \/ Discovered \/ OpenEvents \/ Bind
Shutdown ==
    (\E part \in Part : Stops(part)) \/ CloseRuntime \/ Exits
RequestStep == (\E keys \in BOOLEAN : GateEnds(keys)) \/ HandlerEnds \/ Responds

Next ==
    \/ Startup \/ Shutdown
    \/ \E r \in Requests : Arrives(r)
    \/ RequestStep
    \/ \E s \in Signal : Signalled(s)
    \/ StdinEnds

Spec == Init /\ [][Next]_vars

\* Every await of the start and of the stop ends: each has a timeout of its own.
\* A request ends: the gate's fetch of keys has a timeout, a call is answered
\* (EveryCallAnswered of ToolCalls).
FairSpec == Spec /\ WF_vars(Startup) /\ WF_vars(Shutdown) /\ WF_vars(RequestStep)

-----------------------------------------------------------------------------
(* Properties.                                                             *)

\* No transport serves on evidence that the Collector has another contract, and
\* the hosted one serves only after a probe found the same contract.
ServesOnlyMatched ==
    phase = "serving" =>
        /\ seen \cap {"other", "none"} = {}
        /\ Cfg("transport") = "http" => "same" \in seen

\* Every set of scopes that holds the granted ones and what they imply, holds
\* the required ones.
Includes(granted, required) ==
    \A C \in SUBSET Scope :
        (granted \subseteq C /\ \A s \in C : Implies[s] \subseteq C) => required \subseteq C

\* The caller of a request is who the gate says: over a public URL its token is
\* valid and includes qyl:read, or the edge vouches for it; without a public
\* URL the endpoint is bound to this machine and answers to no other name.
HandlerSeesVerified ==
    request.at = "handler" =>
        LET r == request.r IN
        /\ r.path = "mcp" /\ ~(r.method = "OPTIONS" /\ r.origin # "none")
        /\ Cfg("url") = "none" =>
               /\ Cfg("bind") = "loopback"
               /\ r.host = "localhost" /\ r.origin \in {"none", "localhost"}
        /\ Cfg("url") # "none" =>
               /\ r.host = "public" /\ r.origin \in {"none", "public"}
               /\ CASE Cfg("provider") = "auth0" ->
                         r.token = "valid" /\ Includes(r.scopes, Required)
                    [] Cfg("provider") = "access" -> r.assertion = "valid"

\* The Collector is asked with the credential of the caller's own project, which
\* is also where the telemetry of the call goes; the server's default serves
\* only where no projects are configured.
CallsUseOwnProject ==
    request.at = "handler" =>
        LET used == ProjectOf(Cfg("projects"), request.who) IN
        /\ ExporterOf(Cfg("projects"), request.who) = used
        /\ IF Cfg("projects") = "unset" THEN used = "default"
           ELSE request.who \in Subjects /\ used = Assigned[request.who]

\* A challenge can be followed: the client that got it is given the discovery
\* document, its browser may ask first, and when it comes back with a token for
\* what the challenge asked for, besides the scopes it held, it is admitted.
ChallengeIsFollowable ==
    (request.at = "challenged" /\ auth = "auth0") =>
        LET r == request.r
            Early(q) == BeforeGate(Cfg("url"), auth, Cfg("portal"), q)
            again == [r EXCEPT !.token = "valid", !.scopes = @ \cup request.asks] IN
        /\ Early([r EXCEPT !.path = "discovery", !.method = "GET"]) = 200
        /\ r.origin # "none" => Early([r EXCEPT !.method = "OPTIONS"]) = 204
        /\ Early(again) = 0 /\ Gate(auth, again, TRUE) = Admit(r.subject)

\* Events are delivered only where the access of a subscriber can be checked
\* again: under Auth0, with its management credentials, on a public URL.
EventsCanRecheck ==
    events = "running" =>
        /\ Cfg("url") = "https" /\ Cfg("provider") = "auth0" /\ Cfg("credentials")
        /\ "profile" \in metadata

\* An endpoint under Auth0 serves only what its authorization server supports:
\* the profile and every extension that is enabled.
ServesWhatIsSupported ==
    (phase = "serving" /\ auth = "auth0") =>
        \A c \in {"profile"} \cup Cfg("extensions") : c \in metadata

\* What is served was checked before: the contract, the authorization server and
\* the access behind the events.
ServesOnlyChecked == ServesOnlyMatched /\ EventsCanRecheck /\ ServesWhatIsSupported

\* Telemetry is closed last: after the endpoint, the handler with its tool
\* calls, and the events have stopped.
TelemetryClosesLast ==
    runtime = "closed" => request.at # "handler" /\ events # "running" /\ closing = {}

\* A shutdown is begun once: nothing that has stopped is stopped again.
StopsOnce == [][phase = "stopping" => closing' \subseteq closing]_vars

\* Exit code 0 is the end of a server that was stopped whole.  Only a stdio server
\* that no signal has reached may end with 0 otherwise: when its client leaves.
LeftByClient == Cfg("transport") = "stdio" /\ listeners = Signal
ExitZeroIsClean ==
    (phase = "exited" /\ exitCode = 0) =>
        (runtime = "closed" /\ closing = {} /\ left = {}) \/ LeftByClient

\* Every part is stopped once, telemetry last, and the exit code says how it went.
StopsInOrder == [](TelemetryClosesLast /\ ExitZeroIsClean) /\ StopsOnce

\* A start ends: the endpoint serves, or the process ends.
StartEnds == (phase = "starting") ~> (phase \in {"serving"} \cup Ended)

\* A stop ends, unless an endpoint that failed to close holds the process.
StopEnds == (phase = "stopping") ~> (phase \in Ended \/ left # {})

\* No fault leaves a process that neither serves nor ends.
StartsAndStopsEnd == StartEnds /\ StopEnds
=============================================================================
