----------------------------- MODULE RequestGate -----------------------------
(***************************************************************************)
(* What one HTTP request of the hosted endpoint meets before the MCP       *)
(* handler: createFetch of server/src/main.ts, the bearer gate of          *)
(* authorization.ts and oauth.ts, the gate of cloudflare-access.ts, the    *)
(* rebinding guards of http-security.ts and the project of the subject     *)
(* (collector-access.ts).  Pure operators; HostedServer runs them.         *)
(*                                                                         *)
(* A host name is that of this machine, that of the public URL, or         *)
(* foreign.  A token or an assertion is "invalid" when its signature,      *)
(* issuer, audience, type, expiry or a required claim is wrong.            *)
(***************************************************************************)
EXTENDS Naturals, FiniteSets

CONSTANTS
    Scope,     \* the OAuth scopes a token may carry
    Implies,   \* scopeImplications: Implies[s], the scopes that s includes
    Assigned,  \* Assigned[subject]: its project in MCP_COLLECTOR_PROJECTS, or Nobody
    Nobody,    \* no subject, no project
    Required   \* requiredScopes: what every request carries, {qyl:read}

\* scopesSupported is a list; an implication names scopes of it.
ASSUME ScopeAssumption ==
    /\ IsFiniteSet(Scope)
    /\ Implies \in [Scope -> SUBSET Scope]
    /\ Required \subseteq Scope

Name == {"localhost", "public", "foreign"}
Subjects == DOMAIN Assigned

Request ==
    [path : {"discovery", "healthz", "challenge", "mcp", "other"},
     method : {"GET", "POST", "OPTIONS"},
     host : Name, origin : Name \cup {"none"},
     token : {"none", "malformed", "query", "invalid", "valid"}, scopes : SUBSET Scope,
     assertion : {"none", "invalid", "valid"}, subject : Subjects]

\* The default allowlists are those of a loopback process.
AllowedNames(url) == IF url = "none" THEN {"localhost"} ELSE {"public"}

\* dnsRebindingResponse: a request without an Origin is not a browser's.
Rebinds(url, r) ==
    \/ r.host \notin AllowedNames(url)
    \/ r.origin \notin AllowedNames(url) \cup {"none"}

\* scopeClosure: what the granted scopes include, and what those include.
Reached[n \in Nat] ==
    [granted \in SUBSET Scope |->
        IF n = 0 THEN granted
        ELSE LET before == Reached[n - 1][granted]
             IN  before \cup UNION {Implies[s] : s \in before}]
ScopeClosure(granted) == Reached[Cardinality(Scope)][granted]

Refuse(status, scopes) == [status |-> status, asks |-> scopes, who |-> Nobody]
Admit(subject) == [status |-> 200, asks |-> {}, who |-> subject]

\* verifyJwt.  `keys`: the signing keys can be fetched; when they cannot, a token
\* fails to verify like a wrong one.
Verifies(r, keys) == r.token = "valid" /\ keys

\* createResourceAuthorization.  (Faulty variant: the scopes of the token are not
\* looked at.)
AnyScope(r) == Required
Effective(r) == ScopeClosure(r.scopes)

\* What a 403 asks for.  (Faulty variant: what the token has of it.)
Held(r) == Required \cap Effective(r)
Lacking(r) == Required \ Effective(r)

BearerGate(r, keys) ==
    CASE r.token \in {"malformed", "query"} -> Refuse(400, Required)
      [] Verifies(r, keys) ->
             IF Required \subseteq Effective(r) THEN Admit(r.subject)
             ELSE Refuse(403, Lacking(r))
      [] OTHER -> Refuse(401, Scope)

\* createCloudflareAccessAuth: only the signed assertion of the edge counts.
AccessGate(r, keys) ==
    IF keys /\ r.assertion = "valid" THEN Admit(r.subject) ELSE Refuse(401, {})

\* createFetch, in its order: the discovery documents (only Auth0 has them),
\* the rebinding guards, the plain routes, the preflight, then the gate, or
\* the handler when there is none.
Discovery(auth, r) == auth = "auth0" /\ r.path = "discovery"

AnswerDiscovery(r) ==
    CASE r.method = "GET" -> 200 [] r.method = "OPTIONS" -> 204 [] r.method = "POST" -> 405

Plain(token, r) ==
    CASE r.path = "healthz" -> IF r.method = "GET" THEN 200 ELSE 404
      [] r.path = "challenge" -> IF token /\ r.method = "GET" THEN 200 ELSE 404
      [] r.path \in {"discovery", "other"} -> 404
      [] r.path = "mcp" -> 204

Preflight(r) == r.method = "OPTIONS" /\ r.origin # "none"

\* What is answered before the gate, whoever asks.  (Faulty variant: a preflight,
\* which carries no token, goes to the gate.)
PreflightToGate(r) == r.path # "mcp"
Ungated(r) == r.path # "mcp" \/ Preflight(r)

\* 0: nothing answers it before the gate.
BeforeGate(url, auth, token, r) ==
    CASE Discovery(auth, r) -> AnswerDiscovery(r)
      [] ~Discovery(auth, r) /\ Rebinds(url, r) -> 403
      [] ~Discovery(auth, r) /\ ~Rebinds(url, r) /\ Ungated(r) -> Plain(token, r)
      [] OTHER -> 0

Gate(auth, r, keys) ==
    CASE auth = "none" -> Admit(Nobody)
      [] auth = "auth0" -> BearerGate(r, keys)
      [] auth = "access" -> AccessGate(r, keys)

\* collectorAccessForSubject: the Collector credential of the call.  (Faulty
\* variant: a subject without a project uses the server's own.)
ProjectOrDefault(projects, who) ==
    IF projects = "unset" \/ who \notin Subjects \/ Assigned[who] = Nobody
    THEN "default" ELSE Assigned[who]
ProjectOf(projects, who) ==
    IF projects = "unset" THEN "default"
    ELSE IF who \in Subjects THEN Assigned[who] ELSE Nobody

\* startOperation: where the telemetry of the call goes, and to no fallback.
ExporterOf(projects, who) ==
    CASE projects = "unset"                           -> "default"
      [] projects # "unset" /\ who \in Subjects    -> Assigned[who]
      [] projects # "unset" /\ who \notin Subjects -> Nobody
=============================================================================
