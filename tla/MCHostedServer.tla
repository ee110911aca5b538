---------------------------- MODULE MCHostedServer ----------------------------
EXTENDS HostedServer, TLC

CONSTANTS ann, bob, own

\* One account has a project, the other has none.
OneAssigned == ann :> own @@ bob :> Nobody

\* A hierarchy with a cycle; the hosted gate itself is built without one.
Hierarchy == "read" :> {} @@ "write" :> {"all"} @@ "all" :> {"write", "read"}

Pins == {{}, {"id-jag"}, {"id-jag", "client_credentials"}, {"unknown"}}
Configs == {c \in Configuration : c.extensions \in Pins /\ (c.portal <=> c.store)
                                 /\ (c.credentials => c.store)
                                 /\ (c.url = "https" => c.bind = "any")}

\* The scopes of a token: none of use, the required one, one that implies it
\* through the cycle.
Tokens == {{}, {"read"}, {"write"}}

\* Every kind of request to /mcp that a client or a browser may send, and the
\* others without credentials.
Clients ==
    {r \in Request :
        /\ r.scopes \in (IF r.token = "valid" THEN Tokens ELSE {{}})
        /\ r.subject = bob => r.token = "valid" \/ r.assertion = "valid"
        /\ r.path # "mcp" => r.host = "public" /\ r.origin \in {"none", "foreign"}
                             /\ r.token = "none" /\ r.assertion = "none"
        /\ r.path = "mcp" => r.method # "GET" /\ r.origin # "localhost"
                             /\ (r.token # "none" => r.assertion = "none")
                             /\ (r.method = "OPTIONS" =>
                                    r.token \in {"none", "query"} /\ r.assertion = "none")
                             /\ (r.host # "public" \/ r.origin = "foreign" =>
                                    /\ r.token \in {"none", "valid"} /\ r.assertion = "none"
                                    /\ r.scopes \subseteq {"read"} /\ r.subject = ann)}
=============================================================================
