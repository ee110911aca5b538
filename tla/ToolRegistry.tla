----------------------------- MODULE ToolRegistry -----------------------------
(***************************************************************************)
(* The tools that createServer() registers (server/src/server.ts): their   *)
(* names, what they may do to the Collector's data, the scopes their calls *)
(* need, and the refusals they have a message for.                         *)
(***************************************************************************)

\* Registered with READ_ONLY_TELEMETRY_TOOL_ANNOTATIONS; each runs queryAnalysis.
FailureReads == {"triage", "list_failures", "get_failure_context", "compare_groups",
                 "compare_traces", "verify_fix"}
ServiceReads == {"aggregate_telemetry", "discover_attributes", "get_agent_run",
                 "list_releases", "get_service_map", "check_telemetry_health",
                 "get_mcp_stats"}
TraceReads == {"list_traces", "get_trace", "list_sessions", "search_logs"}
MetricReads == {"list_metrics", "get_metric_series", "query_metric"}
CiReads == {"ci_log"}
SavedQueryReads == {"list_saved_queries", "run_saved_query"}

AnnotationChanges == {"create_annotation", "update_annotation"}
SavedQueryChanges == {"create_saved_query", "update_saved_query"}
FailureChanges == {"update_failure_status"}
Removals == {"delete_record"}

Reads == FailureReads \cup ServiceReads \cup TraceReads \cup MetricReads \cup CiReads
            \cup SavedQueryReads
Changes == AnnotationChanges \cup SavedQueryChanges \cup FailureChanges \cup Removals
Tools == Reads \cup Changes

Creates == {"create_annotation", "create_saved_query"}
Updates == {"update_annotation", "update_saved_query", "update_failure_status"}

Effect(tool) == CASE tool \in Reads    -> "read"
                  [] tool \in Creates  -> "create"
                  [] tool \in Updates  -> "update"
                  [] tool \in Removals -> "delete"

\* The scopes a tool needs beyond qyl:read.  (Faulty variant: delete_record is
\* registered with the scopes of the other changes.)
ToolScopesOfWrites(tool) == IF tool \in Reads THEN {} ELSE {"write"}
ToolScopes(tool) == CASE tool \in Reads             -> {}
                      [] tool \in Creates \cup Updates -> {"write"}
                      [] tool \in Removals          -> {"delete"}

\* toolScopeChallenge: without verified authentication there is no token to check.
Challenged(verified, tool, scopes) == verified /\ ~ (ToolScopes(tool) \subseteq scopes)

\* The statuses that the change of one object, and each create, has a message for.
ChangeRefusals == {403, 404, 412}
Named(tool) == CASE tool = "create_annotation"  -> {403, 404}
                 [] tool = "create_saved_query" -> {403, 409}
                 [] tool = "update_saved_query" -> ChangeRefusals \cup {409}
                 [] tool \in Reads              -> {}
                 [] OTHER                       -> ChangeRefusals

\* An analysis whose records may not be compacted: original metric points.
KeepsPoints(tool) == tool = "get_metric_series"
===============================================================================
