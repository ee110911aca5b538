--------------------------- MODULE CollectorClient ---------------------------
(***************************************************************************)
(* server/src/collector.ts and the refusals of collector-resources.ts: how *)
(* what happens to one request to the collector becomes the stable code of *)
(* a tool result.                                                          *)
(***************************************************************************)
EXTENDS Naturals

\* Whether the same call can succeed when repeated unchanged.
Retryable == {"collector_unreachable", "collector_timeout",
              "collector_rate_limited", "collector_error"}

ErrorCode == Retryable \cup
    {"cancelled", "not_found", "collector_unauthorized", "conflict",
     "precondition_failed", "precondition_required", "collector_rejected",
     "contract_mismatch", "invalid_argument", "no_project_access",
     "response_too_large", "internal"}

\* (Faulty variant: 500 is taken for a refusal.)
CodeForStatusOffByOne(status) ==
    CASE status = 404           -> "not_found"
      [] status \in {401, 403}  -> "collector_unauthorized"
      [] status = 409           -> "conflict"
      [] status = 412           -> "precondition_failed"
      [] status = 428           -> "precondition_required"
      [] status = 429           -> "collector_rate_limited"
      [] status > 500           -> "collector_error"
      [] OTHER                  -> "collector_rejected"
CodeForStatus(status) ==
    CASE status = 404           -> "not_found"
      [] status \in {401, 403}  -> "collector_unauthorized"
      [] status = 409           -> "conflict"
      [] status = 412           -> "precondition_failed"
      [] status = 428           -> "precondition_required"
      [] status = 429           -> "collector_rate_limited"
      [] status >= 500          -> "collector_error"
      [] OTHER                  -> "collector_rejected"

Succeeds(status) == status \in 200..299

\* A body that is not what the contract says, or that could not be read.
CodeForUnexpectedBody(status) ==
    IF status = 429 \/ status >= 500 THEN CodeForStatus(status)
    ELSE "contract_mismatch"

\* The catch of fetch(): both signals may be set by the time it is read.
\* (Faulty variant: any abort is taken for the caller's.)
CodeForAnyAbort(aborted, timedOut) ==
    IF aborted \/ timedOut THEN "cancelled" ELSE "collector_unreachable"
CodeForFailedFetch(aborted, timedOut) ==
    IF aborted THEN "cancelled"
    ELSE IF timedOut THEN "collector_timeout" ELSE "collector_unreachable"

\* The kinds of a refusal: those that deny the request, those that do not, and
\* one that is not mapped.
Denial == {"not_found", "conflict", "precondition_failed", "precondition_required",
           "unauthorized", "forbidden", "validation_failed"}
Problem == Denial \cup {"internal_error", "bad_gateway", "service_unavailable", "unmapped"}

\* Problem Details name their kind by a code of their own.
CodeForProblem(problem, status) ==
    CASE problem \in {"not_found", "conflict", "precondition_failed",
                      "precondition_required"}                     -> problem
      [] problem \in {"unauthorized", "forbidden"}                 -> "collector_unauthorized"
      [] problem \in {"internal_error", "bad_gateway",
                      "service_unavailable"}                       -> "collector_error"
      [] problem = "validation_failed"                             -> "collector_rejected"
      [] OTHER                                                     -> CodeForStatus(status)

\* refusals(): a status with a message of its own keeps the code of the status,
\* but a broken contract stays one.
Refused(code, status, named) ==
    IF status \in named /\ code # "contract_mismatch" THEN CodeForStatus(status)
    ELSE code

==============================================================================
