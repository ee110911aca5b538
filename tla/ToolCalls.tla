------------------------------ MODULE ToolCalls ------------------------------
(***************************************************************************)
(* One tools/call after another and side by side: NativeExecution around   *)
(* runTool() around the collector's client (native-execution.ts,           *)
(* request-scope.ts, write-tools.ts, collector-resources.ts, analysis-*.ts,*)
(* collector.ts, telemetry.ts).  An action is the code from one await to   *)
(* the next.  The collector is the world: it serves a request that reached *)
(* it whenever it likes, also after the server stopped waiting.            *)
(***************************************************************************)
EXTENDS NativeExecution, CollectorClient, ToolRegistry

CONSTANTS
    None,
    MaxPage,  \* records of the largest analysis page
    LocalTools, \* what the callers of a local server call
    HostedTools \* what the callers of a hosted server call

ASSUME ToolCallsAssumption ==
    /\ LocalTools \cup HostedTools \subseteq Tools
    /\ MaxPage \in Nat

VARIABLES
    hosted,    \* verified callers and no repository
    traced,    \* there is telemetry to export to
    phase,     \* phase[e]: where the call is
    args,      \* args[e]: what it asks for
    aborted,   \* the calls at work whose signal is aborted (cancelled by the client)
    wire,      \* wire[e]: the request to the collector, or its reply
    page,      \* page[e]: previousPageSize of an analysis; MaxPage + 1 is Infinity
    outcome,   \* outcome[e]: what the tool came to, until it is answered
    progress,  \* progress[e]: the last step notified
    span,      \* span[e]: the operation's telemetry: "none", "open" or how it ended
    answer,    \* answer[e]: what the client was told, as far as it matters to it
    ran,       \* the calls whose tool was invoked
    version,   \* of the one object that is updated and deleted
    live,      \* whether that object exists
    keys,      \* the idempotency keys the collector remembers
    applied    \* the calls whose request changed something at the collector

callVars == <<phase, args, aborted, page, outcome, progress, span, answer, ran>>
collectorVars == <<wire, version, live, keys, applied>>
vars == <<logVars, hosted, traced, callVars, collectorVars>>

Total == 2   \* steps + 1 of runTool(): every tool declares one step

\* key: the explicit retry key of a create.  etag: the version a change names.
\* scopes: the token's, beyond qyl:read (one tool never needs two of them).
Args(etags) == [tool : LocalTools \cup HostedTools, key : {None, "again"},
                etag : etags, scopes : {{}, {"write"}, {"delete"}}]
ASSUME NoneAssumption == None \notin Args(Nat)
Reply == [status : {200, 403, 404, 409, 412, 429, 500}, contract : BOOLEAN,
          size : 0..MaxPage]
Idle == [status |-> 0, contract |-> TRUE, size |-> 0]
Sent == [Idle EXCEPT !.status = 1]

TypeOK ==
    /\ LogTypeOK
    /\ hosted \in BOOLEAN /\ traced \in BOOLEAN
    /\ phase \in [Exec -> {"idle", "saving", "starting", "waiting", "reading", "reporting",
                           "completing", "answered", "lost"}]
    /\ \A e \in Exec : args[e] \in Args(1..version) \cup {None}
    /\ aborted \subseteq Exec /\ ran \subseteq Exec /\ applied \subseteq Exec
    /\ \A e \in Exec : wire[e] \in Reply \cup {Idle, Sent}
    /\ page \in [Exec -> 0..MaxPage + 1]
    /\ outcome \in [Exec -> {"none", "ok", "refused", "cancelled", "uncertain"}]
    /\ progress \in [Exec -> 0..Total]
    /\ span \in [Exec -> {"none", "open", "ok", "tool_error", "evidence_persistence_failed"}]
    /\ answer \in [Exec -> {"none", "ok", "refused", "cancelled", "uncertain", "not_run",
                         "challenged"}]
    /\ version \in 1..Cardinality(Exec) + 1 /\ live \in BOOLEAN
    /\ \A e \in Exec : phase[e] # "idle" => args[e] # None
    \* A save always has an initialization to wait for.
    /\ \A e \in Exec : phase[e] = "saving" => loading # "none"

\* McpTelemetry makes nothing when it is switched off, and throws before it has
\* made anything when one of its destinations is no HTTP(S) URL.
Destination == {"traces", "metrics", "logs"}
Exports(on, valid) == on /\ Destination \subseteq valid

Init ==
    /\ LogInit
    /\ hosted \in BOOLEAN
    /\ \E on \in BOOLEAN, valid \in SUBSET Destination : traced = Exports(on, valid)
    /\ hosted => layout = "absent"
    /\ phase = [e \in Exec |-> "idle"]
    /\ args = [e \in Exec |-> None]
    /\ aborted = {} /\ ran = {} /\ applied = {} /\ keys = {}
    /\ wire = [e \in Exec |-> Idle]
    /\ page = [e \in Exec |-> MaxPage + 1]
    /\ outcome = [e \in Exec |-> "none"]
    /\ progress = [e \in Exec |-> 0]
    /\ span = [e \in Exec |-> "none"]
    /\ answer = [e \in Exec |-> "none"]
    /\ version = 1 /\ live = TRUE

-----------------------------------------------------------------------------
Op(e) == Effect(args[e].tool)

\* What the idempotency key of a create is derived from; all creates of one tool
\* have one body.  (Faulty variant: a key of its own for every call.)
KeyPerCall(e) == <<args[e].tool, e>>
Key(e) == <<args[e].tool, args[e].key>>

\* The If-Match of a change.  (Faulty variant: the current etag is looked up.)
CurrentEtag(e) == version
IfMatch(e) == args[e].etag

\* Fields that a call does not use keep one value.
Asked(a) ==
    /\ a.tool \in IF hosted THEN HostedTools ELSE LocalTools
    /\ Effect(a.tool) \notin {"update", "delete"} => a.etag = 1
    /\ Effect(a.tool) # "create" => a.key = None
    /\ ~ hosted \/ Effect(a.tool) = "read" => a.scopes = {}

Clock == 1..Cardinality(Exec)
Latest == CHOOSE t \in 0..Cardinality(Exec) :
             (\E e \in Exec : at[e] = t) /\ \A e \in Exec : at[e] <= t

\* The telemetry of a call begins, and ends with its outcome.
StartSpan(e) == span' = [span EXCEPT ![e] = IF traced THEN "open" ELSE "none"]
EndSpan(e, how) == span' = [span EXCEPT ![e] = IF traced THEN how ELSE "none"]

\* execute() up to the save of the running record.  The SDK challenges a token
\* that lacks the tool's scope before the handler is called.
Execute(e, a) ==
    /\ phase[e] = "idle"
    /\ Asked(a)
    /\ args' = [args EXCEPT ![e] = a]
    /\ IF Challenged(hosted, a.tool, a.scopes)
       THEN /\ phase' = [phase EXCEPT ![e] = "answered"]
            /\ answer' = [answer EXCEPT ![e] = "challenged"]
            /\ UNCHANGED <<logVars, span>>
       ELSE /\ phase' = [phase EXCEPT ![e] = IF hosted THEN "starting" ELSE "saving"]
            /\ IF hosted THEN UNCHANGED <<loading, at>>
               ELSE /\ Initialize
                    /\ \E t \in Clock \cap {Latest, Latest + 1} : at' = [at EXCEPT ![e] = t]
            /\ StartSpan(e)
            /\ UNCHANGED <<layout, log, answer>>
    /\ UNCHANGED <<hosted, traced, aborted, page, outcome, progress, ran, collectorVars>>

RunningSaved(e) ==
    /\ phase[e] = "saving"
    /\ SaveSucceeds(e, "running")
    /\ phase' = [phase EXCEPT ![e] = "starting"]
    /\ UNCHANGED <<hosted, traced, args, aborted, page, outcome, progress, span, answer, ran,
                   collectorVars>>

\* recordingFailureResult(): the tool is not run.
RunningNotSaved(e) ==
    /\ phase[e] = "saving"
    /\ SaveFails
    /\ phase' = [phase EXCEPT ![e] = "answered"]
    /\ answer' = [answer EXCEPT ![e] = "not_run"]
    /\ EndSpan(e, "evidence_persistence_failed")
    /\ UNCHANGED <<hosted, traced, args, aborted, page, outcome, progress, ran, collectorVars>>

\* The codes that say that a call changed nothing, and never will: a model may
\* correct its arguments and call again.  After any other one it cannot know.
Refusals == ErrorCode \
    (Retryable \cup {"cancelled", "contract_mismatch", "response_too_large", "internal"})
Meaning(code) == CASE code \in {"ok", "cancelled"} -> code
                   [] code \in Refusals            -> "refused"
                   [] OTHER                        -> "uncertain"

\* The work is over: runTool() returns its result, or the error it threw.  What
\* the request needed is dropped; one that has left may still be served.
Ends(e, code) ==
    /\ outcome' = [outcome EXCEPT ![e] = Meaning(code)]
    /\ phase' = [phase EXCEPT ![e] = "completing"]
    /\ wire' = [wire EXCEPT ![e] = IF @ = Sent THEN Sent ELSE Idle]
    /\ aborted' = aborted \ {e}
    /\ page' = [page EXCEPT ![e] = MaxPage + 1]
    /\ progress' = [progress EXCEPT ![e] = 0]

\* When the tool may be invoked.  (Faulty variant: the save is not awaited.)
MayRunUnsaved(e) == phase[e] \in {"saving", "starting"}
MayRun(e) == phase[e] = "starting"

\* runTool() resolves the caller's project, the work checks its arguments (an
\* etag that is no header value, a change of nothing), and the request goes out.
Invoke(e) ==
    /\ MayRun(e)
    /\ ran' = ran \cup {e}
    /\ \/ hosted /\ Ends(e, "no_project_access")
       \/ Op(e) # "read" /\ Ends(e, "invalid_argument")
       \/ /\ wire' = [wire EXCEPT ![e] = Sent]
          /\ phase' = [phase EXCEPT ![e] = "waiting"]
          /\ UNCHANGED <<aborted, page, outcome, progress>>
    /\ UNCHANGED <<logVars, hosted, traced, args, span, answer, version, live, keys, applied>>

-----------------------------------------------------------------------------
\* The collector serves a request.  It may do so when nobody waits any more.
Replies(e, status) ==
    \E r \in Reply :
        /\ r.status = status
        /\ r.size > 0 => Op(e) = "read" /\ status = 200
        /\ ~ r.contract => "collector" \in Faults
        /\ wire' = [wire EXCEPT ![e] = IF phase[e] = "waiting" THEN r ELSE Idle]

CollectorApplies(e) ==
    /\ wire[e] = Sent
    /\ CASE Op(e) = "create" ->
              /\ keys' = keys \cup {Key(e)}
              /\ applied' = IF Key(e) \in keys THEN applied ELSE applied \cup {e}
              /\ UNCHANGED <<version, live>>
         [] Op(e) \in {"update", "delete"} ->
              /\ live /\ IfMatch(e) = version
              /\ version' = version + 1
              /\ live' = (Op(e) = "update")
              /\ applied' = applied \cup {e}
              /\ UNCHANGED keys
         [] OTHER -> UNCHANGED <<version, live, keys, applied>>
    \* An edge in front of the collector may answer in its place.
    /\ Replies(e, 200) \/ ("collector" \in Faults /\ Replies(e, 500))
    /\ UNCHANGED <<logVars, hosted, traced, callVars>>

CollectorRefuses(e) ==
    /\ wire[e] = Sent
    /\ \E status \in {403, 404, 409, 412, 429, 500} :
          /\ status = 404 => Op(e) = "create" \/ ~ live
          /\ status = 412 => Op(e) \in {"update", "delete"} /\ live /\ IfMatch(e) # version
          /\ status = 409 => Op(e) \in {"create", "update"}
          /\ status \in {403, 429, 500} => "collector" \in Faults
          /\ Replies(e, status)
    /\ UNCHANGED <<logVars, hosted, traced, callVars, version, live, keys, applied>>

\* The signal of a request: the caller's, or a timeout of its own.
\* (Faulty variant: it no longer holds once the headers are there.)
SignalledToConnect(e) == phase[e] = "waiting"
Signalled(e) == phase[e] \in {"waiting", "reading"}

\* fetch() rejects: aborted, timed out, or the connection failed.  The request
\* may have reached the collector all the same.
FetchFails(e) ==
    /\ phase[e] = "waiting" /\ Signalled(e)
    /\ \E timedOut \in BOOLEAN :
          /\ e \in aborted \/ timedOut \/ "network" \in Faults
          /\ Ends(e, CodeForFailedFetch(e \in aborted, timedOut))
    /\ UNCHANGED <<logVars, hosted, traced, args, span, answer, ran, version, live,
                   keys, applied>>

\* A delete that succeeds has no body to read.
NoBody(e) == Op(e) = "delete" /\ Succeeds(wire[e].status) /\ wire[e].contract

HeadersArrive(e) ==
    /\ phase[e] = "waiting" /\ wire[e] \notin {Idle, Sent}
    /\ phase' = [phase EXCEPT ![e] = IF NoBody(e) THEN "reporting" ELSE "reading"]
    /\ wire' = IF NoBody(e) THEN [wire EXCEPT ![e] = Idle] ELSE wire
    /\ UNCHANGED <<logVars, hosted, traced, args, aborted, page, outcome, progress, span, answer,
                   ran, version, live, keys, applied>>

\* response.json() rejects: the body is not JSON, or reading it was cut short.
BodyFails(e) ==
    /\ phase[e] = "reading"
    /\ Signalled(e) \/ ~ wire[e].contract
    /\ LET status == wire[e].status IN
       Ends(e, Refused(CodeForUnexpectedBody(status), status, Named(args[e].tool)))
    /\ UNCHANGED <<logVars, hosted, traced, args, span, answer, ran, version, live,
                   keys, applied>>

\* What the collector names as the kind of a refusal need not agree with its
\* status; it denies no request that it has applied.
Problems(e) == IF e \in applied THEN Problem \ Denial ELSE Problem

\* A refusal, in Problem Details.
BodyRefuses(e) ==
    /\ phase[e] = "reading" /\ wire[e].contract /\ ~ Succeeds(wire[e].status)
    /\ LET status == wire[e].status IN
       \E problem \in Problems(e) :
          Ends(e, Refused(CodeForProblem(problem, status), status, Named(args[e].tool)))
    /\ UNCHANGED <<logVars, hosted, traced, args, span, answer, ran, version, live,
                   keys, applied>>

Shrinks(e) == wire[e].size > 1 /\ wire[e].size < page[e]

\* A result beyond the budget that cannot be asked for in smaller pages: it is
\* compacted, or refused when it holds original metric points.
TooLarge(e) ==
    \/ /\ phase' = [phase EXCEPT ![e] = "reporting"]
       /\ wire' = [wire EXCEPT ![e] = Idle]
       /\ UNCHANGED <<aborted, page, outcome, progress>>
    \/ KeepsPoints(args[e].tool) /\ Ends(e, "response_too_large")

\* The body is what the contract says.  An analysis result beyond the budget is
\* asked for again with a smaller limit while the pages get smaller.  Time may
\* run out before the next request.
BodyAccepted(e) ==
    /\ phase[e] = "reading" /\ wire[e].contract /\ Succeeds(wire[e].status)
    /\ \/ /\ phase' = [phase EXCEPT ![e] = "reporting"]
          /\ wire' = [wire EXCEPT ![e] = Idle]
          /\ UNCHANGED <<aborted, page, outcome, progress>>
       \/ /\ Op(e) = "read" /\ Shrinks(e)
          /\ \/ /\ page' = [page EXCEPT ![e] = wire[e].size]
                /\ wire' = [wire EXCEPT ![e] = Sent]
                /\ phase' = [phase EXCEPT ![e] = "waiting"]
                /\ UNCHANGED <<aborted, outcome, progress>>
             \/ Ends(e, "invalid_argument")
       \/ Op(e) = "read" /\ ~ Shrinks(e) /\ TooLarge(e)
    /\ UNCHANGED <<logVars, hosted, traced, args, span, answer, ran, version, live, keys,
                   applied>>

\* Whether a step is notified: the request has a token and is not cancelled.
\* (Faulty variant: the signal is not looked at.)
NotifiesAnyway(e) == TRUE
Notifies(e) == e \notin aborted

\* scope.step(), and "Result ready" once the work has returned.  A connection
\* that is gone makes notify() throw, and the result an internal error.
Step(e) ==
    /\ phase[e] = "reporting"
    /\ \/ /\ Notifies(e) /\ progress[e] + 1 < Total
          /\ progress' = [progress EXCEPT ![e] = @ + 1]
          /\ UNCHANGED <<phase, wire, aborted, page, outcome>>
       \/ (~ Notifies(e) \/ progress[e] + 1 = Total) /\ Ends(e, "ok")
       \/ "notify" \in Faults /\ Notifies(e) /\ Ends(e, "internal")
    /\ UNCHANGED <<logVars, hosted, traced, args, span, answer, ran, version, live,
                   keys, applied>>

-----------------------------------------------------------------------------
Terminal(e) == IF outcome[e] = "ok" THEN "succeeded" ELSE "failed"

\* What the client is told.  (Faulty variant: a terminal record that cannot be
\* written turns into the refusal of a call that was not recorded.)
AnswerOrRefuse(e, recorded) == IF recorded THEN outcome[e] ELSE "not_run"
Answer(e, recorded) == outcome[e]

\* saveTerminal(), the end of the operation, and the tool's own outcome.
Complete(e, recorded) ==
    /\ phase[e] = "completing"
    /\ \/ hosted /\ recorded /\ UNCHANGED logVars
       \/ ~ hosted /\ recorded /\ SaveSucceeds(e, Terminal(e))
       \/ ~ hosted /\ ~ recorded /\ SaveFails
    /\ EndSpan(e, IF ~ recorded THEN "evidence_persistence_failed"
                  ELSE IF outcome[e] = "ok" THEN "ok" ELSE "tool_error")
    /\ phase' = [phase EXCEPT ![e] = "answered"]
    /\ answer' = [answer EXCEPT ![e] = Answer(e, recorded)]
    /\ outcome' = [outcome EXCEPT ![e] = "none"]
    /\ UNCHANGED <<hosted, traced, args, aborted, page, progress, ran, collectorVars>>

InFlight == {e \in Exec : phase[e] \notin {"idle", "answered", "lost"}}

\* notifications/cancelled, or the connection closes, before the work is over.
Cancel(e) ==
    /\ "cancel" \in Faults
    /\ e \in InFlight \ aborted /\ phase[e] # "completing"
    /\ aborted' = aborted \cup {e}
    /\ UNCHANGED <<logVars, hosted, traced, phase, args, page, outcome, progress, span,
                   answer, ran, collectorVars>>

\* The process dies; requests that left it may still be served.
Crash ==
    /\ "crash" \in Faults
    /\ LogRestart
    /\ phase' = [e \in Exec |-> IF e \in InFlight THEN "lost" ELSE phase[e]]
    /\ wire' = [e \in Exec |-> IF wire[e] = Sent THEN Sent ELSE Idle]
    /\ aborted' = {}
    /\ page' = [e \in Exec |-> MaxPage + 1]
    /\ outcome' = [e \in Exec |-> "none"]
    /\ progress' = [e \in Exec |-> 0]
    /\ UNCHANGED <<hosted, traced, args, span, answer, ran, version, live,
                   keys, applied>>

InitializeLog == InitializeCore /\ UNCHANGED <<hosted, traced, callVars, collectorVars>>
Collector(e) == CollectorApplies(e) \/ CollectorRefuses(e)
ReplyArrives(e) == HeadersArrive(e) \/ BodyRefuses(e) \/ BodyAccepted(e)
Settles(e) ==
    \/ RunningSaved(e) \/ RunningNotSaved(e) \/ Invoke(e)
    \/ FetchFails(e) \/ BodyFails(e)
    \/ Step(e) \/ \E recorded \in BOOLEAN : Complete(e, recorded)

Next ==
    \/ \E e \in Exec, a \in Args(1..version) : Execute(e, a)
    \/ InitializeLog
    \/ \E e \in Exec : Collector(e) \/ ReplyArrives(e) \/ Settles(e) \/ Cancel(e)
    \/ Crash

Spec == Init /\ [][Next]_vars

\* Disk I/O and notifications settle, and every request has a timeout; that the
\* collector answers is not assumed.
FairSpec ==
    /\ Spec
    /\ WF_vars(InitializeLog)
    /\ \A e \in Exec : WF_vars(Settles(e))

-----------------------------------------------------------------------------
\* A tool of a local server runs only once its running record is durable: what
\* has run is in the log, or was evicted by records that are not older.
RanMeansRecorded ==
    \A e \in ran \ Ids : hosted \/ (Len(log) = MaxExecutions
                                    /\ \A i \in DOMAIN log : log[i].at >= at[e])

\* "This tool call was not run" and a scope challenge are told only of calls that
\* did not run, whatever becomes of the terminal record of one that did.
RefusedNeverRan == \A e \in ran : answer[e] \notin {"not_run", "challenged"}

\* Once the log is open, a record says "running" if and only if its execution is
\* in flight in this process, or could not be completed in the log.
RunningMeansInFlight ==
    \A i \in DOMAIN log : LET e == log[i].id IN
        /\ log[i].status = "running" /\ loading = "ready"
              => \/ e \in InFlight
                 \/ traced => e \in Exec /\ span[e] = "evidence_persistence_failed"
        /\ e \in InFlight => log[i].status = "running"

\* The two kinds of evidence agree: an operation that ended without
\* evidence_persistence_failed has the record of the same outcome, if it has one.
SpanAgrees ==
    \A i \in DOMAIN log : log[i].id \in Exec =>
        /\ span[log[i].id] = "ok" => log[i].status = "succeeded"
        /\ span[log[i].id] = "tool_error" => log[i].status = "failed"

\* What an operator reads in the log is what happened, and stays so.
LogTellsTheTruth ==
    [](RanMeansRecorded /\ RunningMeansInFlight /\ SpanAgrees) /\ TerminalIsFinal

\* A code that says that nothing was changed is told only of a call that changed
\* nothing, although its request may be served late and its answer be cut short.
RefusalMeansUnchanged == \A e \in applied : answer[e] # "refused"

\* No answer denies what was done: neither that the tool ran, nor that it changed
\* something.
RefusalsAreTrue == RefusedNeverRan /\ RefusalMeansUnchanged

\* "cancelled" is the caller's doing, never a timeout's or the network's.
CancelledByCaller ==
    [][\A e \in Exec : outcome'[e] = "cancelled" /\ outcome[e] # "cancelled"
                         => e \in aborted]_outcome

\* "Identical creates are deduplicated", and repeating an update or a delete
\* "changes nothing more": of the creates of one tool with the same arguments, one
\* the retry of the other or both at once, one changes something; so does one of
\* the updates and deletes whose callers have read the same etag, whoever they are.
SameChange(e, f) ==
    \/ /\ Op(e) = "create"
       /\ args[e].tool = args[f].tool /\ args[e].key = args[f].key
    \/ {Op(e), Op(f)} \subseteq {"update", "delete"} /\ args[e].etag = args[f].etag
RepeatsChangeNothing == \A e, f \in applied : SameChange(e, f) => e = f

\* A hosted caller's changes are covered by the scopes of its token.
ChangesNeedScope ==
    \A e \in applied : hosted =>
        (IF Op(e) = "delete" THEN "delete" ELSE "write") \in args[e].scopes

\* A step is notified to a caller that still waits, and of work that was done.
Done(e) == Op(e) = "read" \/ e \in applied \/ (Op(e) = "create" /\ Key(e) \in keys)
ProgressIsTrue ==
    [][\A e \in Exec : progress'[e] > progress[e] => e \notin aborted /\ Done(e)]_progress

\* Every call is answered, unless the process dies: whatever the store, the
\* collector, the network and the client do.
EveryCallAnswered == \A e \in Exec : e \in InFlight ~> e \notin InFlight
==============================================================================
