# qyl.mcp in TLA+

A model of the qyl.mcp server (`server/src`): TLA+ modules translated from its
source, TLC runs that check them on small instances, and proofs, checked by
TLAPS, of what holds for every value of the constants. `PROJECT.json` lists the
components, runs, hazards, findings and theorems, and for every definition the
source lines it stands for. Paths below are relative to `server/src`.

    tlc -workers 2 -config events_lifecycle.cfg MCEventsRuntime
    tlapm EventsRuntimeProofs.tla

## The system

qyl.mcp is an MCP server between agents and a telemetry collector. It runs on
stdio for one user, or hosted over HTTP for many. It is one JavaScript process:
code between two `await`s runs to completion, and everything that is hard
happens between them.

| Component | State it keeps | Operations | Made correct by |
|---|---|---|---|
| Event subscriptions (`events.ts`) | stored subscriptions; per process: poll timer, the poll in progress, baselines (`seen`), verification cache, active deliveries and their abort signals | `subscribe`, `unsubscribe`, `poll`, `deliver`, `start`, `stop` | capacity, no POST after unsubscribe or revocation, one delivery per trace, no replay, key rotation, polls that end |
| Atomic JSON store (`atomic-json-store.ts`) | a file, the state in memory, a promise chain of operations, the load's promise | `initialize`, `read`, `transact`, `replace` | whole documents, no effect of a failed write, reads after earlier writes |
| Delivery authorization (`events-authorization.ts`) | decision cache, pending checks, management token and its refresh | the returned `isAuthorized` | bounded staleness, no sharing between principals, failures not cached |
| Native execution (`native-execution.ts`) | a bounded log of tool calls in a JSON store, migrated, archived when unreadable | `execute`, `save`, `list`, `initialize` | a running record before the tool runs, interrupted records closed once, outcome kept when a record cannot be written |
| Webhook transport (`webhook.ts`) | none | signature, address checks, one POST | (pure, and one socket) |
| Collector client (`collector.ts`, `data.ts`, `contract-validation.ts`) | none | `collectorRequest`, classification of failures | cancellation and timeout told apart |
| Write tools (`write-tools.ts`, `collector-resources.ts`) | none here; etags and idempotency keys travel with the calls | create, update, delete of collector resources | a retry changes nothing twice, keys and etags travel unchanged |
| Analysis tools (`request-scope.ts`, `analysis-*.ts`, `metrics-tools.ts`) | per request: deadline, progress, abort signal; page limit of the loop | bounded queries | the loop ends, no progress after the end |
| Contract handshake (`contract-handshake.ts`) | attempts | `assertCollectorContractRevision` | hosted transport never serves unverified |
| Entry point (`main.ts`, `http-security.ts`, `server.ts`, `config.ts`) | the running servers | start-up, `createFetch`, shutdown | order of checks, order of start and stop |
| Request authorization (`authorization.ts`, `oauth*.ts`, `auth*.ts`, `cloudflare-access.ts`, `tool-scopes.ts`) | key sets of a library | gate, scope checks | required scopes for every path to the handler |
| Subject to project (`collector-access.ts`, `contract-headers.ts`) | a mapping read at start-up | `collectorAccessForSubject` | no fallback to another project |
| Telemetry (`telemetry.ts`, `mcp-semconv.ts`) | active operations | start, run, end | an operation ends once |
| Redaction (`secret-redactor.ts`, `telemetry-redaction.ts`) | known secrets | text in, text out | pure |
| Tools, skills, summaries, wire format | tables | registration, formatting | pure |

How they interact: the hosted start-up reads the configuration and the project
mapping, completes the handshake, builds the gate, awaits `events.start()`, then
serves. A request passes the gate, then a tool, which is wrapped by native
execution, calls the collector client in a request scope. Event tools call the
events runtime, which calls the delivery authorization, the collector client (a
list of recent traces per project) and the webhook transport. Events and native
execution each own one JSON store. On a signal, shutdown stops the HTTP server,
closes the handler and awaits `events.stop()`, or closes the stdio server, and
then closes the telemetry. When the client of a stdio server closes stdin, no
code of the server runs: the process ends as soon as nothing holds it.

Hard behaviours, each listed with its line under `hazards`: subscribe checks
its capacity twice around a challenge over the network; one poll at a time waits
for all deliveries, which retry with backoff; unsubscribe, stop, revocation,
expiry and rotation may fall between any two steps of a poll or a delivery;
checks of one principal share a promise, and one management token serves all of
them while it expires, is refreshed or is revoked; a tool's change may be served
after its caller has stopped waiting, and be asked for again; the log of tool
calls is written before and after a tool that cannot be undone; everything but
the two stores is lost with the process; a store write consists of steps of
which each may fail; start and shutdown may fail or be cut short by a signal at
any await.

## Modules

| Module | What it is |
|---|---|
| `DurableDocument` | what the users of a store rely on: operations applied one at a time and whole, an answer `ok` if and only if applied |
| `AtomicJsonStore` | the store, step by step; implements `DurableDocument` |
| `EventsRuntime` | subscriptions, poller and deliveries, over a store as `DurableDocument` describes it |
| `EventsAuthorization` | what answers the runtime's "may this principal still receive events?" |
| `NativeExecution` | the log of tool calls and its initialization |
| `CollectorClient` | one request's outcome, as the code that a tool result carries |
| `ToolRegistry` | the tools, their effects, scopes and named refusals |
| `ToolCalls` | tool calls from the request to the answer; composes the three above with the collector and the client |
| `RequestGate` | what a hosted HTTP request meets before the handler (operators) |
| `HostedServer` | the life of the process: start, handshake, gate, requests, shutdown; runs `RequestGate` |
| `EventsAuthorizationProofs`, `AtomicJsonStoreProofs`, `RequestGateProofs`, `HostedServerProofs` | theorems about the module of that name |
| `EventsRuntimeProofs`, `EventsDeliveryProofs` | theorems about `EventsRuntime`: subscriptions, poller and shutdown; deliveries, secrets and baselines |
| `ToolCallsProofs`, `ToolCallsLogProofs` | theorems about `ToolCalls`: what callers are told; what the log says |
| `MC...` | model values, fault sets and inputs for TLC |

How they fit together: `EventsRuntime` and `NativeExecution` use the store as
`DurableDocument` promises it, which `AtomicJsonStore` is proved to keep.
`EventsRuntime` takes the answer of `isAuthorized` as it comes;
`EventsAuthorization` shows what such an answer is worth. `HostedServer` ends
where a request reaches the MCP handler with a verified caller; `ToolCalls`
begins there.

### AtomicJsonStore

`disk` is what a load of the file would find; `mem` is `this.state`; `loading`
the promise `this.initialization`; `queue` the operations chained on
`this.tail`; `stage` and `draft` where the head of the queue is. A document is
the set of callers whose entry it holds, which is enough to tell a lost update
from a kept one. `Submit` is a call of `transact` or `replace`; `BeginWrite`,
`Rename`, `Publish` and the failures are the steps of `commit` and
`writeAtomically`; `ReadCall`, `ReadJoinsTail`, `ReadReturns` those of `read`.
The steps before the rename touch only a temporary file that nothing loads and
are one step that succeeds or fails. `Crash` is the end of the process.

The refinement mapping: an operation takes effect when its rename does, and an
abstract document is what a restart would load. The rename is therefore the
only step at which the file changes, and the answer that follows must agree.

### EventsRuntime

An action is the code from the answer to one `await` up to the next. The
correspondence, operation by operation:

- `subscribe`: `SubscribeCall` (to the authorization check),
  `SubscribeAuthorized` (answer, first capacity check, verification cache),
  `ChallengeEchoed` or `ChallengeFails`, `SubscribeCommits` (prune, second
  capacity check, write, `ensurePolling`) or `SubscribeRefused`.
- `unsubscribe`: `UnsubscribeCall`, `UnsubscribeCommits` (removal, abort of the
  active deliveries), `UnsubscribeReturns` when those have ended.
- `pollOnce`: `PollTimer`, `PollBegins` (prune, empty test), `PollAuthorizes`
  for each id of the snapshot, `PollGroups`, `PollFetches` or `PollFetchFails`
  for each project, `PollEnds` when the deliveries have settled; `PollFails`.
- `deliverWhileActive`: `AttemptAuthorized`, `AttemptPosts` (re-read, abort
  test, signature, the POST goes out), `PostSettles`, `PostGone`,
  `PostTransient`, `Wakes`.
- `Start`, `Stop`, `Exit` (`stop()` has returned) and `Crash`.
- The world: `Tick`, `Arrives` (a trace reaches the collector), `AccessChanges`.

What is abstracted, and why it changes nothing the properties tell apart:

- A store transaction is one step together with the continuation of its caller.
  `AtomicJsonStore` implements `DurableDocument`: operations are applied in the
  order in which they were queued, each as a whole. A transaction that waits in
  the queue sees what the ones before it wrote, as it would if it had been
  issued when it ran. The clock is read where the transaction commits.
- `isAuthorized(p)` answers with `access[p]` when it resolves: granted, revoked,
  or an outage. A refused project mapping (`CollectorAccessError`) counts as
  revoked, as `authorized()` has it. How old such an answer may be is the subject of
  `EventsAuthorization`.
- The first capacity check reads the store after the authorization; both are
  one step. A subscription that is missing at that read may be made by another
  call before the write; the second check, which is what the limit rests on, is
  in the step that writes.
- The poll authorises its snapshot in any order; the code goes in the order of
  the stored list. Groups are fetched in any order.
- A page of recent traces holds all that arrived, and a baseline keeps all it
  has seen: the 5000 traces of a baseline and the length of a page are left out
  (see Not modelled).
- After an abort a POST settles without effect (`post` rejects, the loop ends).
- Parameters are valid; payload and wording are left out. `Wanted` is what
  `matches()` answers.
- Unsubscribe waits for promises; the model keeps the traces they belong to.

`fate`, `cut`, `before`, `backlog`, `proven` and the counter `late` are history:
they are read by properties only.

### EventsAuthorization

`fact` is what Auth0 holds (accounts, RBAC permissions, application grants,
consents, the resolution of a CIMD client) together with the ticks since it was
last otherwise, so that a reply may tell what was the case at any moment between
the sending of a request and its arrival. `cache` and `check` are the two maps
of `createAuth0EventAuthorization`, `check[k].gets` the requests of a check that
are under way with the page they ask for, `token` and `refresh` the management
token and the request for the next one, `stray` the requests that a failed check
left behind (`Promise.all` rejects with the first failure; the other listings
page on and may still drop or renew the token). `asked` is what the callers of a
shared check wait for.

`Asks` is a call of `isAuthorized`; `GoesOn` an account or client that exists;
`Refutes` one that does not; `Listed`, `NextPage` and `Incomplete` the paged
listings; `Rejected` a 401; `RequestFails` anything else; `TokenIssued`,
`TokenArrives` and `TokenFails` the refresh; `Rotate` and `Withdraw` are Auth0's.
Each deadline of the code is a countdown that `Tick` advances, and `Tick` does
not pass over a timer that is due: a request that is out of time is answered or
fails first. Lengths are in ticks, so that what matters is their order.

Abstracted: the text of queries and bodies; a listing does not shift between two
of its pages; what was withdrawn is not granted again (a bound).

### NativeExecution, CollectorClient, ToolRegistry, ToolCalls

`layout` and `log` are the state file, `loading` the promise
`this.initialization`, `at` a record's `createdAt`. `ArchiveUnreadable`,
`OpenLog`, `MigrateLog`, `CloseInterrupted` and `InitializeFails` are
`initializeCore()`; `SaveSucceeds` and `SaveFails` are `save()`, with `Saved` as
what it does to the list (replace, or sort in and cut to the newest
`MaxExecutions`). The code pushes a new record and sorts all of them; since the
list is sorted before and the sort is stable, that puts the record behind those
that are not newer (`Place`, `SortedIn`), and a replaced record, whose
`createdAt` is the same, stays where it is. `ToolCallsLogProofs` proves that the
list is sorted whenever `save` runs (`Ordered`). The process may find any file
that an earlier one, or an earlier release, may have left (`Found`): up to
`MaxExecutions` records, all older than its own.

`ToolCalls` adds the call around it, an action from one `await` to the next:
`Execute` (scope challenge of the SDK, start of the operation's telemetry),
`RunningSaved` or `RunningNotSaved`, `Invoke` (`runTool`: project, argument
checks, the request goes out), `FetchFails`, `HeadersArrive`, `BodyFails`,
`BodyRefuses`, `BodyAccepted` (with the loop of `queryAnalysis` that asks for a
smaller page), `Step` (progress), `Complete` (`saveTerminal`, the end of the
operation, the answer); `Cancel` is the client, `Crash` the end of the process.
`CollectorApplies` and `CollectorRefuses` are the world: a request that has left
may be served at any later time, also after its caller gave up or the process
died, and an edge may answer in the collector's place. The collector honours
`If-Match` and `Idempotency-Key`, as its contract has it: that a change is
applied to no other version than the one it names is an assumption here, and no
property says it again. What the server adds is which key and which etag travel,
and that a retry repeats them (`RepeatsChangeNothing`). The collector may name
any kind of problem with any status (`Problems`), but it does not deny a request
that it has applied.

`answer` is what the client was told as far as it can act on it: `ok`,
`cancelled`, `refused` (a code that says nothing was changed), `uncertain` (any
other code), `not_run`, `challenged`. `applied` and `ran` are history.

Abstracted: arguments, wording, paths; a body is what the contract says or not;
the size of an analysis page is a number, and a result is within the budget or
beyond it; the compaction of a large record is one step. Every call carries a
progress token (without one, no step is notified), and the last notification,
"Result ready", is one with the end of the call. A hosted server has no log of
calls, a local one no verified callers.

### RequestGate, HostedServer

`config` is the environment, one of `Config`; `phase` the point of `bootstrap()`
or of the shutdown that is reached; `attempt` and `seen` the probes of the
handshake and what they showed; `metadata` what the authorization server
advertises; `request` one request at the gate, in the handler, challenged or
answered, with its verified caller or the scopes that its challenge asks for;
`closing` the parts of the shutdown that have not ended, `left` the endpoint that
failed to close and may still hold the process.
`ReadProjects`, `Probe`, `Configure`, `CandidateFails`, `Discovered`,
`OpenEvents` and `Bind` are the start, each a stretch between two awaits and its
failures; `Arrives` is `createFetch` up to the gate (`BeforeGate`), `GateEnds`
the gate (`Gate`), `HandlerEnds` the handler; requests go on while the server
stops. `Signalled` is `process.once`; `Stops` is one of the promises that the
shutdown awaits, which resolves or rejects, and `CloseRuntime` what follows them.
`Exits` is the end of a process whose event loop is empty; `StdinEnds` the end of
a stdio server whose client closes stdin.

What is assumed of the libraries there: when `handler.close()` resolves, nothing
that the handler ran goes on, and it takes no further request; the same holds of
`handle.close()` of the stdio server. `http.stop(true)` drops connections, but
what runs behind them goes on until the handler is closed. Of a promise that
rejects nothing is assumed: its request may go on, and the listening socket or
stdin may stay open and hold the process (`left`).

`RequestGate` has the order of checks of `createFetch`, the bearer gate with the
closure of the scope hierarchy, the gate of Cloudflare Access, the rebinding
guards and `collectorAccessForSubject` as operators on a request. A token or
assertion is valid or not: verification is a library's, and a key set that
cannot be fetched makes a token fail like a wrong one.

Abstracted: host names are of three kinds; additional allowed hosts, CORS
headers and bodies are left out; what an extension requires of the authorization
server is one capability of its own (in the code it is values of several metadata
fields, one of which both extensions use); one request is followed at a time, as requests share no state before the
handler.

### Faulty variants

A definition `X` may be preceded by variants marked "Faulty variant": the same
operator with a mistake that the code could plausibly have had (a dropped check,
an unbounded window, a missing abort). They are used by nothing. `PROJECT.json`
names, for every property of a passing run, one or more variants under which TLC
finds that property violated; this shows that the run can see the mistake.

## Runs

State counts are of distinct states.

| Run | Instance | Shows |
|---|---|---|
| `store_safety` | 3 callers, every failure but a late `chmod`, crashes, fair (75 thousand) | `ImplementsDurableDocument`: a refinement, which includes that an unreadable file is never overwritten; `ReadsAreCurrent`: memory is the file, and a read follows the writes queued before it; `CallsAreAnswered`: a failed operation or load leaves nobody behind it unanswered |
| `store_chmod` | 2 callers, a failing `chmod`, crashes | **violated**, see Findings |
| `events_lifecycle` | 1 subscription over its whole life, 1 trace, 2 secrets, every fault, 3 ticks (733 thousand) | `OnePostPastRevocation`, `StopReachesDeliveries`, `PollerArmed`, `NoReplay`, `DeliveredOnce`, `SecretsHandOver` |
| `events_capacity` | 2 subscriptions of one principal, cap 1, 2 calls at once, every kind of lifetime, failed writes, crashes (1.6 million) | `CapacityHeld`, `LifetimeBounded` |
| `events_sharing` | 2 principals with one project and one callback URL, a verification cache of one entry; outages, revocations, failed fetches (4.1 million) | `VerifiedBeforeData`, `BaselineKept` |
| `events_progress` | 1 subscription, 2 calls at once, every fault, fair (165 thousand) | `QuietAfterUnsubscribe`; `EverythingEnds`: polls, calls and `stop()`, whatever the answers are |
| `events_attempts` | 2 subscriptions of 2 principals with a project each in every poll, 2 traces of one project; retries, 410, fair (351 thousand) | `PollerDoesItsWork`: new errors are attempted, and an idle poller disarms itself; `OwnProjectOnly`: neither a delivery nor a baseline holds a trace of the other project |
| `events_resubscribe` | no fault at all | **violated**, see Findings |
| `events_outage` | outages only | **violated**, see Findings |
| `tool_calls` | 2 calls, any of the tools named in the cfg, local or hosted, any state file with up to 1 old record, every fault, fair (716 thousand) | `LogTellsTheTruth`, `RefusalsAreTrue`, `RepeatsChangeNothing`, `ChangesNeedScope`, `CancelledByCaller`, `ProgressIsTrue`, `EveryCallAnswered` |
| `events_access` | 2 subscribers of one CIMD client, one without an account; a consent that may be withdrawn, a token that expires or is revoked; lost, late and partial answers, fair (348 thousand) | `AllowedIsFresh`, `DeniedHasEvidence`, `CallsAnswered`, `Recovers`; `TypeOK` includes the limit of the cache |
| `hosted_server` | both transports and their configurations, every probe and discovery, every request of the instance, also during a shutdown, two signals, parts of the shutdown that fail, the end of stdin, fair (1.5 million) | `ServesOnlyChecked`, `HandlerSeesVerified`, `CallsUseOwnProject`, `ChallengeIsFollowable`, `StopsInOrder`, `StartsAndStopsEnd` |

### Bounds

Every bound is a constant of a `.cfg` or a named set of an MC module.

Events. The clock runs from 1 to `MaxTime`. Where time matters that is 3: a
lifetime of 2 then ends within the run, and so does a rotation window of 1,
which lets a previous secret outlive its window while its subscription lives on.
Where only order matters the clock stands still (1). `Attempts` is 2, the least
number with a retry (the code has 5); `Cap` is 1 and two subscriptions race for
it. `MaxVerified` is 1 where two callbacks compete for the cache and 4, never
reached, elsewhere. Two secrets are enough for a rotation and one back; two
concurrent calls for a check and a write to be separated by another call's
write; one poll runs at a time in the code. One trace suffices where a delivery
is followed through. `events_attempts` has two subscribers whose projects are
polled side by side, so that each may be put into the group of the other, and two
traces of one of the projects, so that a listing has several that are new or a
delivery in progress meets the next one. Its clock stands still and its process
does not stop: with restarts or an expiry it is beyond what TLC explores with
fairness; restarts and expiry are in `events_lifecycle`, and `DataStaysInProject`
is proved for any number of projects and every fault. Symmetry, of the calls that run at once, is used in `events_capacity`
only: they are interchangeable and no property names one.

Store. Three callers: one in the middle of a write, one queued behind it, one
reading.

Tool calls. Two calls are what one change and its repetition, or two competing
changes, need; `MaxExecutions` 1 makes every second record evict the first; one
old record meets every status and layout; pages of up to 2 records let the loop
shrink once. One local tool suffices because the log does not depend on the
tool; the hosted ones have one representative of each effect, set of scopes and
kind of refusal.

Authorization. Two principals that share a client and differ in subject are
what a wrong cache key confuses; `MaxCache` 1 makes the second entry meet the
limit; two listings run side by side, of two pages each; a request takes one
tick, the cache lasts one, a token three of which the last two are its margin:
the least lengths that keep the order of the code's 10 s, 5 s, and 60 s before
the end. One kind of request may be left behind at a time.

Server. Four attempts (the code's number); one account with a project and one
without; a hierarchy of scopes with a cycle, and tokens with no scope, the
required one, or one that implies it through the cycle; two extensions and one
unknown pin. A server with a public URL is bound to every interface, one without
to either (the URL alone decides what is allowed); requests that carry
credentials go to `/mcp`, one kind of credential each.
`hosted_server` has `CHECK_DEADLOCK FALSE`: the process ends. Elsewhere deadlock
is checked: a server that is down can start, one that is up takes calls.

### Fairness

The fair specifications assume weak fairness of what the code itself schedules:

- a poll timer that is armed fires, and a poll goes on when an answer is there:
  the authorization and collector requests carry a timeout of 10 seconds
  (`events-authorization.ts:63,82`, `collector.ts:172`);
- a call goes on when its answer is there, for the same reason; a store write
  succeeds or throws;
- a delivery goes on: a backoff sleep ends by its timer or its abort signal,
  and a POST settles. The POST's timeout is that of an idle socket
  (`webhook.ts:229`): a callback that answers, closes or falls silent satisfies
  the assumption, one that sends a byte now and then for ever does not. The
  liveness properties hold under that assumption only; it is listed as a hazard;
- once `stop()` has nothing to wait for, the process ends;
- a tool call's own steps are taken: disk I/O settles, a request ends by its
  timeout at the latest. That the collector answers is not assumed;
- requests to Auth0 and for its token end, time passes, and a delivery that was
  told "unavailable" asks again, as the next poll or attempt does;
- each await of the start and of the shutdown ends; so does a request: the
  gate's fetch of keys has a timeout, and a tool call is answered
  (`EveryCallAnswered`). That a client of a stdio server ever leaves is not
  assumed, and `StopEnds` makes an exception of an endpoint that failed to close.

Nothing is assumed of callers, of access, of which answer comes, of signals, of
`Start` or of `Crash`. `events_attempts` leaves out what may keep an answer away
for ever: a poller whose pruning write fails every time never disarms itself,
and an outage, a revocation or a failing collector keeps an error from being
attempted.

## Proofs

TLAPS proves the theorems below from the modules' assumptions about constants
(`ConstantsAssumption`, `NoneAssumption`, `StoreAssumption`,
`AuthorizationAssumption`, `LogAssumption`, `ToolCallsAssumption`,
`ScopeAssumption`, `HostedAssumption`) alone: for any finite sets of
subscriptions, callers, clients, calls and scopes; any principals, projects,
traces, secrets, requests, tools, records found and configurations; any
hierarchy of scopes; any lifetimes, windows, limits and numbers of attempts; any
faults of the specification. The assumptions say what the constants are (sets,
numbers, typed functions), that the sets of ids are finite, and that values which
stand for "nothing" are no proper values.

`EventsRuntimeProofs`, `EventsDeliveryProofs`:

| Theorem | Property | Argument |
|---|---|---|
| `TypeCorrect` | `TypeOK` | inductive with its own strengthening: a call past its start has an id, and a secret while it subscribes; a sleeping delivery has an attempt left |
| `CapacityNeverExceeded` | `CapacityHeld` | only `SubscribeCommits` makes live records (`DocumentStep`, `Shrinks`); it makes one, and only if the pruned document has a slot or the record was live before (`CommitResult`); pruning does not change what is live |
| `LifetimesBounded` | `LifetimeBounded` | only a commit sets a deadline, `GrantedTtl` is bounded (`GrantedTtlBounds`), the clock does not run back |
| `OnePostAfterRevocation` | `OnePostPastRevocation` | strengthened by `LateBounded`: while access is not granted, a delivery that has passed its check has not yet sent a late POST; the next check stops it |
| `UnsubscribeIsQuiet` | `QuietAfterUnsubscribe` | strengthened by `PostsAreJoined`: an unsubscribed id has no record, so no POST for it begins, and one in flight is waited for by some call |
| `PollerStaysArmed` | `PollerArmed` | only a subscribe makes a record and it arms the timer; only a poll that leaves no record clears it (`ArmedStep`) |
| `StopReachesAll` | `StopReachesDeliveries` | after stop() nothing starts and an abort is never lost (`AbortKept`) |
| `NoSecondDelivery` | `DeliveredOnce` | strengthened by `DeliveredIsKnown`: what was delivered is listed by the collector and is in every baseline its subscription ever has, so that it is never new again |
| `NothingIsReplayed` | `NoReplay` | strengthened by `FreshStart`: a process that is down has no baseline, poll or delivery; in one that runs every baseline contains what arrived before the start |
| `DataStaysInProject` | `OwnProjectOnly` | a delivery starts, and a baseline moves, only in the fetch of its own group (`DeliveryLife`, `SeenChanges`), and a group has one project |
| `DataNeedsProof` | `VerifiedBeforeData` | strengthened by `Proven`: cache entries, calls about to commit, records, the poll's members and deliveries all belong to proven callbacks |
| `SecretsAreHandedOver` | `SecretsHandOver` | the document changes by pruning and by a commit alone (`DocumentMoves`); pruning keeps the secrets of what it keeps (`PruneKeepsSecrets`), a commit hands over or renews (`HandsOver`, `RenewalHandsOver`); a POST goes out in the step that reads the record (`PostSigned`) |
| `BaselinesAreKept` | `BaselineKept` | the few ways a baseline moves (`SeenChanges`), and `SnapshotIsFresh`: a poll that is yet to take its snapshot has none, so that one that finds no record forgets no baseline of a member |

The properties themselves are not inductive: `QuietAfterUnsubscribe`, for
instance, says nothing of a delivery that is about to post for an id without a
call in progress; it is the missing record that stops it.

`AtomicJsonStoreProofs`. The invariant (`IInv`) relates the queue, the stage of
its head, the draft, memory and the file: memory is the file but between a
rename and its publication; a draft is the effect of the head on memory; every
caller of a write is queued once; nothing unparsed is ever in memory.

| Theorem | Property | Argument |
|---|---|---|
| `KeepsItsPromise` | `ImplementsDurableDocument` | the initial states map to initial states, `Rename` and the answer that follows map to the step of the abstract operation, everything else to a stutter or an abstract load or crash |
| `ReadsCurrent` | `ReadsAreCurrent` | `MemoryFollowsDisk` and `ReadsWait`; the latter needs `ReadInv`: what a reader still waits for is the front of the queue |
| `UnreadableSurvives`, `TypeCorrect` | `UnreadableIsKept`, `TypeOK` | nothing is renamed into place before a load succeeded; the counters of readers are bounded by the queue, and the queue by its callers |

`EventsAuthorizationProofs`. `AllowedIsFresh` says nothing of a check that is
under way; the invariant does (`Known`): each request of a check knows for how
long the check may have run (`Elapsed`, `Before`), and what the finished
requests found was the case within that time. The three listings run side by
side, so that a page of one must have been asked for after the first page of
every other (`TimedGets`).

| Theorem | Property | Argument |
|---|---|---|
| `FreshWhenAllowed`, `DeniedOnEvidence` | `AllowedIsFresh`, `DeniedHasEvidence` | `IInv` at the last reply, then the age of a remembered answer (`CacheInv`); one lemma per action, `TickKeeps` for time |
| `TypeCorrect` | `TypeOK` | on top of `IInv`; the limit of the cache because the code clears it before it would grow past it |

`ToolCallsProofs`. The invariant (`CallInv`) says of every call what its phase
implies: a call that has not begun has no request; a change that is applied or
may still be applied (its request has left) is not told as refused; what was
applied has its key remembered or its version passed.

| Theorem | Property | Argument |
|---|---|---|
| `RefusalsTellTheTruth` | `RefusalsAreTrue` | `NotRefused`: the outcome of a call whose request may still be served is never a refusal |
| `OneOfManyApplies` | `RepeatsChangeNothing` | the key of a create and the etag of an update or a delete are those of its arguments, whenever it is sent; applied keys and passed versions are never forgotten |
| `ChangesAreCovered`, `OnlyCallersCancel`, `ProgressTellsTheTruth` | `ChangesNeedScope`, `CancelledByCaller`, `ProgressIsTrue` | scopes are compared before a call begins; the two signals of a request are told apart; a step is reported after its work |

`ToolCallsLogProofs`. `LogTellsTheTruth` is not inductive: that the record of a
call at work says `running` does not tell what the terminal save will meet, and
"evicted by records that are not older" survives the next eviction only if the
log is sorted. The invariant (`LogInv`, on top of that of `ToolCallsProofs`) has
the order of the log (`Ordered`), where each call stands in it (`InLog`: no
record before the running one is saved; from then on `Kept`, in the log or
evicted by records not older) and what each record says of its call (`Says`).
`SaveKeeps` is the lemma about `save`: the record that is saved and records of
others, in order, each execution still in the log or behind it; it rests on
lemmas about the place of a record (`PlaceOf`), the insertion (`SortedInIs`) and
the limit (`BoundedIs`).

| Theorem | Property | Argument |
|---|---|---|
| `LogIsTrue` | `LogTellsTheTruth` | `LogInv` implies the three invariants; a terminal record changes in no step (`FinalStep`), since only a call at work saves and its own record says `running`, or is missing |
| `ToolCallsTyped` | `TypeOK` | the log because of `SaveKeeps`; the versions given out because every one of them is another call's change |

`RequestGateProofs`. `ScopeClosure` is defined by a recursive function, the
rounds of a search. The provers cannot take an induction principle, so each
induction is a smallest counterexample of a set of naturals (`LeastNatural`, from
the theorem that `<` is well founded). That the recursion defines anything is
itself to be shown: the rounds are exhibited as the ends of chains of
implications (`Chain`, `ReachedUnfolds`). A round that adds nothing is the last,
and each other one adds a scope (`ReachedSettles`), so that as many rounds as
there are scopes suffice, cycles or not.

| Theorem | Says |
|---|---|
| `ScopeClosureIsLeast` | the closure holds the granted scopes and what they imply, and is the least such set |
| `ScopesStartFromGrants` | every effective scope has a verified one "as its starting point" (`authorization.ts`) |
| `StepUpSuffices` | a client that returns with the scopes that a 400, 401 or 403 asked for is admitted |

`HostedServerProofs`. The invariant says what the start has established by the
time it reaches each phase (`StartInv`, `SupportInv`), that events run only with
what they need (`EventsInv`), who a request in the handler is (`RequestInv`),
what is still to be closed, and that a handler which has closed runs no request
(`StopInv`). `VerifiedInv` adds what a request has passed by the time it is at
the gate, in the handler or challenged.

| Theorem | Property | Argument |
|---|---|---|
| `OnlyCheckedServes` | `ServesOnlyChecked` | the evidence of the last probe carries over to every later phase |
| `OwnProject` | `CallsUseOwnProject` | with projects configured a gate is built, and it admits only known subjects |
| `VerifiedOnly` | `HandlerSeesVerified` | `GateVouches` for each provider; the property quantifies over all closed sets of scopes, `ScopeClosureIsLeast` says that the code's closure lies in each |
| `FollowableChallenges` | `ChallengeIsFollowable` | a challenged request has passed the host and origin checks, passes them again as discovery, preflight and retry, and is then admitted (`StepUpSuffices`) |
| `ShutdownInOrder` | `StopsInOrder` | telemetry is closed when nothing is left to close, and no signal begins a second shutdown; a process ends without an exit code of its own only when its shutdown completed, or when the client of a stdio server left it before any signal |
| `TypeCorrect` | `TypeOK` | the counters of attempts stay below the limits of their phases |

Every safety property that a passing run checks is thus proved. Checked by TLC
only are the liveness properties (`CallsAreAnswered`, `EverythingEnds`,
`PollerDoesItsWork`, `EveryCallAnswered`, `CallsAnswered`, `Recovers`,
`StartsAndStopsEnd`): fairness and ENABLED are out of the proof system's reach.

## Findings

1. `store_chmod`. The class comment of the store says that "a failed validation
   or write never replaces the last known-good document"
   (`atomic-json-store.ts:29-30`). `chmod` runs after the rename (line 175):
   when it throws, the caller gets `write_failed` and memory keeps the old
   state, while the file holds the new one, which the next process loads.
2. `events_resubscribe`. "The first poll sets a baseline, so a subscription
   never receives a backlog" (`events.ts:12-13`). A baseline outlives its
   subscription until the next poll; a subscription that is removed and made
   again in between takes it over, and receives what arrived before it was made.
3. `events_outage`. "Authorization outages suspend delivery" and a baseline is
   kept "so recovery can still deliver errors that arrived during the outage"
   (`events.ts:20,579-580`). That holds for an outage met by the poll. One met
   by the delivery's own check, after the trace was marked as seen, loses the
   event.

Met on the way, without a document that says otherwise: the promise of the
log's initialization is kept when it is rejected (`native-execution.ts:161`), so
that one failed start-up write refuses every later call of the process; a reply
whose body is cut short by the caller's own abort is classified
`contract_mismatch`, not `cancelled`; a key set that cannot be fetched is
answered as an invalid token (`oauth.ts:73`); a notification that throws turns
the result of a change that was applied into `internal`, which promises nothing;
a stdio server closes its telemetry on a signal only (`main.ts:406-424`), so that
a client which closes stdin, as MCP clients do to end a session, ends a process
with telemetry open and exit code 0. `ExitZeroIsClean` is stated with that
exception (`LeftByClient`).

## Not modelled

- Loss of power: the store does not sync the directory, and what a file system
  keeps then is outside the source. Crashes are those of the process.
- Several processes on one file: the store's queue is that of one process.
- The size limits of a poll (`events.ts:617`): a baseline keeps 5000 traces and
  a poll lists a page. It needs the order of insertion, which none of the other
  properties tells apart; listed as a hazard without a property.
- A listing of Auth0 that shifts between two of its pages: an entry may then be
  missed, or seen twice; the code cannot tell.
- The webhook transport: signatures and address rules are pure and have unit
  tests, the one POST is `node:https`. `EventsRuntime` has every outcome of it.
- Redaction, summaries, skills, schemas, layout and the compaction of a single
  large record: text in, text out.
- Export and batching of telemetry, verification of signatures, the MCP SDK:
  libraries.
- The smoke tests and fixtures under `server/`: they are not part of the server.

## Plan

Done: the store and its refinement, the events runtime, the authorization of
deliveries, the log of tool calls and the calls around it with the collector's
side, the start, the gate and the shutdown; proofs about all of them.

Left, in this order:

1. `SeenWindow`: the bounded baseline and the bounded page of recent traces with
   the order of insertion; under which sizes nothing is delivered twice or
   missed.
2. A composition of `EventsRuntime` with `EventsAuthorization`, in place of the
   answer that comes as it may: how long after a revocation a POST can go out,
   the lifetime of the cache included.
