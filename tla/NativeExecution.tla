--------------------------- MODULE NativeExecution ---------------------------
(***************************************************************************)
(* server/src/native-execution.ts: the bounded log of tool calls that a    *)
(* local process keeps in an AtomicJsonStore, and what a process does with *)
(* the log it finds before it saves a record of its own.  A transaction of *)
(* the store is one step that succeeds or has no effect (DurableDocument). *)
(***************************************************************************)
EXTENDS Naturals, Sequences, FiniteSets

CONSTANTS
    Exec,           \* execution ids of this model's processes (randomUUID)
    Old,            \* ids of records that earlier processes left in the log
    MaxExecutions,  \* DEFAULT_MAX_EXECUTIONS
    Faults          \* what may go wrong, a subset of Fault

Fault == {"store", "crash", "network", "collector", "cancel", "notify"}

ASSUME LogAssumption ==
    /\ Exec \cap Old = {} /\ IsFiniteSet(Exec)
    /\ MaxExecutions \in Nat \ {0}
    /\ Faults \subseteq Fault

VARIABLES
    layout,   \* of the state file: "absent", "unreadable", "legacy", "current"
    log,      \* its records, when it can be read
    loading,  \* this.initialization: where initializeCore() is
    at        \* at[e]: createdAt of execution e; 0 before it starts

logVars == <<layout, log, loading, at>>

Status == {"running", "succeeded", "failed"}
Record == [id : Exec \cup Old, at : Nat, status : Status]

Ids == {log[i].id : i \in DOMAIN log}
StatusOf(e) == (CHOOSE r \in {log[i] : i \in DOMAIN log} : r.id = e).status

LogTypeOK ==
    /\ layout \in {"absent", "unreadable", "legacy", "current"}
    /\ log \in Seq(Record) /\ Len(log) <= MaxExecutions
    /\ \A i, j \in DOMAIN log : log[i].id = log[j].id => i = j
    /\ loading \in {"none", "opening", "migrating", "closing", "ready", "failed"}
    /\ at \in [Exec -> Nat]

\* What an earlier process, or an earlier release, may have left: records that are
\* older than those of this model's processes.
Found == {s \in UNION {[1..n -> [id : Old, at : {0}, status : Status]] : n \in 0..MaxExecutions} :
             \A i, j \in DOMAIN s : s[i].id = s[j].id => i = j}
LogInit ==
    /\ layout \in {"absent", "unreadable", "legacy", "current"}
    /\ log \in IF layout \in {"legacy", "current"} THEN Found ELSE {<<>>}
    /\ loading = "none"
    /\ at = [e \in Exec |-> 0]

\* The newest MaxExecutions records.  (Faulty variant: the limit is checked
\* before the record is added.)
BoundedLate(s) ==
    IF Len(s) > MaxExecutions + 1
    THEN SubSeq(s, Len(s) - MaxExecutions, Len(s)) ELSE s
Bounded(s) ==
    IF Len(s) > MaxExecutions
    THEN SubSeq(s, Len(s) - MaxExecutions + 1, Len(s)) ELSE s

\* Where the sort by createdAt puts a new record: behind those that are not
\* newer (it is stable, and the log is sorted before each save).
Place(r) == CHOOSE k \in 0 .. Len(log) :
                \A i \in DOMAIN log : i <= k <=> log[i].at <= r.at
SortedIn(r) == SubSeq(log, 1, Place(r)) \o <<r>> \o SubSeq(log, Place(r) + 1, Len(log))

\* The log after save(r): r replaces the record of its id, or is sorted in.
\* (Faulty variant: a record that is there is kept.)
SavedIfNew(r) == IF r.id \in Ids THEN log ELSE Bounded(SortedIn(r))
Saved(r) ==
    IF r.id \in Ids
    THEN [i \in DOMAIN log |-> IF log[i].id = r.id THEN r ELSE log[i]]
    ELSE Bounded(SortedIn(r))

-----------------------------------------------------------------------------
\* The first save() of a process starts initializeCore(); all share its promise.
\* (Faulty variant: only list() starts it.)
InitializeByList == UNCHANGED loading
Initialize == loading' = IF loading = "none" THEN "opening" ELSE loading

\* archiveUnreadableState(): a file that cannot be parsed is renamed out of the
\* way, and the store is opened again.
ArchiveUnreadable ==
    /\ loading = "opening" /\ layout = "unreadable"
    /\ layout' = "absent"
    /\ UNCHANGED <<log, loading, at>>

\* store.initialize(): a missing file is created, an older layout is migrated.
OpenLog ==
    /\ loading = "opening" /\ layout # "unreadable"
    /\ layout' = IF layout = "legacy" THEN "legacy" ELSE "current"
    /\ loading' = IF layout = "legacy" THEN "migrating" ELSE "closing"
    /\ UNCHANGED <<log, at>>

\* A known older layout is projected into this one and replaced at once.
MigrateLog ==
    /\ loading = "migrating"
    /\ layout' = "current"
    /\ loading' = "closing"
    /\ UNCHANGED <<log, at>>

\* What the process does about the records that are still running: nobody is
\* left to complete them.  (Faulty variants: nothing; it closes all records.)
LeftOpen(r) == r
ClosedAnyway(r) == [r EXCEPT !.status = "failed"]
Closed(r) == IF r.status = "running" THEN [r EXCEPT !.status = "failed"] ELSE r

CloseInterrupted ==
    /\ loading = "closing"
    /\ log' = [i \in DOMAIN log |-> Closed(log[i])]
    /\ loading' = "ready"
    /\ UNCHANGED <<layout, at>>

\* A step of the initialization fails.  The rejected promise is kept: every
\* later save() of this process fails.
InitializeFails ==
    /\ loading \in {"opening", "migrating", "closing"}
    /\ "store" \in Faults
    /\ loading' = "failed"
    /\ UNCHANGED <<layout, log, at>>

InitializeCore == ArchiveUnreadable \/ OpenLog \/ MigrateLog \/ CloseInterrupted
                  \/ InitializeFails

\* save() of a record in the given status succeeds or fails.
Initialized == loading = "ready"

SaveSucceeds(e, status) ==
    /\ Initialized
    /\ log' = Saved([id |-> e, at |-> at[e], status |-> status])
    /\ UNCHANGED <<layout, loading, at>>

SaveFails ==
    /\ loading = "failed" \/ (loading = "ready" /\ "store" \in Faults)
    /\ UNCHANGED logVars

\* The next process finds the file and nothing else.
LogRestart == loading' = "none" /\ UNCHANGED <<layout, log, at>>

-----------------------------------------------------------------------------
\* A record that says how an execution ended keeps saying so until it is evicted.
TerminalIsFinal ==
    [][\A e \in Ids : StatusOf(e) # "running"
          => e \notin {log'[i].id : i \in DOMAIN log'}
             \/ \A i \in DOMAIN log' : log'[i].id = e => log'[i].status = StatusOf(e)]_log

==============================================================================
