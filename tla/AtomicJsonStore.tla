--------------------------- MODULE AtomicJsonStore ---------------------------
(***************************************************************************)
(* server/src/atomic-json-store.ts: a JSON document in one file, replaced  *)
(* by writing a temporary file and renaming it over the document.  Every   *)
(* await of the class is a step boundary, so other callers, the failure of *)
(* an I/O call and a crash of the process fall between the steps.          *)
(*                                                                         *)
(* The steps of one write up to the rename (prepare, validate, mkdir, open *)
(* with O_EXCL, write, fsync, close) touch only a file that nothing loads, *)
(* so they are one step that succeeds or fails as a whole.                 *)
(***************************************************************************)
EXTENDS Naturals, Sequences, FiniteSets

CONSTANTS
    Client,      \* callers of the store; each awaits one call at a time
    Absent,      \* no file at the store's path (ENOENT)
    Unreadable,  \* a file that is not JSON or fails parse()
    Unloaded,    \* this.state === undefined
    Faults       \* the I/O steps that may fail, a subset of Fault

Fault == {"load", "write", "crash"}
Document == SUBSET Client

ASSUME StoreAssumption ==
    /\ IsFiniteSet(Client)
    /\ Faults \subseteq Fault
    /\ Absent # Unreadable /\ Absent # Unloaded /\ Unreadable # Unloaded
    /\ \A d \in Document : d \notin {Absent, Unreadable, Unloaded}

VARIABLES
    disk,     \* what a load of filePath would find
    mem,      \* this.state
    loading,  \* this.initialization: "none", "pending", "ready" or "failed"
    queue,    \* the operations chained on this.tail, by caller; the head runs
    stage,    \* where the head is: "waiting", "writing" or "renamed"
    draft,    \* the value the head is writing
    call,     \* call[c]: what c awaits
    outcome   \* outcome[c]: how c's last write was answered

vars == <<disk, mem, loading, queue, stage, draft, call, outcome>>

Effect(kind, c, d) ==
    CASE kind = "insert"  -> d \cup {c}
      [] kind = "delete"  -> d \ {c}
      [] kind = "replace" -> {c}

WriteKind == {"insert", "delete", "replace"}

\* A read passes through "opening" (await initialize) and "reading" (await tail).
\* ahead: how many queued operations the captured tail still waits for.
\* asked: the callers whose operations were queued when the tail was captured
\* and have not finished; kept for ReadsFollowWrites only.
Call == [op: {"none", "opening", "reading"} \cup WriteKind,
         ahead: 0..Cardinality(Client), asked: SUBSET Client]
NoCall == [op |-> "none", ahead |-> 0, asked |-> {}]

TypeOK ==
    /\ disk \in {Absent, Unreadable} \cup Document
    /\ mem \notin {Absent, Unreadable}  \* what parse() refuses is never the state
    /\ mem \in {Unloaded} \cup Document
    /\ loading \in {"none", "pending", "ready", "failed"}
    /\ queue \in Seq(Client)
    /\ stage \in {"waiting", "writing", "renamed"}
    /\ draft \in Document
    /\ call \in [Client -> Call]
    /\ outcome \in [Client -> {"none", "ok", "failed"}]

Init ==
    /\ disk \in {Absent, Unreadable} \cup Document
    /\ mem = Unloaded
    /\ loading = "none"
    /\ queue = <<>>
    /\ stage = "waiting"
    /\ draft = {}
    /\ call = [c \in Client |-> NoCall]
    /\ outcome = [c \in Client |-> "none"]

-----------------------------------------------------------------------------
\* initialize(): the first caller starts the load, all share its promise.
Initialize ==
    /\ loading = "none"
    /\ loading' = "pending"
    /\ UNCHANGED <<disk, mem, queue, stage, draft, call, outcome>>

\* Only what is JSON and satisfies parse() becomes the state.  (Faulty variant:
\* whatever is there.)
LoadableUnparsed == disk # Absent
Loadable == disk \notin {Absent, Unreadable}

\* load(): the parsed file becomes the state.
LoadDocument ==
    /\ loading = "pending"
    /\ Loadable
    /\ mem' = disk
    /\ loading' = "ready"
    /\ UNCHANGED <<disk, queue, stage, draft, call, outcome>>

\* Only a missing file is replaced.  (Faulty variant: an invalid one, too.)
NothingToLose == disk \in {Absent, Unreadable}
NoFile == disk = Absent

\* load() after ENOENT: the initial document is written first.
LoadInitial ==
    /\ loading = "pending"
    /\ NoFile
    /\ disk' = {}
    /\ mem' = {}
    /\ loading' = "ready"
    /\ UNCHANGED <<queue, stage, draft, call, outcome>>

\* A rejected load stays in this.initialization: it is never tried again.
LoadFails ==
    /\ loading = "pending"
    /\ disk = Unreadable \/ "load" \in Faults
    /\ loading' = "failed"
    /\ UNCHANGED <<disk, mem, queue, stage, draft, call, outcome>>

\* The chmod() that follows the rename of the initial document throws.
LoadChmodFails ==
    /\ loading = "pending" /\ disk = Absent
    /\ disk' = {}
    /\ loading' = "failed"
    /\ UNCHANGED <<mem, queue, stage, draft, call, outcome>>

-----------------------------------------------------------------------------
\* transact() and replace(): enqueue() chains the operation on the tail.
Submit(c, kind) ==
    /\ call[c].op = "none"
    /\ call' = [call EXCEPT ![c].op = kind]
    /\ queue' = Append(queue, c)
    /\ outcome' = [outcome EXCEPT ![c] = "none"]
    /\ UNCHANGED <<disk, mem, loading, stage, draft>>

OneFewer(n) == IF n > 0 THEN n - 1 ELSE 0

\* The head settles with the given answer and the tail moves on.
Settle(answer) ==
    LET c == Head(queue) IN
    /\ queue' = Tail(queue)
    /\ stage' = "waiting"
    /\ draft' = {}
    /\ outcome' = [outcome EXCEPT ![c] = answer]
    /\ call' = [d \in Client |->
                  IF d = c THEN NoCall
                  ELSE [call[d] EXCEPT !.ahead = OneFewer(@),
                                       !.asked = @ \ {c}]]

HeadOp == call[Head(queue)].op
HeadIsReplace == HeadOp = "replace"

\* transact() on a clone of the state; replace() once initialize() has settled.
BeginWrite ==
    /\ queue # <<>> /\ stage = "waiting"
    /\ mem # Unloaded
    /\ draft' = Effect(HeadOp, Head(queue), mem)
    /\ stage' = "writing"
    /\ UNCHANGED <<disk, mem, loading, queue, call, outcome>>

\* commit() awaits initialize(), which starts the load if nobody has.
AwaitLoad ==
    /\ queue # <<>> /\ stage = "waiting" /\ HeadIsReplace
    /\ Initialize

\* requireState() throws before the load is done; replace() fails with the load.
RefuseUnloaded ==
    /\ queue # <<>> /\ stage = "waiting"
    /\ mem = Unloaded
    /\ HeadIsReplace => loading = "failed"
    /\ Settle("failed")
    /\ UNCHANGED <<disk, mem, loading>>

\* (Faulty variant: commit() swallows the error.)
Swallowed == "ok"
Rejected == "failed"

\* mutate(), prepareForWrite(), parse() or a step before the rename fails:
\* the temporary file is removed.
WriteFails ==
    /\ queue # <<>> /\ stage = "writing"
    /\ "write" \in Faults
    /\ Settle(Rejected)
    /\ UNCHANGED <<disk, mem, loading>>

Rename ==
    /\ queue # <<>> /\ stage = "writing"
    /\ disk' = draft
    /\ stage' = "renamed"
    /\ UNCHANGED <<mem, loading, queue, draft, call, outcome>>

\* (Faulty variant: commit() does not assign this.state.)
Unpublished == mem
Published == draft

\* chmod() done: commit() publishes the new state.
Publish ==
    /\ queue # <<>> /\ stage = "renamed"
    /\ mem' = Published
    /\ Settle("ok")
    /\ UNCHANGED <<disk, loading>>

\* chmod() throws after the rename: write_failed, and this.state is kept.
ChmodFails ==
    /\ queue # <<>> /\ stage = "renamed"
    /\ Settle("failed")
    /\ UNCHANGED <<disk, mem, loading>>

-----------------------------------------------------------------------------
\* read(): await initialize(), await the tail of that moment, then the state.
ReadCall(c) ==
    /\ call[c].op = "none"
    /\ call' = [call EXCEPT ![c].op = "opening"]
    /\ loading' = IF loading = "none" THEN "pending" ELSE loading
    /\ UNCHANGED <<disk, mem, queue, stage, draft, outcome>>

\* How much of the queue is ahead.  (Faulty variant: read() ignores the tail.)
NothingAhead == 0
TailAhead == Len(queue)

ReadJoinsTail(c) ==
    /\ call[c].op = "opening" /\ loading = "ready"
    /\ call' = [call EXCEPT ![c] = [op |-> "reading", ahead |-> TailAhead,
                                    asked |-> {queue[i] : i \in DOMAIN queue}]]
    /\ UNCHANGED <<disk, mem, loading, queue, stage, draft, outcome>>

\* (Faulty variant: the rejection of initialize() is lost.)
LoadErrorLost(c) == FALSE
LoadErrorThrown(c) == call[c].op = "opening" /\ loading = "failed"

ReadReturns(c) ==
    /\ \/ call[c].op = "reading" /\ call[c].ahead = 0
       \/ LoadErrorThrown(c)
    /\ call' = [call EXCEPT ![c] = NoCall]
    /\ UNCHANGED <<disk, mem, loading, queue, stage, draft, outcome>>

\* The process dies; the next one starts with what is on disk.
Crash ==
    /\ "crash" \in Faults
    /\ mem' = Unloaded
    /\ loading' = "none"
    /\ queue' = <<>>
    /\ stage' = "waiting"
    /\ draft' = {}
    /\ call' = [c \in Client |-> NoCall]
    /\ outcome' = [c \in Client |-> "none"]
    /\ UNCHANGED disk

Load == LoadDocument \/ LoadInitial \/ LoadFails
RunHead == BeginWrite \/ AwaitLoad \/ RefuseUnloaded \/ WriteFails
           \/ Rename \/ Publish
ReadSteps(c) == ReadJoinsTail(c) \/ ReadReturns(c)

Next ==
    \/ Initialize
    \/ Load
    \/ RunHead
    \/ \E c \in Client : ReadCall(c) \/ ReadSteps(c)
    \/ \E c \in Client, kind \in WriteKind : Submit(c, kind)
    \/ Crash

Spec == Init /\ [][Next]_vars

\* With a chmod() that may throw, the store does not keep its promise.
ChmodSpec == Init /\ [][Next \/ LoadChmodFails \/ ChmodFails]_vars

\* An I/O call settles, one way or the other, and its continuation runs.
FairSpec ==
    /\ Spec
    /\ WF_vars(Load) /\ WF_vars(RunHead)
    /\ \A c \in Client : WF_vars(ReadSteps(c))

-----------------------------------------------------------------------------
\* Outside the window between a rename and the publication of its value, the
\* state in memory is the document on disk: no transaction builds on a
\* document that was not written, and no written document is forgotten.
MemoryIsDisk == loading = "ready" /\ stage # "renamed" => mem = disk

\* A read is answered only after every operation that was queued when it
\* joined the tail has settled (the happens-before order read() documents).
ReadsFollowWrites ==
    \A c \in Client : call[c].op = "reading" /\ call[c].ahead = 0
                      => call[c].asked = {}

\* A read returns the document on disk as the operations before it left it.
ReadsAreCurrent == MemoryIsDisk /\ ReadsFollowWrites

\* A file that could not be read is never overwritten: neither a transaction
\* nor a replace() issued after (or during) the failed load reaches the rename.
UnreadableIsKept == [][disk = Unreadable => disk' = Unreadable]_vars

\* Every call is answered: an operation that fails, or that fails another
\* one's wait, never blocks the tail.
CallsAreAnswered == \A c \in Client : call[c].op # "none" ~> call[c].op = "none"

\* An operation takes effect when its rename does, and what has taken effect
\* is what a restart would load.
Abstract == INSTANCE DurableDocument WITH
    doc     <- IF disk = Absent THEN {} ELSE disk,
    op      <- [c \in Client |-> IF call[c].op \in WriteKind THEN call[c].op ELSE "none"],
    applied <- IF stage = "renamed" THEN {Head(queue)} ELSE {}

\* The store keeps the promise of DurableDocument: operations take effect one
\* at a time and whole, each on the document the one before it left, and one
\* that is answered with an error never takes effect.
ImplementsDurableDocument == Abstract!Spec

=============================================================================
