------------------------- MODULE AtomicJsonStoreProofs -------------------------
(***************************************************************************)
(* That AtomicJsonStore keeps the promise of DurableDocument, for any      *)
(* number of callers, any queue and every fault: memory, the file and the  *)
(* operation at the head of the queue always fit together.                 *)
(***************************************************************************)
EXTENDS AtomicJsonStore, TLAPS, FiniteSetTheorems

\* A call is a record of three fields.
Shaped(r) == r = [op |-> r.op, ahead |-> r.ahead, asked |-> r.asked]

Typed ==
    /\ disk \in {Absent, Unreadable} \cup Document
    /\ mem \in {Unloaded} \cup Document
    /\ loading \in {"none", "pending", "ready", "failed"}
    /\ queue \in Seq(Client)
    /\ stage \in {"waiting", "writing", "renamed"}
    /\ draft \in Document
    /\ call = [c \in Client |-> call[c]]
    /\ \A c \in Client : Shaped(call[c])
    /\ outcome = [c \in Client |-> outcome[c]]

\* The queue holds the callers that await a write, each once.
QueueInv ==
    /\ \A i, j \in 1 .. Len(queue) : queue[i] = queue[j] => i = j
    /\ \A i \in 1 .. Len(queue) : call[queue[i]].op \in WriteKind
    /\ \A c \in Client : call[c].op \in WriteKind => \E i \in 1 .. Len(queue) : queue[i] = c

\* Memory is the file, but for the value that is being written.
MemoryInv ==
    /\ loading = "ready" <=> mem # Unloaded
    /\ loading = "ready" => disk \in Document
    /\ loading = "ready" /\ stage # "renamed" => mem = disk
    /\ stage # "waiting" => queue # << >> /\ loading = "ready"
    /\ stage = "writing" => draft = Effect(call[Head(queue)].op, Head(queue), mem)
    /\ stage = "renamed" => disk = draft

IInv == Typed /\ QueueInv /\ MemoryInv

LEMMA EffectType ==
    ASSUME NEW kind \in WriteKind, NEW c \in Client, NEW d \in Document
    PROVE  Effect(kind, c, d) \in Document
  BY DEF Effect, WriteKind, Document

LEMMA InitHolds == ASSUME Init PROVE IInv
  <1>1. \A c \in Client : Shaped(call[c]) /\ call[c].op = "none"
    BY DEF Init, NoCall, Shaped
  <1>2. Typed
    BY <1>1 DEF Init, Typed, Document
  <1>3. QueueInv
    BY <1>1 DEF Init, QueueInv, WriteKind
  <1>4. MemoryInv
    BY DEF Init, MemoryInv
  <1> QED
    BY <1>2, <1>3, <1>4 DEF IInv

\* The head of a queue that is not empty.
LEMMA HeadAwaits ==
    ASSUME Typed, QueueInv, queue # << >>
    PROVE  /\ Head(queue) \in Client /\ call[Head(queue)].op \in WriteKind
           /\ Head(queue) = queue[1] /\ Len(queue) \in Nat \ {0}
           /\ Tail(queue) \in Seq(Client) /\ Len(Tail(queue)) = Len(queue) - 1
           /\ \A i \in 1 .. Len(Tail(queue)) : Tail(queue)[i] = queue[i + 1]
  BY DEF Typed, QueueInv

LEMMA NewCallShaped ==
    ASSUME NEW o, NEW a, NEW s
    PROVE  /\ Shaped([op |-> o, ahead |-> a, asked |-> s])
           /\ [op |-> o, ahead |-> a, asked |-> s].op = o
  BY DEF Shaped

LEMMA AheadSet ==
    ASSUME NEW r, Shaped(r), NEW a
    PROVE  [r EXCEPT !.ahead = a] = [op |-> r.op, ahead |-> a, asked |-> r.asked]
  BY DEF Shaped

LEMMA AskedSet ==
    ASSUME NEW r, Shaped(r), NEW s
    PROVE  [r EXCEPT !.asked = s] = [op |-> r.op, ahead |-> r.ahead, asked |-> s]
  BY DEF Shaped

LEMMA UpdatedCallShaped ==
    ASSUME NEW r, Shaped(r), NEW a, NEW s
    PROVE  /\ Shaped([r EXCEPT !.ahead = a, !.asked = s])
           /\ [r EXCEPT !.ahead = a, !.asked = s].op = r.op
  <1> DEFINE q == [r EXCEPT !.ahead = a]
  <1>1. [r EXCEPT !.ahead = a, !.asked = s] = [q EXCEPT !.asked = s]
    OBVIOUS
  <1>2. q = [op |-> r.op, ahead |-> a, asked |-> r.asked]
    BY AheadSet
  <1>3. Shaped(q) /\ q.op = r.op
    BY <1>2, NewCallShaped
  <1> HIDE DEF q
  <1>4. [q EXCEPT !.asked = s] = [op |-> q.op, ahead |-> q.ahead, asked |-> s]
    BY <1>3, AskedSet
  <1>5. Shaped([q EXCEPT !.asked = s]) /\ [q EXCEPT !.asked = s].op = q.op
    BY <1>4, NewCallShaped
  <1> QED
    BY <1>1, <1>3, <1>5

LEMMA UpdatedFields ==
    ASSUME NEW r, Shaped(r), NEW a, NEW s
    PROVE  /\ [r EXCEPT !.ahead = a, !.asked = s].op = r.op
           /\ [r EXCEPT !.ahead = a, !.asked = s].ahead = a
           /\ [r EXCEPT !.ahead = a, !.asked = s].asked = s
  BY DEF Shaped

LEMMA StartedFields ==
    ASSUME NEW r, Shaped(r), NEW o
    PROVE  /\ [r EXCEPT !.op = o].op = o
           /\ [r EXCEPT !.op = o].ahead = r.ahead
           /\ [r EXCEPT !.op = o].asked = r.asked
  BY DEF Shaped

LEMMA StartedCallShaped ==
    ASSUME NEW r, Shaped(r), NEW o
    PROVE  Shaped([r EXCEPT !.op = o]) /\ [r EXCEPT !.op = o].op = o
  <1>1. [r EXCEPT !.op = o] = [op |-> o, ahead |-> r.ahead, asked |-> r.asked]
    BY DEF Shaped
  <1> QED
    BY <1>1, NewCallShaped

\* When the head settles, its caller leaves the queue and nobody else does.
LEMMA SettleKeepsQueue ==
    ASSUME Typed, QueueInv, queue # << >>, NEW answer, Settle(answer)
    PROVE  /\ QueueInv'
           /\ queue' \in Seq(Client) /\ call' = [c \in Client |-> call'[c]]
           /\ \A c \in Client :
                 /\ Shaped(call'[c])
                 /\ call'[c].op = IF c = Head(queue) THEN "none" ELSE call[c].op
           /\ outcome' = [outcome EXCEPT ![Head(queue)] = answer]
  <1>1. /\ queue' = Tail(queue) /\ call' = [c \in Client |-> call'[c]]
        /\ outcome' = [outcome EXCEPT ![Head(queue)] = answer]
    BY DEF Settle
  <1>2. ASSUME NEW c \in Client
        PROVE  /\ Shaped(call'[c])
               /\ call'[c].op = IF c = Head(queue) THEN "none" ELSE call[c].op
    <2>1. CASE c = Head(queue)
      <3>1. call'[c] = [op |-> "none", ahead |-> 0, asked |-> {}]
        BY <2>1 DEF Settle, NoCall
      <3> QED
        BY <2>1, <3>1, NewCallShaped
    <2>2. CASE c # Head(queue)
      <3> DEFINE a == OneFewer(call[c].ahead)
                 s == call[c].asked \ {Head(queue)}
      <3>1. call'[c] = [call[c] EXCEPT !.ahead = a, !.asked = s]
        BY <2>2 DEF Settle
      <3>2. Shaped(call[c])
        BY DEF Typed
      <3>3. /\ Shaped([call[c] EXCEPT !.ahead = a, !.asked = s])
            /\ [call[c] EXCEPT !.ahead = a, !.asked = s].op = call[c].op
        BY <3>2, UpdatedCallShaped
      <3> QED
        BY <2>2, <3>1, <3>3
    <2> QED
      BY <2>1, <2>2
  <1>3. QueueInv'
    <2>0. /\ Len(queue) \in Nat \ {0} /\ Head(queue) = queue[1]
          /\ Len(queue') = Len(queue) - 1
          /\ \A i \in 1 .. Len(queue') : queue'[i] = queue[i + 1]
      BY <1>1, HeadAwaits
    <2>5. \A i \in 1 .. Len(queue') : i + 1 \in 1 .. Len(queue) /\ i + 1 # 1
      BY <2>0
    <2>1. \A i, j \in 1 .. Len(queue') : queue'[i] = queue'[j] => i = j
      <3> SUFFICES ASSUME NEW i \in 1 .. Len(queue'), NEW j \in 1 .. Len(queue'),
                          queue'[i] = queue'[j]
                   PROVE  i = j
        OBVIOUS
      <3>1. i + 1 = j + 1
        BY <2>0, <2>5 DEF QueueInv
      <3> QED
        BY <2>0, <3>1
    <2>2. ASSUME NEW i \in 1 .. Len(queue')
          PROVE  queue'[i] \in Client /\ queue'[i] # Head(queue)
                 /\ call[queue'[i]].op \in WriteKind
      <3>1. 1 \in 1 .. Len(queue) /\ i + 1 \in 1 .. Len(queue) /\ i + 1 # 1
        BY <2>0, <2>5
      <3>2. queue[i + 1] \in Client
        BY <3>1 DEF Typed
      <3> QED
        BY <2>0, <3>1, <3>2 DEF QueueInv
    <2>3. \A i \in 1 .. Len(queue') : call'[queue'[i]].op \in WriteKind
      BY <1>2, <2>2
    <2>4. ASSUME NEW c \in Client, call'[c].op \in WriteKind
          PROVE  \E i \in 1 .. Len(queue') : queue'[i] = c
      <3>1. c # Head(queue) /\ call[c].op \in WriteKind
        BY <1>2, <2>4 DEF WriteKind
      <3>2. PICK i \in 1 .. Len(queue) : queue[i] = c
        BY <3>1 DEF QueueInv
      <3>3. i # 1 /\ i - 1 \in 1 .. Len(queue') /\ queue'[i - 1] = c
        BY <1>1, <3>1, <3>2, HeadAwaits
      <3> QED
        BY <3>3
    <2> QED
      BY <2>1, <2>3, <2>4 DEF QueueInv
  <1> QED
    BY <1>1, <1>2, <1>3, HeadAwaits

-----------------------------------------------------------------------------
\* A step that leaves the queue alone and starts or ends no write.
LEMMA QuietKeepsQueue ==
    ASSUME Typed, QueueInv, queue' = queue,
           \A c \in Client : call'[c].op \in WriteKind <=> call[c].op \in WriteKind
    PROVE  QueueInv'
  <1>1. \A i \in 1 .. Len(queue) : queue[i] \in Client
    BY DEF Typed
  <1> QED
    BY <1>1 DEF QueueInv

\* What the store is for DurableDocument.
DocOf == IF disk = Absent THEN {} ELSE disk
OpOf(c) == IF call[c].op \in WriteKind THEN call[c].op ELSE "none"
AppliedOf == IF stage = "renamed" THEN {Head(queue)} ELSE {}

\* A step that DurableDocument does not see.
Unseen == /\ DocOf' = DocOf /\ AppliedOf' = AppliedOf /\ outcome' = outcome
          /\ \A c \in Client : OpOf(c)' = OpOf(c)

LEMMA UnseenStutters == Unseen => UNCHANGED Abstract!vars
  BY DEF Unseen, Abstract!vars, DocOf, OpOf, AppliedOf

Simulates == Abstract!Next \/ UNCHANGED Abstract!vars

LEMMA LoadingSteps ==
    ASSUME IInv, Initialize \/ Load
    PROVE  IInv' /\ Simulates
  <1>1. UNCHANGED <<queue, stage, draft, call, outcome>> /\ loading # "ready"
    BY DEF Initialize, Load, LoadDocument, LoadInitial, LoadFails
  <1>2. stage = "waiting"
    BY <1>1 DEF IInv, MemoryInv
  <1>3. {} \in Document /\ {} # Absent /\ {} # Unreadable /\ {} # Unloaded
    BY StoreAssumption DEF Document
  <1>4. /\ disk' \in {Absent, Unreadable} \cup Document
        /\ mem' \in {Unloaded} \cup Document
        /\ loading' \in {"none", "pending", "ready", "failed"}
        /\ DocOf' = DocOf
        /\ loading' = "ready" <=> mem' # Unloaded
        /\ loading' = "ready" => disk' \in Document /\ mem' = disk'
    <2>1. CASE LoadDocument
      BY <2>1, <1>3, StoreAssumption DEF LoadDocument, Loadable, IInv, Typed, DocOf
    <2>2. CASE LoadInitial
      BY <2>2, <1>3 DEF LoadInitial, NoFile, IInv, Typed, DocOf
    <2>3. CASE Initialize \/ LoadFails
      BY <2>3 DEF Initialize, LoadFails, IInv, Typed, MemoryInv, DocOf
    <2> QED
      BY <2>1, <2>2, <2>3 DEF Load
  <1>5. Typed'
    BY <1>1, <1>4 DEF IInv, Typed
  <1>6. QueueInv'
    BY <1>1, QuietKeepsQueue DEF IInv
  <1>7. MemoryInv'
    BY <1>1, <1>2, <1>4 DEF MemoryInv
  <1>8. Unseen
    BY <1>1, <1>2, <1>4 DEF Unseen, OpOf, AppliedOf
  <1> QED
    BY <1>5, <1>6, <1>7, <1>8, UnseenStutters DEF IInv, Simulates

LEMMA BeginWriteStep ==
    ASSUME IInv, BeginWrite
    PROVE  IInv' /\ Simulates
  <1>1. /\ UNCHANGED <<disk, mem, loading, queue, call, outcome>>
        /\ stage = "waiting" /\ stage' = "writing" /\ queue # << >>
        /\ mem # Unloaded /\ draft' = Effect(call[Head(queue)].op, Head(queue), mem)
    BY DEF BeginWrite, HeadOp
  <1>2. draft' \in Document
    <2>1. mem \in Document /\ Head(queue) \in Client /\ call[Head(queue)].op \in WriteKind
      BY <1>1, HeadAwaits DEF IInv, Typed
    <2> QED
      BY <1>1, <2>1, EffectType
  <1>3. Typed'
    BY <1>1, <1>2 DEF IInv, Typed
  <1>4. QueueInv'
    BY <1>1, QuietKeepsQueue DEF IInv
  <1>5. MemoryInv'
    BY <1>1 DEF IInv, MemoryInv
  <1>6. Unseen
    BY <1>1 DEF Unseen, OpOf, AppliedOf, DocOf
  <1> QED
    BY <1>3, <1>4, <1>5, <1>6, UnseenStutters DEF IInv, Simulates

\* The rename is the moment at which the operation takes effect.
LEMMA RenameStep ==
    ASSUME IInv, Rename
    PROVE  IInv' /\ Simulates
  <1>1. /\ UNCHANGED <<mem, loading, queue, draft, call, outcome>>
        /\ stage = "writing" /\ stage' = "renamed" /\ queue # << >> /\ disk' = draft
    BY DEF Rename
  <1>2. /\ Head(queue) \in Client /\ call[Head(queue)].op \in WriteKind
        /\ loading = "ready" /\ disk \in Document /\ mem = disk /\ draft \in Document
        /\ draft = Effect(call[Head(queue)].op, Head(queue), mem)
    BY <1>1, HeadAwaits DEF IInv, Typed, MemoryInv
  <1>3. disk \notin {Absent, Unreadable} /\ disk' \notin {Absent, Unreadable}
    BY <1>1, <1>2, StoreAssumption
  <1>4. Typed'
    BY <1>1, <1>2 DEF IInv, Typed
  <1>5. QueueInv'
    BY <1>1, QuietKeepsQueue DEF IInv
  <1>6. MemoryInv'
    BY <1>1, <1>2 DEF IInv, MemoryInv
  <1>7. Abstract!Apply(Head(queue))
    <2>1. OpOf(Head(queue)) = call[Head(queue)].op /\ OpOf(Head(queue)) # "none"
      BY <1>2 DEF OpOf, WriteKind
    <2>2. draft = Abstract!Effect(OpOf(Head(queue)), Head(queue), DocOf)
      BY <1>2, <1>3, <2>1 DEF Effect, Abstract!Effect, DocOf
    <2>3. DocOf = disk /\ DocOf' = draft /\ AppliedOf = {} /\ AppliedOf' = {Head(queue)}
      BY <1>1, <1>3 DEF DocOf, AppliedOf
    <2>4. \A c \in Client : OpOf(c)' = OpOf(c)
      BY <1>1 DEF OpOf
    <2> QED
      BY <1>1, <1>2, <1>3, <2>1, <2>2, <2>3, <2>4
      DEF Abstract!Apply, DocOf, OpOf, AppliedOf
  <1> QED
    BY <1>2, <1>4, <1>5, <1>6, <1>7 DEF IInv, Simulates, Abstract!Next

LEMMA AnswerSimulates ==
    ASSUME NEW c \in Client, Abstract!Answer(c)
    PROVE  Simulates
  <1>1. \E d \in Client : Abstract!Answer(d)
    BY Zenon
  <1>2. Abstract!Next
    BY <1>1, Zenon DEF Abstract!Next
  <1> QED
    BY <1>2 DEF Simulates

\* The head is answered "ok" after its rename, and "failed" before it.
LEMMA SettleStep ==
    ASSUME IInv, queue # << >>, UNCHANGED <<disk, loading>>, NEW answer, Settle(answer),
           \/ stage = "renamed" /\ answer = "ok" /\ mem' = draft
           \/ stage # "renamed" /\ answer = "failed" /\ mem' = mem
    PROVE  IInv' /\ Simulates
  <1>1. stage' = "waiting" /\ draft' = {}
    BY DEF Settle
  <1>2. Head(queue) \in Client /\ call[Head(queue)].op \in WriteKind
    BY HeadAwaits DEF IInv
  <1>3. /\ QueueInv'
        /\ queue' \in Seq(Client) /\ call' = [c \in Client |-> call'[c]]
        /\ \A c \in Client :
              /\ Shaped(call'[c])
              /\ call'[c].op = IF c = Head(queue) THEN "none" ELSE call[c].op
        /\ outcome' = [outcome EXCEPT ![Head(queue)] = answer]
    BY SettleKeepsQueue DEF IInv
  <1>4. mem' \in {Unloaded} \cup Document
    BY DEF IInv, Typed
  <1>5. Typed'
    <2>2. outcome' = [c \in Client |-> outcome'[c]]
      BY <1>3 DEF IInv, Typed
    <2>3. \A c \in Client : Shaped(call'[c])
      BY <1>3
    <2> QED
      BY <1>1, <1>3, <1>4, <2>2, <2>3 DEF IInv, Typed, Document
  <1>6. MemoryInv'
    <2>1. CASE stage = "renamed"
      <3>1. loading = "ready" /\ disk = draft /\ mem' = draft /\ draft # Unloaded
        BY <2>1, StoreAssumption DEF IInv, MemoryInv, Typed
      <3> QED
        BY <1>1, <3>1 DEF IInv, MemoryInv
    <2>2. CASE stage # "renamed"
      BY <1>1, <2>2 DEF IInv, MemoryInv
    <2> QED
      BY <2>1, <2>2
  <1>7. PICK h \in Client : h = Head(queue)
    BY <1>2
  <1>8. Abstract!Answer(h)
    <2>1. OpOf(h) # "none"
      BY <1>2, <1>7 DEF OpOf, WriteKind
    <2>2. \A c \in Client : OpOf(c)' = IF c = h THEN "none" ELSE OpOf(c)
      BY <1>3, <1>7 DEF OpOf, WriteKind
    <2>3. /\ DocOf' = DocOf /\ AppliedOf' = {} /\ AppliedOf \ {h} = {}
          /\ answer = IF h \in AppliedOf THEN "ok" ELSE "failed"
      BY <1>1, <1>7 DEF DocOf, AppliedOf
    <2>4. [c \in Client |-> OpOf(c)'] = [[c \in Client |-> OpOf(c)] EXCEPT ![h] = "none"]
      BY <2>2
    <2> QED
      BY <1>3, <1>7, <2>1, <2>3, <2>4 DEF Abstract!Answer, DocOf, OpOf, AppliedOf
  <1>9. Simulates
    BY <1>8, AnswerSimulates
  <1>10. QueueInv'
    BY <1>3
  <1> QED
    BY <1>5, <1>6, <1>9, <1>10 DEF IInv

LEMMA HeadSteps ==
    ASSUME IInv, RunHead
    PROVE  IInv' /\ Simulates
  <1>1. CASE BeginWrite
    BY <1>1, BeginWriteStep
  <1>2. CASE AwaitLoad
    BY <1>2, LoadingSteps DEF AwaitLoad
  <1>3. CASE RefuseUnloaded
    BY <1>3, SettleStep DEF RefuseUnloaded
  <1>4. CASE WriteFails
    BY <1>4, SettleStep DEF WriteFails, Rejected
  <1>5. CASE Rename
    BY <1>5, RenameStep
  <1>6. CASE Publish
    BY <1>6, SettleStep DEF Publish, Published
  <1> QED
    BY <1>1, <1>2, <1>3, <1>4, <1>5, <1>6 DEF RunHead

\* A read changes neither the queue nor the document.
LEMMA ReadingSteps ==
    ASSUME IInv, NEW c \in Client, ReadCall(c) \/ ReadSteps(c)
    PROVE  IInv' /\ Simulates
  <1>1. /\ UNCHANGED <<disk, mem, queue, stage, draft, outcome>>
        /\ \/ loading' = loading
           \/ loading = "none" /\ loading' = "pending"
    BY DEF ReadCall, ReadSteps, ReadJoinsTail, ReadReturns
  <1>2. call[c].op \notin WriteKind
    BY DEF ReadCall, ReadSteps, ReadJoinsTail, ReadReturns, LoadErrorThrown, WriteKind
  <1>3. PICK r : /\ call' = [call EXCEPT ![c] = r]
                 /\ Shaped(r) /\ r.op \notin WriteKind
    <2>1. Shaped(call[c])
      BY DEF IInv, Typed
    <2>2. CASE ReadCall(c)
      <3> DEFINE r == [call[c] EXCEPT !.op = "opening"]
      <3>1. call' = [call EXCEPT ![c] = r]
        BY <2>2 DEF ReadCall
      <3>2. Shaped(r) /\ r.op = "opening"
        BY <2>1, StartedCallShaped
      <3> QED
        BY <3>1, <3>2 DEF WriteKind
    <2>3. CASE ReadJoinsTail(c)
      <3> DEFINE r == [op |-> "reading", ahead |-> TailAhead,
                       asked |-> {queue[i] : i \in DOMAIN queue}]
      <3>1. call' = [call EXCEPT ![c] = r]
        BY <2>3 DEF ReadJoinsTail
      <3>2. Shaped(r) /\ r.op = "reading"
        BY NewCallShaped
      <3> QED
        BY <3>1, <3>2 DEF WriteKind
    <2>4. CASE ReadReturns(c)
      <3>1. Shaped(NoCall) /\ NoCall.op = "none"
        BY NewCallShaped DEF NoCall
      <3> QED
        BY <2>4, <3>1 DEF ReadReturns, WriteKind
    <2> QED
      BY <2>2, <2>3, <2>4 DEF ReadSteps
  <1>4. /\ call' = [d \in Client |-> call'[d]]
        /\ \A d \in Client : /\ Shaped(call'[d])
                             /\ call'[d].op \in WriteKind <=> call[d].op \in WriteKind
                             /\ OpOf(d)' = OpOf(d)
    <2>1. \A d \in Client : call'[d] = IF d = c THEN r ELSE call[d]
      BY <1>3 DEF IInv, Typed
    <2>2. call' = [d \in Client |-> call'[d]]
      BY <1>3 DEF IInv, Typed
    <2> QED
      BY <1>2, <1>3, <2>1, <2>2 DEF IInv, Typed, OpOf
  <1>5. Typed'
    BY <1>1, <1>4 DEF IInv, Typed
  <1>6. QueueInv'
    BY <1>1, <1>4, QuietKeepsQueue DEF IInv
  <1>7. MemoryInv'
    <2>1. loading' = "ready" <=> loading = "ready"
      BY <1>1
    <2>2. queue # << >> => call'[Head(queue)].op = call[Head(queue)].op
      <3>1. queue # << >> => Head(queue) \in Client /\ call[Head(queue)].op \in WriteKind
        BY HeadAwaits DEF IInv
      <3>2. queue # << >> => Head(queue) # c
        BY <1>2, <3>1
      <3> QED
        BY <1>3, <3>1, <3>2 DEF IInv, Typed
    <2> QED
      BY <1>1, <2>1, <2>2 DEF IInv, MemoryInv
  <1>8. Unseen
    BY <1>1, <1>4 DEF Unseen, AppliedOf, DocOf
  <1> QED
    BY <1>5, <1>6, <1>7, <1>8, UnseenStutters DEF IInv, Simulates

LEMMA SubmitStep ==
    ASSUME IInv, NEW c \in Client, NEW kind \in WriteKind, Submit(c, kind)
    PROVE  IInv' /\ Simulates
  <1>1. /\ call[c].op = "none" /\ call' = [call EXCEPT ![c] = [call[c] EXCEPT !.op = kind]]
        /\ queue' = Append(queue, c) /\ outcome' = [outcome EXCEPT ![c] = "none"]
        /\ UNCHANGED <<disk, mem, loading, stage, draft>>
    BY DEF Submit
  <1>2. \A d \in Client : /\ Shaped(call'[d])
                          /\ call'[d].op = IF d = c THEN kind ELSE call[d].op
    <2>1. Shaped(call[c])
      BY DEF IInv, Typed
    <2>2. call'[c] = [call[c] EXCEPT !.op = kind]
      BY <1>1 DEF IInv, Typed
    <2>3. \A d \in Client \ {c} : call'[d] = call[d]
      BY <1>1 DEF IInv, Typed
    <2>4. Shaped(call'[c]) /\ call'[c].op = kind
      BY <2>1, <2>2, StartedCallShaped
    <2> QED
      BY <2>3, <2>4 DEF IInv, Typed
  <1>3. /\ queue \in Seq(Client) /\ Len(queue) \in Nat
        /\ queue' \in Seq(Client) /\ Len(queue') = Len(queue) + 1
        /\ queue'[Len(queue) + 1] = c
        /\ \A i \in 1 .. Len(queue) : queue'[i] = queue[i]
    BY <1>1 DEF IInv, Typed
  <1>4. /\ \A i \in 1 .. Len(queue) : queue[i] \in Client /\ queue[i] # c
        /\ \A i \in 1 .. Len(queue') : i \in 1 .. Len(queue) \/ i = Len(queue) + 1
    BY <1>1, <1>3 DEF IInv, QueueInv, WriteKind
  <1>5. Typed'
    <2>1. /\ call' = [d \in Client |-> call'[d]]
          /\ outcome' = [d \in Client |-> outcome'[d]]
      BY <1>1 DEF IInv, Typed
    <2> QED
      BY <1>1, <1>2, <1>3, <2>1 DEF IInv, Typed
  <1>6. QueueInv'
    <2>1. \A i, j \in 1 .. Len(queue') : queue'[i] = queue'[j] => i = j
      BY <1>3, <1>4 DEF IInv, QueueInv
    <2>2. \A i \in 1 .. Len(queue') : call'[queue'[i]].op \in WriteKind
      BY <1>2, <1>3, <1>4 DEF IInv, QueueInv
    <2>3. ASSUME NEW d \in Client, call'[d].op \in WriteKind
          PROVE  \E i \in 1 .. Len(queue') : queue'[i] = d
      <3>1. CASE d = c
        BY <1>3, <3>1
      <3>2. CASE d # c
        <4>1. PICK i \in 1 .. Len(queue) : queue[i] = d
          BY <1>2, <2>3, <3>2 DEF IInv, QueueInv
        <4>2. i \in 1 .. Len(queue')
          BY <1>3
        <4> QED
          BY <1>3, <4>1, <4>2
      <3> QED
        BY <3>1, <3>2
    <2> QED
      BY <2>1, <2>2, <2>3 DEF QueueInv
  <1>7. stage # "waiting" =>
            /\ queue' # << >> /\ Head(queue') = Head(queue)
            /\ Head(queue) \in Client /\ call'[Head(queue)].op = call[Head(queue)].op
    <2> SUFFICES ASSUME stage # "waiting"
                 PROVE  /\ queue' # << >> /\ Head(queue') = Head(queue)
                        /\ Head(queue) \in Client
                        /\ call'[Head(queue)].op = call[Head(queue)].op
      OBVIOUS
    <2>1. queue # << >>
      BY DEF IInv, MemoryInv
    <2>2. Len(queue) \in Nat \ {0} /\ Head(queue) = queue[1] /\ Head(queue) \in Client
      BY <2>1, HeadAwaits DEF IInv
    <2>3. 1 \in 1 .. Len(queue)
      BY <2>2
    <2>4. Head(queue) # c
      BY <1>4, <2>2, <2>3
    <2>5. queue' # << >> /\ Head(queue') = queue'[1]
      BY <1>3, <2>2
    <2> QED
      BY <1>2, <1>3, <2>2, <2>3, <2>4, <2>5
  <1>8. MemoryInv'
    BY <1>1, <1>7 DEF IInv, MemoryInv
  <1>9. Abstract!Submit(c, kind)
    <2>1. OpOf(c) = "none"
      BY <1>1 DEF OpOf, WriteKind
    <2>2. \A d \in Client : OpOf(d)' = IF d = c THEN kind ELSE OpOf(d)
      BY <1>2 DEF OpOf
    <2>3. [d \in Client |-> OpOf(d)'] = [[d \in Client |-> OpOf(d)] EXCEPT ![c] = kind]
      BY <2>2
    <2>4. DocOf' = DocOf /\ AppliedOf' = AppliedOf
      BY <1>1, <1>7 DEF DocOf, AppliedOf
    <2> QED
      BY <1>1, <2>1, <2>3, <2>4 DEF Abstract!Submit, DocOf, OpOf, AppliedOf
  <1> QED
    BY <1>5, <1>6, <1>8, <1>9 DEF IInv, Simulates, Abstract!Next, Abstract!Kind, WriteKind

LEMMA CrashStep ==
    ASSUME IInv, Crash
    PROVE  IInv' /\ Simulates
  <1>1. \A c \in Client : Shaped(call'[c]) /\ call'[c].op = "none"
    BY NewCallShaped DEF Crash, NoCall
  <1>2. Typed'
    BY <1>1 DEF Crash, IInv, Typed, Document
  <1>3. QueueInv'
    BY <1>1 DEF Crash, QueueInv, WriteKind
  <1>4. MemoryInv'
    BY DEF Crash, MemoryInv
  <1>5. Abstract!Crash
    <2>1. \A c \in Client : OpOf(c)' = "none"
      BY <1>1 DEF OpOf, WriteKind
    <2>2. DocOf' = DocOf /\ AppliedOf' = {}
      BY DEF Crash, DocOf, AppliedOf
    <2> QED
      BY <2>1, <2>2 DEF Crash, Abstract!Crash, DocOf, OpOf, AppliedOf
  <1> QED
    BY <1>2, <1>3, <1>4, <1>5 DEF IInv, Simulates, Abstract!Next

LEMMA StepHolds ==
    ASSUME IInv, [Next]_vars
    PROVE  IInv' /\ Simulates
  <1>1. CASE UNCHANGED vars
    <2>1. UNCHANGED <<disk, mem, loading, queue, stage, draft, call, outcome>>
      BY <1>1 DEF vars
    <2>2. IInv'
      BY <2>1 DEF IInv, Typed, QueueInv, MemoryInv
    <2>3. Unseen
      BY <2>1 DEF Unseen, OpOf, AppliedOf, DocOf
    <2> QED
      BY <2>2, <2>3, UnseenStutters DEF Simulates
  <1>2. CASE Initialize \/ Load
    BY <1>2, LoadingSteps
  <1>3. CASE RunHead
    BY <1>3, HeadSteps
  <1>4. CASE \E c \in Client : ReadCall(c) \/ ReadSteps(c)
    BY <1>4, ReadingSteps
  <1>5. CASE \E c \in Client, kind \in WriteKind : Submit(c, kind)
    BY <1>5, SubmitStep
  <1>6. CASE Crash
    BY <1>6, CrashStep
  <1> QED
    BY <1>1, <1>2, <1>3, <1>4, <1>5, <1>6 DEF Next

-----------------------------------------------------------------------------
\* What a reader still waits for is the front of the queue: the operations
\* that were chained on the tail when it joined and have not settled.
ReadInv == \A c \in Client :
    /\ call[c].op \in {"none", "opening", "reading"} \cup WriteKind
    /\ call[c].ahead \in 0 .. Len(queue)
    /\ call[c].asked = {queue[i] : i \in 1 .. call[c].ahead}

LEMMA SettleAdvancesReads ==
    ASSUME IInv, ReadInv, queue # << >>, NEW answer, Settle(answer)
    PROVE  ReadInv'
  <1>1. /\ Head(queue) = queue[1] /\ Len(queue) \in Nat \ {0}
        /\ queue' = Tail(queue) /\ Len(queue') = Len(queue) - 1
        /\ \A i \in 1 .. Len(queue') : queue'[i] = queue[i + 1]
    BY HeadAwaits DEF IInv, Settle
  <1> SUFFICES ASSUME NEW c \in Client
               PROVE  /\ call'[c].op \in {"none", "opening", "reading"} \cup WriteKind
                      /\ call'[c].ahead \in 0 .. Len(queue')
                      /\ call'[c].asked = {queue'[i] : i \in 1 .. call'[c].ahead}
    BY DEF ReadInv
  <1>2. CASE c = Head(queue)
    <2>1. call'[c] = [op |-> "none", ahead |-> 0, asked |-> {}]
      BY <1>2 DEF Settle, NoCall
    <2>2. call'[c].op = "none" /\ call'[c].ahead = 0 /\ call'[c].asked = {}
      BY <2>1
    <2> QED
      BY <1>1, <2>2
  <1>3. CASE c # Head(queue)
    <2> DEFINE n == call[c].ahead
               m == OneFewer(n)
               s == call[c].asked \ {Head(queue)}
    <2>1. call'[c] = [call[c] EXCEPT !.ahead = m, !.asked = s]
      BY <1>3 DEF Settle
    <2>2. Shaped(call[c])
      BY DEF IInv, Typed
    <2>3. call'[c].op = call[c].op /\ call'[c].ahead = m /\ call'[c].asked = s
      BY <2>1, <2>2, UpdatedFields
    <2>4. n \in 0 .. Len(queue) /\ call[c].asked = {queue[i] : i \in 1 .. n}
      BY DEF ReadInv
    <2>5. m \in 0 .. Len(queue') /\ m = (IF n > 0 THEN n - 1 ELSE 0)
      BY <1>1, <2>4 DEF OneFewer
    <2>6. \A i \in 2 .. n : /\ queue[i] # Head(queue)
                            /\ i - 1 \in 1 .. m /\ queue'[i - 1] = queue[i]
      <3>1. \A i \in 2 .. n : i \in 1 .. Len(queue) /\ 1 \in 1 .. Len(queue) /\ i # 1
        BY <1>1, <2>4
      <3>2. \A i \in 2 .. n : queue[i] # queue[1]
        BY <3>1 DEF IInv, QueueInv
      <3>3. \A i \in 2 .. n : i - 1 \in 1 .. m /\ i - 1 \in 1 .. Len(queue') /\ (i - 1) + 1 = i
        BY <1>1, <2>4, <2>5
      <3> QED
        BY <1>1, <3>2, <3>3
    <2>7. \A i \in 1 .. m : i + 1 \in 2 .. n /\ queue'[i] = queue[i + 1]
      BY <1>1, <2>4, <2>5
    <2>8. \A i \in 1 .. n : i = 1 \/ i \in 2 .. n
      BY <2>4
    <2>9. \A i \in 2 .. n : i \in 1 .. n
      BY <2>4
    <2>10. s = {queue'[i] : i \in 1 .. m}
      <3> HIDE DEF m, n
      <3>1. ASSUME NEW x \in s
            PROVE  x \in {queue'[i] : i \in 1 .. m}
        <4>1. PICK i \in 1 .. n : x = queue[i]
          BY <2>4
        <4>2. i \in 2 .. n
          BY <1>1, <2>8, <4>1
        <4> QED
          BY <2>6, <4>1, <4>2
      <3>2. ASSUME NEW x \in {queue'[i] : i \in 1 .. m}
            PROVE  x \in s
        <4>1. PICK i \in 1 .. m : x = queue'[i]
          BY <3>2
        <4>2. i + 1 \in 2 .. n /\ x = queue[i + 1]
          BY <2>7, <4>1
        <4> QED
          BY <2>4, <2>6, <2>9, <4>2
      <3> QED
        BY <3>1, <3>2
    <2> QED
      BY <2>3, <2>5, <2>10 DEF ReadInv
  <1> QED
    BY <1>2, <1>3

\* A step that leaves the queue alone and changes at most one reader's call.
LEMMA QuietKeepsReads ==
    ASSUME Typed, ReadInv, queue' = queue, NEW c \in Client, NEW r,
           call' = [call EXCEPT ![c] = r],
           r.op \in {"none", "opening", "reading"} \cup WriteKind,
           r.ahead \in 0 .. Len(queue), r.asked = {queue[i] : i \in 1 .. r.ahead}
    PROVE  ReadInv'
  <1>1. \A d \in Client : call'[d] = IF d = c THEN r ELSE call[d]
    BY DEF Typed
  <1> QED
    BY <1>1 DEF ReadInv

LEMMA ReadsHold ==
    ASSUME IInv, ReadInv, [Next]_vars
    PROVE  ReadInv'
  <1>0. queue \in Seq(Client) /\ Len(queue) \in Nat /\ DOMAIN queue = 1 .. Len(queue)
    BY DEF IInv, Typed
  <1>1. CASE UNCHANGED <<queue, call>>
    BY <1>1 DEF ReadInv
  <1>2. CASE RefuseUnloaded \/ WriteFails \/ Publish
    BY <1>2, SettleAdvancesReads DEF RefuseUnloaded, WriteFails, Publish
  <1>3. ASSUME NEW c \in Client, ReadCall(c) PROVE ReadInv'
    <2> DEFINE r == [call[c] EXCEPT !.op = "opening"]
    <2>1. call' = [call EXCEPT ![c] = r] /\ queue' = queue
      BY <1>3 DEF ReadCall
    <2>2. Shaped(call[c])
      BY DEF IInv, Typed
    <2>3. r.op = "opening" /\ r.ahead = call[c].ahead /\ r.asked = call[c].asked
      BY <2>2, StartedFields
    <2> HIDE DEF r
    <2>4. /\ r.op \in {"none", "opening", "reading"} \cup WriteKind
          /\ r.ahead \in 0 .. Len(queue) /\ r.asked = {queue[i] : i \in 1 .. r.ahead}
      BY <2>3 DEF ReadInv
    <2> QED
      BY <2>1, <2>4, QuietKeepsReads DEF IInv
  <1>4. ASSUME NEW c \in Client, ReadJoinsTail(c) PROVE ReadInv'
    <2> DEFINE r == [op |-> "reading", ahead |-> Len(queue),
                     asked |-> {queue[i] : i \in 1 .. Len(queue)}]
    <2>1. call' = [call EXCEPT ![c] = r] /\ queue' = queue
      BY <1>0, <1>4 DEF ReadJoinsTail, TailAhead
    <2>2. /\ r.op = "reading" /\ r.ahead = Len(queue)
          /\ r.asked = {queue[i] : i \in 1 .. Len(queue)}
      OBVIOUS
    <2> HIDE DEF r
    <2>3. /\ r.op \in {"none", "opening", "reading"} \cup WriteKind
          /\ r.ahead \in 0 .. Len(queue) /\ r.asked = {queue[i] : i \in 1 .. r.ahead}
      BY <1>0, <2>2
    <2> QED
      BY <2>1, <2>3, QuietKeepsReads DEF IInv
  <1>5. ASSUME NEW c \in Client, ReadReturns(c) PROVE ReadInv'
    <2>1. call' = [call EXCEPT ![c] = NoCall] /\ queue' = queue
      BY <1>5 DEF ReadReturns
    <2>2. NoCall.op = "none" /\ NoCall.ahead = 0 /\ NoCall.asked = {}
      BY DEF NoCall
    <2>3. /\ NoCall.op \in {"none", "opening", "reading"} \cup WriteKind
          /\ NoCall.ahead \in 0 .. Len(queue)
          /\ NoCall.asked = {queue[i] : i \in 1 .. NoCall.ahead}
      BY <1>0, <2>2
    <2> QED
      BY <2>1, <2>3, QuietKeepsReads DEF IInv
  <1>6. ASSUME NEW c \in Client, NEW kind \in WriteKind, Submit(c, kind) PROVE ReadInv'
    <2>1. /\ Len(queue') = Len(queue) + 1
          /\ \A i \in 1 .. Len(queue) : queue'[i] = queue[i]
      BY <1>0, <1>6 DEF Submit
    <2>2. ASSUME NEW d \in Client
          PROVE  /\ call'[d].op \in {"none", "opening", "reading"} \cup WriteKind
                 /\ call'[d].ahead = call[d].ahead /\ call'[d].asked = call[d].asked
      <3>1. CASE d = c
        <4>1. call'[c] = [call[c] EXCEPT !.op = kind]
          BY <1>6 DEF Submit, IInv, Typed
        <4>2. Shaped(call[c])
          BY DEF IInv, Typed
        <4>3. /\ [call[c] EXCEPT !.op = kind].op = kind
              /\ [call[c] EXCEPT !.op = kind].ahead = call[c].ahead
              /\ [call[c] EXCEPT !.op = kind].asked = call[c].asked
          BY <4>2, StartedFields
        <4> QED
          BY <3>1, <4>1, <4>3
      <3>2. CASE d # c
        BY <1>6, <3>2 DEF Submit, IInv, Typed, ReadInv
      <3> QED
        BY <3>1, <3>2
    <2>3. ASSUME NEW d \in Client
          PROVE  call'[d].asked = {queue'[i] : i \in 1 .. call'[d].ahead}
      <3>1. call[d].ahead \in 0 .. Len(queue)
        BY DEF ReadInv
      <3>2. \A i \in 1 .. call[d].ahead : queue'[i] = queue[i]
        BY <1>0, <2>1, <3>1
      <3> QED
        BY <2>2, <3>2 DEF ReadInv
    <2> QED
      BY <1>0, <2>1, <2>2, <2>3 DEF ReadInv
  <1>7. CASE Crash
    <2>1. \A c \in Client : /\ call'[c].op = "none" /\ call'[c].ahead = 0
                            /\ call'[c].asked = {}
      BY <1>7 DEF Crash, NoCall
    <2>2. Len(queue') = 0
      BY <1>7 DEF Crash
    <2> QED
      BY <2>1, <2>2 DEF ReadInv
  <1>8. CASE UNCHANGED vars \/ Initialize \/ Load \/ BeginWrite \/ AwaitLoad \/ Rename
    BY <1>8, <1>1 DEF vars, Initialize, Load, LoadDocument, LoadInitial, LoadFails,
       BeginWrite, AwaitLoad, Rename
  <1> QED
    BY <1>2, <1>3, <1>4, <1>5, <1>6, <1>7, <1>8 DEF Next, RunHead, ReadSteps

-----------------------------------------------------------------------------
\* The caller at the head, its draft, memory and the file fit together in
\* every state of the store.
THEOREM Inductive == Spec => []IInv
  <1>1. IInv /\ [Next]_vars => IInv'
    BY StepHolds
  <1> QED
    BY <1>1, InitHolds, PTL DEF Spec

\* Outside the window between a rename and the publication of its value,
\* this.state is the document on disk, whatever fails and whenever the
\* process dies.
THEOREM MemoryFollowsDisk == Spec => []MemoryIsDisk
  <1>1. IInv => MemoryIsDisk
    BY DEF IInv, MemoryInv, MemoryIsDisk
  <1> QED
    BY <1>1, Inductive, PTL

\* A file that is not a valid document is never overwritten by the store.
THEOREM UnreadableSurvives == Spec => UnreadableIsKept
  <1>1. IInv /\ [Next]_vars => [disk = Unreadable => disk' = Unreadable]_vars
    <2> SUFFICES ASSUME IInv, [Next]_vars, disk = Unreadable
                 PROVE  disk' = Unreadable
      BY DEF vars
    <2>1. ~Rename /\ ~LoadInitial
      BY StoreAssumption DEF IInv, MemoryInv, Rename, LoadInitial, NoFile
    <2> QED
      BY <2>1 DEF Next, vars, Initialize, Load, LoadDocument, LoadFails, RunHead,
         BeginWrite, AwaitLoad, RefuseUnloaded, WriteFails, Publish, ReadCall,
         ReadSteps, ReadJoinsTail, ReadReturns, Submit, Crash
  <1> QED
    BY <1>1, Inductive, PTL DEF Spec, UnreadableIsKept

\* The store implements DurableDocument: load(), the queue, the temporary file
\* and its rename look to callers like one document whose operations take
\* effect one at a time, whole, and exactly when they are answered "ok".
THEOREM KeepsItsPromise == Spec => ImplementsDurableDocument
  <1>1. Init => Abstract!Init
    <2> SUFFICES ASSUME Init PROVE Abstract!Init
      OBVIOUS
    <2>1. \A c \in Client : OpOf(c) = "none"
      BY DEF Init, NoCall, OpOf, WriteKind
    <2>2. DocOf \in {Unreadable} \cup Document /\ AppliedOf = {}
      BY DEF Init, DocOf, AppliedOf, Document
    <2> QED
      BY <2>1, <2>2 DEF Init, Abstract!Init, Abstract!Document, Document,
         DocOf, OpOf, AppliedOf
  <1>2. IInv /\ [Next]_vars => [Abstract!Next]_Abstract!vars
    BY StepHolds DEF Simulates
  <1> QED
    BY <1>1, <1>2, Inductive, PTL DEF Spec, Abstract!Spec, ImplementsDurableDocument

LEMMA ReadInvHolds == Spec => []ReadInv
  <1>1. Init => ReadInv
    <2> SUFFICES ASSUME Init, NEW c \in Client
                 PROVE  /\ call[c].op \in {"none", "opening", "reading"} \cup WriteKind
                        /\ call[c].ahead \in 0 .. Len(queue)
                        /\ call[c].asked = {queue[i] : i \in 1 .. call[c].ahead}
      BY DEF ReadInv
    <2>1. /\ call[c].op = "none" /\ call[c].ahead = 0 /\ call[c].asked = {}
          /\ Len(queue) = 0
      BY DEF Init, NoCall
    <2> QED
      BY <2>1
  <1>2. IInv /\ ReadInv /\ [Next]_vars => ReadInv'
    BY ReadsHold
  <1> QED
    BY <1>1, <1>2, Inductive, PTL DEF Spec

Answers == outcome \in [Client -> {"none", "ok", "failed"}]

LEMMA AnswersHold == Spec => []Answers
  <1>1. Init => Answers
    BY DEF Init, Answers
  <1>2. IInv /\ Answers /\ [Next]_vars => Answers'
    <2> SUFFICES ASSUME IInv, Answers, [Next]_vars PROVE Answers'
      OBVIOUS
    <2>1. ASSUME NEW a \in {"ok", "failed"}, Settle(a) PROVE Answers'
      BY <2>1 DEF Settle, Answers
    <2>2. CASE RefuseUnloaded \/ WriteFails \/ Publish
      BY <2>1, <2>2 DEF RefuseUnloaded, WriteFails, Publish, Rejected
    <2>3. ASSUME NEW c \in Client, NEW kind \in WriteKind, Submit(c, kind) PROVE Answers'
      BY <2>3 DEF Submit, Answers
    <2>4. CASE Crash
      BY <2>4 DEF Crash, Answers
    <2>5. CASE outcome' = outcome
      BY <2>5 DEF Answers
    <2> QED
      BY <2>2, <2>3, <2>4, <2>5 DEF Next, vars, Initialize, Load, LoadDocument,
         LoadInitial, LoadFails, RunHead, BeginWrite, AwaitLoad, Rename, ReadCall,
         ReadSteps, ReadJoinsTail, ReadReturns
  <1> QED
    BY <1>1, <1>2, Inductive, PTL DEF Spec

\* No caller is queued twice, so the queue is no longer than there are callers.
LEMMA QueueIsShort ==
    ASSUME Typed, QueueInv
    PROVE  Len(queue) <= Cardinality(Client)
  <1> DEFINE S == 1 .. Len(queue)
  <1>1. Len(queue) \in Nat /\ queue \in [S -> Client]
    BY DEF Typed
  <1>2. IsFiniteSet(S) /\ Cardinality(S) = Len(queue)
    BY <1>1, FS_Interval
  <1>3. IsFiniteSet(Client) /\ Cardinality(Client) \in Nat
    BY StoreAssumption, FS_CardinalityType
  <1>4. ASSUME Cardinality(Client) < Cardinality(S)
        PROVE  FALSE
    <2>1. \E x, y \in S : x # y /\ queue[x] = queue[y]
      BY <1>1, <1>2, <1>3, <1>4, FS_PigeonHole
    <2> QED
      BY <2>1 DEF QueueInv
  <1> QED
    BY <1>1, <1>2, <1>3, <1>4

\* Type correctness; a caller never counts more operations ahead of it than
\* there are callers.
THEOREM TypeCorrect == Spec => []TypeOK
  <1>1. IInv /\ ReadInv /\ Answers => TypeOK
    <2> SUFFICES ASSUME IInv, ReadInv, Answers PROVE TypeOK
      OBVIOUS
    <2>1. Len(queue) \in Nat /\ Len(queue) <= Cardinality(Client) /\ Cardinality(Client) \in Nat
      BY QueueIsShort, StoreAssumption, FS_CardinalityType DEF IInv, Typed
    <2>2. ASSUME NEW c \in Client PROVE call[c] \in Call
      <3>1. call[c] = [op |-> call[c].op, ahead |-> call[c].ahead, asked |-> call[c].asked]
        BY DEF IInv, Typed, Shaped
      <3>2. call[c].op \in {"none", "opening", "reading"} \cup WriteKind
        BY DEF ReadInv
      <3>3. call[c].ahead \in 0 .. Len(queue)
        BY DEF ReadInv
      <3>4. call[c].ahead \in 0 .. Cardinality(Client)
        BY <2>1, <3>3
      <3>5. call[c].asked \in SUBSET Client
        <4>1. \A i \in 1 .. call[c].ahead : queue[i] \in Client
          BY <2>1, <3>3 DEF IInv, Typed
        <4> QED
          BY <4>1 DEF ReadInv
      <3> HIDE DEF ReadInv
      <3> QED
        BY <3>1, <3>2, <3>4, <3>5 DEF Call
    <2>3. call \in [Client -> Call]
      BY <2>2 DEF IInv, Typed
    <2> QED
      BY <2>3, StoreAssumption DEF TypeOK, IInv, Typed, Answers
  <1> QED
    BY <1>1, ReadInvHolds, AnswersHold, Inductive, PTL

\* A read is answered only after every operation that was chained on the tail
\* when it joined has settled, in the order in which they were chained.
THEOREM ReadsWait == Spec => []ReadsFollowWrites
  <1>1. ReadInv => ReadsFollowWrites
    BY DEF ReadInv, ReadsFollowWrites
  <1> QED
    BY <1>1, ReadInvHolds, PTL

\* What a read returns is the document on disk, as left by every operation that
\* was chained before it.
THEOREM ReadsCurrent == Spec => []ReadsAreCurrent
  BY MemoryFollowsDisk, ReadsWait, PTL DEF ReadsAreCurrent

===============================================================================
