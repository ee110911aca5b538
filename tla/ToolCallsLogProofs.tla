-------------------------- MODULE ToolCallsLogProofs --------------------------
(***************************************************************************)
(* What ToolCalls promises of the log of a local process, for any number   *)
(* of calls, any records found in the file and any limit of records,       *)
(* and the type invariant of ToolCalls.                                    *)
(***************************************************************************)
EXTENDS ToolCallsProofs, SequenceTheorems, FiniteSetTheorems

\* The work of a call: its running record has been saved.
Working == {"starting", "waiting", "reading", "reporting", "completing"}

\* An execution is in the log, or everything that is there is not older.
Kept(e) == \/ e \in Ids
           \/ Len(log) = MaxExecutions /\ \A i \in DOMAIN log : log[i].at >= at[e]

\* The log is sorted by createdAt, which is that of its executions.
Ordered ==
    /\ \A i, j \in DOMAIN log : i <= j => log[i].at <= log[j].at
    /\ \A i \in DOMAIN log : log[i].id \in Exec => log[i].at = at[log[i].id]

\* What the log has of a call at each of its phases.
InLog(e) ==
    /\ e \in Ids => ~ hosted /\ phase[e] \notin {"idle", "saving"}
    /\ phase[e] = "saving" => ~ hosted /\ loading # "none"
    /\ phase[e] \in Working => hosted \/ (loading = "ready" /\ Kept(e))
    /\ e \in ran => hosted \/ Kept(e)
    /\ phase[e] \in Working \cup {"idle", "saving"} => span[e] \in {"none", "open"}

\* What a record says of its call.
Says(r) ==
    /\ r.id \in InFlight => r.status = "running"
    /\ r.status = "running" /\ loading = "ready" =>
           /\ r.id \in Exec
           /\ \/ r.id \in InFlight
              \/ phase[r.id] = "answered" /\ (traced => span[r.id] = "evidence_persistence_failed")
    /\ r.id \in Exec =>
           /\ span[r.id] = "ok" => r.status = "succeeded"
           /\ span[r.id] = "tool_error" => r.status = "failed"

LogTells ==
    /\ LogTypeOK /\ Ordered
    /\ \A e \in Exec : InLog(e)
    /\ \A i \in DOMAIN log : Says(log[i])

\* The types that do not follow from what ToolCallsProofs knows of the calls.
CallTypes ==
    /\ traced \in BOOLEAN /\ live \in BOOLEAN
    /\ \A e \in Exec : /\ args[e] \in Args(1 .. version) \cup {None}
                       /\ phase[e] # "idle" => args[e] # None
    /\ page \in [Exec -> 0 .. MaxPage + 1]
    /\ progress \in [Exec -> 0 .. Total]
    /\ span \in [Exec -> {"none", "open", "ok", "tool_error", "evidence_persistence_failed"}]
    /\ version \in 1 .. Cardinality(applied) + 1

LogInv == LogTells /\ CallTypes

-----------------------------------------------------------------------------
(* save().                                                                 *)

LEMMA LogTyped ==
    ASSUME LogTypeOK
    PROVE  /\ log \in Seq(Record) /\ Len(log) \in Nat /\ DOMAIN log = 1 .. Len(log)
           /\ \A i \in DOMAIN log : /\ log[i] \in Record /\ log[i].at \in Nat
                                    /\ log[i].id \in Exec \cup Old /\ log[i].status \in Status
  <1>1. log \in Seq(Record)
    BY DEF LogTypeOK
  <1>2. Len(log) \in Nat /\ DOMAIN log = 1 .. Len(log)
    BY <1>1, LenProperties
  <1>3. \A i \in DOMAIN log : log[i] \in Record
    BY <1>1, <1>2, ElementOfSeq
  <1>4. \A r \in Record : r.at \in Nat /\ r.id \in Exec \cup Old /\ r.status \in Status
    BY DEF Record
  <1> QED
    BY <1>1, <1>2, <1>3, <1>4

\* A sorted log has one place for a record.
LEMMA PlaceOf ==
    ASSUME LogTypeOK, Ordered, NEW r \in Record
    PROVE  /\ Place(r) \in 0 .. Len(log)
           /\ \A i \in DOMAIN log : i <= Place(r) <=> log[i].at <= r.at
  <1> DEFINE Beyond == {i \in 1 .. Len(log) + 1 : i = Len(log) + 1 \/ log[i].at > r.at}
             Less == OpToRel(<, Nat)
  <1>0. /\ Len(log) \in Nat /\ DOMAIN log = 1 .. Len(log) /\ r.at \in Nat
        /\ \A i \in DOMAIN log : log[i].at \in Nat
    BY LogTyped DEF Record
  <1>1. Beyond \in SUBSET Nat /\ Len(log) + 1 \in Beyond
    BY <1>0
  <1>2. PICK n \in Beyond : \A m \in Beyond : ~ (<<m, n>> \in Less)
    <2>1. IsWellFoundedOn(Less, Nat)
      BY NatLessThanWellFounded, Zenon
    <2> HIDE DEF Beyond, Less
    <2> QED
      BY <1>1, <2>1, WFMin, Zenon
  <1>3. \A m \in Beyond : n <= m
    <2>1. n \in Nat /\ \A m \in Beyond : m \in Nat
      BY <1>1
    <2>2. \A m \in Nat : m < n => <<m, n>> \in Less
      BY <2>1, Zenon DEF OpToRel
    <2> HIDE DEF Beyond, Less
    <2>3. \A m \in Beyond : ~ (m < n)
      BY <1>2, <2>1, <2>2
    <2> QED
      BY <2>1, <2>3
  <1>4. n - 1 \in 0 .. Len(log)
    BY <1>0, <1>1
  <1>5. ASSUME NEW i \in DOMAIN log PROVE i <= n - 1 <=> log[i].at <= r.at
    <2>1. CASE i <= n - 1
      BY <1>0, <1>1, <1>3, <2>1
    <2>2. CASE i >= n
      <3>1. n \in DOMAIN log /\ log[n].at > r.at
        BY <1>0, <1>1, <2>2
      <3> QED
        BY <1>0, <2>2, <3>1 DEF Ordered
    <2> QED
      BY <1>0, <1>1, <2>1, <2>2
  <1>6. \E k \in 0 .. Len(log) : \A i \in DOMAIN log : i <= k <=> log[i].at <= r.at
    BY <1>4, <1>5
  <1> QED
    BY <1>6 DEF Place

\* Before the limit is applied.
LEMMA SortedInIs ==
    ASSUME LogTypeOK, Ordered, NEW r \in Record
    PROVE  /\ SortedIn(r) \in Seq(Record) /\ Len(SortedIn(r)) = Len(log) + 1
           /\ \A i \in 1 .. Len(log) + 1 :
                 SortedIn(r)[i] = IF i <= Place(r) THEN log[i]
                                  ELSE IF i = Place(r) + 1 THEN r ELSE log[i - 1]
  <1> DEFINE k == Place(r)
             front == SubSeq(log, 1, k)
             back == SubSeq(log, k + 1, Len(log))
  <1>0. log \in Seq(Record) /\ Len(log) \in Nat /\ k \in 0 .. Len(log)
    BY PlaceOf, LenProperties DEF LogTypeOK
  <1> HIDE DEF k
  <1>1. \A i \in 1 .. Len(log) : log[i] \in Record
    BY <1>0, ElementOfSeq
  <1>2. /\ front \in Seq(Record) /\ Len(front) = k
        /\ \A i \in 1 .. k : front[i] = log[i]
    <2>1. \A i \in 1 .. k : log[i] \in Record
      BY <1>0, <1>1
    <2>2. /\ front \in Seq(Record) /\ Len(front) = IF 1 <= k THEN k - 1 + 1 ELSE 0
          /\ \A i \in 1 .. k - 1 + 1 : front[i] = log[1 + i - 1]
      BY <1>0, <2>1, SubSeqProperties
    <2> QED
      BY <1>0, <2>2
  <1>3. /\ back \in Seq(Record) /\ Len(back) = Len(log) - k
        /\ \A i \in 1 .. Len(log) - k : back[i] = log[k + i]
    <2>1. \A i \in k + 1 .. Len(log) : log[i] \in Record
      BY <1>0, <1>1
    <2>2. /\ back \in Seq(Record)
          /\ Len(back) = IF k + 1 <= Len(log) THEN Len(log) - (k + 1) + 1 ELSE 0
          /\ \A i \in 1 .. Len(log) - (k + 1) + 1 : back[i] = log[(k + 1) + i - 1]
      BY <1>0, <2>1, SubSeqProperties
    <2> QED
      BY <1>0, <2>2
  <1> HIDE DEF front, back
  <1>4. <<r>> \in Seq(Record) /\ Len(<<r>>) = 1 /\ <<r>>[1] = r
    OBVIOUS
  <1>5. /\ front \o <<r>> \in Seq(Record) /\ Len(front \o <<r>>) = k + 1
        /\ \A i \in 1 .. k + 1 : (front \o <<r>>)[i] = IF i <= k THEN log[i] ELSE r
    <2>1. /\ front \o <<r>> \in Seq(Record) /\ Len(front \o <<r>>) = Len(front) + Len(<<r>>)
          /\ \A i \in 1 .. Len(front) + Len(<<r>>) :
                (front \o <<r>>)[i] = IF i <= Len(front) THEN front[i] ELSE <<r>>[i - Len(front)]
      BY <1>2, <1>4, ConcatProperties
    <2> QED
      BY <1>0, <1>2, <1>4, <2>1
  <1>6. /\ (front \o <<r>>) \o back \in Seq(Record)
        /\ Len((front \o <<r>>) \o back) = Len(front \o <<r>>) + Len(back)
        /\ \A i \in 1 .. Len(front \o <<r>>) + Len(back) :
              ((front \o <<r>>) \o back)[i] =
                 IF i <= Len(front \o <<r>>) THEN (front \o <<r>>)[i]
                 ELSE back[i - Len(front \o <<r>>)]
    BY <1>3, <1>5, ConcatProperties
  <1>7. SortedIn(r) = (front \o <<r>>) \o back
    BY DEF SortedIn, front, back, k
  <1>8. ASSUME NEW i \in 1 .. Len(log) + 1
        PROVE  SortedIn(r)[i] = IF i <= k THEN log[i] ELSE IF i = k + 1 THEN r ELSE log[i - 1]
    <2>1. CASE i <= k + 1
      BY <1>0, <1>3, <1>5, <1>6, <1>7, <2>1
    <2>2. CASE i > k + 1
      <3>1. i - (k + 1) \in 1 .. Len(log) - k /\ k + (i - (k + 1)) = i - 1
        BY <1>0, <2>2
      <3>2. back[i - (k + 1)] = log[i - 1]
        BY <1>3, <3>1
      <3> QED
        BY <1>0, <1>3, <1>5, <1>6, <1>7, <2>2, <3>2
    <2> QED
      BY <1>0, <2>1, <2>2
  <1> QED
    BY <1>0, <1>3, <1>5, <1>6, <1>7, <1>8 DEF k

\* The newest MaxExecutions of a log that was within the limit: all, or all but the
\* oldest.
LEMMA BoundedIs ==
    ASSUME NEW s \in Seq(Record), NEW n \in Nat, Len(s) = n + 1, n <= MaxExecutions
    PROVE  \E d \in {0, 1} :
               /\ d = 1 <=> n = MaxExecutions
               /\ Bounded(s) \in Seq(Record) /\ Len(Bounded(s)) = n + 1 - d
               /\ \A i \in 1 .. n + 1 - d : Bounded(s)[i] = s[i + d]
  <1>0. MaxExecutions \in Nat \ {0} /\ \A i \in 1 .. n + 1 : s[i] \in Record
    BY ElementOfSeq, LogAssumption
  <1>1. CASE n = MaxExecutions
    <2>1. /\ SubSeq(s, 2, n + 1) \in Seq(Record)
          /\ Len(SubSeq(s, 2, n + 1)) = IF 2 <= n + 1 THEN n + 1 - 2 + 1 ELSE 0
          /\ \A i \in 1 .. n + 1 - 2 + 1 : SubSeq(s, 2, n + 1)[i] = s[2 + i - 1]
      BY <1>0, SubSeqProperties
    <2>2. Len(s) > MaxExecutions /\ Len(s) - MaxExecutions + 1 = 2
      BY <1>0, <1>1
    <2>3. Bounded(s) = SubSeq(s, 2, n + 1)
      BY <2>2 DEF Bounded
    <2>4. Len(Bounded(s)) = n + 1 - 1
      BY <1>0, <1>1, <2>1, <2>3
    <2>5. \A i \in 1 .. n + 1 - 1 : Bounded(s)[i] = s[i + 1]
      <3>1. \A i \in 1 .. n + 1 - 1 : i \in 1 .. n + 1 - 2 + 1 /\ 2 + i - 1 = i + 1
        BY <1>0
      <3> QED
        BY <2>1, <2>3, <3>1
    <2> QED
      BY <1>1, <2>1, <2>3, <2>4, <2>5
  <1>2. CASE n < MaxExecutions
    <2>1. Bounded(s) = s
      BY <1>0, <1>2 DEF Bounded
    <2>2. \A i \in 1 .. n + 1 : i + 0 = i
      OBVIOUS
    <2> QED
      BY <1>0, <1>2, <2>1, <2>2
  <1> QED
    BY <1>0, <1>1, <1>2

\* A record that is new to the log: where each record of the new log is from, and
\* that what is left out is not newer than what is kept.
LEMMA NewRecord ==
    ASSUME LogTypeOK, Ordered, NEW r \in Record, r.id \notin Ids, log' = Bounded(SortedIn(r))
    PROVE  /\ log' \in Seq(Record) /\ Len(log') <= MaxExecutions /\ Len(log') \in Nat
           /\ DOMAIN log' = 1 .. Len(log')
           /\ \A i, j \in DOMAIN log' : log'[i].id = log'[j].id => i = j
           /\ \A i, j \in DOMAIN log' : i <= j => log'[i].at <= log'[j].at
           /\ \A j \in DOMAIN log' : log'[j] = r \/ \E i \in DOMAIN log : log'[j] = log[i]
           /\ \A x \in {log[i] : i \in DOMAIN log} \cup {r} :
                 \/ \E j \in DOMAIN log' : log'[j] = x
                 \/ Len(log') = MaxExecutions /\ \A j \in DOMAIN log' : log'[j].at >= x.at
           /\ \A t \in Nat :
                 Len(log) = MaxExecutions /\ (\A i \in DOMAIN log : log[i].at >= t) =>
                    Len(log') = MaxExecutions /\ \A j \in DOMAIN log' : log'[j].at >= t
  <1> DEFINE k == Place(r)
             s == SortedIn(r)
             n == Len(log)
             orig(i) == IF i <= k THEN i ELSE i - 1
  <1>0. /\ n \in Nat /\ n <= MaxExecutions /\ MaxExecutions \in Nat \ {0}
        /\ DOMAIN log = 1 .. n /\ k \in 0 .. n
        /\ \A i \in 1 .. n : i <= k <=> log[i].at <= r.at
        /\ r.at \in Nat /\ \A i \in 1 .. n : log[i].at \in Nat
        /\ \A i, j \in 1 .. n : log[i].id = log[j].id => i = j
        /\ \A i, j \in 1 .. n : i <= j => log[i].at <= log[j].at
        /\ \A i \in 1 .. n : log[i].id # r.id
    BY LogTyped, PlaceOf, LogAssumption DEF LogTypeOK, Ordered, Record, Ids
  <1>1. /\ s \in Seq(Record) /\ Len(s) = n + 1
        /\ \A i \in 1 .. n + 1 :
              s[i] = IF i <= k THEN log[i] ELSE IF i = k + 1 THEN r ELSE log[i - 1]
    BY SortedInIs
  <1> HIDE DEF k, s, n
  <1>2. PICK d \in {0, 1} :
            /\ d = 1 <=> n = MaxExecutions
            /\ log' \in Seq(Record) /\ Len(log') = n + 1 - d
            /\ \A i \in 1 .. n + 1 - d : log'[i] = s[i + d]
    <2>1. log' = Bounded(s)
      BY DEF s
    <2> QED
      BY <1>0, <1>1, <2>1, BoundedIs
  <1>3. DOMAIN log' = 1 .. Len(log') /\ Len(log') \in Nat
    BY <1>2, LenProperties
  <1>4. d \in Nat /\ Len(log') <= MaxExecutions
    BY <1>0, <1>2
  <1>5. /\ \A i \in 1 .. n + 1 : i <= k \/ i = k + 1 \/ (i > k + 1 /\ i - 1 \in 1 .. n)
        /\ \A i \in 1 .. k : i \in 1 .. n
    BY <1>0
  <1>6. \A i, j \in 1 .. n + 1 : i <= j => s[i].at <= s[j].at
    <2> SUFFICES ASSUME NEW i \in 1 .. n + 1, NEW j \in 1 .. n + 1, i <= j PROVE s[i].at <= s[j].at
      OBVIOUS
    <2>1. CASE j <= k
      BY <1>0, <1>1, <2>1
    <2>2. CASE j = k + 1
      BY <1>0, <1>1, <2>2
    <2>3. CASE j > k + 1
      <3>1. s[j] = log[j - 1] /\ j - 1 \in 1 .. n /\ ~ (j - 1 <= k)
        BY <1>0, <1>1, <2>3
      <3>2. log[j - 1].at > r.at
        BY <1>0, <3>1
      <3>3. CASE i <= k
        BY <1>0, <1>1, <3>1, <3>3
      <3>4. CASE i = k + 1
        BY <1>0, <1>1, <3>1, <3>2, <3>4
      <3>5. CASE i > k + 1
        <4>1. s[i] = log[i - 1] /\ i - 1 \in 1 .. n /\ i - 1 <= j - 1
          BY <1>0, <1>1, <3>5
        <4> QED
          BY <1>0, <3>1, <4>1
      <3> QED
        BY <1>0, <3>3, <3>4, <3>5
    <2> QED
      BY <1>0, <2>1, <2>2, <2>3
  <1>7. \A i, j \in 1 .. n + 1 : s[i].id = s[j].id => i = j
    <2> SUFFICES ASSUME NEW i \in 1 .. n + 1, NEW j \in 1 .. n + 1, i # j PROVE s[i].id # s[j].id
      OBVIOUS
    <2>1. /\ i = k + 1 => s[i] = r
          /\ i # k + 1 => s[i] = log[orig(i)] /\ orig(i) \in 1 .. n
          /\ j = k + 1 => s[j] = r
          /\ j # k + 1 => s[j] = log[orig(j)] /\ orig(j) \in 1 .. n
      BY <1>0, <1>1
    <2>2. i # k + 1 /\ j # k + 1 => orig(i) # orig(j)
      BY <1>0
    <2> HIDE DEF orig
    <2> QED
      BY <1>0, <2>1, <2>2
  <1>8. \A x \in {log[i] : i \in 1 .. n} \cup {r} : \E j \in 1 .. n + 1 : s[j] = x
    <2>1. k + 1 \in 1 .. n + 1 /\ s[k + 1] = r
      BY <1>0, <1>1
    <2>2. ASSUME NEW i \in 1 .. n PROVE \E j \in 1 .. n + 1 : s[j] = log[i]
      <3>1. CASE i <= k
        BY <1>0, <1>1, <3>1
      <3>2. CASE i > k
        <4>1. i + 1 \in 1 .. n + 1 /\ s[i + 1] = log[i]
          BY <1>0, <1>1, <3>2
        <4> QED
          BY <4>1
      <3> QED
        BY <1>0, <3>1, <3>2
    <2> QED
      BY <2>1, <2>2
  <1>9. \A j \in 1 .. n + 1 : s[j] = r \/ \E i \in 1 .. n : s[j] = log[i]
    BY <1>0, <1>1, <1>5
  <1>10. \A j \in DOMAIN log' : log'[j] = s[j + d] /\ j + d \in 1 .. n + 1
    <2>1. \A j \in 1 .. n + 1 - d : j + d \in 1 .. n + 1
      BY <1>0, <1>4
    <2>2. DOMAIN log' = 1 .. n + 1 - d
      BY <1>2, <1>3
    <2> QED
      BY <1>2, <2>1, <2>2
  <1>11. \A i, j \in DOMAIN log' : /\ log'[i].id = log'[j].id => i = j
                                   /\ i <= j => log'[i].at <= log'[j].at
    <2> SUFFICES ASSUME NEW i \in DOMAIN log', NEW j \in DOMAIN log'
                 PROVE  /\ log'[i].id = log'[j].id => i = j
                        /\ i <= j => log'[i].at <= log'[j].at
      OBVIOUS
    <2>1. /\ i + d \in 1 .. n + 1 /\ log'[i] = s[i + d]
          /\ j + d \in 1 .. n + 1 /\ log'[j] = s[j + d]
          /\ (i + d = j + d => i = j) /\ (i <= j => i + d <= j + d)
      BY <1>3, <1>4, <1>10
    <2> QED
      BY <1>6, <1>7, <2>1
  <1>12. ASSUME NEW x \in {log[i] : i \in 1 .. n} \cup {r}
         PROVE  \/ \E j \in DOMAIN log' : log'[j] = x
                \/ Len(log') = MaxExecutions /\ \A j \in DOMAIN log' : log'[j].at >= x.at
    <2>1. PICK j \in 1 .. n + 1 : s[j] = x
      BY <1>8
    <2>2. x.at \in Nat
      BY <1>0
    <2>3. CASE j > d
      <3>1. j - d \in DOMAIN log' /\ (j - d) + d = j
        BY <1>0, <1>2, <1>3, <1>4, <2>3
      <3> QED
        BY <1>10, <2>1, <3>1
    <2>4. CASE j <= d
      <3>1. j = 1 /\ d = 1 /\ Len(log') = MaxExecutions
        BY <1>0, <1>2, <1>4, <2>4
      <3>2. ASSUME NEW i \in DOMAIN log' PROVE log'[i].at >= x.at
        <4>1. log'[i] = s[i + d] /\ i + d \in 1 .. n + 1 /\ j <= i + d
          BY <1>3, <1>10, <3>1
        <4>2. s[j].at <= s[i + d].at
          BY <1>6, <4>1
        <4>3. s[i + d].at \in Nat
          BY <1>0, <1>9, <4>1
        <4> QED
          BY <2>1, <2>2, <4>1, <4>2, <4>3
      <3> QED
        BY <3>1, <3>2
    <2> QED
      BY <1>0, <1>4, <2>3, <2>4
  <1>13. ASSUME NEW t \in Nat, n = MaxExecutions, \A i \in 1 .. n : log[i].at >= t
         PROVE  Len(log') = MaxExecutions /\ \A j \in DOMAIN log' : log'[j].at >= t
    <2>1. d = 1 /\ Len(log') = MaxExecutions
      BY <1>0, <1>2, <1>4, <1>13
    <2>2. ASSUME NEW j \in DOMAIN log' PROVE log'[j].at >= t
      <3>1. log'[j] = s[j + 1] /\ j + 1 \in 1 .. n + 1 /\ j >= 1
        BY <1>3, <1>10, <2>1
      <3>2. CASE s[j + 1] = r
        <4>1. j + 1 = k + 1
          <5>1. k + 1 \in 1 .. n + 1 /\ s[k + 1] = r
            BY <1>0, <1>1
          <5> QED
            BY <1>7, <3>1, <3>2, <5>1
        <4>2. 1 \in 1 .. n /\ 1 <= k
          <5>1. j \in Nat /\ k \in Nat /\ k <= n
            BY <1>0, <1>3
          <5>2. j = k /\ 1 <= k
            BY <3>1, <4>1, <5>1
          <5> QED
            BY <1>0, <5>1, <5>2
        <4>3. log[1].at <= r.at /\ log[1].at >= t /\ log[1].at \in Nat
          BY <1>0, <1>13, <4>2
        <4> QED
          BY <1>0, <3>1, <3>2, <4>3
      <3>3. CASE \E i \in 1 .. n : s[j + 1] = log[i]
        BY <1>13, <3>1, <3>3
      <3> QED
        BY <1>9, <3>1, <3>2, <3>3
    <2> QED
      BY <2>1, <2>2
  <1>14. \A j \in DOMAIN log' : log'[j] = r \/ \E i \in DOMAIN log : log'[j] = log[i]
    BY <1>0, <1>9, <1>10
  <1>15. {log[i] : i \in DOMAIN log} = {log[i] : i \in 1 .. n}
    BY <1>0
  <1> QED
    BY <1>0, <1>2, <1>3, <1>4, <1>11, <1>12, <1>13, <1>14, <1>15 DEF n

\* A record that replaces the one of its id.
LEMMA ReplacedRecord ==
    ASSUME LogTypeOK, Ordered, NEW r \in Record, r.id \in Ids,
           \A i \in DOMAIN log : log[i].id = r.id => log[i].at = r.at,
           log' = [i \in DOMAIN log |-> IF log[i].id = r.id THEN r ELSE log[i]]
    PROVE  /\ log' \in Seq(Record) /\ Len(log') = Len(log) /\ DOMAIN log' = DOMAIN log
           /\ \A i \in DOMAIN log : log'[i].id = log[i].id /\ log'[i].at = log[i].at
           /\ \A i \in DOMAIN log : log[i].id = r.id => log'[i] = r
           /\ \A i \in DOMAIN log : log[i].id # r.id => log'[i] = log[i]
  <1>1. /\ Len(log) \in Nat /\ DOMAIN log = 1 .. Len(log)
        /\ \A i \in DOMAIN log : log[i] \in Record
    BY LogTyped
  <1>2. /\ log' \in [1 .. Len(log) -> Record] /\ DOMAIN log' = DOMAIN log
        /\ \A i \in DOMAIN log : log'[i] = IF log[i].id = r.id THEN r ELSE log[i]
    BY <1>1
  <1>3. log' \in Seq(Record)
    BY <1>1, <1>2, SeqDef
  <1>4. Len(log') = Len(log)
    BY <1>1, <1>2, <1>3, LenProperties
  <1> QED
    BY <1>2, <1>3, <1>4

\* What a save leaves in the log: the record that is saved and records of others, in
\* order; and what was kept in the log, or evicted by records that are not older, still
\* is, as is the execution whose record is saved.
LEMMA SaveKeeps ==
    ASSUME LogTypeOK, Ordered, NEW e \in Exec, NEW st \in Status, at' = at,
           log' = Saved([id |-> e, at |-> at[e], status |-> st])
    PROVE  /\ log' \in Seq(Record) /\ Len(log') <= MaxExecutions
           /\ \A i, j \in DOMAIN log' : log'[i].id = log'[j].id => i = j
           /\ Ordered'
           /\ \A j \in DOMAIN log' :
                 \/ log'[j].id = e /\ log'[j].status = st
                 \/ log'[j].id # e /\ \E i \in DOMAIN log : log'[j] = log[i]
           /\ \A f \in Exec : Kept(f) \/ f = e => Kept(f)'
  <1> DEFINE r == [id |-> e, at |-> at[e], status |-> st]
  <1>0. /\ r \in Record /\ r.id = e /\ r.at = at[e] /\ r.status = st
        /\ \A f \in Exec : at[f] \in Nat
    BY DEF LogTypeOK, Record
  <1>1. log' = Saved(r)
    OBVIOUS
  <1> HIDE DEF r
  <1>2. CASE r.id \in Ids
    <2>1. log' = [i \in DOMAIN log |-> IF log[i].id = r.id THEN r ELSE log[i]]
      BY <1>1, <1>2 DEF Saved
    <2>2. \A i \in DOMAIN log : log[i].id = r.id => log[i].at = r.at
      BY <1>0 DEF Ordered
    <2>3. /\ log' \in Seq(Record) /\ Len(log') = Len(log) /\ DOMAIN log' = DOMAIN log
          /\ \A i \in DOMAIN log : log'[i].id = log[i].id /\ log'[i].at = log[i].at
          /\ \A i \in DOMAIN log : log[i].id = r.id => log'[i] = r
          /\ \A i \in DOMAIN log : log[i].id # r.id => log'[i] = log[i]
      BY <1>0, <1>2, <2>1, <2>2, ReplacedRecord
    <2>4. Ordered'
      BY <2>3 DEF Ordered
    <2>5. Ids' = Ids
      BY <2>3 DEF Ids
    <2>6. \A f \in Exec : Kept(f) \/ f = e => Kept(f)'
      BY <1>0, <1>2, <2>3, <2>5 DEF Kept
    <2>7. \A j \in DOMAIN log' :
             \/ log'[j].id = e /\ log'[j].status = st
             \/ log'[j].id # e /\ \E i \in DOMAIN log : log'[j] = log[i]
      BY <1>0, <2>3
    <2>8. Len(log') <= MaxExecutions /\ \A i, j \in DOMAIN log' : log'[i].id = log'[j].id => i = j
      BY <2>3 DEF LogTypeOK
    <2> QED
      BY <2>3, <2>4, <2>6, <2>7, <2>8
  <1>3. CASE r.id \notin Ids
    <2>1. log' = Bounded(SortedIn(r))
      BY <1>1, <1>3 DEF Saved
    <2>2. /\ log' \in Seq(Record) /\ Len(log') <= MaxExecutions
          /\ \A i, j \in DOMAIN log' : log'[i].id = log'[j].id => i = j
          /\ \A i, j \in DOMAIN log' : i <= j => log'[i].at <= log'[j].at
          /\ \A j \in DOMAIN log' : log'[j] = r \/ \E i \in DOMAIN log : log'[j] = log[i]
          /\ \A x \in {log[i] : i \in DOMAIN log} \cup {r} :
                 \/ \E j \in DOMAIN log' : log'[j] = x
                 \/ Len(log') = MaxExecutions /\ \A j \in DOMAIN log' : log'[j].at >= x.at
          /\ \A t \in Nat :
                 Len(log) = MaxExecutions /\ (\A i \in DOMAIN log : log[i].at >= t) =>
                    Len(log') = MaxExecutions /\ \A j \in DOMAIN log' : log'[j].at >= t
      BY <1>0, <1>3, <2>1, NewRecord
    <2>3. \A i \in DOMAIN log : log[i].id # e
      BY <1>0, <1>3 DEF Ids
    <2>4. \A j \in DOMAIN log' :
             \/ log'[j].id = e /\ log'[j].status = st
             \/ log'[j].id # e /\ \E i \in DOMAIN log : log'[j] = log[i]
      BY <1>0, <2>2, <2>3
    <2>5. \A j \in DOMAIN log' : log'[j].id \in Exec => log'[j].at = at'[log'[j].id]
      BY <1>0, <2>2 DEF Ordered
    <2>6. Ordered'
      BY <2>2, <2>5 DEF Ordered
    <2>7. ASSUME NEW f \in Exec, Kept(f) \/ f = e PROVE Kept(f)'
      <3>1. ASSUME NEW x \in {log[i] : i \in DOMAIN log} \cup {r}, x.id = f, x.at = at[f]
            PROVE  Kept(f)'
        <4>1. CASE \E j \in DOMAIN log' : log'[j] = x
          BY <3>1, <4>1 DEF Kept, Ids
        <4>2. CASE Len(log') = MaxExecutions /\ \A j \in DOMAIN log' : log'[j].at >= x.at
          BY <3>1, <4>2 DEF Kept
        <4> QED
          BY <2>2, <4>1, <4>2
      <3>2. CASE f = e
        BY <1>0, <3>1, <3>2
      <3>3. CASE f \in Ids
        <4>1. PICK i \in DOMAIN log : log[i].id = f
          BY <3>3 DEF Ids
        <4>2. log[i].at = at[f]
          BY <4>1 DEF Ordered
        <4> QED
          BY <3>1, <4>1, <4>2
      <3>4. CASE Len(log) = MaxExecutions /\ \A i \in DOMAIN log : log[i].at >= at[f]
        <4>1. Len(log') = MaxExecutions /\ \A j \in DOMAIN log' : log'[j].at >= at[f]
          BY <1>0, <2>2, <3>4
        <4> QED
          BY <4>1 DEF Kept
      <3> QED
        BY <2>7, <3>2, <3>3, <3>4 DEF Kept
    <2> QED
      BY <2>2, <2>4, <2>6, <2>7
  <1> QED
    BY <1>2, <1>3

-----------------------------------------------------------------------------
(* Steps that do not touch the log.                                        *)

\* A call keeps its place in the log while it works.
Stays(e) == phase'[e] = phase[e] \/ (phase[e] \in Working /\ phase'[e] \in Working)

LEMMA FlightStays ==
    ASSUME \A e \in Exec : Stays(e)
    PROVE  InFlight' = InFlight
  BY DEF Stays, InFlight, Working

LEMMA LogUntouched ==
    ASSUME LogTells, UNCHANGED <<logVars, hosted, traced, span>>, \A e \in Exec : Stays(e),
           \A e \in ran' \ ran : phase[e] \in Working
    PROVE  LogTells'
  <1>0. UNCHANGED <<layout, log, loading, at>>
    BY DEF logVars
  <1>1. LogTypeOK' /\ Ordered' /\ Ids' = Ids /\ \A e \in Exec : Kept(e)' <=> Kept(e)
    BY <1>0 DEF LogTells, LogTypeOK, Ordered, Ids, Kept
  <1>2. ASSUME NEW e \in Exec PROVE InLog(e)'
    BY <1>0, <1>1 DEF LogTells, InLog, Stays, Working
  <1>3. ASSUME NEW i \in DOMAIN log' PROVE Says(log[i])'
    <2>1. i \in DOMAIN log /\ Says(log[i]) /\ log'[i] = log[i] /\ InFlight' = InFlight
      BY <1>0, FlightStays DEF LogTells
    <2>2. log[i].id \in InFlight => log[i].id \in Exec
      BY DEF InFlight
    <2>3. log[i].id \in Exec /\ phase[log[i].id] = "answered" => phase'[log[i].id] = "answered"
      BY DEF Stays, Working
    <2> QED
      BY <1>0, <2>1, <2>2, <2>3 DEF Says
  <1> QED
    BY <1>1, <1>2, <1>3 DEF LogTells

\* From one await of the work to the next.
WorkStep(e) == \/ Invoke(e) \/ FetchFails(e) \/ BodyFails(e) \/ BodyRefuses(e)
               \/ HeadersArrive(e) \/ BodyAccepted(e) \/ Step(e)

LEMMA WorkMoves ==
    ASSUME IInv, CallTypes, NEW e \in Exec, WorkStep(e)
    PROVE  /\ UNCHANGED <<logVars, hosted, traced, args, span, version, live, applied>>
           /\ phase[e] \in Working
           /\ \E p \in Working : phase' = [phase EXCEPT ![e] = p]
           /\ page' \in [Exec -> 0 .. MaxPage + 1] /\ progress' \in [Exec -> 0 .. Total]
           /\ ran' \subseteq ran \cup {e}
  <1>0. MaxPage \in Nat /\ Typed /\ CallInv(e)
    BY ToolCallsAssumption DEF IInv
  <1>1. ASSUME NEW code, Ends(e, code)
        PROVE  /\ \E p \in Working : phase' = [phase EXCEPT ![e] = p]
               /\ page' \in [Exec -> 0 .. MaxPage + 1] /\ progress' \in [Exec -> 0 .. Total]
    BY <1>0, <1>1 DEF Ends, Working, CallTypes, Total
  <1>2. ASSUME NEW p \in Working,
               phase' = [phase EXCEPT ![e] = p] \/ (phase' = phase /\ phase[e] \in Working)
        PROVE  \E q \in Working : phase' = [phase EXCEPT ![e] = q]
    BY <1>0, <1>2 DEF Typed
  <1>3. CASE Invoke(e)
    BY <1>1, <1>3 DEF Invoke, MayRun, Working, CallTypes
  <1>4. CASE FetchFails(e)
    BY <1>1, <1>4 DEF FetchFails, Working
  <1>5. CASE BodyFails(e) \/ BodyRefuses(e)
    BY <1>1, <1>5 DEF BodyFails, BodyRefuses, Working
  <1>6. CASE HeadersArrive(e)
    BY <1>6 DEF HeadersArrive, Working, CallTypes
  <1>7. CASE BodyAccepted(e)
    <2>1. wire[e].size \in 0 .. MaxPage
      BY <1>0, <1>7 DEF BodyAccepted, CallInv, Reports, Typed, Reply
    <2>2. [page EXCEPT ![e] = wire[e].size] \in [Exec -> 0 .. MaxPage + 1]
      BY <1>0, <2>1 DEF CallTypes
    <2>3. \/ page' = page /\ progress' = progress /\ phase' = [phase EXCEPT ![e] = "reporting"]
          \/ /\ page' = [page EXCEPT ![e] = wire[e].size] /\ progress' = progress
             /\ phase' = [phase EXCEPT ![e] = "waiting"]
          \/ \E code : Ends(e, code)
      BY <1>7 DEF BodyAccepted, TooLarge
    <2>4. /\ UNCHANGED <<logVars, hosted, traced, args, span, ran, version, live, applied>>
          /\ phase[e] = "reading"
      BY <1>7 DEF BodyAccepted
    <2> QED
      BY <1>1, <2>2, <2>3, <2>4 DEF Working, CallTypes
  <1>8. CASE Step(e)
    <2>1. \/ /\ progress[e] + 1 < Total /\ progress' = [progress EXCEPT ![e] = @ + 1]
             /\ phase' = phase /\ page' = page
          \/ \E code : Ends(e, code)
      BY <1>8 DEF Step
    <2>2. progress[e] + 1 < Total => [progress EXCEPT ![e] = @ + 1] \in [Exec -> 0 .. Total]
      BY DEF CallTypes, Total
    <2>3. /\ UNCHANGED <<logVars, hosted, traced, args, span, ran, version, live, applied>>
          /\ phase[e] = "reporting" /\ "reporting" \in Working
      BY <1>8 DEF Step, Working
    <2> QED
      BY <1>1, <1>2, <2>1, <2>2, <2>3 DEF CallTypes
  <1> QED
    BY <1>3, <1>4, <1>5, <1>6, <1>7, <1>8 DEF WorkStep

LEMMA WorkKeeps ==
    ASSUME IInv, LogInv, NEW e \in Exec, WorkStep(e)
    PROVE  LogInv'
  <1>1. /\ UNCHANGED <<logVars, hosted, traced, args, span, version, live, applied>>
        /\ phase[e] \in Working
        /\ \E p \in Working : phase' = [phase EXCEPT ![e] = p]
        /\ page' \in [Exec -> 0 .. MaxPage + 1] /\ progress' \in [Exec -> 0 .. Total]
        /\ ran' \subseteq ran \cup {e}
    BY WorkMoves DEF LogInv
  <1>2. \A x \in Exec : Stays(x) /\ (phase'[x] # "idle" => phase[x] # "idle")
    BY <1>1 DEF Stays, Working, IInv, Typed
  <1>3. LogTells'
    BY <1>1, <1>2, LogUntouched DEF LogInv
  <1>4. CallTypes'
    BY <1>1, <1>2 DEF LogInv, CallTypes
  <1> QED
    BY <1>3, <1>4 DEF LogInv

LEMMA Counts ==
    ASSUME NEW S \in SUBSET Exec
    PROVE  IsFiniteSet(S) /\ Cardinality(S) \in Nat /\ Cardinality(S) <= Cardinality(Exec)
  BY LogAssumption, FS_Subset, FS_CardinalityType

LEMMA ArgsGrow ==
    ASSUME NEW n \in Nat, NEW m \in Nat, n <= m
    PROVE  Args(1 .. n) \subseteq Args(1 .. m)
  BY DEF Args

LEMMA CollectorKeeps ==
    ASSUME IInv, LogInv, NEW e \in Exec, Collector(e)
    PROVE  LogInv'
  <1>0. UNCHANGED <<logVars, hosted, traced, callVars>> /\ wire[e] = Sent
    BY DEF Collector, CollectorApplies, CollectorRefuses
  <1>1. UNCHANGED <<hosted, traced, phase, args, page, progress, span, ran>>
    BY <1>0 DEF callVars
  <1>2. LogTells'
    BY <1>0, <1>1, LogUntouched DEF LogInv, Stays
  <1>3. applied \in SUBSET Exec /\ e \notin applied /\ version \in Nat
    BY <1>0 DEF IInv, CallInv, Applied, Typed
  <1>4. /\ IsFiniteSet(applied) /\ Cardinality(applied) \in Nat
        /\ Cardinality(applied \cup {e}) = Cardinality(applied) + 1
    BY <1>3, Counts, FS_AddElement
  <1>5. /\ version' \in 1 .. Cardinality(applied') + 1 /\ version <= version'
        /\ live' \in BOOLEAN
    <2>1. CASE UNCHANGED <<version, live, applied>>
      BY <1>3, <2>1 DEF LogInv, CallTypes
    <2>2. CASE UNCHANGED <<version, live>> /\ applied' = applied \cup {e}
      BY <1>3, <1>4, <2>2 DEF LogInv, CallTypes
    <2>3. CASE /\ version' = version + 1 /\ live' = (Op(e) = "update")
               /\ applied' = applied \cup {e}
      BY <1>3, <1>4, <2>3 DEF LogInv, CallTypes
    <2> QED
      BY <2>1, <2>2, <2>3 DEF Collector, CollectorApplies, CollectorRefuses
  <1>6. Args(1 .. version) \subseteq Args(1 .. version')
    BY <1>3, <1>5, ArgsGrow
  <1>7. CallTypes'
    BY <1>1, <1>5, <1>6 DEF LogInv, CallTypes
  <1> QED
    BY <1>2, <1>7 DEF LogInv

LEMMA CancelKeeps ==
    ASSUME IInv, LogInv, NEW e \in Exec, Cancel(e)
    PROVE  LogInv'
  <1>1. UNCHANGED <<logVars, hosted, traced, phase, args, page, progress, span, ran, version, live,
                    applied>>
    BY DEF Cancel, collectorVars
  <1> QED
    BY <1>1, LogUntouched DEF LogInv, Stays, CallTypes

-----------------------------------------------------------------------------
(* Steps that do.                                                          *)

\* What a step of one call leaves of the others, when it leaves the records.
LEMMA OneCallMoves ==
    ASSUME LogTells, NEW e \in Exec, UNCHANGED <<layout, log, hosted, traced, ran>>,
           loading = "ready" <=> loading' = "ready", loading # "none" => loading' # "none",
           at' \in [Exec -> Nat], e \in Ids => at'[e] = at[e],
           \A f \in Exec \ {e} : at'[f] = at[f] /\ phase'[f] = phase[f] /\ span'[f] = span[f],
           InLog(e)', loading' \in {"none", "opening", "migrating", "closing", "ready", "failed"},
           \A i \in DOMAIN log : log[i].id = e => Says(log[i])'
    PROVE  LogTells'
  <1>1. Ids' = Ids /\ \A i \in DOMAIN log : log[i].id \in Ids
    BY DEF Ids
  <1>2. LogTypeOK' /\ Ordered' /\ \A f \in Exec \ {e} : Kept(f)' <=> Kept(f)
    BY <1>1 DEF LogTells, LogTypeOK, Ordered, Kept
  <1>3. ASSUME NEW f \in Exec, f # e PROVE InLog(f)'
    BY <1>1, <1>2, <1>3 DEF LogTells, InLog
  <1>4. ASSUME NEW i \in DOMAIN log, log[i].id # e PROVE Says(log[i])'
    <2>1. log[i].id \in InFlight' <=> log[i].id \in InFlight
      BY <1>4 DEF InFlight
    <2> QED
      BY <1>4, <2>1 DEF LogTells, Says
  <1> QED
    BY <1>2, <1>3, <1>4 DEF LogTells

LEMMA ExecuteTells ==
    ASSUME IInv, LogInv, NEW e \in Exec, NEW a \in Args(1 .. version), Execute(e, a)
    PROVE  LogInv'
  <1>0. /\ phase[e] = "idle" /\ args' = [args EXCEPT ![e] = a]
        /\ UNCHANGED <<layout, log, hosted, traced, page, progress, ran, version, live, applied>>
        /\ e \notin Ids /\ e \notin ran /\ span[e] \in {"none", "open"}
    BY DEF Execute, collectorVars, logVars, LogInv, LogTells, InLog, IInv, CallInv, NotBegun
  <1>1. a # None /\ a \in Args(1 .. version)
    BY NoneAssumption DEF Args, LogInv, CallTypes
  <1>2. CallTypes'
    <2>1. span' \in [Exec -> {"none", "open", "ok", "tool_error", "evidence_persistence_failed"}]
      BY DEF Execute, StartSpan, LogInv, CallTypes
    <2>2. \A f \in Exec \ {e} : phase'[f] = phase[f]
      BY DEF Execute, IInv, Typed
    <2>3. \A f \in Exec : args'[f] = IF f = e THEN a ELSE args[f]
      BY <1>0 DEF IInv, Typed
    <2> QED
      BY <1>0, <1>1, <2>1, <2>2, <2>3 DEF LogInv, CallTypes
  <1>3. \A i \in DOMAIN log : log[i].id = e => FALSE
    BY <1>0 DEF Ids
  <1>4. Ids' = Ids
    BY <1>0 DEF Ids
  <1>5. CASE Challenged(hosted, a.tool, a.scopes)
    <2>1. phase' = [phase EXCEPT ![e] = "answered"] /\ UNCHANGED <<loading, at, span>>
      BY <1>5 DEF Execute, logVars
    <2>2. InLog(e)'
      BY <1>0, <1>4, <2>1 DEF InLog, IInv, Typed, Working
    <2> QED
      BY <1>0, <1>2, <1>3, <2>1, <2>2, OneCallMoves DEF LogInv, LogTells, LogTypeOK, IInv, Typed
  <1>6. CASE ~ Challenged(hosted, a.tool, a.scopes)
    <2>1. /\ phase' = [phase EXCEPT ![e] = IF hosted THEN "starting" ELSE "saving"]
          /\ span' = [span EXCEPT ![e] = IF traced THEN "open" ELSE "none"]
      BY <1>6 DEF Execute, StartSpan
    <2>2. IF hosted THEN UNCHANGED <<loading, at>>
          ELSE /\ loading' = (IF loading = "none" THEN "opening" ELSE loading)
               /\ \E t \in Clock : at' = [at EXCEPT ![e] = t]
      BY <1>6 DEF Execute, Initialize
    <2>3. Clock \subseteq Nat
      BY Counts DEF Clock
    <2>4. /\ at' \in [Exec -> Nat] /\ \A f \in Exec \ {e} : at'[f] = at[f]
          /\ loading' \in {"none", "opening", "migrating", "closing", "ready", "failed"}
          /\ loading = "ready" <=> loading' = "ready"
          /\ loading # "none" => loading' # "none"
      BY <2>2, <2>3 DEF LogInv, LogTells, LogTypeOK
    <2>5. InLog(e)'
      BY <1>0, <1>4, <2>1, <2>2 DEF InLog, IInv, Typed, Working, LogInv, CallTypes
    <2>6. \A f \in Exec \ {e} : phase'[f] = phase[f] /\ span'[f] = span[f]
      BY <2>1 DEF IInv, Typed, LogInv, CallTypes
    <2>7. LogTells'
      BY <1>0, <1>3, <2>4, <2>5, <2>6, OneCallMoves DEF LogInv
    <2> QED
      BY <1>2, <2>7 DEF LogInv
  <1> QED
    BY <1>5, <1>6

\* What the process does about the records it finds: none of them is of a call at work.
LEMMA CloseTells ==
    ASSUME Typed, LogTells, CloseInterrupted, UNCHANGED <<hosted, traced, phase, span, ran>>
    PROVE  LogTells'
  <1>0. /\ loading = "closing" /\ loading' = "ready" /\ UNCHANGED <<layout, at>>
        /\ log' = [i \in DOMAIN log |-> Closed(log[i])]
    BY DEF CloseInterrupted
  <1>1. /\ Len(log) \in Nat /\ DOMAIN log = 1 .. Len(log)
        /\ \A i \in DOMAIN log : log[i] \in Record
    BY LogTyped DEF LogTells
  <1>2. \A r \in Record : /\ Closed(r) \in Record /\ Closed(r).id = r.id /\ Closed(r).at = r.at
                          /\ Closed(r).status # "running"
                          /\ r.status # "running" => Closed(r) = r
    BY DEF Record, Closed, Status
  <1> HIDE DEF Closed
  <1>3. /\ log' \in [1 .. Len(log) -> Record] /\ DOMAIN log' = DOMAIN log
        /\ \A i \in DOMAIN log : /\ log'[i].id = log[i].id /\ log'[i].at = log[i].at
                                 /\ log'[i].status # "running"
                                 /\ log[i].status # "running" => log'[i] = log[i]
    BY <1>0, <1>1, <1>2
  <1>4. log' \in Seq(Record)
    BY <1>1, <1>3, SeqDef
  <1>5. Len(log') = Len(log)
    BY <1>1, <1>3, <1>4, LenProperties
  <1>6. LogTypeOK'
    BY <1>0, <1>3, <1>4, <1>5 DEF LogTells, LogTypeOK
  <1>7. Ordered' /\ Ids' = Ids
    BY <1>0, <1>3 DEF LogTells, Ordered, Ids
  <1>8. \A e \in Exec : Kept(e)' <=> Kept(e)
    BY <1>0, <1>3, <1>5, <1>7 DEF Kept
  <1>9. \A e \in Exec : InLog(e)'
    BY <1>0, <1>7, <1>8 DEF LogTells, InLog
  <1>10. \A e \in InFlight : e \notin Ids
    BY <1>0 DEF Typed, LogTells, LogTypeOK, InLog, InFlight, Working
  <1>11. ASSUME NEW i \in DOMAIN log PROVE Says(log[i])'
    <2>1. log[i].id \in Ids /\ InFlight' = InFlight
      BY DEF Ids, InFlight
    <2>2. log[i].status = "succeeded" \/ log[i].status = "failed" => log'[i] = log[i]
      BY <1>3
    <2> QED
      BY <1>3, <1>10, <2>1, <2>2 DEF LogTells, Says
  <1> QED
    BY <1>3, <1>6, <1>7, <1>9, <1>11 DEF LogTells

LEMMA InitializeTells ==
    ASSUME IInv, LogInv, InitializeLog
    PROVE  LogInv'
  <1>0. UNCHANGED <<hosted, traced, phase, args, page, progress, span, ran, version, live, applied>>
    BY DEF InitializeLog, callVars, collectorVars
  <1>1. CallTypes'
    BY <1>0 DEF LogInv, CallTypes
  <1>2. CASE CloseInterrupted
    BY <1>0, <1>1, <1>2, CloseTells DEF LogInv, IInv
  <1>3. CASE ArchiveUnreadable \/ OpenLog \/ MigrateLog \/ InitializeFails
    <2>1. /\ UNCHANGED <<log, at>> /\ layout' \in {"absent", "unreadable", "legacy", "current"}
          /\ loading \in {"opening", "migrating", "closing"}
          /\ loading' \in {"opening", "migrating", "closing", "failed"}
      BY <1>3 DEF ArchiveUnreadable, OpenLog, MigrateLog, InitializeFails, LogInv, LogTells,
         LogTypeOK
    <2>2. LogTypeOK' /\ Ordered' /\ Ids' = Ids /\ \A e \in Exec : Kept(e)' <=> Kept(e)
      BY <2>1 DEF LogInv, LogTells, LogTypeOK, Ordered, Ids, Kept
    <2>3. \A e \in Exec : InLog(e)'
      BY <1>0, <2>1, <2>2 DEF LogInv, LogTells, InLog
    <2>4. InFlight' = InFlight
      BY <1>0 DEF InFlight
    <2>5. \A i \in DOMAIN log' : Says(log[i])'
      BY <1>0, <2>1, <2>4 DEF LogInv, LogTells, Says
    <2> QED
      BY <1>1, <2>2, <2>3, <2>5 DEF LogInv, LogTells
  <1> QED
    BY <1>2, <1>3 DEF InitializeLog, InitializeCore

\* A step of one call that saves its record.
LEMMA OneCallSaves ==
    ASSUME LogTells, NEW e \in Exec, NEW st \in Status, SaveSucceeds(e, st),
           UNCHANGED <<hosted, traced, ran>>, ~ hosted, phase'[e] \notin {"idle", "saving"},
           \A f \in Exec \ {e} : phase'[f] = phase[f] /\ span'[f] = span[f],
           phase'[e] \in Working => span'[e] \in {"none", "open"},
           e \in InFlight' => st = "running",
           st = "running" => e \in InFlight',
           span'[e] = "ok" => st = "succeeded", span'[e] = "tool_error" => st = "failed"
    PROVE  LogTells'
  <1>0. /\ loading = "ready" /\ UNCHANGED <<layout, loading, at>>
        /\ log' = Saved([id |-> e, at |-> at[e], status |-> st])
    BY DEF SaveSucceeds, Initialized
  <1>1. /\ log' \in Seq(Record) /\ Len(log') <= MaxExecutions
        /\ \A i, j \in DOMAIN log' : log'[i].id = log'[j].id => i = j
        /\ Ordered'
        /\ \A j \in DOMAIN log' :
              \/ log'[j].id = e /\ log'[j].status = st
              \/ log'[j].id # e /\ \E i \in DOMAIN log : log'[j] = log[i]
        /\ \A f \in Exec : Kept(f) \/ f = e => Kept(f)'
    BY <1>0, SaveKeeps DEF LogTells
  <1>2. LogTypeOK'
    BY <1>0, <1>1 DEF LogTells, LogTypeOK
  <1>3. \A f \in Exec \ {e} : f \in Ids' => f \in Ids
    BY <1>1 DEF Ids
  <1>4. ASSUME NEW f \in Exec, f # e PROVE InLog(f)'
    BY <1>0, <1>1, <1>3, <1>4 DEF LogTells, InLog
  <1>5. InLog(e)'
    BY <1>0, <1>1 DEF InLog
  <1>6. ASSUME NEW j \in DOMAIN log' PROVE Says(log[j])'
    <2>1. CASE log'[j].id = e /\ log'[j].status = st
      BY <1>0, <2>1 DEF Says
    <2>2. CASE log'[j].id # e /\ \E i \in DOMAIN log : log'[j] = log[i]
      <3>1. Says(log'[j])
        BY <2>2 DEF LogTells
      <3>2. log'[j].id \in InFlight' <=> log'[j].id \in InFlight
        BY <2>2 DEF InFlight
      <3> QED
        BY <1>0, <2>2, <3>1, <3>2 DEF Says
    <2> QED
      BY <1>1, <2>1, <2>2
  <1> QED
    BY <1>1, <1>2, <1>4, <1>5, <1>6 DEF LogTells

LEMMA RecordingTells ==
    ASSUME IInv, LogInv, NEW e \in Exec, RunningSaved(e) \/ RunningNotSaved(e)
    PROVE  LogInv'
  <1>0. /\ phase[e] = "saving" /\ ~ hosted /\ e \notin Ids /\ e \notin ran
        /\ span[e] \in {"none", "open"} /\ loading # "none" /\ Typed
        /\ UNCHANGED <<hosted, traced, args, page, progress, ran, version, live, applied>>
    BY DEF RunningSaved, RunningNotSaved, LogInv, LogTells, InLog, IInv, CallInv, NotBegun,
       collectorVars
  <1>1. CASE RunningSaved(e)
    <2>1. /\ SaveSucceeds(e, "running") /\ phase' = [phase EXCEPT ![e] = "starting"] /\ span' = span
      BY <1>1 DEF RunningSaved
    <2>2. /\ phase'[e] = "starting" /\ e \in InFlight'
          /\ \A f \in Exec \ {e} : phase'[f] = phase[f]
      BY <1>0, <2>1 DEF Typed, InFlight
    <2>3. LogTells'
      BY <1>0, <2>1, <2>2, OneCallSaves DEF LogInv, Status
    <2>4. CallTypes'
      BY <1>0, <2>1, <2>2 DEF LogInv, CallTypes
    <2> QED
      BY <2>3, <2>4 DEF LogInv
  <1>2. CASE RunningNotSaved(e)
    <2>1. /\ UNCHANGED <<layout, log, loading, at>>
          /\ phase' = [phase EXCEPT ![e] = "answered"]
          /\ span' = [span EXCEPT ![e] = IF traced THEN "evidence_persistence_failed" ELSE "none"]
      BY <1>2 DEF RunningNotSaved, SaveFails, EndSpan, logVars
    <2>2. /\ phase'[e] = "answered"
          /\ \A f \in Exec \ {e} : phase'[f] = phase[f] /\ span'[f] = span[f]
      BY <1>0, <2>1 DEF Typed, LogInv, CallTypes
    <2>3. Ids' = Ids /\ \A i \in DOMAIN log : log[i].id # e
      BY <1>0, <2>1 DEF Ids
    <2>4. InLog(e)'
      BY <1>0, <2>2, <2>3 DEF InLog, Working
    <2>5. LogTells'
      BY <1>0, <2>1, <2>2, <2>3, <2>4, OneCallMoves DEF LogInv, LogTells, LogTypeOK
    <2>6. CallTypes'
      BY <1>0, <2>1, <2>2 DEF LogInv, CallTypes
    <2> QED
      BY <2>5, <2>6 DEF LogInv
  <1> QED
    BY <1>1, <1>2

LEMMA CompleteTells ==
    ASSUME IInv, LogInv, NEW e \in Exec, NEW recorded \in BOOLEAN, Complete(e, recorded)
    PROVE  LogInv'
  <1> DEFINE how == IF ~ recorded THEN "evidence_persistence_failed"
                    ELSE IF outcome[e] = "ok" THEN "ok" ELSE "tool_error"
  <1>0. /\ phase[e] = "completing" /\ phase' = [phase EXCEPT ![e] = "answered"] /\ Typed
        /\ span' = [span EXCEPT ![e] = IF traced THEN how ELSE "none"]
        /\ UNCHANGED <<hosted, traced, args, page, progress, ran, version, live, applied>>
    BY DEF Complete, EndSpan, collectorVars, IInv
  <1>1. /\ phase'[e] = "answered" /\ span'[e] = IF traced THEN how ELSE "none"
        /\ \A f \in Exec \ {e} : phase'[f] = phase[f] /\ span'[f] = span[f]
        /\ e \in InFlight /\ e \notin InFlight'
    BY <1>0 DEF Typed, LogInv, CallTypes, InFlight
  <1>2. CallTypes'
    BY <1>0, <1>1 DEF LogInv, CallTypes
  <1>3. CASE ~ hosted /\ recorded
    <2>1. SaveSucceeds(e, Terminal(e)) /\ Terminal(e) \in {"succeeded", "failed"}
      BY <1>3 DEF Complete, Terminal
    <2>2. /\ span'[e] = "ok" => Terminal(e) = "succeeded"
          /\ span'[e] = "tool_error" => Terminal(e) = "failed"
      BY <1>1, <1>3 DEF Terminal
    <2> HIDE DEF how
    <2>3. LogTells'
      BY <1>0, <1>1, <1>3, <2>1, <2>2, OneCallSaves DEF LogInv, Status, Working
    <2> QED
      BY <1>2, <2>3 DEF LogInv
  <1>4. CASE hosted \/ ~ recorded
    <2>1. UNCHANGED <<layout, log, loading, at>>
      BY <1>4 DEF Complete, SaveFails, logVars
    <2>2. hosted => recorded
      BY <1>4 DEF Complete
    <2>3. \A i \in DOMAIN log : log[i].id = e => ~ hosted
      BY DEF LogInv, LogTells, InLog, Ids
    <2>4. \A i \in DOMAIN log : log[i].id = e => Says(log[i])'
      BY <1>0, <1>1, <1>4, <2>1, <2>3 DEF LogInv, LogTells, Says
    <2>5. InLog(e)'
      <3>1. Ids' = Ids /\ Kept(e)' = Kept(e)
        BY <2>1 DEF Ids, Kept
      <3> QED
        BY <1>0, <1>1, <2>1, <3>1 DEF LogInv, LogTells, InLog, Working
    <2> HIDE DEF how
    <2>6. LogTells'
      BY <1>0, <1>1, <2>1, <2>4, <2>5, OneCallMoves DEF LogInv, LogTells, LogTypeOK
    <2> QED
      BY <1>2, <2>6 DEF LogInv
  <1> QED
    BY <1>3, <1>4

LEMMA CrashTells == ASSUME IInv, LogInv, Crash PROVE LogInv'
  <1>0. /\ UNCHANGED <<layout, log, at, hosted, traced, args, span, ran, version, live, applied>>
        /\ loading' = "none"
        /\ phase' = [e \in Exec |-> IF e \in InFlight THEN "lost" ELSE phase[e]]
        /\ page' = [e \in Exec |-> MaxPage + 1] /\ progress' = [e \in Exec |-> 0]
        /\ MaxPage \in Nat
    BY ToolCallsAssumption DEF Crash, LogRestart
  <1>1. \A e \in Exec : /\ phase'[e] \in {"idle", "answered", "lost"}
                        /\ phase'[e] = "idle" <=> phase[e] = "idle"
    BY <1>0 DEF InFlight, IInv, Typed
  <1>2. InFlight' = {}
    BY <1>1 DEF InFlight
  <1>3. CallTypes'
    BY <1>0, <1>1 DEF LogInv, CallTypes, Total
  <1>4. LogTypeOK' /\ Ordered' /\ Ids' = Ids /\ \A e \in Exec : Kept(e)' <=> Kept(e)
    BY <1>0 DEF LogInv, LogTells, LogTypeOK, Ordered, Ids, Kept
  <1>5. \A e \in Exec : InLog(e)'
    BY <1>0, <1>1, <1>4 DEF LogInv, LogTells, InLog, Working
  <1>6. \A i \in DOMAIN log' : Says(log[i])'
    BY <1>0, <1>2 DEF LogInv, LogTells, Says
  <1> QED
    BY <1>3, <1>4, <1>5, <1>6 DEF LogInv, LogTells

LEMMA LogInitHolds == ASSUME Init PROVE LogInv
  <1>1. /\ log \in Seq(Record) /\ Len(log) <= MaxExecutions
        /\ \A i, j \in DOMAIN log : log[i].id = log[j].id => i = j
        /\ \A i \in DOMAIN log : log[i].id \in Old /\ log[i].at = 0
    <2>1. CASE log = <<>>
      BY <2>1, LogAssumption
    <2>2. CASE log \in Found
      <3>1. PICK n \in 0 .. MaxExecutions :
               log \in [1 .. n -> [id : Old, at : {0}, status : Status]]
        BY <2>2 DEF Found
      <3>2. n \in Nat /\ n <= MaxExecutions
        BY <3>1, LogAssumption
      <3>3. \A r \in [id : Old, at : {0}, status : Status] :
               r \in Record /\ r.id \in Old /\ r.at = 0
        BY DEF Record
      <3>4. log \in [1 .. n -> Record] /\ DOMAIN log = 1 .. n
        BY <3>1, <3>3
      <3>5. log \in Seq(Record)
        BY <3>2, <3>4, SeqDef
      <3>6. Len(log) = n
        BY <3>2, <3>4, <3>5, LenProperties
      <3> QED
        BY <2>2, <3>1, <3>2, <3>3, <3>4, <3>5, <3>6 DEF Found
    <2> QED
      BY <2>1, <2>2 DEF Init, LogInit
  <1>2. \A i \in DOMAIN log : log[i].id \notin Exec
    BY <1>1, LogAssumption
  <1>3. LogTypeOK /\ Ordered
    BY <1>1, <1>2, LogAssumption DEF Init, LogInit, LogTypeOK, Ordered
  <1>4. \A e \in Exec : InLog(e)
    BY <1>2 DEF Init, InLog, Ids, Working
  <1>5. \A i \in DOMAIN log : Says(log[i])
    BY <1>2 DEF Init, LogInit, Says, InFlight
  <1>6. CallTypes
    <2>1. Cardinality(applied) = 0 /\ traced \in BOOLEAN
      BY FS_EmptySet DEF Init, Exports
    <2> QED
      BY <2>1, ToolCallsAssumption DEF Init, CallTypes, Total
  <1> QED
    BY <1>3, <1>4, <1>5, <1>6 DEF LogInv, LogTells

LEMMA LogNextKeeps == ASSUME IInv, LogInv, [Next]_vars PROVE LogInv'
  <1>1. ASSUME NEW e \in Exec, NEW a \in Args(1 .. version), Execute(e, a) PROVE LogInv'
    BY <1>1, ExecuteTells
  <1>2. CASE InitializeLog
    BY <1>2, InitializeTells
  <1>3. ASSUME NEW e \in Exec, Collector(e) PROVE LogInv'
    BY <1>3, CollectorKeeps
  <1>4. ASSUME NEW e \in Exec, ReplyArrives(e) \/ Settles(e) PROVE LogInv'
    BY <1>4, WorkKeeps, RecordingTells, CompleteTells DEF ReplyArrives, Settles, WorkStep
  <1>5. ASSUME NEW e \in Exec, Cancel(e) PROVE LogInv'
    BY <1>5, CancelKeeps
  <1>6. CASE Crash
    BY <1>6, CrashTells
  <1>7. CASE UNCHANGED vars
    BY <1>7, LogUntouched DEF vars, callVars, collectorVars, LogInv, Stays, CallTypes
  <1> QED
    BY <1>1, <1>2, <1>3, <1>4, <1>5, <1>6, <1>7 DEF Next

-----------------------------------------------------------------------------
(* The theorems.                                                           *)

\* What the log says and the phases of all calls agree, in every state.
THEOREM LogInductive == Spec => [](IInv /\ LogInv)
  <1>1. Init => LogInv
    BY LogInitHolds
  <1>2. IInv /\ LogInv /\ [Next]_vars => LogInv'
    BY LogNextKeeps
  <1> QED
    BY <1>1, <1>2, Inductive, PTL DEF Spec

\* Every variable keeps to its type: among them the length of the log, the order and
\* the number of its records, and the versions the Collector gives out.
THEOREM ToolCallsTyped == Spec => []TypeOK
  <1>1. ASSUME IInv, LogInv PROVE TypeOK
    <2>1. /\ applied \in SUBSET Exec /\ ran \subseteq Exec /\ aborted \subseteq Exec
          /\ hosted \in BOOLEAN
      BY <1>1 DEF IInv, Typed
    <2>2. version \in 1 .. Cardinality(Exec) + 1
      <3>1. Cardinality(Exec) \in Nat
        BY Counts
      <3> QED
        BY <1>1, <2>1, <3>1, Counts DEF LogInv, CallTypes
    <2>3. \A e \in Exec : phase[e] = "saving" => loading # "none"
      BY <1>1 DEF LogInv, LogTells, InLog
    <2> QED
      BY <1>1, <2>1, <2>2, <2>3 DEF IInv, Typed, Outcome, LogInv, LogTells, CallTypes, TypeOK
  <1>2. IInv /\ LogInv => TypeOK
    BY <1>1
  <1> QED
    BY <1>2, LogInductive, PTL

\* What has run is in the log, or was evicted by records that are not older; a running
\* record is of a call at work or of one that could not be completed; a terminal record
\* says what the telemetry says (native-execution.ts).
LEMMA TellsNow ==
    ASSUME IInv, LogInv PROVE RanMeansRecorded /\ RunningMeansInFlight /\ SpanAgrees
  <1>1. RanMeansRecorded
    BY DEF IInv, Typed, LogInv, LogTells, InLog, Kept, RanMeansRecorded
  <1>2. RunningMeansInFlight
    BY DEF LogInv, LogTells, Says, RunningMeansInFlight
  <1>3. SpanAgrees
    BY DEF LogInv, LogTells, Says, SpanAgrees
  <1> QED
    BY <1>1, <1>2, <1>3

LEMMA StatusOfIs ==
    ASSUME LogTypeOK, NEW i \in DOMAIN log
    PROVE  StatusOf(log[i].id) = log[i].status
  <1> DEFINE R == {log[j] : j \in DOMAIN log}
  <1>1. log[i] \in R /\ \A r \in R : r.id = log[i].id => r = log[i]
    BY DEF LogTypeOK
  <1> HIDE DEF R
  <1>2. (CHOOSE r \in R : r.id = log[i].id) = log[i]
    BY <1>1
  <1> QED
    BY <1>2 DEF StatusOf, R

LEMMA FinalStep ==
    ASSUME IInv, LogInv, [Next]_vars, log' # log,
           NEW e \in Ids, StatusOf(e) # "running", NEW j \in DOMAIN log', log'[j].id = e
    PROVE  log'[j].status = StatusOf(e)
  <1>0. LogTypeOK /\ Ordered
    BY DEF LogInv, LogTells
  <1>1. PICK i \in DOMAIN log : log[i].id = e
    BY DEF Ids
  <1>2. StatusOf(e) = log[i].status
    BY <1>0, <1>1, StatusOfIs
  <1>3. \A k \in DOMAIN log : log[k].id = e => k = i
    BY <1>0, <1>1 DEF LogTypeOK
  <1>4. ASSUME NEW x \in Exec, NEW st \in Status, SaveSucceeds(x, st), x # e
        PROVE  log'[j].status = StatusOf(e)
    <2>1. \/ log'[j].id = x
          \/ \E k \in DOMAIN log : log'[j] = log[k]
      BY <1>0, <1>4, SaveKeeps DEF SaveSucceeds
    <2> QED
      BY <1>2, <1>3, <1>4, <2>1
  <1>5. ASSUME NEW x \in Exec, RunningSaved(x) PROVE x # e
    BY <1>5 DEF RunningSaved, LogInv, LogTells, InLog
  <1>6. ASSUME NEW x \in Exec, NEW recorded \in BOOLEAN, Complete(x, recorded) PROVE x # e
    <2>1. x \in InFlight
      BY <1>6 DEF Complete, InFlight
    <2> QED
      BY <1>1, <1>2, <2>1 DEF LogInv, LogTells, Says
  <1>7. CASE CloseInterrupted
    BY <1>1, <1>2, <1>3, <1>7 DEF CloseInterrupted, Closed
  <1>8. CASE \E x \in Exec : RunningSaved(x)
    BY <1>4, <1>5, <1>8 DEF RunningSaved, Status
  <1>9. CASE \E x \in Exec, recorded \in BOOLEAN : Complete(x, recorded)
    <2>1. PICK x \in Exec, recorded \in BOOLEAN : Complete(x, recorded)
      BY <1>9
    <2>2. SaveSucceeds(x, Terminal(x)) /\ Terminal(x) \in Status
      BY <2>1 DEF Complete, SaveFails, logVars, Terminal, Status
    <2> QED
      BY <1>4, <1>6, <2>1, <2>2
  <1>10. CASE \/ ArchiveUnreadable \/ OpenLog \/ MigrateLog \/ InitializeFails
    BY <1>10 DEF ArchiveUnreadable, OpenLog, MigrateLog, InitializeFails
  <1>11. CASE \/ UNCHANGED vars \/ Crash
              \/ \E x \in Exec : WorkStep(x) \/ Collector(x) \/ Cancel(x) \/ RunningNotSaved(x)
              \/ \E x \in Exec, a \in Args(1 .. version) : Execute(x, a)
    BY <1>11, WorkMoves DEF vars, logVars, Crash, LogRestart, Collector, CollectorApplies,
       CollectorRefuses, Cancel, RunningNotSaved, SaveFails, Execute, LogInv
  <1> QED
    BY <1>7, <1>8, <1>9, <1>10, <1>11 DEF Next, InitializeLog, InitializeCore, ReplyArrives,
       Settles, WorkStep

\* A terminal record is final, and what an operator reads in the log is what happened:
\* for any calls side by side, any records found, any failure and any crash.
THEOREM LogIsTrue == Spec => LogTellsTheTruth
  <1>1. IInv /\ LogInv => RanMeansRecorded /\ RunningMeansInFlight /\ SpanAgrees
    BY TellsNow
  <1>2. ASSUME IInv, LogInv, [Next]_vars
        PROVE  [\A e \in Ids : StatusOf(e) # "running"
                   => e \notin {log'[i].id : i \in DOMAIN log'}
                      \/ \A i \in DOMAIN log' : log'[i].id = e => log'[i].status = StatusOf(e)]_log
    BY <1>2, FinalStep
  <1>3. IInv /\ LogInv /\ [Next]_vars =>
            [\A e \in Ids : StatusOf(e) # "running"
                => e \notin {log'[i].id : i \in DOMAIN log'}
                   \/ \A i \in DOMAIN log' : log'[i].id = e => log'[i].status = StatusOf(e)]_log
    BY <1>2
  <1>4. Spec => TerminalIsFinal
    BY <1>3, LogInductive, PTL DEF Spec, TerminalIsFinal
  <1>5. Spec => [](RanMeansRecorded /\ RunningMeansInFlight /\ SpanAgrees)
    BY <1>1, LogInductive, PTL
  <1> QED
    BY <1>4, <1>5, PTL DEF LogTellsTheTruth

=============================================================================
