--------------------------- MODULE RequestGateProofs ---------------------------
(***************************************************************************)
(* scopeClosure of authorization.ts and the bearer gate built on it, for   *)
(* every finite set of scopes and every hierarchy of them, cycles          *)
(* included.  Induction over the naturals is a smallest counterexample.    *)
(***************************************************************************)
EXTENDS RequestGate, FiniteSetTheorems, TLAPS

\* A set of naturals that is not empty has a least member.
LEMMA LeastNatural ==
    ASSUME NEW S \in SUBSET Nat, S # {}
    PROVE  \E n \in S : \A m \in S : n <= m
  <1>1. IsWellFoundedOn(OpToRel(<, Nat), Nat)
    BY NatLessThanWellFounded, Zenon
  <1>2. PICK x \in S : \A y \in S : ~ (<<y, x>> \in OpToRel(<, Nat))
    BY <1>1, WFMin, Zenon
  <1>3. \A y \in S : ~ (y < x)
    BY <1>2, Zenon DEF OpToRel
  <1> QED
    BY <1>3

-----------------------------------------------------------------------------
(* The closure is well defined.                                            *)

\* Scope s follows from the granted ones by a chain of n implications.
Chain(granted, s, n) ==
    \E p \in [0 .. n -> Scope] :
        /\ p[0] \in granted /\ p[n] = s
        /\ \A i \in 0 .. (n - 1) : p[i + 1] \in Implies[p[i]]

LEMMA ChainStarts ==
    ASSUME NEW granted \in SUBSET Scope, NEW s \in Scope
    PROVE  Chain(granted, s, 0) <=> s \in granted
  <1>1. ASSUME s \in granted PROVE Chain(granted, s, 0)
    <2> DEFINE p == [i \in 0 .. 0 |-> s]
    <2>1. p \in [0 .. 0 -> Scope] /\ p[0] = s /\ 0 .. (0 - 1) = {}
      OBVIOUS
    <2> QED
      BY <1>1, <2>1 DEF Chain
  <1> QED
    BY <1>1 DEF Chain

LEMMA ChainGoesOn ==
    ASSUME NEW granted \in SUBSET Scope, NEW s \in Scope, NEW n \in Nat
    PROVE  Chain(granted, s, n + 1) <=> \E t \in Scope : Chain(granted, t, n) /\ s \in Implies[t]
  <1>1. ASSUME Chain(granted, s, n + 1)
        PROVE  \E t \in Scope : Chain(granted, t, n) /\ s \in Implies[t]
    <2>1. PICK p \in [0 .. (n + 1) -> Scope] :
             /\ p[0] \in granted /\ p[n + 1] = s
             /\ \A i \in 0 .. (n + 1 - 1) : p[i + 1] \in Implies[p[i]]
      BY <1>1 DEF Chain
    <2> DEFINE q == [i \in 0 .. n |-> p[i]]
    <2>2. q \in [0 .. n -> Scope] /\ q[0] \in granted /\ q[n] = p[n] /\ p[n] \in Scope
      BY <2>1
    <2>3. \A i \in 0 .. (n - 1) : q[i + 1] \in Implies[q[i]]
      BY <2>1
    <2>4. s \in Implies[p[n]]
      BY <2>1
    <2> QED
      BY <2>2, <2>3, <2>4 DEF Chain
  <1>2. ASSUME NEW t \in Scope, Chain(granted, t, n), s \in Implies[t]
        PROVE  Chain(granted, s, n + 1)
    <2>1. PICK p \in [0 .. n -> Scope] :
             /\ p[0] \in granted /\ p[n] = t
             /\ \A i \in 0 .. (n - 1) : p[i + 1] \in Implies[p[i]]
      BY <1>2 DEF Chain
    <2> DEFINE q == [i \in 0 .. (n + 1) |-> IF i <= n THEN p[i] ELSE s]
    <2>2. q \in [0 .. (n + 1) -> Scope] /\ q[0] \in granted /\ q[n + 1] = s
      BY <2>1
    <2>3. ASSUME NEW i \in 0 .. (n + 1 - 1) PROVE q[i + 1] \in Implies[q[i]]
      <3>1. CASE i = n
        BY <1>2, <2>1, <3>1
      <3>2. CASE i # n
        BY <2>1, <3>2
      <3> QED
        BY <3>1, <3>2
    <2> HIDE DEF q
    <2> QED
      BY <2>2, <2>3 DEF Chain
  <1> QED
    BY <1>1, <1>2

\* One round of scopeClosure.
Round(scopes) == scopes \cup UNION {Implies[s] : s \in scopes}

\* The recursion of Reached has a solution, so Reached is one.
LEMMA ReachedUnfolds ==
    Reached = [n \in Nat |->
                  [granted \in SUBSET Scope |->
                      IF n = 0 THEN granted ELSE Round(Reached[n - 1][granted])]]
  <1> DEFINE W == [n \in Nat |->
                      [granted \in SUBSET Scope |->
                          {s \in Scope : \E k \in 0 .. n : Chain(granted, s, k)}]]
             F(f) == [n \in Nat |->
                         [granted \in SUBSET Scope |->
                             IF n = 0 THEN granted
                             ELSE LET before == f[n - 1][granted]
                                  IN  before \cup UNION {Implies[s] : s \in before}]]
  <1>1. ASSUME NEW n \in Nat, NEW granted \in SUBSET Scope
        PROVE  W[n][granted] = IF n = 0 THEN granted ELSE Round(W[n - 1][granted])
    <2>1. CASE n = 0
      <3>1. W[n][granted] = {s \in Scope : Chain(granted, s, 0)}
        BY <2>1
      <3> QED
        BY <2>1, <3>1, ChainStarts
    <2>2. CASE n # 0
      <3>1. n - 1 \in Nat /\ n - 1 + 1 = n
        BY <2>2
      <3>2. /\ W[n][granted] = {s \in Scope : \E k \in 0 .. n : Chain(granted, s, k)}
            /\ W[n - 1][granted] = {s \in Scope : \E k \in 0 .. (n - 1) : Chain(granted, s, k)}
        BY <3>1
      <3> HIDE DEF W
      <3>3. ASSUME NEW s \in W[n][granted] PROVE s \in Round(W[n - 1][granted])
        <4>1. PICK k \in 0 .. n : s \in Scope /\ Chain(granted, s, k)
          BY <3>2
        <4>2. CASE k \in 0 .. (n - 1)
          BY <3>2, <4>1, <4>2 DEF Round
        <4>3. CASE k = n
          <5>1. PICK t \in Scope : Chain(granted, t, n - 1) /\ s \in Implies[t]
            BY <3>1, <4>1, <4>3, ChainGoesOn
          <5>2. n - 1 \in 0 .. (n - 1)
            BY <3>1
          <5>3. t \in W[n - 1][granted]
            BY <3>2, <5>1, <5>2
          <5> QED
            BY <5>1, <5>3 DEF Round
        <4> QED
          BY <4>2, <4>3
      <3>4. ASSUME NEW s \in Round(W[n - 1][granted]) PROVE s \in W[n][granted]
        <4>1. CASE s \in W[n - 1][granted]
          BY <3>2, <4>1
        <4>2. ASSUME NEW t \in W[n - 1][granted], s \in Implies[t] PROVE s \in W[n][granted]
          <5>1. PICK k \in 0 .. (n - 1) : t \in Scope /\ Chain(granted, t, k)
            BY <3>2
          <5>2. s \in Scope
            BY <4>2, <5>1, ScopeAssumption
          <5>3. Chain(granted, s, k + 1) /\ k + 1 \in 0 .. n
            BY <4>2, <5>1, <5>2, ChainGoesOn
          <5> QED
            BY <3>2, <5>2, <5>3
        <4> QED
          BY <4>1, <4>2 DEF Round
      <3>5. W[n][granted] = Round(W[n - 1][granted])
        BY <3>3, <3>4
      <3> QED
        BY <2>2, <3>5
    <2> QED
      BY <2>1, <2>2
  <1>2. W = F(W)
    <2>1. \A n \in Nat : W[n] = [granted \in SUBSET Scope |-> W[n][granted]]
      OBVIOUS
    <2>2. W = [n \in Nat |-> W[n]]
      OBVIOUS
    <2> HIDE DEF W
    <2>3. ASSUME NEW n \in Nat PROVE W[n] = F(W)[n]
      <3>1. F(W)[n] = [granted \in SUBSET Scope |->
                          IF n = 0 THEN granted ELSE Round(W[n - 1][granted])]
        BY DEF Round
      <3> HIDE DEF F
      <3> QED
        BY <1>1, <2>1, <3>1
    <2>4. F(W) = [n \in Nat |-> F(W)[n]]
      OBVIOUS
    <2> HIDE DEF F
    <2> QED
      BY <2>2, <2>3, <2>4
  <1>3. \E f : f = F(f)
    BY <1>2
  <1>4. Reached = F(Reached)
    BY <1>3, Zenon DEF Reached
  <1> QED
    BY <1>4 DEF Round

LEMMA ReachedSteps ==
    ASSUME NEW granted \in SUBSET Scope
    PROVE  /\ Reached[0][granted] = granted
           /\ \A n \in Nat : Reached[n + 1][granted] = Round(Reached[n][granted])
  <1>1. Reached[0][granted] = granted
    BY ReachedUnfolds
  <1>2. ASSUME NEW n \in Nat PROVE Reached[n + 1][granted] = Round(Reached[n][granted])
    BY ReachedUnfolds
  <1> QED
    BY <1>1, <1>2

-----------------------------------------------------------------------------
(* The closure is the least set that holds the grants and what they imply. *)

Closed(scopes) == \A s \in scopes : Implies[s] \subseteq scopes

LEMMA ReachedGrows ==
    ASSUME NEW granted \in SUBSET Scope
    PROVE  /\ \A n \in Nat : Reached[n][granted] \in SUBSET Scope
           /\ \A n \in Nat : granted \subseteq Reached[n][granted]
           /\ \A n \in Nat : Reached[n][granted] \subseteq Reached[n + 1][granted]
  <1> DEFINE R(n) == Reached[n][granted]
             Bad == {n \in Nat : ~ (R(n) \in SUBSET Scope /\ granted \subseteq R(n))}
  <1>0. R(0) = granted /\ \A n \in Nat : R(n + 1) = Round(R(n))
    BY ReachedSteps
  <1> HIDE DEF R
  <1>1. Bad = {}
    <2> SUFFICES ASSUME Bad # {} PROVE FALSE
      OBVIOUS
    <2>1. PICK n \in Bad : \A m \in Bad : n <= m
      BY LeastNatural
    <2>2. n # 0 /\ n \in Nat
      BY <1>0, <2>1
    <2>3. n - 1 \in Nat /\ n - 1 \notin Bad /\ n - 1 + 1 = n
      BY <2>1, <2>2
    <2>4. R(n) = Round(R(n - 1)) /\ R(n - 1) \in SUBSET Scope /\ granted \subseteq R(n - 1)
      <3>1. R(n - 1 + 1) = Round(R(n - 1))
        BY <1>0, <2>3
      <3> QED
        BY <2>3, <3>1
    <2>5. R(n) \in SUBSET Scope /\ granted \subseteq R(n)
      BY <2>4, ScopeAssumption DEF Round
    <2> QED
      BY <2>1, <2>5
  <1>2. \A n \in Nat : R(n) \subseteq R(n + 1)
    BY <1>0 DEF Round
  <1> QED
    BY <1>1, <1>2 DEF R

\* Whatever holds the grants and is closed holds all that is reached.
LEMMA ReachedIsImplied ==
    ASSUME NEW granted \in SUBSET Scope, NEW C, granted \subseteq C, Closed(C), NEW n \in Nat
    PROVE  Reached[n][granted] \subseteq C
  <1> DEFINE R(k) == Reached[k][granted]
             Bad == {k \in Nat : ~ (R(k) \subseteq C)}
  <1>0. R(0) = granted /\ \A k \in Nat : R(k + 1) = Round(R(k))
    BY ReachedSteps
  <1> HIDE DEF R
  <1> SUFFICES ASSUME Bad # {} PROVE FALSE
    BY DEF R
  <1>1. PICK k \in Bad : \A m \in Bad : k <= m
    BY LeastNatural
  <1>2. k # 0 /\ k \in Nat
    BY <1>0, <1>1
  <1>3. k - 1 \in Nat /\ k - 1 \notin Bad /\ k - 1 + 1 = k
    BY <1>1, <1>2
  <1>4. R(k) = Round(R(k - 1)) /\ R(k - 1) \subseteq C
    <2>1. R(k - 1 + 1) = Round(R(k - 1))
      BY <1>0, <1>3
    <2> QED
      BY <1>3, <2>1
  <1>5. R(k) \subseteq C
    BY <1>4 DEF Round, Closed
  <1> QED
    BY <1>1, <1>5

\* Once a round adds nothing, no later one does.
LEMMA ReachedSettles ==
    ASSUME NEW granted \in SUBSET Scope, NEW n \in Nat,
           Reached[n + 1][granted] = Reached[n][granted]
    PROVE  \A m \in Nat : m >= n => Reached[m][granted] = Reached[n][granted]
  <1>1. Closed(Reached[n][granted])
    BY ReachedSteps DEF Round, Closed
  <1> DEFINE R(k) == Reached[k][granted]
             Bad == {m \in Nat : m >= n /\ R(m) # R(n)}
  <1>2. \A k \in Nat : R(k + 1) = Round(R(k))
    BY ReachedSteps
  <1>3. Round(R(n)) = R(n)
    BY <1>1 DEF Round, Closed
  <1> HIDE DEF R
  <1> SUFFICES ASSUME Bad # {} PROVE FALSE
    BY DEF R
  <1>4. PICK m \in Bad : \A k \in Bad : m <= k
    BY LeastNatural
  <1>5. m \in Nat /\ m > n /\ R(m) # R(n)
    BY <1>4
  <1>6. m - 1 \in Nat /\ m - 1 >= n /\ m - 1 \notin Bad /\ m - 1 + 1 = m
    BY <1>4, <1>5
  <1>7. R(m - 1) = R(n)
    BY <1>6
  <1>8. R(m - 1 + 1) = Round(R(m - 1))
    BY <1>2, <1>6
  <1> QED
    BY <1>3, <1>5, <1>6, <1>7, <1>8

\* As many rounds as there are scopes are enough: each one adds a scope, or
\* nothing is left to add.
LEMMA ReachedIsClosed ==
    ASSUME NEW granted \in SUBSET Scope
    PROVE  Closed(ScopeClosure(granted))
  <1> DEFINE R(k) == Reached[k][granted]
             N == Cardinality(Scope)
             Slow == {k \in Nat : Cardinality(R(k)) < k}
  <1>0. /\ N \in Nat
        /\ \A k \in Nat : /\ R(k) \in SUBSET Scope /\ IsFiniteSet(R(k))
                          /\ Cardinality(R(k)) \in Nat /\ Cardinality(R(k)) <= N
                          /\ R(k) \subseteq R(k + 1)
    <2>1. IsFiniteSet(Scope) /\ \A k \in Nat : R(k) \in SUBSET Scope /\ R(k) \subseteq R(k + 1)
      BY ReachedGrows, ScopeAssumption
    <2> HIDE DEF R
    <2>2. \A k \in Nat : IsFiniteSet(R(k)) /\ Cardinality(R(k)) <= N
      BY <2>1, FS_Subset
    <2> QED
      BY <2>1, <2>2, FS_CardinalityType
  <1> HIDE DEF R
  <1>1. N + 1 \in Slow
    BY <1>0
  <1>2. PICK k \in Slow : \A m \in Slow : k <= m
    BY <1>1, LeastNatural
  <1>3. k \in Nat /\ k # 0 /\ k <= N + 1 /\ Cardinality(R(k)) < k
    BY <1>0, <1>1, <1>2
  <1>4. k - 1 \in Nat /\ k - 1 + 1 = k /\ k - 1 \notin Slow /\ k - 1 <= N
    BY <1>0, <1>2, <1>3
  <1>5. R(k) = R(k - 1)
    <2>1. /\ R(k - 1) \in SUBSET R(k) /\ IsFiniteSet(R(k))
          /\ Cardinality(R(k - 1)) \in Nat /\ Cardinality(R(k)) \in Nat
      BY <1>0, <1>3, <1>4
    <2>2. Cardinality(R(k - 1)) <= Cardinality(R(k)) /\ Cardinality(R(k - 1)) >= k - 1
      BY <1>4, <2>1, FS_Subset
    <2>3. Cardinality(R(k)) = Cardinality(R(k - 1))
      BY <1>3, <2>1, <2>2
    <2> QED
      BY <2>1, <2>3, FS_Subset
  <1>6. R(N) = R(k - 1) /\ R(N + 1) = R(k - 1)
    <2>1. Reached[k - 1 + 1][granted] = Reached[k - 1][granted]
      BY <1>4, <1>5 DEF R
    <2>2. \A m \in Nat : m >= k - 1 => R(m) = R(k - 1)
      BY <1>4, <2>1, ReachedSettles DEF R
    <2> HIDE DEF N
    <2> QED
      BY <1>0, <1>4, <2>2
  <1>7. R(N + 1) = Round(R(N))
    BY <1>0, ReachedSteps DEF R
  <1>8. Closed(R(N))
    BY <1>6, <1>7 DEF Round, Closed
  <1> QED
    BY <1>8 DEF R, ScopeClosure

\* scopeClosure, cycles or not: the granted scopes, all that they imply, and
\* nothing else.
THEOREM ScopeClosureIsLeast ==
    ASSUME NEW granted \in SUBSET Scope
    PROVE  /\ ScopeClosure(granted) \in SUBSET Scope
           /\ granted \subseteq ScopeClosure(granted)
           /\ Closed(ScopeClosure(granted))
           /\ \A C : granted \subseteq C /\ Closed(C) => ScopeClosure(granted) \subseteq C
  <1>1. Cardinality(Scope) \in Nat
    BY ScopeAssumption, FS_CardinalityType
  <1> QED
    BY <1>1, ReachedGrows, ReachedIsImplied, ReachedIsClosed DEF ScopeClosure

\* No scope is held "without a verified scope as [its] starting point"
\* (scopeClosure): a chain of implications leads to it from a granted one.
THEOREM ScopesStartFromGrants ==
    ASSUME NEW granted \in SUBSET Scope, NEW s \in ScopeClosure(granted)
    PROVE  \E n \in Nat : Chain(granted, s, n)
  <1> DEFINE C == {t \in Scope : \E n \in Nat : Chain(granted, t, n)}
  <1>1. granted \subseteq C
    BY ChainStarts
  <1>2. ASSUME NEW t \in C, NEW u \in Implies[t] PROVE u \in C
    <2>1. PICK n \in Nat : Chain(granted, t, n)
      OBVIOUS
    <2>2. u \in Scope
      BY ScopeAssumption
    <2>3. Chain(granted, u, n + 1) /\ n + 1 \in Nat
      BY <2>1, <2>2, ChainGoesOn
    <2> QED
      BY <2>2, <2>3
  <1>3. Closed(C)
    BY <1>2 DEF Closed
  <1>4. ScopeClosure(granted) \subseteq C
    BY <1>1, <1>3, ScopeClosureIsLeast
  <1> QED
    BY <1>4

\* A client that is refused for its scopes and comes back with those that the
\* challenge asked for, granted beside the ones it had, is admitted; so is one
\* that signs in with all that a 401 or a 400 asks for (createResourceAuthorization).
THEOREM StepUpSuffices ==
    ASSUME NEW r \in Request, NEW keys \in BOOLEAN, NEW granted \in SUBSET Scope,
           BearerGate(r, keys).status # 200,
           BearerGate(r, keys).asks \subseteq granted,
           BearerGate(r, keys).status = 403 => r.scopes \subseteq granted
    PROVE  BearerGate([r EXCEPT !.token = "valid", !.scopes = granted], TRUE) = Admit(r.subject)
  <1> DEFINE again == [r EXCEPT !.token = "valid", !.scopes = granted]
  <1>0. again.token = "valid" /\ again.scopes = granted /\ again.subject = r.subject
    BY DEF Request
  <1>1. Required \subseteq ScopeClosure(granted)
    <2>1. CASE BearerGate(r, keys) = Refuse(401, Scope)
      BY <2>1, ScopeClosureIsLeast, ScopeAssumption DEF Refuse
    <2>2. CASE BearerGate(r, keys) = Refuse(403, Lacking(r))
      <3>1. r.scopes \in SUBSET Scope /\ r.scopes \subseteq granted
        BY <2>2 DEF Refuse, Request
      <3>2. Effective(r) \subseteq ScopeClosure(granted)
        BY <3>1, ScopeClosureIsLeast DEF Effective
      <3>3. Required \ Effective(r) \subseteq ScopeClosure(granted)
        BY <2>2, ScopeClosureIsLeast DEF Refuse, Lacking
      <3> QED
        BY <3>2, <3>3
    <2>3. CASE BearerGate(r, keys) = Refuse(400, Required)
      BY <2>3, ScopeClosureIsLeast DEF Refuse
    <2> QED
      BY <2>1, <2>2, <2>3 DEF BearerGate, Verifies, Admit, Refuse, Request
  <1>2. Required \subseteq Effective(again) /\ Verifies(again, TRUE)
    BY <1>0, <1>1 DEF Effective, Verifies
  <1> HIDE DEF again
  <1>3. BearerGate(again, TRUE) = Admit(again.subject)
    BY <1>0, <1>2 DEF BearerGate
  <1> QED
    BY <1>0, <1>3 DEF again

================================================================================
