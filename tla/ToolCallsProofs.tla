---------------------------- MODULE ToolCallsProofs ----------------------------
(***************************************************************************)
(* What ToolCalls promises to the callers of tools and to the Collector,   *)
(* for any number of calls, any tools and arguments, and every fault.      *)
(* Nothing here depends on the log: what a call may say and change follows *)
(* from the call, its request and what the Collector has applied.          *)
(***************************************************************************)
EXTENDS ToolCalls, TLAPS

Outcome == {"none", "ok", "refused", "cancelled", "uncertain"}

Typed ==
    /\ hosted \in BOOLEAN
    /\ phase \in [Exec -> {"idle", "saving", "starting", "waiting", "reading", "reporting",
                           "completing", "answered", "lost"}]
    /\ args = [e \in Exec |-> args[e]]
    /\ wire \in [Exec -> Reply \cup {Idle, Sent}]
    /\ outcome \in [Exec -> Outcome]
    /\ progress \in [Exec -> Nat]
    /\ answer \in [Exec -> Outcome \cup {"not_run", "challenged"}]
    /\ aborted \subseteq Exec /\ ran \subseteq Exec /\ applied \subseteq Exec
    /\ version \in Nat

\* Nothing has happened to a call that has not begun its work.
NotBegun(e) ==
    phase[e] \in {"idle", "saving", "starting"} =>
        /\ wire[e] = Idle /\ outcome[e] = "none" /\ answer[e] = "none"
        /\ e \notin ran /\ e \notin applied

ArgsGiven(e) == phase[e] # "idle" => args[e].tool \in Tools /\ args[e].etag \in Nat

\* Only a call that did not run is told so.
Unrun(e) == answer[e] \in {"not_run", "challenged"} =>
                e \notin ran /\ phase[e] = "answered" /\ wire[e] = Idle /\ e \notin applied

\* A token that lacks a tool's scopes is challenged.
Covered(e) ==
    hosted /\ phase[e] # "idle" =>
        ToolScopes(args[e].tool) \subseteq args[e].scopes \/ answer[e] = "challenged"

\* A reply of 200 tells of work that was done, and a call reports nothing else.
Reports(e) ==
    /\ wire[e].status = 200 => Done(e)
    /\ phase[e] = "reporting" => Done(e) /\ wire[e] = Idle
    /\ phase[e] = "reading" => wire[e] \notin {Idle, Sent}

\* Nobody is refused whose request was, or still may be, applied.
NotRefused(e) == outcome[e] # "refused" /\ answer[e] # "refused"
Applied(e) ==
    /\ e \in applied =>
           /\ Op(e) # "read" /\ NotRefused(e)
           /\ wire[e] # Sent /\ wire[e].status \in {0, 200, 500}
           /\ Op(e) = "create" => Key(e) \in keys
           /\ Op(e) # "create" => args[e].etag < version
    /\ wire[e] = Sent /\ Op(e) # "read" => NotRefused(e)

CallInv(e) ==
    /\ NotBegun(e) /\ ArgsGiven(e) /\ Unrun(e) /\ Covered(e) /\ Reports(e) /\ Applied(e)

IInv == Typed /\ (\A e \in Exec : CallInv(e)) /\ RepeatsChangeNothing

LEMMA Wire ==
    /\ Idle.status = 0 /\ Sent.status = 1 /\ Idle # Sent
    /\ Idle \notin Reply /\ Sent \notin Reply
    /\ \A r \in Reply : r.status \in {200, 403, 404, 409, 412, 429, 500}
  BY DEF Idle, Sent, Reply

LEMMA InitHolds == ASSUME Init PROVE IInv
  <1>1. Typed
    BY DEF Init, Typed, Outcome
  <1>2. ASSUME NEW e \in Exec PROVE CallInv(e)
    BY Wire DEF Init, CallInv, NotBegun, ArgsGiven, Unrun, Covered, Reports, Applied
  <1>3. RepeatsChangeNothing
    BY DEF Init, RepeatsChangeNothing
  <1> QED
    BY <1>1, <1>2, <1>3 DEF IInv

\* The calls that a step is not about keep what holds of them: the Collector only
\* ever applies more, remembers more keys and moves to later versions.
Same(e) ==
    /\ UNCHANGED <<hosted, phase[e], args[e], wire[e], outcome[e], answer[e]>>
    /\ e \in ran' <=> e \in ran
    /\ e \in applied' <=> e \in applied

Grows == applied \subseteq applied' /\ keys \subseteq keys' /\ version' \in Nat /\ version <= version'

LEMMA OthersKeep ==
    ASSUME NEW e \in Exec, Typed, CallInv(e), Same(e), Grows
    PROVE  CallInv(e)'
  <1>1. Op(e)' = Op(e) /\ Key(e)' = Key(e)
    BY DEF Same, Op, Key
  <1>2. (NotBegun(e) /\ ArgsGiven(e) /\ Unrun(e) /\ Covered(e))'
    BY DEF Same, CallInv, NotBegun, ArgsGiven, Unrun, Covered
  <1>3. Done(e) => Done(e)'
    BY <1>1 DEF Grows, Done
  <1>4. Reports(e)'
    BY <1>3 DEF Same, CallInv, Reports
  <1>5. Applied(e)'
    <2>1. phase[e] # "idle" => args[e].etag \in Nat
      BY DEF CallInv, ArgsGiven
    <2>2. e \in applied => phase[e] # "idle"
      BY DEF CallInv, NotBegun
    <2> QED
      BY <1>1, <2>1, <2>2 DEF Same, Grows, Typed, CallInv, Applied, NotRefused
  <1> QED
    BY <1>2, <1>4, <1>5 DEF CallInv

\* A step of one call that the Collector does not see.
LEMMA OwnStep ==
    ASSUME IInv, NEW x \in Exec, Typed', CallInv(x)', Grows, applied' = applied,
           \A e \in Exec \ {x} : Same(e), x \in applied => args'[x] = args[x]
    PROVE  IInv'
  <1>1. \A e \in Exec : CallInv(e)'
    BY OthersKeep DEF IInv
  <1>2. \A e \in applied : e \in Exec /\ args'[e] = args[e]
    BY DEF IInv, Typed, Same
  <1>3. RepeatsChangeNothing'
    BY <1>2 DEF IInv, RepeatsChangeNothing, SameChange, Op
  <1> QED
    BY <1>1, <1>3 DEF IInv

-------------------------------------------------------------------------------
(* What the codes mean to a caller.                                        *)

LEMMA Meanings ==
    /\ Meaning("ok") = "ok" /\ Meaning("cancelled") = "cancelled"
    /\ \A code \in {"invalid_argument", "no_project_access"} : Meaning(code) = "refused"
    /\ \A code \in {"collector_error", "contract_mismatch", "collector_timeout", "internal",
                    "collector_unreachable", "response_too_large"} : Meaning(code) = "uncertain"
    /\ \A code : Meaning(code) \in {"ok", "cancelled", "refused", "uncertain"}
    /\ \A code : Meaning(code) = "cancelled" => code = "cancelled"
    /\ \A code : code \notin {"ok", "cancelled"} => Meaning(code) \in {"refused", "uncertain"}
  BY DEF Meaning, Refusals, Retryable, ErrorCode

\* A fetch that fails tells only a caller that cancelled so.
LEMMA FailedFetchMeaning ==
    ASSUME NEW a \in BOOLEAN, NEW t \in BOOLEAN
    PROVE  /\ Meaning(CodeForFailedFetch(a, t)) \in {"cancelled", "uncertain"}
           /\ Meaning(CodeForFailedFetch(a, t)) = "cancelled" => a
  BY Meanings DEF CodeForFailedFetch

Answers == {200, 403, 404, 409, 412, 429, 500}

LEMMA StatusMeaning ==
    ASSUME NEW s \in Answers
    PROVE  CodeForStatus(s) \notin {"ok", "cancelled"} /\ CodeForStatus(500) = "collector_error"
  BY DEF CodeForStatus, Answers

LEMMA NamedStatuses == \A tool : 500 \notin Named(tool) /\ 200 \notin Named(tool)
  BY DEF Named, ChangeRefusals

\* A reply that cannot be read never reads as a refusal when the Collector may
\* have applied the request: its status is 200, or 500.
LEMMA UnreadMeaning ==
    ASSUME NEW s \in Answers, NEW tool
    PROVE  LET m == Meaning(Refused(CodeForUnexpectedBody(s), s, Named(tool))) IN
           m # "cancelled" /\ (s \in {200, 500} => m = "uncertain")
  <1>1. CodeForUnexpectedBody(s) \notin {"ok", "cancelled"}
    BY StatusMeaning DEF CodeForUnexpectedBody
  <1>2. Refused(CodeForUnexpectedBody(s), s, Named(tool)) \notin {"ok", "cancelled"}
    BY <1>1, StatusMeaning DEF Refused
  <1>3. s = 200 => Refused(CodeForUnexpectedBody(s), s, Named(tool)) = "contract_mismatch"
    BY NamedStatuses DEF Refused, CodeForUnexpectedBody
  <1>4. s = 500 => Refused(CodeForUnexpectedBody(s), s, Named(tool)) = "collector_error"
    BY NamedStatuses, StatusMeaning DEF Refused, CodeForUnexpectedBody
  <1> QED
    BY <1>2, <1>3, <1>4, Meanings

LEMMA ProblemMeaning ==
    ASSUME NEW s \in Answers, NEW tool, NEW problem \in Problem
    PROVE  LET m == Meaning(Refused(CodeForProblem(problem, s), s, Named(tool))) IN
           m # "cancelled" /\ (s = 500 /\ problem \notin Denial => m = "uncertain")
  <1>1. CodeForProblem(problem, s) \notin {"ok", "cancelled"}
    BY StatusMeaning DEF CodeForProblem
  <1>2. Refused(CodeForProblem(problem, s), s, Named(tool)) \notin {"ok", "cancelled"}
    BY <1>1, StatusMeaning DEF Refused
  <1>3. s = 500 /\ problem \notin Denial => CodeForProblem(problem, s) = "collector_error"
    BY StatusMeaning DEF CodeForProblem, Problem, Denial
  <1>4. s = 500 /\ problem \notin Denial => Refused(CodeForProblem(problem, s), s, Named(tool)) = "collector_error"
    BY <1>3, NamedStatuses DEF Refused
  <1> QED
    BY <1>2, <1>4, Meanings

-------------------------------------------------------------------------------
(* The end of the work.                                                    *)

LEMMA EndsEffect ==
    ASSUME Typed, NEW x \in Exec, NEW code, Ends(x, code)
    PROVE  /\ outcome' \in [Exec -> Outcome] /\ outcome'[x] = Meaning(code)
           /\ phase' = [phase EXCEPT ![x] = "completing"]
           /\ wire' \in [Exec -> Reply \cup {Idle, Sent}]
           /\ wire'[x] = (IF wire[x] = Sent THEN Sent ELSE Idle)
           /\ progress' \in [Exec -> Nat] /\ progress'[x] = 0
           /\ aborted' \subseteq Exec
           /\ \A e \in Exec \ {x} : outcome'[e] = outcome[e] /\ phase'[e] = phase[e]
                                       /\ wire'[e] = wire[e] /\ progress'[e] = progress[e]
  BY Meanings DEF Typed, Ends, Outcome

\* When work ends, the invariant is kept if a call that may still be applied, or
\* has been, is not told that it was refused.
LEMMA EndsKeeps ==
    ASSUME IInv, NEW x \in Exec, NEW code, Ends(x, code), phase[x] \notin {"idle", "answered"},
           UNCHANGED <<hosted, args, answer, version, keys, applied>>,
           ran' = ran \/ ran' = ran \cup {x},
           x \in applied \/ (wire[x] = Sent /\ Op(x) # "read") => Meaning(code) # "refused"
    PROVE  IInv'
  <1>0. Typed /\ CallInv(x)
    BY DEF IInv
  <1>1. Typed'
    BY <1>0, EndsEffect DEF Typed
  <1>2. /\ phase'[x] = "completing" /\ outcome'[x] = Meaning(code)
        /\ wire'[x] = (IF wire[x] = Sent THEN Sent ELSE Idle)
    BY <1>0, EndsEffect DEF Typed
  <1>3. (NotBegun(x) /\ ArgsGiven(x) /\ Unrun(x) /\ Covered(x))'
    BY <1>0, <1>2 DEF CallInv, NotBegun, ArgsGiven, Unrun, Covered, Typed
  <1>4. Reports(x)'
    BY <1>2, Wire DEF Reports
  <1>5. Applied(x)'
    <2>1. Op(x)' = Op(x) /\ Key(x)' = Key(x)
      BY DEF Op, Key
    <2> QED
      BY <1>0, <1>2, <2>1, Wire DEF CallInv, Applied, NotRefused
  <1>6. /\ Grows /\ \A e \in Exec \ {x} : Same(e)
    BY <1>0, EndsEffect DEF Grows, Same, Typed
  <1> QED
    BY <1>1, <1>3, <1>4, <1>5, <1>6, OwnStep DEF CallInv

-------------------------------------------------------------------------------
(* Each step keeps the invariant.                                          *)

\* A step that changes nothing but phase, answer and outcome of one call.
LEMMA QuietKeeps ==
    ASSUME IInv, NEW x \in Exec,
           UNCHANGED <<hosted, args, wire, progress, version, keys, applied, ran>>,
           aborted' \subseteq Exec,
           phase' \in [Exec -> {"idle", "saving", "starting", "waiting", "reading", "reporting",
                                "completing", "answered", "lost"}],
           outcome' \in [Exec -> Outcome],
           answer' \in [Exec -> Outcome \cup {"not_run", "challenged"}],
           \A e \in Exec \ {x} : UNCHANGED <<phase[e], outcome[e], answer[e]>>,
           phase[x] # "idle", phase'[x] # "idle",
           (NotBegun(x) /\ Unrun(x) /\ Covered(x) /\ Reports(x) /\ Applied(x))'
    PROVE  IInv'
  <1>1. Typed'
    BY DEF IInv, Typed
  <1>2. ArgsGiven(x)'
    BY DEF IInv, CallInv, ArgsGiven
  <1>3. Grows /\ \A e \in Exec \ {x} : Same(e)
    BY DEF IInv, Typed, Grows, Same
  <1> QED
    BY <1>1, <1>2, <1>3, OwnStep DEF CallInv

LEMMA ExecuteKeeps ==
    ASSUME IInv, NEW x \in Exec, NEW a \in Args(1 .. version), Execute(x, a)
    PROVE  IInv'
  <1>0. Typed /\ CallInv(x) /\ phase[x] = "idle"
    BY DEF IInv, Execute
  <1>1. /\ UNCHANGED <<hosted, wire, outcome, progress, aborted, ran, applied, keys, version>>
        /\ args' = [args EXCEPT ![x] = a]
        /\ \/ /\ hosted /\ ~ (ToolScopes(a.tool) \subseteq a.scopes)
              /\ phase' = [phase EXCEPT ![x] = "answered"]
              /\ answer' = [answer EXCEPT ![x] = "challenged"]
           \/ /\ ~ (hosted /\ ~ (ToolScopes(a.tool) \subseteq a.scopes))
              /\ phase' = [phase EXCEPT ![x] = IF hosted THEN "starting" ELSE "saving"]
              /\ answer' = answer
    BY DEF Execute, Challenged, collectorVars
  <1>2. /\ wire[x] = Idle /\ outcome[x] = "none" /\ answer[x] = "none"
        /\ x \notin ran /\ x \notin applied
    BY <1>0 DEF CallInv, NotBegun
  <1>3. Typed'
    BY <1>0, <1>1 DEF Typed
  <1>4. args'[x] = a /\ a.tool \in Tools /\ a.etag \in Nat
    BY <1>0, <1>1, ToolCallsAssumption DEF Typed, Args
  <1>5. CallInv(x)'
    BY <1>0, <1>1, <1>2, <1>4, Wire
       DEF Typed, CallInv, NotBegun, ArgsGiven, Unrun, Covered, Reports, Applied
  <1>6. Grows /\ \A e \in Exec \ {x} : Same(e)
    BY <1>0, <1>1 DEF Typed, Grows, Same
  <1> QED
    BY <1>1, <1>2, <1>3, <1>5, <1>6, OwnStep

LEMMA RecordingKeeps ==
    ASSUME IInv, NEW x \in Exec, RunningSaved(x) \/ RunningNotSaved(x)
    PROVE  IInv'
  <1>0. Typed /\ CallInv(x) /\ phase[x] = "saving"
    BY DEF IInv, RunningSaved, RunningNotSaved
  <1>1. /\ UNCHANGED <<hosted, args, wire, outcome, progress, aborted, ran, applied, keys,
                       version>>
        /\ \/ /\ phase' = [phase EXCEPT ![x] = "starting"]
              /\ answer' = answer
           \/ /\ phase' = [phase EXCEPT ![x] = "answered"]
              /\ answer' = [answer EXCEPT ![x] = "not_run"]
    BY DEF RunningSaved, RunningNotSaved, collectorVars
  <1>2. (NotBegun(x) /\ Unrun(x) /\ Covered(x) /\ Reports(x) /\ Applied(x))'
    BY <1>0, <1>1, Wire DEF Typed, CallInv, NotBegun, Unrun, Covered, Reports, Applied
  <1> QED
    BY <1>0, <1>1, <1>2, QuietKeeps DEF Typed

LEMMA InvokeKeeps ==
    ASSUME IInv, NEW x \in Exec, Invoke(x)
    PROVE  IInv'
  <1>0. /\ Typed /\ CallInv(x) /\ phase[x] = "starting"
        /\ ran' = ran \cup {x} /\ UNCHANGED <<hosted, args, answer, version, keys, applied>>
    BY DEF IInv, Invoke, MayRun
  <1>1. /\ wire[x] = Idle /\ outcome[x] = "none" /\ answer[x] = "none"
        /\ x \notin ran /\ x \notin applied
    BY <1>0 DEF CallInv, NotBegun
  <1>2. CASE \E code : Ends(x, code)
    BY <1>0, <1>1, <1>2, Wire, EndsKeeps
  <1>3. CASE /\ wire' = [wire EXCEPT ![x] = Sent]
             /\ phase' = [phase EXCEPT ![x] = "waiting"]
             /\ UNCHANGED <<aborted, page, outcome, progress>>
    <2>1. Typed' /\ Grows /\ \A e \in Exec \ {x} : Same(e)
      BY <1>0, <1>3 DEF Typed, Grows, Same
    <2>2. CallInv(x)'
      BY <1>0, <1>1, <1>3, Wire DEF Typed, CallInv, NotBegun, ArgsGiven, Unrun, Covered, Reports,
         Applied, NotRefused
    <2> QED
      BY <1>0, <2>1, <2>2, OwnStep
  <1> QED
    BY <1>2, <1>3 DEF Invoke

\* What the Collector does to the request of one call.
LEMMA RepliesEffect ==
    ASSUME Typed, NEW x \in Exec, NEW status, Replies(x, status)
    PROVE  /\ wire' \in [Exec -> Reply \cup {Idle, Sent}]
           /\ \A e \in Exec \ {x} : wire'[e] = wire[e]
           /\ \/ wire'[x] = Idle /\ phase[x] # "waiting"
              \/ wire'[x] \in Reply /\ wire'[x].status = status /\ phase[x] = "waiting"
  BY DEF Typed, Replies

LEMMA CollectorAppliesKeeps ==
    ASSUME IInv, NEW x \in Exec, CollectorApplies(x)
    PROVE  IInv'
  <1>0. /\ Typed /\ CallInv(x) /\ wire[x] = Sent
        /\ UNCHANGED <<hosted, phase, args, aborted, outcome, progress, answer, ran>>
    BY DEF IInv, CollectorApplies, callVars
  <1>1. /\ phase[x] \notin {"idle", "saving", "starting", "reporting", "reading"}
        /\ args[x].tool \in Tools /\ args[x].etag \in Nat /\ x \notin applied
        /\ Op(x) # "read" => NotRefused(x)
        /\ answer[x] \notin {"not_run", "challenged"}
    BY <1>0, Wire DEF CallInv, NotBegun, ArgsGiven, Reports, Applied, Unrun
  <1>2. Op(x) \in {"read", "create", "update", "delete"}
    BY <1>1 DEF Op, Effect, Tools, Changes, Creates, Updates, Removals, Reads, AnnotationChanges,
       SavedQueryChanges, FailureChanges
  <1>3. \/ /\ Op(x) = "create" /\ keys' = keys \cup {Key(x)} /\ version' = version
           /\ applied' = IF Key(x) \in keys THEN applied ELSE applied \cup {x}
        \/ /\ Op(x) \in {"update", "delete"} /\ IfMatch(x) = version
           /\ version' = version + 1 /\ applied' = applied \cup {x} /\ keys' = keys
        \/ /\ Op(x) = "read" /\ UNCHANGED <<version, keys, applied>>
    BY <1>2 DEF CollectorApplies
  <1>4. /\ wire' \in [Exec -> Reply \cup {Idle, Sent}]
        /\ \A e \in Exec \ {x} : wire'[e] = wire[e]
        /\ wire'[x] # Sent /\ wire'[x].status \in {0, 200, 500}
    BY <1>0, RepliesEffect, Wire DEF CollectorApplies
  <1>5. Typed' /\ Grows
    BY <1>0, <1>3, <1>4 DEF Typed, Grows
  <1>6. \A e \in Exec \ {x} : Same(e)
    BY <1>0, <1>3, <1>4 DEF Same
  <1>7. Op(x)' = Op(x) /\ Key(x)' = Key(x)
    BY <1>0 DEF Op, Key
  <1>8. Done(x)'
    BY <1>3, <1>7 DEF Done
  <1>9. CallInv(x)'
    <2>1. (NotBegun(x) /\ ArgsGiven(x) /\ Unrun(x) /\ Covered(x))'
      BY <1>0, <1>1 DEF CallInv, NotBegun, ArgsGiven, Unrun, Covered
    <2>2. Reports(x)'
      BY <1>0, <1>1, <1>8 DEF Reports
    <2>3. Applied(x)'
      BY <1>0, <1>1, <1>3, <1>4, <1>7 DEF Applied, NotRefused, IfMatch, Typed
    <2> QED
      BY <2>1, <2>2, <2>3 DEF CallInv
  <1>10. \A e \in Exec : CallInv(e)'
    BY <1>0, <1>5, <1>6, <1>9, OthersKeep DEF IInv
  <1>11. RepeatsChangeNothing'
    <2>1. ASSUME NEW g \in applied, SameChange(g, x) \/ SameChange(x, g) PROVE x \notin applied'
      <3>1. g \in Exec /\ Applied(g)
        BY DEF IInv, Typed, CallInv
      <3>2. CASE Op(x) = "create"
        <4>1. Op(g) = "create" /\ Key(g) = Key(x)
          BY <2>1, <3>2 DEF SameChange, Op, Key
        <4> QED
          BY <1>1, <1>3, <3>1, <3>2, <4>1 DEF Applied
      <3>3. CASE Op(x) # "create"
        <4>1. Op(g) # "create" /\ args[g].etag = args[x].etag
          BY <2>1, <3>3 DEF SameChange, Op
        <4>2. args[g].etag < version
          BY <3>1, <4>1 DEF Applied
        <4> QED
          BY <1>0, <1>1, <1>3, <2>1, <3>3, <4>1, <4>2 DEF IfMatch, Typed, SameChange
      <3> QED
        BY <3>2, <3>3
    <2>2. SUFFICES ASSUME NEW e \in applied', NEW f \in applied', SameChange(e, f)
                   PROVE  e = f
      BY <1>0 DEF RepeatsChangeNothing, SameChange, Op
    <2>3. e \in applied /\ f \in applied => e = f
      BY <2>2 DEF IInv, RepeatsChangeNothing
    <2>4. e \in applied \cup {x} /\ f \in applied \cup {x}
      BY <1>3
    <2> QED
      BY <2>1, <2>2, <2>3, <2>4
  <1> QED
    BY <1>5, <1>10, <1>11 DEF IInv

LEMMA CollectorRefusesKeeps ==
    ASSUME IInv, NEW x \in Exec, CollectorRefuses(x)
    PROVE  IInv'
  <1>0. /\ Typed /\ CallInv(x) /\ wire[x] = Sent
        /\ UNCHANGED <<hosted, phase, args, aborted, outcome, progress, answer, ran, version,
                       keys, applied>>
    BY DEF IInv, CollectorRefuses, callVars
  <1>1. /\ phase[x] \notin {"idle", "saving", "starting", "reporting", "reading"}
        /\ x \notin applied /\ answer[x] \notin {"not_run", "challenged"}
    BY <1>0, Wire DEF CallInv, NotBegun, Reports, Applied, Unrun
  <1>2. /\ wire' \in [Exec -> Reply \cup {Idle, Sent}]
        /\ \A e \in Exec \ {x} : wire'[e] = wire[e]
        /\ wire'[x] # Sent /\ wire'[x].status # 200
    BY <1>0, RepliesEffect, Wire DEF CollectorRefuses
  <1>3. Typed' /\ Grows /\ \A e \in Exec \ {x} : Same(e)
    BY <1>0, <1>2 DEF Typed, Grows, Same
  <1>4. CallInv(x)'
    BY <1>0, <1>1, <1>2 DEF CallInv, NotBegun, ArgsGiven, Unrun, Covered, Reports, Applied
  <1> QED
    BY <1>0, <1>3, <1>4, OwnStep

\* The failures and refusals that end a request.
LEMMA RequestEndsKeeps ==
    ASSUME IInv, NEW x \in Exec, FetchFails(x) \/ BodyFails(x) \/ BodyRefuses(x)
    PROVE  IInv'
  <1>0. /\ Typed /\ CallInv(x) /\ phase[x] \in {"waiting", "reading"}
        /\ UNCHANGED <<hosted, args, answer, ran, version, keys, applied>>
    BY DEF IInv, FetchFails, BodyFails, BodyRefuses
  <1>1. CASE FetchFails(x)
    <2>1. PICK timedOut \in BOOLEAN : Ends(x, CodeForFailedFetch(x \in aborted, timedOut))
      BY <1>1 DEF FetchFails
    <2>2. Meaning(CodeForFailedFetch(x \in aborted, timedOut)) # "refused"
      BY Meanings DEF CodeForFailedFetch
    <2> QED
      BY <1>0, <2>1, <2>2, EndsKeeps
  <1>2. CASE BodyFails(x) \/ BodyRefuses(x)
    <2>1. wire[x] \in Reply /\ wire[x].status \in Answers /\ wire[x] # Sent
      BY <1>0, <1>2, Wire DEF BodyFails, BodyRefuses, CallInv, Reports, Typed, Answers
    <2>2. PICK code : /\ Ends(x, code)
                      /\ x \in applied => Meaning(code) = "uncertain"
      <3>0. x \in applied => wire[x].status \in {200, 500}
        BY <1>0, <2>1, Wire DEF CallInv, Applied, Answers
      <3>1. CASE BodyFails(x)
        BY <2>1, <3>0, <3>1, UnreadMeaning DEF BodyFails
      <3>2. CASE BodyRefuses(x)
        <4>1. wire[x].status # 200
          BY <3>2 DEF BodyRefuses, Succeeds
        <4>2. PICK problem \in Problems(x) :
                Ends(x, Refused(CodeForProblem(problem, wire[x].status), wire[x].status,
                                Named(args[x].tool)))
          BY <3>2 DEF BodyRefuses
        <4>3. problem \in Problem /\ (x \in applied => problem \notin Denial)
          BY DEF Problems
        <4> QED
          BY <2>1, <3>0, <4>1, <4>2, <4>3, ProblemMeaning
      <3> QED
        BY <1>2, <3>1, <3>2
    <2> QED
      BY <1>0, <2>1, <2>2, EndsKeeps
  <1> QED
    BY <1>1, <1>2

\* The headers of a reply, its body, and the steps that report it.
LEMMA ReplyKeeps ==
    ASSUME IInv, NEW x \in Exec, HeadersArrive(x) \/ BodyAccepted(x) \/ Step(x)
    PROVE  IInv'
  <1>0. /\ Typed /\ CallInv(x) /\ phase[x] \in {"waiting", "reading", "reporting"}
        /\ UNCHANGED <<hosted, args, answer, ran, version, keys, applied>>
        /\ answer[x] \notin {"not_run", "challenged"}
    BY DEF IInv, HeadersArrive, BodyAccepted, Step, CallInv, Unrun
  <1>1. Op(x)' = Op(x) /\ Key(x)' = Key(x) /\ Done(x)' = Done(x)
    BY <1>0 DEF Op, Key, Done
  <1>2. ASSUME NEW next \in {"waiting", "reading", "reporting"},
               phase' = [phase EXCEPT ![x] = next], UNCHANGED <<aborted, outcome>>,
               wire' \in [Exec -> Reply \cup {Idle, Sent}], progress' \in [Exec -> Nat],
               \A e \in Exec \ {x} : wire'[e] = wire[e],
               Reports(x)', Applied(x)'
        PROVE  IInv'
    <2>1. Typed' /\ Grows /\ \A e \in Exec \ {x} : Same(e)
      BY <1>0, <1>2 DEF Typed, Grows, Same
    <2>2. (NotBegun(x) /\ ArgsGiven(x) /\ Unrun(x) /\ Covered(x))'
      BY <1>0, <1>2 DEF CallInv, NotBegun, ArgsGiven, Unrun, Covered, Typed
    <2> QED
      BY <1>0, <1>2, <2>1, <2>2, OwnStep DEF CallInv
  <1>3. wire[x].status = 200 => Done(x)
    BY <1>0 DEF CallInv, Reports
  <1>4. CASE HeadersArrive(x)
    <2>1. /\ phase[x] = "waiting" /\ wire[x] \in Reply /\ wire[x] \notin {Idle, Sent}
          /\ UNCHANGED <<aborted, outcome, progress>>
      BY <1>0, <1>4 DEF HeadersArrive, Typed
    <2>2. CASE NoBody(x)
      <3>1. phase' = [phase EXCEPT ![x] = "reporting"] /\ wire' = [wire EXCEPT ![x] = Idle]
        BY <1>4, <2>2 DEF HeadersArrive
      <3>2. Done(x)
        BY <1>3, <2>1, <2>2, Wire DEF NoBody, Succeeds
      <3>3. phase'[x] = "reporting" /\ wire'[x] = Idle /\ outcome' = outcome
        BY <1>0, <2>1, <3>1 DEF Typed
      <3>4. Reports(x)'
        BY <1>1, <3>2, <3>3, Wire DEF Reports
      <3>5. Reports(x)' /\ Applied(x)'
        BY <1>0, <1>1, <3>3, <3>4, Wire DEF Applied, NotRefused, CallInv
      <3> QED
        BY <1>0, <1>2, <2>1, <3>1, <3>5 DEF Typed
    <2>3. CASE ~ NoBody(x)
      <3>1. phase' = [phase EXCEPT ![x] = "reading"] /\ wire' = wire
        BY <1>4, <2>3 DEF HeadersArrive
      <3>2. Reports(x)' /\ Applied(x)'
        BY <1>0, <1>1, <2>1, <3>1, Wire DEF Reports, Applied, NotRefused, CallInv, Typed
      <3> QED
        BY <1>0, <1>2, <2>1, <3>1, <3>2 DEF Typed
    <2> QED
      BY <2>2, <2>3
  <1>5. CASE BodyAccepted(x)
    <2>1. /\ phase[x] = "reading" /\ wire[x] \in Reply /\ wire[x] # Sent
          /\ Succeeds(wire[x].status)
      BY <1>0, <1>5 DEF BodyAccepted, CallInv, Reports, Typed
    <2>2. Done(x)
      BY <1>3, <2>1, Wire DEF Succeeds
    <2>3. CASE /\ phase' = [phase EXCEPT ![x] = "reporting"]
               /\ wire' = [wire EXCEPT ![x] = Idle]
               /\ UNCHANGED <<aborted, page, outcome, progress>>
      <3>1. Reports(x)' /\ Applied(x)'
        BY <1>0, <1>1, <2>2, <2>3, Wire DEF Reports, Applied, NotRefused, CallInv, Typed
      <3> QED
        BY <1>0, <1>2, <2>3, <3>1 DEF Typed
    <2>4. CASE /\ Op(x) = "read"
               /\ wire' = [wire EXCEPT ![x] = Sent]
               /\ phase' = [phase EXCEPT ![x] = "waiting"]
               /\ UNCHANGED <<aborted, outcome, progress>>
      <3>1. Reports(x)' /\ Applied(x)'
        BY <1>0, <1>1, <2>4, Wire DEF Reports, Applied, NotRefused, CallInv, Typed
      <3> QED
        BY <1>0, <1>2, <2>4, <3>1 DEF Typed
    <2>5. CASE Op(x) = "read" /\ \E code : Ends(x, code)
      BY <1>0, <2>1, <2>5, EndsKeeps DEF CallInv, Applied
    <2> QED
      BY <1>5, <2>3, <2>4, <2>5 DEF BodyAccepted, TooLarge
  <1>6. CASE Step(x)
    <2>1. phase[x] = "reporting" /\ wire[x] = Idle /\ Done(x)
      BY <1>0, <1>6 DEF Step, CallInv, Reports
    <2>2. CASE /\ progress' = [progress EXCEPT ![x] = @ + 1]
               /\ UNCHANGED <<phase, wire, aborted, page, outcome>>
      <3>1. phase' = [phase EXCEPT ![x] = "reporting"] /\ progress' \in [Exec -> Nat]
        BY <1>0, <2>1, <2>2 DEF Typed
      <3>2. Reports(x)' /\ Applied(x)'
        BY <1>0, <1>1, <2>1, <2>2 DEF Reports, Applied, NotRefused, CallInv
      <3> QED
        BY <1>0, <1>2, <2>2, <3>1, <3>2 DEF Typed
    <2>3. CASE Ends(x, "ok") \/ Ends(x, "internal")
      BY <1>0, <2>1, <2>3, Meanings, EndsKeeps, Wire
    <2> QED
      BY <1>6, <2>2, <2>3 DEF Step
  <1> QED
    BY <1>4, <1>5, <1>6

LEMMA CompleteKeeps ==
    ASSUME IInv, NEW x \in Exec, NEW recorded \in BOOLEAN, Complete(x, recorded)
    PROVE  IInv'
  <1>0. /\ Typed /\ CallInv(x) /\ phase[x] = "completing"
        /\ UNCHANGED <<hosted, args, aborted, progress, ran, wire, version, keys, applied>>
        /\ phase' = [phase EXCEPT ![x] = "answered"]
        /\ answer' = [answer EXCEPT ![x] = outcome[x]]
        /\ outcome' = [outcome EXCEPT ![x] = "none"]
    BY DEF IInv, Complete, Answer, collectorVars
  <1>1. answer'[x] = outcome[x] /\ outcome[x] \in Outcome /\ outcome'[x] = "none"
    BY <1>0 DEF Typed
  <1>2. outcome[x] \notin {"not_run", "challenged"}
    BY <1>1 DEF Outcome
  <1>3. (NotBegun(x) /\ Unrun(x) /\ Reports(x))'
    <2>1. Done(x) => Done(x)'
      BY <1>0 DEF Done, Op, Key
    <2>2. phase'[x] = "answered"
      BY <1>0 DEF Typed
    <2> QED
      BY <1>0, <1>1, <1>2, <2>1, <2>2 DEF CallInv, NotBegun, Unrun, Reports
  <1>4. Covered(x)'
    BY <1>0, <1>1 DEF CallInv, Covered, Unrun
  <1>5. Applied(x)'
    <2>1. Op(x)' = Op(x) /\ Key(x)' = Key(x)
      BY <1>0 DEF Op, Key
    <2> QED
      BY <1>0, <1>1, <2>1 DEF CallInv, Applied, NotRefused
  <1> QED
    BY <1>0, <1>1, <1>3, <1>4, <1>5, QuietKeeps DEF Typed, Outcome

\* The process dies: what is on its way stays so, and nobody is told anything.
LEMMA CrashKeeps == ASSUME IInv, Crash PROVE IInv'
  <1>0. /\ Typed /\ \A e \in Exec : CallInv(e)
        /\ UNCHANGED <<hosted, args, answer, ran, version, keys, applied>>
        /\ phase' = [e \in Exec |-> IF e \in InFlight THEN "lost" ELSE phase[e]]
        /\ wire' = [e \in Exec |-> IF wire[e] = Sent THEN Sent ELSE Idle]
        /\ outcome' = [e \in Exec |-> "none"] /\ progress' = [e \in Exec |-> 0]
        /\ aborted' = {}
    BY DEF IInv, Crash
  <1>1. Typed'
    BY <1>0 DEF Typed, Outcome
  <1>2. ASSUME NEW e \in Exec PROVE CallInv(e)'
    <2>1. /\ CallInv(e) /\ outcome'[e] = "none"
          /\ phase'[e] \in {"idle", "answered", "lost"} /\ (phase'[e] = phase[e] \/ phase'[e] = "lost")
          /\ phase[e] = "idle" <=> phase'[e] = "idle"
          /\ phase[e] = "answered" => phase'[e] = "answered"
          /\ wire'[e] = (IF wire[e] = Sent THEN Sent ELSE Idle)
      BY <1>0 DEF InFlight, Typed
    <2>2. (NotBegun(e) /\ ArgsGiven(e) /\ Unrun(e) /\ Covered(e) /\ Reports(e))'
      BY <1>0, <2>1, Wire DEF CallInv, NotBegun, ArgsGiven, Unrun, Covered, Reports
    <2>3. Applied(e)'
      <3>1. Op(e)' = Op(e) /\ Key(e)' = Key(e)
        BY <1>0 DEF Op, Key
      <3> QED
        BY <1>0, <2>1, <3>1, Wire DEF CallInv, Applied, NotRefused
    <2> QED
      BY <2>2, <2>3 DEF CallInv
  <1>3. RepeatsChangeNothing'
    BY <1>0 DEF IInv, RepeatsChangeNothing, SameChange, Op
  <1> QED
    BY <1>1, <1>2, <1>3 DEF IInv

\* What changes neither a call nor the Collector.
LEMMA StutterKeeps ==
    ASSUME IInv, UNCHANGED <<hosted, phase, args, wire, outcome, progress, answer, ran, version,
                             keys, applied>>,
           aborted' \subseteq Exec
    PROVE  IInv'
  <1>1. Typed' /\ Grows /\ \A e \in Exec : Same(e)
    BY DEF IInv, Typed, Grows, Same
  <1>2. \A e \in Exec : CallInv(e)'
    BY <1>1, OthersKeep DEF IInv
  <1>3. RepeatsChangeNothing'
    BY DEF IInv, RepeatsChangeNothing, SameChange, Op
  <1> QED
    BY <1>1, <1>2, <1>3 DEF IInv

LEMMA NextKeeps == ASSUME IInv, [Next]_vars PROVE IInv'
  <1>1. ASSUME NEW e \in Exec, NEW a \in Args(1 .. version), Execute(e, a) PROVE IInv'
    BY <1>1, ExecuteKeeps
  <1>2. CASE InitializeLog \/ UNCHANGED vars
    BY <1>2, StutterKeeps DEF InitializeLog, vars, callVars, collectorVars, IInv, Typed
  <1>3. ASSUME NEW e \in Exec, Collector(e) PROVE IInv'
    BY <1>3, CollectorAppliesKeeps, CollectorRefusesKeeps DEF Collector
  <1>4. ASSUME NEW e \in Exec, ReplyArrives(e) PROVE IInv'
    BY <1>4, ReplyKeeps, RequestEndsKeeps DEF ReplyArrives
  <1>5. ASSUME NEW e \in Exec, Settles(e) PROVE IInv'
    BY <1>5, RecordingKeeps, InvokeKeeps, RequestEndsKeeps, ReplyKeeps, CompleteKeeps DEF Settles
  <1>6. ASSUME NEW e \in Exec, Cancel(e) PROVE IInv'
    BY <1>6, StutterKeeps DEF Cancel, collectorVars, IInv, Typed
  <1>7. CASE Crash
    BY <1>7, CrashKeeps
  <1> QED
    BY <1>1, <1>2, <1>3, <1>4, <1>5, <1>6, <1>7 DEF Next

\* For every call: what it was answered, what its request may still do at the
\* Collector and what it has changed there agree, in every state.
THEOREM Inductive == Spec => []IInv
  <1>1. Init => IInv
    BY InitHolds
  <1>2. IInv /\ [Next]_vars => IInv'
    BY NextKeeps
  <1> QED
    BY <1>1, <1>2, PTL DEF Spec

-------------------------------------------------------------------------------
(* The theorems.                                                           *)

\* "Not run", and a challenge for scopes, are told only of calls that did not run,
\* whatever can be recorded (native-execution.ts).
THEOREM RefusedCallsNeverRan == Spec => []RefusedNeverRan
  <1>1. IInv => RefusedNeverRan
    BY DEF IInv, Typed, CallInv, Unrun, RefusedNeverRan
  <1> QED
    BY <1>1, Inductive, PTL

\* Who is told that nothing was changed, changed nothing, and never will: for any
\* replies, late or cut short, any abort and any crash (collector-resources.ts).
THEOREM RefusalsChangeNothing == Spec => []RefusalMeansUnchanged
  <1>1. IInv => RefusalMeansUnchanged
    BY DEF IInv, Typed, CallInv, Applied, NotRefused, RefusalMeansUnchanged
  <1> QED
    BY <1>1, Inductive, PTL

\* No answer denies what was done.
THEOREM RefusalsTellTheTruth == Spec => []RefusalsAreTrue
  BY RefusedCallsNeverRan, RefusalsChangeNothing, PTL DEF RefusalsAreTrue

\* Of any number of retries of one change, side by side or after a lost answer,
\* one changes something; of any number of changes to what their callers have read
\* at one etag, one does, and none overwrites another (idempotency keys, etags).
THEOREM OneOfManyApplies == Spec => []RepeatsChangeNothing
  <1>1. IInv => RepeatsChangeNothing
    BY DEF IInv
  <1> QED
    BY <1>1, Inductive, PTL

\* What a hosted caller changes is covered by the scopes of its token, for any
\* tool it may call (tool-scopes.ts).
THEOREM ChangesAreCovered == Spec => []ChangesNeedScope
  <1>1. ASSUME IInv, NEW e \in applied, hosted
        PROVE  (IF Op(e) = "delete" THEN "delete" ELSE "write") \in args[e].scopes
    <2>1. /\ e \in Exec /\ phase[e] # "idle" /\ args[e].tool \in Tools /\ Op(e) # "read"
          /\ ToolScopes(args[e].tool) \subseteq args[e].scopes
      BY <1>1 DEF IInv, Typed, CallInv, NotBegun, ArgsGiven, Unrun, Covered, Applied
    <2>2. /\ args[e].tool \in Creates \cup Updates \cup Removals
          /\ args[e].tool \notin Reads
          /\ Op(e) = "delete" <=> args[e].tool \in Removals
      BY <2>1 DEF Op, Effect, Tools, Changes, Creates, Updates, Removals, Reads, FailureReads,
         ServiceReads, TraceReads, MetricReads, CiReads, SavedQueryReads, AnnotationChanges,
         SavedQueryChanges, FailureChanges
    <2>3. ToolScopes(args[e].tool) =
              IF args[e].tool \in Removals THEN {"delete"} ELSE {"write"}
      BY <2>2 DEF ToolScopes, Removals, Creates, Updates
    <2> QED
      BY <2>1, <2>2, <2>3
  <1>2. IInv => ChangesNeedScope
    BY <1>1 DEF ChangesNeedScope, IInv, Typed
  <1> QED
    BY <1>2, Inductive, PTL

\* "cancelled" is told only to a caller that cancelled, however cancellation and
\* timeout race (collector.ts).
THEOREM OnlyCallersCancel == Spec => CancelledByCaller
  <1>1. ASSUME IInv, [Next]_vars, NEW e \in Exec, outcome'[e] = "cancelled",
               outcome[e] # "cancelled"
        PROVE  e \in aborted
    <2>0. Typed /\ CallInv(e)
      BY <1>1 DEF IInv
    <2>1. ASSUME NEW x \in Exec, NEW code, Ends(x, code), code # "cancelled" PROVE FALSE
      BY <1>1, <2>0, <2>1, EndsEffect, Meanings
    <2>2. ASSUME NEW x \in Exec, FetchFails(x) PROVE e \in aborted
      <3>1. PICK timedOut \in BOOLEAN : Ends(x, CodeForFailedFetch(x \in aborted, timedOut))
        BY <2>2 DEF FetchFails
      <3>2. x = e
        BY <1>1, <2>0, <3>1, EndsEffect
      <3> QED
        BY <2>1, <3>1, <3>2 DEF CodeForFailedFetch
    <2>3. ASSUME NEW x \in Exec, BodyFails(x) \/ BodyRefuses(x) PROVE FALSE
      <3>1. wire[x].status \in Answers
        BY <1>1, <2>3, Wire DEF BodyFails, BodyRefuses, IInv, CallInv, Reports, Typed, Answers
      <3>2. PICK code : Ends(x, code) /\ Meaning(code) # "cancelled"
        BY <2>3, <3>1, UnreadMeaning, ProblemMeaning DEF BodyFails, BodyRefuses, Problems
      <3> QED
        BY <2>1, <3>2, Meanings
    <2>4. ASSUME NEW x \in Exec, Invoke(x) \/ HeadersArrive(x) \/ BodyAccepted(x) \/ Step(x)
          PROVE  FALSE
      <3>1. outcome' = outcome \/ \E code : Ends(x, code) /\ code # "cancelled"
        BY <2>4 DEF Invoke, HeadersArrive, BodyAccepted, TooLarge, Step
      <3> QED
        BY <1>1, <2>1, <3>1
    <2>5. ASSUME \/ \E x \in Exec, recorded \in BOOLEAN : Complete(x, recorded)
                 \/ Crash
          PROVE  FALSE
      BY <1>1, <2>0, <2>5 DEF Complete, Crash, Typed
    <2>6. ASSUME \/ UNCHANGED vars \/ InitializeLog
                 \/ \E x \in Exec : \/ RunningSaved(x) \/ RunningNotSaved(x) \/ Cancel(x)
                                    \/ Collector(x)
                 \/ \E x \in Exec, a \in Args(1 .. version) : Execute(x, a)
          PROVE  FALSE
      BY <1>1, <2>6 DEF vars, callVars, InitializeLog, RunningSaved, RunningNotSaved, Cancel,
         Collector, CollectorApplies, CollectorRefuses, Execute
    <2> QED
      BY <1>1, <2>2, <2>3, <2>4, <2>5, <2>6 DEF Next, ReplyArrives, Settles
  <1>2. IInv /\ [Next]_vars =>
            [\A e \in Exec : outcome'[e] = "cancelled" /\ outcome[e] # "cancelled"
                               => e \in aborted]_outcome
    BY <1>1
  <1> QED
    BY <1>2, Inductive, PTL DEF Spec, CancelledByCaller

\* Progress tells of work that was done, to a caller that still waits
\* (request-scope.ts).
THEOREM ProgressTellsTheTruth == Spec => ProgressIsTrue
  <1>1. ASSUME IInv, [Next]_vars, NEW e \in Exec, progress'[e] > progress[e]
        PROVE  e \notin aborted /\ Done(e)
    <2>0. Typed /\ CallInv(e) /\ progress[e] \in Nat
      BY <1>1 DEF IInv, Typed
    <2>1. ASSUME NEW x \in Exec, NEW code, Ends(x, code) PROVE FALSE
      BY <1>1, <2>0, <2>1, EndsEffect
    <2>2. ASSUME NEW x \in Exec, Step(x) PROVE e \notin aborted /\ Done(e)
      <3>1. CASE /\ Notifies(x)
                 /\ progress' = [progress EXCEPT ![x] = @ + 1]
        <4>1. x = e
          BY <1>1, <2>0, <3>1
        <4> QED
          BY <2>0, <2>2, <3>1, <4>1 DEF Step, Notifies, CallInv, Reports
      <3> QED
        BY <2>1, <2>2, <3>1 DEF Step
    <2>3. ASSUME NEW x \in Exec, \/ Invoke(x) \/ HeadersArrive(x) \/ BodyAccepted(x) \/ FetchFails(x)
                                 \/ BodyFails(x) \/ BodyRefuses(x)
          PROVE  FALSE
      <3>1. progress' = progress \/ \E code : Ends(x, code)
        BY <2>3 DEF Invoke, HeadersArrive, BodyAccepted, TooLarge, FetchFails, BodyFails,
           BodyRefuses
      <3> QED
        BY <1>1, <2>0, <2>1, <3>1
    <2>4. CASE Crash
      BY <1>1, <2>0, <2>4 DEF Crash
    <2>5. ASSUME \/ UNCHANGED vars \/ InitializeLog
                 \/ \E x \in Exec : \/ RunningSaved(x) \/ RunningNotSaved(x) \/ Cancel(x)
                                    \/ Collector(x)
                 \/ \E x \in Exec, recorded \in BOOLEAN : Complete(x, recorded)
                 \/ \E x \in Exec, a \in Args(1 .. version) : Execute(x, a)
          PROVE  progress' = progress
      BY <2>5 DEF vars, callVars, InitializeLog, RunningSaved, RunningNotSaved, Cancel,
         Collector, CollectorApplies, CollectorRefuses, Complete, Execute
    <2> QED
      BY <1>1, <2>0, <2>2, <2>3, <2>4, <2>5 DEF Next, ReplyArrives, Settles
  <1>2. IInv /\ [Next]_vars =>
            [\A e \in Exec : progress'[e] > progress[e] => e \notin aborted /\ Done(e)]_progress
    BY <1>1
  <1> QED
    BY <1>2, Inductive, PTL DEF Spec, ProgressIsTrue

===============================================================================
