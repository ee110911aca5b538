--------------------------- MODULE DurableDocument ---------------------------
(***************************************************************************)
(* What the services of the server rely on when they keep their state in   *)
(* an AtomicJsonStore: one document, changed by one operation at a time.   *)
(* An operation that is reported as failed never took effect, one that is  *)
(* reported as done did, and the only operation whose effect is unknown is *)
(* one that a crash cut off before it was answered.                        *)
(***************************************************************************)
CONSTANTS
    Client,      \* callers; each has at most one operation outstanding
    Unreadable   \* a document that cannot be parsed or fails validation

(***************************************************************************)
(* A document is the set of the clients whose entry it holds.  That is     *)
(* enough to tell an update that was lost from one that was kept.          *)
(***************************************************************************)
Document == SUBSET Client
Kind == {"insert", "delete", "replace"}

\* The document that client c's operation of the given kind makes of d.
Effect(kind, c, d) ==
    CASE kind = "insert"  -> d \cup {c}
      [] kind = "delete"  -> d \ {c}
      [] kind = "replace" -> {c}

VARIABLES
    doc,      \* the durable document
    op,       \* op[c]: the kind of c's outstanding operation, or "none"
    applied,  \* the clients whose outstanding operation has taken effect
    outcome   \* outcome[c]: how c's last operation was answered

vars == <<doc, op, applied, outcome>>

Init ==
    /\ doc \in {Unreadable} \cup Document
    /\ op = [c \in Client |-> "none"]
    /\ applied = {}
    /\ outcome = [c \in Client |-> "none"]

Submit(c, kind) ==
    /\ op[c] = "none"
    /\ op' = [op EXCEPT ![c] = kind]
    /\ outcome' = [outcome EXCEPT ![c] = "none"]
    /\ UNCHANGED <<doc, applied>>

Apply(c) ==
    /\ op[c] # "none" /\ c \notin applied
    /\ doc # Unreadable
    /\ doc' = Effect(op[c], c, doc)
    /\ applied' = applied \cup {c}
    /\ UNCHANGED <<op, outcome>>

\* Done if and only if it took effect.
Answer(c) ==
    /\ op[c] # "none"
    /\ op' = [op EXCEPT ![c] = "none"]
    /\ applied' = applied \ {c}
    /\ outcome' = [outcome EXCEPT ![c] = IF c \in applied THEN "ok" ELSE "failed"]
    /\ UNCHANGED doc

Crash ==
    /\ op' = [c \in Client |-> "none"]
    /\ applied' = {}
    /\ outcome' = [c \in Client |-> "none"]
    /\ UNCHANGED doc

Next ==
    \/ \E c \in Client, kind \in Kind : Submit(c, kind)
    \/ \E c \in Client : Apply(c) \/ Answer(c)
    \/ Crash

Spec == Init /\ [][Next]_vars
==============================================================================
