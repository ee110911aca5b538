----------------------------- MODULE MCToolCalls -----------------------------
(* Constant values for the run of ToolCalls. *)
EXTENDS ToolCalls

CONSTANTS e1, e2, o1

TwoCalls == {e1, e2}
OneBefore == {o1}
AllFaults == Fault
==============================================================================
