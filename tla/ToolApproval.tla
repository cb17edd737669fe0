---------------------------- MODULE ToolApproval ----------------------------
(***************************************************************************)
(* What the advisor promises about the tools that change data: the model   *)
(* proposes a call, the user decides on it once, and the call takes effect *)
(* once if he approved it and it worked, and never otherwise.              *)
(***************************************************************************)
CONSTANTS Calls

VARIABLES
  decision,  \* of a call: "none" (not proposed), "pending", "completed",
             \* "error" or "denied"
  applied    \* the calls that took effect

vars == <<decision, applied>>

Init ==
  /\ decision = [c \in Calls |-> "none"]
  /\ applied = {}

\* A reply of the advisor, with all the calls that it proposes.
Propose(C) ==
  /\ \A c \in C : decision[c] = "none"
  /\ decision' = [c \in Calls |-> IF c \in C THEN "pending" ELSE decision[c]]
  /\ UNCHANGED applied

Decide(c, d) ==
  /\ decision[c] = "pending"
  /\ decision' = [decision EXCEPT ![c] = d]
  /\ applied' = IF d = "completed" THEN applied \cup {c} ELSE applied

Next ==
  \/ \E C \in SUBSET Calls : Propose(C)
  \/ \E c \in Calls, d \in {"completed", "error", "denied"} : Decide(c, d)

Spec == Init /\ [][Next]_vars
=============================================================================
