------------------------- MODULE DocumentLifecycle --------------------------
(***************************************************************************)
(* What the document pipeline promises to somebody who only reads the      *)
(* database: a document that was accepted waits for at most MaxAttempts    *)
(* counted attempts, and then is either done, with its text and with at    *)
(* most one inbox suggestion appearing in the same instant, or in error,   *)
(* for good.  No queue, no lock, no process and no crash is visible here.  *)
(***************************************************************************)
EXTENDS Naturals

CONSTANTS Docs, MaxAttempts

VARIABLES
  phase,     \* where the document is
  tries,     \* attempts whose outcome is known
  text,      \* documents whose text can be read
  suggested  \* number of inbox suggestions made from a document

vars == <<phase, tries, text, suggested>>

Init ==
  /\ phase \in [Docs -> {"none", "waiting"}]
  /\ tries \in [Docs -> 0..MaxAttempts]
  /\ text = {}
  /\ suggested = [d \in Docs |-> 0]

Accept(d) ==
  /\ phase[d] = "none"
  /\ phase' = [phase EXCEPT ![d] = "waiting"]
  /\ UNCHANGED <<tries, text, suggested>>

\* An attempt that is charged to the document has a budget to be taken from.
Charged(d) == tries[d] < MaxAttempts /\ tries' = [tries EXCEPT ![d] = @ + 1]

Retry(d) ==
  /\ phase[d] = "waiting"
  /\ Charged(d)
  /\ tries'[d] < MaxAttempts
  /\ UNCHANGED <<phase, text, suggested>>

GiveUp(d) ==
  /\ phase[d] = "waiting"
  /\ phase' = [phase EXCEPT ![d] = "error"]
  /\ Charged(d) \/ (tries[d] = MaxAttempts /\ UNCHANGED tries)
  /\ UNCHANGED <<text, suggested>>

Complete(d) ==
  /\ phase[d] = "waiting"
  /\ phase' = [phase EXCEPT ![d] = "done"]
  /\ Charged(d)
  /\ text' = text \cup {d}
  /\ \/ UNCHANGED suggested
     \/ suggested[d] = 0 /\ suggested' = [suggested EXCEPT ![d] = 1]

Remove(d) ==
  /\ phase[d] \in {"waiting", "done", "error"}
  /\ phase' = [phase EXCEPT ![d] = "deleted"]
  /\ tries' = [tries EXCEPT ![d] = 0]
  /\ text' = text \ {d}
  /\ UNCHANGED suggested

Next == \E d \in Docs : Accept(d) \/ Retry(d) \/ GiveUp(d) \/ Complete(d) \/ Remove(d)

Spec == Init /\ [][Next]_vars
=============================================================================
