---------------------------- MODULE AdvisorProofs ----------------------------
(***************************************************************************)
(* The advisor, the sessions of the server and the tab of the browser, for *)
(* any number of calls, requests, sessions and connections.                *)
(***************************************************************************)
EXTENDS MCAdvisorTools, DataTheorems, TLAPS

(***************************************************************************)
(* The advisor: the decisions on the calls that change data implement      *)
(* ToolApproval, and the audit trail tells what became of them.  The       *)
(* invariant says which calls a message under way has made (ones that have *)
(* no row yet, and no other message has), and what a decision under way    *)
(* has locked and read.                                                    *)
(***************************************************************************)
Deciding == {"confirm", "deny", "executed", "failed", "denied"}

\* The executions that a message has made: none of them has changed data.
MadeOK(made) ==
  /\ DOMAIN made \subseteq Calls
  /\ made \in [DOMAIN made -> [tool : Tools, status : Statuses]]
  /\ \A c \in DOMAIN made : made[c].status \in Outcomes(made[c].tool)

OpOK(o) ==
  \/ o = Idle
  \/ /\ o \in [kind : {"send"}, round : Nat, made : {o.made}, sent : SUBSET Seq(Calls)]
     /\ o.round < MaxIterations /\ MadeOK(o.made)
  \/ /\ o \in [kind : {"reply"}, made : {o.made}, sent : SUBSET Seq(Calls)]
     /\ MadeOK(o.made)
  \/ o \in [kind : Deciding, call : Calls]

OpsOK ==
  /\ DOMAIN op = Requests
  /\ \A r \in Requests : OpOK(op[r])

TablesOK ==
  /\ status \in [Calls -> Statuses \cup {"none"}]
  /\ tool \in [Calls -> Tools \cup {None}]
  /\ replies \subseteq Seq(Calls)
  /\ effects \in [Calls -> 0..1]
  /\ audit \in [Calls -> {<<>>, <<"confirm">>, <<"deny">>}]
  /\ lock \in [Calls -> Requests \cup {None}]

\* What a message has made is not stored, and no other message has made it.
MadeFresh ==
  \A r \in Requests : \A c \in Made(r) :
    /\ status[c] = "none"
    /\ \A q \in Requests \ {r} : c \notin Made(q)

\* What a request that decides has locked, and has found pending.
LockHeld ==
  \A r \in Requests : op[r].kind \in Deciding =>
    /\ lock[op[r].call] = r
    /\ op[r].kind \in {"executed", "failed", "denied"} =>
         status[op[r].call] = "pending_confirmation"

\* What the state of a call says about its audit trail and its effect.
Story ==
  \A c \in Calls :
    /\ status[c] = "pending_confirmation" => tool[c] \in Mutating
    /\ tool[c] \in Mutating \/ status[c] = "none" =>
         /\ audit[c] = CASE status[c] = "completed" -> <<"confirm">>
                         [] status[c] = "denied" -> <<"deny">>
                         [] OTHER -> <<>>
         /\ effects[c] = IF status[c] = "completed" THEN 1 ELSE 0
    /\ tool[c] \notin Mutating => effects[c] = 0

IInv == TablesOK /\ OpsOK /\ MadeFresh /\ LockHeld /\ Story

-----------------------------------------------------------------------------
\* Nothing was called at first.
LEMMA InitIInv == Init => IInv
BY DEF Init, IInv, TablesOK, OpsOK, OpOK, MadeFresh, Made, LockHeld, Story, Idle, Deciding

\* What a request at each of its kinds is.
LEMMA OpAt ==
  ASSUME OpsOK, NEW r \in Requests
  PROVE  /\ op[r].kind = "send" =>
              /\ op[r].round \in Nat /\ op[r].round < MaxIterations
              /\ MadeOK(op[r].made) /\ op[r].sent \subseteq Seq(Calls)
         /\ op[r].kind = "reply" => MadeOK(op[r].made) /\ op[r].sent \subseteq Seq(Calls)
         /\ op[r].kind \in Deciding =>
              op[r] \in [kind : Deciding, call : Calls]
         /\ op[r].kind \in Deciding => Made(r) = {}
         /\ op[r] = Idle => Made(r) = {} /\ op[r].kind \notin Deciding
BY DEF OpsOK, OpOK, Idle, Deciding, Made

\* A request that ends has made nothing and has locked nothing.
LEMMA EndKeeps ==
  ASSUME OpsOK, TablesOK, NEW r \in Requests, End(r)
  PROVE  /\ OpsOK'
         /\ lock' \in [Calls -> Requests \cup {None}]
         /\ Made(r)' = {}
         /\ op'[r].kind \notin Deciding
         /\ \A q \in Requests \ {r} : op'[q] = op[q] /\ Made(q)' = Made(q)
         /\ \A c \in Calls : lock[c] # r => lock'[c] = lock[c]
<1>1. op'[r] = Idle /\ \A q \in Requests \ {r} : op'[q] = op[q] BY DEF End, OpsOK
<1>2. OpsOK' BY <1>1 DEF OpsOK, OpOK, End
<1>3. lock' \in [Calls -> Requests \cup {None}] BY DEF End, TablesOK
<1>4. Made(r)' = {} /\ op'[r].kind \notin Deciding BY <1>1 DEF Made, Idle, Deciding
<1>5. \A q \in Requests \ {r} : Made(q)' = Made(q) BY <1>1 DEF Made
<1> QED BY <1>1, <1>2, <1>3, <1>4, <1>5 DEF End

LEMMA RollbackStep ==
  ASSUME IInv, NEW r \in Requests, End(r), UNCHANGED tables
  PROVE  IInv'
<1> USE DEF IInv
<1>1. TablesOK' BY EndKeeps DEF TablesOK, tables
<1>2. OpsOK' BY EndKeeps
<1>3. MadeFresh' BY EndKeeps DEF MadeFresh, tables
<1>4. LockHeld'
  <2> SUFFICES ASSUME NEW q \in Requests, op'[q].kind \in Deciding
               PROVE  /\ lock'[op'[q].call] = q
                      /\ op'[q].kind \in {"executed", "failed", "denied"} =>
                           status'[op'[q].call] = "pending_confirmation"
    BY DEF LockHeld
  <2>1. q # r /\ op'[q] = op[q] BY EndKeeps
  <2>2. op[q].call \in Calls /\ lock[op[q].call] = q BY <2>1, OpAt DEF LockHeld
  <2> QED BY <2>1, <2>2, EndKeeps DEF LockHeld, tables
<1>5. Story' BY DEF Story, tables
<1> QED BY <1>1, <1>2, <1>3, <1>4, <1>5

LEMMA SendStartStep ==
  ASSUME IInv, NEW r \in Requests, SendStart(r)
  PROVE  IInv'
<1> USE DEF IInv
<1>1. /\ op'[r] = Sending(0, <<>>, {}) /\ \A q \in Requests \ {r} : op'[q] = op[q]
      /\ DOMAIN op' = Requests /\ UNCHANGED <<tables, lock>>
  BY DEF SendStart, OpsOK
<1>2. MadeOK(<<>>) /\ DOMAIN <<>> = {} BY DEF MadeOK
<1>3. OpOK(op'[r]) BY <1>1, <1>2, IterationsAssumption DEF OpOK, Sending
<1>4. OpsOK' BY <1>1, <1>3 DEF OpsOK, OpOK
<1>5. Made(r)' = {} /\ \A q \in Requests \ {r} : Made(q)' = Made(q)
  BY <1>1, <1>2 DEF Made, Sending
<1>6. TablesOK' BY <1>1 DEF TablesOK, tables
<1>7. MadeFresh' BY <1>1, <1>5 DEF MadeFresh, tables
<1>8. LockHeld' BY <1>1 DEF LockHeld, tables, Sending, Deciding
<1>9. Story' BY <1>1 DEF Story, tables
<1> QED BY <1>4, <1>6, <1>7, <1>8, <1>9

\* Sequences of calls without repetition are sequences of calls.
LEMMA SequencesOfCalls ==
  ASSUME NEW C \in SUBSET Calls, NEW s \in SetToSeqs(C)
  PROVE  s \in Seq(Calls)
<1>1. IsFiniteSet(C) BY CallsAssumption, FS_Subset
<1>2. Cardinality(C) \in Nat BY <1>1, FS_CardinalityType
<1>3. s \in [1..Cardinality(C) -> C] BY DEF SetToSeqs
<1> QED BY <1>2, <1>3

LEMMA ModelCallsStep ==
  ASSUME IInv, NEW r \in Requests, ModelCalls(r)
  PROVE  IInv'
<1> USE DEF IInv
<1>0. PICK C \in SUBSET FreeCalls \ {{}} : \E s \in SetToSeqs(C) :
        \E new \in [C -> [tool : Tools, status : Statuses]] :
          /\ \A c \in C : new[c].status \in Outcomes(new[c].tool)
          /\ op' = [op EXCEPT ![r] =
               IF Waiting(Merge(op[r].made, new)) \/ LastRound(r)
                 THEN [kind |-> "reply", made |-> Merge(op[r].made, new),
                       sent |-> op[r].sent \cup {s}]
                 ELSE Sending(op[r].round + 1, Merge(op[r].made, new), op[r].sent \cup {s})]
  BY DEF ModelCalls
<1>a. PICK s \in SetToSeqs(C), new \in [C -> [tool : Tools, status : Statuses]] :
        /\ \A c \in C : new[c].status \in Outcomes(new[c].tool)
        /\ op' = [op EXCEPT ![r] =
             IF Waiting(Merge(op[r].made, new)) \/ LastRound(r)
               THEN [kind |-> "reply", made |-> Merge(op[r].made, new),
                     sent |-> op[r].sent \cup {s}]
               ELSE Sending(op[r].round + 1, Merge(op[r].made, new), op[r].sent \cup {s})]
  BY <1>0
<1> DEFINE made == Merge(op[r].made, new)
           sent == op[r].sent \cup {s}
<1>1. /\ op[r].kind = "send" /\ op[r].round \in Nat /\ op[r].round < MaxIterations
      /\ MadeOK(op[r].made) /\ op[r].sent \subseteq Seq(Calls)
      /\ UNCHANGED <<tables, lock>>
  BY OpAt DEF ModelCalls
<1>2. C \subseteq Calls /\ \A c \in C : status[c] = "none" /\ \A q \in Requests : c \notin Made(q)
  BY DEF FreeCalls
<1>3. DOMAIN made = DOMAIN op[r].made \cup C BY DEF Merge
<1>4. MadeOK(made)
  <2>1. \A c \in DOMAIN made : made[c] = IF c \in C THEN new[c] ELSE op[r].made[c]
    BY <1>3 DEF Merge
  <2>2. DOMAIN made \subseteq Calls BY <1>1, <1>2, <1>3 DEF MadeOK
  <2>3. \A c \in DOMAIN made : /\ made[c] \in [tool : Tools, status : Statuses]
                              /\ made[c].status \in Outcomes(made[c].tool)
    BY <1>a, <1>1, <1>3, <2>1 DEF MadeOK
  <2>4. made \in [DOMAIN made -> [tool : Tools, status : Statuses]]
    BY <2>3 DEF Merge
  <2> HIDE DEF made
  <2> QED BY <2>2, <2>3, <2>4 DEF MadeOK
<1>5. sent \subseteq Seq(Calls) BY <1>1, <1>2, SequencesOfCalls
<1> HIDE DEF made, sent
<1>6. /\ op'[r] = IF Waiting(made) \/ LastRound(r)
                    THEN [kind |-> "reply", made |-> made, sent |-> sent]
                    ELSE Sending(op[r].round + 1, made, sent)
      /\ \A q \in Requests \ {r} : op'[q] = op[q]
      /\ DOMAIN op' = Requests
  BY <1>a DEF OpsOK, made, sent
<1>7. OpOK(op'[r])
  <2>1. CASE Waiting(made) \/ LastRound(r) BY <2>1, <1>4, <1>5, <1>6 DEF OpOK
  <2>2. CASE ~(Waiting(made) \/ LastRound(r))
    <3>1. op[r].round + 1 \in Nat /\ op[r].round + 1 < MaxIterations
      BY <2>2, <1>1, IterationsAssumption DEF LastRound
    <3> QED BY <2>2, <3>1, <1>4, <1>5, <1>6 DEF OpOK, Sending
  <2> QED BY <2>1, <2>2
<1>8. OpsOK' BY <1>6, <1>7 DEF OpsOK, OpOK
<1>9. Made(r)' = Made(r) \cup C /\ \A q \in Requests \ {r} : Made(q)' = Made(q)
  <2>1. Made(r)' = DOMAIN made BY <1>6 DEF Made, Sending
  <2> QED BY <2>1, <1>1, <1>3, <1>6 DEF Made
<1>10. TablesOK' BY <1>1 DEF TablesOK, tables
<1>11. MadeFresh' BY <1>1, <1>2, <1>9 DEF MadeFresh, tables
<1>12. LockHeld' BY <1>1, <1>6 DEF LockHeld, tables, Sending, Deciding
<1>13. Story' BY <1>1 DEF Story, tables
<1> QED BY <1>8, <1>10, <1>11, <1>12, <1>13

LEMMA ModelAnswersStep ==
  ASSUME IInv, NEW r \in Requests, ModelAnswers(r)
  PROVE  IInv'
<1> USE DEF IInv
<1>1. /\ op[r].kind = "send" /\ MadeOK(op[r].made) /\ op[r].sent \subseteq Seq(Calls)
      /\ UNCHANGED <<tables, lock>>
      /\ op'[r] = [kind |-> "reply", made |-> op[r].made, sent |-> op[r].sent]
      /\ \A q \in Requests \ {r} : op'[q] = op[q]
      /\ DOMAIN op' = Requests
  BY OpAt DEF ModelAnswers, OpsOK
<1>2. OpsOK' BY <1>1 DEF OpsOK, OpOK
<1>3. \A q \in Requests : Made(q)' = Made(q) BY <1>1 DEF Made
<1>4. TablesOK' BY <1>1 DEF TablesOK, tables
<1>5. MadeFresh' BY <1>1, <1>3 DEF MadeFresh, tables
<1>6. LockHeld' BY <1>1 DEF LockHeld, tables, Deciding
<1>7. Story' BY <1>1 DEF Story, tables
<1> QED BY <1>2, <1>4, <1>5, <1>6, <1>7

\* What SendCommit stores of the calls that a message has made.
LEMMA Stored ==
  ASSUME IInv, NEW r \in Requests, SendCommit(r)
  PROVE  LET made == op[r].made
         IN  /\ MadeOK(made) /\ op[r].sent \subseteq Seq(Calls) /\ DOMAIN made = Made(r)
             /\ \A c \in DOMAIN made :
                  /\ status[c] = "none"
                  /\ status'[c] = made[c].status /\ tool'[c] = made[c].tool
                  /\ made[c].status \in IF made[c].tool \in Mutating
                                          THEN {"pending_confirmation"} ELSE {"completed", "error"}
             /\ \A c \in Calls \ DOMAIN made : status'[c] = status[c] /\ tool'[c] = tool[c]
             /\ effects' = effects
             /\ DOMAIN status' = Calls /\ DOMAIN tool' = Calls
<1> USE DEF IInv
<1> DEFINE made == op[r].made
<1>1. MadeOK(made) /\ op[r].sent \subseteq Seq(Calls) /\ op[r].kind = "reply" /\ DOMAIN made = Made(r)
  BY OpAt DEF SendCommit, Made
<1>2. \A c \in DOMAIN made : status[c] = "none" BY <1>1 DEF MadeFresh
<1>3. /\ status' = Merge(status, [c \in DOMAIN made |-> made[c].status])
      /\ tool' = Merge(tool, [c \in DOMAIN made |-> made[c].tool])
      /\ effects' = [c \in Calls |->
           IF c \in DOMAIN made /\ made[c].tool \in Mutating /\ made[c].status = "completed"
             THEN effects[c] + 1 ELSE effects[c]]
  BY DEF SendCommit
<1>4. DOMAIN made \subseteq Calls /\ DOMAIN status = Calls /\ DOMAIN tool = Calls
  BY <1>1 DEF MadeOK, TablesOK
<1>5. \A c \in DOMAIN made :
        made[c].status \in IF made[c].tool \in Mutating
                             THEN {"pending_confirmation"} ELSE {"completed", "error"}
  BY <1>1 DEF MadeOK, Outcomes, Mutating
<1> HIDE DEF made
<1>6. /\ DOMAIN status' = Calls /\ DOMAIN tool' = Calls
      /\ \A c \in DOMAIN made : status'[c] = made[c].status /\ tool'[c] = made[c].tool
      /\ \A c \in Calls \ DOMAIN made : status'[c] = status[c] /\ tool'[c] = tool[c]
  BY <1>3, <1>4 DEF Merge
<1>7. effects' = effects BY <1>3, <1>5 DEF TablesOK
<1> QED BY <1>1, <1>2, <1>5, <1>6, <1>7 DEF made

LEMMA SendCommitStep ==
  ASSUME IInv, NEW r \in Requests, SendCommit(r)
  PROVE  IInv'
<1> DEFINE made == op[r].made
<1>1. /\ MadeOK(made) /\ op[r].sent \subseteq Seq(Calls) /\ DOMAIN made = Made(r)
      /\ \A c \in DOMAIN made :
           /\ status[c] = "none"
           /\ status'[c] = made[c].status /\ tool'[c] = made[c].tool
           /\ made[c].status \in IF made[c].tool \in Mutating
                                   THEN {"pending_confirmation"} ELSE {"completed", "error"}
      /\ \A c \in Calls \ DOMAIN made : status'[c] = status[c] /\ tool'[c] = tool[c]
      /\ effects' = effects
      /\ DOMAIN status' = Calls /\ DOMAIN tool' = Calls
  BY Stored
<1>2. End(r) /\ UNCHANGED audit /\ replies' = replies \cup op[r].sent
  BY DEF SendCommit
<1> USE DEF IInv
<1>3. OpsOK' /\ lock' \in [Calls -> Requests \cup {None}] BY <1>2, EndKeeps
<1>4. \A c \in DOMAIN made : made[c].tool \in Tools /\ made[c].status \in Statuses
  BY <1>1 DEF MadeOK
<1>5. DOMAIN made \subseteq Calls BY <1>1 DEF MadeOK
<1>6. status' = [c \in Calls |-> status'[c]] /\ tool' = [c \in Calls |-> tool'[c]]
  <2>1. status' = [c \in DOMAIN status' |-> status'[c]] /\ tool' = [c \in DOMAIN tool' |-> tool'[c]]
    BY DEF SendCommit, Merge
  <2> QED BY <1>1, <2>1
<1> HIDE DEF made
<1>7. TablesOK'
  <2>1. \A c \in Calls : status'[c] \in Statuses \cup {"none"} /\ tool'[c] \in Tools \cup {None}
    BY <1>1, <1>4 DEF TablesOK
  <2>2. status' \in [Calls -> Statuses \cup {"none"}] /\ tool' \in [Calls -> Tools \cup {None}]
    BY <1>6, <2>1
  <2> QED BY <2>2, <1>1, <1>2, <1>3 DEF TablesOK
<1>8. MadeFresh'
  <2> SUFFICES ASSUME NEW q \in Requests, NEW c \in Made(q)'
               PROVE  status'[c] = "none" /\ \A p \in Requests \ {q} : c \notin Made(p)'
    BY DEF MadeFresh
  <2>1. q # r /\ c \in Made(q) BY <1>2, EndKeeps
  <2>2. c \notin DOMAIN made /\ status[c] = "none" /\ c \in Calls
    BY <2>1, <1>1, OpAt DEF MadeFresh, Made, MadeOK
  <2> QED BY <2>1, <2>2, <1>1, <1>2, EndKeeps DEF MadeFresh
<1>9. LockHeld'
  <2> SUFFICES ASSUME NEW q \in Requests, op'[q].kind \in Deciding
               PROVE  /\ lock'[op'[q].call] = q
                      /\ op'[q].kind \in {"executed", "failed", "denied"} =>
                           status'[op'[q].call] = "pending_confirmation"
    BY DEF LockHeld
  <2>1. q # r /\ op'[q] = op[q] BY <1>2, EndKeeps
  <2>2. op[q].call \in Calls /\ lock[op[q].call] = q BY <2>1, OpAt DEF LockHeld
  <2>3. op[q].kind \in {"executed", "failed", "denied"} => op[q].call \notin DOMAIN made
    BY <2>1, <1>1 DEF LockHeld
  <2> QED BY <2>1, <2>2, <2>3, <1>1, <1>2, EndKeeps DEF LockHeld
<1>10. Story'
  <2> SUFFICES ASSUME NEW c \in Calls
               PROVE  /\ status'[c] = "pending_confirmation" => tool'[c] \in Mutating
                      /\ tool'[c] \in Mutating \/ status'[c] = "none" =>
                           /\ audit'[c] = CASE status'[c] = "completed" -> <<"confirm">>
                                            [] status'[c] = "denied" -> <<"deny">>
                                            [] OTHER -> <<>>
                           /\ effects'[c] = IF status'[c] = "completed" THEN 1 ELSE 0
                      /\ tool'[c] \notin Mutating => effects'[c] = 0
    BY DEF Story
  <2>1. CASE c \in DOMAIN made
    <3>1. audit[c] = <<>> /\ effects[c] = 0 BY <2>1, <1>1 DEF Story
    <3>2. tool'[c] \in Mutating => status'[c] = "pending_confirmation" BY <2>1, <1>1
    <3>3. status'[c] \in {"pending_confirmation", "completed", "error"}
          /\ (status'[c] = "pending_confirmation" => tool'[c] \in Mutating)
      BY <2>1, <1>1
    <3> QED BY <3>1, <3>2, <3>3, <1>1, <1>2
  <2>2. CASE c \notin DOMAIN made BY <2>2, <1>1, <1>2 DEF Story
  <2> QED BY <2>1, <2>2
<1> QED BY <1>3, <1>7, <1>8, <1>9, <1>10

LEMMA OpenStep ==
  ASSUME IInv, NEW r \in Requests, NEW c \in Calls, NEW kind \in {"confirm", "deny"},
         Open(r, c, kind)
  PROVE  IInv'
<1> USE DEF IInv
<1>1. /\ op[r] = Idle /\ lock[c] = None
      /\ op'[r] = [kind |-> kind, call |-> c] /\ \A q \in Requests \ {r} : op'[q] = op[q]
      /\ DOMAIN op' = Requests
      /\ lock'[c] = r /\ \A d \in Calls \ {c} : lock'[d] = lock[d]
      /\ UNCHANGED tables
  BY DEF Open, Free, OpsOK, TablesOK
<1>2. OpsOK' BY <1>1 DEF OpsOK, OpOK, Deciding
<1>3. TablesOK' BY DEF Open, TablesOK, tables
<1>4. Made(r)' = {} /\ \A q \in Requests \ {r} : Made(q)' = Made(q) BY <1>1 DEF Made
<1>5. MadeFresh' BY <1>1, <1>4 DEF MadeFresh, tables
<1>6. LockHeld'
  <2> SUFFICES ASSUME NEW q \in Requests, op'[q].kind \in Deciding
               PROVE  /\ lock'[op'[q].call] = q
                      /\ op'[q].kind \in {"executed", "failed", "denied"} =>
                           status'[op'[q].call] = "pending_confirmation"
    BY DEF LockHeld
  <2>1. CASE q = r BY <2>1, <1>1
  <2>2. CASE q # r
    <3>1. op[q].call \in Calls /\ lock[op[q].call] = q BY <2>2, <1>1, OpAt DEF LockHeld
    <3>2. op[q].call # c BY <3>1, <1>1, NoneAssumption
    <3> QED BY <2>2, <3>1, <3>2, <1>1 DEF LockHeld, tables
  <2> QED BY <2>1, <2>2
<1>7. Story' BY <1>1 DEF Story, tables
<1> QED BY <1>2, <1>3, <1>5, <1>6, <1>7

\* A decision goes on, with what it has locked and found pending.
LEMMA GoesOn ==
  ASSUME IInv, NEW r \in Requests, op[r].kind \in {"confirm", "deny"}, Pending(r),
         NEW k \in {"executed", "failed", "denied"},
         op' = [op EXCEPT ![r].kind = k], UNCHANGED <<tables, lock>>
  PROVE  IInv'
<1> USE DEF IInv
<1>1. op[r] \in [kind : Deciding, call : Calls] /\ lock[op[r].call] = r
  BY OpAt DEF Deciding, LockHeld
<1>2. /\ op'[r] = [kind |-> k, call |-> op[r].call]
      /\ \A q \in Requests \ {r} : op'[q] = op[q] /\ DOMAIN op' = Requests
  BY <1>1 DEF OpsOK
<1>3. OpsOK'
  <2>1. DOMAIN op' = Requests BY DEF OpsOK
  <2> QED BY <1>1, <1>2, <2>1 DEF OpsOK, OpOK, Deciding
<1>4. Made(r)' = {} /\ Made(r) = {} /\ \A q \in Requests \ {r} : Made(q)' = Made(q)
  BY <1>2, OpAt DEF Made, Deciding
<1>5. TablesOK' BY DEF TablesOK, tables
<1>6. MadeFresh' BY <1>4 DEF MadeFresh, tables
<1>7. LockHeld' BY <1>1, <1>2 DEF LockHeld, tables, Pending
<1>8. Story' BY DEF Story, tables
<1> QED BY <1>3, <1>5, <1>6, <1>7, <1>8

\* A decision ends with d; it is the only one on a call that changes data.
LEMMA Decided ==
  ASSUME IInv, NEW r \in Requests, op[r].kind \in {"executed", "failed", "denied"},
         NEW d \in {"completed", "error", "denied"},
         status' = [status EXCEPT ![op[r].call] = d],
         effects' = [effects EXCEPT ![op[r].call] = @ + (IF d = "completed" THEN 1 ELSE 0)],
         audit' = [audit EXCEPT ![op[r].call] =
           CASE d = "completed" -> <<"confirm">> [] d = "denied" -> <<"deny">> [] OTHER -> @],
         End(r), UNCHANGED <<tool, replies>>
  PROVE  IInv'
<1> USE DEF IInv
<1> DEFINE c == op[r].call
<1>1. c \in Calls /\ lock[c] = r /\ status[c] = "pending_confirmation" /\ tool[c] \in Mutating
      /\ audit[c] = <<>> /\ effects[c] = 0
  BY OpAt DEF Deciding, LockHeld, Story
<1>2. /\ status'[c] = d /\ effects'[c] = IF d = "completed" THEN 1 ELSE 0
      /\ audit'[c] = CASE d = "completed" -> <<"confirm">> [] d = "denied" -> <<"deny">>
                       [] OTHER -> <<>>
      /\ \A e \in Calls \ {c} :
           status'[e] = status[e] /\ effects'[e] = effects[e] /\ audit'[e] = audit[e]
  BY <1>1 DEF TablesOK
<1>3. OpsOK' /\ lock' \in [Calls -> Requests \cup {None}] BY EndKeeps
<1>4. TablesOK'
  <2>1. status' \in [Calls -> Statuses \cup {"none"}] BY DEF TablesOK, Statuses
  <2>2. effects' \in [Calls -> 0..1] BY <1>1 DEF TablesOK
  <2>3. audit' \in [Calls -> {<<>>, <<"confirm">>, <<"deny">>}] BY <1>1 DEF TablesOK
  <2> QED BY <1>3, <2>1, <2>2, <2>3 DEF TablesOK
<1> HIDE DEF c
<1>5. MadeFresh'
  <2>1. \A q \in Requests : c \notin Made(q) BY <1>1 DEF MadeFresh
  <2>2. \A q \in Requests : \A e \in Made(q) : e \in Calls BY OpAt DEF Made, MadeOK
  <2> QED BY <2>1, <2>2, <1>2, EndKeeps DEF MadeFresh
<1>6. LockHeld'
  <2> SUFFICES ASSUME NEW q \in Requests, op'[q].kind \in Deciding
               PROVE  /\ lock'[op'[q].call] = q
                      /\ op'[q].kind \in {"executed", "failed", "denied"} =>
                           status'[op'[q].call] = "pending_confirmation"
    BY DEF LockHeld
  <2>1. q # r /\ op'[q] = op[q] BY EndKeeps
  <2>2. op[q].call \in Calls /\ lock[op[q].call] = q BY <2>1, OpAt DEF LockHeld
  <2>3. op[q].call # c BY <2>1, <2>2, <1>1
  <2> QED BY <2>1, <2>2, <2>3, <1>2, EndKeeps DEF LockHeld
<1>7. Story'
  <2> SUFFICES ASSUME NEW e \in Calls
               PROVE  /\ status'[e] = "pending_confirmation" => tool'[e] \in Mutating
                      /\ tool'[e] \in Mutating \/ status'[e] = "none" =>
                           /\ audit'[e] = CASE status'[e] = "completed" -> <<"confirm">>
                                            [] status'[e] = "denied" -> <<"deny">>
                                            [] OTHER -> <<>>
                           /\ effects'[e] = IF status'[e] = "completed" THEN 1 ELSE 0
                      /\ tool'[e] \notin Mutating => effects'[e] = 0
    BY DEF Story
  <2>1. CASE e = c BY <2>1, <1>1, <1>2
  <2>2. CASE e # c BY <2>2, <1>2 DEF Story
  <2> QED BY <2>1, <2>2
<1> QED BY <1>3, <1>4, <1>5, <1>6, <1>7

LEMMA AppendToEmpty == ASSUME NEW x PROVE Append(<<>>, x) = <<x>>
OBVIOUS

LEMMA DecisionSteps ==
  ASSUME IInv, NEW r \in Requests,
         \/ ConfirmExecute(r) \/ DenyCheck(r)
         \/ ConfirmFailed(r) \/ ConfirmCommit(r) \/ DenyCommit(r)
  PROVE  IInv'
<1>0. op[r].kind \in {"executed", "failed", "denied"} =>
        /\ op[r].call \in Calls
        /\ audit[op[r].call] = <<>> /\ effects[op[r].call] = 0
        /\ DOMAIN audit = Calls /\ DOMAIN effects = Calls
  BY OpAt DEF IInv, Deciding, LockHeld, Story, TablesOK
<1>1. CASE ConfirmExecute(r) BY <1>1, GoesOn DEF ConfirmExecute
<1>2. CASE DenyCheck(r) BY <1>2, GoesOn DEF DenyCheck
<1>3. CASE ConfirmFailed(r)
  <2>1. effects' = [effects EXCEPT ![op[r].call] = @ + 0]
        /\ audit' = [audit EXCEPT ![op[r].call] = @]
    BY <1>0, <1>3 DEF ConfirmFailed, IInv, TablesOK
  <2> QED BY <1>3, <2>1, Decided DEF ConfirmFailed
<1>4. CASE ConfirmCommit(r)
  <2>1. audit' = [audit EXCEPT ![op[r].call] = <<"confirm">>]
    <3>1. audit' = [audit EXCEPT ![op[r].call] = Append(audit[op[r].call], "confirm")]
          /\ audit[op[r].call] = <<>>
      BY <1>0, <1>4 DEF ConfirmCommit
    <3> QED BY <3>1, AppendToEmpty
  <2> QED BY <1>4, <2>1, Decided DEF ConfirmCommit
<1>5. CASE DenyCommit(r)
  <2>1. effects' = [effects EXCEPT ![op[r].call] = @ + 0]
        /\ audit' = [audit EXCEPT ![op[r].call] = <<"deny">>]
    <3>1. audit' = [audit EXCEPT ![op[r].call] = Append(audit[op[r].call], "deny")]
          /\ audit[op[r].call] = <<>> /\ effects' = effects
      BY <1>0, <1>5 DEF DenyCommit
    <3>2. effects' = [effects EXCEPT ![op[r].call] = @ + 0]
      BY <1>0, <1>5, <3>1 DEF IInv, TablesOK
    <3> QED BY <3>1, <3>2, AppendToEmpty
  <2> QED BY <1>5, <2>1, Decided DEF DenyCommit
<1> QED BY <1>1, <1>2, <1>3, <1>4, <1>5

-----------------------------------------------------------------------------
\* Every step of a request keeps the invariant.
LEMMA NextIInv == IInv /\ [Next]_vars => IInv'
<1> SUFFICES ASSUME IInv, [Next]_vars PROVE IInv'
  OBVIOUS
<1>1. CASE UNCHANGED vars
  BY <1>1 DEF IInv, vars, TablesOK, OpsOK, OpOK, MadeFresh, Made, LockHeld, Story
<1>2. CASE Next
  <2>1. PICK r \in Requests : RequestStep(r) BY <1>2 DEF Next
  <2>2. CASE \E c \in Calls : ConfirmOpen(r, c) \/ DenyOpen(r, c)
    BY <2>2, OpenStep DEF ConfirmOpen, DenyOpen
  <2>3. CASE NotPending(r) \/ Rollback(r)
    BY <2>3, RollbackStep DEF NotPending, Rollback
  <2> QED BY <2>1, <2>2, <2>3, SendStartStep, ModelCallsStep, ModelAnswersStep, SendCommitStep,
             DecisionSteps DEF RequestStep
<1> QED BY <1>1, <1>2

\* A message's calls have no row yet and are nobody else's; a decision has the row
\* of its call locked, as it was read (send_message, confirm_tool_execution).
THEOREM InductiveInvariant == Spec => []IInv
BY InitIInv, NextIInv, PTL DEF Spec

\* The tables and the messages under way are well formed (ToolExecution, Message,
\* MAX_TOOL_ITERATIONS).
THEOREM TypeCorrect == Spec => []TypeOK
<1>1. IInv => TypeOK
  <2> SUFFICES ASSUME IInv PROVE TypeOK OBVIOUS
  <2>1. \A r \in Requests : op[r].kind \in {"send", "reply"} => MadeType(op[r].made)
    BY OpAt DEF IInv, MadeOK, MadeType
  <2>2. \A r \in Requests : op[r].kind = "send" => op[r].round \in 0..MaxIterations - 1
    BY OpAt, IterationsAssumption DEF IInv
  <2> QED BY <2>1, <2>2 DEF IInv, TablesOK, TypeOK
<1> QED BY <1>1, InductiveInvariant, PTL

\* However many requests decide on the calls of a conversation, the audit trail of a
\* call that changes data tells what became of it, and it takes effect once if it is
\* completed and never otherwise (confirm_tool_execution, deny_tool_execution).
THEOREM AuditIsTrue == Spec => []AuditTellsDecisions
<1>1. IInv => AuditTellsDecisions
  <2> SUFFICES ASSUME IInv, NEW c \in Calls, tool[c] \in Mutating
               PROVE  /\ audit[c] = <<"confirm">> <=> status[c] = "completed"
                      /\ audit[c] = <<"deny">> <=> status[c] = "denied"
                      /\ effects[c] = IF audit[c] = <<"confirm">> THEN 1 ELSE 0
    BY DEF AuditTellsDecisions
  <2>1. <<"confirm">> # <<"deny">> /\ <<"confirm">> # <<>> /\ <<"deny">> # <<>>
    OBVIOUS
  <2> QED BY <2>1 DEF IInv, Story
<1> QED BY <1>1, InductiveInvariant, PTL

-----------------------------------------------------------------------------
(***************************************************************************)
(* The refinement.                                                         *)
(***************************************************************************)
Applied == {c \in Calls : effects[c] = 1}

\* A reply that is stored proposes its calls that change data.
LEMMA ProposeStep ==
  ASSUME IInv, NEW r \in Requests, SendCommit(r)
  PROVE  Approval!Next
<1> DEFINE made == op[r].made
           C == {c \in DOMAIN made : made[c].tool \in Mutating}
<1>1. /\ MadeOK(made)
      /\ \A c \in DOMAIN made :
           /\ status[c] = "none"
           /\ status'[c] = made[c].status /\ tool'[c] = made[c].tool
           /\ made[c].status \in IF made[c].tool \in Mutating
                                   THEN {"pending_confirmation"} ELSE {"completed", "error"}
      /\ \A c \in Calls \ DOMAIN made : status'[c] = status[c] /\ tool'[c] = tool[c]
      /\ effects' = effects
  BY Stored
<1>2. C \in SUBSET Calls BY <1>1 DEF MadeOK
<1>3. \A c \in C : Decision(c) = "none" BY <1>1 DEF Decision
<1>4. \A c \in Calls : Decision(c)' = IF c \in C THEN "pending" ELSE Decision(c)
  BY <1>1 DEF Decision
<1> HIDE DEF C
<1>5. Approval!Propose(C) BY <1>1, <1>2, <1>3, <1>4 DEF Approval!Propose
<1> QED BY <1>2, <1>5 DEF Approval!Next

\* The end of a decision decides.
LEMMA DecideStep ==
  ASSUME IInv, NEW r \in Requests, ConfirmFailed(r) \/ ConfirmCommit(r) \/ DenyCommit(r)
  PROVE  Approval!Next
<1> DEFINE c == op[r].call
           d == IF op[r].kind = "executed" THEN "completed"
                ELSE IF op[r].kind = "failed" THEN "error" ELSE "denied"
<1>1. /\ c \in Calls /\ status[c] = "pending_confirmation" /\ tool[c] \in Mutating
      /\ effects[c] = 0 /\ op[r].kind \in {"executed", "failed", "denied"}
  BY OpAt DEF IInv, Deciding, LockHeld, Story, ConfirmFailed, ConfirmCommit, DenyCommit
<1>2. /\ status' = [status EXCEPT ![c] = d] /\ UNCHANGED tool
      /\ effects' = IF d = "completed" THEN [effects EXCEPT ![c] = @ + 1] ELSE effects
  BY DEF ConfirmFailed, ConfirmCommit, DenyCommit
<1>3. d \in {"completed", "error", "denied"} OBVIOUS
<1> HIDE DEF c, d
<1>4. Decision(c) = "pending" BY <1>1 DEF Decision
<1>5. \A e \in Calls : Decision(e)' = IF e = c THEN d ELSE Decision(e)
  BY <1>1, <1>2, <1>3 DEF Decision, IInv, TablesOK
<1>6. Applied' = IF d = "completed" THEN Applied \cup {c} ELSE Applied
  BY <1>1, <1>2 DEF Applied, IInv, TablesOK
<1>7. Approval!Decide(c, d) BY <1>1, <1>4, <1>5, <1>6 DEF Approval!Decide, Applied
<1>8. \E e \in Calls, x \in {"completed", "error", "denied"} : Approval!Decide(e, x)
  <2>1. ASSUME NEW e \in Calls, NEW x \in {"completed", "error", "denied"}, e = c, x = d
        PROVE  Approval!Decide(e, x)
    BY <2>1, <1>7 DEF Approval!Decide
  <2> QED BY <2>1, <1>1, <1>3
<1> QED BY <1>8 DEF Approval!Next

\* The advisor keeps what ToolApproval promises: a call that changes data takes
\* effect only if the user confirmed it, and then once.
THEOREM Refinement == Spec => ImplementsApproval
<1>1. Init => Approval!Init
  BY DEF Init, Approval!Init, Decision
<1>2. IInv /\ [Next]_vars => [Approval!Next]_Approval!vars
  <2> SUFFICES ASSUME IInv, [Next]_vars PROVE Approval!Next \/ UNCHANGED Approval!vars
    OBVIOUS
  <2>1. CASE UNCHANGED <<status, tool, effects>>
    BY <2>1 DEF Approval!vars, Decision
  <2>2. CASE UNCHANGED vars BY <2>1, <2>2 DEF vars
  <2>3. CASE Next
    <3>1. PICK r \in Requests : RequestStep(r) BY <2>3 DEF Next
    <3>2. CASE \/ SendStart(r) \/ ModelCalls(r) \/ ModelAnswers(r)
               \/ \E c \in Calls : ConfirmOpen(r, c) \/ DenyOpen(r, c)
               \/ NotPending(r) \/ ConfirmExecute(r) \/ DenyCheck(r) \/ Rollback(r)
      BY <2>1, <3>2 DEF SendStart, ModelCalls, ModelAnswers, ConfirmOpen, DenyOpen, Open,
        NotPending, ConfirmExecute, DenyCheck, Rollback, tables
    <3> QED BY <3>1, <3>2, ProposeStep, DecideStep DEF RequestStep
  <2> QED BY <2>2, <2>3
<1> QED BY <1>1, <1>2, InductiveInvariant, PTL DEF Spec, ImplementsApproval, Approval!Spec

-----------------------------------------------------------------------------
(***************************************************************************)
(* What the model is told on its next turn: the calls of a reply are       *)
(* distinct, and each is given the result of an execution of its own.      *)
(***************************************************************************)
Orders == UNION {SetToSeqs(C) : C \in SUBSET Calls}

\* Every answer of the model, stored or under way, calls distinct executions.
CallsDistinct ==
  /\ replies \subseteq Orders
  /\ \A r \in Requests : op[r].kind \in {"send", "reply"} => op[r].sent \subseteq Orders

\* The executions that are found for the first n + 1 calls, after s for the first n.
FoundNext(s, n, cs, order) ==
  Append(s, FirstAmong(order, Candidates(cs[n], ToSet(order) \ ToSet(s))))

\* found gives what is found for the first 0, ..., m calls.
Founds(found, m, cs, order) ==
  found = [n \in 0..m |-> IF n = 0 THEN <<>> ELSE FoundNext(found[n - 1], n, cs, order)]

LEMMA ReplayedFound ==
  ASSUME NEW cs, NEW order
  PROVE  Replayed(cs, order) = (CHOOSE found : Founds(found, Len(cs), cs, order))[Len(cs)]
BY Zenon DEF Replayed, Founds, FoundNext

\* What is found for one call after the other is well defined.
LEMMA FoundsExist ==
  ASSUME NEW cs, NEW order, NEW m \in Nat
  PROVE  \E found : Founds(found, m, cs, order)
<1> DEFINE D == {n \in Nat : ~\E found : Founds(found, n, cs, order)}
<1> SUFFICES ASSUME D # {} PROVE FALSE OBVIOUS
<1>1. PICK n \in D : \A k \in D : n <= k
  <2>1. D \subseteq Nat OBVIOUS
  <2> HIDE DEF D
  <2> QED BY <2>1, LeastNatural
<1>2. CASE n = 0
  <2> DEFINE found == [k \in 0..0 |-> <<>>]
  <2>1. found = [k \in 0..0 |-> IF k = 0 THEN <<>> ELSE FoundNext(found[k - 1], k, cs, order)]
    OBVIOUS
  <2> QED BY <2>1, <1>1, <1>2 DEF Founds
<1>3. CASE n # 0
  <2>1. n - 1 \in Nat /\ n - 1 \notin D BY <1>1, <1>3
  <2>2. PICK f : Founds(f, n - 1, cs, order) BY <2>1
  <2> DEFINE g == [k \in 0..n |-> IF k = n THEN FoundNext(f[n - 1], n, cs, order) ELSE f[k]]
  <2>3. \A k \in 0..n : g[k] = IF k = 0 THEN <<>> ELSE FoundNext(g[k - 1], k, cs, order)
    <3> SUFFICES ASSUME NEW k \in 0..n
                 PROVE  g[k] = IF k = 0 THEN <<>> ELSE FoundNext(g[k - 1], k, cs, order)
      OBVIOUS
    <3>1. CASE k = n BY <3>1, <1>1, <1>3, <2>1
    <3>2. CASE k # n
      <4>1. k \in 0..(n - 1) /\ g[k] = f[k] /\ (k # 0 => g[k - 1] = f[k - 1])
        BY <3>2, <1>1
      <4>2. f[k] = IF k = 0 THEN <<>> ELSE FoundNext(f[k - 1], k, cs, order)
        BY <4>1, <2>2 DEF Founds
      <4> QED BY <4>1, <4>2
    <3> QED BY <3>1, <3>2
  <2>4. g = [k \in 0..n |-> g[k]] OBVIOUS
  <2> HIDE DEF g
  <2>5. Founds(g, n, cs, order) BY <2>3, <2>4 DEF Founds
  <2> QED BY <2>5, <1>1
<1> QED BY <1>2, <1>3

\* An order of a finite set has all of its elements.
LEMMA OrderCovers ==
  ASSUME NEW C, IsFiniteSet(C), NEW s \in SetToSeqs(C)
  PROVE  /\ Len(s) = Cardinality(C) /\ Len(s) \in Nat /\ s \in Seq(C) /\ ToSet(s) = C
         /\ \A i, j \in 1..Len(s) : i # j => s[i] # s[j]
<1> DEFINE n == Cardinality(C)
<1>1. n \in Nat BY FS_CardinalityType
<1>2. s \in [1..n -> C] /\ \A i, j \in 1..n : i # j => s[i] # s[j]
  BY DEF SetToSeqs
<1> HIDE DEF n
<1>3. Len(s) = n /\ s \in Seq(C) /\ DOMAIN s = 1..n BY <1>1, <1>2
<1>4. ASSUME NEW d \in C, d \notin ToSet(s) PROVE FALSE
  <2>1. s \in [1..n -> C \ {d}] BY <1>2, <1>3, <1>4 DEF ToSet
  <2>2. IsFiniteSet(C \ {d}) /\ Cardinality(C \ {d}) = n - 1 BY FS_RemoveElement DEF n
  <2>3. IsFiniteSet(1..n) /\ Cardinality(1..n) = n BY <1>1, FS_Interval
  <2>4. Cardinality(C \ {d}) < Cardinality(1..n) BY <1>1, <2>2, <2>3
  <2>5. \E x, y \in 1..n : x # y /\ s[x] = s[y]
    <3> HIDE DEF n
    <3> QED BY <2>1, <2>2, <2>3, <2>4, FS_PigeonHole
  <2> QED BY <1>2, <2>5
<1>5. ToSet(s) \subseteq C BY <1>2, <1>3 DEF ToSet
<1> QED BY <1>1, <1>2, <1>3, <1>4, <1>5 DEF n

\* The first one among some elements of a sequence is one of them.
LEMMA FirstIsAmong ==
  ASSUME NEW T, NEW order \in Seq(T), NEW C, C \cap ToSet(order) # {}
  PROVE  FirstAmong(order, C) \in C \cap ToSet(order)
<1> DEFINE I == {i \in 1..Len(order) : order[i] \in C}
           first == SelectInSeq(order, LAMBDA c : c \in C)
<1>1. I # {} /\ I \subseteq Nat BY DEF ToSet
<1>2. first = IF I # {} THEN Min(I) ELSE 0 BY Zenon DEF SelectInSeq
<1>3. FirstAmong(order, C) = order[first] BY Zenon DEF FirstAmong
<1> HIDE DEF I, first
<1>4. first \in I BY <1>1, <1>2, LeastNatural DEF Min
<1>5. first \in 1..Len(order) /\ order[first] \in C BY <1>4 DEF I
<1> QED BY <1>3, <1>5 DEF ToSet

\* While executions are left, one of them is like the next call: those that were
\* used for like calls are not more than these calls.
LEMMA OneIsSimilar ==
  ASSUME NEW C, IsFiniteSet(C), C \subseteq Calls, NEW cs \in SetToSeqs(C), NEW s \in Seq(C),
         Len(s) < Len(cs), \A i \in 1..Len(s) : Key(s[i]) = Key(cs[i])
  PROVE  Similar(cs[Len(s) + 1], C \ ToSet(s)) # {}
<1> DEFINE n == Len(s)
           c == cs[n + 1]
           I == {i \in 1..n : Key(cs[i]) = Key(c)}
           h == [i \in I \cup {n + 1} |-> CHOOSE j \in I : s[j] = cs[i]]
<1> SUFFICES ASSUME Similar(c, C \ ToSet(s)) = {} PROVE FALSE OBVIOUS
<1>1. /\ n \in Nat /\ n < Len(cs) /\ Len(cs) \in Nat
      /\ \A i, j \in 1..Len(cs) : i # j => cs[i] # cs[j]
      /\ \A i \in 1..Len(cs) : cs[i] \in C
  BY OrderCovers
<1>2. ASSUME NEW i \in I \cup {n + 1} PROVE \E j \in I : s[j] = cs[i]
  <2>1. cs[i] \in C /\ Key(cs[i]) = Key(c) BY <1>1
  <2>2. cs[i] \in ToSet(s) BY <2>1 DEF Similar
  <2>3. PICK j \in 1..n : s[j] = cs[i] BY <2>2 DEF ToSet
  <2>4. Key(cs[j]) = Key(c) BY <2>1, <2>3
  <2> QED BY <2>3, <2>4
<1>3. \A i \in I \cup {n + 1} : h[i] \in I /\ s[h[i]] = cs[i] BY <1>2
<1>4. IsFiniteSet(I)
  <2>1. IsFiniteSet(1..n) BY <1>1, FS_Interval
  <2> QED BY <2>1, FS_Subset
<1>5. n + 1 \notin I /\ I \subseteq 1..n BY <1>1
<1> HIDE DEF I, c
<1>6. h \in [I \cup {n + 1} -> I] BY <1>3
<1> HIDE DEF h
<1>7. PICK x \in I \cup {n + 1}, y \in I \cup {n + 1} : x # y /\ h[x] = h[y]
  <2>1. /\ IsFiniteSet(I \cup {n + 1})
        /\ Cardinality(I \cup {n + 1}) = Cardinality(I) + 1
    BY <1>4, <1>5, FS_AddElement
  <2>2. Cardinality(I) \in Nat BY <1>4, FS_CardinalityType
  <2> QED BY <1>4, <1>6, <2>1, <2>2, FS_PigeonHole
<1>8. cs[x] = cs[y] BY <1>3, <1>7
<1>9. x \in 1..Len(cs) /\ y \in 1..Len(cs) BY <1>1, <1>5
<1> QED BY <1>1, <1>7, <1>8, <1>9

\* Each call is given an execution with its tool and its arguments, none twice.
LEMMA RepliesAnswered ==
  ASSUME NEW C, IsFiniteSet(C), C \subseteq Calls,
         NEW cs \in SetToSeqs(C), NEW order \in SetToSeqs(C)
  PROVE  /\ ToSet(Replayed(cs, order)) = C
         /\ \A n \in DOMAIN cs : Key(Replayed(cs, order)[n]) = Key(cs[n])
<1>1. /\ Len(cs) = Cardinality(C) /\ Len(cs) \in Nat /\ DOMAIN cs = 1..Len(cs)
      /\ order \in Seq(C) /\ ToSet(order) = C
  BY OrderCovers
<1> DEFINE N == Len(cs)
           found == CHOOSE f : Founds(f, N, cs, order)
<1>2. Founds(found, N, cs, order) BY <1>1, FoundsExist
<1>3. Replayed(cs, order) = found[N] BY ReplayedFound
<1> HIDE DEF found
<1> DEFINE Good(n) ==
      /\ found[n] \in Seq(C) /\ Len(found[n]) = n
      /\ \A i \in 1..n : Key(found[n][i]) = Key(cs[i])
      /\ \A i, j \in 1..n : i # j => found[n][i] # found[n][j]
           Bad == {n \in 0..N : ~Good(n)}
<1>4. Bad = {}
  <2> SUFFICES ASSUME Bad # {} PROVE FALSE OBVIOUS
  <2>1. PICK n \in Bad : \A k \in Bad : n <= k
    <3>1. Bad \subseteq Nat BY <1>1
    <3> HIDE DEF Bad
    <3> QED BY <3>1, LeastNatural
  <2>2. n \in 0..N /\ ~Good(n) BY <2>1
  <2>3. found[n] = IF n = 0 THEN <<>> ELSE FoundNext(found[n - 1], n, cs, order)
    BY <1>2, <2>2 DEF Founds
  <2>4. n # 0
    <3> SUFFICES ASSUME n = 0 PROVE FALSE OBVIOUS
    <3>1. found[n] = <<>> BY <2>3
    <3> QED BY <2>2, <3>1
  <2>5. n - 1 \in 0..N /\ n - 1 \in Nat /\ Good(n - 1) BY <1>1, <2>1, <2>2, <2>4
  <2> DEFINE s == found[n - 1]
             left == C \ ToSet(s)
             d == FirstAmong(order, Candidates(cs[n], left))
  <2>6. s \in Seq(C) /\ Len(s) = n - 1 BY <2>5
  <2>7. Similar(cs[n], left) # {}
    <3>1. Len(s) < Len(cs) /\ Len(s) + 1 = n BY <1>1, <2>2, <2>6, SMTT(20)
    <3>2. \A i \in 1..Len(s) : Key(s[i]) = Key(cs[i]) BY <2>5, <2>6
    <3> QED BY <2>6, <3>1, <3>2, OneIsSimilar
  <2>8. d \in Similar(cs[n], left)
    <3>1. Candidates(cs[n], left) = Similar(cs[n], left) BY <2>7 DEF Candidates
    <3>2. Similar(cs[n], left) \subseteq ToSet(order) BY <1>1 DEF Similar
    <3> QED BY <1>1, <2>7, <3>1, <3>2, FirstIsAmong
  <2>9. d \in C /\ d \notin ToSet(s) /\ Key(d) = Key(cs[n]) BY <2>8 DEF Similar
  <2>10. found[n] = Append(s, d) BY <1>1, <2>3, <2>4 DEF FoundNext
  <2> HIDE DEF s, d
  <2>11. /\ found[n] \in Seq(C) /\ Len(found[n]) = n /\ found[n][n] = d
         /\ \A i \in 1..(n - 1) : found[n][i] = s[i] /\ s[i] # d
    BY <2>2, <2>4, <2>6, <2>9, <2>10 DEF ToSet
  <2>12. \A i \in 1..n : i = n \/ i \in 1..(n - 1) BY <2>2
  <2>13. \A i \in 1..n : Key(found[n][i]) = Key(cs[i])
    BY <2>5, <2>9, <2>11, <2>12 DEF s
  <2>14. \A i, j \in 1..n : i # j => found[n][i] # found[n][j]
    BY <2>5, <2>11, <2>12 DEF s
  <2> QED BY <2>2, <2>11, <2>13, <2>14
<1>5. Good(N)
  <2>1. N \in 0..N BY <1>1
  <2> QED BY <1>4, <2>1
<1>6. found[N] \in SetToSeqs(C)
  <2>1. found[N] \in [1..N -> C] BY <1>1, <1>5
  <2> QED BY <1>1, <1>5, <2>1 DEF SetToSeqs
<1> QED BY <1>1, <1>3, <1>5, <1>6, OrderCovers

\* The calls of an answer of the model are new, and each has its own execution.
LEMMA DistinctKept == IInv /\ CallsDistinct /\ [Next]_vars => CallsDistinct'
<1> SUFFICES ASSUME IInv, CallsDistinct, [Next]_vars PROVE CallsDistinct' OBVIOUS
<1>0. DOMAIN op = Requests BY DEF IInv, OpsOK
<1>1. CASE UNCHANGED vars BY <1>1 DEF vars, CallsDistinct
<1>2. ASSUME NEW r \in Requests, RequestStep(r) PROVE CallsDistinct'
  <2>0. ASSUME End(r), replies' = replies PROVE CallsDistinct'
    BY <1>0, <2>0 DEF CallsDistinct, End, Idle
  <2>1. CASE SendStart(r) BY <1>0, <2>1 DEF CallsDistinct, SendStart, Sending, tables
  <2>2. CASE ModelCalls(r)
    <3>1. op[r].kind = "send" /\ replies' = replies BY <2>2 DEF ModelCalls, tables
    <3>2. PICK s \in Orders :
            \E made, n : op' = [op EXCEPT ![r] =
              IF Waiting(made) \/ LastRound(r)
                THEN [kind |-> "reply", made |-> made, sent |-> op[r].sent \cup {s}]
                ELSE Sending(n, made, op[r].sent \cup {s})]
      BY <2>2, ZenonT(30) DEF ModelCalls, FreeCalls, Orders
    <3>3. /\ op'[r].kind \in {"send", "reply"} /\ op'[r].sent = op[r].sent \cup {s}
          /\ \A q \in Requests \ {r} : op'[q] = op[q]
      BY <1>0, <3>2 DEF Sending
    <3> QED BY <3>1, <3>3 DEF CallsDistinct
  <2>3. CASE ModelAnswers(r) BY <1>0, <2>3 DEF CallsDistinct, ModelAnswers, tables
  <2>4. CASE SendCommit(r) BY <1>0, <2>4 DEF CallsDistinct, SendCommit, End, Idle
  <2>5. CASE \E c \in Calls : ConfirmOpen(r, c) \/ DenyOpen(r, c)
    BY <1>0, <2>5 DEF CallsDistinct, ConfirmOpen, DenyOpen, Open, tables
  <2>6. CASE ConfirmExecute(r) \/ DenyCheck(r)
    <3>1. op[r] \in [kind : Deciding, call : Calls]
      BY <2>6, OpAt DEF IInv, ConfirmExecute, DenyCheck, Deciding
    <3>2. /\ replies' = replies /\ DOMAIN op' = Requests
          /\ op'[r].kind \in {"executed", "failed", "denied"}
          /\ \A q \in Requests \ {r} : op'[q] = op[q]
      BY <1>0, <2>6, <3>1 DEF ConfirmExecute, DenyCheck, tables
    <3> QED BY <3>2 DEF CallsDistinct
  <2>7. CASE NotPending(r) \/ Rollback(r) \/ ConfirmFailed(r) \/ ConfirmCommit(r) \/ DenyCommit(r)
    BY <2>0, <2>7 DEF NotPending, Rollback, ConfirmFailed, ConfirmCommit, DenyCommit, tables
  <2> QED BY <1>2, <2>1, <2>2, <2>3, <2>4, <2>5, <2>6, <2>7 DEF RequestStep
<1> QED BY <1>1, <1>2 DEF Next

\* On its next turn the model is told a result for every call of every reply, each of
\* another execution and of one with its tool and its stored arguments, in whatever
\* order the executions of a message are read (_history_messages).
THEOREM HistoryIsComplete == Spec => []EveryCallAnswered
<1>1. Init => CallsDistinct BY DEF Init, CallsDistinct, Idle
<1>2. CallsDistinct => EveryCallAnswered
  <2> SUFFICES ASSUME CallsDistinct, NEW cs \in replies, NEW order \in SetToSeqs(ToSet(cs))
               PROVE  /\ ToSet(Replayed(cs, order)) = ToSet(cs)
                      /\ \A n \in DOMAIN cs : Key(Replayed(cs, order)[n]) = Key(cs[n])
    BY Zenon DEF EveryCallAnswered
  <2>1. PICK C \in SUBSET Calls : cs \in SetToSeqs(C) BY DEF CallsDistinct, Orders
  <2>2. IsFiniteSet(C) BY CallsAssumption, FS_Subset
  <2>3. ToSet(cs) = C BY <2>1, <2>2, OrderCovers
  <2> QED BY <2>1, <2>2, <2>3, RepliesAnswered
<1> QED BY <1>1, <1>2, DistinctKept, InductiveInvariant, PTL DEF Spec

-----------------------------------------------------------------------------
(***************************************************************************)
(* Sessions: nothing is done in the name of a session after its logout,    *)
(* and the engine lends no more connections than it has.                   *)
(***************************************************************************)
Doings == [kind : S!Kinds, token : Tokens \cup {None}, at : S!Places, conns : Nat, locked : BOOLEAN]

\* A request o that acts on a session row has it locked.  The row it acts for is
\* there, and that of a login is not there yet.
SoundRequest(o, rows) ==
  /\ o.at = "working" => o.locked /\ o.kind = "work"
  /\ o.kind = "logout" /\ o.at \notin {"connect", "look"} => o.locked
  /\ o.kind = "login" => o.token \in Tokens /\ rows[o.token] = "none"
  /\ o.kind \in {"work", "logout"} => o.token \in Tokens /\ rows[o.token] # "none"
  /\ o.at = "connect" => o.kind \in {"login", "work", "logout"}
  /\ o.at = "look" => o.kind \in {"work", "logout"}
  /\ o.at = "auditing" => o.conns > 0

RequestsSound == \A r \in ServerRequests : serverOp[r] # S!Idle => SoundRequest(serverOp[r], session)

\* Two requests have not locked one row, and two logins have not one token.
Apart ==
  \A q, r \in ServerRequests :
    q # r /\ serverOp[q] # S!Idle /\ serverOp[r] # S!Idle /\ serverOp[q].token = serverOp[r].token =>
      /\ ~(serverOp[q].locked /\ serverOp[r].locked)
      /\ ~(serverOp[q].kind = "login" /\ serverOp[r].kind = "login")

SessionsInv == S!TypeOK /\ RequestsSound /\ Apart /\ S!NothingAfterLogout

-----------------------------------------------------------------------------
\* No request is under way at first.
LEMMA InitSessions == PoolSize \in Nat /\ S!Init => SessionsInv
BY DEF S!Init, SessionsInv, S!TypeOK, RequestsSound, Apart, S!NothingAfterLogout, S!At

\* A request goes on with its token, and locks nothing more.
LEMMA RequestGoesOn ==
  ASSUME SessionsInv, NEW r \in ServerRequests, serverOp[r] # S!Idle, NEW doing \in Doings,
         serverOp' = [serverOp EXCEPT ![r] = doing], UNCHANGED session,
         pool' \in Int, pool' <= PoolSize,
         doing.token = serverOp[r].token,
         doing.locked => serverOp[r].locked,
         doing.kind \in {serverOp[r].kind, "rejected"},
         SoundRequest(doing, session), doing.at # "working"
  PROVE  SessionsInv'
<1>1. serverOp'[r] = doing /\ \A q \in ServerRequests \ {r} : serverOp'[q] = serverOp[q]
  BY DEF SessionsInv, S!TypeOK
<1>2. S!TypeOK' BY <1>1 DEF SessionsInv, S!TypeOK, Doings
<1>3. RequestsSound' BY <1>1 DEF SessionsInv, RequestsSound, SoundRequest
<1>4. Apart' BY <1>1 DEF SessionsInv, Apart
<1>5. S!NothingAfterLogout' BY <1>1 DEF SessionsInv, S!NothingAfterLogout, S!At
<1> QED BY <1>2, <1>3, <1>4, <1>5 DEF SessionsInv

\* A request ends: its connections and its locks are free.
LEMMA Ends ==
  ASSUME SessionsInv, PoolSize \in Nat, NEW r \in ServerRequests, serverOp[r] # S!Idle, S!End(r), UNCHANGED session
  PROVE  SessionsInv'
<1>1. serverOp'[r] = S!Idle /\ \A q \in ServerRequests \ {r} : serverOp'[q] = serverOp[q]
  BY DEF SessionsInv, S!TypeOK, S!End
<1>6. pool' \in Int /\ pool' <= PoolSize
  <2>1. serverOp[r].conns \in Nat BY DEF SessionsInv, S!TypeOK
  <2>2. pool' = pool - serverOp[r].conns BY DEF S!End
  <2> QED BY <2>1, <2>2 DEF SessionsInv, S!TypeOK
<1>2. S!TypeOK'
  <2>1. DOMAIN serverOp' = ServerRequests BY DEF SessionsInv, S!TypeOK, S!End
  <2> QED BY <2>1, <1>1, <1>6 DEF SessionsInv, S!TypeOK
<1>3. RequestsSound' BY <1>1 DEF SessionsInv, RequestsSound, SoundRequest
<1>4. Apart' BY <1>1 DEF SessionsInv, Apart
<1>5. S!NothingAfterLogout' BY <1>1 DEF SessionsInv, S!NothingAfterLogout, S!At
<1> QED BY <1>2, <1>3, <1>4, <1>5 DEF SessionsInv

\* A request arrives: it holds nothing yet.
LEMMA Arrives ==
  ASSUME SessionsInv, NEW r \in ServerRequests, serverOp[r] = S!Idle, NEW doing \in Doings,
         serverOp' = [serverOp EXCEPT ![r] = doing], UNCHANGED <<session, pool>>,
         ~doing.locked, SoundRequest(doing, session), doing.at # "working",
         doing.kind = "login" => doing.token \notin S!Reserved
  PROVE  SessionsInv'
<1>1. serverOp'[r] = doing /\ \A q \in ServerRequests \ {r} : serverOp'[q] = serverOp[q]
  BY DEF SessionsInv, S!TypeOK
<1>2. S!TypeOK' BY <1>1 DEF SessionsInv, S!TypeOK, Doings
<1>3. RequestsSound' BY <1>1 DEF SessionsInv, RequestsSound, SoundRequest
<1>4. Apart' BY <1>1 DEF SessionsInv, Apart, S!Reserved
<1>5. S!NothingAfterLogout' BY <1>1 DEF SessionsInv, S!NothingAfterLogout, S!At
<1> QED BY <1>2, <1>3, <1>4, <1>5 DEF SessionsInv

LEMMA ArriveSteps ==
  ASSUME SessionsInv, NEW r \in ServerRequests,
         \/ S!Refuse(r)
         \/ \E t \in Tokens : S!ArriveLogin(r, t) \/ \E k \in {"work", "logout"} : S!Arrive(r, k, t)
  PROVE  SessionsInv'
<1>1. CASE S!Refuse(r)
  <2> DEFINE doing == S!Doing("rejected", None, "audit", 0, FALSE)
  <2>1. doing \in Doings /\ ~doing.locked /\ SoundRequest(doing, session) /\ doing.at # "working"
        /\ doing.kind # "login"
    BY DEF S!Doing, Doings, SoundRequest, S!Kinds, S!Places
  <2> QED BY <1>1, <2>1, Arrives DEF S!Refuse
<1>2. ASSUME NEW t \in Tokens, S!ArriveLogin(r, t) PROVE SessionsInv'
  <2> DEFINE doing == S!Doing("login", t, "connect", 0, FALSE)
  <2>1. doing \in Doings /\ ~doing.locked /\ SoundRequest(doing, session) /\ doing.at # "working"
        /\ doing.token \notin S!Reserved
    BY <1>2 DEF S!Doing, Doings, SoundRequest, S!Kinds, S!Places, S!ArriveLogin
  <2> QED BY <1>2, <2>1, Arrives DEF S!ArriveLogin
<1>3. ASSUME NEW t \in Tokens, NEW k \in {"work", "logout"}, S!Arrive(r, k, t) PROVE SessionsInv'
  <2> DEFINE doing == S!Doing(k, t, "connect", 0, FALSE)
  <2>1. doing \in Doings /\ ~doing.locked /\ SoundRequest(doing, session) /\ doing.at # "working"
        /\ doing.kind # "login"
    BY <1>3 DEF S!Doing, Doings, SoundRequest, S!Kinds, S!Places, S!Arrive
  <2> QED BY <1>3, <2>1, Arrives DEF S!Arrive
<1> QED BY <1>1, <1>2, <1>3

\* The row is locked when nobody else has it.
LEMMA LookStep ==
  ASSUME SessionsInv, NEW r \in ServerRequests, S!Look(r)
  PROVE  SessionsInv'
<1>0. PICK s \in S!Seen(serverOp[r].kind, session[serverOp[r].token]) :
        serverOp' = [serverOp EXCEPT ![r].at = s[1], ![r].kind = s[2], ![r].locked = TRUE]
  BY DEF S!Look
<1> DEFINE doing == [serverOp[r] EXCEPT !.at = s[1], !.kind = s[2], !.locked = TRUE]
<1>1. /\ serverOp[r] # S!Idle /\ serverOp[r] \in Doings /\ serverOp[r].at = "look" /\ SoundRequest(serverOp[r], session)
      /\ S!Free(r, serverOp[r].token) /\ UNCHANGED <<session, pool>>
  BY DEF S!Look, S!At, SessionsInv, S!TypeOK, RequestsSound, Doings
<1>2. \/ s = <<"audit", "rejected">>
      \/ serverOp[r].kind = "logout" /\ s \in {<<"audit", "logout">>, <<"tail", "logout">>}
      \/ serverOp[r].kind = "work" /\ s = <<"working", "work">> /\ session[serverOp[r].token] = "active"
  BY <1>1 DEF S!Seen, SoundRequest
<1>3. /\ doing \in Doings /\ SoundRequest(doing, session)
      /\ doing.token = serverOp[r].token /\ doing.locked /\ doing.kind # "login"
      /\ doing.at = "working" => session[doing.token] = "active"
  <2>1. s[1] \in {"audit", "tail", "working"} /\ s[2] \in {"rejected", "logout", "work"}
    BY <1>2
  <2>7. s[1] = "working" => session[serverOp[r].token] = "active"
    <3>1. CASE s = <<"audit", "rejected">> BY <3>1
    <3>2. CASE s \in {<<"audit", "logout">>, <<"tail", "logout">>} BY <3>2
    <3> QED BY <1>2, <3>1, <3>2
  <2>2. s[1] \in S!Places /\ s[2] \in S!Kinds BY <2>1 DEF S!Places, S!Kinds
  <2>3. /\ doing \in Doings /\ doing.token = serverOp[r].token /\ doing.locked = TRUE
        /\ doing.at = s[1] /\ doing.kind = s[2]
    BY <1>1, <2>2 DEF Doings
  <2>4. serverOp[r].token \in Tokens /\ session[serverOp[r].token] # "none"
    BY <1>1, <1>2 DEF SoundRequest
  <2> HIDE DEF doing
  <2>5. SoundRequest(doing, session) BY <1>2, <2>1, <2>3, <2>4 DEF SoundRequest
  <2>6. doing.at = "working" => session[doing.token] = "active"
    BY <2>3, <2>7
  <2> QED BY <2>1, <2>3, <2>5, <2>6
<1>4. serverOp'[r] = doing /\ \A q \in ServerRequests \ {r} : serverOp'[q] = serverOp[q]
  BY <1>0, <1>1 DEF SessionsInv, S!TypeOK
<1> HIDE DEF doing
<1>5. S!TypeOK' BY <1>0, <1>1, <1>3, <1>4 DEF SessionsInv, S!TypeOK, Doings
<1>6. RequestsSound' BY <1>1, <1>3, <1>4 DEF SessionsInv, RequestsSound, SoundRequest
<1>7. Apart' BY <1>1, <1>3, <1>4 DEF SessionsInv, Apart, S!Free
<1>8. S!NothingAfterLogout' BY <1>1, <1>3, <1>4 DEF SessionsInv, S!NothingAfterLogout, S!At
<1> QED BY <1>5, <1>6, <1>7, <1>8 DEF SessionsInv

\* A login makes its row; a logout ends one that nobody else has locked.
LEMMA CommitStep ==
  ASSUME SessionsInv, PoolSize \in Nat, NEW r \in ServerRequests, S!Commit(r)
  PROVE  SessionsInv'
<1>0. PICK s \in {session, S!Changed(r)} : session' = s
  BY DEF S!Commit
<1>1. CASE s = session BY <1>0, <1>1, Ends DEF S!Commit, S!At
<1>2. CASE s = S!Changed(r)
  <2> DEFINE t == serverOp[r].token
  <2>1. /\ serverOp[r] # S!Idle /\ serverOp[r] \in Doings /\ SoundRequest(serverOp[r], session) /\ serverOp[r].at = "audited"
        /\ serverOp[r].kind \in {"login", "logout"} /\ S!End(r)
    BY DEF S!Commit, S!At, SessionsInv, S!TypeOK, RequestsSound, Doings
  <2>2. /\ t \in Tokens
        /\ session'[t] = IF serverOp[r].kind = "login" THEN "active" ELSE "revoked"
        /\ \A u \in Tokens \ {t} : session'[u] = session[u]
        /\ session' \in [Tokens -> {"none", "active", "revoked", "expired"}]
    BY <1>0, <1>2, <2>1 DEF S!Changed, SoundRequest, SessionsInv, S!TypeOK
  <2>3. serverOp'[r] = S!Idle /\ \A q \in ServerRequests \ {r} : serverOp'[q] = serverOp[q]
    BY <2>1 DEF SessionsInv, S!TypeOK, S!End
  <2>9. pool' \in Int /\ pool' <= PoolSize
    <3>1. serverOp[r].conns \in Nat BY <2>1 DEF Doings
    <3>2. pool' = pool - serverOp[r].conns BY <2>1 DEF S!End
    <3> QED BY <3>1, <3>2 DEF SessionsInv, S!TypeOK
  <2>4. S!TypeOK'
    <3>1. DOMAIN serverOp' = ServerRequests BY <2>1 DEF SessionsInv, S!TypeOK, S!End
    <3> QED BY <3>1, <2>2, <2>3, <2>9 DEF SessionsInv, S!TypeOK
  <2>5. ASSUME NEW q \in ServerRequests, q # r, serverOp[q] # S!Idle, serverOp[q].token = t
        PROVE  serverOp[q].kind # "login" /\ serverOp[q].at # "working"
    BY <2>1, <2>5 DEF SessionsInv, Apart, RequestsSound, SoundRequest
  <2>6. RequestsSound'
    <3> SUFFICES ASSUME NEW q \in ServerRequests, serverOp'[q] # S!Idle PROVE SoundRequest(serverOp'[q], session')
      BY DEF RequestsSound
    <3>1. q # r /\ serverOp'[q] = serverOp[q] /\ serverOp[q] # S!Idle /\ SoundRequest(serverOp[q], session)
      BY <2>3 DEF SessionsInv, RequestsSound
    <3> HIDE DEF t
    <3>2. serverOp[q].token = t => serverOp[q].kind # "login" BY <2>5, <3>1
    <3>3. session'[t] # "none" BY <2>2
    <3> QED BY <2>2, <3>1, <3>2, <3>3 DEF SoundRequest
  <2>7. Apart' BY <2>3 DEF SessionsInv, Apart
  <2>8. S!NothingAfterLogout'
    BY <2>2, <2>3, <2>5 DEF SessionsInv, S!NothingAfterLogout, S!At, RequestsSound, SoundRequest
  <2> QED BY <2>4, <2>6, <2>7, <2>8 DEF SessionsInv
<1> QED BY <1>0, <1>1, <1>2

LEMMA ConnectSteps ==
  ASSUME SessionsInv, PoolSize \in Nat, NEW r \in ServerRequests,
         S!Connect(r) \/ S!Reconnect(r) \/ S!AuditConnect(r)
  PROVE  SessionsInv'
<1>0. PICK at \in {"authenticate", "look", "tail", "auditing"} :
        /\ S!Lend(r, at) /\ UNCHANGED session /\ serverOp[r] # S!Idle
        /\ at \in {"authenticate", "look"} =>
             serverOp[r].at = "connect" /\ at = IF serverOp[r].kind = "login" THEN "authenticate" ELSE "look"
        /\ at = "tail" => serverOp[r].at = "reconnect"
        /\ at = "auditing" => serverOp[r].at = "audit"
  BY DEF S!Connect, S!Reconnect, S!AuditConnect, S!At
<1> DEFINE doing == [serverOp[r] EXCEPT !.at = at, !.conns = @ + 1]
<1>1. serverOp[r] \in Doings /\ SoundRequest(serverOp[r], session) BY <1>0 DEF SessionsInv, S!TypeOK, RequestsSound, Doings
<1>2. doing \in Doings /\ doing.token = serverOp[r].token /\ doing.locked = serverOp[r].locked
      /\ doing.kind = serverOp[r].kind /\ doing.at = at /\ doing.conns = serverOp[r].conns + 1
  <2>1. at \in S!Places BY DEF S!Places
  <2>2. serverOp[r].conns + 1 \in Nat BY <1>1 DEF Doings
  <2> QED BY <1>1, <2>1, <2>2 DEF Doings
<1>3. serverOp' = [serverOp EXCEPT ![r] = doing] /\ pool' \in Int /\ pool' <= PoolSize
  BY <1>0 DEF S!Lend, SessionsInv, S!TypeOK
<1> HIDE DEF doing
<1>4. SoundRequest(doing, session) BY <1>0, <1>1, <1>2 DEF SoundRequest, Doings, S!Kinds
<1> QED BY <1>0, <1>2, <1>3, <1>4, RequestGoesOn

LEMMA AuditSteps ==
  ASSUME SessionsInv, PoolSize \in Nat, NEW r \in ServerRequests, S!AuditDone(r) \/ S!AuditLost(r)
  PROVE  SessionsInv'
<1>0. PICK n \in Int :
        /\ serverOp' = [serverOp EXCEPT ![r].at = "audited", ![r].conns = n]
        /\ pool' \in Int /\ pool' <= PoolSize /\ n \in Nat
        /\ serverOp[r] # S!Idle /\ serverOp[r].at \in {"audit", "auditing"} /\ UNCHANGED session
        /\ serverOp[r] \in Doings /\ SoundRequest(serverOp[r], session)
  <2>1. serverOp[r] \in Doings /\ SoundRequest(serverOp[r], session) /\ serverOp[r] # S!Idle
    BY DEF S!AuditDone, S!AuditLost, S!AuditGivesUp, S!At, SessionsInv, S!TypeOK, RequestsSound, Doings
  <2>2. CASE S!AuditDone(r)
    <3> WITNESS serverOp[r].conns - 1 \in Int
    <3> QED BY <2>1, <2>2 DEF S!AuditDone, S!At, SessionsInv, S!TypeOK, SoundRequest, Doings
  <2>3. CASE S!AuditLost(r)
    <3>1. serverOp' = [serverOp EXCEPT ![r].at = "audited", ![r].conns = serverOp[r].conns]
      BY <2>1, <2>3 DEF S!AuditLost, S!Goto, Doings, SessionsInv, S!TypeOK
    <3>2. serverOp[r].conns \in Int /\ serverOp[r].conns \in Nat BY <2>1 DEF Doings
    <3>3. serverOp[r].at = "audit" /\ UNCHANGED <<session, pool>>
      BY <2>3 DEF S!AuditLost, S!AuditGivesUp, S!At
    <3>4. pool' \in Int /\ pool' <= PoolSize BY <3>3 DEF SessionsInv, S!TypeOK
    <3> QED BY <2>1, <3>1, <3>2, <3>3, <3>4
  <2> QED BY <2>2, <2>3
<1> DEFINE doing == [serverOp[r] EXCEPT !.at = "audited", !.conns = n]
<1>1. doing \in Doings /\ doing.token = serverOp[r].token /\ doing.locked = serverOp[r].locked
      /\ doing.kind = serverOp[r].kind /\ doing.at = "audited"
  BY <1>0 DEF Doings, S!Places
<1>2. serverOp' = [serverOp EXCEPT ![r] = doing] BY <1>0 DEF SessionsInv, S!TypeOK
<1> HIDE DEF doing
<1>3. SoundRequest(doing, session) BY <1>0, <1>1 DEF SoundRequest
<1> QED BY <1>0, <1>1, <1>2, <1>3, RequestGoesOn

LEMMA WorkSteps ==
  ASSUME SessionsInv, PoolSize \in Nat, NEW r \in ServerRequests,
         S!Authenticate(r) \/ S!RateLimited(r) \/ S!EarlyCommit(r)
  PROVE  SessionsInv'
<1>1. serverOp[r] # S!Idle /\ serverOp[r] \in Doings /\ SoundRequest(serverOp[r], session)
  BY DEF S!Authenticate, S!RateLimited, S!EarlyCommit, S!At, SessionsInv, S!TypeOK, RequestsSound, Doings
<1>2. ASSUME NEW at \in {"audit", "audited"}, serverOp[r].at = "authenticate",
             S!Goto(r, at), UNCHANGED <<session, pool>>
      PROVE  SessionsInv'
  <2> DEFINE doing == [serverOp[r] EXCEPT !.at = at]
  <2>1. doing \in Doings /\ doing.token = serverOp[r].token /\ doing.locked = serverOp[r].locked
        /\ doing.kind = serverOp[r].kind /\ doing.at = at
    BY <1>1 DEF Doings, S!Places
  <2>2. serverOp' = [serverOp EXCEPT ![r] = doing] BY <1>2 DEF S!Goto
  <2> HIDE DEF doing
  <2>3. SoundRequest(doing, session) BY <1>1, <1>2, <2>1 DEF SoundRequest
  <2> QED BY <1>1, <1>2, <2>1, <2>2, <2>3, RequestGoesOn DEF SessionsInv, S!TypeOK
<1>3. CASE S!Authenticate(r) BY <1>1, <1>2, <1>3, Ends DEF S!Authenticate, S!At
<1>4. CASE S!RateLimited(r)
  <2> DEFINE doing == [serverOp[r] EXCEPT !.at = "audit", !.kind = "rejected"]
  <2>1. doing \in Doings /\ doing.token = serverOp[r].token /\ doing.locked = serverOp[r].locked
        /\ doing.kind = "rejected" /\ doing.at = "audit"
    BY <1>1 DEF Doings, S!Places, S!Kinds
  <2>2. serverOp' = [serverOp EXCEPT ![r] = doing] /\ UNCHANGED <<session, pool>>
    BY <1>4 DEF S!RateLimited
  <2> HIDE DEF doing
  <2>3. SoundRequest(doing, session) BY <2>1 DEF SoundRequest
  <2> QED BY <1>1, <2>1, <2>2, <2>3, RequestGoesOn DEF SessionsInv, S!TypeOK
<1>5. CASE S!EarlyCommit(r)
  <2> DEFINE doing == [serverOp[r] EXCEPT !.at = "reconnect", !.conns = 0, !.locked = FALSE]
  <2>1. doing \in Doings /\ doing.token = serverOp[r].token /\ ~doing.locked
        /\ doing.kind = serverOp[r].kind /\ doing.at = "reconnect"
    BY <1>1 DEF Doings, S!Places
  <2>2. serverOp' = [serverOp EXCEPT ![r] = doing] /\ UNCHANGED session /\ serverOp[r].at = "working"
        /\ pool' \in Int /\ pool' <= PoolSize
    <3>1. serverOp' = [serverOp EXCEPT ![r] = doing] BY <1>5 DEF S!EarlyCommit
    <3>2. pool' = pool - 1 /\ UNCHANGED session /\ serverOp[r].at = "working"
      BY <1>5 DEF S!EarlyCommit, S!At
    <3>3. pool' \in Int /\ pool' <= PoolSize BY <3>2 DEF SessionsInv, S!TypeOK
    <3> QED BY <3>1, <3>2, <3>3
  <2> HIDE DEF doing
  <2>3. SoundRequest(doing, session) BY <1>1, <2>1, <2>2 DEF SoundRequest
  <2> QED BY <1>1, <2>1, <2>2, <2>3, RequestGoesOn
<1> QED BY <1>3, <1>4, <1>5

LEMMA EndSteps ==
  ASSUME SessionsInv, PoolSize \in Nat, NEW r \in ServerRequests, S!GiveUp(r) \/ S!Finish(r) \/ S!Rejected(r)
  PROVE  SessionsInv'
BY Ends DEF S!GiveUp, S!Finish, S!Rejected, S!At

LEMMA ExpireStep ==
  ASSUME SessionsInv, NEW t \in Tokens, S!Expire(t)
  PROVE  SessionsInv'
<1>1. /\ session'[t] = "expired" /\ session[t] = "active"
      /\ \A u \in Tokens \ {t} : session'[u] = session[u]
      /\ UNCHANGED <<pool, serverOp>>
  BY DEF S!Expire, SessionsInv, S!TypeOK
<1>2. S!TypeOK' BY DEF S!Expire, SessionsInv, S!TypeOK
<1>3. RequestsSound' BY <1>1 DEF SessionsInv, RequestsSound, SoundRequest
<1>4. Apart' BY <1>1 DEF SessionsInv, Apart
<1>5. S!NothingAfterLogout'
  BY <1>1 DEF SessionsInv, S!NothingAfterLogout, S!At, RequestsSound, SoundRequest
<1> QED BY <1>2, <1>3, <1>4, <1>5 DEF SessionsInv

-----------------------------------------------------------------------------
\* Every step of a request keeps the invariant.
LEMMA NextSessions == PoolSize \in Nat /\ SessionsInv /\ [S!Next]_S!svars => SessionsInv'
<1> SUFFICES ASSUME PoolSize \in Nat, SessionsInv, [S!Next]_S!svars PROVE SessionsInv'
  OBVIOUS
<1>1. CASE UNCHANGED S!svars
  BY <1>1 DEF SessionsInv, S!svars, S!TypeOK, RequestsSound, SoundRequest, Apart, S!NothingAfterLogout, S!At
<1>2. CASE S!Next
  <2>1. ASSUME NEW r \in ServerRequests, S!Answer(r) PROVE SessionsInv'
    BY <2>1, ConnectSteps, AuditSteps, WorkSteps, EndSteps, CommitStep DEF S!Answer
  <2> QED BY <1>2, <2>1, LookStep, ArriveSteps, ExpireStep DEF S!Next
<1> QED BY <1>1, <1>2

\* A request that acts on a session row has it locked, alone, and the row is there
\* (get_active_session).
THEOREM SessionsInvariant == S!Spec => []SessionsInv
<1>1. S!Init => SessionsInv BY InitSessions, PoolAssumption
<1>2. SessionsInv /\ [S!Next]_S!svars => SessionsInv' BY NextSessions, PoolAssumption
<1> QED BY <1>1, <1>2, PTL DEF S!Spec

\* For any number of requests and sessions: what is done in the name of a session is
\* done before its logout (get_active_session, logout).
THEOREM LogoutIsLast == S!Spec => []NothingAfterLogout
<1>1. SessionsInv => NothingAfterLogout BY DEF SessionsInv, NothingAfterLogout
<1> QED BY <1>1, SessionsInvariant, PTL

\* The engine lends no more connections than it has, audits included (get_db,
\* log_security_event).
THEOREM PoolIsLimited == S!Spec => []S!TypeOK
<1>1. SessionsInv => S!TypeOK BY DEF SessionsInv
<1> QED BY <1>1, SessionsInvariant, PTL

-----------------------------------------------------------------------------
(***************************************************************************)
(* AuthStore: the tab.  A call asks what its kind says, and a login is     *)
(* started from a form that is shown.                                      *)
(***************************************************************************)
CallsOfTab == [kind : {"fetch", "login", "logout"}, leg : {"me", "login", "logout"},
               step : {"sent", "served", "over"}, cookie : Tokens \cup {None},
               answer : {"none", "ok", "401", "lost"}]

TabTypeOK ==
  /\ calls \in Seq(CallsOfTab)
  /\ cookie \in Tokens \cup {None}

\* A fetch asks /auth/me, and a logout asks nothing else.
LegsRight ==
  \A v \in DOMAIN calls :
    /\ calls[v].kind = "fetch" => calls[v].leg = "me"
    /\ calls[v].kind = "logout" => calls[v].leg = "logout"
    /\ calls[v].kind = "login" => calls[v].leg \in {"me", "login"}

\* The page did not wait for its session when the form was sent.
LoginNotLoading ==
  calls # <<>> /\ calls[Len(calls)].kind = "login" => authStatus # "loading"

TabInv == TabTypeOK /\ LegsRight /\ LoginNotLoading /\ B!NeverStuckLoading /\ B!NewestDecides

\* No call was made when the tab starts.
LEMMA InitTab == B!Init => TabInv
<1> SUFFICES ASSUME B!Init PROVE TabInv OBVIOUS
<1>1. calls = <<>> BY DEF B!Init
<1>2. TabTypeOK
  <2>1. calls \in Seq(CallsOfTab) BY <1>1
  <2>2. cookie \in Tokens \cup {None} BY DEF B!Init
  <2> QED BY <2>1, <2>2 DEF TabTypeOK
<1> QED BY <1>1, <1>2 DEF TabInv, LegsRight, LoginNotLoading, B!NeverStuckLoading, B!NewestDecides

\* The newest call is under way as soon as it is started.
LEMMA StartStep ==
  ASSUME TabInv, NEW kind \in {"fetch", "login", "logout"}, NEW leg \in {"me", "login", "logout"},
         B!Start(kind, leg),
         leg = (IF kind = "fetch" THEN "me" ELSE kind),
         kind = "login" => authStatus # "loading"
  PROVE  TabInv'
<1> DEFINE new == B!Call(kind, leg)
<1>1. new \in CallsOfTab /\ new.kind = kind /\ new.leg = leg /\ new.step = "sent"
  BY DEF B!Call, CallsOfTab, TabInv, TabTypeOK
<1>2. calls' = Append(calls, new) /\ UNCHANGED <<authStatus, cookie>>
  BY DEF B!Start
<1>3. calls \in Seq(CallsOfTab) BY DEF TabInv, TabTypeOK
<1> HIDE DEF new
<1>4. /\ calls' \in Seq(CallsOfTab) /\ Len(calls') = Len(calls) + 1 /\ calls' # <<>>
      /\ calls'[Len(calls')] = new
      /\ \A v \in DOMAIN calls' : v = Len(calls') \/ (v \in DOMAIN calls /\ calls'[v] = calls[v])
  BY <1>1, <1>2, <1>3
<1>5. TabTypeOK' BY <1>2, <1>4 DEF TabInv, TabTypeOK
<1>6. LegsRight' BY <1>1, <1>4 DEF TabInv, LegsRight
<1>7. LoginNotLoading' BY <1>1, <1>2, <1>4 DEF LoginNotLoading
<1>8. B!Pending(B!Version)' BY <1>1, <1>4 DEF B!Pending, B!Version
<1> QED BY <1>5, <1>6, <1>7, <1>8 DEF TabInv, B!NeverStuckLoading, B!NewestDecides

\* A call changes, and the store does not; the newest call stays under way.
LEMMA CallChanges ==
  ASSUME TabInv, NEW v \in DOMAIN calls, NEW new \in CallsOfTab,
         calls' = [calls EXCEPT ![v] = new], UNCHANGED authStatus,
         cookie' \in Tokens \cup {None},
         new.kind = calls[v].kind,
         new.leg = calls[v].leg \/ (new.kind = "login" /\ new.leg \in {"me", "login"}),
         v = Len(calls) => new.step # "over"
  PROVE  TabInv'
<1>3. calls \in Seq(CallsOfTab) BY DEF TabInv, TabTypeOK
<1>4. /\ calls' \in Seq(CallsOfTab) /\ Len(calls') = Len(calls) /\ calls # <<>>
      /\ DOMAIN calls' = DOMAIN calls /\ calls'[v] = new
      /\ \A w \in DOMAIN calls : w # v => calls'[w] = calls[w]
      /\ Len(calls) \in DOMAIN calls
  BY <1>3
<1>5. TabTypeOK' BY <1>4 DEF TabTypeOK
<1>6. LegsRight' BY <1>4 DEF TabInv, LegsRight
<1>7. LoginNotLoading' BY <1>4 DEF TabInv, LoginNotLoading
<1>8. B!NeverStuckLoading' BY <1>4 DEF TabInv, B!NeverStuckLoading, B!Pending, B!Version
<1>9. B!NewestDecides' BY <1>4 DEF TabInv, B!NewestDecides, B!Pending, B!Version
<1> QED BY <1>5, <1>6, <1>7, <1>8, <1>9 DEF TabInv

LEMMA ServeStep ==
  ASSUME TabInv, NEW v \in DOMAIN calls, B!Serve(v) \/ B!Lose(v)
  PROVE  TabInv'
<1>1. PICK a \in {"ok", "401", "lost"}, c \in Tokens \cup {None} :
        calls' = [calls EXCEPT ![v] = [calls[v] EXCEPT !.step = "served", !.answer = a, !.cookie = c]]
  <2>0. calls[v] \in CallsOfTab BY DEF TabInv, TabTypeOK
  <2>1. CASE B!Serve(v)
    <3>1. PICK a \in B!Answers(v), t \in Tokens \cup {None} :
            calls' = [calls EXCEPT ![v].step = "served", ![v].answer = a,
                        ![v].cookie = IF calls[v].leg = "login" THEN t ELSE @]
      BY <2>1 DEF B!Serve
    <3>2. a \in {"ok", "401", "lost"} BY DEF B!Answers
    <3> DEFINE c == IF calls[v].leg = "login" THEN t ELSE calls[v].cookie
    <3>3. c \in Tokens \cup {None} BY <2>0 DEF CallsOfTab
    <3>4. calls' = [calls EXCEPT ![v] = [calls[v] EXCEPT !.step = "served", !.answer = a, !.cookie = c]]
      BY <3>1, <2>0 DEF CallsOfTab, TabInv, TabTypeOK
    <3> QED BY <3>2, <3>3, <3>4
  <2>2. CASE B!Lose(v)
    <3>1. calls[v].cookie \in Tokens \cup {None} BY <2>0 DEF CallsOfTab
    <3>2. calls' = [calls EXCEPT ![v] = [calls[v] EXCEPT !.step = "served", !.answer = "lost",
                                                       !.cookie = calls[v].cookie]]
      BY <2>2, <2>0 DEF B!Lose, CallsOfTab, TabInv, TabTypeOK
    <3> QED BY <3>1, <3>2
  <2> QED BY <2>1, <2>2
<1> DEFINE new == [calls[v] EXCEPT !.step = "served", !.answer = a, !.cookie = c]
<1>2. new \in CallsOfTab /\ new.kind = calls[v].kind /\ new.leg = calls[v].leg
      /\ new.step = "served"
  <2>1. calls[v] \in CallsOfTab BY DEF TabInv, TabTypeOK
  <2> QED BY <2>1 DEF CallsOfTab
<1>3. UNCHANGED authStatus /\ cookie' \in Tokens \cup {None}
  BY DEF B!Serve, B!Lose, TabInv, TabTypeOK
<1>4. calls' = [calls EXCEPT ![v] = new] BY <1>1
<1> HIDE DEF new
<1> QED BY <1>2, <1>3, <1>4, CallChanges

\* Only the answer of the newest call changes the store.
LEMMA ReceiveStep ==
  ASSUME TabInv, NEW v \in DOMAIN calls, B!Receive(v)
  PROVE  TabInv'
<1>1. /\ calls \in Seq(CallsOfTab) /\ calls[v] \in CallsOfTab /\ calls # <<>>
      /\ Len(calls) \in DOMAIN calls
  BY DEF TabInv, TabTypeOK
<1>2. cookie' \in Tokens \cup {None}
  BY <1>1 DEF B!Receive, B!CookieAfter, TabInv, TabTypeOK, CallsOfTab
<1>3. CASE B!AsksMe(v)
  <2> DEFINE new == [calls[v] EXCEPT !.leg = "me", !.step = "sent", !.answer = "none",
                                     !.cookie = cookie']
  <2>1. new \in CallsOfTab /\ new.kind = calls[v].kind /\ new.leg = "me" /\ new.step = "sent"
    BY <1>1, <1>2 DEF CallsOfTab
  <2>2. calls' = [calls EXCEPT ![v] = new]
    BY <1>1, <1>3 DEF B!Receive, CallsOfTab
  <2>3. calls[v].kind = "login" BY <1>1, <1>3 DEF B!AsksMe, TabInv, LegsRight, CallsOfTab
  <2>4. UNCHANGED authStatus
    BY <1>3, <2>3 DEF B!Receive, B!AsksMe, B!StatusAfter
  <2> HIDE DEF new
  <2> QED BY <1>2, <2>1, <2>2, <2>3, <2>4, CallChanges
<1>4. CASE ~B!AsksMe(v)
  <2> DEFINE new == [calls[v] EXCEPT !.step = "over"]
  <2>1. /\ new \in CallsOfTab /\ new.kind = calls[v].kind /\ new.leg = calls[v].leg
        /\ new.step = "over" /\ new.answer = calls[v].answer
    BY <1>1 DEF CallsOfTab
  <2>2. calls' = [calls EXCEPT ![v] = new] BY <1>1, <1>4 DEF B!Receive
  <2> HIDE DEF new
  <2>3. CASE v # Len(calls)
    <3>1. UNCHANGED authStatus
      BY <2>3 DEF B!Receive, B!isCurrentAuthRequest, B!Version
    <3> QED BY <1>2, <2>1, <2>2, <2>3, <3>1, CallChanges
  <2>4. CASE v = Len(calls)
    <3>1. authStatus' = B!StatusAfter(calls[v])
      BY <2>4 DEF B!Receive, B!isCurrentAuthRequest, B!Version
    <3>2. /\ calls' \in Seq(CallsOfTab) /\ Len(calls') = Len(calls)
          /\ DOMAIN calls' = DOMAIN calls /\ calls'[v] = new
          /\ \A w \in DOMAIN calls : w # v => calls'[w] = calls[w]
      BY <1>1, <2>1, <2>2
    <3>3. TabTypeOK' BY <1>2, <3>2 DEF TabTypeOK
    <3>4. LegsRight' BY <2>1, <3>2 DEF TabInv, LegsRight
    <3>5. authStatus' # "loading"
      BY <1>1, <2>4, <3>1 DEF B!StatusAfter, TabInv, LegsRight, LoginNotLoading, CallsOfTab
    <3>6. LoginNotLoading' /\ B!NeverStuckLoading'
      BY <3>5 DEF LoginNotLoading, B!NeverStuckLoading
    <3>7. B!NewestDecides'
      <4> SUFFICES
            CASE new.kind = "logout" -> authStatus' = "unauthenticated"
              [] new.leg = "me" /\ new.answer = "ok" -> authStatus' = "authenticated"
              [] new.kind = "fetch" /\ new.answer # "ok" ->
                   authStatus' = IF new.answer = "401" THEN "unauthenticated" ELSE "unavailable"
              [] OTHER -> TRUE
        BY <2>4, <3>2 DEF B!NewestDecides, B!Version
      <4>1. CASE calls[v].kind = "logout"
        BY <2>1, <3>1, <4>1 DEF B!StatusAfter, TabInv, LegsRight
      <4>2. CASE calls[v].kind = "fetch"
        BY <2>1, <3>1, <4>2 DEF B!StatusAfter, TabInv, LegsRight
      <4>3. CASE calls[v].kind = "login"
        BY <2>1, <3>1, <4>3 DEF B!StatusAfter
      <4> QED BY <1>1, <4>1, <4>2, <4>3 DEF CallsOfTab
    <3> QED BY <3>3, <3>4, <3>6, <3>7 DEF TabInv
  <2> QED BY <2>3, <2>4
<1> QED BY <1>3, <1>4

\* The tab keeps its invariant whatever is clicked, answered, lost and late.
LEMMA NextTab == TabInv /\ [B!Next]_B!avars => TabInv'
<1> SUFFICES ASSUME TabInv, [B!Next]_B!avars PROVE TabInv' OBVIOUS
<1>1. CASE UNCHANGED <<authStatus, calls, cookie>>
  BY <1>1 DEF TabInv, TabTypeOK, LegsRight, LoginNotLoading, B!NeverStuckLoading,
              B!NewestDecides, B!Pending, B!Version
<1>2. CASE UNCHANGED B!avars BY <1>1, <1>2 DEF B!avars
<1>3. CASE B!Mount \/ B!Retry \/ B!Logout BY <1>3, StartStep DEF B!Mount, B!Retry, B!Logout
<1>4. CASE B!Login BY <1>4, StartStep DEF B!Login, B!FormShown
<1>5. CASE B!Navigate \/ B!QueryRejected \/ \E t \in Tokens : B!SessionEnds(t)
  BY <1>1, <1>5 DEF B!Navigate, B!QueryRejected, B!SessionEnds
<1>6. CASE B!Reload
  <2>1. calls' = <<>> /\ cookie' = cookie BY <1>6 DEF B!Reload
  <2>2. TabTypeOK' BY <2>1 DEF TabInv, TabTypeOK
  <2> QED BY <2>1, <2>2 DEF TabInv, LegsRight, LoginNotLoading, B!NeverStuckLoading, B!NewestDecides
<1> QED BY <1>2, <1>3, <1>4, <1>5, <1>6, ServeStep, ReceiveStep DEF B!Next

\* A call asks what its kind says, and a login was not sent from a page that was
\* loading (authStore.ts, Login.tsx).
THEOREM TabInvariant == B!Spec => []TabInv
BY InitTab, NextTab, PTL DEF B!Spec

\* A page that shows that it is loading waits for a call that is under way, whatever
\* was lost, redirected or overtaken (authStore.ts, ProtectedRoute.tsx, Login.tsx).
THEOREM LoadingEnds == B!Spec => []NeverStuckLoading
<1>1. TabInv => NeverStuckLoading BY DEF TabInv, NeverStuckLoading
<1> QED BY <1>1, TabInvariant, PTL

\* What the newest call was told stays until another is started: answers that arrive
\* late change nothing (isCurrentAuthRequest of authStore.ts).
THEOREM LateAnswersIgnored == B!Spec => []NewestDecides
<1>1. TabInv => NewestDecides BY DEF TabInv, NewestDecides
<1> QED BY <1>1, TabInvariant, PTL
=============================================================================
