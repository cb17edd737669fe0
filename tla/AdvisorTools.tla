---------------------------- MODULE AdvisorTools ----------------------------
(***************************************************************************)
(* A conversation with the advisor: the rounds of one message, the tools   *)
(* that the language model calls in them, and the user's decisions on the  *)
(* calls that would change data (advisor/service.py, advisor/router.py).   *)
(*                                                                         *)
(* A request is one transaction, which others see when it commits.  The    *)
(* language model is outside: it answers anything, or fails.               *)
(***************************************************************************)
EXTENDS Naturals, Sequences, FiniteSets, SequencesExt

CONSTANTS
  Calls,          \* ids of tool_executions
  Requests,
  MaxIterations,  \* MAX_TOOL_ITERATIONS
  MaxBatch,       \* bounds the calls of one answer of the model
  None

ASSUME IterationsAssumption == MaxIterations \in Nat \ {0} /\ MaxBatch \in Nat \ {0}
ASSUME NoneAssumption == None \notin Requests
ASSUME CallsAssumption == IsFiniteSet(Calls)

VARIABLES
  status,    \* of a tool execution; "none": no row
  tool,      \* what it calls, with the arguments
  replies,   \* assistant messages: the sequences of their tool calls
  effects,   \* how often a call changed data
  audit,     \* the audit events of a call
  lock,      \* the request that has its row locked
  op         \* what a request is doing

vars == <<status, tool, replies, effects, audit, lock, op>>
tables == <<status, tool, replies, effects, audit>>

\* A tool that reads, two calls of a tool that changes data, and a call that
\* cannot be executed (an unknown tool, arguments that are no object).
Tools == {"read", "create", "create other", "bad"}
Mutating == {"create", "create other"}     \* autonomy_level >= 2

Statuses == {"pending_confirmation", "completed", "error", "denied"}

Idle == [kind |-> "idle"]
Sending(round, made, sent) == [kind |-> "send", round |-> round, made |-> made, sent |-> sent]

Init ==
  /\ status = [c \in Calls |-> "none"]
  /\ tool = [c \in Calls |-> None]
  /\ replies = {}
  /\ effects = [c \in Calls |-> 0]
  /\ audit = [c \in Calls |-> <<>>]
  /\ lock = [c \in Calls |-> None]
  /\ op = [r \in Requests |-> Idle]

End(r) ==
  /\ op' = [op EXCEPT ![r] = Idle]
  /\ lock' = [c \in Calls |-> IF lock[c] = r THEN None ELSE lock[c]]

\* An error that nothing handles (500), or a crash.
Rollback(r) == op[r] # Idle /\ End(r) /\ UNCHANGED tables

----------------------------------------------------------------------------
(***************************************************************************)
(* send_message.                                                           *)
(***************************************************************************)
Made(r) == IF op[r].kind \in {"send", "reply"} THEN DOMAIN op[r].made ELSE {}
FreeCalls == {c \in Calls : status[c] = "none"} \ UNION {Made(r) : r \in Requests}

SendStart(r) ==
  /\ op[r] = Idle
  /\ op' = [op EXCEPT ![r] = Sending(0, <<>>, {})]
  /\ UNCHANGED <<tables, lock>>

\* The executions that a call leaves: only a tool that reads is executed, and
\* its failure is rolled back to a savepoint.
OutcomesEager(t) ==           \* mutant: a tool that changes data is not held back
  IF t = "bad" THEN {"error"} ELSE {"completed", "error"}
Outcomes(t) ==
  IF t = "bad" THEN {"error"}
  ELSE IF t \in Mutating THEN {"pending_confirmation"} ELSE {"completed", "error"}

\* The model calls the tools ts, and the loop ends when one waits for the user.
Merge(f, g) == [c \in DOMAIN f \cup DOMAIN g |-> IF c \in DOMAIN g THEN g[c] ELSE f[c]]
Waiting(made) == \E c \in DOMAIN made : made[c].status = "pending_confirmation"
LastRound(r) == op[r].round + 1 = MaxIterations

ModelCalls(r) ==
  /\ op[r].kind = "send"
  /\ \E C \in SUBSET FreeCalls \ {{}} : \E s \in SetToSeqs(C) :
       \E new \in [C -> [tool : Tools, status : Statuses]] :
         LET made == Merge(op[r].made, new)
             sent == op[r].sent \cup {s}
         IN  /\ Cardinality(C) <= MaxBatch
             /\ \A c \in C : new[c].status \in Outcomes(new[c].tool)
             /\ op' = [op EXCEPT ![r] =
                  IF Waiting(made) \/ LastRound(r)
                    THEN [kind |-> "reply", made |-> made, sent |-> sent]
                    ELSE Sending(op[r].round + 1, made, sent)]
  /\ UNCHANGED <<tables, lock>>

\* The model answers in words, or the provider fails and a message says so.
ModelAnswers(r) ==
  /\ op[r].kind = "send"
  /\ op' = [op EXCEPT ![r] = [kind |-> "reply", made |-> op[r].made, sent |-> op[r].sent]]
  /\ UNCHANGED <<tables, lock>>

SendCommit(r) ==
  /\ op[r].kind = "reply"
  /\ LET made == op[r].made
     IN  /\ status' = Merge(status, [c \in DOMAIN made |-> made[c].status])
         /\ tool' = Merge(tool, [c \in DOMAIN made |-> made[c].tool])
         /\ effects' = [c \in Calls |->
              IF c \in DOMAIN made /\ made[c].tool \in Mutating /\ made[c].status = "completed"
                THEN effects[c] + 1 ELSE effects[c]]
  /\ replies' = replies \cup op[r].sent
  /\ End(r)
  /\ UNCHANGED audit

----------------------------------------------------------------------------
(***************************************************************************)
(* confirm_tool_execution, deny_tool_execution.                            *)
(***************************************************************************)
Free(c) == lock[c] = None

Open(r, c, kind) ==
  /\ op[r] = Idle
  /\ status[c] # "none"
  /\ Free(c)
  /\ lock' = [lock EXCEPT ![c] = r]
  /\ op' = [op EXCEPT ![r] = [kind |-> kind, call |-> c]]
  /\ UNCHANGED tables

ConfirmOpen(r, c) == Open(r, c, "confirm")
DenyOpen(r, c) == Open(r, c, "deny")

\* 409: the execution is no longer pending.
Pending(r) == status[op[r].call] = "pending_confirmation"
NotPending(r) ==
  /\ op[r].kind \in {"confirm", "deny"}
  /\ ~Pending(r)
  /\ End(r)
  /\ UNCHANGED tables

\* The executor and the audit event share a savepoint, which one of them may
\* roll back.
ConfirmExecute(r) ==
  /\ op[r].kind = "confirm"
  /\ Pending(r)
  /\ \E k \in {"executed", "failed"} : op' = [op EXCEPT ![r].kind = k]
  /\ UNCHANGED <<tables, lock>>

FailedHalfway(r) ==      \* mutant: no savepoint, the change stays
  /\ op[r].kind = "failed"
  /\ status' = [status EXCEPT ![op[r].call] = "error"]
  /\ effects' = [effects EXCEPT ![op[r].call] = @ + 1]
  /\ End(r)
  /\ UNCHANGED <<tool, replies, audit>>

ConfirmFailed(r) ==
  /\ op[r].kind = "failed"
  /\ status' = [status EXCEPT ![op[r].call] = "error"]
  /\ End(r)
  /\ UNCHANGED <<tool, replies, effects, audit>>

ConfirmCommit(r) ==
  /\ op[r].kind = "executed"
  /\ status' = [status EXCEPT ![op[r].call] = "completed"]
  /\ effects' = [effects EXCEPT ![op[r].call] = @ + 1]
  /\ audit' = [audit EXCEPT ![op[r].call] = Append(@, "confirm")]
  /\ End(r)
  /\ UNCHANGED <<tool, replies>>

DenyCheck(r) ==
  /\ op[r].kind = "deny"
  /\ Pending(r)
  /\ op' = [op EXCEPT ![r].kind = "denied"]
  /\ UNCHANGED <<tables, lock>>

DenyCommit(r) ==
  /\ op[r].kind = "denied"
  /\ status' = [status EXCEPT ![op[r].call] = "denied"]
  /\ audit' = [audit EXCEPT ![op[r].call] = Append(@, "deny")]
  /\ End(r)
  /\ UNCHANGED <<tool, replies, effects>>

----------------------------------------------------------------------------
(***************************************************************************)
(* _history_messages: the next message replays the calls of a reply, each  *)
(* with the result of an execution.  The executions of a message come in   *)
(* any order; the first one of the same tool and arguments that was not    *)
(* used yet is taken, or else the first one that was not used.             *)
(***************************************************************************)
FirstAmong(order, C) == order[SelectInSeq(order, LAMBDA c : c \in C)]

\* The tool's name and the stored arguments: invalid ones are stored as none,
\* like those of a call without arguments.
Key(c) == IF tool[c] = "bad" THEN "read" ELSE tool[c]

SimilarReused(c, left) == {d \in Calls : Key(d) = Key(c)} \* mutant: used ones again
Similar(c, left) == {d \in left : Key(d) = Key(c)}

Candidates(c, left) == IF Similar(c, left) # {} THEN Similar(c, left) ELSE left

Replayed(calls, order) ==
  LET taken[n \in 0..Len(calls)] ==
        IF n = 0 THEN <<>>
        ELSE LET left == ToSet(order) \ ToSet(taken[n - 1])
             IN  Append(taken[n - 1], FirstAmong(order, Candidates(calls[n], left)))
  IN  taken[Len(calls)]

----------------------------------------------------------------------------
RequestStep(r) ==
  \/ SendStart(r) \/ ModelCalls(r) \/ ModelAnswers(r) \/ SendCommit(r)
  \/ \E c \in Calls : ConfirmOpen(r, c) \/ DenyOpen(r, c)
  \/ NotPending(r) \/ ConfirmExecute(r) \/ ConfirmFailed(r) \/ ConfirmCommit(r)
  \/ DenyCheck(r) \/ DenyCommit(r) \/ Rollback(r)

Next == \E r \in Requests : RequestStep(r)

Spec == Init /\ [][Next]_vars

----------------------------------------------------------------------------
(***************************************************************************)
(* Properties.                                                             *)
(***************************************************************************)
MadeType(made) ==
  /\ DOMAIN made \subseteq Calls
  /\ \A c \in DOMAIN made : made[c] \in [tool : Tools, status : Statuses]

TypeOK ==
  /\ status \in [Calls -> Statuses \cup {"none"}]
  /\ tool \in [Calls -> Tools \cup {None}]
  /\ replies \subseteq Seq(Calls)
  /\ effects \in [Calls -> 0..1]
  /\ audit \in [Calls -> {<<>>, <<"confirm">>, <<"deny">>}]
  /\ lock \in [Calls -> Requests \cup {None}]
  /\ \A r \in Requests :
       /\ op[r].kind \in {"send", "reply"} => MadeType(op[r].made)
       /\ op[r].kind = "send" => op[r].round \in 0..MaxIterations - 1

\* The audit trail tells what happened: a call that changes data has a confirm
\* event exactly if it is completed, and a deny event exactly if it is denied
\* ("confirm wykonujacy narzedzie dokladnie raz i zapisujacy audit log").
AuditTellsDecisions ==
  \A c \in Calls : tool[c] \in Mutating =>
    /\ audit[c] = <<"confirm">> <=> status[c] = "completed"
    /\ audit[c] = <<"deny">> <=> status[c] = "denied"
    /\ effects[c] = IF audit[c] = <<"confirm">> THEN 1 ELSE 0

\* What the model is told on its next turn: every call of every reply has one
\* result, of an execution with its name and its stored arguments.
EveryCallAnswered ==
  \A calls \in replies : \A order \in SetToSeqs(ToSet(calls)) :
    LET answers == Replayed(calls, order)
    IN  /\ ToSet(answers) = ToSet(calls)
        /\ \A n \in DOMAIN calls : Key(answers[n]) = Key(calls[n])

\* The decisions on the calls that change data implement ToolApproval.
Decision(c) ==
  IF tool[c] \in Mutating
    THEN IF status[c] = "pending_confirmation" THEN "pending" ELSE status[c]
    ELSE "none"
Approval ==
  INSTANCE ToolApproval
    WITH decision <- [c \in Calls |-> Decision(c)], applied <- {c \in Calls : effects[c] = 1}
ImplementsApproval == Approval!Spec
=============================================================================
