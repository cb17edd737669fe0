---------------------------- MODULE LoanPayments ----------------------------
(***************************************************************************)
(* Loan installments and the existing transfers that are linked to them as *)
(* payments (finance/loans.py, and update_transaction, delete_transaction  *)
(* of finance/transactions.py).                                            *)
(*                                                                         *)
(* A request is one transaction: it locks rows one after the other (SELECT *)
(* ... FOR UPDATE), checks what it then reads, and commits, which writes   *)
(* and gives the locks back.  The first lock is part of the request's      *)
(* first step, since nobody waits for a request that holds nothing.        *)
(***************************************************************************)
EXTENDS Integers, Sequences, Functions

CONSTANTS
  Loans, Installments, Transfers,
  Links,       \* ids of loan_payment_links
  Requests,
  MaxAmount,   \* bounds the amounts
  None

ASSUME BoundAssumption == MaxAmount \in Nat \ {0}
ASSUME NamesAssumption ==
  /\ None \notin Loans \cup Requests \cup [transfer : Transfers, installment : Installments]
  /\ Loans \cap (Installments \cup Transfers \cup Links) = {}
  /\ Installments \cap (Transfers \cup Links) = {}
  /\ Transfers \cap Links = {}

VARIABLES
  loanOf,   \* loan_installments.loan_id; None: no row was made yet
  total,    \* principal, interest and fees together; 0: no row
  status,   \* a transfer: "new" (no row), "pending", "future" (dated after
            \* today), "eligible" as a payment, or "deleted"
  amount,   \* its amount
  link,     \* a link: None or [transfer, installment]
  used,     \* the ids of links that were given out
  holder,   \* the request that has a row locked
  op        \* what a request is doing, with the rows it still has to lock

vars == <<loanOf, total, status, amount, link, used, holder, op>>
tables == <<loanOf, total, status, amount, link, used>>

Statuses == {"pending", "future", "eligible"}
Amounts == 1..MaxAmount
Rows == Loans \cup Installments \cup Transfers \cup Links
Payment == [transfer : Transfers, installment : Installments]

LinksOf(i) == {k \in Links : link[k] # None /\ link[k].installment = i}
LinksOn(t) == {k \in Links : link[k] # None /\ link[k].transfer = t}

\* _installment_paid
Paid(i) == SumFunction([k \in LinksOf(i) |-> amount[link[k].transfer]])

----------------------------------------------------------------------------
(***************************************************************************)
(* The operations, with the rows that each locks, in that order.           *)
(***************************************************************************)
LinkUnlocked(l, i, t) == <<l, t>>   \* mutant: the installment is read, not locked
LinkOrder(l, i, t) == <<l, i, t>>

UnlinkBackwards(l, k) == <<k, l>>   \* mutant: the link before the agreement
UnlinkOrder(l, k) == <<l, k>>       \* and then the installment of the link

Idle == [kind |-> "idle", todo |-> <<>>]
LinkRequests ==
  {[kind |-> "link", loan |-> l, installment |-> i, transfer |-> t, todo |-> LinkOrder(l, i, t)] :
     l \in Loans, i \in Installments, t \in Transfers}
UnlinkRequests ==
  {[kind |-> "unlink", loan |-> l, link |-> k, todo |-> UnlinkOrder(l, k)] :
     l \in Loans, k \in Links}
AddRequests ==
  {[kind |-> "add", loan |-> l, installment |-> i, total |-> n, todo |-> <<l>>] :
     l \in Loans, i \in Installments, n \in Amounts}
InstallmentRequests ==      \* a total of 0 deletes it
  {[kind |-> "installment", installment |-> i, total |-> n, todo |-> <<i>>] :
     i \in Installments, n \in Amounts \cup {0}}
TransferRequests ==
  {[kind |-> "transfer", transfer |-> t, status |-> s, todo |-> <<t>>] :
     t \in Transfers, s \in Statuses \cup {"deleted"}}

Init ==
  /\ loanOf = [i \in Installments |-> None]
  /\ total = [i \in Installments |-> 0]
  /\ status = [t \in Transfers |-> "new"]
  /\ amount = [t \in Transfers |-> 1]
  /\ link = [k \in Links |-> None]
  /\ used = {}
  /\ holder = [x \in Rows |-> None]
  /\ op = [r \in Requests |-> Idle]

\* create_transaction of a transfer between the accounts of the loan.
CreateTransfer(t, s, n) ==
  /\ status[t] = "new"
  /\ status' = [status EXCEPT ![t] = s]
  /\ amount' = [amount EXCEPT ![t] = n]
  /\ UNCHANGED <<loanOf, total, link, used, holder, op>>

\* _local_today reaches the date of the transfer.
DayComes(t) ==
  /\ status[t] = "future"
  /\ status' = [status EXCEPT ![t] = "eligible"]
  /\ UNCHANGED <<loanOf, total, amount, link, used, holder, op>>

\* The row that the query of operation o locks is there.
Found(o, x) ==
  /\ x \in Installments => total[x] > 0 /\ (o.kind = "link" => loanOf[x] = o.loan)
  /\ x \in Transfers => status[x] \in Statuses
  /\ x \in Links => link[x] # None /\ loanOf[link[x].installment] = o.loan

Lock(r, o) ==
  LET x == Head(o.todo)
  IN  /\ o.todo # <<>>
      /\ Found(o, x)
      /\ holder[x] \in {None, r}
      /\ holder' = [holder EXCEPT ![x] = r]
      /\ op' = [op EXCEPT ![r] =
           [o EXCEPT !.todo = IF x \in Links THEN Append(Tail(@), link[x].installment)
                                            ELSE Tail(@)]]
      /\ UNCHANGED tables

Begin(r) ==
  /\ op[r] = Idle
  /\ \E o \in LinkRequests \cup UnlinkRequests \cup AddRequests \cup InstallmentRequests
               \cup TransferRequests : Lock(r, o)
LockNext(r) == op[r].kind # "idle" /\ Lock(r, op[r])

End(r) ==
  /\ op' = [op EXCEPT ![r] = Idle]
  /\ holder' = [x \in Rows |-> IF holder[x] = r THEN None ELSE holder[x]]

\* A refusal (404, 409, 422), an error or a crash.
Rollback(r) == op[r] # Idle /\ End(r) /\ UNCHANGED tables

\* A step of an operation of this kind that has all its locks.
Locked(r, kind) == op[r].kind = kind /\ op[r].todo = <<>>
Checked(r, kind) == op' = [op EXCEPT ![r].kind = kind] /\ UNCHANGED <<tables, holder>>

----------------------------------------------------------------------------
(***************************************************************************)
(* link_loan_payment, unlink_loan_payment.                                 *)
(***************************************************************************)
Fits(i, t) == Paid(i) + amount[t] <= total[i]

LinkCheck(r) ==
  /\ Locked(r, "link")
  /\ LinksOn(op[r].transfer) = {}
  /\ status[op[r].transfer] = "eligible"      \* _valid_transfer_amount
  /\ Fits(op[r].installment, op[r].transfer)
  /\ Checked(r, "linking")

\* The transfer is linked already: its link is locked too, and the request
\* ends without a change (the same installment) or is refused (another one).
LinkExisting(r) ==
  /\ Locked(r, "link")
  /\ \E k \in LinksOn(op[r].transfer) : holder[k] = None
  /\ End(r)
  /\ UNCHANGED tables

LinkCommit(r) ==
  /\ op[r].kind = "linking"
  /\ \E k \in Links \ used :
       /\ used' = used \cup {k}
       /\ link' = [link EXCEPT ![k] = [transfer |-> op[r].transfer, installment |-> op[r].installment]]
  /\ End(r)
  /\ UNCHANGED <<loanOf, total, status, amount>>

UnlinkCommit(r) ==
  /\ Locked(r, "unlink")
  /\ link' = [link EXCEPT ![op[r].link] = None]
  /\ End(r)
  /\ UNCHANGED <<loanOf, total, status, amount, used>>

----------------------------------------------------------------------------
(***************************************************************************)
(* create_loan_installment, update_loan_installment,                       *)
(* delete_loan_installment.                                                *)
(***************************************************************************)
AddCommit(r) ==
  /\ Locked(r, "add")
  /\ loanOf[op[r].installment] = None
  /\ loanOf' = [loanOf EXCEPT ![op[r].installment] = op[r].loan]
  /\ total' = [total EXCEPT ![op[r].installment] = op[r].total]
  /\ End(r)
  /\ UNCHANGED <<status, amount, link, used>>

\* mutant: a link to the installment does not matter
InstallmentAnyway(r) == Locked(r, "installment") /\ Checked(r, "changing")

InstallmentCheck(r) ==
  /\ Locked(r, "installment")
  /\ LinksOf(op[r].installment) = {}
  /\ Checked(r, "changing")

InstallmentCommit(r) ==
  /\ op[r].kind = "changing"
  /\ total' = [total EXCEPT ![op[r].installment] = op[r].total]
  /\ End(r)
  /\ UNCHANGED <<loanOf, status, amount, link, used>>

----------------------------------------------------------------------------
(***************************************************************************)
(* update_transaction, delete_transaction.                                 *)
(***************************************************************************)
UnlinkedIfPending(t, s) ==    \* mutant: only a change of is_pending is refused
  s = "pending" => LinksOn(t) = {}
Unlinked(t, s) == s # status[t] => LinksOn(t) = {}

TransferCheck(r) ==
  /\ Locked(r, "transfer")
  /\ Unlinked(op[r].transfer, op[r].status)
  /\ Checked(r, "moving")

TransferCommit(r) ==
  /\ op[r].kind = "moving"
  /\ status' = [status EXCEPT ![op[r].transfer] = op[r].status]
  /\ End(r)
  /\ UNCHANGED <<loanOf, total, amount, link, used>>

----------------------------------------------------------------------------
RequestStep(r) ==
  \/ Begin(r) \/ LockNext(r) \/ Rollback(r)
  \/ LinkCheck(r) \/ LinkExisting(r) \/ LinkCommit(r) \/ UnlinkCommit(r)
  \/ AddCommit(r) \/ InstallmentCheck(r) \/ InstallmentCommit(r)
  \/ TransferCheck(r) \/ TransferCommit(r)

Next ==
  \/ \E t \in Transfers, s \in Statuses, n \in Amounts : CreateTransfer(t, s, n)
  \/ \E t \in Transfers : DayComes(t)
  \/ \E r \in Requests : RequestStep(r)

Spec == Init /\ [][Next]_vars

----------------------------------------------------------------------------
(***************************************************************************)
(* Properties.                                                             *)
(***************************************************************************)
OperationType ==
  [kind : {"idle"}, todo : Seq(Rows)]
  \cup [kind : {"link", "linking"}, loan : Loans, installment : Installments,
        transfer : Transfers, todo : Seq(Rows)]
  \cup [kind : {"unlink"}, loan : Loans, link : Links, todo : Seq(Rows)]
  \cup [kind : {"add"}, loan : Loans, installment : Installments, total : Amounts,
        todo : Seq(Rows)]
  \cup [kind : {"installment", "changing"}, installment : Installments,
        total : Amounts \cup {0}, todo : Seq(Rows)]
  \cup [kind : {"transfer", "moving"}, transfer : Transfers,
        status : Statuses \cup {"deleted"}, todo : Seq(Rows)]

TypeOK ==
  /\ loanOf \in [Installments -> Loans \cup {None}]
  /\ total \in [Installments -> 0..MaxAmount]
  /\ status \in [Transfers -> Statuses \cup {"new", "deleted"}]
  /\ amount \in [Transfers -> Amounts]
  /\ link \in [Links -> Payment \cup {None}]
  /\ used \subseteq Links
  /\ holder \in [Rows -> Requests \cup {None}]
  /\ op \in [Requests -> OperationType]

\* An installment is never paid more than its total ("Payment exceeds
\* installment remaining amount"), whatever payments are linked concurrently.
PaidWithinTotal == \A i \in Installments : Paid(i) <= total[i]

\* A linked payment is a transfer that was made, not pending and not in the
\* future, it pays one installment only, and both rows are there.
LinkedPaymentsValid ==
  /\ \A k \in Links :
       link[k] # None => status[link[k].transfer] = "eligible" /\ total[link[k].installment] > 0
  /\ \A j, k \in Links :
       link[j] # None /\ link[k] # None /\ link[j].transfer = link[k].transfer => j = k

\* While a payment is linked, neither its transfer nor its installment changes.
LinkedRowsFrozen ==
  [][\A k \in Links : link[k] # None /\ link'[k] # None =>
       /\ status'[link[k].transfer] = status[link[k].transfer]
       /\ total'[link[k].installment] = total[link[k].installment]]_vars

\* The row that a request has to wait for.
Awaited(r) ==
  IF op[r].todo # <<>> THEN {Head(op[r].todo)}
  ELSE IF op[r].kind = "link" THEN LinksOn(op[r].transfer) ELSE {}
WaitsFor(r, q) == q # r /\ \E x \in Awaited(r) : holder[x] = q

\* Requests never wait for each other in a circle ("This prevents opposite lock
\* orders on an idempotent link vs unlink").
NoCircularWait ==
  \A S \in SUBSET Requests : S # {} => \E r \in S : \A q \in S : ~WaitsFor(r, q)
=============================================================================
