--------------------------- MODULE ScheduledItems ---------------------------
(***************************************************************************)
(* Scheduled monthly items, the forecast that expects them, and their      *)
(* confirmation into the ledger (finance/cashflow.py).                     *)
(*                                                                         *)
(* The items and transactions are those of one account, one category and   *)
(* one type: others never match each other.  A day is a number, and every  *)
(* month has MonthLength days.                                             *)
(***************************************************************************)
EXTENDS Integers

CONSTANTS
  Items,
  Transactions,   \* ids of transactions, in the order of their created_at
  Requests,
  MonthLength,
  DueDays,        \* days of a month on which an item may be due
  Grace,          \* overdue_grace_days
  Horizon,        \* forecast_horizon_days
  MaxDay,         \* bounds the days
  MaxAmount,      \* bounds the amounts
  None

VARIABLES
  today,      \* _local_today
  item,       \* None (no row) or an item; a fixed amount of 0 is last_actual
  txn,        \* None (no row) or a transaction; occurrence tells for what it
              \* was confirmed, as long as neither is changed: the code
              \* finds it again by its date and amount alone
  itemLock,   \* the request that has the row of an item locked
  account,    \* the request that has the account locked FOR UPDATE
  sharers,    \* the requests that have it locked FOR SHARE
  op          \* what a request is doing

vars == <<today, item, txn, itemLock, account, sharers, op>>
tables == <<item, txn>>

Days == 0..MaxDay
Amounts == 1..MaxAmount
Item == [day : DueDays, fixed : 0..MaxAmount, active : BOOLEAN]
Rows == {t \in Transactions : txn[t] # None}
Month(d) == d \div MonthLength
Due(i, month) == month * MonthLength + item[i].day

----------------------------------------------------------------------------
(***************************************************************************)
(* get_cashflow_forecast.                                                  *)
(***************************************************************************)
\* _matching_actuals, before their amounts are compared.
Window(due) == {t \in Rows : txn[t].date \in due - Grace .. due + Grace}

\* _resolve_scheduled_amount: the newest transaction up to today, if the item
\* has no amount of its own.
Newer(s, t) == txn[s].date > txn[t].date \/ (txn[s].date = txn[t].date /\ s > t)
NewestEver(t) == \A s \in Rows : ~Newer(s, t)     \* mutant: future ones too
Newest(t) == txn[t].date <= today /\ \A s \in Rows : txn[s].date <= today => ~Newer(s, t)
Resolved(i) ==
  IF item[i].fixed > 0 THEN {item[i].fixed} ELSE {txn[t].amount : t \in {s \in Rows : Newest(s)}}

MatchedByDay(i, due) ==                 \* mutant: on the due day only
  \E t \in Rows : txn[t].date = due /\ txn[t].amount \in Resolved(i)
Matched(i, due) == \E t \in Window(due) : txn[t].amount \in Resolved(i)

\* The occurrences that the forecast lists, and those that it still expects.
Suggested(i, due) ==
  /\ item[i] # None /\ item[i].active
  /\ due \in {Due(i, m) : m \in Month(today)..Month(today + Horizon - 1)}
  /\ due <= today + Horizon - 1
Expected(i, due) ==
  Suggested(i, due) /\ ~Matched(i, due) /\ due + Grace >= today /\ Resolved(i) # {}

----------------------------------------------------------------------------
Idle == [kind |-> "idle"]

Init ==
  /\ today = 0
  /\ item = [i \in Items |-> None]
  /\ txn = [t \in Transactions |-> None]
  /\ itemLock = [i \in Items |-> None]
  /\ account = None
  /\ sharers = {}
  /\ op = [r \in Requests |-> Idle]

DayPasses ==
  /\ today < MaxDay
  /\ today' = today + 1
  /\ UNCHANGED <<tables, itemLock, account, sharers, op>>

\* Locks that are free, or that r has itself.
AccountFree == account = None

\* create_scheduled_item and update_scheduled_item lock the account to read it;
\* they and delete_scheduled_item (None) wait for the row that they write.
SaveItem(i, v) ==
  /\ AccountFree
  /\ itemLock[i] = None
  /\ item' = [item EXCEPT ![i] = v]
  /\ UNCHANGED <<today, txn, itemLock, account, sharers, op>>

CreateItem(i) == item[i] = None /\ \E v \in Item : SaveItem(i, v)
SwitchItem(i) == item[i] # None /\ SaveItem(i, [item[i] EXCEPT !.active = ~@])

\* What was confirmed for the item is not its occurrence any more.
Loose(t, i) ==
  IF txn[t] # None /\ txn[t].occurrence # None /\ txn[t].occurrence.item = i
  THEN [txn[t] EXCEPT !.occurrence = None] ELSE txn[t]

EditItem(i, v) ==
  /\ v # None => AccountFree
  /\ itemLock[i] = None
  /\ item[i] # None
  /\ item' = [item EXCEPT ![i] = v]
  /\ txn' = [t \in Transactions |-> Loose(t, i)]
  /\ UNCHANGED <<today, itemLock, account, sharers, op>>

\* update_transaction and delete_transaction lock the transaction only.
MoveTransaction(t, d) ==
  /\ txn[t] # None /\ txn[t].date # d
  /\ txn' = [txn EXCEPT ![t].date = d, ![t].occurrence = None]
  /\ UNCHANGED <<today, item, itemLock, account, sharers, op>>

DeleteTransaction(t) ==
  /\ txn[t] # None
  /\ txn' = [txn EXCEPT ![t] = None]
  /\ UNCHANGED <<today, item, itemLock, account, sharers, op>>

----------------------------------------------------------------------------
End(r) ==
  /\ op' = [op EXCEPT ![r] = Idle]
  /\ itemLock' = [i \in Items |-> IF itemLock[i] = r THEN None ELSE itemLock[i]]
  /\ account' = IF account = r THEN None ELSE account
  /\ sharers' = sharers \ {r}

\* A refusal, an error or a crash.
Rollback(r) == op[r] # Idle /\ End(r) /\ UNCHANGED <<today, tables>>

Insert(t, d, n, o) ==
  /\ txn[t] = None
  /\ txn' = [txn EXCEPT ![t] = [date |-> d, amount |-> n, occurrence |-> o]]

\* create_transaction of the user, of a day and amount that nothing depends on
\* before they are committed.
EnterStart(r) ==
  /\ op[r] = Idle
  /\ AccountFree
  /\ sharers' = sharers \cup {r}
  /\ op' = [op EXCEPT ![r] = [kind |-> "enter"]]
  /\ UNCHANGED <<today, tables, itemLock, account>>

EnterCommit(r, t, d, n) ==
  /\ op[r].kind = "enter"
  /\ Insert(t, d, n, None)
  /\ End(r)
  /\ UNCHANGED <<today, item>>

\* confirm_scheduled_item locks the item and then the account.
ConfirmItem(r, i) ==
  /\ op[r] = Idle
  /\ item[i] # None /\ item[i].active
  /\ itemLock[i] = None
  /\ itemLock' = [itemLock EXCEPT ![i] = r]
  /\ op' = [op EXCEPT ![r] = [kind |-> "item", item |-> i]]
  /\ UNCHANGED <<today, tables, account, sharers>>

ConfirmAccount(r) ==
  /\ op[r].kind = "item"
  /\ AccountFree
  /\ sharers = {}
  /\ account' = r
  /\ op' = [op EXCEPT ![r].kind = "account"]
  /\ UNCHANGED <<today, tables, itemLock, sharers>>

\* The occurrence of this month, if it is due and nothing matches it.
ConfirmCheck(r) ==
  /\ op[r].kind = "account"
  /\ \E n \in Resolved(op[r].item) :
       LET i == op[r].item
           due == Due(i, Month(today))
       IN  /\ due <= today
           /\ Expected(i, due)
           /\ op' = [op EXCEPT ![r] = [kind |-> "confirm", item |-> i, due |-> due,
                                       amount |-> n, date |-> today]]
  /\ UNCHANGED <<today, tables, itemLock, account, sharers>>

ConfirmCommit(r, t) ==
  /\ op[r].kind = "confirm"
  /\ Insert(t, op[r].date, op[r].amount, [item |-> op[r].item, due |-> op[r].due])
  /\ End(r)
  /\ UNCHANGED <<today, item>>

RequestStep(r) ==
  \/ EnterStart(r) \/ \E t \in Transactions, d \in Days, n \in Amounts : EnterCommit(r, t, d, n)
  \/ \E i \in Items : ConfirmItem(r, i)
  \/ ConfirmAccount(r) \/ ConfirmCheck(r) \/ Rollback(r)
  \/ \E t \in Transactions : ConfirmCommit(r, t)

Next ==
  \/ DayPasses
  \/ \E i \in Items : CreateItem(i) \/ SwitchItem(i)
  \/ \E i \in Items, v \in Item \cup {None} : EditItem(i, v)
  \/ \E t \in Transactions, d \in Days : MoveTransaction(t, d)
  \/ \E t \in Transactions : DeleteTransaction(t)
  \/ \E r \in Requests : RequestStep(r)

Spec == Init /\ [][Next]_vars

----------------------------------------------------------------------------
(***************************************************************************)
(* Properties.                                                             *)
(***************************************************************************)
\* An occurrence is confirmed once, however often and from however many
\* requests the user confirms it (test_concurrent_confirmations_create_exactly_
\* one_transaction), as long as the item is not edited and the entry is not moved:
\* what was confirmed is then an occurrence no more (Loose).
ConfirmedOnce ==
  \A s, t \in Rows : txn[s].occurrence # None /\ txn[s].occurrence = txn[t].occurrence => s = t

\* The forecast does not expect an occurrence again that is in the ledger ("Po
\* powiazaniu prognoza nie dubluje rzeczywistego zapisu"), also when its amount
\* is that of the last transaction and other transactions follow.
NotCountedTwice ==
  \A t \in Rows : txn[t].occurrence # None =>
    ~Expected(txn[t].occurrence.item, txn[t].occurrence.due)

\* An occurrence that is past its day is listed until it is paid or the grace
\* days are over ("Po 3 dniach bez rzeczywistego wpisu ma status
\* overdue_uncertain").
ListedInGrace ==
  \A i \in Items, m \in 0..Month(today) :
    item[i] # None /\ item[i].active /\ today \in Due(i, m) .. Due(i, m) + Grace =>
      Suggested(i, Due(i, m))
=============================================================================
