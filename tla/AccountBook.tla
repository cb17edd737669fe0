----------------------------- MODULE AccountBook -----------------------------
(***************************************************************************)
(* Accounts and everything that is booked on them: the account legs        *)
(* (postings) of transfers and exchanges, scheduled items and loan         *)
(* agreements (finance/entities.py, queries.py, ledger_validation.py,      *)
(* transactions.py, cashflow.py, loans.py).                                *)
(*                                                                         *)
(* A request is one PostgreSQL transaction.  Its statements interleave     *)
(* with those of other requests, each reads what is committed when it runs *)
(* (READ COMMITTED), and what it writes becomes visible at its commit,     *)
(* which is the last step of each operation below.  lock_accounts takes    *)
(* row locks that are held until then.                                     *)
(***************************************************************************)
EXTENDS Naturals, FiniteSets

CONSTANTS
  Accounts, Currencies,
  Imported,     \* accounts that come from the Actual import
  Transfers,    \* transactions with two account legs
  Items,        \* scheduled items, each on one account
  Loans,        \* loan agreements, each on a debt and a payment account
  Requests,     \* requests in flight
  PLN, None

Owners == Transfers \cup Items \cup Loans

ASSUME NamesAssumption ==
  /\ Imported \subseteq Accounts
  /\ PLN \in Currencies
  /\ None \notin Requests
  /\ (Transfers \cup Loans) \cap Items = {}

VARIABLES
  state,     \* an account: not created yet, open (is_active), closed or deleted
  currency,  \* accounts.currency
  booked,    \* what is booked: a set of [by, account, currency]
  made,      \* owners that were booked (ids are not used twice)
  shared,    \* requests that have the row of an account locked FOR SHARE
  holder,    \* the request that has it locked FOR UPDATE
  op         \* what a request is doing

vars == <<state, currency, booked, made, shared, holder, op>>
rows == <<state, currency, booked, made>>

Idle == [step |-> "idle"]
Booking(o, L) == [step |-> "book", by |-> o, legs |-> L]
Editing(old) == [step |-> "read", from |-> old]
Saving(old, new) == [step |-> "edit", from |-> old, to |-> new]
Changing(s, a, c) == [step |-> s, account |-> a, to |-> c]
Checked(a) == [step |-> "checked", account |-> a]
Deleting(a, L) == [step |-> "delete", account |-> a, legs |-> L]

Leg == [by : Owners, account : Accounts, currency : Currencies]
On(a) == {l \in booked : l.account = a}
Of(o) == {l \in booked : l.by = o}
Rows == {a \in Accounts : state[a] \in {"open", "closed"}}

OpOK(o) ==
  \/ o = Idle
  \/ o.step = "book" /\ o = Booking(o.by, o.legs) /\ o.by \in Owners /\ o.legs \subseteq Leg
  \/ o.step = "read" /\ o = Editing(o.from) /\ o.from \in Leg
  \/ o.step = "edit" /\ o = Saving(o.from, o.to) /\ {o.from, o.to} \subseteq Leg
  \/ /\ o.step \in {"locked", "changeable"}
     /\ o = Changing(o.step, o.account, o.to) /\ o.account \in Accounts /\ o.to \in Currencies
  \/ o.step = "checked" /\ o = Checked(o.account) /\ o.account \in Accounts
  \/ /\ o.step = "delete"
     /\ o = Deleting(o.account, o.legs) /\ o.account \in Accounts /\ o.legs \subseteq Leg

TypeOK ==
  /\ state \in [Accounts -> {"new", "open", "closed", "deleted"}]
  /\ currency \in [Accounts -> Currencies]
  /\ booked \subseteq Leg
  /\ made \subseteq Owners
  /\ shared \in [Accounts -> SUBSET Requests]
  /\ holder \in [Accounts -> Requests \cup {None}]
  /\ op = [r \in Requests |-> op[r]]
  /\ \A r \in Requests : OpOK(op[r])

Init ==
  /\ state = [a \in Accounts |-> "new"]
  /\ currency = [a \in Accounts |-> PLN]
  /\ booked = {}
  /\ made = {}
  /\ shared = [a \in Accounts |-> {}]
  /\ holder = [a \in Accounts |-> None]
  /\ op = [r \in Requests |-> Idle]

\* The end of a transaction, committed or not, gives its locks back.
End(r) ==
  /\ op' = [op EXCEPT ![r] = Idle]
  /\ shared' = [a \in Accounts |-> shared[a] \ {r}]
  /\ holder' = [a \in Accounts |-> IF holder[a] = r THEN None ELSE holder[a]]

\* An error, a refusal or a crash: the transaction is rolled back.
Rollback(r) == op[r] # Idle /\ End(r) /\ UNCHANGED rows

CreateAccount(a, s, c) ==
  /\ state[a] = "new"
  /\ state' = [state EXCEPT ![a] = s]
  /\ currency' = [currency EXCEPT ![a] = c]
  /\ UNCHANGED <<booked, made, shared, holder, op>>

\* What SELECT ... FOR UPDATE, UPDATE and DELETE of an account wait for.
LockedAnyway(a) == TRUE     \* mutant: an exclusive lock that waits for nobody
LockFree(a) == shared[a] = {} /\ holder[a] = None

\* PATCH without a currency opens or closes the account.
SetActive(a, s) ==
  /\ a \in Rows
  /\ LockFree(a)
  /\ state' = [state EXCEPT ![a] = s]
  /\ UNCHANGED <<currency, booked, made, shared, holder, op>>

----------------------------------------------------------------------------
(***************************************************************************)
(* Booking: create_transaction and create_exchange_transaction,            *)
(* create_scheduled_item, create_loan.  lock_accounts locks FOR SHARE, in  *)
(* the order of the ids; as every exclusive lock is of a single row,       *)
(* nothing is lost by taking the locks of a request in one step.           *)
(***************************************************************************)
NoShare(r, A) == shared     \* mutant: the accounts are read but not locked
Share(r, A) == [a \in Accounts |-> IF a \in A THEN shared[a] \cup {r} ELSE shared[a]]

Fits(o, A) == Cardinality(A) = IF o \in Items THEN 1 ELSE 2

\* The accounts exist, are active and have the currency that the request names
\* (any other request is refused), which is PLN for a loan.
Legs(o, A) == {[by |-> o, account |-> a, currency |-> currency[a]] : a \in A}
Valid(o, A) ==
  /\ \A a \in A : state[a] = "open"
  /\ o \in Loans => \A a \in A : currency[a] = PLN

Book(r, o, A) ==
  /\ op[r] = Idle
  /\ o \notin made
  /\ Fits(o, A)
  /\ \A a \in A : holder[a] = None
  /\ Valid(o, A)
  /\ op' = [op EXCEPT ![r] = Booking(o, Legs(o, A))]
  /\ shared' = Share(r, A)
  /\ UNCHANGED <<rows, holder>>

BookCommit(r) ==
  /\ op[r].step = "book"
  /\ op[r].by \notin made
  /\ booked' = booked \cup op[r].legs
  /\ made' = made \cup {op[r].by}
  /\ End(r)
  /\ UNCHANGED <<state, currency>>

\* DELETE of a transaction with its postings, or of a scheduled item.
Unbook(o) ==
  /\ o \in made \ Loans
  /\ booked' = booked \ Of(o)
  /\ UNCHANGED <<state, currency, made, shared, holder, op>>

----------------------------------------------------------------------------
(***************************************************************************)
(* update_scheduled_item.  The item is read before the account is locked,  *)
(* and only the columns that differ from what was read are written.        *)
(***************************************************************************)
EditRead(r, o) ==
  /\ op[r] = Idle
  /\ \E l \in Of(o) : op' = [op EXCEPT ![r] = Editing(l)]
  /\ UNCHANGED <<rows, shared, holder>>

EditLock(r, a) ==
  /\ op[r].step = "read"
  /\ holder[a] = None
  /\ Valid(op[r].from.by, {a})
  /\ \E new \in Legs(op[r].from.by, {a}) : op' = [op EXCEPT ![r] = Saving(op[r].from, new)]
  /\ shared' = Share(r, {a})
  /\ UNCHANGED <<rows, holder>>

Written(l, old, new) ==
  [by |-> l.by,
   account |-> IF new.account # old.account THEN new.account ELSE l.account,
   currency |-> IF new.currency # old.currency THEN new.currency ELSE l.currency]

EditCommit(r) ==
  /\ op[r].step = "edit"
  /\ \E l \in Of(op[r].from.by) :
       booked' = (booked \ {l}) \cup {Written(l, op[r].from, op[r].to)}
  /\ End(r)
  /\ UNCHANGED <<state, currency, made>>

----------------------------------------------------------------------------
(***************************************************************************)
(* update_account with a currency.                                         *)
(***************************************************************************)
CurrencyLock(r, a, c) ==
  /\ op[r] = Idle
  /\ a \in Rows
  /\ LockFree(a)
  /\ holder' = [holder EXCEPT ![a] = r]
  /\ op' = [op EXCEPT ![r] = Changing("locked", a, c)]
  /\ UNCHANGED <<rows, shared>>

\* get_account, after the lock: can_change_currency.
CanChange(a) == On(a) = {} /\ a \notin Imported

CurrencyRead(r) ==
  /\ op[r].step = "locked"
  /\ op[r].to = currency[op[r].account] \/ CanChange(op[r].account)
  /\ op' = [op EXCEPT ![r] = Changing("changeable", op[r].account, op[r].to)]
  /\ UNCHANGED <<rows, shared, holder>>

\* The same PATCH may open or close the account.
CurrencyCommit(r) ==
  /\ op[r].step = "changeable"
  /\ currency' = [currency EXCEPT ![op[r].account] = op[r].to]
  /\ \E s \in {"open", "closed"} : state' = [state EXCEPT ![op[r].account] = s]
  /\ End(r)
  /\ UNCHANGED <<booked, made>>

----------------------------------------------------------------------------
(***************************************************************************)
(* delete_account.  Nothing is locked before the DELETE itself, and        *)
(* db.delete loads the postings of the account for the ORM to delete them  *)
(* too (cascade "all, delete-orphan"), after the check that there are none.*)
(***************************************************************************)
Unused(a) == On(a) = {}

DeleteCheck(r, a) ==
  /\ op[r] = Idle
  /\ a \in Rows
  /\ Unused(a)
  /\ op' = [op EXCEPT ![r] = Checked(a)]
  /\ UNCHANGED <<rows, shared, holder>>

DeleteLoad(r) ==
  /\ op[r].step = "checked"
  /\ LET a == op[r].account
     IN  op' = [op EXCEPT ![r] = Deleting(a, {l \in On(a) : l.by \in Transfers})]
  /\ UNCHANGED <<rows, shared, holder>>

\* ON DELETE RESTRICT refuses an account with anything else booked on it.
Restricted(a, L) == On(a) \ L # {}

DeleteCommit(r) ==
  /\ op[r].step = "delete"
  /\ LET a == op[r].account
         L == op[r].legs
     IN  /\ LockFree(a)
         /\ ~Restricted(a, L)
         /\ state' = [state EXCEPT ![a] = "deleted"]
         /\ booked' = booked \ L
  /\ End(r)
  /\ UNCHANGED <<currency, made>>

----------------------------------------------------------------------------
RequestStep(r) ==
  \/ Rollback(r)
  \/ \E o \in Owners, A \in SUBSET Accounts : Book(r, o, A)
  \/ BookCommit(r)
  \/ \E o \in Items : EditRead(r, o)
  \/ \E a \in Accounts : EditLock(r, a)
  \/ EditCommit(r)
  \/ \E a \in Accounts, c \in Currencies : CurrencyLock(r, a, c)
  \/ CurrencyRead(r)
  \/ CurrencyCommit(r)
  \/ \E a \in Accounts : DeleteCheck(r, a)
  \/ DeleteLoad(r)
  \/ DeleteCommit(r)

Next ==
  \/ \E a \in Accounts, s \in {"open", "closed"}, c \in Currencies : CreateAccount(a, s, c)
  \/ \E a \in Accounts, s \in {"open", "closed"} : SetActive(a, s)
  \/ \E o \in Owners : Unbook(o)
  \/ \E r \in Requests : RequestStep(r)

Spec == Init /\ [][Next]_vars

----------------------------------------------------------------------------
(***************************************************************************)
(* Properties.                                                             *)
(***************************************************************************)

\* Every posting, and every loan, is in the currency of its account: changing
\* the currency of an account excludes its first posting (lock_accounts, and
\* can_change_currency read after the lock).
PostingCurrencyMatches ==
  \A l \in booked : l.by \notin Items => l.currency = currency[l.account]

\* Nothing is booked on an account that was deleted, although delete_account
\* checks before it locks: the foreign keys restrict.
NothingDangling == \A l \in booked : l.account \in Rows

\* A posting or a loan is added only on an account that is open at that moment:
\* closing it waits for the requests that have validated it.
BookedOnOpenAccounts ==
  [][\A l \in booked' \ booked : l.by \notin Items => state[l.account] = "open"]_vars

\* Debits = credits (ledger_validation.py): a transfer in the book has both its
\* legs.
LedgerBalanced == \A t \in Transfers : Cardinality(Of(t)) \in {0, 2}

=============================================================================
