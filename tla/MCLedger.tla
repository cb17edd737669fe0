------------------------------ MODULE MCLedger ------------------------------
(***************************************************************************)
(* What is booked in the ledger, in parts that one run of TLC checks side  *)
(* by side.  The initial state chooses the part:                           *)
(*   "accounts"   AccountBook, with this module's constants, where either  *)
(*                all items are long gone, or one account is;              *)
(*   "scheduled"  ScheduledItems: months of three days, items that are due *)
(*                on the second, and one day of grace;                     *)
(*   "exchange"   Exchange: amounts and rates, over a weekend.             *)
(***************************************************************************)
EXTENDS AccountBook, Integers, TLC

CONSTANTS
  Transactions, MonthLength, DueDays, Grace, Horizon, MaxDay, MaxAmount,
  RateDays, Weekend, Rates, ManualRates, Scale, FromAmounts

\* Days and amounts are whole numbers, none of them negative; rates are positive,
\* and so is what is exchanged.  None is no item.
ASSUME LedgerAssumption ==
  /\ DueDays \subseteq Nat
  /\ {MonthLength, Scale} \subseteq Nat \ {0}
  /\ {Grace, MaxDay, MaxAmount} \subseteq Nat
  /\ None \notin [day : DueDays, fixed : 0..MaxAmount, active : BOOLEAN]
  /\ RateDays \subseteq Int
  /\ Rates \cup ManualRates \cup FromAmounts \subseteq Nat \ {0}

VARIABLES
  part,
  today, item, txn, itemLock, account, sharers, schedOp,
  published, ex

C == INSTANCE ScheduledItems WITH op <- schedOp
X == INSTANCE Exchange WITH Days <- RateDays, Amounts <- FromAmounts

schedVars == <<today, item, txn, itemLock, account, sharers, schedOp>>
exchangeVars == <<published, ex>>

\* What was there is deleted, and its ids are not used again.
AccountsInit ==
  /\ currency = [a \in Accounts |-> PLN]
  /\ booked = {}
  /\ shared = [a \in Accounts |-> {}]
  /\ holder = [a \in Accounts |-> None]
  /\ op = [r \in Requests |-> Idle]
  /\ \/ made = Items /\ state = [a \in Accounts |-> "new"]
     \/ /\ made = {}
        /\ \E gone \in Accounts \ Imported :
             state = [a \in Accounts |-> IF a = gone THEN "deleted" ELSE "new"]

PartInit ==
  /\ C!Init /\ X!Init
  /\ \/ part = "accounts" /\ AccountsInit /\ published = [d \in RateDays |-> None]
     \/ part = "scheduled" /\ Init /\ published = [d \in RateDays |-> None]
     \/ part = "exchange" /\ Init

PartNext ==
  /\ \/ part = "accounts" /\ Next /\ UNCHANGED <<schedVars, exchangeVars>>
     \/ part = "scheduled" /\ C!Next /\ UNCHANGED <<vars, exchangeVars>>
     \/ part = "exchange" /\ X!Next /\ UNCHANGED <<vars, schedVars>>
  /\ UNCHANGED part

PartSpec == PartInit /\ [][PartNext]_<<part, vars, schedVars, exchangeVars>>

\* Imported accounts are not interchangeable with others.
Symmetry == Permutations(Requests) \cup Permutations(Accounts \ Imported)
-----------------------------------------------------------------------------
\* An occurrence is confirmed once, while its item is not edited and its entry is
\* not moved (confirm_scheduled_item).
ConfirmedOnce == C!ConfirmedOnce

\* What is in the ledger is not expected again (get_cashflow_forecast).
NotCountedTwice == C!NotCountedTwice

\* An exchange is booked at the last rate, within its roundings
\* (create_exchange_transaction, _validate_transaction_postings).
ExchangeBooked == X!ExchangeBooked
=============================================================================
