---------------------------- MODULE LedgerProofs ----------------------------
(***************************************************************************)
(* Proofs about the parts of MCLedger beside AccountBook: the occurrences  *)
(* of scheduled items (C), and the booking of an exchange (X).             *)
(***************************************************************************)
EXTENDS MCLedger, DataTheorems, TLAPS

(***************************************************************************)
(* Scheduled items.                                                        *)
(***************************************************************************)
Occurrence == [item : Items, due : Int]
Transaction == [date : Int, amount : Int, occurrence : Occurrence \cup {None}]
SchedOp ==
  {C!Idle} \cup [kind : {"enter"}] \cup [kind : {"item", "account"}, item : Items]
    \cup [kind : {"confirm"}, item : Items, due : Int, amount : Int, date : Int]

SchedTypeOK ==
  /\ today \in Int
  /\ item \in [Items -> C!Item \cup {None}]
  /\ txn \in [Transactions -> Transaction \cup {None}]
  /\ itemLock \in [Items -> Requests \cup {None}]
  /\ account \in Requests \cup {None}
  /\ schedOp \in [Requests -> SchedOp]

\* An entry on day d, of n, is what the item i was due for: it is there, has that
\* amount or none, and the day is in the grace days and not in the future.
Pays(i, due, d, n) ==
  /\ item[i] # None
  /\ item[i].fixed \in {0, n}
  /\ due <= d /\ d <= due + Grace
  /\ d <= today

\* What is confirmed pays what it was confirmed for, and a request that confirms
\* has its item, from the check on its account, and nobody else's confirmation.
BookedPays ==
  \A t \in C!Rows : txn[t].occurrence # None =>
    Pays(txn[t].occurrence.item, txn[t].occurrence.due, txn[t].date, txn[t].amount)
ItemHeld ==
  \A r \in Requests : schedOp[r].kind \in {"item", "account", "confirm"} =>
    itemLock[schedOp[r].item] = r /\ item[schedOp[r].item] # None
AccountHeld ==
  \A r \in Requests : schedOp[r].kind \in {"account", "confirm"} => account = r
CheckedPays ==
  \A r \in Requests : schedOp[r].kind = "confirm" =>
    /\ Pays(schedOp[r].item, schedOp[r].due, schedOp[r].date, schedOp[r].amount)
    /\ \A t \in C!Rows : txn[t].occurrence # None =>
         txn[t].occurrence # [item |-> schedOp[r].item, due |-> schedOp[r].due]

SchedInv ==
  /\ SchedTypeOK /\ BookedPays /\ ItemHeld /\ AccountHeld /\ CheckedPays /\ C!ConfirmedOnce

LEMMA Numbers ==
  /\ \A d \in DueDays : d \in Nat
  /\ MonthLength \in Nat \ {0} /\ Scale \in Nat \ {0}
  /\ Grace \in Nat /\ MaxDay \in Nat /\ MaxAmount \in Nat
  /\ None \notin C!Item
BY LedgerAssumption DEF C!Item

LEMMA ConfirmType ==
  ASSUME SchedTypeOK, NEW r \in Requests, schedOp[r].kind = "confirm"
  PROVE  schedOp[r] \in
           [kind : {"confirm"}, item : Items, due : Int, amount : Int, date : Int]
BY DEF SchedTypeOK, SchedOp, C!Idle

\* A due day is a number.
LEMMA DueIsInt ==
  ASSUME SchedTypeOK, NEW i \in Items, item[i] # None
  PROVE  C!Due(i, C!Month(today)) \in Int
<1>1. today \div MonthLength \in Int
  BY Numbers DEF SchedTypeOK
<1>2. item[i].day \in Int
  BY Numbers DEF SchedTypeOK, C!Item
<1>3. MonthLength \in Int
  BY Numbers
<1> QED
  BY <1>1, <1>2, <1>3 DEF C!Due, C!Month

\* What pays an occurrence is matched by the forecast: an item without an amount
\* takes that of the newest entry, and between the two there is no time for
\* the newest to be outside the grace days.
LEMMA PaidIsMatched ==
  ASSUME SchedTypeOK, BookedPays, NEW t \in C!Rows, txn[t].occurrence # None
  PROVE  ~C!Expected(txn[t].occurrence.item, txn[t].occurrence.due)
<1> DEFINE i == txn[t].occurrence.item
           due == txn[t].occurrence.due
<1>1. txn[t] \in Transaction /\ i \in Items /\ due \in Int
  BY DEF SchedTypeOK, C!Rows, Transaction, Occurrence
<1>2. Pays(i, due, txn[t].date, txn[t].amount)
  BY DEF BookedPays
<1>3. SUFFICES ASSUME C!Expected(i, due) PROVE FALSE
  OBVIOUS
<1>4. t \in C!Window(due)
  <2>1. Grace \in Int /\ txn[t].date \in Int
    BY <1>1, Numbers DEF Transaction
  <2> QED
    BY <1>1, <1>2, <2>1 DEF C!Window, Pays
<1>5. CASE item[i].fixed # 0
  <2>1. item[i].fixed = txn[t].amount /\ item[i].fixed > 0
    BY <1>1, <1>2, <1>5, Numbers DEF Pays, SchedTypeOK, C!Item
  <2> QED
    BY <1>3, <1>4, <2>1 DEF C!Expected, C!Matched, C!Resolved
<1>6. CASE item[i].fixed = 0
  <2>1. C!Resolved(i) = {txn[s].amount : s \in {s \in C!Rows : C!Newest(s)}}
    BY <1>6 DEF C!Resolved
  <2>2. PICK s \in C!Rows : C!Newest(s)
    BY <1>3, <2>1 DEF C!Expected
  <2>3. txn[s].date \in Int /\ txn[t].date \in Int /\ today \in Int
    BY <1>1 DEF SchedTypeOK, C!Rows, Transaction
  <2>4. txn[t].date <= txn[s].date /\ txn[s].date <= today
    BY <1>2, <2>2, <2>3 DEF C!Newest, C!Newer, Pays
  <2>5. today <= due + Grace
    BY <1>1, <1>3, <2>3, Numbers DEF C!Expected
  <2>6. s \in C!Window(due)
    BY <1>1, <1>2, <2>3, <2>4, <2>5, Numbers DEF C!Window, Pays
  <2> QED
    BY <1>3, <2>1, <2>2, <2>6 DEF C!Expected, C!Matched
<1> QED
  BY <1>5, <1>6
-----------------------------------------------------------------------------
LEMMA SchedInit == C!Init => SchedInv
BY DEF C!Init, SchedInv, SchedTypeOK, SchedOp, BookedPays, ItemHeld, AccountHeld,
       CheckedPays, C!ConfirmedOnce, C!Rows, C!Idle

\* The end of a request frees what it had, and nothing of the others.
LEMMA SchedEnd ==
  ASSUME SchedInv, NEW r \in Requests, C!End(r)
  PROVE  /\ itemLock' \in [Items -> Requests \cup {None}]
         /\ account' \in Requests \cup {None}
         /\ schedOp' \in [Requests -> SchedOp]
         /\ schedOp'[r].kind = "idle"
         /\ \A q \in Requests \ {r} :
              /\ schedOp'[q] = schedOp[q]
              /\ account = q => account' = q
              /\ \A i \in Items : itemLock[i] = q => itemLock'[i] = q
BY NamesAssumption DEF C!End, SchedInv, SchedTypeOK, SchedOp, C!Idle

LEMMA SchedRollback ==
  ASSUME SchedInv, NEW r \in Requests, C!Rollback(r) PROVE SchedInv'
<1> USE DEF SchedInv
<1>1. UNCHANGED <<today, item, txn>> /\ C!End(r)
  BY DEF C!Rollback, C!tables
<1>2. SchedTypeOK'
  BY <1>1, SchedEnd DEF SchedTypeOK
<1>3. BookedPays' /\ C!ConfirmedOnce'
  BY <1>1 DEF BookedPays, Pays, C!Rows, C!ConfirmedOnce
<1>4. ItemHeld' /\ AccountHeld'
  <2> SUFFICES ASSUME NEW q \in Requests, q # r
               PROVE  ItemHeld!(q)' /\ AccountHeld!(q)'
    BY <1>1, SchedEnd DEF ItemHeld, AccountHeld
  <2> QED
    BY <1>1, SchedEnd DEF ItemHeld, AccountHeld, SchedTypeOK, SchedOp, C!Idle
<1>5. CheckedPays'
  BY <1>1, SchedEnd DEF CheckedPays, Pays, C!Rows
<1> QED
  BY <1>2, <1>3, <1>4, <1>5

\* Nothing that a new or switched item, a change of it, or a day adds to time,
\* disturbs what pays an occurrence of another item, or of a later day.
LEMMA PaysStays ==
  ASSUME SchedTypeOK, NEW i \in Items, NEW due \in Int, NEW d \in Int, NEW n \in Int,
         Pays(i, due, d, n),
         today' \in Int, today <= today',
         item'[i] # None, item'[i].fixed = item[i].fixed
  PROVE  Pays(i, due, d, n)'
BY Numbers DEF Pays, SchedTypeOK

LEMMA SchedDayPasses == ASSUME SchedInv, C!DayPasses PROVE SchedInv'
<1> USE DEF SchedInv
<1>1. /\ UNCHANGED <<item, txn, itemLock, account, schedOp>>
      /\ today' \in Int /\ today <= today'
  BY DEF C!DayPasses, C!tables, SchedTypeOK
<1>2. SchedTypeOK' /\ C!ConfirmedOnce' /\ ItemHeld' /\ AccountHeld'
  BY <1>1 DEF SchedTypeOK, C!ConfirmedOnce, C!Rows, ItemHeld, AccountHeld
<1>3. BookedPays'
  BY <1>1, Numbers DEF BookedPays, Pays, C!Rows, SchedTypeOK, Transaction
<1>4. CheckedPays'
  BY <1>1, Numbers, ConfirmType DEF CheckedPays, Pays, C!Rows, SchedTypeOK
<1> QED
  BY <1>2, <1>3, <1>4

\* A row of an item that nobody has locked is written: its amount stays, or
\* nothing in the ledger is an occurrence of it.
LEMMA SchedWriteItem ==
  ASSUME SchedInv, NEW i \in Items, NEW v \in C!Item \cup {None},
         itemLock[i] = None,
         item' = [item EXCEPT ![i] = v],
         txn' \in [Transactions -> Transaction \cup {None}],
         \A t \in Transactions :
           /\ txn'[t] # None => txn[t] # None
           /\ txn'[t] # None /\ txn'[t].occurrence # None => txn'[t] = txn[t],
         \/ item[i] # None /\ v # None /\ v.fixed = item[i].fixed
         \/ \A t \in C!Rows' : txn'[t].occurrence # None => txn'[t].occurrence.item # i,
         UNCHANGED <<today, itemLock, account, sharers, schedOp>>
  PROVE  SchedInv'
<1> USE DEF SchedInv
<1>1. SchedTypeOK'
  BY DEF SchedTypeOK
<1>2. \A j \in Items \ {i} : item'[j] = item[j]
  BY DEF SchedTypeOK
<1>3. BookedPays'
  BY <1>2 DEF BookedPays, Pays, C!Rows, SchedTypeOK, Transaction, Occurrence
<1>4. ASSUME NEW r \in Requests, schedOp[r].kind \in {"item", "account", "confirm"}
      PROVE  /\ schedOp[r].item \in Items
             /\ schedOp[r].item # i
  BY <1>4, NamesAssumption DEF ItemHeld, SchedTypeOK, SchedOp, C!Idle
<1>5. ItemHeld'
  BY <1>2, <1>4 DEF ItemHeld
<1>6. AccountHeld' /\ C!ConfirmedOnce'
  BY DEF AccountHeld, C!ConfirmedOnce, C!Rows
<1>7. CheckedPays'
  BY <1>2, <1>4, ConfirmType DEF CheckedPays, Pays, C!Rows, SchedTypeOK
<1> QED
  BY <1>1, <1>3, <1>5, <1>6, <1>7

LEMMA SchedCreateItem ==
  ASSUME SchedInv, NEW i \in Items, C!CreateItem(i) PROVE SchedInv'
<1>1. PICK v \in C!Item : C!SaveItem(i, v)
  BY DEF C!CreateItem
<1>2. item[i] = None /\ txn' = txn
  BY <1>1 DEF C!CreateItem, C!SaveItem
<1>3. \A t \in C!Rows' : txn'[t].occurrence # None => txn'[t].occurrence.item # i
  BY <1>2 DEF SchedInv, BookedPays, Pays, C!Rows
<1> QED
  BY <1>1, <1>2, <1>3, SchedWriteItem DEF C!SaveItem, SchedInv, SchedTypeOK

LEMMA SchedSwitchItem ==
  ASSUME SchedInv, NEW i \in Items, C!SwitchItem(i) PROVE SchedInv'
<1> DEFINE v == [item[i] EXCEPT !.active = ~@]
<1>1. item[i] # None /\ item[i] \in C!Item
  BY DEF C!SwitchItem, SchedInv, SchedTypeOK
<1>2. v \in C!Item /\ v # None /\ v.fixed = item[i].fixed
  BY <1>1, Numbers DEF C!Item
<1> QED
  BY <1>1, <1>2, SchedWriteItem DEF C!SwitchItem, C!SaveItem, SchedInv, SchedTypeOK

LEMMA SchedEditItem ==
  ASSUME SchedInv, NEW i \in Items, NEW v \in C!Item \cup {None}, C!EditItem(i, v)
  PROVE  SchedInv'
<1> USE DEF SchedInv, SchedTypeOK
<1>1. ASSUME NEW t \in Transactions
      PROVE  /\ txn'[t] \in Transaction \cup {None}
             /\ txn'[t] # None => txn[t] # None
             /\ txn'[t] # None /\ txn'[t].occurrence # None =>
                  txn'[t] = txn[t] /\ txn'[t].occurrence.item # i
  BY DEF C!EditItem, C!Loose, Transaction
<1>2. txn' \in [Transactions -> Transaction \cup {None}]
  BY <1>1 DEF C!EditItem
<1> QED
  BY <1>1, <1>2, SchedWriteItem DEF C!EditItem, C!Rows

\* A row of the ledger that becomes something else than an occurrence, or goes.
LEMMA SchedForget ==
  ASSUME SchedInv, NEW t \in Transactions, NEW row \in Transaction \cup {None},
         row # None => txn[t] # None /\ row.occurrence = None,
         txn' = [txn EXCEPT ![t] = row],
         UNCHANGED <<today, item, itemLock, account, sharers, schedOp>>
  PROVE  SchedInv'
<1> USE DEF SchedInv
<1>1. SchedTypeOK'
  BY DEF SchedTypeOK
<1>2. ASSUME NEW s \in C!Rows', txn'[s].occurrence # None
      PROVE  s \in C!Rows /\ txn'[s] = txn[s]
  BY <1>2 DEF C!Rows, SchedTypeOK
<1>3. BookedPays' /\ C!ConfirmedOnce' /\ CheckedPays'
  BY <1>2 DEF BookedPays, C!ConfirmedOnce, CheckedPays, Pays
<1>4. ItemHeld' /\ AccountHeld'
  BY DEF ItemHeld, AccountHeld
<1> QED
  BY <1>1, <1>3, <1>4

LEMMA SchedMove ==
  ASSUME SchedInv, NEW t \in Transactions, NEW d \in C!Days, C!MoveTransaction(t, d)
  PROVE  SchedInv'
<1> DEFINE row == [txn[t] EXCEPT !.date = d, !.occurrence = None]
<1>1. txn[t] \in Transaction /\ txn' = [txn EXCEPT ![t] = row]
  BY DEF C!MoveTransaction, SchedInv, SchedTypeOK
<1>2. d \in Int
  BY Numbers DEF C!Days
<1>3. row \in Transaction /\ row.occurrence = None
  BY <1>1, <1>2 DEF Transaction
<1> QED
  BY <1>1, <1>3, SchedForget DEF C!MoveTransaction

LEMMA SchedDelete ==
  ASSUME SchedInv, NEW t \in Transactions, C!DeleteTransaction(t) PROVE SchedInv'
BY SchedForget DEF C!DeleteTransaction

LEMMA SchedEnter ==
  ASSUME SchedInv, NEW r \in Requests,
         \/ C!EnterStart(r)
         \/ \E t \in Transactions, d \in C!Days, n \in C!Amounts : C!EnterCommit(r, t, d, n)
  PROVE  SchedInv'
<1> USE DEF SchedInv
<1>1. CASE C!EnterStart(r)
  <2>1. /\ UNCHANGED <<today, item, txn, itemLock, account>>
        /\ schedOp' \in [Requests -> SchedOp]
        /\ schedOp'[r].kind = "enter"
        /\ \A q \in Requests \ {r} : schedOp'[q] = schedOp[q]
    BY <1>1 DEF C!EnterStart, C!tables, SchedTypeOK, SchedOp
  <2> QED
    BY <2>1 DEF SchedTypeOK, BookedPays, C!ConfirmedOnce, CheckedPays, Pays, C!Rows,
                ItemHeld, AccountHeld
<1>2. ASSUME NEW t \in Transactions, NEW d \in C!Days, NEW n \in C!Amounts,
             C!EnterCommit(r, t, d, n)
      PROVE  SchedInv'
  <2> DEFINE row == [date |-> d, amount |-> n, occurrence |-> None]
  <2>1. UNCHANGED <<today, item>> /\ C!End(r) /\ txn' = [txn EXCEPT ![t] = row]
    BY <1>2 DEF C!EnterCommit, C!Insert
  <2>2. row \in Transaction
    BY Numbers DEF Transaction, C!Days, C!Amounts
  <2>3. SchedTypeOK'
    BY <2>1, <2>2, SchedEnd DEF SchedTypeOK
  <2>4. ASSUME NEW s \in C!Rows', txn'[s].occurrence # None
        PROVE  s \in C!Rows /\ txn'[s] = txn[s]
    BY <2>1, <2>4 DEF C!Rows, SchedTypeOK
  <2>5. BookedPays' /\ C!ConfirmedOnce'
    BY <2>1, <2>4 DEF BookedPays, C!ConfirmedOnce, Pays
  <2>6. CheckedPays'
    <3>1. ASSUME NEW q \in Requests, schedOp'[q].kind = "confirm"
          PROVE  schedOp[q].kind = "confirm" /\ schedOp'[q] = schedOp[q]
      BY <2>1, <3>1, SchedEnd
    <3> QED
      BY <2>1, <2>4, <3>1 DEF CheckedPays, Pays
  <2>7. ItemHeld' /\ AccountHeld'
    BY <2>1, SchedEnd DEF ItemHeld, AccountHeld, SchedTypeOK, SchedOp, C!Idle
  <2> QED
    BY <2>3, <2>5, <2>6, <2>7
<1> QED
  BY <1>1, <1>2

LEMMA SchedLocks ==
  ASSUME SchedInv, NEW r \in Requests,
         C!ConfirmAccount(r) \/ \E i \in Items : C!ConfirmItem(r, i)
  PROVE  SchedInv'
<1> USE DEF SchedInv
<1>1. UNCHANGED <<today, item, txn>>
  BY DEF C!ConfirmItem, C!ConfirmAccount, C!tables
<1>2. /\ schedOp'[r] \in SchedOp
      /\ schedOp'[r].kind \in {"item", "account"}
      /\ schedOp' = [schedOp EXCEPT ![r] = schedOp'[r]]
  BY DEF C!ConfirmItem, C!ConfirmAccount, SchedTypeOK, SchedOp, C!Idle
<1>3. SchedTypeOK'
  BY <1>1, <1>2 DEF C!ConfirmItem, C!ConfirmAccount, SchedTypeOK
<1>4. ItemHeld'
  BY <1>1, NamesAssumption
     DEF C!ConfirmItem, C!ConfirmAccount, ItemHeld, SchedTypeOK, SchedOp, C!Idle
<1>5. AccountHeld'
  BY <1>1, NamesAssumption
     DEF C!ConfirmItem, C!ConfirmAccount, AccountHeld, SchedTypeOK, SchedOp, C!Idle,
         C!AccountFree
<1>6. BookedPays' /\ C!ConfirmedOnce' /\ CheckedPays'
  BY <1>1, <1>2 DEF BookedPays, C!ConfirmedOnce, CheckedPays, Pays, C!Rows, SchedTypeOK
<1> QED
  BY <1>3, <1>4, <1>5, <1>6

\* What the check finds free is not in the ledger, by PaidIsMatched, and stays so
\* while the account is locked.
LEMMA SchedCheck ==
  ASSUME SchedInv, NEW r \in Requests, C!ConfirmCheck(r) PROVE SchedInv'
<1> USE DEF SchedInv
<1> DEFINE i == schedOp[r].item
           due == C!Due(i, C!Month(today))
<1>1. /\ schedOp[r].kind = "account"
      /\ UNCHANGED <<today, item, txn, itemLock, account>>
  BY DEF C!ConfirmCheck, C!tables
<1>2. PICK n \in C!Resolved(i) :
        /\ due <= today /\ C!Expected(i, due)
        /\ schedOp' = [schedOp EXCEPT ![r] =
             [kind |-> "confirm", item |-> i, due |-> due, amount |-> n, date |-> today]]
  BY DEF C!ConfirmCheck
<1>3. i \in Items /\ item[i] # None
  BY <1>1 DEF ItemHeld, SchedTypeOK, SchedOp, C!Idle
<1>4. due \in Int /\ today \in Int
  BY <1>3, DueIsInt DEF SchedTypeOK
<1>5. n \in Int /\ item[i].fixed \in {0, n}
  <2>1. item[i].fixed \in Nat
    BY <1>3, Numbers DEF SchedTypeOK, C!Item
  <2>2. CASE item[i].fixed > 0
    BY <1>2, <2>1, <2>2 DEF C!Resolved
  <2>3. CASE item[i].fixed = 0
    BY <1>2, <2>3 DEF C!Resolved, C!Rows, SchedTypeOK, Transaction
  <2> QED
    BY <2>1, <2>2, <2>3
<1>6. Pays(i, due, today, n)
  BY <1>2, <1>3, <1>4, <1>5, Numbers DEF C!Expected, Pays
<1>7. \A t \in C!Rows : txn[t].occurrence # None =>
        txn[t].occurrence # [item |-> i, due |-> due]
  BY <1>2, PaidIsMatched
<1>8. /\ schedOp'[r] = [kind |-> "confirm", item |-> i, due |-> due, amount |-> n, date |-> today]
      /\ \A q \in Requests \ {r} : schedOp'[q] = schedOp[q]
  BY <1>2 DEF SchedTypeOK
<1>9. SchedTypeOK'
  BY <1>1, <1>2, <1>3, <1>4, <1>5 DEF SchedTypeOK, SchedOp
<1>10. BookedPays' /\ C!ConfirmedOnce'
  BY <1>1 DEF BookedPays, C!ConfirmedOnce, Pays, C!Rows
<1>11. ItemHeld' /\ AccountHeld'
  BY <1>1, <1>8 DEF ItemHeld, AccountHeld
<1>12. CheckedPays'
  BY <1>1, <1>6, <1>7, <1>8 DEF CheckedPays, Pays, C!Rows
<1> QED
  BY <1>9, <1>10, <1>11, <1>12

LEMMA SchedCommit ==
  ASSUME SchedInv, NEW r \in Requests, NEW t \in Transactions, C!ConfirmCommit(r, t)
  PROVE  SchedInv'
<1> USE DEF SchedInv
<1> DEFINE o == [item |-> schedOp[r].item, due |-> schedOp[r].due]
           row == [date |-> schedOp[r].date, amount |-> schedOp[r].amount, occurrence |-> o]
<1>1. /\ schedOp[r].kind = "confirm" /\ txn[t] = None
      /\ UNCHANGED <<today, item>> /\ C!End(r)
      /\ txn' = [txn EXCEPT ![t] = row]
  BY DEF C!ConfirmCommit, C!Insert
<1>2. row \in Transaction
  BY <1>1, ConfirmType DEF Transaction, Occurrence
<1>3. SchedTypeOK'
  BY <1>1, <1>2, SchedEnd DEF SchedTypeOK
<1>4. C!Rows' \subseteq C!Rows \cup {t} /\ t \notin C!Rows /\ txn'[t] = row
  BY <1>1 DEF C!Rows, SchedTypeOK
<1>5. \A s \in C!Rows : txn'[s] = txn[s]
  BY <1>1, <1>4 DEF SchedTypeOK, C!Rows
<1>6. BookedPays'
  <2>1. Pays(schedOp[r].item, schedOp[r].due, schedOp[r].date, schedOp[r].amount)
    BY <1>1 DEF CheckedPays
  <2> QED
    BY <1>1, <1>4, <1>5, <2>1 DEF BookedPays, Pays
<1>7. C!ConfirmedOnce'
  BY <1>1, <1>4, <1>5 DEF C!ConfirmedOnce, CheckedPays
<1>8. \A q \in Requests \ {r} : schedOp'[q].kind # "confirm"
  BY <1>1, SchedEnd DEF AccountHeld
<1>9. CheckedPays'
  BY <1>1, <1>8, SchedEnd DEF CheckedPays
<1>10. ItemHeld' /\ AccountHeld'
  BY <1>1, SchedEnd DEF ItemHeld, AccountHeld, SchedTypeOK, SchedOp, C!Idle
<1> QED
  BY <1>3, <1>6, <1>7, <1>9, <1>10

LEMMA SchedStep == SchedInv /\ [C!Next]_C!vars => SchedInv'
<1> SUFFICES ASSUME SchedInv, [C!Next]_C!vars PROVE SchedInv'
  OBVIOUS
<1>1. CASE UNCHANGED C!vars
  BY <1>1 DEF C!vars, SchedInv, SchedTypeOK, BookedPays, Pays, C!Rows, ItemHeld,
              AccountHeld, CheckedPays, C!ConfirmedOnce
<1>2. ASSUME NEW r \in Requests, C!RequestStep(r) PROVE SchedInv'
  BY <1>2, SchedEnter, SchedLocks, SchedCheck, SchedCommit, SchedRollback
     DEF C!RequestStep
<1> QED
  BY <1>1, <1>2, SchedDayPasses, SchedCreateItem, SchedSwitchItem, SchedEditItem,
     SchedMove, SchedDelete DEF C!Next
-----------------------------------------------------------------------------
LEMMA SchedInvariant == C!Spec => []SchedInv
BY SchedInit, SchedStep, PTL DEF C!Spec

\* The state of scheduled items has its type (finance/models.py, cashflow.py).
THEOREM SchedTypeCorrect == C!Spec => []SchedTypeOK
BY SchedInvariant, PTL DEF SchedInv

\* An occurrence is confirmed once, however many requests confirm it and whatever
\* other items and transactions they write, while its item is not edited and the
\* entry it was confirmed with is not moved (confirm_scheduled_item).
THEOREM OccurrenceConfirmedOnce == C!Spec => []ConfirmedOnce
BY SchedInvariant, PTL DEF SchedInv, ConfirmedOnce

\* An occurrence that is in the ledger is not expected again, also when its amount
\* is that of the last entry and others follow (get_cashflow_forecast).
THEOREM OccurrenceNotCountedTwice == C!Spec => []NotCountedTwice
<1>1. SchedInv => NotCountedTwice
  BY PaidIsMatched DEF SchedInv, NotCountedTwice, C!NotCountedTwice
<1> QED
  BY <1>1, SchedInvariant, PTL
-----------------------------------------------------------------------------
(***************************************************************************)
(* Exchanges.                                                              *)
(***************************************************************************)
LEMMA ExchangeNumbers ==
  /\ Scale \in Nat \ {0}
  /\ \A n \in FromAmounts : n \in Nat \ {0}
  /\ \A r \in Rates \cup ManualRates : r \in Nat \ {0}
  /\ \A d \in RateDays : d \in Int
BY LedgerAssumption

LEMMA Division ==
  ASSUME NEW a \in Int, NEW b \in Nat \ {0}
  PROVE  /\ a \div b \in Int
         /\ a % b \in Int /\ 0 <= a % b /\ a % b < b
         /\ a = b * (a \div b) + (a % b)
OBVIOUS

\* Rounding to a whole number is off by at most a half.
LEMMA HalfEvenError ==
  ASSUME NEW a \in Int, NEW b \in Nat \ {0}
  PROVE  /\ X!HalfEven(a, b) \in Int
         /\ -b <= 2 * (X!HalfEven(a, b) * b - a)
         /\ 2 * (X!HalfEven(a, b) * b - a) <= b
<1> DEFINE q == a \div b
           m == a % b
<1>1. q \in Int /\ m \in Int /\ 0 <= m /\ m < b /\ a = b * q + m
  BY Division
<1>2. X!HalfEven(a, b) = IF 2 * m < b \/ (2 * m = b /\ q % 2 = 0) THEN q ELSE q + 1
  BY DEF X!HalfEven
<1> HIDE DEF q, m
<1>3. q * b - a = -m /\ (q + 1) * b - a = b - m
  BY <1>1
<1> QED
  BY <1>1, <1>2, <1>3

\* A whole number stays as it is.
LEMMA HalfEvenWhole ==
  ASSUME NEW n \in Int, NEW b \in Nat \ {0}
  PROVE  X!HalfEven(n * b, b) = n
<1>1. (n * b) \div b = n /\ (n * b) % b = 0
  OBVIOUS
<1> QED
  BY <1>1 DEF X!HalfEven

Sides == {"PLN", "foreign"}
Asked == [at : {"lookup", "fallback"}, from : Sides, amount : FromAmounts, day : RateDays]
PricedExchange ==
  [at : {"priced"}, from : Sides, amount : FromAmounts, asked : RateDays \cup {None},
   rate : Rates \cup ManualRates, day : RateDays \cup {None}]

\* The rate is that of the day, and the last until the day that was asked for.
IsLast(rate, day, asked) ==
  /\ rate = published[day] /\ day <= asked
  /\ \A d \in RateDays : d \in day + 1 .. asked => published[d] = None

ExchangeInv ==
  /\ published \in [RateDays -> Rates \cup {None}]
  /\ ex.at \in {"lookup", "fallback"} => ex \in Asked
  /\ ex.at = "fallback" => published[ex.day] = None
  /\ ex.at = "priced" =>
       ex \in PricedExchange /\ (ex.day # None => IsLast(ex.rate, ex.day, ex.asked))
  /\ X!ExchangeBooked

\* Of a week before a day, the newest quote is the last.
LEMMA NewestQuoteIsMax ==
  ASSUME NEW D, NEW d \in Int, D \subseteq d - 7 .. d - 1, D # {}
  PROVE  X!NewestQuote(D) \in D /\ \A e \in D : e <= X!NewestQuote(D)
<1>1. PICK e \in D : \A c \in D : c <= e
  <2>1. D \subseteq Int /\ \A c \in D : c <= d
    OBVIOUS
  <2> QED
    BY <2>1, GreatestInteger
<1>2. \A c \in D : e >= c
  BY <1>1
<1> QED
  BY <1>2 DEF X!NewestQuote, X!Max

LEMMA ExchangeInit == X!Init => ExchangeInv
BY DEF X!Init, ExchangeInv, X!ExchangeBooked

LEMMA ExchangeRequest ==
  ASSUME ExchangeInv, NEW from \in Sides, NEW n \in FromAmounts,
         \/ \E d \in RateDays : X!Request(from, n, d)
         \/ \E rate \in ManualRates : X!RequestManual(from, n, rate)
  PROVE  ExchangeInv'
<1>1. CASE \E d \in RateDays : X!Request(from, n, d)
  BY <1>1 DEF X!Request, ExchangeInv, Asked, X!ExchangeBooked
<1>2. CASE \E rate \in ManualRates : X!RequestManual(from, n, rate)
  BY <1>2 DEF X!RequestManual, X!Priced, ExchangeInv, PricedExchange, X!ExchangeBooked
<1> QED
  BY <1>1, <1>2

LEMMA ExchangeUnavailable == ASSUME ExchangeInv, X!Unavailable PROVE ExchangeInv'
BY DEF X!Unavailable, X!Refused, ExchangeInv, X!ExchangeBooked

LEMMA ExchangeLookup == ASSUME ExchangeInv, X!Lookup PROVE ExchangeInv'
<1>1. ex \in Asked /\ ex.at = "lookup" /\ published' = published
  BY DEF X!Lookup, ExchangeInv
<1>2. CASE published[ex.day] # None
  <2>1. ex' = [at |-> "priced", from |-> ex.from, amount |-> ex.amount, asked |-> ex.day,
               rate |-> published[ex.day], day |-> ex.day]
    BY <1>2 DEF X!Lookup, X!Priced
  <2>2. published[ex.day] \in Rates /\ ex.day \in RateDays
    BY <1>1, <1>2 DEF ExchangeInv, Asked
  <2>3. ex' \in PricedExchange
    BY <1>1, <2>1, <2>2 DEF PricedExchange, Asked
  <2>4. IsLast(published[ex.day], ex.day, ex.day)
    BY <2>2, ExchangeNumbers DEF IsLast
  <2>5. ex'.rate = published[ex.day] /\ ex'.day = ex.day /\ ex'.asked = ex.day /\ ex'.at = "priced"
    BY <2>1
  <2>6. IsLast(ex.rate, ex.day, ex.asked)'
    BY <1>1, <2>4, <2>5 DEF IsLast
  <2> QED
    BY <1>1, <2>3, <2>5, <2>6 DEF ExchangeInv, X!ExchangeBooked
<1>3. CASE published[ex.day] = None /\ ex.day \in Weekend
  <2>1. ex' = [ex EXCEPT !.at = "fallback"]
    BY <1>3 DEF X!Lookup
  <2>2. ex' \in Asked /\ ex'.at = "fallback" /\ ex'.day = ex.day
    BY <1>1, <2>1 DEF Asked
  <2> QED
    BY <1>1, <1>3, <2>2 DEF ExchangeInv, X!ExchangeBooked
<1>4. CASE published[ex.day] = None /\ ex.day \notin Weekend
  BY <1>1, <1>4 DEF X!Lookup, X!Refused, ExchangeInv, X!ExchangeBooked
<1> QED
  BY <1>2, <1>3, <1>4

LEMMA ExchangeFallback == ASSUME ExchangeInv, X!Fallback PROVE ExchangeInv'
<1> DEFINE B == X!Before(ex.day)
           d == X!NewestQuote(B)
<1>1. /\ ex \in Asked /\ published' = published /\ published[ex.day] = None
      /\ ex.day \in RateDays /\ ex.day \in Int
  BY ExchangeNumbers DEF X!Fallback, ExchangeInv, Asked
<1>2. CASE B = {}
  BY <1>1, <1>2 DEF X!Fallback, X!Refused, ExchangeInv, X!ExchangeBooked
<1>3. CASE B # {}
  <2>1. B \subseteq ex.day - 7 .. ex.day - 1
    BY DEF X!Before
  <2>2. d \in B /\ \A e \in B : e <= d
    <3> HIDE DEF B
    <3> QED
      BY <1>1, <1>3, <2>1, NewestQuoteIsMax
  <2>3. d \in RateDays /\ d \in Int /\ d >= ex.day - 7 /\ d <= ex.day - 1 /\ published[d] # None
    BY <2>2, <1>1, ExchangeNumbers DEF X!Before
  <2>4. ex' = [at |-> "priced", from |-> ex.from, amount |-> ex.amount, asked |-> ex.day,
               rate |-> published[d], day |-> d]
    BY <1>3 DEF X!Fallback, X!Priced
  <2> HIDE DEF d
  <2>5. ex' \in PricedExchange
    <3>1. published[d] \in Rates
      BY <2>3 DEF ExchangeInv
    <3> QED
      BY <1>1, <2>3, <2>4, <3>1 DEF PricedExchange, Asked
  <2>6. \A e \in RateDays : e \in d + 1 .. ex.day => published[e] = None
    <3> SUFFICES ASSUME NEW e \in RateDays, e \in d + 1 .. ex.day, published[e] # None
                 PROVE  FALSE
      OBVIOUS
    <3>1. e \in ex.day - 7 .. ex.day - 1
      BY <1>1, <2>3
    <3>2. e \in B
      BY <3>1 DEF X!Before
    <3> QED
      BY <2>2, <2>3, <3>2
  <2>7. /\ ex'.rate = published[d] /\ ex'.day = d /\ ex'.asked = ex.day
        /\ ex'.at = "priced"
    BY <2>4
  <2>8. IsLast(ex.rate, ex.day, ex.asked)'
    BY <1>1, <2>3, <2>6, <2>7 DEF IsLast
  <2> QED
    BY <1>1, <2>5, <2>7, <2>8 DEF ExchangeInv, X!ExchangeBooked
<1> QED
  BY <1>2, <1>3

\* A leg whose amount or whose book value is the other, rounded, is within half a
\* minor unit of the one or of the other.
LEMMA MatchIsClose ==
  ASSUME NEW l, l.amount \in Int, l.base \in Int, l.rate \in Nat \ {0}, X!Matches(l)
  PROVE  2 * X!Distance(l.base * Scale, l.amount * l.rate) <= X!Larger(Scale, l.rate)
<1> DEFINE a == l.amount * l.rate
           b == l.base * Scale
<1>1. Scale \in Nat \ {0} /\ a \in Int /\ b \in Int
  BY ExchangeNumbers
<1>2. CASE l.base = X!InPLN(l.amount, l.rate)
  <2>1. -Scale <= 2 * (b - a) /\ 2 * (b - a) <= Scale
    BY <1>1, <1>2, HalfEvenError DEF X!InPLN
  <2> HIDE DEF a, b
  <2>2. 2 * X!Distance(b, a) <= X!Larger(Scale, l.rate)
    BY <1>1, <2>1 DEF X!Distance, X!Larger
  <2> QED
    BY <2>2 DEF a, b
<1>3. CASE l.amount = X!FromPLN(l.base, l.rate)
  <2>1. -l.rate <= 2 * (a - b) /\ 2 * (a - b) <= l.rate
    BY <1>1, <1>3, HalfEvenError DEF X!FromPLN
  <2> HIDE DEF a, b
  <2>2. 2 * X!Distance(b, a) <= X!Larger(Scale, l.rate)
    BY <1>1, <2>1 DEF X!Distance, X!Larger
  <2> QED
    BY <2>2 DEF a, b
<1> QED
  BY <1>2, <1>3 DEF X!Matches

\* What is converted is a whole number, and an amount in PLN is not changed.
LEMMA Conversions ==
  ASSUME NEW n \in Int, NEW rate \in Nat \ {0}
  PROVE  /\ X!InPLN(n, rate) \in Int /\ X!FromPLN(n, rate) \in Int
         /\ X!InPLN(n, Scale) = n /\ X!FromPLN(n, Scale) = n
<1>1. Scale \in Nat \ {0} /\ n * rate \in Int /\ n * Scale \in Int
  BY ExchangeNumbers
<1>2. X!InPLN(n, rate) \in Int /\ X!FromPLN(n, rate) \in Int
  BY <1>1, HalfEvenError DEF X!InPLN, X!FromPLN
<1>3. X!HalfEven(n * Scale, Scale) = n
  BY <1>1, HalfEvenWhole
<1> QED
  BY <1>2, <1>3 DEF X!InPLN, X!FromPLN

\* The legs that an exchange is made of are always consistent: one is rounded to a
\* book value, the other from it, and the one in PLN has what it is booked at.
LEMMA LegsConsistent ==
  ASSUME NEW x \in PricedExchange, NEW l \in X!Legs(x)
  PROVE  /\ l.amount \in Int /\ l.base \in Int /\ l.rate \in Nat \ {0}
         /\ X!Consistent(l) /\ X!Matches(l)
<1> DEFINE home == [currency |-> "PLN", amount |-> x.amount,
                    base |-> X!InPLN(x.amount, Scale), rate |-> Scale]
           abroad == [currency |-> "foreign", amount |-> x.amount,
                      base |-> X!InPLN(x.amount, x.rate), rate |-> x.rate]
           toHome(b) == [currency |-> "PLN", amount |-> X!FromPLN(b, Scale),
                         base |-> b, rate |-> Scale]
           toAbroad(b) == [currency |-> "foreign", amount |-> X!FromPLN(b, x.rate),
                           base |-> b, rate |-> x.rate]
<1>1. /\ x.from \in Sides /\ x.amount \in Nat \ {0} /\ x.rate \in Nat \ {0}
      /\ Scale \in Nat \ {0}
  BY ExchangeNumbers DEF PricedExchange
<1>2. \/ x.from = "PLN" /\ l \in {home, toAbroad(home.base)}
      \/ x.from = "foreign" /\ l \in {abroad, toHome(abroad.base)}
  BY <1>1 DEF X!Legs, Sides
<1>3. home.base = x.amount /\ abroad.base \in Int
  BY <1>1, Conversions
<1>4. CASE l = home
  BY <1>1, <1>3, <1>4 DEF X!Consistent, X!Matches
<1>5. CASE l = abroad
  BY <1>1, <1>3, <1>5 DEF X!Consistent, X!Matches
<1>6. CASE l = toAbroad(home.base)
  <2>1. X!FromPLN(home.base, x.rate) \in Int
    BY <1>1, <1>3, Conversions
  <2> QED
    BY <1>1, <1>3, <1>6, <2>1 DEF X!Consistent, X!Matches
<1>7. CASE l = toHome(abroad.base)
  <2>1. X!FromPLN(abroad.base, Scale) = abroad.base
    BY <1>1, <1>3, Conversions
  <2> QED
    BY <1>1, <1>3, <1>7, <2>1 DEF X!Consistent, X!Matches
<1> QED
  BY <1>2, <1>4, <1>5, <1>6, <1>7

LEMMA ExchangeBook == ASSUME ExchangeInv, X!Book PROVE ExchangeInv'
<1> DEFINE legs == X!Legs(ex)
<1>1. /\ ex \in PricedExchange /\ (ex.day # None => IsLast(ex.rate, ex.day, ex.asked))
      /\ published' = published
  BY DEF X!Book, ExchangeInv
<1>2. \A l \in legs : /\ l.amount \in Int /\ l.base \in Int /\ l.rate \in Nat \ {0}
                      /\ X!Consistent(l) /\ X!Matches(l)
  BY <1>1, LegsConsistent
<1> HIDE DEF legs
<1>3. CASE \A l \in legs : X!Positive(l)
  <2>1. ex' = [at |-> "booked", legs |-> legs, asked |-> ex.asked, rate |-> ex.rate,
               day |-> ex.day]
    BY <1>2, <1>3 DEF X!Book, legs
  <2>2. \A l \in legs :
          2 * X!Distance(l.base * Scale, l.amount * l.rate) <= X!Larger(Scale, l.rate)
    BY <1>2, MatchIsClose
  <2>3. X!ExchangeBooked'
    BY <1>1, <2>1, <2>2 DEF X!ExchangeBooked, IsLast, X!Distance, X!Larger
  <2> QED
    BY <1>1, <2>1, <2>3 DEF ExchangeInv
<1>4. CASE \E l \in legs : ~X!Positive(l)
  <2>1. ex' = [at |-> "invalid", legs |-> legs]
    BY <1>4 DEF X!Book, legs
  <2>2. X!ExchangeBooked'
    BY <1>4, <2>1 DEF X!ExchangeBooked, X!Positive
  <2> QED
    BY <1>1, <2>1, <2>2 DEF ExchangeInv
<1> QED
  BY <1>3, <1>4

LEMMA ExchangeStep == ExchangeInv /\ [X!Next]_X!xvars => ExchangeInv'
<1> SUFFICES ASSUME ExchangeInv, [X!Next]_X!xvars PROVE ExchangeInv'
  OBVIOUS
<1>1. CASE UNCHANGED X!xvars
  BY <1>1 DEF X!xvars, ExchangeInv, IsLast, X!ExchangeBooked
<1>2. CASE \E from \in Sides, n \in FromAmounts :
             \/ \E d \in RateDays : X!Request(from, n, d)
             \/ \E rate \in ManualRates : X!RequestManual(from, n, rate)
  BY <1>2, ExchangeRequest
<1> QED
  BY <1>1, <1>2, ExchangeLookup, ExchangeFallback, ExchangeUnavailable, ExchangeBook
     DEF X!Next, Sides
-----------------------------------------------------------------------------
\* An exchange is refused for its amounts only if one of them would be zero, and
\* the book value of each leg is within half a minor unit of its amount at the
\* rate, which is the last that NBP has published (create_exchange_transaction,
\* get_rate, _validate_transaction_postings).
THEOREM ExchangeBookedAtLastRate == X!Spec => []ExchangeBooked
<1>1. ExchangeInv => ExchangeBooked
  BY DEF ExchangeInv, ExchangeBooked
<1> QED
  BY <1>1, ExchangeInit, ExchangeStep, PTL DEF X!Spec
=============================================================================
