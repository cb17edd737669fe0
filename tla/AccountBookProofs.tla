-------------------------- MODULE AccountBookProofs --------------------------
(***************************************************************************)
(* For any sets of accounts, owners and requests: every posting is in the  *)
(* currency of its account, nothing is booked on an account without a row, *)
(* and postings are added only on open accounts.                           *)
(*                                                                         *)
(* Inv says what a request may rely on between its steps because of the    *)
(* row locks it holds: the accounts it has validated stay as it saw them.  *)
(***************************************************************************)
EXTENDS AccountBook, TLAPS

\* A share lock and an exclusive lock of one account exclude each other.
LockRule == \A a \in Accounts : holder[a] # None => shared[a] = {}

\* A request that books has its accounts locked, open and in its currency.
BookInv ==
  \A r \in Requests : op[r].step = "book" =>
    \A l \in op[r].legs :
      /\ l.by = op[r].by
      /\ r \in shared[l.account]
      /\ state[l.account] = "open"
      /\ l.currency = currency[l.account]

\* A request that edits an item has the account it names locked.
EditInv ==
  \A r \in Requests :
    /\ op[r].step \in {"read", "edit"} => op[r].from.by \in Items
    /\ op[r].step = "edit" => /\ r \in shared[op[r].to.account]
                              /\ state[op[r].to.account] = "open"

\* A request that changes a currency has the account to itself; a new currency
\* finds nothing booked on it.
ChangeInv ==
  \A r \in Requests :
    /\ op[r].step \in {"locked", "changeable"} =>
         holder[op[r].account] = r /\ op[r].account \in Rows
    /\ op[r].step = "changeable" /\ op[r].to # currency[op[r].account] =>
         On(op[r].account) = {}

Inv ==
  /\ TypeOK
  /\ LockRule
  /\ BookInv
  /\ EditInv
  /\ ChangeInv
  /\ PostingCurrencyMatches
  /\ NothingDangling

\* What a request keeps doing has its type, and tells it apart from Idle.
LEMMA OpShapes ==
  /\ Idle.step = "idle"
  /\ \A o, L : Booking(o, L).step = "book" /\ Booking(o, L).by = o /\ Booking(o, L).legs = L
  /\ \A l : Editing(l).step = "read" /\ Editing(l).from = l
  /\ \A l, k : Saving(l, k).step = "edit" /\ Saving(l, k).from = l /\ Saving(l, k).to = k
  /\ \A s, a, c : Changing(s, a, c).step = s /\ Changing(s, a, c).account = a /\ Changing(s, a, c).to = c
  /\ \A a : Checked(a).step = "checked" /\ Checked(a).account = a
  /\ \A a, L : Deleting(a, L).step = "delete" /\ Deleting(a, L).account = a /\ Deleting(a, L).legs = L
BY DEF Idle, Booking, Editing, Saving, Changing, Checked, Deleting

LEMMA InitInv == ASSUME Init PROVE Inv
<1>1. TypeOK BY NamesAssumption DEF Init, TypeOK, OpOK
<1>2. QED
  BY <1>1, OpShapes
  DEF Init, Inv, LockRule, BookInv, EditInv, ChangeInv, PostingCurrencyMatches,
      NothingDangling

----------------------------------------------------------------------------
(***************************************************************************)
(* A finished transaction knows nothing and holds nothing.                 *)
(***************************************************************************)
LEMMA EndFrees ==
  ASSUME TypeOK, NEW r \in Requests, End(r)
  PROVE  /\ op'[r] = Idle
         /\ \A q \in Requests : q # r => op'[q] = op[q]
         /\ \A a \in Accounts : shared'[a] = shared[a] \ {r}
         /\ \A a \in Accounts : holder'[a] = IF holder[a] = r THEN None ELSE holder[a]
         /\ op' = [q \in Requests |-> op'[q]]
         /\ shared' \in [Accounts -> SUBSET Requests]
         /\ holder' \in [Accounts -> Requests \cup {None}]
         /\ \A q \in Requests : OpOK(op'[q])
BY DEF End, TypeOK, OpOK

\* What the types say of the request's knowledge.
LEMMA Known ==
  ASSUME TypeOK, NEW r \in Requests
  PROVE  /\ op[r].step = "book" =>
              op[r].by \in Owners /\ \A l \in op[r].legs : l \in Leg
         /\ op[r].step = "read" => op[r].from \in Leg
         /\ op[r].step = "edit" => op[r].from \in Leg /\ op[r].to \in Leg
         /\ op[r].step \in {"locked", "changeable"} =>
              op[r].account \in Accounts /\ op[r].to \in Currencies
         /\ op[r].step \in {"checked", "delete"} => op[r].account \in Accounts
<1>1. OpOK(op[r]) BY DEF TypeOK
<1>2. QED BY <1>1, OpShapes DEF OpOK

LEMMA LegFields ==
  /\ \A l \in Leg : l.by \in Owners /\ l.account \in Accounts /\ l.currency \in Currencies
  /\ \A o \in Owners, a \in Accounts, c \in Currencies :
       [by |-> o, account |-> a, currency |-> c] \in Leg
BY DEF Leg

\* A request takes up another step.
LEMMA Steps ==
  ASSUME TypeOK, NEW r \in Requests, NEW o, OpOK(o), op' = [op EXCEPT ![r] = o]
  PROVE  /\ op'[r] = o
         /\ \A q \in Requests : q # r => op'[q] = op[q]
         /\ op' = [q \in Requests |-> op'[q]]
         /\ \A q \in Requests : OpOK(op'[q])
BY DEF TypeOK

\* A transaction that ends without touching what others have locked leaves
\* them what they know.
LEMMA OthersKeep ==
  ASSUME TypeOK, BookInv, EditInv, NEW r \in Requests, End(r),
         \A a \in Accounts : shared[a] \ {r} # {} =>
            state'[a] = state[a] /\ currency'[a] = currency[a]
  PROVE  BookInv' /\ EditInv'
<1>1. ASSUME NEW q \in Requests, op'[q].step = "book", NEW l \in op'[q].legs
      PROVE  /\ l.by = op'[q].by /\ q \in shared'[l.account]
             /\ state'[l.account] = "open" /\ l.currency = currency'[l.account]
  <2>1. q # r /\ op'[q] = op[q] BY <1>1, EndFrees, OpShapes
  <2>2. l \in op[q].legs /\ q \in shared[l.account] BY <1>1, <2>1 DEF BookInv
  <2>3. l.account \in Accounts BY <1>1, <2>1, Known, LegFields
  <2>4. QED BY <1>1, <2>1, <2>3, EndFrees DEF BookInv
<1>2. ASSUME NEW q \in Requests
      PROVE  /\ op'[q].step \in {"read", "edit"} => op'[q].from.by \in Items
             /\ op'[q].step = "edit" => /\ q \in shared'[op'[q].to.account]
                                        /\ state'[op'[q].to.account] = "open"
  <2>1. CASE q = r BY <2>1, EndFrees, OpShapes
  <2>2. CASE q # r
    <3>1. op'[q] = op[q] BY <2>2, EndFrees
    <3>2. op[q].step = "edit" => q \in shared[op[q].to.account] /\ op[q].to.account \in Accounts
      BY Known, LegFields DEF EditInv
    <3>3. QED BY <2>2, <3>2, EndFrees DEF EditInv
  <2>3. QED BY <2>1, <2>2
<1>3. QED BY <1>1, <1>2 DEF BookInv, EditInv

LEMMA CreateAccountKeeps ==
  ASSUME Inv, NEW a \in Accounts, NEW s \in {"open", "closed"}, NEW c \in Currencies, CreateAccount(a, s, c)
  PROVE  Inv'
<1>a. TypeOK /\ LockRule /\ BookInv /\ EditInv /\ ChangeInv /\ PostingCurrencyMatches /\ NothingDangling
  BY DEF Inv
<1>1. TypeOK' BY <1>a DEF CreateAccount, TypeOK
<1>2. LockRule' BY <1>a DEF CreateAccount, LockRule
<1>3. BookInv' BY <1>a DEF CreateAccount, BookInv
<1>4. EditInv' BY <1>a DEF CreateAccount, EditInv
<1>5. ChangeInv' BY <1>a DEF CreateAccount, On, Rows, ChangeInv
<1>6. PostingCurrencyMatches'
  BY <1>a
  DEF CreateAccount, Rows, PostingCurrencyMatches, NothingDangling
<1>7. NothingDangling' BY <1>a DEF CreateAccount, Rows, NothingDangling
<1>9. QED BY <1>1, <1>2, <1>3, <1>4, <1>5, <1>6, <1>7 DEF Inv

LEMMA SetActiveKeeps ==
  ASSUME Inv, NEW a \in Accounts, NEW s \in {"open", "closed"}, SetActive(a, s)
  PROVE  Inv'
<1>a. TypeOK /\ LockRule /\ BookInv /\ EditInv /\ ChangeInv /\ PostingCurrencyMatches /\ NothingDangling
  BY DEF Inv
<1>1. TypeOK' BY <1>a DEF SetActive, TypeOK
<1>2. LockRule' BY <1>a DEF SetActive, LockRule
<1>3. BookInv' BY <1>a DEF SetActive, LockFree, BookInv
<1>4. EditInv' BY <1>a DEF SetActive, LockFree, EditInv
<1>5. ChangeInv' BY <1>a DEF SetActive, On, Rows, ChangeInv
<1>6. PostingCurrencyMatches' BY <1>a DEF SetActive, PostingCurrencyMatches
<1>7. NothingDangling' BY <1>a DEF SetActive, Rows, NothingDangling
<1>9. QED BY <1>1, <1>2, <1>3, <1>4, <1>5, <1>6, <1>7 DEF Inv

LEMMA UnbookKeeps ==
  ASSUME Inv, NEW o \in Owners, Unbook(o)
  PROVE  Inv'
<1>a. TypeOK /\ LockRule /\ BookInv /\ EditInv /\ ChangeInv /\ PostingCurrencyMatches /\ NothingDangling
  BY DEF Inv
<1>1. TypeOK' BY <1>a DEF Unbook, TypeOK
<1>2. LockRule' BY <1>a DEF Unbook, LockRule
<1>3. BookInv' BY <1>a DEF Unbook, BookInv
<1>4. EditInv' BY <1>a DEF Unbook, EditInv
<1>5. ChangeInv' BY <1>a DEF Unbook, On, Rows, ChangeInv
<1>6. PostingCurrencyMatches' BY <1>a DEF Unbook, PostingCurrencyMatches
<1>7. NothingDangling' BY <1>a DEF Unbook, Rows, NothingDangling
<1>9. QED BY <1>1, <1>2, <1>3, <1>4, <1>5, <1>6, <1>7 DEF Inv

LEMMA RollbackKeeps ==
  ASSUME Inv, NEW r \in Requests, Rollback(r)
  PROVE  Inv'
<1>0. End(r) BY DEF Rollback
<1>a. TypeOK /\ LockRule /\ BookInv /\ EditInv /\ ChangeInv /\ PostingCurrencyMatches /\ NothingDangling
  BY DEF Inv
<1>1. TypeOK' BY <1>a, EndFrees DEF Rollback, rows, TypeOK
<1>2. LockRule' BY <1>a, <1>0, EndFrees DEF LockRule
<1>3. BookInv' /\ EditInv' BY <1>a, OthersKeep DEF Rollback, rows
<1>5. ChangeInv' BY <1>a, EndFrees, OpShapes DEF Rollback, rows, On, Rows, ChangeInv
<1>6. PostingCurrencyMatches' BY <1>a DEF Rollback, rows, PostingCurrencyMatches
<1>7. NothingDangling' BY <1>a DEF Rollback, rows, Rows, NothingDangling
<1>9. QED BY <1>1, <1>2, <1>3, <1>5, <1>6, <1>7 DEF Inv

LEMMA BookKeeps ==
  ASSUME Inv, NEW r \in Requests, NEW o \in Owners, NEW A \in SUBSET Accounts, Book(r, o, A)
  PROVE  Inv'
<1>a. TypeOK /\ LockRule /\ BookInv /\ EditInv /\ ChangeInv /\ PostingCurrencyMatches /\ NothingDangling
  BY DEF Inv
<1>b. OpOK(Booking(o, Legs(o, A))) BY <1>a, OpShapes, LegFields DEF Legs, OpOK, TypeOK
<1>1. TypeOK' BY <1>a, <1>b DEF Book, TypeOK, Share, rows
<1>2. LockRule' BY <1>a DEF Book, Share, LockRule
<1>3. BookInv'
  BY <1>a, OpShapes, Known, LegFields
  DEF Book, Share, Legs, Valid, rows, BookInv
<1>4. EditInv' BY <1>a, OpShapes, Known, LegFields DEF Book, Share, rows, EditInv
<1>5. ChangeInv' BY <1>a, OpShapes DEF Book, rows, On, Rows, ChangeInv
<1>6. PostingCurrencyMatches' BY <1>a DEF Book, rows, PostingCurrencyMatches
<1>7. NothingDangling' BY <1>a DEF Book, rows, Rows, NothingDangling
<1>9. QED BY <1>1, <1>2, <1>3, <1>4, <1>5, <1>6, <1>7 DEF Inv

LEMMA BookCommitKeeps ==
  ASSUME Inv, NEW r \in Requests, BookCommit(r)
  PROVE  Inv'
<1>0. End(r) BY DEF BookCommit
<1>a. TypeOK /\ LockRule /\ BookInv /\ EditInv /\ ChangeInv /\ PostingCurrencyMatches /\ NothingDangling
  BY DEF Inv
<1>b. booked' \subseteq Leg /\ made' \subseteq Owners
  BY <1>a, Known DEF BookCommit, TypeOK
<1>1. TypeOK' BY <1>a, <1>b, EndFrees DEF BookCommit, TypeOK
<1>2. LockRule' BY <1>a, <1>0, EndFrees DEF LockRule
<1>3. BookInv' /\ EditInv' BY <1>a, OthersKeep DEF BookCommit
<1>5. ChangeInv'
  BY <1>a, EndFrees, OpShapes, NamesAssumption
  DEF BookCommit, On, Rows, ChangeInv, LockRule, BookInv
<1>6. PostingCurrencyMatches' BY <1>a DEF BookCommit, PostingCurrencyMatches, BookInv
<1>7. NothingDangling'
  BY <1>a, Known, LegFields
  DEF BookCommit, Rows, NothingDangling, BookInv
<1>9. QED BY <1>1, <1>2, <1>3, <1>5, <1>6, <1>7 DEF Inv

LEMMA EditReadKeeps ==
  ASSUME Inv, NEW r \in Requests, NEW o \in Items, EditRead(r, o)
  PROVE  Inv'
<1>a. TypeOK /\ LockRule /\ BookInv /\ EditInv /\ ChangeInv /\ PostingCurrencyMatches /\ NothingDangling
  BY DEF Inv
<1>b. PICK l \in Of(o) : op' = [op EXCEPT ![r] = Editing(l)] BY DEF EditRead
<1>c. l \in Leg /\ l.by = o BY <1>a DEF Of, TypeOK
<1>d. OpOK(Editing(l)) BY <1>c, OpShapes DEF OpOK
<1>1. TypeOK' BY <1>a, <1>b, <1>d DEF EditRead, TypeOK, rows
<1>2. LockRule' BY <1>a DEF EditRead, LockRule
<1>3. BookInv' BY <1>a, OpShapes DEF EditRead, rows, BookInv

<1>4. EditInv' BY <1>a, <1>b, <1>c, OpShapes DEF EditRead, EditInv, rows
<1>5. ChangeInv' BY <1>a, OpShapes DEF EditRead, rows, On, Rows, ChangeInv
<1>6. PostingCurrencyMatches' BY <1>a DEF EditRead, rows, PostingCurrencyMatches
<1>7. NothingDangling' BY <1>a DEF EditRead, rows, Rows, NothingDangling
<1>9. QED BY <1>1, <1>2, <1>3, <1>4, <1>5, <1>6, <1>7 DEF Inv

LEMMA EditLockKeeps ==
  ASSUME Inv, NEW r \in Requests, NEW a \in Accounts, EditLock(r, a)
  PROVE  Inv'
<1>a. TypeOK /\ LockRule /\ BookInv /\ EditInv /\ ChangeInv /\ PostingCurrencyMatches /\ NothingDangling
  BY DEF Inv
<1>1. TypeOK'
  BY <1>a, Known
  DEF EditLock, Share, Legs, Valid, rows, Leg, Booking, Editing, Saving, Changing,
      Checked, TypeOK, OpOK
<1>2. LockRule' BY <1>a DEF EditLock, Share, LockRule
<1>3. BookInv' BY <1>a, OpShapes, Known, LegFields DEF EditLock, Share, rows, BookInv
<1>4. EditInv'
  BY <1>a, OpShapes, Known, LegFields
  DEF EditLock, Share, Legs, Valid, rows, EditInv, BookInv
<1>5. ChangeInv' BY <1>a, OpShapes DEF EditLock, rows, On, Rows, ChangeInv
<1>6. PostingCurrencyMatches' BY <1>a DEF EditLock, rows, PostingCurrencyMatches
<1>7. NothingDangling' BY <1>a DEF EditLock, rows, Rows, NothingDangling
<1>9. QED BY <1>1, <1>2, <1>3, <1>4, <1>5, <1>6, <1>7 DEF Inv

LEMMA EditCommitKeeps ==
  ASSUME Inv, NEW r \in Requests, EditCommit(r)
  PROVE  Inv'
<1>0. End(r) BY DEF EditCommit
<1>a. TypeOK /\ LockRule /\ BookInv /\ EditInv /\ ChangeInv /\ PostingCurrencyMatches /\ NothingDangling
  BY DEF Inv
<1>b. PICK l \in Of(op[r].from.by) :
         booked' = (booked \ {l}) \cup {Written(l, op[r].from, op[r].to)}
  BY DEF EditCommit
<1>c. Written(l, op[r].from, op[r].to) \in Leg
  <2>1. l \in Leg /\ op[r].from \in Leg /\ op[r].to \in Leg
    BY <1>a, Known DEF EditCommit, Of, TypeOK
  <2>2. QED BY <2>1, LegFields DEF Written
<1>d. booked' \subseteq Leg BY <1>a, <1>b, <1>c DEF TypeOK
<1>1. TypeOK' BY <1>a, <1>d, EndFrees DEF EditCommit, TypeOK
<1>2. LockRule' BY <1>a, <1>0, EndFrees DEF LockRule
<1>3. BookInv' /\ EditInv' BY <1>a, OthersKeep DEF EditCommit
<1>5. ChangeInv'
  BY <1>a, EndFrees, NamesAssumption
  DEF EditCommit, Written, Of, On, Rows, Leg, Idle, Checked, Deleting, ChangeInv,
      LockRule, EditInv
<1>6. PostingCurrencyMatches'
  BY <1>a
  DEF EditCommit, Written, Of, PostingCurrencyMatches, EditInv
<1>7. NothingDangling'
  BY <1>a, Known, LegFields
  DEF EditCommit, Written, Of, Rows, NothingDangling, EditInv
<1>9. QED BY <1>1, <1>2, <1>3, <1>5, <1>6, <1>7 DEF Inv

LEMMA CurrencyLockKeeps ==
  ASSUME Inv, NEW r \in Requests, NEW a \in Accounts, NEW c \in Currencies, CurrencyLock(r, a, c)
  PROVE  Inv'
<1>a. TypeOK /\ LockRule /\ BookInv /\ EditInv /\ ChangeInv /\ PostingCurrencyMatches /\ NothingDangling
  BY DEF Inv
<1>1. TypeOK' BY <1>a, OpShapes DEF CurrencyLock, LockFree, rows, Rows, TypeOK, OpOK
<1>2. LockRule' BY <1>a DEF CurrencyLock, LockFree, LockRule
<1>3. BookInv' BY <1>a, OpShapes DEF CurrencyLock, rows, BookInv
<1>4. EditInv' BY <1>a, OpShapes DEF CurrencyLock, rows, EditInv
<1>5. ChangeInv'
  BY <1>a, OpShapes, NamesAssumption
  DEF CurrencyLock, LockFree, rows, On, Rows, TypeOK, ChangeInv
<1>6. PostingCurrencyMatches' BY <1>a DEF CurrencyLock, rows, PostingCurrencyMatches
<1>7. NothingDangling' BY <1>a DEF CurrencyLock, rows, Rows, NothingDangling
<1>9. QED BY <1>1, <1>2, <1>3, <1>4, <1>5, <1>6, <1>7 DEF Inv

LEMMA CurrencyReadKeeps ==
  ASSUME Inv, NEW r \in Requests, CurrencyRead(r)
  PROVE  Inv'
<1>a. TypeOK /\ LockRule /\ BookInv /\ EditInv /\ ChangeInv /\ PostingCurrencyMatches /\ NothingDangling
  BY DEF Inv
<1>1. TypeOK'
  BY <1>a, OpShapes, Known, LegFields, NamesAssumption
  DEF CurrencyRead, CanChange, rows, On, Leg, Idle, Booking, Editing, Saving, Changing,
      Checked, Deleting, TypeOK, OpOK, Owners
<1>2. LockRule' BY <1>a DEF CurrencyRead, LockRule
<1>3. BookInv' BY <1>a, OpShapes DEF CurrencyRead, rows, BookInv
<1>4. EditInv' BY <1>a, OpShapes DEF CurrencyRead, rows, EditInv
<1>5. ChangeInv' BY <1>a, OpShapes DEF CurrencyRead, CanChange, rows, On, Rows, ChangeInv
<1>6. PostingCurrencyMatches' BY <1>a DEF CurrencyRead, rows, PostingCurrencyMatches
<1>7. NothingDangling' BY <1>a DEF CurrencyRead, rows, Rows, NothingDangling
<1>9. QED BY <1>1, <1>2, <1>3, <1>4, <1>5, <1>6, <1>7 DEF Inv

LEMMA CurrencyCommitKeeps ==
  ASSUME Inv, NEW r \in Requests, CurrencyCommit(r)
  PROVE  Inv'
<1>0. End(r) BY DEF CurrencyCommit
<1>a. TypeOK /\ LockRule /\ BookInv /\ EditInv /\ ChangeInv /\ PostingCurrencyMatches /\ NothingDangling
  BY DEF Inv
<1>b. /\ currency' \in [Accounts -> Currencies]
      /\ state' \in [Accounts -> {"new", "open", "closed", "deleted"}]
  BY <1>a, Known DEF CurrencyCommit, TypeOK
<1>1. TypeOK' BY <1>a, <1>b, EndFrees DEF CurrencyCommit, TypeOK
<1>2. LockRule' BY <1>a, <1>0, EndFrees DEF LockRule
<1>l. \A a \in Accounts : shared[a] \ {r} # {} => a # op[r].account
  BY <1>a, NamesAssumption DEF CurrencyCommit, ChangeInv, LockRule
<1>m. \A a \in Accounts : a # op[r].account => state'[a] = state[a] /\ currency'[a] = currency[a]
  BY DEF CurrencyCommit
<1>3. BookInv' /\ EditInv' BY <1>a, <1>0, <1>l, <1>m, OthersKeep
<1>5. ChangeInv' BY <1>a, EndFrees, OpShapes DEF CurrencyCommit, On, Rows, ChangeInv
<1>6. PostingCurrencyMatches'
  BY <1>a
  DEF CurrencyCommit, On, PostingCurrencyMatches, ChangeInv
<1>7. NothingDangling' BY <1>a DEF CurrencyCommit, Rows, NothingDangling
<1>9. QED BY <1>1, <1>2, <1>3, <1>5, <1>6, <1>7 DEF Inv

LEMMA DeleteCheckKeeps ==
  ASSUME Inv, NEW r \in Requests, NEW a \in Accounts, DeleteCheck(r, a)
  PROVE  Inv'
<1>a. TypeOK /\ LockRule /\ BookInv /\ EditInv /\ ChangeInv /\ PostingCurrencyMatches /\ NothingDangling
  BY DEF Inv
<1>1. TypeOK' BY <1>a, OpShapes DEF DeleteCheck, rows, TypeOK, OpOK
<1>2. LockRule' BY <1>a DEF DeleteCheck, LockRule
<1>3. BookInv' BY <1>a, OpShapes DEF DeleteCheck, rows, BookInv
<1>4. EditInv' BY <1>a, OpShapes DEF DeleteCheck, rows, EditInv
<1>5. ChangeInv' BY <1>a, OpShapes DEF DeleteCheck, rows, On, Rows, ChangeInv
<1>6. PostingCurrencyMatches' BY <1>a DEF DeleteCheck, rows, PostingCurrencyMatches
<1>7. NothingDangling' BY <1>a DEF DeleteCheck, rows, Rows, NothingDangling
<1>9. QED BY <1>1, <1>2, <1>3, <1>4, <1>5, <1>6, <1>7 DEF Inv

LEMMA DeleteLoadKeeps ==
  ASSUME Inv, NEW r \in Requests, DeleteLoad(r)
  PROVE  Inv'
<1>a. TypeOK /\ LockRule /\ BookInv /\ EditInv /\ ChangeInv /\ PostingCurrencyMatches /\ NothingDangling BY DEF Inv
<1> DEFINE o == Deleting(op[r].account, {l \in On(op[r].account) : l.by \in Transfers})
<1>b. OpOK(o) BY <1>a, Known, OpShapes DEF DeleteLoad, On, OpOK, TypeOK
<1>c. op' = [op EXCEPT ![r] = o] BY DEF DeleteLoad
<1>1. TypeOK' BY <1>a, <1>b, <1>c, Steps DEF DeleteLoad, TypeOK, rows
<1>2. LockRule' BY <1>a DEF DeleteLoad, LockRule
<1>3. BookInv' BY <1>a, OpShapes DEF DeleteLoad, rows, BookInv
<1>4. EditInv' BY <1>a, OpShapes DEF DeleteLoad, rows, EditInv
<1>5. ChangeInv' BY <1>a, OpShapes DEF DeleteLoad, rows, On, Rows, ChangeInv
<1>6. PostingCurrencyMatches' BY <1>a DEF DeleteLoad, rows, PostingCurrencyMatches
<1>7. NothingDangling' BY <1>a DEF DeleteLoad, rows, Rows, NothingDangling
<1>9. QED BY <1>1, <1>2, <1>3, <1>4, <1>5, <1>6, <1>7 DEF Inv

LEMMA DeleteCommitKeeps ==
  ASSUME Inv, NEW r \in Requests, DeleteCommit(r)
  PROVE  Inv'
<1>0. End(r) BY DEF DeleteCommit
<1>a. TypeOK /\ LockRule /\ BookInv /\ EditInv /\ ChangeInv /\ PostingCurrencyMatches /\ NothingDangling BY DEF Inv
<1>1. TypeOK'
  BY <1>a, EndFrees
  DEF DeleteCommit, LockFree, Restricted, On, Idle, Booking, TypeOK
<1>2. LockRule' BY <1>a, <1>0, EndFrees DEF LockRule
<1>3. BookInv' /\ EditInv' BY <1>a, OthersKeep DEF DeleteCommit, LockFree
<1>5. ChangeInv'
  BY <1>a, EndFrees, OpShapes, NamesAssumption
  DEF DeleteCommit, LockFree, On, Rows, ChangeInv
<1>6. PostingCurrencyMatches' BY <1>a DEF DeleteCommit, PostingCurrencyMatches
<1>7. NothingDangling' BY <1>a DEF DeleteCommit, Restricted, On, Rows, NothingDangling
<1>9. QED BY <1>1, <1>2, <1>3, <1>5, <1>6, <1>7 DEF Inv

----------------------------------------------------------------------------
LEMMA StepKeeps == ASSUME Inv, [Next]_vars PROVE Inv'
<1>1. ASSUME NEW a \in Accounts, NEW s \in {"open", "closed"}, NEW c \in Currencies,
             CreateAccount(a, s, c)
      PROVE  Inv'
  BY <1>1, CreateAccountKeeps
<1>2. ASSUME NEW a \in Accounts, NEW s \in {"open", "closed"}, SetActive(a, s) PROVE Inv'
  BY <1>2, SetActiveKeeps
<1>3. ASSUME NEW o \in Owners, Unbook(o) PROVE Inv'
  BY <1>3, UnbookKeeps
<1>4. ASSUME NEW r \in Requests, RequestStep(r) PROVE Inv'
  BY <1>4, RollbackKeeps, BookKeeps, BookCommitKeeps, EditReadKeeps, EditLockKeeps,
     EditCommitKeeps, CurrencyLockKeeps, CurrencyReadKeeps, CurrencyCommitKeeps,
     DeleteCheckKeeps, DeleteLoadKeeps, DeleteCommitKeeps
  DEF RequestStep
<1>5. CASE UNCHANGED vars
  BY <1>5
  DEF vars, Inv, TypeOK, LockRule, BookInv, EditInv, ChangeInv, PostingCurrencyMatches,
      NothingDangling, On, Rows
<1>6. QED BY <1>1, <1>2, <1>3, <1>4, <1>5 DEF Next

\* The strengthened invariant of AccountBook.
THEOREM Invariance == Spec => []Inv
<1>1. Init => Inv BY InitInv
<1>2. Inv /\ [Next]_vars => Inv' BY StepKeeps
<1>3. QED BY <1>1, <1>2, PTL DEF Spec

\* The types hold in every reachable state.
THEOREM TypeCorrect == Spec => []TypeOK
<1>1. Inv => TypeOK BY DEF Inv
<1>2. QED BY <1>1, Invariance, PTL

\* Every posting and every loan is in the currency of its account, whatever
\* requests change currencies meanwhile (lock_accounts).
THEOREM PostingCurrencies == Spec => []PostingCurrencyMatches
<1>1. Inv => PostingCurrencyMatches BY DEF Inv
<1>2. QED BY <1>1, Invariance, PTL

\* Nothing is booked on an account that has no row (ON DELETE RESTRICT and the
\* locks of the requests that book).
THEOREM NoDanglingLegs == Spec => []NothingDangling
<1>1. Inv => NothingDangling BY DEF Inv
<1>2. QED BY <1>1, Invariance, PTL

\* Postings and loans are added only on accounts that are open when they are
\* (lock_accounts FOR SHARE until the commit).
THEOREM OpenAccounts == Spec => BookedOnOpenAccounts
<1> DEFINE P == \A l \in booked' \ booked : l.by \notin Items => state[l.account] = "open"
<1>1. ASSUME Inv, Next PROVE P
  <2> SUFFICES ASSUME NEW l \in booked' \ booked, l.by \notin Items
               PROVE  state[l.account] = "open"
    OBVIOUS
  <2>1. ASSUME NEW r \in Requests, BookCommit(r) PROVE state[l.account] = "open"
    BY <1>1, <2>1 DEF BookCommit, Inv, BookInv
  <2>2. ASSUME NEW r \in Requests, EditCommit(r) PROVE FALSE
    BY <1>1, <2>2 DEF EditCommit, Written, Of, Inv, EditInv
  <2>3. ASSUME NEW r \in Requests, RequestStep(r) PROVE state[l.account] = "open"
    BY <2>1, <2>2, <2>3
    DEF RequestStep, Rollback, Book, EditRead, EditLock, CurrencyLock, CurrencyRead,
        CurrencyCommit, DeleteCheck, DeleteLoad, DeleteCommit, rows
  <2>4. QED BY <1>1, <2>3 DEF Next, CreateAccount, SetActive, Unbook
<1>2. Inv /\ [Next]_vars => [P]_vars BY <1>1
<1>3. QED BY <1>2, Invariance, PTL DEF Spec, BookedOnOpenAccounts
==============================================================================
