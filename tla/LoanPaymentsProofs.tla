------------------------- MODULE LoanPaymentsProofs -------------------------
(***************************************************************************)
(* For any sets of loans, installments, transfers and requests: a linked   *)
(* payment stays an eligible transfer of an existing installment, neither  *)
(* changes while it is linked, no installment is overpaid, and requests    *)
(* never deadlock.                                                         *)
(*                                                                         *)
(* The invariant says what each request has locked by the step it is at,   *)
(* and what it has checked of the rows it has locked; for the deadlock, it *)
(* says of every lock at which steps its holder can be, and a rank of the  *)
(* steps shows that a request waits only for one that is further.          *)
(***************************************************************************)
EXTENDS LoanPayments, SequenceTheorems, DataTheorems, TLAPS

\* The row of installment i is there.
Exists(i) == loanOf[i] # None /\ total[i] > 0

\* What a request r at operation o that links a payment holds and knows.
LinkKnows(o, r) ==
  /\ o.kind = "link" =>
       /\ o.todo \in {<<o.loan, o.installment, o.transfer>>, <<o.installment, o.transfer>>,
                      <<o.transfer>>, <<>>}
       /\ o.todo \in {<<o.transfer>>, <<>>} =>
            holder[o.installment] = r /\ Exists(o.installment)
       /\ o.todo = <<>> => holder[o.transfer] = r
  /\ o.kind = "linking" =>
       /\ holder[o.installment] = r /\ Exists(o.installment)
       /\ holder[o.transfer] = r /\ status[o.transfer] = "eligible"
       /\ LinksOn(o.transfer) = {}

\* The same of a request that changes an installment or a transfer.
ChangeKnows(o, r) ==
  /\ o.kind = "installment" => o.todo = <<o.installment>> \/ holder[o.installment] = r
  /\ o.kind = "changing" => holder[o.installment] = r /\ LinksOf(o.installment) = {}
  /\ o.kind = "transfer" => o.todo = <<o.transfer>> \/ holder[o.transfer] = r
  /\ o.kind = "moving" => holder[o.transfer] = r
  /\ o.kind = "moving" /\ o.status # status[o.transfer] => LinksOn(o.transfer) = {}

\* Ids that were not given out have no rows.
UnusedInv ==
  /\ \A k \in Links : k \notin used => link[k] = None
  /\ \A k \in Links : link[k] # None => loanOf[link[k].installment] # None

TablesOK ==
  /\ loanOf \in [Installments -> Loans \cup {None}]
  /\ total \in [Installments -> 0..MaxAmount]
  /\ status \in [Transfers -> Statuses \cup {"new", "deleted"}]
  /\ amount \in [Transfers -> Amounts]
  /\ link \in [Links -> Payment \cup {None}]
  /\ used \subseteq Links

Inv ==
  /\ TypeOK
  /\ \A r \in Requests : LinkKnows(op[r], r) /\ ChangeKnows(op[r], r)
  /\ UnusedInv
  /\ LinkedPaymentsValid

LEMMA Tuples ==
  /\ \A a, b, c : Head(<<a, b, c>>) = a /\ Tail(<<a, b, c>>) = <<b, c>>
  /\ \A a, b : Head(<<a, b>>) = a /\ Tail(<<a, b>>) = <<b>>
  /\ \A a : Head(<<a>>) = a /\ Tail(<<a>>) = <<>>
  /\ \A a, b, c : <<a>> # <<b, c>> /\ <<a>> # <<>> /\ <<b, c>> # <<>>
OBVIOUS

LEMMA LinkFields ==
  ASSUME TypeOK, NEW k \in Links, link[k] # None
  PROVE  /\ link[k].transfer \in Transfers
         /\ link[k].installment \in Installments
BY DEF TypeOK, Payment

\* The fields of an operation, by its kind.
LEMMA Fields ==
  ASSUME NEW o \in OperationType
  PROVE  /\ o.todo \in Seq(Rows)
         /\ o.kind \in {"link", "linking", "unlink", "add"} => o.loan \in Loans
         /\ o.kind \in {"link", "linking", "add", "installment", "changing"} =>
              o.installment \in Installments /\ o.installment \in Rows
         /\ o.kind \in {"link", "linking", "transfer", "moving"} =>
              o.transfer \in Transfers /\ o.transfer \in Rows
         /\ o.kind = "add" => o.total \in Amounts
         /\ o.kind \in {"installment", "changing"} => o.total \in Amounts \cup {0}
         /\ o.kind \in {"transfer", "moving"} => o.status \in Statuses \cup {"deleted"}
         /\ o.kind = "unlink" => o.link \in Links
BY DEF OperationType, Rows

\* An operation that goes on keeps its fields.
LEMMA TodoChanges ==
  ASSUME NEW o \in OperationType, NEW s \in Seq(Rows), NEW p, p = [o EXCEPT !.todo = s]
  PROVE  /\ p \in OperationType /\ p.kind = o.kind /\ p.todo = s
         /\ o.kind \in {"link", "linking"} => p.loan = o.loan
         /\ o.kind \in {"link", "linking", "installment", "changing"} =>
              p.installment = o.installment
         /\ o.kind \in {"link", "linking", "transfer", "moving"} => p.transfer = o.transfer
         /\ o.kind \in {"transfer", "moving"} => p.status = o.status
BY DEF OperationType

LEMMA KindChanges ==
  ASSUME NEW o \in OperationType, NEW kind, NEW p, p = [o EXCEPT !.kind = kind],
         <<o.kind, kind>> \in {<<"link", "linking">>, <<"installment", "changing">>,
                               <<"transfer", "moving">>}
  PROVE  /\ p \in OperationType /\ p.kind = kind
         /\ kind \in {"linking", "changing"} => p.installment = o.installment
         /\ kind \in {"linking", "moving"} => p.transfer = o.transfer
         /\ kind = "moving" => p.status = o.status
BY DEF OperationType

LEMMA InitInv == ASSUME Init PROVE Inv
<1>1. TypeOK BY BoundAssumption DEF Init, TypeOK, OperationType, Idle, Amounts
<1>2. \A r \in Requests : LinkKnows(op[r], r) /\ ChangeKnows(op[r], r)
  BY DEF Init, LinkKnows, ChangeKnows, Idle
<1>3. UnusedInv /\ LinkedPaymentsValid BY DEF Init, UnusedInv, LinkedPaymentsValid
<1>4. QED BY <1>1, <1>2, <1>3 DEF Inv

----------------------------------------------------------------------------
(***************************************************************************)
(* The three forms of a step of a request: it locks a row, it checks what  *)
(* it has locked, or it ends.                                              *)
(***************************************************************************)
LEMMA LockKeeps ==
  ASSUME Inv, NEW r \in Requests, NEW x, NEW o \in OperationType,
         holder[x] \in {None, r}, holder' = [holder EXCEPT ![x] = r],
         op' = [op EXCEPT ![r] = o], UNCHANGED tables,
         LinkKnows(op[r], r)', ChangeKnows(op[r], r)'
  PROVE  Inv'
<1>1. /\ op'[r] = o /\ \A q \in Requests : q # r => op'[q] = op[q]
      /\ op' = [q \in Requests |-> op'[q]]
  BY DEF Inv, TypeOK
<1>2. TypeOK' BY <1>1 DEF Inv, TypeOK, tables
<1>3. ASSUME NEW q \in Requests, q # r
      PROVE  LinkKnows(op[q], q)' /\ ChangeKnows(op[q], q)'
  <2>1. \A y : holder[y] = q /\ y \in Rows => holder'[y] = q
    BY <1>3, NamesAssumption DEF Inv, TypeOK
  <2>2. /\ op[q].kind \in {"link", "linking", "installment", "changing"} => op[q].installment \in Rows
        /\ op[q].kind \in {"link", "linking", "transfer", "moving"} => op[q].transfer \in Rows
    BY Fields DEF Inv, TypeOK
  <2>3. QED
    BY <1>1, <1>3, <2>1, <2>2 DEF Inv, LinkKnows, ChangeKnows, Exists, LinksOn, LinksOf, tables
<1>4. UnusedInv' /\ LinkedPaymentsValid' BY DEF Inv, UnusedInv, LinkedPaymentsValid, tables
<1>5. QED BY <1>1, <1>2, <1>3, <1>4 DEF Inv

LEMMA CheckKeeps ==
  ASSUME Inv, NEW r \in Requests, NEW kind, Checked(r, kind), op'[r] \in OperationType,
         LinkKnows(op[r], r)', ChangeKnows(op[r], r)'
  PROVE  Inv'
<1>1. /\ \A q \in Requests : q # r => op'[q] = op[q]
      /\ op' = [q \in Requests |-> op'[q]]
  BY DEF Checked, Inv, TypeOK
<1>2. TypeOK' BY <1>1 DEF Checked, Inv, TypeOK, tables
<1>3. \A q \in Requests : LinkKnows(op[q], q)' /\ ChangeKnows(op[q], q)'
  BY <1>1 DEF Checked, Inv, LinkKnows, ChangeKnows, Exists, LinksOn, LinksOf, tables
<1>4. UnusedInv' /\ LinkedPaymentsValid'
  BY DEF Checked, Inv, UnusedInv, LinkedPaymentsValid, tables
<1>5. QED BY <1>2, <1>3, <1>4 DEF Inv

\* A request that ends has left alone what others have locked.
LEMMA EndKeeps ==
  ASSUME Inv, NEW r \in Requests, End(r), TablesOK', UnusedInv', LinkedPaymentsValid',
         \A i \in Installments : holder[i] # r =>
           (Exists(i) => Exists(i)') /\ LinksOf(i)' \subseteq LinksOf(i),
         \A t \in Transfers : holder[t] # r =>
           status'[t] = status[t] /\ LinksOn(t)' \subseteq LinksOn(t)
  PROVE  Inv'
<1>1. /\ op'[r] = Idle /\ \A q \in Requests : q # r => op'[q] = op[q]
      /\ op' = [q \in Requests |-> op'[q]]
      /\ holder' \in [Rows -> Requests \cup {None}]
      /\ \A y \in Rows, q \in Requests : q # r /\ holder[y] = q => holder'[y] = q
  BY DEF End, Inv, TypeOK
<1>2. TypeOK'
  <2>1. op'[r] \in OperationType BY <1>1 DEF OperationType, Idle
  <2>2. \A q \in Requests : op'[q] \in OperationType BY <1>1, <2>1 DEF Inv, TypeOK
  <2>3. QED BY <1>1, <2>2 DEF TypeOK, TablesOK
<1>3. ASSUME NEW q \in Requests, q # r
      PROVE  LinkKnows(op[q], q)' /\ ChangeKnows(op[q], q)'
  <2>1. /\ op[q].kind \in {"link", "linking", "installment", "changing"} =>
             op[q].installment \in Rows /\ op[q].installment \in Installments
        /\ op[q].kind \in {"link", "linking", "transfer", "moving"} =>
             op[q].transfer \in Rows /\ op[q].transfer \in Transfers
    BY Fields DEF Inv, TypeOK
  <2>2. LinkKnows(op[q], q)'
    <3>1. CASE op[q].kind = "link" BY <1>1, <1>3, <2>1, <3>1 DEF Inv, LinkKnows
    <3>2. CASE op[q].kind = "linking" BY <1>1, <1>3, <2>1, <3>2 DEF Inv, LinkKnows
    <3>3. QED BY <1>1, <1>3, <3>1, <3>2 DEF LinkKnows
  <2>3. ChangeKnows(op[q], q)' BY <1>1, <1>3, <2>1, SMTT(20) DEF Inv, ChangeKnows
  <2>4. QED BY <2>2, <2>3
<1>4. LinkKnows(op[r], r)' /\ ChangeKnows(op[r], r)'
  BY <1>1 DEF LinkKnows, ChangeKnows, Idle
<1>5. QED BY <1>1, <1>2, <1>3, <1>4 DEF Inv

----------------------------------------------------------------------------
(***************************************************************************)
(* A step that locks a row.                                                *)
(***************************************************************************)
LEMMA Remaining ==
  ASSUME Inv, NEW o \in OperationType, o.todo # <<>>
  PROVE  /\ Head(o.todo) \in Rows /\ Tail(o.todo) \in Seq(Rows)
         /\ Head(o.todo) \in Links /\ Found(o, Head(o.todo)) =>
              Append(Tail(o.todo), link[Head(o.todo)].installment) \in Seq(Rows)
<1>1. Head(o.todo) \in Rows /\ Tail(o.todo) \in Seq(Rows)
  BY Fields, HeadTailProperties
<1>2. ASSUME Head(o.todo) \in Links, Found(o, Head(o.todo))
      PROVE  link[Head(o.todo)].installment \in Rows
  BY <1>2, LinkFields DEF Found, Inv, Rows
<1>3. QED BY <1>1, <1>2, AppendProperties

LEMMA LockStepKeeps ==
  ASSUME Inv, NEW r \in Requests, NEW o \in OperationType, Lock(r, o),
         LinkKnows(o, r), ChangeKnows(o, r)
  PROVE  Inv'
<1> DEFINE x == Head(o.todo)
           s == IF x \in Links THEN Append(Tail(o.todo), link[x].installment) ELSE Tail(o.todo)
           p == [o EXCEPT !.todo = s]
<1>1. /\ o.todo # <<>> /\ Found(o, x) /\ holder[x] \in {None, r} /\ UNCHANGED tables
      /\ holder' = [holder EXCEPT ![x] = r] /\ op' = [op EXCEPT ![r] = p]
  BY DEF Lock
<1>2. x \in Rows /\ s \in Seq(Rows) BY <1>1, Remaining
<1>3. /\ p \in OperationType /\ p.kind = o.kind /\ p.todo = s
      /\ o.kind \in {"link", "linking"} => p.loan = o.loan
      /\ o.kind \in {"link", "linking", "installment", "changing"} =>
           p.installment = o.installment
      /\ o.kind \in {"link", "linking", "transfer", "moving"} => p.transfer = o.transfer
      /\ o.kind \in {"transfer", "moving"} => p.status = o.status
  <2> HIDE DEF s
  <2>1. QED BY <1>2, TodoChanges
<1>4. op'[r] = p /\ holder'[x] = r /\ \A y \in Rows : holder[y] = r => holder'[y] = r
  <2> HIDE DEF x, p
  <2>1. QED BY <1>1, <1>2 DEF Inv, TypeOK
<1>5. LinkKnows(op[r], r)'
  <2>1. CASE o.kind = "link"
    <3>1. /\ o.loan \in Loans /\ o.installment \in Installments /\ o.transfer \in Transfers
          /\ o.loan \notin Links /\ o.installment \notin Links /\ o.transfer \notin Links
          /\ o.installment \in Rows /\ o.transfer \in Rows
      BY <2>1, Fields, NamesAssumption
    <3>2. CASE o.todo = <<o.loan, o.installment, o.transfer>>
      <4>1. s = <<o.installment, o.transfer>> BY <3>1, <3>2, Tuples
      <4> HIDE DEF x, s, p
      <4>2. QED BY <1>3, <1>4, <2>1, <4>1, Tuples DEF LinkKnows
    <3>3. CASE o.todo = <<o.installment, o.transfer>>
      <4>1. s = <<o.transfer>> /\ x = o.installment BY <3>1, <3>3, Tuples
      <4>2. Exists(o.installment)'
        BY <1>1, <2>1, <3>1, <4>1, NamesAssumption DEF Found, Exists, tables
      <4> HIDE DEF x, s, p
      <4>3. QED BY <1>3, <1>4, <2>1, <4>1, <4>2, Tuples, ZenonT(30) DEF LinkKnows
    <3>4. CASE o.todo = <<o.transfer>>
      <4>1. s = <<>> /\ x = o.transfer BY <3>1, <3>4, Tuples
      <4>2. Exists(o.installment)' /\ holder[o.installment] = r
        BY <1>1, <2>1, <3>4 DEF LinkKnows, Exists, tables
      <4> HIDE DEF x, s, p
      <4>3. QED BY <1>3, <1>4, <2>1, <3>1, <4>1, <4>2, Tuples DEF LinkKnows
    <3>5. QED BY <1>1, <2>1, <3>2, <3>3, <3>4 DEF LinkKnows
  <2>2. CASE o.kind = "linking"
    <3> HIDE DEF x, s, p
    <3>1. QED BY <1>1, <1>3, <1>4, <2>2, Fields DEF LinkKnows, LinksOn, Exists, tables
  <2>3. CASE o.kind \notin {"link", "linking"}
    <3> HIDE DEF x, s, p
    <3>1. QED BY <1>3, <1>4, <2>3 DEF LinkKnows
  <2>4. QED BY <2>1, <2>2, <2>3
<1>6. ChangeKnows(op[r], r)'
  <2>1. o.kind = "installment" => holder'[o.installment] = r
    BY <1>1, <1>4, Fields, Tuples DEF ChangeKnows
  <2>2. o.kind = "transfer" => holder'[o.transfer] = r
    BY <1>1, <1>4, Fields, Tuples DEF ChangeKnows
  <2> HIDE DEF x, s, p
  <2>3. QED BY <1>1, <1>3, <1>4, <2>1, <2>2, Fields DEF ChangeKnows, LinksOf, LinksOn, tables
<1>7. QED
  <2> HIDE DEF x, p
  <2>1. QED BY <1>1, <1>3, <1>5, <1>6, LockKeeps

\* What a request may set out to do.
Operations ==
  LinkRequests \cup UnlinkRequests \cup AddRequests \cup InstallmentRequests
    \cup TransferRequests

LEMMA BeginKeeps == ASSUME Inv, NEW r \in Requests, Begin(r) PROVE Inv'
<1>1. PICK o \in Operations : Lock(r, o) BY DEF Begin, Operations
<1>2. /\ \A l \in Loans, i \in Installments, t \in Transfers : <<l, i, t>> \in Seq(Rows)
      /\ \A l \in Loans, k \in Links : <<l, k>> \in Seq(Rows)
      /\ \A x \in Rows : <<x>> \in Seq(Rows)
  BY DEF Rows
<1>3. o \in OperationType /\ LinkKnows(o, r) /\ ChangeKnows(o, r)
  <2>1. CASE o \in LinkRequests
    <3>1. PICK l \in Loans, i \in Installments, t \in Transfers :
                 o = [kind |-> "link", loan |-> l, installment |-> i, transfer |-> t,
                      todo |-> LinkOrder(l, i, t)]
      BY <2>1 DEF LinkRequests
    <3>2. o \in OperationType /\ o.kind = "link"
          /\ o.todo = <<o.loan, o.installment, o.transfer>>
      BY <1>2, <3>1 DEF OperationType, LinkOrder
    <3>3. QED BY <3>2, Tuples DEF LinkKnows, ChangeKnows
  <2>2. CASE o \in UnlinkRequests
    <3>1. PICK l \in Loans, k \in Links :
                 o = [kind |-> "unlink", loan |-> l, link |-> k, todo |-> UnlinkOrder(l, k)]
      BY <2>2 DEF UnlinkRequests
    <3>2. o \in OperationType /\ o.kind = "unlink"
      BY <1>2, <3>1 DEF OperationType, UnlinkOrder
    <3>3. QED BY <3>2 DEF LinkKnows, ChangeKnows
  <2>3. CASE o \in AddRequests
    <3>1. PICK l \in Loans, i \in Installments, n \in Amounts :
                 o = [kind |-> "add", loan |-> l, installment |-> i, total |-> n, todo |-> <<l>>]
      BY <2>3 DEF AddRequests
    <3>2. o \in OperationType /\ o.kind = "add"
      BY <1>2, <3>1 DEF OperationType, Rows
    <3>3. QED BY <3>2 DEF LinkKnows, ChangeKnows
  <2>4. CASE o \in InstallmentRequests
    <3>1. PICK i \in Installments, n \in Amounts \cup {0} :
                 o = [kind |-> "installment", installment |-> i, total |-> n, todo |-> <<i>>]
      BY <2>4 DEF InstallmentRequests
    <3>2. o \in OperationType /\ o.kind = "installment" /\ o.todo = <<o.installment>>
      BY <1>2, <3>1 DEF OperationType, Rows
    <3>3. QED BY <3>2 DEF LinkKnows, ChangeKnows
  <2>5. CASE o \in TransferRequests
    <3>1. PICK t \in Transfers, s \in Statuses \cup {"deleted"} :
                 o = [kind |-> "transfer", transfer |-> t, status |-> s, todo |-> <<t>>]
      BY <2>5 DEF TransferRequests
    <3>2. o \in OperationType /\ o.kind = "transfer" /\ o.todo = <<o.transfer>>
      BY <1>2, <3>1 DEF OperationType, Rows
    <3>3. QED BY <3>2 DEF LinkKnows, ChangeKnows
  <2>6. QED BY <2>1, <2>2, <2>3, <2>4, <2>5 DEF Operations
<1>4. QED BY <1>1, <1>3, LockStepKeeps

LEMMA LockNextKeeps == ASSUME Inv, NEW r \in Requests, LockNext(r) PROVE Inv'
<1>1. op[r] \in OperationType /\ Lock(r, op[r]) /\ LinkKnows(op[r], r) /\ ChangeKnows(op[r], r)
  BY DEF LockNext, Inv, TypeOK
<1>2. QED BY <1>1, LockStepKeeps

----------------------------------------------------------------------------
(***************************************************************************)
(* The steps that check, and the steps that end a request.                 *)
(***************************************************************************)
LEMMA LinkCheckKeeps == ASSUME Inv, NEW r \in Requests, LinkCheck(r) PROVE Inv'
<1>1. op[r] \in OperationType /\ op[r].kind = "link" /\ op[r].todo = <<>>
      /\ Checked(r, "linking") /\ op'[r] = [op[r] EXCEPT !.kind = "linking"]
  BY DEF LinkCheck, Locked, Checked, Inv, TypeOK
<1>2. /\ op'[r] \in OperationType /\ op'[r].kind = "linking"
      /\ op'[r].installment = op[r].installment /\ op'[r].transfer = op[r].transfer
  BY <1>1, KindChanges
<1>3. LinkKnows(op[r], r)' /\ ChangeKnows(op[r], r)'
  BY <1>1, <1>2 DEF LinkCheck, Checked, tables, Inv, LinkKnows, ChangeKnows, Exists, LinksOn
<1>4. QED BY <1>1, <1>2, <1>3, CheckKeeps

LEMMA InstallmentCheckKeeps == ASSUME Inv, NEW r \in Requests, InstallmentCheck(r) PROVE Inv'
<1>1. op[r] \in OperationType /\ op[r].kind = "installment" /\ op[r].todo = <<>>
      /\ Checked(r, "changing") /\ op'[r] = [op[r] EXCEPT !.kind = "changing"]
  BY DEF InstallmentCheck, Locked, Checked, Inv, TypeOK
<1>2. /\ op'[r] \in OperationType /\ op'[r].kind = "changing"
      /\ op'[r].installment = op[r].installment
  BY <1>1, KindChanges
<1>3. LinkKnows(op[r], r)' /\ ChangeKnows(op[r], r)'
  BY <1>1, <1>2, Tuples DEF InstallmentCheck, Checked, tables, Inv, LinkKnows, ChangeKnows, LinksOf
<1>4. QED BY <1>1, <1>2, <1>3, CheckKeeps

LEMMA TransferCheckKeeps == ASSUME Inv, NEW r \in Requests, TransferCheck(r) PROVE Inv'
<1>1. op[r] \in OperationType /\ op[r].kind = "transfer" /\ op[r].todo = <<>>
      /\ Checked(r, "moving") /\ op'[r] = [op[r] EXCEPT !.kind = "moving"]
  BY DEF TransferCheck, Locked, Checked, Inv, TypeOK
<1>2. /\ op'[r] \in OperationType /\ op'[r].kind = "moving"
      /\ op'[r].transfer = op[r].transfer /\ op'[r].status = op[r].status
  BY <1>1, KindChanges
<1>3. LinkKnows(op[r], r)' /\ ChangeKnows(op[r], r)'
  BY <1>1, <1>2, Tuples
     DEF TransferCheck, Unlinked, Checked, tables, Inv, LinkKnows, ChangeKnows, LinksOn
<1>4. QED BY <1>1, <1>2, <1>3, CheckKeeps

LEMMA EmptyEndKeeps ==
  ASSUME Inv, NEW r \in Requests, End(r), UNCHANGED tables
  PROVE  Inv'
<1>1. TablesOK' /\ UnusedInv' /\ LinkedPaymentsValid'
  BY DEF Inv, TypeOK, TablesOK, UnusedInv, LinkedPaymentsValid, tables
<1>2. /\ \A i \in Installments : LinksOf(i)' = LinksOf(i)
      /\ \A t \in Transfers : LinksOn(t)' = LinksOn(t)
  BY DEF LinksOf, LinksOn, tables
<1>3. QED BY <1>1, <1>2, EndKeeps DEF Exists, tables

LEMMA LinkCommitKeeps == ASSUME Inv, NEW r \in Requests, LinkCommit(r) PROVE Inv'
<1> DEFINE i0 == op[r].installment
           t0 == op[r].transfer
           p == [transfer |-> t0, installment |-> i0]
<1>1. i0 \in Installments /\ t0 \in Transfers /\ op[r].kind = "linking"
  BY Fields DEF LinkCommit, Inv, TypeOK
<1>2. /\ holder[i0] = r /\ loanOf[i0] # None /\ total[i0] > 0
      /\ holder[t0] = r /\ status[t0] = "eligible" /\ LinksOn(t0) = {}
  BY <1>1 DEF Inv, LinkKnows, Exists
<1>3. PICK k \in Links \ used :
        used' = used \cup {k} /\ link' = [link EXCEPT ![k] = p]
  BY DEF LinkCommit
<1>4. End(r) /\ UNCHANGED <<loanOf, total, status, amount>> BY DEF LinkCommit
<1>5. p \in Payment /\ p # None /\ p.transfer = t0 /\ p.installment = i0 /\ link[k] = None
  BY <1>1, <1>3, NamesAssumption DEF Payment, Inv, UnusedInv
<1> HIDE DEF i0, t0, p
<1>6. link'[k] = p /\ \A j \in Links : j # k => link'[j] = link[j]
  BY <1>3 DEF Inv, TypeOK
<1>7. TablesOK' BY <1>3, <1>4, <1>5 DEF Inv, TypeOK, TablesOK
<1>8. UnusedInv' BY <1>2, <1>3, <1>4, <1>5, <1>6 DEF Inv, UnusedInv
<1>9. LinkedPaymentsValid'
  BY <1>1, <1>2, <1>4, <1>5, <1>6 DEF Inv, LinkedPaymentsValid, LinksOn
<1>10. \A i \in Installments : holder[i] # r => LinksOf(i)' \subseteq LinksOf(i)
  BY <1>2, <1>5, <1>6 DEF LinksOf
<1>11. \A t \in Transfers : holder[t] # r => LinksOn(t)' \subseteq LinksOn(t)
  BY <1>2, <1>5, <1>6 DEF LinksOn
<1>12. QED BY <1>4, <1>7, <1>8, <1>9, <1>10, <1>11, EndKeeps DEF Exists

LEMMA UnlinkCommitKeeps == ASSUME Inv, NEW r \in Requests, UnlinkCommit(r) PROVE Inv'
<1>1. End(r) /\ UNCHANGED <<loanOf, total, status, amount, used>> BY DEF UnlinkCommit
<1>2. PICK k : link' = [link EXCEPT ![k] = None] BY DEF UnlinkCommit
<1>3. \A j \in Links : link'[j] \in {link[j], None} BY <1>2 DEF Inv, TypeOK
<1>4. TablesOK' BY <1>1, <1>2 DEF Inv, TypeOK, TablesOK
<1>5. UnusedInv' /\ LinkedPaymentsValid'
  BY <1>1, <1>3 DEF Inv, UnusedInv, LinkedPaymentsValid
<1>6. /\ \A i \in Installments : LinksOf(i)' \subseteq LinksOf(i)
      /\ \A t \in Transfers : LinksOn(t)' \subseteq LinksOn(t)
  BY <1>3 DEF LinksOf, LinksOn
<1>7. QED BY <1>1, <1>4, <1>5, <1>6, EndKeeps DEF Exists

LEMMA AddCommitKeeps == ASSUME Inv, NEW r \in Requests, AddCommit(r) PROVE Inv'
<1> DEFINE i0 == op[r].installment
<1>1. i0 \in Installments /\ op[r].loan \in Loans /\ op[r].total \in Amounts
  BY Fields DEF AddCommit, Locked, Inv, TypeOK
<1>2. /\ End(r) /\ UNCHANGED <<status, amount, link, used>> /\ loanOf[i0] = None
      /\ loanOf' = [loanOf EXCEPT ![i0] = op[r].loan]
      /\ total' = [total EXCEPT ![i0] = op[r].total]
  BY DEF AddCommit
<1>3. total'[i0] > 0 BY <1>1, <1>2 DEF Inv, TypeOK, Amounts
<1>4. /\ \A i \in Installments : i # i0 => total'[i] = total[i] /\ loanOf'[i] = loanOf[i]
      /\ loanOf'[i0] # None
  BY <1>1, <1>2, NamesAssumption DEF Inv, TypeOK
<1>5. TablesOK' BY <1>1, <1>2, BoundAssumption DEF Inv, TypeOK, TablesOK, Amounts
<1>6. UnusedInv' BY <1>2, <1>4, LinkFields DEF Inv, UnusedInv
<1>7. LinkedPaymentsValid'
  BY <1>2, <1>3, <1>4, LinkFields DEF Inv, LinkedPaymentsValid
<1>8. /\ \A i \in Installments : LinksOf(i)' = LinksOf(i)
      /\ \A t \in Transfers : LinksOn(t)' = LinksOn(t)
  BY <1>2 DEF LinksOf, LinksOn
<1>9. QED BY <1>2, <1>3, <1>4, <1>5, <1>6, <1>7, <1>8, EndKeeps DEF Exists

LEMMA InstallmentCommitKeeps == ASSUME Inv, NEW r \in Requests, InstallmentCommit(r) PROVE Inv'
<1> DEFINE i0 == op[r].installment
<1>1. i0 \in Installments /\ op[r].total \in Amounts \cup {0} /\ op[r].kind = "changing"
  BY Fields DEF InstallmentCommit, Inv, TypeOK
<1>2. holder[i0] = r /\ LinksOf(i0) = {} BY <1>1 DEF Inv, ChangeKnows
<1>3. /\ End(r) /\ UNCHANGED <<loanOf, status, amount, link, used>>
      /\ total' = [total EXCEPT ![i0] = op[r].total]
  BY DEF InstallmentCommit
<1>4. \A i \in Installments : i # i0 => total'[i] = total[i] BY <1>3 DEF Inv, TypeOK
<1>5. TablesOK' BY <1>1, <1>3, BoundAssumption DEF Inv, TypeOK, TablesOK, Amounts
<1>6. UnusedInv' BY <1>3 DEF Inv, UnusedInv
<1>7. LinkedPaymentsValid'
  BY <1>2, <1>3, <1>4, LinkFields DEF Inv, LinkedPaymentsValid, LinksOf
<1>8. /\ \A i \in Installments : LinksOf(i)' = LinksOf(i)
      /\ \A t \in Transfers : LinksOn(t)' = LinksOn(t)
  BY <1>3 DEF LinksOf, LinksOn
<1>9. QED BY <1>2, <1>3, <1>4, <1>5, <1>6, <1>7, <1>8, EndKeeps DEF Exists

LEMMA TransferCommitKeeps == ASSUME Inv, NEW r \in Requests, TransferCommit(r) PROVE Inv'
<1> DEFINE t0 == op[r].transfer
<1>1. t0 \in Transfers /\ op[r].status \in Statuses \cup {"deleted"} /\ op[r].kind = "moving"
  BY Fields DEF TransferCommit, Inv, TypeOK
<1>2. holder[t0] = r /\ (op[r].status # status[t0] => LinksOn(t0) = {})
  BY <1>1 DEF Inv, ChangeKnows
<1>3. /\ End(r) /\ UNCHANGED <<loanOf, total, amount, link, used>>
      /\ status' = [status EXCEPT ![t0] = op[r].status]
  BY DEF TransferCommit
<1>4. \A t \in Transfers : t # t0 => status'[t] = status[t] BY <1>3 DEF Inv, TypeOK
<1>5. TablesOK' BY <1>1, <1>3 DEF Inv, TypeOK, TablesOK
<1>6. UnusedInv' BY <1>3 DEF Inv, UnusedInv
<1>7. LinkedPaymentsValid'
  BY <1>1, <1>2, <1>3, <1>4, LinkFields DEF Inv, TypeOK, LinkedPaymentsValid, LinksOn
<1>8. /\ \A i \in Installments : LinksOf(i)' = LinksOf(i)
      /\ \A t \in Transfers : LinksOn(t)' = LinksOn(t)
  BY <1>3 DEF LinksOf, LinksOn
<1>9. QED BY <1>2, <1>3, <1>4, <1>5, <1>6, <1>7, <1>8, EndKeeps DEF Exists

\* A transfer that is not eligible yet has no link.
LEMMA StatusKeeps ==
  ASSUME Inv, NEW t \in Transfers, status[t] \in {"new", "future"}, NEW s \in Statuses,
         status' = [status EXCEPT ![t] = s], amount' \in [Transfers -> Amounts],
         UNCHANGED <<loanOf, total, link, used, holder, op>>
  PROVE  Inv'
<1>1. \A q \in Transfers : q # t => status'[q] = status[q] BY DEF Inv, TypeOK
<1>2. LinksOn(t) = {} BY DEF Inv, LinkedPaymentsValid, LinksOn
<1>3. TypeOK' BY DEF Inv, TypeOK
<1>4. ASSUME NEW r \in Requests PROVE LinkKnows(op[r], r)' /\ ChangeKnows(op[r], r)'
  BY <1>1, <1>2, Fields DEF Inv, LinkKnows, ChangeKnows, Exists, LinksOn, LinksOf
<1>5. UnusedInv' /\ LinkedPaymentsValid'
  BY <1>1, <1>2, LinkFields DEF Inv, UnusedInv, LinkedPaymentsValid, LinksOn
<1>6. QED BY <1>3, <1>4, <1>5 DEF Inv

----------------------------------------------------------------------------
(***************************************************************************)
(* Every step.                                                             *)
(***************************************************************************)
LEMMA RequestStepKeeps == ASSUME Inv, NEW r \in Requests, RequestStep(r) PROVE Inv'
<1>1. CASE Rollback(r) BY <1>1, EmptyEndKeeps DEF Rollback
<1>2. CASE LinkExisting(r) BY <1>2, EmptyEndKeeps DEF LinkExisting
<1>3. CASE Begin(r) \/ LockNext(r) BY <1>3, BeginKeeps, LockNextKeeps
<1>4. CASE LinkCheck(r) \/ InstallmentCheck(r) \/ TransferCheck(r)
  BY <1>4, LinkCheckKeeps, InstallmentCheckKeeps, TransferCheckKeeps
<1>5. CASE LinkCommit(r) \/ UnlinkCommit(r) BY <1>5, LinkCommitKeeps, UnlinkCommitKeeps
<1>6. CASE AddCommit(r) \/ InstallmentCommit(r) \/ TransferCommit(r)
  BY <1>6, AddCommitKeeps, InstallmentCommitKeeps, TransferCommitKeeps
<1>7. QED BY <1>1, <1>2, <1>3, <1>4, <1>5, <1>6 DEF RequestStep

LEMMA StepKeeps == ASSUME Inv, [Next]_vars PROVE Inv'
<1>1. ASSUME NEW t \in Transfers, NEW s \in Statuses, NEW n \in Amounts, CreateTransfer(t, s, n)
      PROVE  Inv'
  <2>1. amount' \in [Transfers -> Amounts] BY <1>1 DEF CreateTransfer, Inv, TypeOK
  <2>2. QED BY <1>1, <2>1, StatusKeeps DEF CreateTransfer
<1>2. ASSUME NEW t \in Transfers, DayComes(t) PROVE Inv'
  <2>1. amount' \in [Transfers -> Amounts] BY <1>2 DEF DayComes, Inv, TypeOK
  <2>2. QED BY <1>2, <2>1, StatusKeeps DEF DayComes, Statuses
<1>3. CASE UNCHANGED vars
  BY <1>3 DEF vars, Inv, TypeOK, LinkKnows, ChangeKnows, Exists, LinksOn, LinksOf, UnusedInv,
              LinkedPaymentsValid
<1>4. QED BY <1>1, <1>2, <1>3, RequestStepKeeps DEF Next

\* The inductive invariant holds in every state.
THEOREM Invariance == Spec => []Inv
BY InitInv, StepKeeps, PTL DEF Spec

\* Every variable keeps its type.
THEOREM TypeCorrect == Spec => []TypeOK
<1>1. Inv => TypeOK BY DEF Inv
<1>2. QED BY <1>1, Invariance, PTL

\* Whatever requests run at the same time, a linked payment is an eligible
\* transfer that pays one existing installment.
THEOREM PaymentsValid == Spec => []LinkedPaymentsValid
<1>1. Inv => LinkedPaymentsValid BY DEF Inv
<1>2. QED BY <1>1, Invariance, PTL

LinkedRowsKept ==
  \A k \in Links : link[k] # None /\ link'[k] # None =>
    /\ status'[link[k].transfer] = status[link[k].transfer]
    /\ total'[link[k].installment] = total[link[k].installment]

LEMMA StepKeepsLinkedRows == ASSUME Inv, [Next]_vars PROVE LinkedRowsKept
<1> SUFFICES ASSUME NEW k \in Links, link[k] # None
             PROVE  /\ status'[link[k].transfer] = status[link[k].transfer]
                    /\ total'[link[k].installment] = total[link[k].installment]
  BY DEF LinkedRowsKept
<1> DEFINE i0 == link[k].installment
           t0 == link[k].transfer
<1>1. /\ i0 \in Installments /\ t0 \in Transfers /\ k \in LinksOf(i0) /\ k \in LinksOn(t0)
      /\ status[t0] = "eligible" /\ total[i0] > 0 /\ loanOf[i0] # None
  BY LinkFields DEF LinksOf, LinksOn, Inv, LinkedPaymentsValid, UnusedInv
<1> HIDE DEF i0, t0
<1>2. ASSUME NEW t \in Transfers, NEW s \in Statuses, NEW n \in Amounts, CreateTransfer(t, s, n)
      PROVE  status'[t0] = status[t0] /\ total'[i0] = total[i0]
  BY <1>1, <1>2 DEF CreateTransfer, Inv, TypeOK
<1>3. ASSUME NEW t \in Transfers, DayComes(t)
      PROVE  status'[t0] = status[t0] /\ total'[i0] = total[i0]
  BY <1>1, <1>3 DEF DayComes, Inv, TypeOK
<1>4. ASSUME NEW r \in Requests, RequestStep(r)
      PROVE  status'[t0] = status[t0] /\ total'[i0] = total[i0]
  <2>1. CASE AddCommit(r) BY <1>1, <2>1 DEF AddCommit, Inv, TypeOK
  <2>2. CASE InstallmentCommit(r)
    BY <1>1, <2>2, Fields DEF InstallmentCommit, Inv, TypeOK, ChangeKnows
  <2>3. CASE TransferCommit(r)
    BY <1>1, <2>3, Fields DEF TransferCommit, Inv, TypeOK, ChangeKnows
  <2>4. CASE ~AddCommit(r) /\ ~InstallmentCommit(r) /\ ~TransferCommit(r)
    <3>1. UNCHANGED <<status, total>>
      BY <1>4, <2>4 DEF RequestStep, Begin, LockNext, Lock, Rollback, LinkCheck, LinkExisting,
           LinkCommit, UnlinkCommit, InstallmentCheck, TransferCheck, Checked, tables
    <3>2. QED BY <3>1
  <2>5. QED BY <2>1, <2>2, <2>3, <2>4
<1>5. CASE UNCHANGED vars BY <1>5 DEF vars
<1>6. QED BY <1>2, <1>3, <1>4, <1>5 DEF Next, i0, t0

\* While a payment is linked, nothing changes its transfer or its installment.
THEOREM RowsFrozen == Spec => LinkedRowsFrozen
<1>1. Inv /\ [Next]_vars => [LinkedRowsKept]_vars BY StepKeepsLinkedRows
<1>2. QED BY <1>1, Invariance, PTL DEF Spec, LinkedRowsFrozen, LinkedRowsKept

----------------------------------------------------------------------------
(***************************************************************************)
(* What is paid.  A request that is about to link a transfer has seen that *)
(* it fits, and that stays so: the installment, which it has locked, gets  *)
(* no other link and keeps its total, and a transfer that exists keeps its *)
(* amount.                                                                 *)
(***************************************************************************)
FitsStill ==
  \A r \in Requests : op[r].kind = "linking" => Fits(op[r].installment, op[r].transfer)

PaidInv == IsFiniteSet(used) /\ PaidWithinTotal /\ FitsStill

\* The amounts of the links of an installment, and their sum.
LEMMA PaidIsSum ==
  ASSUME Inv, IsFiniteSet(used), NEW i \in Installments
  PROVE  /\ IsFiniteSet(LinksOf(i))
         /\ \A k \in LinksOf(i) : amount[link[k].transfer] \in Nat
         /\ Paid(i) = SumFunctionOnSet([k \in LinksOf(i) |-> amount[link[k].transfer]], LinksOf(i))
         /\ Paid(i) \in Nat
<1> DEFINE f == [k \in LinksOf(i) |-> amount[link[k].transfer]]
<1>1. IsFiniteSet(LinksOf(i))
  <2>1. LinksOf(i) \subseteq used
    BY DEF Inv, UnusedInv, LinksOf
  <2> QED
    BY <2>1, FS_Subset
<1>2. \A k \in LinksOf(i) : amount[link[k].transfer] \in Nat
  BY LinkFields, BoundAssumption DEF Inv, TypeOK, Amounts, LinksOf
<1>3. \A k \in LinksOf(i) : f[k] \in Nat
  BY <1>2
<1>4. Paid(i) = SumFunctionOnSet(f, LinksOf(i))
  BY DEF Paid, SumFunction
<1> HIDE DEF f
<1>5. SumFunctionOnSet(f, LinksOf(i)) \in Nat
  BY <1>1, <1>3, SumType
<1> QED
  BY <1>1, <1>2, <1>4, <1>5 DEF f

\* Less is paid when links go, and the transfers of the others keep their amounts.
LEMMA PaidLess ==
  ASSUME Inv, IsFiniteSet(used), NEW i \in Installments,
         \A k \in Links : link'[k] \in {link[k], None},
         \A k \in Links : link[k] # None => amount'[link[k].transfer] = amount[link[k].transfer]
  PROVE  Paid(i)' \in Nat /\ Paid(i)' <= Paid(i)
<1> DEFINE S == LinksOf(i)
           T == LinksOf(i)'
           f == [k \in S |-> amount[link[k].transfer]]
           g == [k \in T |-> amount'[link'[k].transfer]]
<1>1. T \subseteq S /\ \A k \in T : g[k] = f[k]
  BY DEF LinksOf
<1>2. /\ IsFiniteSet(S) /\ IsFiniteSet(T)
      /\ \A k \in S : f[k] \in Nat
      /\ Paid(i) = SumFunctionOnSet(f, S)
  BY <1>1, PaidIsSum, FS_Subset
<1>3. Paid(i)' = SumFunctionOnSet(g, T)
  BY DEF Paid, SumFunction
<1> HIDE DEF S, T, f, g
<1>4. SumFunctionOnSet(g, T) = SumFunctionOnSet(f, T)
  BY <1>1, <1>2, SumEqual
<1>5. SumFunctionOnSet(f, T) <= SumFunctionOnSet(f, S) /\ SumFunctionOnSet(f, T) \in Nat
  BY <1>1, <1>2, SumOfPart, SumType
<1> QED
  BY <1>2, <1>3, <1>4, <1>5

LEMMA InitPaid == ASSUME Init PROVE PaidInv
<1>1. \A i \in Installments : LinksOf(i) = {} /\ total[i] = 0
  BY DEF Init, LinksOf
<1>2. \A i \in Installments : Paid(i) = 0
  <2> SUFFICES ASSUME NEW i \in Installments PROVE Paid(i) = 0
    OBVIOUS
  <2> DEFINE f == [k \in LinksOf(i) |-> amount[link[k].transfer]]
  <2>1. Paid(i) = SumFunctionOnSet(f, {})
    BY <1>1 DEF Paid, SumFunction
  <2> HIDE DEF f
  <2> QED
    BY <2>1, SumEmpty
<1>3. FitsStill
  BY DEF Init, FitsStill, Idle
<1>4. IsFiniteSet(used)
  BY FS_EmptySet DEF Init
<1> QED
  BY <1>1, <1>2, <1>3, <1>4 DEF PaidInv, PaidWithinTotal

\* Steps that link nothing.
LEMMA LessPaid ==
  ASSUME Inv, Inv', PaidInv, UNCHANGED used,
         \A k \in Links : link'[k] \in {link[k], None},
         \A k \in Links : link[k] # None => amount'[link[k].transfer] = amount[link[k].transfer],
         \A i \in Installments : total'[i] = total[i] \/ LinksOf(i) = {},
         \A r \in Requests : op'[r].kind = "linking" =>
           /\ Fits(op'[r].installment, op'[r].transfer)
           /\ total'[op'[r].installment] = total[op'[r].installment]
           /\ amount'[op'[r].transfer] = amount[op'[r].transfer]
  PROVE  PaidInv'
<1>1. IsFiniteSet(used)
  BY DEF PaidInv
<1>2. \A i \in Installments : /\ Paid(i) \in Nat /\ Paid(i)' \in Nat /\ Paid(i)' <= Paid(i)
                              /\ total[i] \in Nat /\ total'[i] \in Nat
  <2>1. \A i \in Installments : total[i] \in Nat /\ total'[i] \in Nat
    BY BoundAssumption DEF Inv, TypeOK
  <2>2. \A i \in Installments : Paid(i)' \in Nat /\ Paid(i)' <= Paid(i)
    BY <1>1, PaidLess
  <2>3. \A i \in Installments : Paid(i) \in Nat
    BY <1>1, PaidIsSum
  <2> QED
    BY <2>1, <2>2, <2>3
<1>3. ASSUME NEW i \in Installments PROVE Paid(i)' <= total'[i]
  <2>1. CASE total'[i] = total[i]
    BY <1>2, <2>1 DEF PaidInv, PaidWithinTotal
  <2>2. CASE LinksOf(i) = {}
    <3> DEFINE f == [k \in LinksOf(i) |-> amount[link[k].transfer]]
    <3>1. Paid(i) = SumFunctionOnSet(f, {})
      BY <2>2 DEF Paid, SumFunction
    <3>2. Paid(i) = 0
      <4> HIDE DEF f
      <4> QED
        BY <3>1, SumEmpty
    <3> QED
      BY <1>2, <3>2
  <2> QED
    BY <2>1, <2>2
<1>4. ASSUME NEW r \in Requests, op'[r].kind = "linking"
      PROVE  Fits(op[r].installment, op[r].transfer)'
  <2>1. PICK i \in Installments, t \in Transfers : i = op'[r].installment /\ t = op'[r].transfer
    BY <1>4, Fields DEF Inv, TypeOK
  <2>2. amount[t] \in Nat
    BY <2>1, BoundAssumption DEF Inv, TypeOK, Amounts
  <2>3. /\ Paid(i) + amount[t] <= total[i]
        /\ total'[i] = total[i] /\ amount'[t] = amount[t]
    BY <1>4, <2>1 DEF Fits
  <2>4. Paid(i)' = Paid(op[r].installment)'
    BY <2>1 DEF Paid, LinksOf
  <2>5. Paid(i)' \in Nat /\ Paid(i)' <= Paid(i)
    BY <1>2
  <2>6. Paid(i) \in Nat /\ total[i] \in Nat
    BY <1>2, <2>1
  <2> QED
    BY <2>1, <2>2, <2>3, <2>4, <2>5, <2>6 DEF Fits
<1> QED
  BY <1>1, <1>3, <1>4 DEF PaidInv, PaidWithinTotal, FitsStill

\* The transfer fits, the link makes it part of what is paid, and no other
\* request is about to link one to the installment.
LEMMA LinkCommitPaid ==
  ASSUME Inv, Inv', PaidInv, NEW r \in Requests, LinkCommit(r)
  PROVE  PaidInv'
<1>0. op[r].kind = "linking"
  BY DEF LinkCommit
<1>1. PICK i0 \in Installments, t0 \in Transfers : i0 = op[r].installment /\ t0 = op[r].transfer
  BY <1>0, Fields DEF Inv, TypeOK
<1> DEFINE p == [transfer |-> t0, installment |-> i0]
<1>2. holder[i0] = r
  BY <1>1, <1>0 DEF Inv, LinkKnows
<1>3. PICK k \in Links \ used :
        used' = used \cup {k} /\ link' = [link EXCEPT ![k] = p]
  BY <1>1 DEF LinkCommit
<1>4. End(r) /\ UNCHANGED <<loanOf, total, status, amount>>
  BY DEF LinkCommit
<1>5. p \in Payment /\ p # None /\ p.transfer = t0 /\ p.installment = i0 /\ link[k] = None
  BY <1>3, NamesAssumption DEF Payment, Inv, UnusedInv
<1>6. Paid(i0) + amount[t0] <= total[i0]
  BY <1>1, <1>0 DEF PaidInv, FitsStill, Fits
<1> HIDE DEF p
<1>7. link'[k] = p /\ \A j \in Links : j # k => link'[j] = link[j]
  BY <1>3 DEF Inv, TypeOK
<1>8. IsFiniteSet(used) /\ IsFiniteSet(used')
  BY <1>3, FS_AddElement DEF PaidInv
<1>9. ASSUME NEW i \in Installments, i # i0 PROVE Paid(i)' = Paid(i)
  <2>1. LinksOf(i)' = LinksOf(i) /\ \A j \in LinksOf(i) : j # k /\ link'[j] = link[j]
    BY <1>5, <1>7, <1>9 DEF LinksOf
  <2>2. [j \in LinksOf(i) |-> amount[link[j].transfer]]'
          = [j \in LinksOf(i) |-> amount[link[j].transfer]]
    BY <1>4, <2>1
  <2> QED
    BY <2>2 DEF Paid
<1>10. Paid(i0)' = amount[t0] + Paid(i0)
  <2> DEFINE S == LinksOf(i0)
             f == [j \in S |-> amount[link[j].transfer]]
             g == [j \in LinksOf(i0)' |-> amount'[link'[j].transfer]]
  <2>1. LinksOf(i0)' = S \cup {k} /\ k \notin S /\ \A j \in S : j # k /\ link'[j] = link[j]
    BY <1>3, <1>5, <1>7 DEF LinksOf
  <2>2. g[k] = amount[t0] /\ \A j \in S : g[j] = f[j]
    BY <1>4, <1>5, <1>7, <2>1
  <2>3. IsFiniteSet(S) /\ Paid(i0) = SumFunctionOnSet(f, S) /\ \A j \in S : f[j] \in Nat
    BY <1>0, <1>8, PaidIsSum
  <2>4. amount[t0] \in Nat
    BY <1>0, BoundAssumption DEF Inv, TypeOK, Amounts
  <2>5. Paid(i0)' = SumFunctionOnSet(g, S \cup {k})
    BY <2>1 DEF Paid, SumFunction
  <2> HIDE DEF f, g, S
  <2>6. SumFunctionOnSet(g, S \cup {k}) = g[k] + SumFunctionOnSet(g, S)
    BY <2>1, <2>2, <2>3, <2>4, SumInsert
  <2>7. SumFunctionOnSet(g, S) = SumFunctionOnSet(f, S)
    BY <2>2, <2>3, SumEqual
  <2> QED
    BY <2>2, <2>3, <2>5, <2>6, <2>7
<1>11. PaidWithinTotal'
  <2>1. Paid(i0) \in Nat /\ amount[t0] \in Nat /\ total[i0] \in Nat
    <3>1. Paid(i0) \in Nat
      BY <1>8, PaidIsSum
    <3> QED
      BY <3>1, BoundAssumption DEF Inv, TypeOK, Amounts
  <2>2. Paid(i0)' <= total[i0]
    BY <1>6, <1>10, <2>1
  <2>3. ASSUME NEW i \in Installments PROVE Paid(i)' <= total'[i]
    <3>1. CASE i = i0
      BY <1>4, <2>2, <3>1
    <3>2. CASE i # i0
      BY <1>4, <1>9, <3>2 DEF PaidInv, PaidWithinTotal
    <3> QED
      BY <3>1, <3>2
  <2> QED
    BY <2>3 DEF PaidWithinTotal
<1>12. FitsStill'
  <2> SUFFICES ASSUME NEW q \in Requests, op'[q].kind = "linking"
               PROVE  Fits(op[q].installment, op[q].transfer)'
    BY DEF FitsStill
  <2>1. q # r /\ op'[q] = op[q]
    BY <1>4 DEF End, Idle, Inv, TypeOK
  <2>2. op[q].installment \in Installments /\ op[q].installment # i0
    BY <1>2, <2>1, Fields DEF Inv, TypeOK, LinkKnows
  <2>3. Paid(op[q].installment)' = Paid(op[q].installment)
    BY <1>9, <2>1, <2>2
  <2>4. Fits(op[q].installment, op[q].transfer)
    BY <2>1 DEF PaidInv, FitsStill
  <2> QED
    BY <1>4, <2>1, <2>3, <2>4 DEF Fits
<1> QED
  BY <1>8, <1>11, <1>12 DEF PaidInv

\* The other steps of a request.
LEMMA RequestStepPaid ==
  ASSUME Inv, Inv', PaidInv, NEW r \in Requests, RequestStep(r)
  PROVE  PaidInv'
<1>1. /\ op \in [Requests -> OperationType] /\ link \in [Links -> Payment \cup {None}]
      /\ total \in [Installments -> 0..MaxAmount]
  BY DEF Inv, TypeOK
<1>2. FitsStill
  BY DEF PaidInv
<1>3. CASE LinkCommit(r)
  BY <1>3, LinkCommitPaid
<1>4. CASE UNCHANGED tables
  <2>1. \A q \in Requests : op'[q].kind = "linking" => Fits(op'[q].installment, op'[q].transfer)
    <3>1. CASE Begin(r)
      <4>1. PICK o \in Operations : \E s : op' = [op EXCEPT ![r] = [o EXCEPT !.todo = s]]
        BY <3>1 DEF Begin, Operations, Lock
      <4>2. o.kind # "linking" /\ \A s : [o EXCEPT !.todo = s].kind = o.kind
        BY DEF Operations, LinkRequests, UnlinkRequests, AddRequests, InstallmentRequests, TransferRequests
      <4> QED
        BY <1>1, <1>2, <4>1, <4>2 DEF FitsStill
    <3>2. CASE LockNext(r)
      <4>1. PICK s : op' = [op EXCEPT ![r] = [op[r] EXCEPT !.todo = s]] /\ op[r].todo # <<>>
                     /\ s = IF Head(op[r].todo) \in Links
                             THEN Append(Tail(op[r].todo), link[Head(op[r].todo)].installment)
                             ELSE Tail(op[r].todo)
        BY <3>2 DEF LockNext, Lock
      <4>2. op[r] \in OperationType /\ s \in Seq(Rows)
        BY <1>1, <3>2, <4>1, Remaining DEF LockNext, Lock
      <4>3. op'[r] = [op[r] EXCEPT !.todo = s]
        BY <1>1, <4>1
      <4>4. /\ op'[r].kind = op[r].kind
            /\ op[r].kind = "linking" =>
                 op'[r].installment = op[r].installment /\ op'[r].transfer = op[r].transfer
        BY <4>2, <4>3, TodoChanges
      <4> QED
        BY <1>1, <1>2, <4>1, <4>4 DEF FitsStill
    <3>3. CASE LinkCheck(r)
      <4>1. op'[r] = [op[r] EXCEPT !.kind = "linking"] /\ op[r].kind = "link"
            /\ \A q \in Requests : q # r => op'[q] = op[q]
        BY <1>1, <3>3 DEF LinkCheck, Checked, Locked
      <4>2. op'[r].installment = op[r].installment /\ op'[r].transfer = op[r].transfer
        BY <1>1, <4>1, KindChanges
      <4>3. Fits(op[r].installment, op[r].transfer)
        BY <3>3 DEF LinkCheck
      <4> QED
        BY <1>2, <4>1, <4>2, <4>3 DEF FitsStill
    <3>4. CASE InstallmentCheck(r) \/ TransferCheck(r)
      <4>1. PICK kind \in {"changing", "moving"} : op' = [op EXCEPT ![r].kind = kind]
        BY <3>4 DEF InstallmentCheck, TransferCheck, Checked
      <4>2. op'[r].kind # "linking"
        <5>1. op'[r] = [op[r] EXCEPT !.kind = kind]
          BY <1>1, <4>1
        <5>2. \/ op[r].kind = "installment" /\ kind = "changing"
              \/ op[r].kind = "transfer" /\ kind = "moving"
          BY <1>1, <3>4, <4>1, <5>1 DEF InstallmentCheck, TransferCheck, Checked, Locked, OperationType
        <5>3. op[r] \in OperationType
          BY <1>1
        <5> QED
          BY <5>1, <5>2, <5>3, KindChanges
      <4> QED
        BY <1>1, <1>2, <4>1, <4>2 DEF FitsStill
    <3>5. CASE End(r)
      BY <1>1, <1>2, <3>5 DEF End, Idle, FitsStill
    <3> QED
      <4>1. Begin(r) \/ LockNext(r) \/ LinkCheck(r) \/ InstallmentCheck(r) \/ TransferCheck(r) \/ End(r)
        BY DEF RequestStep, Rollback, LinkExisting, LinkCommit, UnlinkCommit, AddCommit,
               InstallmentCommit, TransferCommit
      <4> QED
        BY <3>1, <3>2, <3>3, <3>4, <3>5, <4>1
  <2> QED
    BY <1>4, <2>1, LessPaid DEF tables
<1>5. CASE UnlinkCommit(r) \/ AddCommit(r) \/ InstallmentCommit(r) \/ TransferCommit(r)
  <2>1. /\ End(r) /\ UNCHANGED <<amount, used>>
        /\ \A k \in Links : link'[k] \in {link[k], None}
    BY <1>1, <1>5 DEF UnlinkCommit, AddCommit, InstallmentCommit, TransferCommit
  <2>2. ASSUME NEW i \in Installments
        PROVE  \/ total'[i] = total[i]
               \/ /\ LinksOf(i) = {}
                  /\ ~Exists(i) \/ holder[i] = r
    <3>1. CASE UnlinkCommit(r) \/ TransferCommit(r)
      BY <3>1 DEF UnlinkCommit, TransferCommit
    <3>2. CASE AddCommit(r)
      BY <1>1, <3>2 DEF AddCommit, Exists, LinksOf, Inv, UnusedInv
    <3>3. CASE InstallmentCommit(r)
      BY <1>1, <3>3 DEF InstallmentCommit, Inv, ChangeKnows
    <3> QED
      BY <1>5, <3>1, <3>2, <3>3
  <2>3. ASSUME NEW q \in Requests, op'[q].kind = "linking"
        PROVE  /\ Fits(op'[q].installment, op'[q].transfer)
               /\ total'[op'[q].installment] = total[op'[q].installment]
    <3>1. q # r /\ op'[q] = op[q]
      BY <1>1, <2>1, <2>3 DEF End, Idle
    <3>2. op[q].installment \in Installments /\ Exists(op[q].installment)
          /\ holder[op[q].installment] = q
      BY <1>1, <2>3, <3>1, Fields DEF Inv, LinkKnows
    <3> QED
      BY <1>2, <2>2, <2>3, <3>1, <3>2 DEF FitsStill
  <2> QED
    BY <2>1, <2>2, <2>3, LessPaid
<1> QED
  <2>1. \/ LinkCommit(r) \/ UNCHANGED tables
        \/ UnlinkCommit(r) \/ AddCommit(r) \/ InstallmentCommit(r) \/ TransferCommit(r)
    BY DEF RequestStep, Begin, LockNext, Lock, Rollback, LinkCheck, LinkExisting, InstallmentCheck,
           TransferCheck, Checked
  <2> QED
    BY <1>3, <1>4, <1>5, <2>1

LEMMA StepPaid == ASSUME Inv, Inv', PaidInv, [Next]_vars PROVE PaidInv'
<1>1. \A k \in Links : link[k] # None => status[link[k].transfer] = "eligible"
  BY DEF Inv, LinkedPaymentsValid
<1>2. \A r \in Requests : op[r].kind = "linking" =>
        status[op[r].transfer] = "eligible" /\ Fits(op[r].installment, op[r].transfer)
  BY DEF Inv, LinkKnows, PaidInv, FitsStill
<1>3. ASSUME NEW t \in Transfers, NEW s \in Statuses, NEW n \in Amounts, CreateTransfer(t, s, n)
      PROVE  PaidInv'
  <2>1. /\ status[t] = "new" /\ UNCHANGED <<loanOf, total, link, used, holder, op>>
        /\ \A x : x # t => amount'[x] = amount[x]
    BY <1>3 DEF CreateTransfer, Inv, TypeOK
  <2> QED
    BY <1>1, <1>2, <2>1, LessPaid
<1>4. CASE UNCHANGED <<loanOf, total, amount, link, used, holder, op>>
  BY <1>2, <1>4, LessPaid
<1>5. ASSUME NEW r \in Requests, RequestStep(r) PROVE PaidInv'
  BY <1>5, RequestStepPaid
<1> QED
  BY <1>3, <1>4, <1>5 DEF Next, vars, DayComes

\* However many payments are linked at the same time, no installment is paid
\* more than its total (link_loan_payment under the lock of the installment).
THEOREM NeverOverpaid == Spec => []PaidWithinTotal
<1>1. Init => PaidInv
  BY InitPaid
<1>2. Inv /\ Inv' /\ PaidInv /\ [Next]_vars => PaidInv'
  BY StepPaid
<1>3. PaidInv => PaidWithinTotal
  BY DEF PaidInv
<1> QED
  BY <1>1, <1>2, <1>3, Invariance, PTL DEF Spec

----------------------------------------------------------------------------
(***************************************************************************)
(* The order of the locks: a request waits only for requests that are      *)
(* further than it is, so the one that is furthest waits for none.         *)
(***************************************************************************)

\* What a request at operation o still has to lock, once it has its first lock.
Ordered(o, r) ==
  /\ o.kind \in {"link", "linking", "unlink"} => holder[o.loan] = r
  /\ o.kind = "link" => o.todo \in {<<o.installment, o.transfer>>, <<o.transfer>>, <<>>}
  /\ o.kind = "unlink" =>
       \/ o.todo \in {<<o.link>>, <<>>}
       \/ \E i \in Installments : o.todo = <<i>> /\ loanOf[i] = o.loan
  /\ o.kind \notin {"link", "unlink"} => o.todo = <<>>

\* The rows that it can have locked by then.
MayHold(o, x) ==
  \/ x \in Loans
  \/ /\ x \in Installments
     /\ \/ o.kind \in {"installment", "changing", "linking"}
        \/ o.kind = "link" /\ o.todo \in {<<o.transfer>>, <<>>} /\ loanOf[x] = o.loan
        \/ o.kind = "unlink" /\ o.todo = <<>>
  \/ /\ x \in Transfers
     /\ \/ o.kind \in {"transfer", "moving", "linking"}
        \/ o.kind = "link" /\ o.todo = <<>>
  \/ x \in Links /\ o.kind = "unlink" /\ o.todo # <<o.link>>

InOrder(r) ==
  /\ Ordered(op[r], r)
  /\ \A x \in Rows : holder[x] = r => op[r] # Idle /\ MayHold(op[r], x)

OrderInv == Inv /\ \A r \in Requests : InOrder(r)

LEMMA MoreTuples ==
  /\ \A a, b : <<a>> = <<b>> => a = b
  /\ \A a : Append(<<>>, a) = <<a>> /\ Head(<<a>>) = a /\ Tail(<<a>>) = <<>>
OBVIOUS

\* What a request does to its own locks keeps the order of the others.
LEMMA OthersInOrder ==
  ASSUME Inv, Inv', NEW r \in Requests, NEW q \in Requests, q # r, InOrder(q), op'[q] = op[q],
         \A x \in Rows : (holder[x] = q) <=> (holder'[x] = q),
         \A i \in Installments : loanOf[i] # None => loanOf'[i] = loanOf[i]
  PROVE  InOrder(q)'
<1>1. /\ op[q] \in OperationType
      /\ op[q].kind \in {"link", "linking", "unlink"} => op[q].loan \in Loans /\ op[q].loan \in Rows
  BY Fields DEF Inv, TypeOK, Rows
<1>2. op[q].kind \in {"link", "linking", "unlink"} => op[q].loan # None
  BY <1>1, NamesAssumption
<1>3. Ordered(op[q], q)' BY <1>1, <1>2 DEF InOrder, Ordered
<1>4. ASSUME NEW x \in Rows, holder'[x] = q PROVE op'[q] # Idle /\ MayHold(op[q], x)'
  BY <1>1, <1>2, <1>4 DEF InOrder, MayHold
<1>5. QED BY <1>3, <1>4 DEF InOrder

\* A request takes one more lock.
LEMMA LockInOrder ==
  ASSUME OrderInv, Inv', NEW r \in Requests, NEW x \in Rows,
         holder[x] \in {None, r}, holder' = [holder EXCEPT ![x] = r],
         \A q \in Requests : q # r => op'[q] = op[q],
         UNCHANGED tables, op'[r].kind # "idle",
         Ordered(op[r], r)', MayHold(op[r], x)',
         \A y \in Rows : holder[y] = r => MayHold(op[r], y)'
  PROVE  OrderInv'
<1>1. \A y \in Rows : holder'[y] = IF y = x THEN r ELSE holder[y]
  BY DEF OrderInv, Inv, TypeOK
<1>2. InOrder(r)' BY <1>1 DEF InOrder, Idle
<1>3. ASSUME NEW q \in Requests, q # r PROVE InOrder(q)'
  <2>1. \A y \in Rows : (holder[y] = q) <=> (holder'[y] = q)
    BY <1>1, <1>3, NamesAssumption
  <2>2. QED BY <1>3, <2>1, OthersInOrder DEF OrderInv, tables
<1>4. QED BY <1>2, <1>3 DEF OrderInv

\* A request ends, and may have written a row of an installment that had no loan.
LEMMA EndInOrder ==
  ASSUME OrderInv, Inv', NEW r \in Requests, End(r),
         \A i \in Installments : loanOf[i] # None => loanOf'[i] = loanOf[i]
  PROVE  OrderInv'
<1>1. op'[r] = Idle /\ \A q \in Requests : q # r => op'[q] = op[q]
  BY DEF OrderInv, Inv, TypeOK, End
<1>2. \A y \in Rows : holder'[y] = IF holder[y] = r THEN None ELSE holder[y]
  BY DEF End
<1>3. InOrder(r)' BY <1>1, <1>2, NamesAssumption DEF InOrder, Ordered, Idle
<1>4. ASSUME NEW q \in Requests, q # r PROVE InOrder(q)'
  <2>1. \A y \in Rows : (holder[y] = q) <=> (holder'[y] = q)
    BY <1>2, <1>4, NamesAssumption
  <2>2. QED BY <1>1, <1>4, <2>1, OthersInOrder DEF OrderInv
<1>5. QED BY <1>3, <1>4 DEF OrderInv

\* A request has checked what it has locked.
LEMMA CheckInOrder ==
  ASSUME OrderInv, Inv', NEW r \in Requests,
         LinkCheck(r) \/ InstallmentCheck(r) \/ TransferCheck(r)
  PROVE  OrderInv'
<1>1. PICK kind :
        /\ <<op[r].kind, kind>> \in {<<"link", "linking">>, <<"installment", "changing">>,
                                     <<"transfer", "moving">>}
        /\ op[r].todo = <<>> /\ Checked(r, kind)
  BY DEF LinkCheck, InstallmentCheck, TransferCheck, Locked
<1>2. op[r] \in OperationType /\ op'[r] = [op[r] EXCEPT !.kind = kind]
      /\ \A q \in Requests : q # r => op'[q] = op[q]
  BY <1>1 DEF OrderInv, Inv, TypeOK, Checked
<1>3. /\ op'[r].kind = kind /\ op'[r].todo = <<>>
      /\ kind = "linking" => op'[r].loan = op[r].loan /\ op[r].kind = "link"
      /\ kind = "changing" => op[r].kind = "installment"
      /\ kind = "moving" => op[r].kind = "transfer"
      /\ kind \in {"linking", "changing", "moving"}
  BY <1>1, <1>2 DEF OperationType
<1>4. InOrder(r)'
  <2>1. Ordered(op[r], r)' BY <1>1, <1>3 DEF OrderInv, InOrder, Ordered, Checked
  <2>2. \A x \in Rows : holder[x] = r => MayHold(op[r], x) BY DEF OrderInv, InOrder
  <2>3. \A x \in Rows : holder'[x] = r => op'[r] # Idle /\ MayHold(op[r], x)'
    BY <1>1, <1>3, <2>2 DEF MayHold, Checked, tables, Idle
  <2>4. QED BY <2>1, <2>3 DEF InOrder
<1>5. \A q \in Requests : q # r => InOrder(q)'
  BY <1>1, <1>2, OthersInOrder DEF OrderInv, Checked, tables
<1>6. QED BY <1>4, <1>5 DEF OrderInv

\* The first lock.
LEMMA BeginInOrder == ASSUME OrderInv, Inv', NEW r \in Requests, Begin(r) PROVE OrderInv'
<1>1. PICK o \in Operations : Lock(r, o) /\ op[r] = Idle BY DEF Begin, Operations
<1>2. \A y \in Rows : holder[y] # r BY <1>1 DEF OrderInv, InOrder
<1>3. ASSUME NEW x \in Rows, x \notin Links, o.todo # <<>>, Head(o.todo) = x,
             op'[r].kind # "idle", MayHold(op[r], x)', holder'[x] = r => Ordered(op[r], r)'
      PROVE  OrderInv'
  <2>1. /\ holder[x] \in {None, r} /\ holder' = [holder EXCEPT ![x] = r]
        /\ \A q \in Requests : q # r => op'[q] = op[q]
        /\ UNCHANGED tables
    BY <1>1, <1>3 DEF Lock, OrderInv, Inv, TypeOK
  <2>2. holder'[x] = r BY <2>1 DEF OrderInv, Inv, TypeOK
  <2>3. \A y \in Rows : holder[y] = r => MayHold(op[r], y)' BY <1>2
  <2>4. QED BY <1>3, <2>1, <2>2, <2>3, LockInOrder
<1>0. op'[r] = [o EXCEPT !.todo = IF Head(o.todo) \in Links
                                    THEN Append(Tail(@), link[Head(o.todo)].installment) ELSE Tail(@)]
  BY <1>1 DEF Lock, OrderInv, Inv, TypeOK
<1>4. CASE o \in LinkRequests
  <2>1. PICK l \in Loans, i \in Installments, t \in Transfers :
          o = [kind |-> "link", loan |-> l, installment |-> i, transfer |-> t,
               todo |-> LinkOrder(l, i, t)]
    BY <1>4 DEF LinkRequests
  <2>2. o.todo # <<>> /\ Head(o.todo) = l /\ Tail(o.todo) = <<i, t>> /\ l \in Rows /\ l \notin Links
    BY <2>1, Tuples, NamesAssumption DEF LinkOrder, Rows
  <2>3. op'[r] = [kind |-> "link", loan |-> l, installment |-> i, transfer |-> t, todo |-> <<i, t>>]
    BY <1>0, <2>1, <2>2
  <2>4. holder'[l] = r => Ordered(op[r], r)' BY <2>3 DEF Ordered
  <2>5. op'[r].kind # "idle" /\ MayHold(op[r], l)' BY <2>3 DEF MayHold
  <2>6. QED BY <1>3, <2>2, <2>4, <2>5
<1>5. CASE o \in UnlinkRequests
  <2>1. PICK l \in Loans, k \in Links :
          o = [kind |-> "unlink", loan |-> l, link |-> k, todo |-> UnlinkOrder(l, k)]
    BY <1>5 DEF UnlinkRequests
  <2>2. o.todo # <<>> /\ Head(o.todo) = l /\ Tail(o.todo) = <<k>> /\ l \in Rows /\ l \notin Links
    BY <2>1, Tuples, NamesAssumption DEF UnlinkOrder, Rows
  <2>3. op'[r] = [kind |-> "unlink", loan |-> l, link |-> k, todo |-> <<k>>]
    BY <1>0, <2>1, <2>2
  <2>4. holder'[l] = r => Ordered(op[r], r)' BY <2>3 DEF Ordered
  <2>5. op'[r].kind # "idle" /\ MayHold(op[r], l)' BY <2>3 DEF MayHold
  <2>6. QED BY <1>3, <2>2, <2>4, <2>5
<1>6. CASE o \in AddRequests \cup InstallmentRequests \cup TransferRequests
  <2>1. PICK x \in Rows :
          /\ o.todo = <<x>> /\ x \notin Links
          /\ o.kind \in {"add", "installment", "transfer"}
          /\ o.kind = "add" => x \in Loans
          /\ o.kind = "installment" => x \in Installments
          /\ o.kind = "transfer" => x \in Transfers
    BY <1>6, NamesAssumption DEF AddRequests, InstallmentRequests, TransferRequests, Rows
  <2>2. o.todo # <<>> /\ Head(o.todo) = x /\ Tail(o.todo) = <<>> BY <2>1, MoreTuples
  <2>3. op'[r].kind = o.kind /\ op'[r].todo = <<>>
    BY <1>0, <1>6, <2>1, <2>2 DEF AddRequests, InstallmentRequests, TransferRequests
  <2>4. Ordered(op[r], r)' /\ op'[r].kind # "idle" /\ MayHold(op[r], x)'
    BY <2>1, <2>3 DEF Ordered, MayHold
  <2>5. QED BY <1>3, <2>1, <2>2, <2>4
<1>7. QED BY <1>4, <1>5, <1>6 DEF Operations

\* The locks after the first.
LEMMA LockNextInOrder == ASSUME OrderInv, Inv', NEW r \in Requests, LockNext(r) PROVE OrderInv'
<1> DEFINE o == op[r]
<1>0. o \in OperationType /\ o.todo # <<>> /\ Head(o.todo) \in Rows
  BY Remaining DEF LockNext, Lock, OrderInv, Inv, TypeOK
<1>1. PICK x \in Rows :
        /\ x = Head(o.todo) /\ o.todo # <<>>
        /\ Found(o, x) /\ holder[x] \in {None, r} /\ UNCHANGED tables
        /\ holder' = [holder EXCEPT ![x] = r]
        /\ op' = [op EXCEPT ![r] =
             [o EXCEPT !.todo = IF x \in Links THEN Append(Tail(@), link[x].installment) ELSE Tail(@)]]
  BY <1>0 DEF LockNext, Lock
<1>2. o \in OperationType /\ x \in Rows BY <1>0
<1>3. /\ Ordered(o, r) /\ \A y \in Rows : holder[y] = r => MayHold(o, y)
      /\ \A q \in Requests : q # r => op'[q] = op[q]
  BY <1>1 DEF OrderInv, InOrder, Inv, TypeOK
<1>4. /\ holder'[x] = r
      /\ \A y \in Rows : holder[y] = r => holder'[y] = r
      /\ op'[r] = [o EXCEPT !.todo = IF x \in Links THEN Append(Tail(@), link[x].installment)
                                                    ELSE Tail(@)]
  BY <1>1, <1>2 DEF OrderInv, Inv, TypeOK
<1>5. CASE o.kind = "link"
  <2>1. /\ o.installment \in Installments /\ o.transfer \in Transfers /\ o.loan \in Rows
        /\ o.installment \notin Transfers \cup Links \cup Loans
        /\ o.transfer \notin Links \cup Loans \cup Installments
        /\ holder'[o.loan] = r
    BY <1>2, <1>3, <1>4, <1>5, Fields, NamesAssumption DEF Ordered, Rows
  <2>2. CASE o.todo = <<o.installment, o.transfer>>
    <3>1. x = o.installment /\ Tail(o.todo) = <<o.transfer>> BY <1>1, <2>2, Tuples
    <3>2. /\ op'[r].kind = "link" /\ op'[r].todo = <<o.transfer>> /\ op'[r].loan = o.loan
          /\ op'[r].transfer = o.transfer /\ op'[r].installment = o.installment
      BY <1>2, <1>4, <1>5, <2>1, <3>1 DEF OperationType
    <3>3. loanOf[x] = o.loan BY <1>1, <1>5, <2>1, <3>1 DEF Found
    <3> HIDE DEF o
    <3>4. Ordered(op[r], r)' BY <2>1, <3>2 DEF Ordered
    <3>5. MayHold(op[r], x)' BY <1>1, <2>1, <3>1, <3>2, <3>3 DEF MayHold, tables
    <3>6. \A y \in Rows : holder[y] = r => MayHold(op[r], y)'
      BY <1>3, <1>5, <2>2, <3>2, Tuples, MoreTuples DEF MayHold
    <3>7. QED BY <1>1, <1>2, <1>3, <3>2, <3>4, <3>5, <3>6, LockInOrder
  <2>3. CASE o.todo = <<o.transfer>>
    <3>1. x = o.transfer /\ Tail(o.todo) = <<>> BY <1>1, <2>3, Tuples
    <3>2. /\ op'[r].kind = "link" /\ op'[r].todo = <<>> /\ op'[r].loan = o.loan
          /\ op'[r].transfer = o.transfer /\ op'[r].installment = o.installment
      BY <1>2, <1>4, <1>5, <2>1, <3>1 DEF OperationType
    <3> HIDE DEF o
    <3>4. Ordered(op[r], r)' BY <2>1, <3>2 DEF Ordered
    <3>5. MayHold(op[r], x)' BY <2>1, <3>1, <3>2 DEF MayHold
    <3>6. \A y \in Rows : holder[y] = r => MayHold(op[r], y)'
      BY <1>1, <1>3, <1>5, <3>2 DEF MayHold, tables
    <3>7. QED BY <1>1, <1>2, <1>3, <3>2, <3>4, <3>5, <3>6, LockInOrder
  <2>4. QED BY <1>1, <1>3, <1>5, <2>2, <2>3 DEF Ordered
<1>6. CASE o.kind = "unlink"
  <2>1. o.link \in Links /\ o.loan \in Rows /\ holder'[o.loan] = r
    BY <1>2, <1>3, <1>4, <1>6, Fields DEF Ordered, Rows
  <2>2. CASE o.todo = <<o.link>>
    <3>1. x = o.link /\ Tail(o.todo) = <<>> BY <1>1, <2>2, Tuples
    <3>2. /\ link[x].installment \in Installments /\ loanOf[link[x].installment] = o.loan
      BY <1>1, <2>1, <3>1, LinkFields DEF Found, OrderInv, Inv
    <3>3. /\ op'[r].kind = "unlink" /\ op'[r].todo = <<link[x].installment>> /\ op'[r].loan = o.loan
          /\ op'[r].link = o.link
      <4>1. x \in Links /\ Append(Tail(o.todo), link[x].installment) = <<link[x].installment>>
        BY <2>1, <3>1, MoreTuples
      <4>2. op'[r] = [o EXCEPT !.todo = <<link[x].installment>>] BY <1>4, <4>1
      <4>3. QED BY <1>2, <1>6, <4>2 DEF OperationType
    <3>4. op'[r].todo # <<op'[r].link>>
      BY <2>1, <3>2, <3>3, MoreTuples, NamesAssumption
    <3> HIDE DEF o
    <3>5. Ordered(op[r], r)' BY <1>1, <2>1, <3>2, <3>3 DEF Ordered, tables
    <3>6. MayHold(op[r], x)' BY <2>1, <3>1, <3>3, <3>4 DEF MayHold
    <3>7. \A y \in Rows : holder[y] = r => MayHold(op[r], y)'
      BY <1>3, <1>6, <2>2, <3>3, Tuples DEF MayHold
    <3>8. QED BY <1>1, <1>2, <1>3, <3>3, <3>5, <3>6, <3>7, LockInOrder
  <2>3. CASE \E i \in Installments : o.todo = <<i>> /\ loanOf[i] = o.loan
    <3>1. PICK i \in Installments : o.todo = <<i>> BY <2>3
    <3>2. x = i /\ Tail(o.todo) = <<>> /\ x \notin Links BY <1>1, <3>1, Tuples, NamesAssumption
    <3>3. /\ op'[r].kind = "unlink" /\ op'[r].todo = <<>> /\ op'[r].loan = o.loan
          /\ op'[r].link = o.link
      BY <1>2, <1>4, <1>6, <3>2 DEF OperationType
    <3>4. <<op'[r].link>> # <<>> BY Tuples
    <3> HIDE DEF o
    <3>5. Ordered(op[r], r)' BY <2>1, <3>3 DEF Ordered
    <3>6. MayHold(op[r], x)' BY <3>2, <3>3 DEF MayHold
    <3>7. \A y \in Rows : holder[y] = r => MayHold(op[r], y)'
      BY <1>3, <1>6, <3>3, <3>4 DEF MayHold
    <3>8. QED BY <1>1, <1>2, <1>3, <3>3, <3>5, <3>6, <3>7, LockInOrder
  <2>4. QED BY <1>1, <1>3, <1>6, <2>2, <2>3 DEF Ordered
<1>7. QED BY <1>1, <1>3, <1>5, <1>6 DEF Ordered

LEMMA StepInOrder == ASSUME OrderInv, [Next]_vars PROVE OrderInv'
<1>0. Inv' BY StepKeeps DEF OrderInv
<1>1. CASE UNCHANGED <<loanOf, holder, op>>
  <2>1. ASSUME NEW q \in Requests PROVE InOrder(q)'
    BY <1>1 DEF OrderInv, InOrder, Ordered, MayHold
  <2>2. QED BY <1>0, <2>1 DEF OrderInv
<1>2. ASSUME NEW r \in Requests, RequestStep(r) PROVE OrderInv'
  <2>1. CASE \/ Rollback(r) \/ LinkExisting(r) \/ LinkCommit(r) \/ UnlinkCommit(r)
             \/ InstallmentCommit(r) \/ TransferCommit(r)
    BY <1>0, <2>1, EndInOrder DEF Rollback, LinkExisting, LinkCommit, UnlinkCommit,
      InstallmentCommit, TransferCommit, tables
  <2>2. CASE AddCommit(r)
    <3>1. \A i \in Installments : loanOf[i] # None => loanOf'[i] = loanOf[i]
      BY <2>2 DEF AddCommit, OrderInv, Inv, TypeOK
    <3>2. QED BY <1>0, <2>2, <3>1, EndInOrder DEF AddCommit
  <2>3. QED BY <1>0, <1>2, <2>1, <2>2, BeginInOrder, LockNextInOrder, CheckInOrder DEF RequestStep
<1>3. QED BY <1>1, <1>2 DEF Next, CreateTransfer, DayComes, vars

\* How far a request is with its locks.
Rank(o) ==
  IF o.kind = "link"
    THEN IF o.todo = <<o.installment, o.transfer>> THEN 1
         ELSE IF o.todo = <<o.transfer>> THEN 2 ELSE 3
    ELSE IF o.kind = "unlink" /\ o.todo = <<o.link>> THEN 4
    ELSE IF o.kind = "unlink" /\ o.todo # <<>> THEN 5 ELSE 6

LEMMA WaitsForFurther ==
  ASSUME OrderInv, NEW r \in Requests, NEW q \in Requests, WaitsFor(r, q)
  PROVE  Rank(op[r]) < Rank(op[q])
<1>1. PICK x \in Awaited(r) : holder[x] = q /\ q # r BY DEF WaitsFor
<1>2. /\ op[r] \in OperationType /\ Ordered(op[r], r) /\ op[q] \in OperationType /\ Ordered(op[q], q)
  BY DEF OrderInv, InOrder, Inv, TypeOK
<1>3. x \in Rows => MayHold(op[q], x) BY <1>1 DEF OrderInv, InOrder
<1>4. CASE op[r].kind = "link"
  <2>1. op[r].installment \in Installments /\ op[r].transfer \in Transfers
    BY <1>2, <1>4, Fields
  <2>2. CASE op[r].todo = <<op[r].installment, op[r].transfer>>
    <3>1. x = op[r].installment BY <1>1, <2>2, Tuples DEF Awaited
    <3>2. MayHold(op[q], x) /\ x \in Installments /\ x \notin Loans \cup Transfers \cup Links
      BY <1>3, <2>1, <3>1, NamesAssumption DEF Rows
    <3>3. Rank(op[r]) = 1 BY <1>4, <2>2 DEF Rank
    <3>4. Rank(op[q]) > 1 BY <3>2, Tuples, SMTT(20) DEF MayHold, Rank
    <3>5. QED BY <3>3, <3>4 DEF Rank
  <2>3. CASE op[r].todo = <<op[r].transfer>>
    <3>1. x = op[r].transfer BY <1>1, <2>3, Tuples DEF Awaited
    <3>2. MayHold(op[q], x) /\ x \in Transfers /\ x \notin Loans \cup Installments \cup Links
      BY <1>3, <2>1, <3>1, NamesAssumption DEF Rows
    <3>3. Rank(op[r]) = 2 BY <1>4, <2>3, Tuples DEF Rank
    <3>4. Rank(op[q]) > 2
      <4>1. /\ <<op[q].transfer>> # <<>> /\ <<op[q].installment, op[q].transfer>> # <<>>
        BY Tuples
      <4>2. op[q].kind = "link" => op[q].todo = <<>> BY <3>2 DEF MayHold
      <4>3. ~(op[q].kind = "unlink") BY <3>2 DEF MayHold
      <4>4. CASE op[q].kind = "link"
        <5>1. Rank(op[q]) = 3 BY <4>1, <4>2, <4>4 DEF Rank
        <5>2. QED BY <5>1
      <4>5. CASE op[q].kind # "link"
        <5>1. Rank(op[q]) = 6 BY <4>3, <4>5 DEF Rank
        <5>2. QED BY <5>1
      <4>6. QED BY <4>4, <4>5
    <3>5. QED BY <3>3, <3>4
  <2>4. CASE op[r].todo = <<>>
    <3>1. x \in Links BY <1>1, <1>4, <2>4 DEF Awaited, LinksOn
    <3>2. MayHold(op[q], x) /\ x \notin Loans \cup Installments \cup Transfers
      BY <1>3, <3>1, NamesAssumption DEF Rows
    <3>3. Rank(op[r]) = 3 BY <1>4, <2>4, Tuples DEF Rank
    <3>4. Rank(op[q]) > 3 BY <3>2 DEF MayHold, Rank
    <3>5. QED BY <3>3, <3>4
  <2>5. QED BY <1>2, <1>4, <2>2, <2>3, <2>4 DEF Ordered
<1>5. CASE op[r].kind = "unlink"
  <2>1. op[r].link \in Links /\ op[r].loan \in Loans /\ holder[op[r].loan] = r
    BY <1>2, <1>5, Fields DEF Ordered
  <2>2. CASE op[r].todo = <<op[r].link>>
    <3>1. x = op[r].link BY <1>1, <2>2, Tuples DEF Awaited
    <3>2. MayHold(op[q], x) /\ x \notin Loans \cup Installments \cup Transfers
      BY <1>3, <2>1, <3>1, NamesAssumption DEF Rows
    <3>3. Rank(op[r]) = 4 BY <1>5, <2>2 DEF Rank
    <3>4. Rank(op[q]) > 4 BY <3>2 DEF MayHold, Rank
    <3>5. QED BY <3>3, <3>4
  <2>3. ASSUME NEW i \in Installments, op[r].todo = <<i>>, loanOf[i] = op[r].loan
        PROVE  Rank(op[r]) < Rank(op[q])
    <3>1. x = i BY <1>1, <2>3, Tuples DEF Awaited
    <3>2. MayHold(op[q], x) /\ x \notin Loans \cup Transfers \cup Links
      BY <1>3, <3>1, NamesAssumption DEF Rows
    <3>3. ~(op[q].kind = "link" /\ loanOf[x] = op[q].loan)
      BY <1>1, <1>2, <2>1, <2>3, <3>1 DEF Ordered
    <3>4. Rank(op[r]) = 5
      BY <1>5, <2>1, <2>3, Tuples, MoreTuples, NamesAssumption DEF Rank
    <3>5. Rank(op[q]) = 6 BY <3>2, <3>3, Tuples DEF MayHold, Rank
    <3>6. QED BY <3>4, <3>5
  <2>4. op[r].todo # <<>> BY <1>1, <1>5 DEF Awaited
  <2>5. QED BY <1>2, <1>5, <2>2, <2>3, <2>4 DEF Ordered
<1>6. op[r].kind \in {"link", "unlink"} BY <1>1, <1>2 DEF Awaited, Ordered
<1>7. QED BY <1>4, <1>5, <1>6

LEMMA FurthestOf ==
  ASSUME NEW S \in SUBSET Requests, S # {}
  PROVE  \E r \in S : \A q \in S : Rank(op[q]) <= Rank(op[r])
<1>1. \A r \in S : Rank(op[r]) \in {1, 2, 3, 4, 5, 6} BY DEF Rank
<1> DEFINE At(n) == \E r \in S : Rank(op[r]) = n
<1>2. CASE At(6) BY <1>1, <1>2
<1>3. CASE ~At(6) /\ At(5) BY <1>1, <1>3
<1>4. CASE ~At(6) /\ ~At(5) /\ At(4) BY <1>1, <1>4
<1>5. CASE ~At(6) /\ ~At(5) /\ ~At(4) /\ At(3) BY <1>1, <1>5
<1>6. CASE ~At(6) /\ ~At(5) /\ ~At(4) /\ ~At(3) BY <1>1, <1>6
<1>7. QED BY <1>2, <1>3, <1>4, <1>5, <1>6

\* However many requests link, unlink and change payments, installments and
\* transfers, they never wait for each other in a circle: the one that is furthest
\* waits for none of the others ("This prevents opposite lock orders").
THEOREM NoDeadlock == Spec => []NoCircularWait
<1>1. Init => OrderInv
  <2> SUFFICES ASSUME Init PROVE OrderInv OBVIOUS
  <2>1. ASSUME NEW r \in Requests PROVE InOrder(r)
    BY NamesAssumption DEF Init, InOrder, Ordered, Idle
  <2>2. QED BY <2>1, InitInv DEF OrderInv
<1>2. OrderInv /\ [Next]_vars => OrderInv' BY StepInOrder
<1>3. OrderInv => NoCircularWait
  <2> SUFFICES ASSUME OrderInv, NEW S \in SUBSET Requests, S # {}
               PROVE  \E r \in S : \A q \in S : ~WaitsFor(r, q)
    BY DEF NoCircularWait
  <2>1. PICK r \in S : \A q \in S : Rank(op[q]) <= Rank(op[r]) BY FurthestOf
  <2>2. ASSUME NEW q \in S, WaitsFor(r, q) PROVE FALSE
    <3>1. Rank(op[r]) \in Int /\ Rank(op[q]) \in Int BY DEF Rank
    <3>2. Rank(op[r]) < Rank(op[q]) BY <2>2, WaitsForFurther
    <3>3. QED BY <2>1, <3>1, <3>2
  <2>3. QED BY <2>2
<1>4. QED BY <1>1, <1>2, <1>3, PTL DEF Spec
=============================================================================
