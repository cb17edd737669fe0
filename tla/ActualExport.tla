---------------------------- MODULE ActualExport ----------------------------
(***************************************************************************)
(* What app/finance/actual_parser.py reads out of an export of Actual      *)
(* Budget: the operations it reconstructs from the live rows, and the      *)
(* balances it takes from the rows themselves.                             *)
(*                                                                         *)
(* A row is a record with                                                  *)
(*   id       its identifier, a positive number (rows are read in order of *)
(*            their date, which the number stands for)                     *)
(*   acct     its account,  cat  its category or None                      *)
(*   amount   a signed amount in the currency of the account               *)
(*   kind     "plain", "parent" (of a split) or "child"                    *)
(*   parent   the parent of a child, else 0                                *)
(*   partner  the other row of a transfer, else 0                          *)
(* Names, dates, payees and notes are left out.                            *)
(***************************************************************************)
EXTENDS Integers, FiniteSets, FiniteSetsExt, Functions

CONSTANTS Foreign,   \* the accounts that are not held in PLN
          None

Size(n) == IF n < 0 THEN -n ELSE n
Side(n) == IF n < 0 THEN "credit" ELSE "debit"
Opposite(side) == IF side = "credit" THEN "debit" ELSE "credit"
TypeOf(n) == IF n < 0 THEN "expense" ELSE "income"

\* A leg of an operation: of an account when it has no category.
Leg(row, acct, cat, amount, dir) ==
  [row |-> row, acct |-> acct, cat |-> cat, amount |-> amount, dir |-> dir]

Plain(live) == {r \in live : r.kind = "plain"}

\* A row against its category.
SimpleOp(r) ==
  [id |-> r.id, type |-> TypeOf(r.amount),
   legs |-> { Leg(r.id, r.acct, None, Size(r.amount), Side(r.amount)),
              Leg(r.id, r.acct, r.cat, Size(r.amount), Opposite(Side(r.amount))) }]

\* SimpleOps that takes every plain row, those of transfers too.
SimpleOpsOfAll(live) == {SimpleOp(r) : r \in {q \in Plain(live) : q.amount # 0}}

\* The rows that are not part of a transfer or a split. Empty ones are dropped.
SimpleOps(live) == {SimpleOp(r) : r \in {q \in Plain(live) : q.partner = 0 /\ q.amount # 0}}

\* A transfer; the sign of the first row decides which of the two gives.
TransferOp(p, q) ==
  LET giver == IF p.amount < 0 THEN p ELSE q
      taker == IF p.amount < 0 THEN q ELSE p
  IN [id |-> p.id, type |-> "transfer",
      legs |-> { Leg(giver.id, giver.acct, None, Size(giver.amount), "credit"),
                 Leg(taker.id, taker.acct, None, Size(taker.amount), "debit") }]

\* Two rows of which the first names the second.
TransferOps(live) ==
  {TransferOp(p[1], p[2]) :
     p \in {q \in Plain(live) \X Plain(live) : q[1].partner = q[2].id /\ q[1].id < q[2].id}}

ChildrenOf(live, p) == {r \in live : r.kind = "child" /\ r.parent = p.id}

\* A parent row against the categories of its children.
SplitOp(live, p) ==
  [id |-> p.id, type |-> TypeOf(p.amount),
   legs |-> { Leg(p.id, p.acct, None, Size(p.amount), Side(p.amount)) }
              \cup { Leg(c.id, c.acct, c.cat, Size(c.amount), Opposite(Side(p.amount))) :
                     c \in ChildrenOf(live, p) }]

\* A parent that has no children is dropped.
SplitOps(live) ==
  {SplitOp(live, p) : p \in {r \in live : r.kind = "parent" /\ ChildrenOf(live, r) # {}}}

\* All operations, and the order the importer takes them in.
Operations(live) == SimpleOps(live) \cup TransferOps(live) \cup SplitOps(live)
Rank(op) == IF op.type = "transfer" THEN 1
            ELSE IF Cardinality({l.row : l \in op.legs}) = 1 THEN 0 ELSE 2
Before(op, other) ==
  \/ Rank(op) < Rank(other)
  \/ Rank(op) = Rank(other) /\ op.id < other.id

\* The balance of an account according to the rows (get_account_balances).
RowBalance(live, a) ==
  SumFunctionOnSet([r \in live |-> r.amount], {r \in live : r.acct = a /\ r.kind # "child"})

SourceSigned(l) == IF l.dir = "debit" THEN l.amount ELSE -l.amount

\* What an operation adds to an account, and the balance it has by all of them.
OpAdds(op, a) ==
  SumFunctionOnSet([l \in op.legs |-> SourceSigned(l)], {l \in op.legs : l.cat = None /\ l.acct = a})
OpBalance(live, a) ==
  SumFunctionOnSet([op \in Operations(live) |-> OpAdds(op, a)], Operations(live))

\* The worth of an amount in PLN at a rate.
InPln(acct, amount, rate) == IF acct \in Foreign THEN amount * rate ELSE amount

\* What the rows say a category has come to, in PLN at the rate.
CategoryTotal(live, c, rate) ==
  MapThenSumSet(
    LAMBDA op :
      MapThenSumSet(
        LAMBDA l : IF l.dir = "debit" THEN -InPln(l.acct, l.amount, rate)
                                      ELSE InPln(l.acct, l.amount, rate),
        {l \in op.legs : l.cat = c}),
    Operations(live))

\* An export that Actual itself keeps consistent: every child has its parent
\* and is filed under a category, the children of a parent make up its amount
\* and share its sign and account, the two rows of a transfer name each other
\* and have opposite signs, and every other row has a category.
WellFormed(live) ==
  /\ \A r \in live : r.kind = "child" =>
       \E p \in live : p.kind = "parent" /\ p.id = r.parent
  /\ \A p \in live : p.kind = "parent" =>
       /\ ChildrenOf(live, p) # {}
       /\ MapThenSumSet(LAMBDA c : c.amount, ChildrenOf(live, p)) = p.amount
       /\ \A c \in ChildrenOf(live, p) :
            c.acct = p.acct /\ c.cat # None /\ TypeOf(c.amount) = TypeOf(p.amount)
       /\ p.partner = 0
  /\ \A r \in live : r.partner # 0 =>
       \E q \in Plain(live) : /\ q.id = r.partner /\ q.partner = r.id
                              /\ r.kind = "plain"
                              /\ Side(q.amount) # Side(r.amount)
  /\ \A r \in Plain(live) : r.partner # 0 \/ r.cat # None
=============================================================================
