--------------------------- MODULE ActualSamples ---------------------------
(***************************************************************************)
(* Rows, exports and ledgers for small instances of ActualImport: an       *)
(* account "A" in PLN, an account "E" in euro worth 3 PLN, and the         *)
(* categories "food" and "rent".                                           *)
(***************************************************************************)
EXTENDS Integers

CONSTANT None

Row(id, acct, amount, cat, kind, parent, partner) ==
  [id |-> id, acct |-> acct, amount |-> amount, cat |-> cat, kind |-> kind,
   parent |-> parent, partner |-> partner]

Bread == Row(1, "A", -2, "food", "plain", 0, 0)
BreadMoved == Row(1, "A", -2, "rent", "plain", 0, 0)
Give == Row(2, "A", -10, None, "plain", 0, 3)
Take == Row(3, "E", 3, None, "plain", 0, 2)
Whole == Row(4, "A", -3, None, "parent", 0, 0)
WholeLess == Row(4, "A", -1, None, "parent", 0, 0)
Part1 == Row(5, "A", -1, "food", "child", 4, 0)
Part2 == Row(6, "A", -2, "rent", "child", 4, 0)
Zero1 == Row(7, "A", 0, None, "plain", 0, 8)
Zero2 == Row(8, "E", 0, None, "plain", 0, 7)
Refund == Row(9, "E", 2, "food", "plain", 0, 0)
Stray == Row(10, "A", -1, None, "child", 4, 3)

\* Rows an export may be made of, no two with one identifier.
Universe == {Bread, BreadMoved, Give, Take, Whole, WholeLess, Part1, Part2, Zero1, Zero2, Refund, Stray}

\* Exports for imports: everything, the first row deleted in Actual, rows
\* filed elsewhere since, and little with a transfer of nothing.
Everything == {Bread, Give, Take, Whole, Part1, Part2}
Deleted == Everything \ {Bread}
Refiled == {BreadMoved, Give, Take, WholeLess, Part1}
Little == {Bread, Zero1, Zero2}
SampleExports == {Everything, Deleted, Refiled, Little}

Ent(kind, of) == [kind |-> kind, of |-> of, n |-> 0]
AcctA == Ent("account", "A")
AcctE == Ent("account", "E")
Food == Ent("category", "food")
Rent == Ent("category", "rent")
Gain == Ent("category", "gain")

Book(row, e, amount, base, dir) ==
  [row |-> row, ent |-> e, amount |-> amount, base |-> base, dir |-> dir, foreign |-> e = AcctE]
Past(op, type, legs) ==
  [key |-> <<op, 0>>, op |-> op, by |-> "actual", marked |-> TRUE, type |-> type, legs |-> legs]

\* Everything as the first release left it: booked in the directions of
\* Actual, with nothing recorded.
Legacy ==
  [ent |-> {Ent("account", "own"), AcctA, AcctE, Food, Rent}, map |-> {}, done |-> {},
   txn |-> {Past(1, "expense", {Book(1, AcctA, 2, 2, "credit"), Book(1, Food, 2, 2, "debit")}),
            Past(2, "transfer", {Book(2, AcctA, 10, 10, "credit"), Book(3, AcctE, 3, 10, "debit")}),
            Past(4, "expense", {Book(4, AcctA, 3, 3, "credit"), Book(5, Food, 1, 1, "debit"),
                                Book(6, Rent, 2, 2, "debit")})}]

\* Everything as an import of today leaves it.
Recorded ==
  [ent |-> {Ent("account", "own"), AcctA, AcctE, Food, Rent, Gain},
   map |-> {[kind |-> e.kind, id |-> e.of, ent |-> e] : e \in {AcctA, AcctE, Food, Rent}},
   done |-> {[op |-> o, key |-> <<o, 0>>] : o \in {1, 2, 4}},
   txn |-> {Past(1, "expense", {Book(1, AcctA, 2, 2, "debit"), Book(1, Food, 2, 2, "credit")}),
            Past(2, "transfer", {Book(2, AcctA, 10, 10, "debit"), Book(3, AcctE, 3, 9, "credit"),
                                 Book(0, Gain, 1, 1, "credit")}),
            Past(4, "expense", {Book(4, AcctA, 3, 3, "debit"), Book(5, Food, 1, 1, "credit"),
                                Book(6, Rent, 2, 2, "credit")})}]

SampleStarts == {Legacy, Recorded}
=============================================================================
