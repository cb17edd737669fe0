------------------------------- MODULE Reports -------------------------------
(***************************************************************************)
(* The monthly reports, as readers of the category tree: the budget status *)
(* and the tree of expenses (finance/budgets.py, reporting.py).  Each is   *)
(* computed from what one request reads; the amounts are left out, since   *)
(* what matters is which categories and postings a sum runs over.          *)
(***************************************************************************)
EXTENDS CategoryTree

(***************************************************************************)
(* get_budget_status, for the budgets of the categories B.                 *)
(***************************************************************************)
\* The categories that a request has read, each with itself and its ancestors.
Lines == [c \in Live |-> Ancestry(c)]

\* category_descendants, and the category itself.
Scope(lines, c) == {k \in DOMAIN lines : c \in lines[k]}

ParentHasBudget(lines, B, c) == parent[c] \in B     \* mutant: one level only
HasBudgetAncestor(lines, B, c) == parent[c] # None /\ lines[parent[c]] \cap B # {}

\* The items that the totals are sums of.
Aggregated(lines, B) == {c \in B : ~HasBudgetAncestor(lines, B, c)}

(***************************************************************************)
(* get_category_summary.                                                   *)
(***************************************************************************)
Expenses == {c \in Live : type[c] = "expense"}
Spending == {p \in Postings : made[p] \in Types /\ ref[p] \in Expenses}

\* What build_node reaches from the expense categories without a parent.
Tree == {c \in Expenses : Ancestry(c) \subseteq Expenses}

-----------------------------------------------------------------------------
(***************************************************************************)
(* Properties.                                                             *)
(***************************************************************************)

\* The totals of the budget status count what is spent in a category that is
\* within a budget once, and nothing else, whichever categories have budgets and
\* however requests have rearranged the tree.  (Requests under way do not matter:
\* rolling them back leaves the same rows.)
BudgetedOnce ==
  (\A r \in Requests : op[r] = Idle) =>
    LET lines == Lines
    IN  \A B \in SUBSET Live, c \in Live :
          Cardinality({b \in Aggregated(lines, B) : c \in Scope(lines, b)}) =
            IF lines[c] \cap B = {} THEN 0 ELSE 1

\* The tree of expenses rolls every posting up ("render the complete owned
\* hierarchy while rolling each posting up once").
RolledUpOnce == \A p \in Spending : ref[p] \in Tree
=============================================================================
