---------------------------- MODULE CategoryTree ----------------------------
(***************************************************************************)
(* Categories of one user, their hierarchy, and the postings and budgets   *)
(* that refer to them (finance/entities.py, ledger_validation.py,          *)
(* budgets.py).                                                            *)
(*                                                                         *)
(* A request is one transaction at READ COMMITTED: it reads, later writes  *)
(* what it decided, and only the edits of the hierarchy exclude each other *)
(* (an advisory lock held until the commit).  The categories are ORM       *)
(* objects: an UPDATE writes only the columns whose value differs from     *)
(* what the request had read.                                              *)
(***************************************************************************)
EXTENDS FiniteSets

CONSTANTS
  Categories,
  Postings,   \* category postings of income and expense transactions
  Budgets,    \* category budgets: they restrict the deletion of their category
  Requests,
  None

Types == {"income", "expense"}
Refs == Postings \cup Budgets

ASSUME NamesAssumption ==
  /\ None \notin Categories \cup Requests
  /\ Postings \cap Budgets = {}

VARIABLES
  state,    \* a category: "new" (no row yet), "live" or "deleted"
  type,     \* categories.type
  parent,   \* categories.parent_id
  ref,      \* the category of a posting or budget
  made,     \* the type of the transaction of a posting, "expense" for a budget;
            \* "new": not made yet; "gone": deleted again
  tree,     \* the request that holds the advisory lock category-tree:<user>
  op        \* what a request is doing

vars == <<state, type, parent, ref, made, tree, op>>
rows == <<state, type, parent, ref, made>>

Live == {c \in Categories : state[c] = "live"}
Children(c) == {k \in Live : parent[k] = c}
RefsTo(c) == {x \in Refs : ref[x] = c}

Idle == [step |-> "idle"]
Node(c) == [type |-> type[c], parent |-> parent[c]]
Nodes == [type : Types, parent : Categories \cup {None}]

Ops ==
  {Idle}
    \cup [step : {"create"}, cat : Categories, to : Nodes]
    \cup [step : {"read", "update"}, cat : Categories, from : Nodes, to : Nodes]
    \cup [step : {"delete"}, cat : Categories]
    \cup [step : {"refer"}, by : Refs, cat : Categories, type : Types]

TypeOK ==
  /\ state \in [Categories -> {"new", "live", "deleted"}]
  /\ type \in [Categories -> Types]
  /\ parent \in [Categories -> Categories \cup {None}]
  /\ ref \in [Refs -> Categories \cup {None}]
  /\ made \in [Refs -> Types \cup {"new", "gone"}]
  /\ tree \in Requests \cup {None}
  /\ op \in [Requests -> Ops]

Init ==
  /\ state = [c \in Categories |-> "new"]
  /\ type = [c \in Categories |-> "expense"]
  /\ parent = [c \in Categories |-> None]
  /\ ref = [x \in Refs |-> None]
  /\ made = [x \in Refs |-> "new"]
  /\ tree = None
  /\ op = [r \in Requests |-> Idle]

End(r) ==
  /\ op' = [op EXCEPT ![r] = Idle]
  /\ tree' = IF tree = r THEN None ELSE tree

\* An error, a refusal or a crash.
Rollback(r) == op[r] # Idle /\ End(r) /\ UNCHANGED rows

----------------------------------------------------------------------------
(***************************************************************************)
(* _validate_category_parent: the walk from the parent to the root.        *)
(***************************************************************************)
Closed(A) == \A a \in A : parent[a] \in A \cup {None}
Ancestry(p) == {a \in Categories : \A A \in SUBSET Categories : p \in A /\ Closed(A) => a \in A}

\* The walk from p, for the category c (None for one that is being created).
Walk(c, n) ==
  n.parent # None =>
    /\ Ancestry(n.parent) \subseteq {a \in Live : type[a] = n.type}
    /\ c \notin Ancestry(n.parent)

CreateCheck(r, c, n) ==
  /\ op[r] = Idle
  /\ state[c] = "new"
  /\ tree = None /\ tree' = r
  /\ Walk(None, n)
  /\ op' = [op EXCEPT ![r] = [step |-> "create", cat |-> c, to |-> n]]
  /\ UNCHANGED rows

\* The foreign key refuses a parent that has been deleted meanwhile.
CreateCommit(r) ==
  /\ op[r].step = "create"
  /\ state[op[r].cat] = "new"
  /\ op[r].to.parent \in Live \cup {None}
  /\ state' = [state EXCEPT ![op[r].cat] = "live"]
  /\ type' = [type EXCEPT ![op[r].cat] = op[r].to.type]
  /\ parent' = [parent EXCEPT ![op[r].cat] = op[r].to.parent]
  /\ End(r)
  /\ UNCHANGED <<ref, made>>

----------------------------------------------------------------------------
(***************************************************************************)
(* update_category.  A field that the request leaves out keeps the value   *)
(* that was read here, before the lock.                                    *)
(***************************************************************************)
UpdateRead(r, c, n) ==
  /\ op[r] = Idle
  /\ c \in Live
  /\ op' = [op EXCEPT ![r] = [step |-> "read", cat |-> c, from |-> Node(c), to |-> n]]
  /\ UNCHANGED <<rows, tree>>

\* A category whose type changes has no children of another type, no postings.
Retypable(c, t) ==
  /\ \A k \in Children(c) : type[k] = t
  /\ RefsTo(c) \cap Postings = {}

UnlockedTree(r) == tree' = tree      \* mutant: the edits are not serialized
LockedTree(r) == tree = None /\ tree' = r

UpdateCheck(r) ==
  /\ op[r].step = "read"
  /\ LockedTree(r)
  /\ Walk(op[r].cat, op[r].to)
  /\ op[r].to.type # op[r].from.type => Retypable(op[r].cat, op[r].to.type)
  /\ op' = [op EXCEPT ![r].step = "update"]
  /\ UNCHANGED rows

UpdateCommit(r) ==
  /\ op[r].step = "update"
  /\ LET c == op[r].cat
         from == op[r].from
         to == op[r].to
     IN  /\ c \in Live
         /\ IF to.parent # from.parent
            THEN /\ to.parent \in Live \cup {None}
                 /\ parent' = [parent EXCEPT ![c] = to.parent]
            ELSE parent' = parent
         /\ type' = IF to.type # from.type THEN [type EXCEPT ![c] = to.type] ELSE type
  /\ End(r)
  /\ UNCHANGED <<state, ref, made>>

----------------------------------------------------------------------------
(***************************************************************************)
(* delete_category.  Nothing is locked before the DELETE; what refers to   *)
(* the row by then restricts it (budgets, scheduled items) or is set to    *)
(* NULL (postings, children).                                              *)
(***************************************************************************)
UnusedCategory(c) == RefsTo(c) = {} /\ Children(c) = {}

DeleteCheck(r, c) ==
  /\ op[r] = Idle
  /\ c \in Live
  /\ UnusedCategory(c)
  /\ op' = [op EXCEPT ![r] = [step |-> "delete", cat |-> c]]
  /\ UNCHANGED <<rows, tree>>

RestrictedByNone(c) == FALSE   \* mutant: category_budgets.category_id SET NULL
RestrictedCategory(c) == RefsTo(c) \cap Budgets # {}

DeleteCommit(r) ==
  /\ op[r].step = "delete"
  /\ LET c == op[r].cat
     IN  /\ ~RestrictedCategory(c)
         /\ state' = [state EXCEPT ![c] = "deleted"]
         /\ parent' = [k \in Categories |-> IF parent[k] = c \/ k = c THEN None ELSE parent[k]]
         /\ ref' = [x \in Refs |-> IF ref[x] = c THEN None ELSE ref[x]]
  /\ End(r)
  /\ UNCHANGED <<type, made>>

----------------------------------------------------------------------------
(***************************************************************************)
(* create_transaction of an income or expense, create_budget: the category *)
(* is validated, not locked.                                               *)
(***************************************************************************)
ReferCheck(r, x, c) ==
  /\ op[r] = Idle
  /\ made[x] = "new"
  /\ c \in Live
  /\ x \in Budgets => type[c] = "expense"
  /\ op' = [op EXCEPT ![r] = [step |-> "refer", by |-> x, cat |-> c, type |-> type[c]]]
  /\ UNCHANGED <<rows, tree>>

\* A category has one budget (uq_category_budget_user_category).
ReferCommit(r) ==
  /\ op[r].step = "refer"
  /\ made[op[r].by] = "new"
  /\ op[r].cat \in Live
  /\ op[r].by \in Budgets => \A b \in Budgets : ref[b] # op[r].cat
  /\ ref' = [ref EXCEPT ![op[r].by] = op[r].cat]
  /\ made' = [made EXCEPT ![op[r].by] = op[r].type]
  /\ End(r)
  /\ UNCHANGED <<state, type, parent>>

\* delete_transaction, delete_budget; the id is not used again.
Unrefer(x) ==
  /\ made[x] \in Types
  /\ ref' = [ref EXCEPT ![x] = None]
  /\ made' = [made EXCEPT ![x] = "gone"]
  /\ UNCHANGED <<state, type, parent, tree, op>>

----------------------------------------------------------------------------
RequestStep(r) ==
  \/ Rollback(r)
  \/ \E c \in Categories, n \in Nodes : CreateCheck(r, c, n) \/ UpdateRead(r, c, n)
  \/ CreateCommit(r)
  \/ UpdateCheck(r)
  \/ UpdateCommit(r)
  \/ \E c \in Categories : DeleteCheck(r, c)
  \/ DeleteCommit(r)
  \/ \E x \in Refs, c \in Categories : ReferCheck(r, x, c)
  \/ ReferCommit(r)

Next ==
  \/ \E r \in Requests : RequestStep(r)
  \/ \E x \in Refs : Unrefer(x)

Spec == Init /\ [][Next]_vars

----------------------------------------------------------------------------
(***************************************************************************)
(* Properties.                                                             *)
(***************************************************************************)

\* The hierarchy has no cycle: every set of categories has one whose parent is
\* not in it (the advisory lock: "concurrent reparenting cannot introduce a
\* cycle").
NoCycle == \A S \in SUBSET Categories : S # {} => \E c \in S : parent[c] \notin S

\* Parents, and the categories of postings and budgets, exist; a budget keeps
\* its category until it is deleted itself.
ReferencesKept ==
  /\ \A c \in Live : parent[c] \in Live \cup {None}
  /\ \A x \in Refs : ref[x] \in Live \cup {None}
  /\ \A b \in Budgets : made[b] \in Types => ref[b] # None

\* A posting without account keeps its category.
PostingHasTarget == \A p \in Postings : made[p] \in Types => ref[p] # None

=============================================================================
