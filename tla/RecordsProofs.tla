---------------------------- MODULE RecordsProofs ----------------------------
(***************************************************************************)
(* Proofs about the rows that concurrent requests of one user edit, for    *)
(* any sets of rows and requests: the tree of categories and its reports,  *)
(* the board (B), and the inbox (I).                                       *)
(***************************************************************************)
EXTENDS MCRecords, DataTheorems, TLAPS

(***************************************************************************)
(* Categories: the hierarchy has no cycle and no reference to a row that   *)
(* is not there.                                                           *)
(*                                                                         *)
(* The walk of a request stays true until it commits because the advisory  *)
(* lock keeps every other parent assignment out; deletions, which do not   *)
(* take it, only cut branches off.  "A set closed under parent that holds  *)
(* the new parent and not the category" is what survives them (Outside).   *)
(***************************************************************************)

\* A set that a walk from p may be seen as having visited, without c.
Outside(p, c) == \E A \in SUBSET Categories : p \in A /\ Closed(A) /\ c \notin A

\* The steps between the walk and the commit hold the advisory lock.
LockInv == \A r \in Requests : op[r].step \in {"create", "update"} => tree = r

\* What the walk of an update has shown is still so.
WalkInv ==
  \A r \in Requests :
    op[r].step = "update" /\ op[r].to.parent # None => Outside(op[r].to.parent, op[r].cat)

\* Rows that are not there have no parent.
NoRowNoParent == \A c \in Categories : state[c] # "live" => parent[c] = None

Inv ==
  /\ TypeOK
  /\ LockInv
  /\ WalkInv
  /\ NoRowNoParent
  /\ NoCycle
  /\ ReferencesKept

\* What the types say of the request's knowledge.
LEMMA Known ==
  ASSUME TypeOK, NEW r \in Requests
  PROVE  /\ op[r].step \in {"create", "read", "update", "delete", "refer"} =>
              op[r].cat \in Categories
         /\ op[r].step \in {"create", "read", "update"} =>
              op[r].to.type \in Types /\ op[r].to.parent \in Categories \cup {None}
         /\ op[r].step = "refer" => op[r].by \in Refs /\ op[r].type \in Types
<1>1. op[r] \in Ops BY DEF TypeOK
<1>2. QED BY <1>1 DEF Ops, Idle, Nodes

\* The request that ends knows nothing and does not have the lock.
LEMMA EndFrees ==
  ASSUME TypeOK, NEW r \in Requests, End(r)
  PROVE  /\ op' \in [Requests -> Ops]
         /\ op'[r].step = "idle"
         /\ \A q \in Requests : q # r => op'[q] = op[q]
         /\ tree' \in Requests \cup {None}
         /\ \A q \in Requests : q # r /\ tree = q => tree' = q
         /\ \A q \in Requests : tree' = q => tree = q
BY NamesAssumption DEF End, TypeOK, Ops, Idle

\* A request takes up another step.
LEMMA Steps ==
  ASSUME TypeOK, NEW r \in Requests, NEW o \in Ops, op' = [op EXCEPT ![r] = o]
  PROVE  /\ op' \in [Requests -> Ops]
         /\ op'[r] = o
         /\ \A q \in Requests : q # r => op'[q] = op[q]
BY DEF TypeOK

----------------------------------------------------------------------------
(***************************************************************************)
(* Acyclicity.                                                             *)
(***************************************************************************)

\* The walk finds a closed set without the category.
LEMMA WalkOutside ==
  ASSUME NEW c \in Categories, NEW n, Walk(c, n), n.parent # None
  PROVE  Outside(n.parent, c)
BY DEF Walk, Ancestry, Outside

\* Giving c a parent from whose side c cannot be reached makes no cycle.
LEMMA ReparentAcyclic ==
  ASSUME NEW c \in Categories, NEW p \in Categories \cup {None},
         parent \in [Categories -> Categories \cup {None}],
         parent' = [parent EXCEPT ![c] = p],
         p # None => Outside(p, c),
         NoCycle
  PROVE  NoCycle'
<1> SUFFICES ASSUME NEW S \in SUBSET Categories, S # {}, \A k \in S : parent'[k] \in S
             PROVE  FALSE
  BY DEF NoCycle
<1>1. CASE c \notin S
  <2>1. \A k \in S : parent[k] \in S BY <1>1
  <2>2. QED BY <2>1 DEF NoCycle
<1>2. CASE c \in S
  <2>1. p \in S BY <1>2
  <2>2. PICK A \in SUBSET Categories : p \in A /\ Closed(A) /\ c \notin A
    BY <2>1, NamesAssumption DEF Outside
  <2>3. \A k \in S \cap A : parent[k] \in S \cap A
    BY <2>2, NamesAssumption DEF Closed
  <2>4. S \cap A # {} /\ S \cap A \in SUBSET Categories BY <2>1, <2>2
  <2>5. QED BY <2>3, <2>4 DEF NoCycle
<1>3. QED BY <1>1, <1>2

\* Nor does cutting branches off, and it keeps what a walk has shown.
LEMMA CutAcyclic ==
  ASSUME NEW K \in SUBSET Categories,
         parent' = [k \in Categories |-> IF k \in K THEN None ELSE parent[k]],
         parent \in [Categories -> Categories \cup {None}],
         NoCycle
  PROVE  /\ NoCycle'
         /\ \A p, c : Outside(p, c) => Outside(p, c)'
<1>1. NoCycle'
  <2> SUFFICES ASSUME NEW S \in SUBSET Categories, S # {}, \A k \in S : parent'[k] \in S
               PROVE  FALSE
    BY DEF NoCycle
  <2>1. \A k \in S : parent[k] \in S BY NamesAssumption
  <2>2. QED BY <2>1 DEF NoCycle
<1>2. ASSUME NEW A \in SUBSET Categories, Closed(A) PROVE Closed(A)'
  BY <1>2 DEF Closed
<1>3. QED BY <1>1, <1>2 DEF Outside

----------------------------------------------------------------------------
(***************************************************************************)
(* Every action keeps the invariant.                                       *)
(***************************************************************************)
LEMMA InitInv == ASSUME Init PROVE Inv
<1>1. TypeOK BY DEF Init, TypeOK, Types, Ops, Idle
<1>2. NoCycle BY <1>1, NamesAssumption DEF Init, NoCycle
<1>3. LockInv /\ WalkInv /\ NoRowNoParent /\ ReferencesKept
  BY NamesAssumption DEF Init, LockInv, WalkInv, NoRowNoParent, ReferencesKept, Idle, Live, Types, Refs
<1>4. QED BY <1>1, <1>2, <1>3 DEF Inv

\* A transaction that ends without touching the hierarchy.
LEMMA EndKeeps ==
  ASSUME Inv, NEW r \in Requests, End(r), UNCHANGED <<state, type, parent>>,
         ref' \in [Refs -> Categories \cup {None}],
         made' \in [Refs -> Types \cup {"new", "gone"}],
         ReferencesKept'
  PROVE  Inv'
<1>1. TypeOK' BY EndFrees DEF Inv, TypeOK
<1>2. LockInv' BY EndFrees DEF Inv, LockInv
<1>3. WalkInv' BY EndFrees DEF Inv, WalkInv, Outside, Closed
<1>4. QED BY <1>1, <1>2, <1>3 DEF Inv, NoRowNoParent, NoCycle

LEMMA RollbackKeeps == ASSUME Inv, NEW r \in Requests, Rollback(r) PROVE Inv'
<1>1. ReferencesKept' BY DEF Rollback, rows, Inv, ReferencesKept, Live
<1>2. QED BY <1>1, EndKeeps DEF Rollback, rows, Inv, TypeOK

\* A request that only learns something, without the advisory lock.
LEMMA ReadKeeps ==
  ASSUME Inv, NEW r \in Requests, NEW o \in Ops, op[r] = Idle,
         o.step \in {"read", "delete", "refer"},
         op' = [op EXCEPT ![r] = o], UNCHANGED <<rows, tree>>
  PROVE  Inv'
<1>1. TypeOK' BY Steps DEF Inv, TypeOK, rows
<1>2. LockInv' /\ WalkInv'
  BY Steps DEF Inv, LockInv, WalkInv, Outside, Closed, rows
<1>3. QED BY <1>1, <1>2 DEF Inv, NoRowNoParent, NoCycle, ReferencesKept, Live, rows

\* A request that takes the advisory lock and has walked to the root.
LEMMA LockKeeps ==
  ASSUME Inv, NEW r \in Requests, NEW o \in Ops, tree = None, tree' = r,
         o.step \in {"create", "update"},
         o.step = "update" /\ o.to.parent # None => Outside(o.to.parent, o.cat),
         op' = [op EXCEPT ![r] = o], UNCHANGED rows
  PROVE  Inv'
<1>1. TypeOK' BY Steps DEF Inv, TypeOK, rows
<1>2. LockInv'
  <2>1. \A q \in Requests : tree # q BY NamesAssumption
  <2>2. QED BY <2>1, Steps DEF Inv, LockInv
<1>3. WalkInv' BY Steps DEF Inv, WalkInv, Outside, Closed, rows
<1>4. QED BY <1>1, <1>2, <1>3 DEF Inv, NoRowNoParent, NoCycle, ReferencesKept, Live, rows

LEMMA CreateCheckKeeps ==
  ASSUME Inv, NEW r \in Requests, NEW c \in Categories, NEW n \in Nodes, CreateCheck(r, c, n)
  PROVE  Inv'
<1> DEFINE o == [step |-> "create", cat |-> c, to |-> n]
<1>1. o \in Ops /\ o.step = "create" BY DEF Ops
<1>2. /\ tree = None /\ tree' = r /\ UNCHANGED rows
      /\ op' = [op EXCEPT ![r] = o]
  BY DEF CreateCheck
<1> HIDE DEF o
<1>3. QED BY <1>1, <1>2, LockKeeps

LEMMA UpdateReadKeeps ==
  ASSUME Inv, NEW r \in Requests, NEW c \in Categories, NEW n \in Nodes, UpdateRead(r, c, n)
  PROVE  Inv'
<1>1. Node(c) \in Nodes BY DEF Inv, TypeOK, Node, Nodes
<1>2. [step |-> "read", cat |-> c, from |-> Node(c), to |-> n] \in Ops BY <1>1 DEF Ops
<1>3. QED BY <1>2, ReadKeeps DEF UpdateRead

LEMMA DeleteCheckKeeps ==
  ASSUME Inv, NEW r \in Requests, NEW c \in Categories, DeleteCheck(r, c)
  PROVE  Inv'
<1>1. [step |-> "delete", cat |-> c] \in Ops BY DEF Ops
<1>2. QED BY <1>1, ReadKeeps DEF DeleteCheck

LEMMA ReferCheckKeeps ==
  ASSUME Inv, NEW r \in Requests, NEW x \in Refs, NEW c \in Categories, ReferCheck(r, x, c)
  PROVE  Inv'
<1>1. type[c] \in Types BY DEF Inv, TypeOK
<1>2. [step |-> "refer", by |-> x, cat |-> c, type |-> type[c]] \in Ops BY <1>1 DEF Ops
<1>3. QED BY <1>2, ReadKeeps DEF ReferCheck

LEMMA UpdateCheckKeeps == ASSUME Inv, NEW r \in Requests, UpdateCheck(r) PROVE Inv'
<1> DEFINE o == [op[r] EXCEPT !.step = "update"]
<1>1. op[r] \in Ops /\ op[r].step = "read" BY DEF Inv, TypeOK, UpdateCheck
<1>2. o \in Ops /\ o.step = "update" /\ o.cat = op[r].cat /\ o.to = op[r].to
  BY <1>1 DEF Ops, Idle
<1>3. op' = [op EXCEPT ![r] = o] BY DEF UpdateCheck
<1>4. o.to.parent # None => Outside(o.to.parent, o.cat)
  BY <1>1, <1>2, Known, WalkOutside DEF UpdateCheck, Inv
<1> HIDE DEF o
<1>5. QED BY <1>2, <1>3, <1>4, LockKeeps DEF UpdateCheck, LockedTree

\* What a committed change of the hierarchy leaves to be shown.
LEMMA HierarchyKeeps ==
  ASSUME Inv, NEW r \in Requests, End(r), op[r].step \in {"create", "update"},
         NEW c \in Categories, NEW p \in Live \cup {None}, NEW t \in Types,
         parent' = [parent EXCEPT ![c] = p], type' = [type EXCEPT ![c] = t],
         p # None => Outside(p, c), Live' = Live \cup {c},
         state' \in [Categories -> {"new", "live", "deleted"}],
         UNCHANGED <<ref, made>>
  PROVE  Inv'
<1>1. p \in Categories \cup {None} BY DEF Live
<1>2. TypeOK' BY <1>1, EndFrees DEF Inv, TypeOK
<1>3. LockInv' BY EndFrees DEF Inv, LockInv
<1>4. WalkInv'
  <2>1. \A q \in Requests : q # r => op[q].step # "update"
    BY DEF Inv, LockInv
  <2>2. QED BY <2>1, EndFrees DEF Inv, WalkInv
<1>5. NoCycle' BY <1>1, ReparentAcyclic DEF Inv, TypeOK
<1>6. NoRowNoParent' /\ ReferencesKept'
  BY <1>1, NamesAssumption DEF Inv, TypeOK, NoRowNoParent, ReferencesKept, Live
<1>7. QED BY <1>2, <1>3, <1>4, <1>5, <1>6 DEF Inv

LEMMA CreateCommitKeeps == ASSUME Inv, NEW r \in Requests, CreateCommit(r) PROVE Inv'
<1> DEFINE c == op[r].cat
           n == op[r].to
<1>1. End(r) /\ c \in Categories /\ n.type \in Types /\ n.parent \in Live \cup {None}
  BY Known DEF Inv, CreateCommit
<1>2. Live' = Live \cup {c} /\ state' \in [Categories -> {"new", "live", "deleted"}]
  BY <1>1 DEF Inv, TypeOK, CreateCommit, Live
<1>3. n.parent # None => Outside(n.parent, c)
  <2>1. Closed(Live) /\ c \notin Live /\ Live \in SUBSET Categories
    BY DEF Inv, ReferencesKept, Closed, CreateCommit, Live
  <2>2. QED BY <1>1, <2>1 DEF Outside
<1>4. QED BY <1>1, <1>2, <1>3, HierarchyKeeps DEF CreateCommit

LEMMA UpdateCommitKeeps == ASSUME Inv, NEW r \in Requests, UpdateCommit(r) PROVE Inv'
<1> DEFINE c == op[r].cat
           from == op[r].from
           to == op[r].to
           p == IF to.parent # from.parent THEN to.parent ELSE parent[c]
           t == IF to.type # from.type THEN to.type ELSE type[c]
<1>1. /\ End(r) /\ c \in Live /\ c \in Categories /\ to.type \in Types
      /\ to.parent # from.parent => to.parent \in Live \cup {None}
  BY Known DEF Inv, UpdateCommit, Live
<1>2. t \in Types /\ p \in Live \cup {None}
  BY <1>1 DEF Inv, TypeOK, ReferencesKept, Live
<1>3. parent' = [parent EXCEPT ![c] = p] /\ type' = [type EXCEPT ![c] = t]
  BY <1>1 DEF UpdateCommit, Inv, TypeOK
<1>4. Live' = Live \cup {c} BY <1>1 DEF UpdateCommit, Live
<1>5. CASE to.parent # from.parent
  <2>1. p = to.parent /\ (p # None => Outside(p, c))
    BY <1>1, <1>5 DEF UpdateCommit, Inv, WalkInv
  <2>2. QED BY <1>1, <1>2, <1>3, <1>4, <2>1, HierarchyKeeps DEF UpdateCommit, Inv, TypeOK
<1>6. CASE to.parent = from.parent
  <2>1. parent' = parent BY <1>6 DEF UpdateCommit
  <2>2. TypeOK' BY <1>1, <1>2, <1>3, <2>1, EndFrees DEF UpdateCommit, Inv, TypeOK
  <2>3. LockInv' /\ WalkInv'
    BY <1>1, <2>1, EndFrees DEF Inv, LockInv, WalkInv, Outside, Closed
  <2>4. NoRowNoParent' /\ NoCycle' /\ ReferencesKept'
    BY <2>1 DEF UpdateCommit, Inv, NoRowNoParent, NoCycle, ReferencesKept, Live
  <2>5. QED BY <2>2, <2>3, <2>4 DEF Inv
<1>7. QED BY <1>5, <1>6

LEMMA DeleteCommitKeeps == ASSUME Inv, NEW r \in Requests, DeleteCommit(r) PROVE Inv'
<1> DEFINE c == op[r].cat
           K == {k \in Categories : parent[k] = c \/ k = c}
<1>1. End(r) /\ c \in Categories BY Known DEF Inv, DeleteCommit
<1>2. parent' = [k \in Categories |-> IF k \in K THEN None ELSE parent[k]]
  BY DEF DeleteCommit
<1>3. NoCycle' /\ \A p, k : Outside(p, k) => Outside(p, k)'
  <2>1. K \in SUBSET Categories OBVIOUS
  <2>2. parent \in [Categories -> Categories \cup {None}] /\ NoCycle BY DEF Inv, TypeOK
  <2> HIDE DEF K
  <2>3. QED BY <1>2, <2>1, <2>2, CutAcyclic
<1>4. TypeOK' BY <1>1, <1>2, EndFrees DEF DeleteCommit, Inv, TypeOK
<1>5. LockInv' BY <1>1, EndFrees DEF Inv, LockInv
<1>6. WalkInv' BY <1>1, <1>3, EndFrees DEF Inv, WalkInv
<1>7. NoRowNoParent' BY <1>1, <1>2 DEF DeleteCommit, Inv, TypeOK, NoRowNoParent
<1>8. ReferencesKept'
  BY <1>1, <1>2, NamesAssumption
  DEF DeleteCommit, RestrictedCategory, RefsTo, Inv, TypeOK, ReferencesKept, Live, Refs
<1>9. QED BY <1>3, <1>4, <1>5, <1>6, <1>7, <1>8 DEF Inv

LEMMA ReferCommitKeeps == ASSUME Inv, NEW r \in Requests, ReferCommit(r) PROVE Inv'
<1>1. op[r].by \in Refs /\ op[r].type \in Types /\ op[r].cat \in Categories
  BY Known DEF Inv, ReferCommit
<1>2. ReferencesKept'
  BY <1>1, NamesAssumption DEF ReferCommit, Inv, TypeOK, ReferencesKept, Live, Refs
<1>3. QED BY <1>1, <1>2, EndKeeps DEF ReferCommit, Inv, TypeOK

LEMMA UnreferKeeps == ASSUME Inv, NEW x \in Refs, Unrefer(x) PROVE Inv'
<1>1. TypeOK' BY DEF Unrefer, Inv, TypeOK
<1>2. LockInv' /\ WalkInv' BY DEF Unrefer, Inv, LockInv, WalkInv, Outside, Closed
<1>3. NoRowNoParent' /\ NoCycle' BY DEF Unrefer, Inv, NoRowNoParent, NoCycle
<1>4. ReferencesKept' BY DEF Unrefer, Inv, TypeOK, ReferencesKept, Live, Refs, Types
<1>5. QED BY <1>1, <1>2, <1>3, <1>4 DEF Inv

----------------------------------------------------------------------------
LEMMA StepKeeps == ASSUME Inv, [Next]_vars PROVE Inv'
<1>1. ASSUME NEW r \in Requests, RequestStep(r) PROVE Inv'
  BY <1>1, RollbackKeeps, CreateCheckKeeps, UpdateReadKeeps, CreateCommitKeeps,
     UpdateCheckKeeps, UpdateCommitKeeps, DeleteCheckKeeps, DeleteCommitKeeps,
     ReferCheckKeeps, ReferCommitKeeps
  DEF RequestStep
<1>2. ASSUME NEW x \in Refs, Unrefer(x) PROVE Inv' BY <1>2, UnreferKeeps
<1>3. CASE UNCHANGED vars
  BY <1>3
  DEF vars, Inv, TypeOK, LockInv, WalkInv, Outside, Closed, NoRowNoParent, NoCycle,
      ReferencesKept, Live
<1>4. QED BY <1>1, <1>2, <1>3 DEF Next

\* The strengthened invariant of CategoryTree.
THEOREM Invariance == Spec => []Inv
<1>1. Init => Inv BY InitInv
<1>2. Inv /\ [Next]_vars => Inv' BY StepKeeps
<1>3. QED BY <1>1, <1>2, PTL DEF Spec

\* The types hold in every reachable state.
THEOREM TypeCorrect == Spec => []TypeOK
<1>1. Inv => TypeOK BY DEF Inv
<1>2. QED BY <1>1, Invariance, PTL

\* Concurrent re-parenting introduces no cycle
\* (_validate_category_parent under its advisory lock).
THEOREM Acyclic == Spec => []NoCycle
<1>1. Inv => NoCycle BY DEF Inv
<1>2. QED BY <1>1, Invariance, PTL

\* Parents and the categories of postings and budgets exist, and a budget
\* keeps its category.
THEOREM ReferencesExist == Spec => []ReferencesKept
<1>1. Inv => ReferencesKept BY DEF Inv
<1>2. QED BY <1>1, Invariance, PTL

-----------------------------------------------------------------------------
(***************************************************************************)
(* Reports.  Without cycles the budgets above a category are a chain, and  *)
(* the topmost of them is the only one without another above it.           *)
(***************************************************************************)

\* A category, its parent, the parent of that, and so on.
LEMMA AncestryOf ==
  ASSUME TypeOK, NEW x \in Categories
  PROVE  /\ x \in Ancestry(x)
         /\ Closed(Ancestry(x))
         /\ \A y \in Ancestry(x) : Ancestry(y) \subseteq Ancestry(x)
         /\ \A y \in Ancestry(x) : y = x \/ (parent[x] # None /\ y \in Ancestry(parent[x]))
<1>1. x \in Ancestry(x)
  BY DEF Ancestry
<1>2. Closed(Ancestry(x))
  BY DEF Ancestry, Closed, TypeOK
<1>3. \A y \in Ancestry(x) : Ancestry(y) \subseteq Ancestry(x)
  BY <1>2 DEF Ancestry
<1>4. ASSUME NEW y \in Ancestry(x)
      PROVE  y = x \/ (parent[x] # None /\ y \in Ancestry(parent[x]))
  <2>1. CASE parent[x] = None
    <3>1. Closed({x})
      BY <2>1 DEF Closed
    <3> QED
      BY <3>1 DEF Ancestry
  <2>2. CASE parent[x] # None
    <3> DEFINE A == {x} \cup Ancestry(parent[x])
    <3>1. parent[x] \in Categories
      BY <2>2 DEF TypeOK
    <3>2. parent[x] \in Ancestry(parent[x]) /\ Closed(Ancestry(parent[x]))
      BY <3>1 DEF Ancestry, Closed, TypeOK
    <3>3. Closed(A)
      BY <3>2 DEF Closed
    <3>4. A \in SUBSET Categories
      BY DEF Ancestry
    <3>5. y \in A
      <4> HIDE DEF A
      <4> QED
        BY <3>3, <3>4 DEF Ancestry, A
    <3> QED
      BY <2>2, <3>5
  <2> QED
    BY <2>1, <2>2
<1> QED
  BY <1>1, <1>2, <1>3, <1>4

\* Of two categories above a third, one is above the other.
LEMMA AncestryChain ==
  ASSUME TypeOK, NEW c \in Categories, NEW a \in Ancestry(c), NEW b \in Ancestry(c)
  PROVE  b \in Ancestry(a) \/ a \in Ancestry(b)
<1> DEFINE A == {y \in Ancestry(c) : y \in Ancestry(a) \/ a \in Ancestry(y)}
<1>1. a \in Categories /\ A \in SUBSET Categories
  BY DEF Ancestry
<1>2. c \in A
  BY AncestryOf
<1>3. ASSUME NEW y \in A, parent[y] # None
      PROVE  parent[y] \in A
  <2>1. y \in Categories
    BY <1>1
  <2>2. parent[y] \in Ancestry(c)
    BY <1>3, AncestryOf DEF Closed
  <2>3. CASE y \in Ancestry(a)
    BY <1>1, <1>3, <2>2, <2>3, AncestryOf DEF Closed
  <2>4. CASE a \in Ancestry(y)
    <3>1. a = y \/ a \in Ancestry(parent[y])
      BY <2>1, <2>4, AncestryOf
    <3>2. parent[y] \in Ancestry(y)
      BY <1>3, <2>1, AncestryOf DEF Closed
    <3> QED
      BY <2>2, <3>1, <3>2
  <2> QED
    BY <2>3, <2>4
<1>4. Closed(A)
  <2> HIDE DEF A
  <2> QED
    BY <1>3 DEF Closed
<1>5. b \in A
  <2> HIDE DEF A
  <2> QED
    BY <1>1, <1>2, <1>4 DEF Ancestry
<1> QED
  BY <1>5

\* What a request sees of a category that has a budget.
LEMMA BudgetAncestor ==
  ASSUME TypeOK, ReferencesKept, NEW W \in SUBSET Live, NEW b \in W
  PROVE  HasBudgetAncestor(Lines, W, b) <=> parent[b] # None /\ Ancestry(parent[b]) \cap W # {}
<1>1. parent[b] # None => parent[b] \in Live
  BY DEF ReferencesKept, TypeOK, Live
<1> QED
  BY <1>1 DEF HasBudgetAncestor, Lines

LEMMA OneBudgetCounts ==
  ASSUME TypeOK, NoCycle, ReferencesKept, NEW W \in SUBSET Live, NEW c \in Live
  PROVE  Cardinality({b \in Aggregated(Lines, W) : c \in Scope(Lines, b)}) =
           IF Lines[c] \cap W = {} THEN 0 ELSE 1
<1> DEFINE Counts == {b \in Aggregated(Lines, W) : c \in Scope(Lines, b)}
<1>1. c \in Categories /\ W \subseteq Categories /\ Lines[c] = Ancestry(c)
  BY DEF Live, Lines
<1>2. \A b : b \in Counts <=> /\ b \in W /\ b \in Ancestry(c)
                              /\ parent[b] # None => Ancestry(parent[b]) \cap W = {}
  BY <1>1, BudgetAncestor DEF Aggregated, Scope, Lines
<1> HIDE DEF Counts
<1>3. CASE Ancestry(c) \cap W = {}
  <2>1. Counts = {}
    BY <1>2, <1>3
  <2> QED
    BY <1>1, <1>3, <2>1, FS_EmptySet DEF Counts
<1>4. CASE Ancestry(c) \cap W # {}
  <2> DEFINE S == {x \in Ancestry(c) : Ancestry(x) \cap W # {}}
  <2>1. S \in SUBSET Categories /\ c \in S
    BY <1>1, <1>4, AncestryOf DEF Ancestry
  <2>2. PICK x \in S : parent[x] \notin S
    <3> HIDE DEF S
    <3> QED
      BY <2>1 DEF NoCycle
  <2>3. x \in Categories /\ x \in Ancestry(c)
    BY <2>1, <2>2
  <2>4. parent[x] # None => Ancestry(parent[x]) \cap W = {}
    BY <1>1, <2>2, <2>3, AncestryOf DEF Closed
  <2>5. x \in W
    BY <2>2, <2>3, <2>4, AncestryOf
  <2>6. x \in Counts
    BY <1>2, <2>3, <2>4, <2>5
  <2>7. ASSUME NEW y \in Counts PROVE y = x
    <3>1. y \in W /\ y \in Ancestry(c) /\ y \in Categories
      BY <1>1, <1>2
    <3>2. y \in Ancestry(x) \/ x \in Ancestry(y)
      BY <1>1, <2>3, <3>1, AncestryChain
    <3>3. CASE y \in Ancestry(x)
      BY <2>3, <2>4, <3>1, <3>3, AncestryOf
    <3>4. CASE x \in Ancestry(y)
      BY <1>2, <2>5, <3>1, <3>4, AncestryOf
    <3> QED
      BY <3>2, <3>3, <3>4
  <2>8. Counts = {x}
    BY <2>6, <2>7
  <2> HIDE DEF S
  <2> QED
    BY <1>1, <1>4, <2>8, FS_Singleton DEF Counts
<1> QED
  BY <1>3, <1>4

\* What is spent in a category within a budget is in the totals of the budget
\* status once, however requests have rearranged the tree (get_budget_status).
THEOREM TotalsCountOnce == Spec => []BudgetedOnce
<1>1. Inv => BudgetedOnce
  BY OneBudgetCounts DEF Inv, BudgetedOnce
<1> QED
  BY <1>1, Invariance, PTL

-----------------------------------------------------------------------------
(***************************************************************************)
(* The inbox: an item becomes one task for each time a user reopens it,    *)
(* and its row names the last of them until a user writes another target.  *)
(***************************************************************************)
InboxRow == [is_processed : BOOLEAN, target : Int]

InboxRowsOK ==
  /\ items \in [Items -> InboxRow \cup {None}]
  /\ conversions \in [Items -> Nat]
  /\ reopened \in [Items -> Nat]
  /\ \A i \in toCreate : i \in Items => items[i] = None /\ conversions[i] = 0

Conversion == [at : {"convert"}, item : Items, type : {"task", "reference"}]
Editing == [at : {"edit"}, item : Items, was : InboxRow, new : InboxRow]

InboxOpsOK ==
  /\ DOMAIN inboxOp = InboxRequests
  /\ \A r \in InboxRequests :
       \/ inboxOp[r] = I!Idle
       \/ inboxOp[r] \in Conversion
       \/ inboxOp[r] \in Editing

\* The row that a conversion has locked is as the conversion has read it, and no
\* other conversion has read it.
LockedAsRead ==
  \A r \in InboxRequests, i \in Items :
    I!Locks(r, i) =>
      /\ items[i] # None => ~items[i].is_processed
      /\ i \notin toCreate
      /\ I!Free(r, i)

\* An item that can be converted has been reopened as often as it became a task.
ReopenBudget ==
  \A i \in Items :
    conversions[i] <= reopened[i] + (IF items[i] # None /\ ~items[i].is_processed THEN 0 ELSE 1)

InboxInv == InboxRowsOK /\ InboxOpsOK /\ LockedAsRead /\ ReopenBudget /\ I!TargetKept

-----------------------------------------------------------------------------
\* The inbox is empty at first.
LEMMA InboxInit == I!Init => InboxInv
BY DEF I!Init, InboxInv, InboxRowsOK, InboxOpsOK, LockedAsRead, ReopenBudget, I!TargetKept, I!Locks, I!Free, I!Idle

\* A request that has ended holds no lock.
LEMMA InboxEnd ==
  ASSUME InboxOpsOK, NEW r \in InboxRequests, I!End(r)
  PROVE  /\ InboxOpsOK'
         /\ \A q \in InboxRequests, i \in Items : I!Locks(q, i)' => q # r /\ I!Locks(q, i)
BY DEF InboxOpsOK, I!End, I!Locks, I!Idle, Conversion, Editing

LEMMA InboxCreate ==
  ASSUME InboxInv, NEW i \in Items, I!Create(i)
  PROVE  InboxInv'
<1> USE DEF InboxInv
<1>1. InboxRowsOK' BY DEF I!Create, InboxRowsOK, InboxRow
<1>2. InboxOpsOK' BY DEF I!Create, InboxOpsOK
<1>3. LockedAsRead' BY DEF I!Create, LockedAsRead, I!Locks, I!Free, InboxRowsOK
<1>4. ReopenBudget' /\ I!TargetKept' BY DEF I!Create, ReopenBudget, I!TargetKept, InboxRowsOK
<1> QED BY <1>1, <1>2, <1>3, <1>4

LEMMA InboxStartProcess ==
  ASSUME InboxInv, NEW r \in InboxRequests, NEW i \in Items, NEW kind \in {"task", "reference"},
         I!StartProcess(r, i, kind)
  PROVE  InboxInv'
<1> USE DEF InboxInv
<1>1. InboxRowsOK' BY DEF I!StartProcess, InboxRowsOK
<1>2. InboxOpsOK' BY DEF I!StartProcess, InboxOpsOK, Conversion
<1>3. LockedAsRead' BY DEF I!StartProcess, LockedAsRead, I!Locks, I!Free, InboxRowsOK, InboxOpsOK
<1>4. ReopenBudget' /\ I!TargetKept' BY DEF I!StartProcess, ReopenBudget, I!TargetKept
<1> QED BY <1>1, <1>2, <1>3, <1>4

LEMMA InboxProcess ==
  ASSUME InboxInv, NEW r \in InboxRequests, I!Process(r)
  PROVE  InboxInv'
<1> USE DEF InboxInv
<1> DEFINE i == inboxOp[r].item
           n == conversions[i] + (IF inboxOp[r].type = "task" THEN 1 ELSE 0)
<1>1. inboxOp[r] \in Conversion /\ i \in Items /\ I!Locks(r, i) /\ n \in Nat
  BY DEF I!Process, InboxOpsOK, InboxRowsOK, Conversion, Editing, I!Idle, I!Locks
<1>2. /\ items[i] # None /\ items[i] \in InboxRow /\ ~items[i].is_processed /\ i \notin toCreate /\ I!Free(r, i)
      /\ items' = [items EXCEPT ![i].is_processed = TRUE,
                     ![i].target = IF inboxOp[r].type = "task" THEN n ELSE @]
      /\ conversions' = [conversions EXCEPT ![i] = n]
      /\ retargeted' = IF inboxOp[r].type = "task" THEN retargeted \ {i} ELSE retargeted
      /\ UNCHANGED <<toCreate, reopened>> /\ I!End(r)
  BY <1>1 DEF I!Process, LockedAsRead, InboxRowsOK
<1>3. /\ items'[i] = [is_processed |-> TRUE,
                      target |-> IF inboxOp[r].type = "task" THEN n ELSE items[i].target]
      /\ \A j \in Items \ {i} : items'[j] = items[j]
      /\ conversions'[i] = n /\ \A j \in Items \ {i} : conversions'[j] = conversions[j]
  BY <1>1, <1>2 DEF InboxRowsOK, InboxRow
<1>4. InboxRowsOK'
  <2>1. n \in Int /\ items[i].target \in Int BY <1>1, <1>2 DEF InboxRow
  <2>2. items'[i] \in InboxRow BY <2>1, <1>3 DEF InboxRow
  <2> HIDE DEF n
  <2> QED BY <2>2, <1>1, <1>2, <1>3 DEF InboxRowsOK
<1>5. InboxOpsOK' BY <1>2, InboxEnd
<1>6. LockedAsRead'
  <2> SUFFICES ASSUME NEW q \in InboxRequests, NEW j \in Items, I!Locks(q, j)'
               PROVE  /\ items'[j] # None => ~items'[j].is_processed
                      /\ j \notin toCreate'
                      /\ I!Free(q, j)'
    BY DEF LockedAsRead
  <2>1. q # r /\ I!Locks(q, j) BY <1>2, InboxEnd
  <2>2. j # i BY <2>1, <1>2 DEF I!Free
  <2>3. I!Free(q, j)' BY <2>1, <1>2, InboxEnd DEF LockedAsRead, I!Free
  <2> QED BY <2>1, <2>2, <2>3, <1>2, <1>3 DEF LockedAsRead
<1>7. ReopenBudget'
  <2> SUFFICES ASSUME NEW j \in Items
               PROVE  conversions'[j] <= reopened'[j]
                        + (IF items'[j] # None /\ ~items'[j].is_processed THEN 0 ELSE 1)
    BY DEF ReopenBudget
  <2>1. CASE j = i
    <3>1. items'[i].is_processed = TRUE /\ reopened' = reopened BY <1>2, <1>3
    <3>2. conversions[i] <= reopened[i] BY <1>1, <1>2 DEF ReopenBudget, InboxRowsOK
    <3>3. conversions[i] \in Nat /\ reopened[i] \in Nat /\ conversions'[i] <= conversions[i] + 1
      BY <1>1, <1>3 DEF InboxRowsOK
    <3> HIDE DEF i, n
    <3>4. (IF items'[j] # None /\ ~items'[j].is_processed THEN 0 ELSE 1) = 1
      BY <2>1, <3>1, Zenon
    <3>5. conversions'[j] <= reopened'[j] + 1
      <4>1. conversions'[i] \in Nat BY <1>4, <1>1 DEF InboxRowsOK, i
      <4> QED BY <2>1, <3>1, <3>2, <3>3, <4>1
    <3> QED BY <3>4, <3>5
  <2>2. CASE j # i BY <2>2, <1>2, <1>3 DEF ReopenBudget
  <2> QED BY <2>1, <2>2
<1>8. I!TargetKept'
  <2>1. CASE inboxOp[r].type = "task"
    <3>1. items'[i].target = conversions'[i] /\ retargeted' = retargeted \ {i}
      BY <2>1, <1>2, <1>3
    <3> HIDE DEF i, n
    <3> QED BY <3>1, <1>3 DEF I!TargetKept
  <2>2. CASE inboxOp[r].type # "task"
    <3>1. conversions[i] \in Nat BY <1>1 DEF InboxRowsOK
    <3>2. /\ items'[i].target = items[i].target /\ conversions'[i] = conversions[i]
          /\ retargeted' = retargeted
      BY <2>2, <3>1, <1>2, <1>3
    <3> HIDE DEF i, n
    <3> QED BY <3>2, <1>2, <1>3 DEF I!TargetKept
  <2> QED BY <2>1, <2>2
<1> QED BY <1>4, <1>5, <1>6, <1>7, <1>8

LEMMA InboxStartEdit ==
  ASSUME InboxInv, NEW r \in InboxRequests, NEW i \in Items, I!StartEdit(r, i)
  PROVE  InboxInv'
<1> USE DEF InboxInv
<1>0. PICK new \in I!Edits(items[i]) :
        inboxOp' = [inboxOp EXCEPT ![r] = [at |-> "edit", item |-> i, was |-> items[i], new |-> new]]
  BY DEF I!StartEdit
<1>1. InboxRowsOK' BY DEF I!StartEdit, InboxRowsOK
<1>2. items[i] \in InboxRow /\ new \in InboxRow
  BY DEF I!StartEdit, I!Edits, I!Other, InboxRowsOK, InboxRow
<1>3. InboxOpsOK' BY <1>0, <1>2 DEF InboxOpsOK, Editing
<1>4. LockedAsRead' BY <1>0 DEF I!StartEdit, LockedAsRead, I!Locks, I!Free, InboxOpsOK
<1>5. ReopenBudget' /\ I!TargetKept' BY DEF I!StartEdit, ReopenBudget, I!TargetKept
<1> QED BY <1>1, <1>3, <1>4, <1>5

LEMMA InboxEdit ==
  ASSUME InboxInv, NEW r \in InboxRequests, I!Edit(r)
  PROVE  InboxInv'
<1> USE DEF InboxInv
<1> DEFINE o == inboxOp[r]
           i == o.item
<1>1. o \in Editing /\ i \in Items
  BY DEF I!Edit, InboxOpsOK, Conversion, Editing, I!Idle
<1>2. /\ items[i] # None /\ I!Free(r, i)
      /\ items' = [items EXCEPT ![i] = I!Written(o.was, o.new, @)]
      /\ reopened' = [reopened EXCEPT ![i] = @ + (IF I!Reopens(o) THEN 1 ELSE 0)]
      /\ retargeted' = IF o.new.target # o.was.target THEN retargeted \cup {i} ELSE retargeted
      /\ UNCHANGED <<toCreate, conversions>> /\ I!End(r)
  BY DEF I!Edit
<1>3. items[i] \in InboxRow /\ i \notin toCreate BY <1>1, <1>2 DEF InboxRowsOK
<1>4. /\ I!Written(o.was, o.new, items[i]) \in InboxRow
      /\ o.new.target = o.was.target =>
           I!Written(o.was, o.new, items[i]).target = items[i].target
      /\ I!Written(o.was, o.new, items[i]).is_processed =
           IF o.new.is_processed # o.was.is_processed
             THEN o.new.is_processed ELSE items[i].is_processed
  BY <1>1, <1>3 DEF I!Written, InboxRow, Editing
<1>5. /\ items'[i] = I!Written(o.was, o.new, items[i])
      /\ \A j \in Items \ {i} : items'[j] = items[j]
      /\ reopened'[i] = reopened[i] + (IF I!Reopens(o) THEN 1 ELSE 0)
      /\ \A j \in Items \ {i} : reopened'[j] = reopened[j]
  BY <1>1, <1>2 DEF InboxRowsOK
<1>6. InboxRowsOK' BY <1>1, <1>2, <1>3, <1>4, <1>5 DEF InboxRowsOK
<1>7. InboxOpsOK' BY <1>2, InboxEnd
<1>8. \A q \in InboxRequests : ~I!Locks(q, i)
  BY <1>1, <1>2 DEF I!Free, I!Locks, Editing
<1>9. LockedAsRead'
  <2> SUFFICES ASSUME NEW q \in InboxRequests, NEW j \in Items, I!Locks(q, j)'
               PROVE  /\ items'[j] # None => ~items'[j].is_processed
                      /\ j \notin toCreate'
                      /\ I!Free(q, j)'
    BY DEF LockedAsRead
  <2>1. q # r /\ I!Locks(q, j) BY <1>2, InboxEnd
  <2>2. j # i BY <2>1, <1>8
  <2>3. I!Free(q, j)' BY <2>1, <1>2, InboxEnd DEF LockedAsRead, I!Free
  <2> QED BY <2>1, <2>2, <2>3, <1>2, <1>5 DEF LockedAsRead
<1>10. ReopenBudget'
  <2> SUFFICES ASSUME NEW j \in Items
               PROVE  conversions'[j] <= reopened'[j]
                        + (IF items'[j] # None /\ ~items'[j].is_processed THEN 0 ELSE 1)
    BY DEF ReopenBudget
  <2>1. CASE j = i
    <3>1. conversions[i] <= reopened[i] + (IF ~items[i].is_processed THEN 0 ELSE 1)
      BY <1>1, <1>2 DEF ReopenBudget
    <3>2. o.was.is_processed \in BOOLEAN /\ o.new.is_processed \in BOOLEAN
      BY <1>1 DEF Editing, InboxRow
    <3>3. /\ items'[i].is_processed = IF o.new.is_processed # o.was.is_processed
                                       THEN o.new.is_processed ELSE items[i].is_processed
          /\ conversions[i] \in Nat /\ reopened[i] \in Nat
          /\ items[i].is_processed \in BOOLEAN
      BY <1>1, <1>3, <1>4, <1>5 DEF InboxRowsOK, InboxRow
    <3> QED BY <2>1, <3>1, <3>2, <3>3, <1>2, <1>5 DEF I!Reopens
  <2>2. CASE j # i BY <2>2, <1>2, <1>5 DEF ReopenBudget
  <2> QED BY <2>1, <2>2
<1>11. I!TargetKept' BY <1>1, <1>2, <1>4, <1>5 DEF I!TargetKept
<1> QED BY <1>6, <1>7, <1>9, <1>10, <1>11

LEMMA InboxFail ==
  ASSUME InboxInv, NEW r \in InboxRequests, I!Fail(r)
  PROVE  InboxInv'
<1> USE DEF InboxInv
<1>1. InboxRowsOK' BY DEF I!Fail, InboxRowsOK
<1>2. InboxOpsOK' BY InboxEnd DEF I!Fail
<1>3. LockedAsRead' BY InboxEnd DEF I!Fail, LockedAsRead, I!Free
<1>4. ReopenBudget' /\ I!TargetKept' BY DEF I!Fail, ReopenBudget, I!TargetKept
<1> QED BY <1>1, <1>2, <1>3, <1>4

LEMMA InboxDelete ==
  ASSUME InboxInv, NEW r \in InboxRequests, NEW i \in Items, I!Delete(r, i)
  PROVE  InboxInv'
<1> USE DEF InboxInv
<1>1. InboxRowsOK' BY DEF I!Delete, InboxRowsOK
<1>2. InboxOpsOK' BY DEF I!Delete, InboxOpsOK
<1>3. LockedAsRead' BY DEF I!Delete, LockedAsRead, I!Locks, I!Free, InboxRowsOK
<1>4. ReopenBudget' BY DEF I!Delete, ReopenBudget, InboxRowsOK
<1>5. I!TargetKept' BY DEF I!Delete, I!TargetKept, InboxRowsOK
<1> QED BY <1>1, <1>2, <1>3, <1>4, <1>5

-----------------------------------------------------------------------------
\* Every step of a request keeps the invariant.
LEMMA InboxStep == InboxInv /\ [I!Next]_I!ivars => InboxInv'
<1> SUFFICES ASSUME InboxInv, [I!Next]_I!ivars PROVE InboxInv'
  OBVIOUS
<1>1. CASE UNCHANGED I!ivars
  BY <1>1 DEF InboxInv, I!ivars, InboxRowsOK, InboxOpsOK, LockedAsRead, ReopenBudget, I!TargetKept, I!Locks, I!Free
<1>2. CASE I!Next
  BY <1>2, InboxCreate, InboxStartProcess, InboxProcess, InboxStartEdit, InboxEdit, InboxFail,
     InboxDelete DEF I!Next
<1> QED BY <1>1, <1>2

\* A conversion has the row of its item as it was read, and no other conversion has
\* (process_inbox_item).
THEOREM InboxInvariant == I!Spec => []InboxInv
BY InboxInit, InboxStep, PTL DEF I!Spec

\* However many sessions convert, edit, classify and delete the items of the inbox,
\* an item becomes at most one task more than it was reopened (process_inbox_item).
THEOREM Converted == I!Spec => []ConvertedOnce
<1>1. InboxInv => ConvertedOnce
  BY DEF InboxInv, InboxRowsOK, ReopenBudget, I!ConvertedOnce, ConvertedOnce
<1> QED BY <1>1, InboxInvariant, PTL

\* An item names the task that was made of it last, unless a user's update has
\* written another target since: no other edit that was read before a conversion
\* takes it back (process_inbox_item, update_inbox_item).
THEOREM NamesItsTask == I!Spec => []TargetKept
<1>1. InboxInv => TargetKept
  BY DEF InboxInv, TargetKept
<1> QED BY <1>1, InboxInvariant, PTL
-----------------------------------------------------------------------------
(***************************************************************************)
(* The board.  What a request has validated about the links of a block     *)
(* stays true until it saves the block, unless the task is moved, or a     *)
(* deletion intervenes that the foreign keys then notice: rows do not come *)
(* back under the same key.                                                *)
(***************************************************************************)
TaskRow == [project : Projects \cup {None}, status : Statuses, completed : BOOLEAN]

BoardRowsOK ==
  /\ projects \subseteq Projects
  /\ tasks \in [Tasks -> TaskRow \cup {None}]
  /\ blocks \in [Blocks -> B!Links \cup {None}]
  /\ projects \cap unused = {}
  /\ \A t \in Tasks \cap unused : tasks[t] = None

TaskEdits == [at : {"task"}, id : Tasks, was : TaskRow]
Validations == [at : {"validate"}, id : Blocks, was : B!Links \cup {None}]
BlockEdits == [at : {"block"}, id : Blocks, was : B!Links \cup {None}, new : B!Links]
Removals == [at : {"remove"}, projects : SUBSET Projects, tasks : SUBSET Tasks,
             projectBlocks : SUBSET Blocks, taskBlocks : SUBSET Blocks]

BoardOpsOK ==
  /\ DOMAIN boardOp = Requests
  /\ \A r \in Requests :
       \/ boardOp[r] = B!Idle
       \/ boardOp[r] \in TaskEdits \cup Validations \cup BlockEdits
       \/ boardOp[r] \in Removals /\ (boardOp[r].projects \cup boardOp[r].tasks) \cap unused = {}

\* The links that a request is about to save agree, or one of the two rows has
\* been deleted since, for good.
ValidatedHolds ==
  \A r \in Requests :
    boardOp[r].at = "block" =>
      LET new == boardOp[r].new
      IN  new.task # None /\ new.project # None /\ new.task \notin moved =>
            \/ tasks[new.task] # None /\ tasks[new.task].project = new.project
            \/ tasks[new.task] = None /\ new.task \notin unused
            \/ new.project \notin projects \cup unused

BoardInv == BoardRowsOK /\ BoardOpsOK /\ ValidatedHolds /\ B!CompletionKept /\ LinksAgree

-----------------------------------------------------------------------------
LEMMA BoardInit == B!Init => BoardInv
BY DEF B!Init, BoardInv, BoardRowsOK, BoardOpsOK, ValidatedHolds, LinksAgree,
       B!CompletionKept, B!LinksAgree, B!Idle

\* What a request knows, by the step that it is at.
LEMMA BoardKnown ==
  ASSUME BoardOpsOK, NEW r \in Requests
  PROVE  /\ boardOp[r].at = "task" => boardOp[r] \in TaskEdits
         /\ boardOp[r].at = "validate" => boardOp[r] \in Validations
         /\ boardOp[r].at = "block" => boardOp[r] \in BlockEdits
         /\ boardOp[r].at = "remove" =>
              boardOp[r] \in Removals /\ (boardOp[r].projects \cup boardOp[r].tasks) \cap unused = {}
BY DEF BoardOpsOK, B!Idle, TaskEdits, Validations, BlockEdits, Removals

\* A request that ends knows nothing more.
LEMMA BoardEnd ==
  ASSUME BoardOpsOK, NEW r \in Requests, B!End(r), unused' \subseteq unused
  PROVE  /\ BoardOpsOK'
         /\ \A q \in Requests : boardOp'[q].at = "block" => q # r /\ boardOp'[q] = boardOp[q]
<1>1. boardOp' = [boardOp EXCEPT ![r] = B!Idle]
  BY DEF B!End
<1>2. DOMAIN boardOp' = Requests /\ boardOp'[r] = B!Idle
  BY <1>1 DEF BoardOpsOK
<1>3. \A q \in Requests : q # r => boardOp'[q] = boardOp[q]
  BY <1>1 DEF BoardOpsOK
<1>4. BoardOpsOK'
  BY <1>2, <1>3 DEF BoardOpsOK
<1> QED
  BY <1>2, <1>3, <1>4 DEF B!Idle

\* A request starts with o.
LEMMA BoardStart ==
  ASSUME BoardInv, NEW r \in Requests, NEW o, B!Start(r, o),
         \/ o \in TaskEdits \cup Validations
         \/ o \in Removals /\ (o.projects \cup o.tasks) \cap unused = {}
  PROVE  BoardInv'
<1> USE DEF BoardInv
<1>1. /\ boardOp' = [boardOp EXCEPT ![r] = o]
      /\ UNCHANGED <<projects, tasks, blocks, unused, moved, mixed>>
  BY DEF B!Start
<1>2. DOMAIN boardOp' = Requests /\ boardOp'[r] = o
  BY <1>1 DEF BoardOpsOK
<1>3. \A q \in Requests : q # r => boardOp'[q] = boardOp[q]
  BY <1>1 DEF BoardOpsOK
<1>4. BoardOpsOK'
  BY <1>1, <1>2, <1>3 DEF BoardOpsOK
<1>5. o.at # "block"
  BY DEF TaskEdits, Validations, Removals
<1>6. ValidatedHolds'
  BY <1>1, <1>2, <1>3, <1>5 DEF ValidatedHolds
<1>7. BoardRowsOK' /\ B!CompletionKept' /\ LinksAgree'
  BY <1>1 DEF BoardRowsOK, LinksAgree, B!CompletionKept, B!LinksAgree
<1> QED
  BY <1>4, <1>6, <1>7

LEMMA BoardCreateProject ==
  ASSUME BoardInv, NEW p \in Projects, B!CreateProject(p)
  PROVE  BoardInv'
<1> USE DEF BoardInv, B!CreateProject
<1>1. BoardRowsOK'
  BY DEF BoardRowsOK
<1>2. BoardOpsOK'
  BY DEF BoardOpsOK
<1>3. ValidatedHolds'
  BY DEF ValidatedHolds
<1>4. B!CompletionKept' /\ LinksAgree'
  BY DEF LinksAgree, B!CompletionKept, B!LinksAgree
<1> QED
  BY <1>1, <1>2, <1>3, <1>4

LEMMA BoardCreateTask ==
  ASSUME BoardInv, NEW t \in Tasks, NEW p \in Projects \cup {None}, NEW s \in Statuses,
         B!CreateTask(t, p, s)
  PROVE  BoardInv'
<1> USE DEF BoardInv
<1> DEFINE row == [project |-> p, status |-> s, completed |-> s = "done"]
<1>1. /\ t \in unused /\ unused' = unused \ {t}
      /\ tasks' = [tasks EXCEPT ![t] = row]
      /\ UNCHANGED <<projects, blocks, moved, mixed, boardOp>>
  BY DEF B!CreateTask
<1>2. row \in TaskRow
  BY DEF TaskRow
<1>3. tasks[t] = None /\ tasks'[t] = row /\ \A x \in Tasks : x # t => tasks'[x] = tasks[x]
  BY <1>1 DEF BoardRowsOK
<1>4. BoardRowsOK'
  BY <1>1, <1>2 DEF BoardRowsOK
<1>5. BoardOpsOK'
  BY <1>1 DEF BoardOpsOK
<1>6. ValidatedHolds'
  <2> SUFFICES ASSUME NEW r \in Requests, boardOp[r].at = "block",
                      boardOp[r].new.task # None, boardOp[r].new.project # None,
                      boardOp[r].new.task \notin moved
               PROVE  LET new == boardOp[r].new
                      IN  \/ tasks'[new.task] # None /\ tasks'[new.task].project = new.project
                          \/ tasks'[new.task] = None /\ new.task \notin unused'
                          \/ new.project \notin projects' \cup unused'
    BY <1>1 DEF ValidatedHolds
  <2>1. boardOp[r].new.task \in Tasks
    BY BoardKnown DEF BlockEdits, B!Links
  <2> QED
    BY <1>1, <1>3, <2>1 DEF ValidatedHolds
<1>7. B!CompletionKept'
  <2> SUFFICES ASSUME NEW x \in Tasks, x \notin mixed, tasks'[x] # None
               PROVE  tasks'[x].completed <=> tasks'[x].status = "done"
    BY <1>1 DEF B!CompletionKept
  <2>1. CASE x # t
    BY <1>3, <2>1 DEF B!CompletionKept
  <2>2. CASE x = t
    <3>1. row.completed <=> row.status = "done"
      OBVIOUS
    <3> QED
      BY <1>3, <2>2, <3>1
  <2> QED
    BY <2>1, <2>2
<1>8. LinksAgree'
  <2> SUFFICES ASSUME NEW b \in Blocks \ mixed, blocks[b] # None, blocks[b].task # None,
                      blocks[b].project # None, blocks[b].task \notin moved
               PROVE  tasks'[blocks[b].task] # None /\ tasks'[blocks[b].task].project = blocks[b].project
    BY <1>1 DEF LinksAgree, B!LinksAgree
  <2>1. blocks[b].task \in Tasks
    BY DEF BoardRowsOK, B!Links
  <2>2. tasks[blocks[b].task] # None /\ tasks[blocks[b].task].project = blocks[b].project
    BY DEF LinksAgree, B!LinksAgree
  <2> QED
    BY <1>3, <2>1, <2>2
<1> QED
  BY <1>4, <1>5, <1>6, <1>7, <1>8

\* What an update makes of a row.
LEMMA WrittenTask ==
  ASSUME NEW was \in TaskRow, NEW new \in TaskRow, NEW row \in TaskRow
  PROVE  /\ B!Written(was, new, row) \in TaskRow
         /\ B!Written(was, new, row).project
              = IF new.project # was.project THEN new.project ELSE row.project
         /\ B!Written(was, new, row).status
              = IF new.status # was.status THEN new.status ELSE row.status
         /\ B!Written(was, new, row).completed
              = IF new.completed # was.completed THEN new.completed ELSE row.completed
<1> DEFINE W == B!Written(was, new, row)
<1>1. DOMAIN row = {"project", "status", "completed"}
  BY DEF TaskRow
<1>2. W = [c \in {"project", "status", "completed"} |-> IF new[c] # was[c] THEN new[c] ELSE row[c]]
  BY <1>1 DEF B!Written
<1>3. /\ W["project"] = IF new["project"] # was["project"] THEN new["project"] ELSE row["project"]
      /\ W["status"] = IF new["status"] # was["status"] THEN new["status"] ELSE row["status"]
      /\ W["completed"] = IF new["completed"] # was["completed"] THEN new["completed"] ELSE row["completed"]
  BY <1>2
<1>4. W = [project |-> W["project"], status |-> W["status"], completed |-> W["completed"]]
  BY <1>2
<1>5. /\ W["project"] \in Projects \cup {None} /\ W["status"] \in Statuses
      /\ W["completed"] \in BOOLEAN
  BY <1>3 DEF TaskRow
<1> HIDE DEF W
<1>6. W \in TaskRow
  BY <1>4, <1>5 DEF TaskRow
<1> QED
  BY <1>3, <1>6 DEF W

\* What a PATCH makes of a row that has its time of completion exactly while it
\* is done, and that it has the types of a row.
LEMMA PatchedTask ==
  ASSUME BoardRowsOK, NEW was \in TaskRow, NEW new \in B!Patches(was)
  PROVE  /\ new \in TaskRow
         /\ (was.completed <=> was.status = "done") => (new.completed <=> new.status = "done")
<1>1. PICK p \in projects \cup {None, was.project},
           n \in {was} \cup {B!WithStatus(was, s) : s \in Statuses} : new = [n EXCEPT !.project = p]
  BY DEF B!Patches
<1>2. p \in Projects \cup {None}
  BY DEF BoardRowsOK, TaskRow
<1>3. CASE n = was
  BY <1>1, <1>2, <1>3 DEF TaskRow
<1>4. CASE n # was
  <2>1. PICK s \in Statuses : n = B!WithStatus(was, s)
    BY <1>1, <1>4
  <2>2. /\ n \in TaskRow /\ n.status = s
        /\ n.completed = IF s = "done" THEN was.completed \/ was.status # "done" ELSE FALSE
    BY <2>1 DEF B!WithStatus, TaskRow
  <2>3. new \in TaskRow /\ new.status = s /\ new.completed = n.completed
    BY <1>1, <1>2, <2>2 DEF TaskRow
  <2> QED
    BY <2>2, <2>3
<1> QED
  BY <1>3, <1>4

LEMMA BoardSaveTask ==
  ASSUME BoardInv, NEW r \in Requests, B!SaveTask(r)
  PROVE  BoardInv'
<1> USE DEF BoardInv
<1> DEFINE t == boardOp[r].id
           was == boardOp[r].was
           row == tasks[t]
<1>1. PICK new \in B!Patches(was) : tasks' = [tasks EXCEPT ![t] = B!Written(was, new, row)]
  BY DEF B!SaveTask
<1>2. /\ boardOp[r].at = "task" /\ row # None
      /\ moved' = IF tasks'[t].project # row.project THEN moved \cup {t} ELSE moved
      /\ mixed' = IF B!Progress(row) # B!Progress(was) THEN mixed \cup {t} ELSE mixed
      /\ B!End(r)
      /\ UNCHANGED <<projects, blocks, unused>>
  BY DEF B!SaveTask
<1>3. t \in Tasks /\ was \in TaskRow
  BY <1>2, BoardKnown DEF TaskEdits
<1>4. row \in TaskRow /\ t \notin unused
  BY <1>2, <1>3 DEF BoardRowsOK
<1> DEFINE W == B!Written(was, new, row)
<1>5. /\ new \in TaskRow
      /\ (was.completed <=> was.status = "done") => (new.completed <=> new.status = "done")
  BY <1>1, <1>3, PatchedTask
<1>6. /\ W \in TaskRow
      /\ W.status = IF new.status # was.status THEN new.status ELSE row.status
      /\ W.completed = IF new.completed # was.completed THEN new.completed ELSE row.completed
  BY <1>3, <1>4, <1>5, WrittenTask
<1> HIDE DEF W
<1>7. tasks'[t] = W /\ W # None /\ \A x \in Tasks : x # t => tasks'[x] = tasks[x]
  BY <1>1, <1>3, <1>6, RecordsAssumption DEF BoardRowsOK, TaskRow, W
<1>8. BoardRowsOK'
  <2>1. tasks' \in [Tasks -> TaskRow \cup {None}]
    BY <1>1, <1>6 DEF BoardRowsOK, W
  <2> QED
    BY <1>2, <1>4, <1>7, <2>1 DEF BoardRowsOK
<1>9. BoardOpsOK' /\ \A q \in Requests : boardOp'[q].at = "block" => q # r /\ boardOp'[q] = boardOp[q]
  BY <1>2, BoardEnd
<1>10. \A x \in Tasks : /\ tasks[x] = None <=> tasks'[x] = None
                        /\ x \notin moved' /\ tasks[x] # None => tasks'[x].project = tasks[x].project
  BY <1>2, <1>7
<1>11. moved \subseteq moved' /\ mixed \subseteq mixed'
  BY <1>2
<1>12. ValidatedHolds'
  <2> SUFFICES ASSUME NEW q \in Requests, boardOp'[q].at = "block",
                      boardOp'[q].new.task # None, boardOp'[q].new.project # None,
                      boardOp'[q].new.task \notin moved'
               PROVE  LET n == boardOp'[q].new
                      IN  \/ tasks'[n.task] # None /\ tasks'[n.task].project = n.project
                          \/ tasks'[n.task] = None /\ n.task \notin unused'
                          \/ n.project \notin projects' \cup unused'
    BY DEF ValidatedHolds
  <2>1. boardOp'[q] = boardOp[q]
    BY <1>9
  <2>2. boardOp[q].new.task \in Tasks
    BY <2>1, BoardKnown DEF BlockEdits, B!Links
  <2> QED
    BY <1>2, <1>10, <1>11, <2>1, <2>2 DEF ValidatedHolds
<1>13. B!CompletionKept'
  <2> SUFFICES ASSUME NEW x \in Tasks, x \notin mixed', tasks'[x] # None
               PROVE  tasks'[x].completed <=> tasks'[x].status = "done"
    BY DEF B!CompletionKept
  <2>1. CASE x # t
    BY <1>7, <1>11, <2>1 DEF B!CompletionKept
  <2>2. CASE x = t
    <3>1. B!Progress(row) = B!Progress(was) /\ t \notin mixed
      BY <1>2, <2>2
    <3>2. row.status = was.status /\ row.completed = was.completed
      BY <3>1 DEF B!Progress
    <3>3. was.completed <=> was.status = "done"
      BY <1>2, <1>3, <3>1, <3>2 DEF B!CompletionKept
    <3>4. W.status = new.status
      BY <1>6, <3>2
    <3>5. W.completed = new.completed
      BY <1>6, <3>2
    <3> QED
      BY <1>5, <1>7, <2>2, <3>3, <3>4, <3>5
  <2> QED
    BY <2>1, <2>2
<1>14. LinksAgree'
  <2> SUFFICES ASSUME NEW b \in Blocks, b \notin mixed', blocks[b] # None, blocks[b].task # None,
                      blocks[b].project # None, blocks[b].task \notin moved'
               PROVE  tasks'[blocks[b].task] # None /\ tasks'[blocks[b].task].project = blocks[b].project
    BY <1>2 DEF LinksAgree, B!LinksAgree
  <2>1. blocks[b].task \in Tasks
    BY DEF BoardRowsOK, B!Links
  <2>2. tasks[blocks[b].task] # None /\ tasks[blocks[b].task].project = blocks[b].project
    BY <1>11 DEF LinksAgree, B!LinksAgree
  <2> QED
    BY <1>10, <2>1, <2>2
<1> QED
  BY <1>8, <1>9, <1>12, <1>13, <1>14

LEMMA BoardValidateBlock ==
  ASSUME BoardInv, NEW r \in Requests, B!ValidateBlock(r)
  PROVE  BoardInv'
<1> USE DEF BoardInv
<1>1. PICK new \in B!Links :
        /\ B!LinksValid(new)
        /\ boardOp' = [boardOp EXCEPT ![r] = [at |-> "block", id |-> boardOp[r].id,
                                             was |-> boardOp[r].was, new |-> new]]
  BY DEF B!ValidateBlock
<1>2. boardOp[r].at = "validate" /\ UNCHANGED <<projects, tasks, blocks, unused, moved, mixed>>
  BY DEF B!ValidateBlock
<1> DEFINE o == [at |-> "block", id |-> boardOp[r].id, was |-> boardOp[r].was, new |-> new]
<1>3. o \in BlockEdits
  BY <1>2, BoardKnown DEF BlockEdits, Validations
<1>4. DOMAIN boardOp' = Requests /\ boardOp'[r] = o
  BY <1>1 DEF BoardOpsOK
<1>5. \A q \in Requests : q # r => boardOp'[q] = boardOp[q]
  BY <1>1 DEF BoardOpsOK
<1>6. BoardOpsOK'
  <2> HIDE DEF o
  <2> QED
    BY <1>2, <1>3, <1>4, <1>5 DEF BoardOpsOK
<1>7. new.task # None /\ new.project # None =>
        tasks[new.task] # None /\ tasks[new.task].project = new.project
  BY <1>1 DEF B!LinksValid
<1>8. ValidatedHolds'
  <2>1. o.new = new
    OBVIOUS
  <2> HIDE DEF o
  <2> QED
    BY <1>2, <1>4, <1>5, <1>7, <2>1 DEF ValidatedHolds
<1>9. BoardRowsOK' /\ B!CompletionKept' /\ LinksAgree'
  BY <1>2 DEF BoardRowsOK, LinksAgree, B!CompletionKept, B!LinksAgree
<1> QED
  BY <1>6, <1>8, <1>9

\* An update of a block that was as it had been read writes what was validated.
LEMMA WrittenBlock ==
  ASSUME NEW was \in B!Links, NEW new \in B!Links, NEW row \in B!Links
  PROVE  /\ B!Written(was, new, row) \in B!Links
         /\ row = was => B!Written(was, new, row) = new
<1> DEFINE W == B!Written(was, new, row)
<1>1. DOMAIN row = {"task", "project"}
  BY DEF B!Links
<1>2. W = [c \in {"task", "project"} |-> IF new[c] # was[c] THEN new[c] ELSE row[c]]
  BY <1>1 DEF B!Written
<1>3. /\ W["task"] = IF new["task"] # was["task"] THEN new["task"] ELSE row["task"]
      /\ W["project"] = IF new["project"] # was["project"] THEN new["project"] ELSE row["project"]
  BY <1>2
<1>4. W = [task |-> W["task"], project |-> W["project"]]
  BY <1>2
<1>5. W["task"] \in Tasks \cup {None} /\ W["project"] \in Projects \cup {None}
  BY <1>3 DEF B!Links
<1>6. new = [task |-> new["task"], project |-> new["project"]]
  BY DEF B!Links
<1> HIDE DEF W
<1>7. W \in B!Links
  BY <1>4, <1>5 DEF B!Links
<1>8. row = was => W["task"] = new["task"] /\ W["project"] = new["project"]
  BY <1>3
<1> QED
  BY <1>4, <1>6, <1>7, <1>8 DEF W

LEMMA BoardSaveBlock ==
  ASSUME BoardInv, NEW r \in Requests, B!SaveBlock(r)
  PROVE  BoardInv'
<1> USE DEF BoardInv
<1> DEFINE o == boardOp[r]
           b == o.id
           row == blocks[b]
           new == IF o.was = None THEN o.new ELSE B!Written(o.was, o.new, row)
<1>1. /\ o.at = "block" /\ (o.was # None => row # None)
      /\ B!ReferencesHold(new)
      /\ blocks' = [blocks EXCEPT ![b] = new]
      /\ unused' = unused \ {b}
      /\ mixed' = IF row # o.was THEN mixed \cup {b} ELSE mixed
      /\ B!End(r)
      /\ UNCHANGED <<projects, tasks, moved>>
  BY DEF B!SaveBlock
<1>2. b \in Blocks /\ o.was \in B!Links \cup {None} /\ o.new \in B!Links
  BY <1>1, BoardKnown DEF BlockEdits
<1>3. row \in B!Links \cup {None}
  BY <1>2 DEF BoardRowsOK
<1>4. new \in B!Links /\ (row = o.was => new = o.new)
  BY <1>1, <1>2, <1>3, WrittenBlock
<1>5. BoardOpsOK' /\ \A q \in Requests : boardOp'[q].at = "block" => q # r /\ boardOp'[q] = boardOp[q]
  BY <1>1, BoardEnd
<1> HIDE DEF new
<1>6. blocks'[b] = new /\ \A x \in Blocks : x # b => blocks'[x] = blocks[x]
  BY <1>1, <1>2 DEF BoardRowsOK
<1>7. BoardRowsOK'
  <2>1. blocks' \in [Blocks -> B!Links \cup {None}]
    BY <1>1, <1>4 DEF BoardRowsOK
  <2> QED
    BY <1>1, <2>1 DEF BoardRowsOK
<1>8. ValidatedHolds'
  BY <1>1, <1>5 DEF ValidatedHolds
<1>9. B!CompletionKept'
  BY <1>1 DEF B!CompletionKept
<1>10. LinksAgree'
  <2> SUFFICES ASSUME NEW x \in Blocks, x \notin mixed', blocks'[x] # None, blocks'[x].task # None,
                      blocks'[x].project # None, blocks'[x].task \notin moved
               PROVE  tasks[blocks'[x].task] # None /\ tasks[blocks'[x].task].project = blocks'[x].project
    BY <1>1 DEF LinksAgree, B!LinksAgree
  <2>1. CASE x # b
    BY <1>1, <1>6, <2>1 DEF LinksAgree, B!LinksAgree
  <2>2. CASE x = b
    <3>1. new = o.new
      BY <1>1, <1>4, <2>2
    <3>2. /\ new.task # None /\ new.project # None /\ new.task \notin moved
      BY <1>6, <2>2
    <3>3. new.project \in projects /\ tasks[new.task] # None
      BY <1>1, <3>2 DEF B!ReferencesHold, B!ProjectExists
    <3>4. \/ tasks[new.task] # None /\ tasks[new.task].project = new.project
          \/ tasks[new.task] = None /\ new.task \notin unused
          \/ new.project \notin projects \cup unused
      BY <1>1, <3>1, <3>2 DEF ValidatedHolds
    <3> QED
      BY <1>6, <2>2, <3>3, <3>4
  <2> QED
    BY <2>1, <2>2
<1> QED
  BY <1>5, <1>7, <1>8, <1>9, <1>10

LEMMA BoardDeleteBlock ==
  ASSUME BoardInv, NEW b \in Blocks, B!DeleteBlock(b)
  PROVE  BoardInv'
<1> USE DEF BoardInv, B!DeleteBlock
<1>1. BoardRowsOK'
  BY DEF BoardRowsOK
<1>2. BoardOpsOK' /\ ValidatedHolds' /\ B!CompletionKept'
  BY DEF BoardOpsOK, ValidatedHolds, B!CompletionKept
<1>3. LinksAgree'
  BY DEF LinksAgree, B!LinksAgree, BoardRowsOK
<1> QED
  BY <1>1, <1>2, <1>3

LEMMA BoardRemove ==
  ASSUME BoardInv, NEW r \in Requests, B!Remove(r)
  PROVE  BoardInv'
<1> USE DEF BoardInv
<1> DEFINE ps == boardOp[r].projects
           ts == boardOp[r].tasks
<1>1. PICK pb, tb :
        /\ projects' = projects \ ps
        /\ tasks' = [t \in Tasks |->
                        IF t \in ts \/ tasks[t] = None THEN None
                        ELSE IF tasks[t].project \in ps THEN [tasks[t] EXCEPT !.project = None]
                        ELSE tasks[t]]
        /\ blocks' = [b \in Blocks |-> IF blocks[b] = None THEN None
                                       ELSE B!Unlinked(blocks[b], b, ps, ts, pb, tb)]
  BY DEF B!Remove, B!Removed
<1>2. boardOp[r].at = "remove" /\ B!End(r) /\ UNCHANGED <<unused, moved, mixed>>
  BY DEF B!Remove
<1>3. /\ ps \subseteq Projects /\ ts \subseteq Tasks
      /\ ps \cap unused = {} /\ ts \cap unused = {}
  BY <1>2, BoardKnown DEF Removals
<1> HIDE DEF ps, ts
<1>4. BoardOpsOK' /\ \A q \in Requests : boardOp'[q].at = "block" => q # r /\ boardOp'[q] = boardOp[q]
  BY <1>2, BoardEnd
<1>5. ASSUME NEW t \in Tasks
      PROVE  /\ tasks'[t] \in TaskRow \cup {None}
             /\ t \in ts \/ tasks[t] = None <=> tasks'[t] = None
             /\ tasks'[t] # None =>
                  /\ tasks'[t].status = tasks[t].status /\ tasks'[t].completed = tasks[t].completed
                  /\ tasks[t].project \notin ps => tasks'[t].project = tasks[t].project
  <2>1. CASE t \in ts \/ tasks[t] = None
    BY <1>1, <2>1
  <2>2. CASE t \notin ts /\ tasks[t] # None /\ tasks[t].project \in ps
    <3>1. tasks'[t] = [tasks[t] EXCEPT !.project = None]
      BY <1>1, <2>2
    <3>2. tasks[t] \in TaskRow
      BY <2>2 DEF BoardRowsOK
    <3>3. tasks'[t] \in TaskRow
      BY <3>1, <3>2 DEF TaskRow
    <3>4. tasks'[t] # None
      BY <3>3, RecordsAssumption DEF TaskRow
    <3> QED
      BY <2>2, <3>1, <3>2, <3>3, <3>4 DEF TaskRow
  <2>3. CASE t \notin ts /\ tasks[t] # None /\ tasks[t].project \notin ps
    BY <1>1, <2>3 DEF BoardRowsOK
  <2> QED
    BY <2>1, <2>2, <2>3
<1>6. ASSUME NEW b \in Blocks
      PROVE  /\ blocks'[b] \in B!Links \cup {None}
             /\ blocks'[b] # None =>
                  /\ blocks[b] # None
                  /\ blocks'[b].task # None =>
                       blocks'[b].task = blocks[b].task /\ blocks[b].task \notin ts
                  /\ blocks'[b].project # None =>
                       blocks'[b].project = blocks[b].project /\ blocks[b].project \notin ps
  <2>1. CASE blocks[b] = None
    BY <1>1, <2>1
  <2>2. CASE blocks[b] # None
    BY <1>1, <2>2 DEF BoardRowsOK, B!Unlinked, B!Links
  <2> QED
    BY <2>1, <2>2
<1>7. BoardRowsOK'
  BY <1>1, <1>2, <1>5, <1>6 DEF BoardRowsOK
<1>8. B!CompletionKept'
  BY <1>2, <1>5 DEF B!CompletionKept
<1>9. LinksAgree'
  <2> SUFFICES ASSUME NEW b \in Blocks, b \notin mixed, blocks'[b] # None, blocks'[b].task # None,
                      blocks'[b].project # None, blocks'[b].task \notin moved
               PROVE  tasks'[blocks'[b].task] # None /\ tasks'[blocks'[b].task].project = blocks'[b].project
    BY <1>2 DEF LinksAgree, B!LinksAgree
  <2>1. /\ blocks[b] # None
        /\ blocks'[b].task = blocks[b].task /\ blocks[b].task \notin ts
        /\ blocks'[b].project = blocks[b].project /\ blocks[b].project \notin ps
    BY <1>6
  <2>2. blocks[b].task \in Tasks
    BY <2>1 DEF BoardRowsOK, B!Links
  <2>3. tasks[blocks[b].task] # None /\ tasks[blocks[b].task].project = blocks[b].project
    BY <2>1 DEF LinksAgree, B!LinksAgree
  <2> QED
    BY <1>5, <2>1, <2>2, <2>3
<1>10. ValidatedHolds'
  <2> SUFFICES ASSUME NEW q \in Requests, boardOp'[q].at = "block",
                      boardOp'[q].new.task # None, boardOp'[q].new.project # None,
                      boardOp'[q].new.task \notin moved
               PROVE  LET n == boardOp'[q].new
                      IN  \/ tasks'[n.task] # None /\ tasks'[n.task].project = n.project
                          \/ tasks'[n.task] = None /\ n.task \notin unused
                          \/ n.project \notin projects' \cup unused
    BY <1>2 DEF ValidatedHolds
  <2> DEFINE n == boardOp[q].new
  <2>1. boardOp'[q] = boardOp[q]
    BY <1>4
  <2>2. n.task \in Tasks
    BY <2>1, BoardKnown DEF BlockEdits, B!Links
  <2>3. \/ tasks[n.task] # None /\ tasks[n.task].project = n.project
        \/ tasks[n.task] = None /\ n.task \notin unused
        \/ n.project \notin projects \cup unused
    BY <2>1 DEF ValidatedHolds
  <2> HIDE DEF n
  <2>4. \/ tasks'[n.task] # None /\ tasks'[n.task].project = n.project
        \/ tasks'[n.task] = None /\ n.task \notin unused
        \/ n.project \notin projects' \cup unused
    BY <1>1, <1>3, <1>5, <2>2, <2>3
  <2> QED
    BY <2>1, <2>4 DEF n
<1> QED
  BY <1>4, <1>7, <1>8, <1>9, <1>10

LEMMA BoardFail ==
  ASSUME BoardInv, NEW r \in Requests, B!Fail(r)
  PROVE  BoardInv'
<1> USE DEF BoardInv
<1>1. B!End(r) /\ UNCHANGED <<projects, tasks, blocks, unused, moved, mixed>>
  BY DEF B!Fail
<1>2. BoardOpsOK' /\ \A q \in Requests : boardOp'[q].at = "block" => q # r /\ boardOp'[q] = boardOp[q]
  BY <1>1, BoardEnd
<1>3. ValidatedHolds'
  BY <1>1, <1>2 DEF ValidatedHolds
<1>4. BoardRowsOK' /\ B!CompletionKept' /\ LinksAgree'
  BY <1>1 DEF BoardRowsOK, LinksAgree, B!CompletionKept, B!LinksAgree
<1> QED
  BY <1>2, <1>3, <1>4

\* The operations that only read start with something of the types.
LEMMA BoardReads ==
  ASSUME BoardInv, NEW r \in Requests
  PROVE  /\ \A t \in Tasks : B!ReadTask(r, t) \/ B!LoadTask(r, t) => BoardInv'
         /\ \A b \in Blocks : B!ReadBlock(r, b) => BoardInv'
         /\ \A p \in Projects : B!LoadProject(r, p) => BoardInv'
<1> USE DEF BoardInv
<1>1. ASSUME NEW t \in Tasks, B!ReadTask(r, t) PROVE BoardInv'
  <2> DEFINE o == [at |-> "task", id |-> t, was |-> tasks[t]]
  <2>1. B!Start(r, o) /\ o \in TaskEdits
    BY <1>1 DEF B!ReadTask, BoardRowsOK, TaskEdits
  <2> HIDE DEF o
  <2> QED
    BY <2>1, BoardStart
<1>2. ASSUME NEW t \in Tasks, B!LoadTask(r, t) PROVE BoardInv'
  <2> DEFINE o == [at |-> "remove", projects |-> {}, tasks |-> {t},
                   projectBlocks |-> {}, taskBlocks |-> B!BlocksOf("task", {t})]
  <2>1. B!Start(r, o) /\ tasks[t] # None
    BY <1>2 DEF B!LoadTask
  <2>2. o \in Removals
    BY DEF Removals, B!BlocksOf
  <2>3. (o.projects \cup o.tasks) \cap unused = {}
    BY <2>1 DEF BoardRowsOK
  <2> HIDE DEF o
  <2> QED
    BY <2>1, <2>2, <2>3, BoardStart
<1>3. ASSUME NEW b \in Blocks, B!ReadBlock(r, b) PROVE BoardInv'
  <2> DEFINE o == [at |-> "validate", id |-> b, was |-> blocks[b]]
  <2>1. B!Start(r, o) /\ o \in Validations
    BY <1>3 DEF B!ReadBlock, BoardRowsOK, Validations
  <2> HIDE DEF o
  <2> QED
    BY <2>1, BoardStart
<1>4. ASSUME NEW p \in Projects, B!LoadProject(r, p) PROVE BoardInv'
  <2> DEFINE o == [at |-> "remove", projects |-> {p}, tasks |-> B!TasksOf(p),
                   projectBlocks |-> B!BlocksOf("project", {p}),
                   taskBlocks |-> B!BlocksOf("task", B!TasksOf(p))]
  <2>1. B!Start(r, o) /\ p \in projects
    BY <1>4 DEF B!LoadProject
  <2>2. o \in Removals
    BY DEF Removals, B!BlocksOf, B!TasksOf
  <2>3. o.projects = {p} /\ o.tasks = B!TasksOf(p)
    OBVIOUS
  <2>4. (o.projects \cup o.tasks) \cap unused = {}
    BY <2>1, <2>3 DEF BoardRowsOK, B!TasksOf
  <2> HIDE DEF o
  <2> QED
    BY <2>1, <2>2, <2>4, BoardStart
<1> QED
  BY <1>1, <1>2, <1>3, <1>4

LEMMA BoardStep == BoardInv /\ [B!Next]_B!wvars => BoardInv'
<1> SUFFICES ASSUME BoardInv, [B!Next]_B!wvars PROVE BoardInv'
  OBVIOUS
<1>1. CASE B!Next
  BY <1>1, BoardCreateProject, BoardCreateTask, BoardReads, BoardSaveTask, BoardValidateBlock,
     BoardSaveBlock, BoardRemove, BoardFail, BoardDeleteBlock DEF B!Next
<1>2. CASE UNCHANGED B!wvars
  BY <1>2 DEF B!wvars, BoardInv, BoardRowsOK, BoardOpsOK, ValidatedHolds, LinksAgree,
              B!CompletionKept, B!LinksAgree
<1> QED
  BY <1>1, <1>2

\* The strengthened invariant of the board.
THEOREM BoardInvariant == B!Spec => []BoardInv
BY BoardInit, BoardStep, PTL DEF B!Spec

\* A task has its time of completion exactly while it is done, unless two
\* updates of it overlapped (create_task, update_task).
THEOREM Completed == B!Spec => []B!CompletionKept
<1>1. BoardInv => B!CompletionKept
  BY DEF BoardInv
<1> QED
  BY <1>1, BoardInvariant, PTL

\* The task of a block belongs to the project of the block, whatever is deleted
\* between the validation of a request and its save
\* (_validate_time_block_links).
THEOREM LinksOfBlocks == B!Spec => []LinksAgree
<1>1. BoardInv => LinksAgree
  BY DEF BoardInv
<1> QED
  BY <1>1, BoardInvariant, PTL
=============================================================================
