-------------------------------- MODULE Inbox --------------------------------
(***************************************************************************)
(* The inbox: items that are edited, classified, deleted, and turned into  *)
(* a task or a reference, by requests of one user in several sessions      *)
(* (inbox/service.py, inbox/router.py; requests of one session wait for    *)
(* one another, see Sessions).  Texts and classifications are left out.    *)
(***************************************************************************)
EXTENDS Integers

CONSTANTS
  Requests, Items,
  MaxReopen,    \* bounds how often a user reopens an item
  None

VARIABLES
  items,      \* the rows
  unused,     \* the items that are still to be created
  made,       \* of an item: how many tasks have been made of it
  reopened,   \* of an item: how often is_processed was set back
  retargeted, \* items whose target a user's update has written since they became a task
  op          \* what a request has read and will write

ivars == <<items, unused, made, reopened, retargeted, op>>

Idle == [at |-> "idle"]

Init ==
  /\ items = [i \in Items |-> None]
  /\ unused = Items
  /\ made = [i \in Items |-> 0] /\ reopened = [i \in Items |-> 0]
  /\ retargeted = {}
  /\ op = [r \in Requests |-> Idle]

End(r) == op' = [op EXCEPT ![r] = Idle]

\* A user writes one down, or the worker suggests one for a document.
Create(i) ==
  /\ i \in unused
  /\ unused' = unused \ {i}
  /\ items' = [items EXCEPT ![i] = [is_processed |-> FALSE, target |-> 0]]
  /\ UNCHANGED <<made, reopened, retargeted, op>>

-----------------------------------------------------------------------------
(***************************************************************************)
(* The lock of a row: its holder has read it FOR UPDATE, or has written it *)
(* and not committed.                                                      *)
(***************************************************************************)
Locks(r, i) == op[r].at = "convert" /\ op[r].item = i
Unlocked(r, i) == TRUE         \* mutant: process_inbox_item reads without FOR UPDATE
Free(r, i) == \A q \in Requests \ {r} : ~Locks(q, i)

\* process_inbox_item reads the row, locked: an item that is processed is refused.
StartProcess(r, i, type) ==
  /\ op[r] = Idle
  /\ items[i] # None /\ ~items[i].is_processed
  /\ Free(r, i)
  /\ op' = [op EXCEPT ![r] = [at |-> "convert", item |-> i, type |-> type]]
  /\ UNCHANGED <<items, unused, made, reopened, retargeted>>

\* It creates the task, writes the row and commits both, or nothing.
Process(r) ==
  /\ op[r].at = "convert"
  /\ LET i == op[r].item
         n == made[i] + (IF op[r].type = "task" THEN 1 ELSE 0)
     IN  /\ items[i] # None
         /\ made' = [made EXCEPT ![i] = n]
         /\ items' = [items EXCEPT ![i].is_processed = TRUE,
                        ![i].target = IF op[r].type = "task" THEN n ELSE @]
         /\ retargeted' = IF op[r].type = "task" THEN retargeted \ {i} ELSE retargeted
  /\ End(r)
  /\ UNCHANGED <<unused, reopened>>

-----------------------------------------------------------------------------
(***************************************************************************)
(* update_inbox_item, classify_inbox_item and delete_inbox_item read the   *)
(* row without a lock.  A target is NULL (0), the n-th task made of the    *)
(* item (n), or an id that a user has sent (Other).                        *)
(***************************************************************************)
Other == -1
Edits(row) == [is_processed : BOOLEAN, target : {row.target, 0, Other}]

StartEdit(r, i) ==
  /\ op[r] = Idle /\ items[i] # None
  /\ \E new \in Edits(items[i]) :
       op' = [op EXCEPT ![r] = [at |-> "edit", item |-> i, was |-> items[i], new |-> new]]
  /\ UNCHANGED <<items, unused, made, reopened, retargeted>>

\* An UPDATE names the columns that differ from what was read.
WrittenWhole(was, new, row) == new     \* mutant: it names all of them
Written(was, new, row) ==
  [c \in DOMAIN row |-> IF new[c] # was[c] THEN new[c] ELSE row[c]]

Reopens(o) == o.was.is_processed /\ ~o.new.is_processed

Edit(r) ==
  /\ op[r].at = "edit"
  /\ LET o == op[r] i == o.item
     IN  /\ items[i] # None /\ Free(r, i)
         /\ items' = [items EXCEPT ![i] = Written(o.was, o.new, @)]
         /\ reopened' = [reopened EXCEPT ![i] = @ + (IF Reopens(o) THEN 1 ELSE 0)]
         /\ reopened'[i] <= MaxReopen
         /\ retargeted' = IF o.new.target # o.was.target THEN retargeted \cup {i} ELSE retargeted
  /\ End(r)
  /\ UNCHANGED <<unused, made>>

\* Any request may fail; an edit does if the row is gone.
Fail(r) == op[r] # Idle /\ End(r) /\ UNCHANGED <<items, unused, made, reopened, retargeted>>

Delete(r, i) ==
  /\ op[r] = Idle /\ items[i] # None
  /\ Free(r, i)
  /\ items' = [items EXCEPT ![i] = None]
  /\ UNCHANGED <<unused, made, reopened, retargeted, op>>

-----------------------------------------------------------------------------
Next ==
  \/ \E i \in Items : Create(i)
  \/ \E r \in Requests :
       \/ \E i \in Items : \/ \E type \in {"task", "reference"} : StartProcess(r, i, type)
                           \/ StartEdit(r, i) \/ Delete(r, i)
       \/ Process(r) \/ Edit(r) \/ Fail(r)

Spec == Init /\ [][Next]_ivars

-----------------------------------------------------------------------------
(***************************************************************************)
(* Properties.                                                             *)
(***************************************************************************)

\* An item becomes a task once, and once more each time a user has set it back:
\* neither two conversions at once nor an edit that was read before a conversion
\* and is written after it make it convertible again (process_inbox_item).
ConvertedOnce == \A i \in Items : made[i] <= 1 + reopened[i]

\* The row names the task that was made of it last, until a user's update writes
\* another target (InboxItemUpdate has target_id): no other edit, however stale its
\* read, undoes what a conversion has written (process_inbox_item, update_inbox_item).
TargetKept ==
  \A i \in Items \ retargeted : items[i] # None => items[i].target = made[i]
=============================================================================
