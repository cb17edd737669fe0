------------------------------ MODULE MCRecords ------------------------------
(***************************************************************************)
(* Rows that concurrent requests of one user edit.  The initial state      *)
(* chooses the part:                                                       *)
(*   "categories"  Reports on CategoryTree, with this module's constants;  *)
(*   "board"       WorkBoard: projects, tasks and time blocks;             *)
(*   "inbox"       Inbox: items and their conversion.                      *)
(***************************************************************************)
EXTENDS Reports, TLC

CONSTANTS Projects, Tasks, Blocks, Statuses, Items, InboxRequests, MaxReopen

ASSUME RecordsAssumption ==
  None \notin [project : Projects \cup {None}, status : Statuses, completed : BOOLEAN]

VARIABLES
  part,
  projects, tasks, blocks, unused, moved, mixed, boardOp,
  items, toCreate, conversions, reopened, retargeted, inboxOp

B == INSTANCE WorkBoard WITH op <- boardOp
I == INSTANCE Inbox WITH Requests <- InboxRequests,
                         unused <- toCreate, made <- conversions, op <- inboxOp

boardVars == <<projects, tasks, blocks, unused, moved, mixed, boardOp>>
inboxVars == <<items, toCreate, conversions, reopened, retargeted, inboxOp>>

PartInit == Init /\ B!Init /\ I!Init /\ part \in {"categories", "board", "inbox"}

PartNext ==
  /\ \/ part = "categories" /\ Next /\ UNCHANGED <<boardVars, inboxVars>>
     \/ part = "board" /\ B!Next /\ UNCHANGED <<vars, inboxVars>>
     \/ part = "inbox" /\ I!Next /\ UNCHANGED <<vars, boardVars>>
  /\ UNCHANGED part

PartSpec == PartInit /\ [][PartNext]_<<part, vars, boardVars, inboxVars>>

Symmetry == Permutations(Categories) \cup Permutations(Requests)
-----------------------------------------------------------------------------
\* The links of a time block agree (_validate_time_block_links).
LinksAgree == B!LinksAgree

\* An item is converted once (process_inbox_item).
ConvertedOnce == I!ConvertedOnce

\* Edits take nothing back that a conversion has written (update_inbox_item).
TargetKept == I!TargetKept
=============================================================================
