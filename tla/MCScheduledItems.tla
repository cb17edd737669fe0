-------------------------- MODULE MCScheduledItems --------------------------
(***************************************************************************)
(* Small instances of ScheduledItems: months of three days, an item that   *)
(* is due on the last of them, and one day of grace.                       *)
(***************************************************************************)
EXTENDS ScheduledItems, TLC

MCLastDay == {2}
MCSymmetry == Permutations(Requests)
=============================================================================
