---------------------------- MODULE MCAccountBook ----------------------------
(***************************************************************************)
(* Small instances of AccountBook for TLC (MCLedger has a larger one).     *)
(***************************************************************************)
EXTENDS AccountBook, TLC

\* Imported accounts are not interchangeable with others.
Symmetry == Permutations(Transfers) \cup Permutations(Requests)
              \cup Permutations(Accounts \ Imported) \cup Permutations(Imported)
=============================================================================
