--------------------------- MODULE MCCategoryTree ---------------------------
(***************************************************************************)
(* Small instances of CategoryTree and Reports for TLC.                    *)
(***************************************************************************)
EXTENDS Reports, TLC

Symmetry == Permutations(Categories) \cup Permutations(Postings)
              \cup Permutations(Requests)
=============================================================================
