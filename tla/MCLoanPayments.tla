--------------------------- MODULE MCLoanPayments ---------------------------
(***************************************************************************)
(* Small instances of LoanPayments for TLC.                                *)
(***************************************************************************)
EXTENDS LoanPayments, TLC

Symmetry == Permutations(Loans) \cup Permutations(Installments)
              \cup Permutations(Transfers) \cup Permutations(Links)
              \cup Permutations(Requests)
=============================================================================
