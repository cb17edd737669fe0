SPECIFICATION Spec
CONSTANTS
  Accounts = {a1, a2}
  Currencies = {PLN, EUR}
  Imported = {}
  Transfers = {t1}
  Items = {}
  Loans = {}
  Requests = {r1, r2}
  PLN = PLN
  None = None
SYMMETRY Symmetry
INVARIANTS
  LedgerBalanced
CHECK_DEADLOCK FALSE
