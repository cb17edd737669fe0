SPECIFICATION Spec
CONSTANTS
  Categories = {c1, c2}
  Postings = {p1}
  Budgets = {}
  Requests = {r1, r2}
  None = None
SYMMETRY Symmetry
INVARIANTS
  RolledUpOnce
CHECK_DEADLOCK FALSE
