SPECIFICATION PartSpec
CONSTANTS
  Categories = {c1, c2, c3}
  Postings = {}
  Budgets = {b1}
  Requests = {r1, r2}
  None = None
  Projects = {p1, p2}
  Tasks = {t1}
  Blocks = {k1}
  Statuses = {"todo", "done"}
  Items = {i1}
  InboxRequests = {q1, q2, q3}
  MaxReopen = 1
SYMMETRY Symmetry
INVARIANTS
  NoCycle
  ReferencesKept
  BudgetedOnce
  LinksAgree
  ConvertedOnce
  TargetKept
CHECK_DEADLOCK FALSE
