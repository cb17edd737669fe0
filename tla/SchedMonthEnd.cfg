SPECIFICATION Spec
CONSTANTS
  Items = {i1}
  Transactions = {1, 2}
  Requests = {r1}
  MonthLength = 3
  DueDays <- MCLastDay
  Grace = 1
  Horizon = 2
  MaxDay = 3
  MaxAmount = 2
  None = None
SYMMETRY MCSymmetry
CHECK_DEADLOCK FALSE
INVARIANT ListedInGrace
