SPECIFICATION Spec
CONSTANTS
  Loans = {l1, l2}
  Installments = {i1, i2}
  Transfers = {t1, t2}
  Links = {k1, k2}
  Requests = {r1, r2}
  MaxAmount = 2
  None = None
SYMMETRY Symmetry
INVARIANTS
  NoCircularWait
  PaidWithinTotal
  LinkedPaymentsValid
PROPERTIES
  LinkedRowsFrozen
CHECK_DEADLOCK FALSE
