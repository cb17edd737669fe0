SPECIFICATION PartSpec
CONSTANTS
  Calls = {c1, c2, c3}
  Requests = {r1, r2, r3}
  MaxIterations = 3
  MaxBatch = 2
  None = None
  Tokens = {t1, t2}
  MaxCalls = 4
  ServerRequests = {q1, q2, q3}
  PoolSize = 2
SYMMETRY MCSymmetry
CHECK_DEADLOCK FALSE
INVARIANTS AuditTellsDecisions EveryCallAnswered NeverStuckLoading NewestDecides
  NothingAfterLogout
PROPERTY ImplementsApproval
