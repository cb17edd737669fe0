SPECIFICATION PartSpec
CONSTANTS
  Docs = {1, 2}
  Users = {u1}
  MoreUsers = {u1, u2}
  Contents = {c1}
  Workers = {w1, w2}
  Requests = {r1}
  Legacy = {1}
  MaxAttempts = 2
  BatchSize = 1
  MaxFaults = 2
  Dispatcher = Dispatcher
  None = None
  SessionRequests = {q1, q2}
  Tokens = {t1}
  PoolSize = 2
PROPERTIES
  EventuallyProcessed
  ClaimExcludes
  EveryRequestAnswered

CHECK_DEADLOCK FALSE
