SPECIFICATION ScenarioSpec
CONSTANTS
  Docs = {1, 2}
  Users = {u1}
  Contents = {c1, c2}
  Workers = {w1, w2}
  Requests = {r1}
  Legacy = {1}
  MaxAttempts = 2
  BatchSize = 1
  MaxFaults = 1
  Dispatcher = Dispatcher
  None = None
  UploadUsers = {u1, u2}
  UploadContents = {c1}
  UploadWorkers = {w1}
  UploadRequests = {r1, r2}
  Sizes = {1, 2, 3, 4}
  SizedRequests = {s1, s2}
  MaxFile = 3
  Slots = 1
  UserQuota = 4
  GlobalQuota = 5
  Disk = 6
  MinFree = 1
SYMMETRY Symmetry
INVARIANTS
  RetryWithinBudget
  OneRowPerContent
  OriginalStored
  CommittedBeforeQueued
  SlotsReturned
  WithinQuotas
PROPERTIES
  NoEarlyRetry
  ImplementsLifecycle

CHECK_DEADLOCK FALSE
