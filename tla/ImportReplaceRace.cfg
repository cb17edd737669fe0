SPECIFICATION Spec
CONSTANTS
  Importers = {i1}
  Accounts = {"A", "E"}
  Categories = {"food", "rent"}
  Foreign = {"E"}
  Cash = "own"
  Rate = 3
  MaxRuns = 1
  MaxEdits = 1
  None = None
CHECK_DEADLOCK FALSE
PROPERTY ManualKept
