SPECIFICATION PartSpec
CONSTANTS
  Contents = {c1}
  MoreContents = {c1, c2}
  MaxRevision = 2
  Importers = {i1, i2}
  Accounts = {"A", "E"}
  Categories = {"food", "rent"}
  Foreign = {"E"}
  Cash = "own"
  Rate = 3
  MaxRuns = 2
  MaxEdits = 1
  None = None
  Exports <- ExportsInUse
  Starts <- SampleStarts
SYMMETRY PartSymmetry
INVARIANTS
  SnapshotComplete
  PublishedVerified
  NothingLeft
  NothingLostInParsing
  ImportedOnce
PROPERTIES
  StrictIsWhole
  PinnedKept
  ReplacedIsSaved
