--------------------------- MODULE MCActualImport ---------------------------
(***************************************************************************)
(* A small instance of ActualImport on the rows of ActualSamples.          *)
(***************************************************************************)
EXTENDS ActualSamples

CONSTANTS Importers, Accounts, Categories, Foreign, Cash, Rate, MaxRuns, MaxEdits

VARIABLES source, db, own, imp, importLock, runs, edits

INSTANCE ActualImport WITH Exports <- SampleExports, Starts <- SampleStarts
=============================================================================
