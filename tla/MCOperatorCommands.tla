------------------------- MODULE MCOperatorCommands -------------------------
(***************************************************************************)
(* What operators run by hand or by timer, as parts that one run of TLC    *)
(* checks side by side; the initial state chooses the part.                *)
(*   "backup"   backups and restore drills, with this module's constants   *)
(*              (BackupRestore);                                           *)
(*   "files"    the same for fewer revisions and more contents of a file;  *)
(*   "import"   imports from Actual on two exports and three ledgers that  *)
(*              stay in use (ActualImport);                                *)
(*   "alone"    the same on more exports, while nobody else does anything; *)
(*   "parsing"  every export that can be made of the sample rows, only     *)
(*              for what the parser makes of it.                           *)
(***************************************************************************)
EXTENDS BackupRestore, TLC

CONSTANTS
  MoreContents, Importers, Accounts, Categories, Foreign, Cash, Rate, MaxRuns, MaxEdits, None,
  Exports, Starts   \* of the part "import"

VARIABLES part, source, db, own, imp, importLock, runs, edits

INSTANCE ActualSamples

importVars == <<source, db, own, imp, importLock, runs, edits>>

Files == INSTANCE BackupRestore WITH Contents <- MoreContents, MaxRevision <- 1
ExportsInUse == {Everything, Deleted}
Import == INSTANCE ActualImport
Alone == INSTANCE ActualImport WITH
           Exports <- SampleExports, Starts <- SampleStarts, MaxEdits <- 0
Parsing == INSTANCE ActualImport WITH Exports <- SUBSET Universe, Starts <- {}

\* No import is the holder "none" of a free lock.
ASSUME ImportersAssumption == None \notin Importers

\* What earlier releases left has no operation twice, and no two accounts or
\* categories of Actual recorded as one.
ASSUME StartsAssumption ==
  \A tables \in Starts :
    /\ DOMAIN tables = Import!Tables
    /\ \A t, u \in Import!Imported(tables) : t.op = u.op /\ t.marked /\ u.marked => t = u
    /\ \A m, n \in tables.map : m.ent = n.ent => m = n

PartInit ==
  \/ /\ part \in {"backup", "files"} /\ Init
     /\ imp = [i \in Importers |-> [stage |-> "idle"]]   \* no import at all
     /\ source = {} /\ db = {} /\ own = {} /\ importLock = None /\ runs = 0 /\ edits = 0
  \/ part = "import" /\ Init /\ Import!Init
  \/ part = "alone" /\ Init /\ Alone!Init
  \/ part = "parsing" /\ Init /\ Parsing!Init
                      /\ \A r, q \in source : r.id = q.id => r = q

PartNext ==
  /\ UNCHANGED part
  /\ \/ part = "backup" /\ Next /\ UNCHANGED importVars
     \/ part = "files" /\ Files!Next /\ UNCHANGED importVars
     \/ part = "import" /\ Import!Next /\ UNCHANGED vars
     \/ part = "alone" /\ Alone!Next /\ UNCHANGED vars
     \/ part \notin {"backup", "files"} /\ UNCHANGED <<vars, importVars>>   \* all imports are over

PartSpec == PartInit /\ [][PartNext]_<<part, vars, importVars>>

PartSymmetry == Permutations(MoreContents) \cup Permutations(Importers)
-----------------------------------------------------------------------------
\* The parser loses nothing of a consistent export (get_transactions,
\* get_transfers, get_splits against get_account_balances).
NothingLostInParsing == part # "parsing" \/ Parsing!NothingLostInParsing

\* An operation of Actual is booked at most once by all imports together, unless the
\* user has rewritten its marker, and two accounts or categories never become one (check_idempotent under the advisory lock
\* of resolve_ids, _backfill_legacy_mappings).
ImportedOnce == part \in {"backup", "files"} \/ Import!ImportedOnce

\* A strict import that commits has recorded its whole export (migrate).
StrictIsWhole == Import!StrictIsWhole

\* Pinned history survives its import unchanged (validate_preserved_history).
PinnedKept == Import!PinnedKept

\* What a replacement removes is saved or brought back
\* (create_verified_backup, replace_legacy_actual_data).
ReplacedIsSaved == Import!ReplacedIsSaved
=============================================================================
