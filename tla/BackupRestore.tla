---------------------------- MODULE BackupRestore ----------------------------
(***************************************************************************)
(* The daily backup (ops/backup.sh) of a database and an upload directory  *)
(* that stay in use, and the restore drill of its latest snapshot          *)
(* (ops/systemd/run-restore-drill.sh and ops/restore-verify.sh).  The two  *)
(* share the operation lock and never overlap.                             *)
(*                                                                         *)
(* An upload writes its original and the backup archives the directory     *)
(* under the same flock, so each of them is one step.                      *)
(***************************************************************************)
EXTENDS Integers

CONSTANTS
  Contents,       \* contents of documents, which name their files
  MaxRevision     \* bounds the migrations

ASSUME RevisionAssumption == MaxRevision \in Nat \ {0}

VARIABLES
  rows,        \* contents with a committed row
  files,       \* originals in UPLOAD_DIR
  pending,     \* uploads that have stored their original, not committed their row
  balanced,    \* whether the ledger has two legs or more and balances everywhere
  revision,    \* alembic_version of the database
  head,        \* the head of the migrations in the repository
  backup,      \* the backup that is running and what it has in its snapshot_dir
  latest,      \* the latest snapshot in the Restic repository, if there is one
  drill,       \* the last step that the running drill has done
  snapshot,    \* the snapshot that it has got from the repository
  staging,     \* RESTORE_DIR/.restore-run.*/uploads, if it exists
  restored,    \* the database finanse_restore, if it exists
  published,   \* RESTORE_DIR/uploads, if it exists
  debris       \* whether the last drill was interrupted, or has removed too little,
               \* and nobody has cleaned up since

live == <<rows, files, pending, balanced, revision, head>>
drilled == <<drill, snapshot, staging, restored, published, debris>>
vars == <<live, backup, latest, drilled>>

Revisions == 1..MaxRevision
Database == [rows : SUBSET Contents, revision : 0..MaxRevision, balanced : BOOLEAN]
EmptyDatabase == [rows |-> {}, revision |-> 0, balanced |-> TRUE]
Snapshot == [dump : Database, files : SUBSET Contents, manifest : Revisions]

Tables == [rows |-> rows, revision |-> revision, balanced |-> balanced]
NoBackup == [step |-> "idle"]
LockFree == backup = NoBackup /\ drill = "idle"      \* finanse-backup-restore.lock

Init ==
  /\ rows = {} /\ files = {} /\ pending = {}
  /\ balanced = TRUE
  /\ revision = 1 /\ head = 1
  /\ backup = NoBackup /\ latest = {}
  /\ drill = "idle" /\ snapshot = {}
  /\ staging = {} /\ restored = {} /\ published = {}
  /\ debris = FALSE

----------------------------------------------------------------------------
(***************************************************************************)
(* The application goes on.  Deleting a document keeps its original.       *)
(***************************************************************************)
UploadWrite(c) ==
  /\ c \notin pending
  /\ files' = files \cup {c} /\ pending' = pending \cup {c}
  /\ UNCHANGED <<rows, balanced, revision, head, backup, latest, drilled>>

UploadCommit(c) ==
  /\ c \in pending
  /\ rows' = rows \cup {c} /\ pending' = pending \ {c}
  /\ UNCHANGED <<files, balanced, revision, head, backup, latest, drilled>>

UploadFails(c) ==
  /\ c \in pending
  /\ pending' = pending \ {c}
  /\ UNCHANGED <<rows, files, balanced, revision, head, backup, latest, drilled>>

DeleteDocument(c) ==
  /\ c \in rows
  /\ rows' = rows \ {c}
  /\ UNCHANGED <<files, pending, balanced, revision, head, backup, latest, drilled>>

\* An account is deleted while a transfer is booked on it (AccountBook), and
\* the transfer is corrected by hand.
LedgerChanges ==
  /\ balanced' = ~balanced
  /\ UNCHANGED <<rows, files, pending, revision, head, backup, latest, drilled>>

\* A release brings a migration; the operator applies it (make migrate).
Release ==
  /\ head < MaxRevision
  /\ head' = head + 1
  /\ UNCHANGED <<rows, files, pending, balanced, revision, backup, latest, drilled>>

Migrate ==
  /\ revision < head
  /\ revision' = head
  /\ UNCHANGED <<rows, files, pending, balanced, head, backup, latest, drilled>>

----------------------------------------------------------------------------
(***************************************************************************)
(* backup.sh.                                                              *)
(***************************************************************************)
BackupDump ==
  /\ LockFree
  /\ backup' = [step |-> "dumped", dump |-> Tables]
  /\ UNCHANGED <<live, latest, drilled>>

BackupArchive ==
  /\ backup.step = "dumped"
  /\ backup' = [step |-> "archived", dump |-> backup.dump, files |-> files]
  /\ UNCHANGED <<live, latest, drilled>>

\* mutant: the database is dumped after the archive is written
BackupDumpLast ==
  /\ backup.step = "archived"
  /\ backup' = [step |-> "complete",
                snapshot |-> [dump |-> Tables, files |-> backup.files, manifest |-> revision]]
  /\ UNCHANGED <<live, latest, drilled>>

\* The revision of the live database, after its dump.
BackupManifest ==
  /\ backup.step = "archived"
  /\ backup' = [step |-> "complete",
                snapshot |-> [dump |-> backup.dump, files |-> backup.files,
                              manifest |-> revision]]
  /\ UNCHANGED <<live, latest, drilled>>

\* restic backup; the retention that follows keeps the latest snapshot.
BackupStore ==
  /\ backup.step = "complete"
  /\ latest' = {backup.snapshot}
  /\ backup' = NoBackup
  /\ UNCHANGED <<live, drilled>>

\* It fails or is killed; systemd starts it again.
BackupFails ==
  /\ backup # NoBackup
  /\ backup' = NoBackup
  /\ UNCHANGED <<live, latest, drilled>>

----------------------------------------------------------------------------
(***************************************************************************)
(* run-restore-drill.sh, which runs restore-verify.sh between DrillExtract *)
(* and DrillPublish.  It takes the database for its own one command after  *)
(* createdb: until then its trap removes nothing.                          *)
(***************************************************************************)
DrillStart ==
  /\ LockFree
  /\ staging = {} /\ published = {}         \* the directory is empty
  /\ restored = {}                          \* createdb
  /\ restored' = {EmptyDatabase}
  /\ drill' = "creating" /\ debris' = FALSE
  /\ UNCHANGED <<live, backup, latest, snapshot, staging, published>>

DrillOwns ==
  /\ drill = "creating"
  /\ drill' = "created"
  /\ UNCHANGED <<live, backup, latest, snapshot, staging, restored, published, debris>>

\* The snapshot's checksums hold; its uploads are extracted.
DrillExtract ==
  /\ drill = "created"
  /\ latest # {}
  /\ snapshot' = latest
  /\ staging' = {s.files : s \in latest}
  /\ drill' = "extracted"
  /\ UNCHANGED <<live, backup, latest, restored, published, debris>>

DrillLoad ==
  /\ drill = "extracted"
  /\ restored' = {s.dump : s \in snapshot}
  /\ drill' = "loaded"
  /\ UNCHANGED <<live, backup, latest, snapshot, staging, published, debris>>

\* Runs alembic upgrade head: a revision the repository does not know fails.
AnyRevision(db) == TRUE     \* mutant: the manifest's revision is not compared
SameRevision(db) == \A s \in snapshot : db.revision = s.manifest

DrillMigrate ==
  /\ drill = "loaded"
  /\ \A db \in restored : SameRevision(db) /\ db.revision <= head
  /\ restored' = {[db EXCEPT !.revision = head] : db \in restored}
  /\ drill' = "migrated"
  /\ UNCHANGED <<live, backup, latest, snapshot, staging, published, debris>>

DrillLedger ==
  /\ drill = "migrated"
  /\ \A db \in restored : db.balanced
  /\ drill' = "verified"
  /\ UNCHANGED <<live, backup, latest, snapshot, staging, restored, published, debris>>

DrillPublish ==
  /\ drill = "verified"
  /\ published = {}
  /\ published' = staging /\ staging' = {}
  /\ drill' = "published"
  /\ UNCHANGED <<live, backup, latest, snapshot, restored, debris>>

DrillDrop ==
  /\ drill = "published"
  /\ restored' = {}
  /\ drill' = "dropped"
  /\ UNCHANGED <<live, backup, latest, snapshot, staging, published, debris>>

DrillRemove ==
  /\ drill = "dropped"
  /\ published' = {}
  /\ drill' = "idle" /\ snapshot' = {}
  /\ UNCHANGED <<live, backup, latest, staging, restored, debris>>

\* A command fails: the traps of both scripts remove what they have created,
\* as far as they know of it.
CleanupLateFlag ==     \* mutant: the database is taken for its own after its verification
  /\ staging' = {}
  /\ IF drill \in {"published", "dropped"} THEN restored' = {} /\ published' = {}
                                           ELSE UNCHANGED <<restored, published>>
Cleanup ==
  /\ staging' = {}
  /\ IF drill # "creating" THEN restored' = {} /\ published' = {}
                           ELSE UNCHANGED <<restored, published>>

DrillFails ==
  /\ drill # "idle"
  /\ Cleanup
  /\ drill' = "idle" /\ snapshot' = {}
  /\ debris' = (drill = "creating")
  /\ UNCHANGED <<live, backup, latest>>

\* restore-verify.sh alone is killed: the trap of run-restore-drill.sh removes
\* the database and the published uploads, and does not know the staging.
VerifyKilled ==
  /\ drill \in {"created", "extracted", "loaded", "migrated", "verified"}
  /\ restored' = {} /\ published' = {}
  /\ drill' = "idle" /\ snapshot' = {}
  /\ debris' = (staging # {})
  /\ UNCHANGED <<live, backup, latest, staging>>

\* The drill is interrupted, or removes too little.  SIGKILL and a power failure
\* run no trap; SIGTERM, for which only restore-verify.sh has a trap, leaves the
\* exit code 0 to the EXIT trap of run-restore-drill.sh, which then removes
\* nothing; and a dropdb or rm of the traps that fails is ignored.  The next
\* drill refuses to start until the operator has cleaned up.
DrillInterrupted ==
  /\ drill # "idle"
  /\ staging' \in {{}, staging} /\ published' \in {{}, published}
  /\ restored' \in IF drill = "creating" THEN {restored} ELSE {{}, restored}
  /\ drill' = "idle" /\ snapshot' = {}
  /\ debris' = TRUE
  /\ UNCHANGED <<live, backup, latest>>

OperatorCleans ==
  /\ debris /\ drill = "idle"
  /\ staging' = {} /\ restored' = {} /\ published' = {}
  /\ debris' = FALSE
  /\ UNCHANGED <<live, backup, latest, drill, snapshot>>

----------------------------------------------------------------------------
Application ==
  \/ \E c \in Contents : UploadWrite(c) \/ UploadCommit(c) \/ UploadFails(c) \/ DeleteDocument(c)
  \/ LedgerChanges \/ Release \/ Migrate

Backup ==
  BackupDump \/ BackupArchive \/ BackupManifest \/ BackupStore \/ BackupFails

Drill ==
  \/ DrillStart \/ DrillOwns \/ DrillExtract \/ DrillLoad \/ DrillMigrate \/ DrillLedger
  \/ DrillPublish \/ DrillDrop \/ DrillRemove
  \/ DrillFails \/ VerifyKilled \/ DrillInterrupted \/ OperatorCleans

Next == Application \/ Backup \/ Drill

Spec == Init /\ [][Next]_vars

----------------------------------------------------------------------------
(***************************************************************************)
(* Properties.                                                             *)
(***************************************************************************)
DrillSteps ==
  {"idle", "creating", "created", "extracted", "loaded", "migrated", "verified", "published",
   "dropped"}

TypeOK ==
  /\ rows \subseteq Contents /\ files \subseteq Contents /\ pending \subseteq Contents
  /\ balanced \in BOOLEAN
  /\ revision \in Revisions /\ head \in Revisions
  /\ backup \in {NoBackup} \cup [step : {"dumped"}, dump : Database]
                 \cup [step : {"archived"}, dump : Database, files : SUBSET Contents]
                 \cup [step : {"complete"}, snapshot : Snapshot]
  /\ latest \in SUBSET Snapshot /\ snapshot \in SUBSET Snapshot
  /\ drill \in DrillSteps
  /\ staging \in SUBSET SUBSET Contents /\ published \in SUBSET SUBSET Contents
  /\ restored \in SUBSET Database
  /\ debris \in BOOLEAN

\* Every document of a snapshot has its original in it, whatever is uploaded
\* and deleted while the backup runs (docs/operations/backup-restore.md: "This
\* append-only ordering prevents a backup database reference without its
\* archived file").
SnapshotComplete == \A s \in latest : s.dump.rows \subseteq s.files

\* What a drill publishes has passed all checks: every row has its original,
\* the dump was of the revision that the manifest names, its ledger balances,
\* although the snapshot was taken of a database in use.
PublishedVerified ==
  drill = "published" =>
    /\ \A db \in restored, P \in published : db.rows \subseteq P /\ db.balanced
    /\ \A s \in snapshot : s.dump.revision = s.manifest

\* A drill that succeeds leaves nothing, and so does one of which any command
\* fails once the database is its own, if the removals of its traps succeed
\* (docs/operations/backup-restore.md: "On success or verifier failure,
\* ownership-aware cleanup removes only the exact finanse_restore database and
\* restore output it created").
NothingLeft ==
  drill = "idle" /\ ~debris => staging = {} /\ restored = {} /\ published = {}
=============================================================================
