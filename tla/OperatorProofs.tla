---------------------------- MODULE OperatorProofs ----------------------------
(***************************************************************************)
(* Proofs about what operators run: backups and restore drills, for every  *)
(* set of contents and every number of migrations, and imports from        *)
(* Actual, for any number of importers, exports and requests.              *)
(***************************************************************************)
EXTENDS MCOperatorCommands, DataTheorems, TLAPS

(***************************************************************************)
(* Backups and drills.  A snapshot is complete because originals are never *)
(* removed: every row of a dump had its original when the dump was made,   *)
(* so the archive, made later, has it too.  The invariant says so of each  *)
(* stage of a backup, and of each stage of a drill what it has checked so  *)
(* far.                                                                    *)
(***************************************************************************)
\* The originals of all rows and of all uploads under way are stored.
Stored == rows \subseteq files /\ pending \subseteq files

\* What the running backup has so far.
BackupConsistent ==
  /\ backup.step = "dumped" => backup.dump.rows \subseteq files
  /\ backup.step = "archived" => backup.dump.rows \subseteq backup.files
  /\ backup.step = "complete" => backup.snapshot.dump.rows \subseteq backup.snapshot.files

OneLatest == latest = {} \/ \E s \in Snapshot : latest = {s}

\* What is left of the migrated copy of a snapshot, as far as it is checked.
Migrated(s) ==
  /\ s.dump.revision = s.manifest
  /\ \E copy \in Database :
       /\ restored = {copy} /\ copy.rows = s.dump.rows
       /\ drill = "verified" => copy.balanced

\* The drill has extracted snapshot s and not published it.
Extracted(s) ==
  /\ snapshot = {s} /\ staging = {s.files}
  /\ s.dump.rows \subseteq s.files
  /\ drill = "loaded" => restored = {s.dump}
  /\ drill \in {"migrated", "verified"} => Migrated(s)

Unpublished == drill \in {"extracted", "loaded", "migrated", "verified"}

DrillConsistent ==
  /\ drill \in {"creating", "created"} => staging = {} /\ published = {}
  /\ Unpublished => \E s \in Snapshot : Extracted(s)
  /\ drill \in {"published", "dropped"} => staging = {}
  /\ drill = "dropped" => restored = {}

IInv ==
  /\ TypeOK /\ Stored /\ BackupConsistent /\ OneLatest /\ SnapshotComplete
  /\ DrillConsistent /\ PublishedVerified /\ NothingLeft

----------------------------------------------------------------------------
\* The stage of a backup tells its fields.
LEMMA BackupFields ==
  ASSUME TypeOK
  PROVE  /\ backup.step = "dumped" => backup.dump \in Database
         /\ backup.step = "archived" => backup.dump \in Database /\ backup.files \in SUBSET Contents
         /\ backup.step = "complete" => backup.snapshot \in Snapshot
BY DEF TypeOK, NoBackup

LEMMA TablesType == TypeOK => Tables \in Database
BY RevisionAssumption DEF TypeOK, Tables, Database, Revisions

LEMMA InitIInv == Init => IInv
<1> SUFFICES ASSUME Init PROVE IInv
  OBVIOUS
<1>1. TypeOK
  <2>1. 1 \in Revisions
    BY RevisionAssumption DEF Revisions
  <2>2. backup = NoBackup
    BY DEF Init
  <2> QED
    BY <2>1, <2>2 DEF Init, TypeOK, DrillSteps
<1>2. BackupConsistent
  BY DEF Init, BackupConsistent, NoBackup
<1>3. Stored /\ OneLatest /\ SnapshotComplete /\ DrillConsistent /\ PublishedVerified /\ NothingLeft
  BY DEF Init, Stored, OneLatest, SnapshotComplete, DrillConsistent, Unpublished,
    PublishedVerified, NothingLeft
<1> QED
  BY <1>1, <1>2, <1>3 DEF IInv

----------------------------------------------------------------------------
\* The application disturbs neither a snapshot nor a drill: a new or a deleted
\* row is not in the dump, and the files only grow.
LEMMA ApplicationStep ==
  ASSUME IInv, Application
  PROVE  IInv'
<1> USE DEF Stored
<1>1. TypeOK' /\ Stored'
  <2> USE DEF IInv, TypeOK, drilled
  <2>1. CASE \E c \in Contents :
               UploadWrite(c) \/ UploadCommit(c) \/ UploadFails(c) \/ DeleteDocument(c)
    BY <2>1 DEF UploadWrite, UploadCommit, UploadFails, DeleteDocument
  <2>2. CASE LedgerChanges
    <3>1. balanced' \in BOOLEAN
      BY <2>2 DEF LedgerChanges
    <3> QED
      BY <2>2, <3>1 DEF LedgerChanges
  <2>3. CASE Release \/ Migrate
    <3>1. revision' \in Revisions /\ head' \in Revisions
      BY <2>3, RevisionAssumption DEF Release, Migrate, Revisions
    <3> QED
      BY <2>3, <3>1 DEF Release, Migrate
  <2> QED
    BY <2>1, <2>2, <2>3 DEF Application
<1>2. files \subseteq files' /\ UNCHANGED <<backup, latest, drilled>>
  BY DEF Application, UploadWrite, UploadCommit, UploadFails, DeleteDocument, LedgerChanges,
    Release, Migrate
<1>3. BackupConsistent'
  BY <1>2 DEF IInv, BackupConsistent
<1>4. OneLatest' /\ SnapshotComplete' /\ DrillConsistent' /\ PublishedVerified' /\ NothingLeft'
  BY <1>2 DEF IInv, OneLatest, SnapshotComplete, DrillConsistent, Unpublished, Extracted,
    Migrated, PublishedVerified, NothingLeft, drilled
<1> QED
  BY <1>1, <1>3, <1>4 DEF IInv

----------------------------------------------------------------------------
\* Each stage of a backup is consistent: only the dump reads the tables, and it
\* is archived after it.
LEMMA BackupStep ==
  ASSUME IInv, Backup
  PROVE  IInv'
<1>1. UNCHANGED <<live, drilled>>
  BY DEF Backup, BackupDump, BackupArchive, BackupManifest, BackupStore, BackupFails
<1>2. Stored' /\ DrillConsistent' /\ PublishedVerified' /\ NothingLeft'
  BY <1>1 DEF IInv, Stored, DrillConsistent, Unpublished, Extracted, Migrated,
    PublishedVerified, NothingLeft, live, drilled
<1>3. TypeOK' /\ BackupConsistent' /\ OneLatest' /\ SnapshotComplete'
  <2> USE DEF IInv, TypeOK, live, drilled
  <2>1. CASE BackupDump
    BY <2>1, <1>1, TablesType DEF BackupDump, BackupConsistent, OneLatest, SnapshotComplete,
      Stored, Tables
  <2>2. CASE BackupArchive
    BY <2>2, <1>1, BackupFields DEF BackupArchive, BackupConsistent, OneLatest, SnapshotComplete
  <2>3. CASE BackupManifest
    BY <2>3, <1>1, BackupFields DEF BackupManifest, BackupConsistent, OneLatest,
      SnapshotComplete, Snapshot
  <2>4. CASE BackupStore
    BY <2>4, <1>1, BackupFields DEF BackupStore, BackupConsistent, OneLatest, SnapshotComplete,
      NoBackup
  <2>5. CASE BackupFails
    BY <2>5, <1>1 DEF BackupFails, BackupConsistent, OneLatest, SnapshotComplete, NoBackup
  <2> QED
    BY <2>1, <2>2, <2>3, <2>4, <2>5 DEF Backup
<1> QED
  BY <1>2, <1>3 DEF IInv

----------------------------------------------------------------------------
\* A drill checks what it publishes, and its traps remove what they know of.
LEMMA DrillStep ==
  ASSUME IInv, Drill
  PROVE  IInv'
<1> USE DEF IInv
<1>1. UNCHANGED <<live, backup, latest>>
  BY DEF Drill, DrillStart, DrillOwns, DrillExtract, DrillLoad, DrillMigrate, DrillLedger,
    DrillPublish, DrillDrop, DrillRemove, DrillFails, VerifyKilled, DrillInterrupted,
    OperatorCleans
<1>2. Stored' /\ BackupConsistent' /\ OneLatest' /\ SnapshotComplete'
  BY <1>1 DEF Stored, BackupConsistent, OneLatest, SnapshotComplete, live
<1>3. TypeOK' /\ DrillConsistent' /\ PublishedVerified' /\ NothingLeft'
  <2> USE DEF DrillConsistent, Unpublished, PublishedVerified, NothingLeft, TypeOK, DrillSteps, live
  <2>1. CASE DrillStart
    <3>1. EmptyDatabase \in Database
      BY RevisionAssumption DEF EmptyDatabase, Database
    <3>2. TypeOK'
      BY <2>1, <3>1, <1>1 DEF DrillStart
    <3> QED
      BY <2>1, <3>2, <1>1 DEF DrillStart
  <2>2. CASE DrillExtract
    <3>1. PICK s \in Snapshot : latest = {s}
      BY <2>2 DEF DrillExtract, OneLatest
    <3>2. Extracted(s)'
      BY <2>2, <3>1 DEF DrillExtract, Extracted, SnapshotComplete
    <3> QED
      BY <2>2, <3>1, <3>2, <1>1 DEF DrillExtract, Snapshot
  <2>3. CASE DrillLoad
    <3>1. PICK s \in Snapshot : Extracted(s)
      BY <2>3 DEF DrillLoad
    <3>2. Extracted(s)'
      BY <2>3, <3>1 DEF DrillLoad, Extracted
    <3> QED
      BY <2>3, <3>1, <3>2, <1>1 DEF DrillLoad, Extracted, Snapshot
  <2>4. CASE DrillMigrate
    <3>1. PICK s \in Snapshot : Extracted(s)
      BY <2>4 DEF DrillMigrate
    <3> DEFINE copy == [s.dump EXCEPT !.revision = head]
    <3>2. s.dump \in Database /\ restored = {s.dump} /\ s.dump.revision = s.manifest
      BY <2>4, <3>1 DEF DrillMigrate, Extracted, SameRevision, Snapshot
    <3>3. copy \in Database /\ copy.rows = s.dump.rows
      BY <3>2, RevisionAssumption DEF Database, Revisions
    <3>4. restored' = {copy}
      BY <2>4, <3>2 DEF DrillMigrate
    <3>5. Extracted(s)'
      BY <2>4, <3>1, <3>2, <3>3, <3>4 DEF DrillMigrate, Extracted, Migrated
    <3> QED
      BY <2>4, <3>1, <3>3, <3>4, <3>5, <1>1 DEF DrillMigrate
  <2>5. CASE DrillLedger
    <3>1. PICK s \in Snapshot : Extracted(s)
      BY <2>5 DEF DrillLedger
    <3>2. Extracted(s)'
      BY <2>5, <3>1 DEF DrillLedger, Extracted, Migrated
    <3> QED
      BY <2>5, <3>1, <3>2, <1>1 DEF DrillLedger
  <2>6. CASE DrillPublish
    <3>1. PICK s \in Snapshot : Extracted(s)
      BY <2>6 DEF DrillPublish
    <3> QED
      BY <2>6, <3>1, <1>1 DEF DrillPublish, Extracted, Migrated
  <2>7. CASE DrillDrop
    BY <2>7, <1>1 DEF DrillDrop
  <2>8. CASE DrillRemove
    BY <2>8, <1>1 DEF DrillRemove
  <2>9. CASE DrillFails
    BY <2>9, <1>1 DEF DrillFails, Cleanup
  <2>10. CASE VerifyKilled
    BY <2>10, <1>1 DEF VerifyKilled
  <2>11. CASE DrillInterrupted
    BY <2>11, <1>1 DEF DrillInterrupted
  <2>12. CASE OperatorCleans
    BY <2>12, <1>1 DEF OperatorCleans
  <2>13. CASE DrillOwns
    BY <2>13, <1>1 DEF DrillOwns
  <2> QED
    BY <2>1, <2>2, <2>3, <2>4, <2>5, <2>6, <2>7, <2>8, <2>9, <2>10, <2>11, <2>12, <2>13
      DEF Drill
<1> QED
  BY <1>2, <1>3

LEMMA StutterStep ==
  ASSUME IInv, UNCHANGED vars
  PROVE  IInv'
BY DEF IInv, TypeOK, Stored, BackupConsistent, OneLatest, SnapshotComplete, DrillConsistent,
  Unpublished, Extracted, Migrated, PublishedVerified, NothingLeft, vars, live, drilled

----------------------------------------------------------------------------
\* What a backup and a drill know at each stage holds in every reachable state,
\* for every set of contents and every number of migrations.
THEOREM BackupsInvariant == Spec => []IInv
<1>1. IInv /\ [Next]_vars => IInv'
  BY ApplicationStep, BackupStep, DrillStep, StutterStep DEF Next
<1> QED
  BY <1>1, InitIInv, PTL DEF Spec

\* Tables, snapshots and what a drill restores keep their types; a manifest
\* always names a revision.
THEOREM BackupTypes == Spec => []TypeOK
<1>1. IInv => TypeOK
  BY DEF IInv
<1> QED
  BY <1>1, BackupsInvariant, PTL

\* backup.sh dumps first and archives second: a snapshot has the original of
\* every row in its dump.
THEOREM SnapshotsComplete == Spec => []SnapshotComplete
<1>1. IInv => SnapshotComplete
  BY DEF IInv
<1> QED
  BY <1>1, BackupsInvariant, PTL

\* restore-verify.sh publishes only what it has verified, whatever happens to
\* the database between the dump and the manifest.
THEOREM PublishedIsVerified == Spec => []PublishedVerified
<1>1. IInv => PublishedVerified
  BY DEF IInv
<1> QED
  BY <1>1, BackupsInvariant, PTL

\* A drill that succeeds, or fails after createdb with every removal of its two
\* traps done, leaves nothing, at whatever step it failed.
THEOREM DrillsLeaveNothing == Spec => []NothingLeft
<1>1. IInv => NothingLeft
  BY DEF IInv
<1> QED
  BY <1>1, BackupsInvariant, PTL

(***************************************************************************)
(* Imports from Actual, for any number of importers, exports and requests. *)
(* An import that has the advisory lock is the only one that may add rows: *)
(* so what it sees stays once what it has found once, whatever the user    *)
(* removes meanwhile, and its commit makes it the ledger.                  *)
(***************************************************************************)
\* The stages of an import under the advisory lock.
Locking == {"resolve", "write", "commit"}

\* An import is a record of all it remembers.
ImpOK(m) ==
  m = [stage |-> m.stage, mode |-> m.mode, strict |-> m.strict, rows |-> m.rows,
       rate |-> m.rate, run |-> m.run, todo |-> m.todo, fx |-> m.fx, errors |-> m.errors,
       saved |-> m.saved, victims |-> m.victims, doomed |-> m.doomed, pin |-> m.pin,
       held |-> m.held]

OwnOK(o) == o = [add |-> o.add, del |-> o.del]

ImportsOK ==
  /\ DOMAIN imp = Importers /\ DOMAIN own = Importers
  /\ \A i \in Importers : ImpOK(imp[i]) /\ OwnOK(own[i])
  /\ \A i \in Importers : DOMAIN own[i].add = Import!Tables
  /\ DOMAIN db = Import!Tables

\* The advisory lock has one holder.
OneHolder == \A i \in Importers : imp[i].stage \in Locking <=> importLock = i

\* Before it has the lock an import adds nothing.
NoEarlyRows == \A i \in Importers : imp[i].stage \notin Locking => own[i].add = Import!Empty

\* An import that adds pinned history deletes nothing.
NoDeletes == 
  \A i \in Importers :
    /\ imp[i].stage \notin Locking \cup {"lock"} => own[i].del = Import!Empty
    /\ imp[i].stage \in {"dump", "check", "delete", "lock"} => imp[i].pin = {}
    /\ imp[i].pin # {} => own[i].del = Import!Empty

Shape == ImportsOK /\ OneHolder /\ NoEarlyRows /\ NoDeletes

\* What an import adds for an operation.
NewTxn(i, op, ps) == Import!Txn(<<op.id, imp[i].run>>, op.id, "actual", TRUE, op.type, ps)
NewRecord(i, op) == [op |-> op.id, key |-> <<op.id, imp[i].run>>]

\* An operation is booked with these postings, or is an error.
Booking(i, op, fx, made, ps) ==
  /\ imp' = [imp EXCEPT ![i].todo = @ \ {op}, ![i].fx = fx, ![i].errors = @ \/ FALSE]
  /\ own' = [own EXCEPT
       ![i].add.ent = @ \cup made,
       ![i].add.txn = @ \cup {NewTxn(i, op, ps)},
       ![i].add.done = @ \cup {NewRecord(i, op)}]
Error(i, op, fx, made) ==
  /\ imp' = [imp EXCEPT ![i].todo = @ \ {op}, ![i].fx = fx, ![i].errors = TRUE]
  /\ own' = [own EXCEPT ![i].add.ent = @ \cup made]

\* What the books of an import are after an operation is booked, or not.
LEMMA BooksOrErrs ==
  ASSUME NEW i, NEW op, Import!WriteBooks(i, op)
  PROVE  /\ Import!DoneAs(Import!See(i), op.id) = {}
         /\ {t \in Import!Marked(Import!See(i)) : t.op = op.id} = {}
         /\ \E fx, made, ps : Booking(i, op, fx, made, ps) \/ Error(i, op, fx, made)
<1> DEFINE missing == imp[i].rate = 0 /\ \E l \in op.legs : l.acct \in Foreign
           plain == Import!Postings(Import!See(i), op, imp[i].rate)
           need == IF missing THEN {} ELSE Import!FxNeeded(op, plain)
           fx == imp[i].fx \cup need
           diff == Import!Difference(plain)
           ps == IF diff = 0 THEN plain ELSE plain \cup {Import!FxPosting(diff, imp[i].run)}
           made == {Import!FxCategory(k, imp[i].run) : k \in need \ imp[i].fx}
           ok == /\ ~missing
                 /\ op.type # "transfer" => \E l \in op.legs : l.cat # None
                 /\ Import!FxKind(diff) \subseteq fx
                 /\ Import!Bookable([Import!See(i) EXCEPT !.ent = @ \cup made], op.type, ps)
<1>1. /\ Import!DoneAs(Import!See(i), op.id) = {}
      /\ {t \in Import!Marked(Import!See(i)) : t.op = op.id} = {}
      /\ imp' = [imp EXCEPT ![i].todo = @ \ {op}, ![i].fx = fx, ![i].errors = @ \/ ~ok]
      /\ own' = [own EXCEPT
           ![i].add.ent = @ \cup made,
           ![i].add.txn =
             IF ok THEN @ \cup {NewTxn(i, op, ps)}
                   ELSE @,
           ![i].add.done =
             IF ok THEN @ \cup {NewRecord(i, op)} ELSE @]
  BY Zenon DEF Import!WriteBooks, NewTxn, NewRecord
<1> HIDE DEF fx, made, ps, ok
<1>2. CASE ok
  <2>1. Booking(i, op, fx, made, ps)
    BY <1>1, <1>2 DEF Booking
  <2> QED
    BY <1>1, <2>1
<1>3. CASE ~ok
  <2>1. Error(i, op, fx, made)
    BY <1>1, <1>3 DEF Error
  <2> QED
    BY <1>1, <2>1
<1> QED
  BY <1>2, <1>3

\* What an import has added, and what it remembers, when it has booked an operation.
LEMMA BookingAdds ==
  ASSUME ImportsOK, NEW i \in Importers, NEW op, NEW fx, NEW made, NEW ps,
         Booking(i, op, fx, made, ps)
  PROVE  /\ own'[i].add.txn = own[i].add.txn \cup {NewTxn(i, op, ps)}
         /\ own'[i].add.done = own[i].add.done \cup {NewRecord(i, op)}
         /\ own'[i].del = own[i].del
         /\ imp'[i].todo = imp[i].todo \ {op}
         /\ imp'[i].stage = imp[i].stage /\ imp'[i].rows = imp[i].rows
         /\ imp'[i].pin = imp[i].pin /\ imp'[i].held = imp[i].held
         /\ imp[i].errors => imp'[i].errors
<1>1. /\ imp' = [imp EXCEPT ![i].todo = @ \ {op}, ![i].fx = fx, ![i].errors = @ \/ FALSE]
      /\ own' = [own EXCEPT ![i].add.ent = @ \cup made, ![i].add.txn = @ \cup {NewTxn(i, op, ps)},
                            ![i].add.done = @ \cup {NewRecord(i, op)}]
  BY DEF Booking
<1>2. /\ i \in DOMAIN imp /\ i \in DOMAIN own /\ ImpOK(imp[i]) /\ OwnOK(own[i])
      /\ {"txn", "ent", "done"} \subseteq DOMAIN own[i].add
  BY DEF ImportsOK, Import!Tables
<1>3. /\ own'[i].add.txn = own[i].add.txn \cup {NewTxn(i, op, ps)}
      /\ own'[i].add.done = own[i].add.done \cup {NewRecord(i, op)}
      /\ own'[i].del = own[i].del
  BY <1>1, <1>2 DEF OwnOK
<1>4. /\ imp'[i].todo = imp[i].todo \ {op}
      /\ imp'[i].stage = imp[i].stage /\ imp'[i].rows = imp[i].rows
      /\ imp'[i].pin = imp[i].pin /\ imp'[i].held = imp[i].held
  BY <1>1, <1>2 DEF ImpOK
<1>5. imp[i].errors => imp'[i].errors
  BY <1>1, <1>2 DEF ImpOK
<1> QED
  BY <1>3, <1>4, <1>5

\* A replacement that has found nothing in its way remembers what it will delete.
LEMMA CheckRemembers ==
  ASSUME NEW i, Import!ReplaceCheck(i)
  PROVE  /\ imp[i].stage = "check" /\ UNCHANGED <<source, db, own, importLock, runs, edits>>
         /\ i \in DOMAIN imp /\ ImpOK(imp[i]) =>
              /\ imp'[i].stage = "delete" /\ imp'[i].pin = imp[i].pin /\ ImpOK(imp'[i])
              /\ imp'[i].todo = imp[i].todo /\ imp'[i].rows = imp[i].rows
              /\ DOMAIN imp' = DOMAIN imp /\ \A j \in DOMAIN imp \ {i} : imp'[j] = imp[j]
<1> DEFINE v == {t.key : t \in Import!Imported(db)}
           d == UNION {Import!Ents(t) : t \in Import!Imported(db)}
<1>1. /\ imp[i].stage = "check" /\ UNCHANGED <<source, db, own, importLock, runs, edits>>
      /\ imp' = [imp EXCEPT ![i].stage = "delete", ![i].doomed = d, ![i].victims = v]
  BY DEF Import!ReplaceCheck
<1> HIDE DEF d, v
<1>2. ASSUME i \in DOMAIN imp, ImpOK(imp[i])
      PROVE  /\ imp'[i].stage = "delete" /\ imp'[i].pin = imp[i].pin /\ ImpOK(imp'[i])
             /\ imp'[i].todo = imp[i].todo /\ imp'[i].rows = imp[i].rows
             /\ DOMAIN imp' = DOMAIN imp /\ \A j \in DOMAIN imp \ {i} : imp'[j] = imp[j]
  <2>1. imp'[i] = [imp[i] EXCEPT !.stage = "delete", !.doomed = d, !.victims = v]
    BY <1>1, <1>2
  <2>2. /\ imp'[i].stage = "delete" /\ imp'[i].pin = imp[i].pin /\ ImpOK(imp'[i])
        /\ imp'[i].todo = imp[i].todo /\ imp'[i].rows = imp[i].rows
    BY <1>2, <2>1 DEF ImpOK
  <2>3. DOMAIN imp' = DOMAIN imp /\ \A j \in DOMAIN imp \ {i} : imp'[j] = imp[j]
    BY <1>1
  <2> QED
    BY <2>2, <2>3
<1> QED
  BY <1>1, <1>2

\* Resolving adds entities and mappings.
LEMMA ResolveAdds ==
  ASSUME NEW i, Import!Resolve(i)
  PROVE  /\ imp[i].stage = "resolve" /\ UNCHANGED <<source, db, importLock, runs, edits>>
         /\ imp' = [imp EXCEPT ![i].stage = "write"]
         /\ \E e, m : own' = [own EXCEPT ![i].add.ent = @ \cup e, ![i].add.map = @ \cup m]
<1> DEFINE ops == Import!Operations(imp[i].rows)
           back == Import!Backfilled(Import!See(i), ops)
           mapped == Import!See(i).map \cup back
           fresh == {x \in Import!SourceIds : ~\E m \in mapped : m.kind = x[1] /\ m.id = x[2]}
           e == {Import!Entity(x[1], x[2], imp[i].run) : x \in fresh}
           n == {[kind |-> x[1], id |-> x[2], ent |-> Import!Entity(x[1], x[2], imp[i].run)] : x \in fresh}
<1>1. own' = [own EXCEPT ![i].add.ent = @ \cup e, ![i].add.map = @ \cup back \cup n]
  BY Zenon DEF Import!Resolve
<1>2. (own[i].add.map \cup back) \cup n = own[i].add.map \cup (back \cup n)
  OBVIOUS
<1> HIDE DEF e, n, back
<1>3. own' = [own EXCEPT ![i].add.ent = @ \cup e, ![i].add.map = @ \cup (back \cup n)]
  BY <1>1, <1>2
<1> QED
  BY <1>3 DEF Import!Resolve

LEMMA ImportShape ==
  ASSUME Shape, Import!Next
  PROVE  Shape'
<1> USE ImportersAssumption DEF Shape
<1>1. CASE Import!User
  BY <1>1 DEF Import!User, Import!UserPosts, Import!UserDeletes, Import!UserRewrites, Import!UserDeletesCategory,
    Import!EditSource, ImportsOK, OneHolder, NoEarlyRows, NoDeletes
<1>2. ASSUME NEW i \in Importers, Import!Import(i) PROVE Shape'
  <2> USE DEF Locking, OneHolder, NoEarlyRows, NoDeletes, ImportsOK, ImpOK, OwnOK
  <2>0. ImpOK(imp[i]) /\ OwnOK(own[i])
    BY <1>2 
  <2>1. CASE Import!Begin(i)
    <3>1. PICK mode \in {"plain", "replace", "pinned"}, strict \in BOOLEAN, rate \in {0, Rate},
               pin \in {{}} \cup {{t} : t \in Import!Imported(db)} :
            /\ mode = "pinned" <=> pin # {}
            /\ imp' = [imp EXCEPT ![i] = Import!Begun(mode, strict, rate, pin)]
      BY <2>1 DEF Import!Begin
    <3>2. /\ ImpOK(imp'[i]) /\ imp'[i].pin = pin
          /\ imp'[i].stage = IF mode = "plain" THEN "lock"
                             ELSE IF mode = "replace" THEN "dump" ELSE "validate"
      BY <3>1, ZenonT(40) DEF Import!Begun, Import!Idle
    <3> QED
      BY <2>0, <2>1, <3>1, <3>2 DEF Import!Begin
  <2>2. CASE Import!Dump(i)
    BY <2>0, <2>2, ZenonT(40) DEF Import!Dump
  <2>3. CASE Import!ReplaceCheck(i)
    <3>1. /\ imp[i].stage = "check" /\ UNCHANGED <<db, own, importLock>>
          /\ imp'[i].stage = "delete" /\ imp'[i].pin = imp[i].pin /\ ImpOK(imp'[i])
          /\ DOMAIN imp' = Importers /\ \A j \in Importers \ {i} : imp'[j] = imp[j]
      BY <2>0, <2>3, CheckRemembers
    <3> QED
      BY <2>0, <3>1
  <2>4. CASE Import!ReplaceDelete(i)
    BY <2>0, <2>4, ZenonT(40) DEF Import!ReplaceDelete
  <2>5. CASE Import!Validate(i)
    BY <2>0, <2>5, ZenonT(40) DEF Import!Validate
  <2>6. CASE Import!Lock(i)
    BY <2>0, <2>6 DEF Import!Lock
  <2>7. CASE Import!Resolve(i)
    BY <2>0, <2>7, ZenonT(40) DEF Import!Resolve
  <2>8. CASE Import!Write(i)
    <3>1. PICK op : Import!WriteSkips(i, op) \/ Import!WriteRecords(i, op) \/ Import!WriteBooks(i, op)
      BY <2>8 DEF Import!Write
    <3>2. UNCHANGED <<db, importLock>> /\ imp[i].stage = "write"
      BY <2>8 DEF Import!Write
    <3>3. CASE Import!WriteSkips(i, op)
      BY <2>0, <3>2, <3>3, ZenonT(40) DEF Import!WriteSkips
    <3>4. CASE Import!WriteRecords(i, op)
      BY <2>0, <3>2, <3>4, ZenonT(40) DEF Import!WriteRecords
    <3>5. CASE Import!WriteBooks(i, op)
      <4>1. PICK op1, fx, made, ps : Booking(i, op1, fx, made, ps) \/ Error(i, op1, fx, made)
        BY <3>5, BooksOrErrs
      <4>2. /\ imp'[i].stage = imp[i].stage /\ imp'[i].pin = imp[i].pin
            /\ ImpOK(imp'[i]) /\ OwnOK(own'[i])
            /\ own'[i].del = own[i].del
            /\ DOMAIN own'[i].add = Import!Tables
            /\ DOMAIN imp' = Importers /\ DOMAIN own' = Importers
            /\ \A j \in Importers \ {i} : imp'[j] = imp[j] /\ own'[j] = own[j]
        <5>1. CASE Booking(i, op1, fx, made, ps)
          BY <5>1, <2>0 DEF Booking
        <5>2. CASE Error(i, op1, fx, made)
          BY <5>2, <2>0 DEF Error
        <5> QED
          BY <4>1, <5>1, <5>2
      <4> QED
        BY <2>0, <3>2, <4>2
    <3> QED
      BY <3>1, <3>3, <3>4, <3>5
  <2>9. CASE Import!Reconcile(i)
    BY <2>0, <2>9 DEF Import!Reconcile
  <2>10. CASE Import!Commit(i)
    BY <2>0, <2>10, ZenonT(40) DEF Import!Commit, Import!End, Import!Nothing, Import!Empty, Import!Idle, Import!See
  <2>11. CASE Import!Fail(i)
    BY <2>0, <2>11, ZenonT(40) DEF Import!Fail, Import!End, Import!Nothing, Import!Empty, Import!Idle
  <2> QED BY <1>2, <2>1, <2>2, <2>3, <2>4, <2>5, <2>6, <2>7, <2>8, <2>9, <2>10, <2>11 DEF Import!Import
<1> QED BY <1>1, <1>2 DEF Import!Next

-----------------------------------------------------------------------------
\* What an import sees, table by table.
SeenTables(i, tables) ==
  /\ DOMAIN tables = Import!Tables
  /\ tables.txn = {Import!Without(t, own[i].del.ent) : t \in db.txn \ own[i].del.txn} \cup own[i].add.txn
  /\ tables.ent = (db.ent \ own[i].del.ent) \cup own[i].add.ent
  /\ tables.map = (db.map \ own[i].del.map) \cup own[i].add.map
  /\ tables.done = (db.done \ own[i].del.done) \cup own[i].add.done

LEMMA Seen ==
  ASSUME Shape, NEW i \in Importers
  PROVE  SeenTables(i, Import!See(i))
BY DEF Import!See, Import!Tables, SeenTables

LEMMA SeenAfter ==
  ASSUME Shape', NEW i \in Importers
  PROVE  SeenTables(i, Import!See(i))'
BY DEF Import!See, Import!Tables, SeenTables

\* A posting that loses its category leaves its transaction what it was.
LEMMA WithoutKeeps ==
  ASSUME NEW t, NEW ents
  PROVE  /\ Import!Without(t, ents).op = t.op
         /\ Import!Without(t, ents).by = t.by
         /\ Import!Without(t, ents).marked = t.marked
BY DEF Import!Without, Import!Txn

\* A table has no two marked imports of one operation.
Once(tables) ==
  \A t, u \in Import!Imported(tables) : t.op = u.op /\ t.marked /\ u.marked => t = u
\* A table of mappings keeps the entities apart.
Apart(tables) == \A m, n \in tables.map : m.ent = n.ent => m = n

OnceInv ==
  /\ Once(db) /\ Apart(db)
  /\ \A i \in Importers : imp[i].stage \in Locking => Once(Import!See(i))
  /\ \A i \in Importers : imp[i].stage = "commit" => Apart(Import!See(i))

LEMMA LockerSeesOnce ==
  ASSUME Shape, NEW i \in Importers, Once(db), own[i].add = Import!Empty
  PROVE  Once(Import!See(i))
<1>1. Import!See(i).txn = {Import!Without(t, own[i].del.ent) : t \in db.txn \ own[i].del.txn}
  BY Seen DEF Import!Empty, Import!Tables, SeenTables
<1> QED
  BY <1>1, WithoutKeeps DEF Once, Import!Imported

\* The user adds nothing that is imported and marked.
LEMMA UserAddsNoImport ==
  ASSUME Shape, Import!User
  PROVE  /\ UNCHANGED <<own, imp, importLock>>
         /\ db'.map = db.map /\ db'.done = db.done
         /\ \A t \in db'.txn : t.by = "actual" /\ t.marked => t \in db.txn
<1> USE DEF Shape, ImportsOK, Import!Tables
<1>1. CASE \E a, c \in db.ent : Import!UserPosts(a, c)
  <2>1. PICK a, c : Import!UserPosts(a, c)
    BY <1>1
  <2>2. \A key, legs : Import!Txn(key, 0, "manual", FALSE, "expense", legs).by = "manual"
    BY DEF Import!Txn
  <2>3. db'.map = db.map /\ db'.done = db.done /\ \A t \in db'.txn : t.by = "manual" \/ t \in db.txn
    BY <2>1, <2>2 DEF Import!UserPosts
  <2> QED
    BY <2>1, <2>3 DEF Import!UserPosts
<1>2. CASE \E t \in db.txn : Import!UserDeletes(t)
  BY <1>2 DEF Import!UserDeletes
<1>3. CASE \E t \in db.txn : Import!UserRewrites(t)
  BY <1>3 DEF Import!UserRewrites, Import!Txn
<1>4. CASE \E c \in db.ent : Import!UserDeletesCategory(c)
  BY <1>4 DEF Import!UserDeletesCategory
<1>5. CASE Import!EditSource
  BY <1>5 DEF Import!EditSource
<1> QED
  BY <1>1, <1>2, <1>3, <1>4, <1>5 DEF Import!User

LEMMA UserKeepsOnce ==
  ASSUME Shape, Shape', OnceInv, Import!User
  PROVE  OnceInv'
<1>1. Once(db)' /\ Apart(db)'
  BY UserAddsNoImport DEF OnceInv, Once, Apart, Import!Imported
<1>2. ASSUME NEW i \in Importers, imp'[i].stage \in Locking PROVE Once(Import!See(i))'
  <2>1. Once(Import!See(i))
    BY <1>2, UserAddsNoImport DEF OnceInv
  <2>2. ASSUME NEW t \in Import!See(i)'.txn, t.by = "actual", t.marked PROVE t \in Import!See(i).txn
    <3>1. CASE t \in own[i].add.txn
      BY <3>1, Seen DEF SeenTables
    <3>2. CASE \E u \in db'.txn \ own[i].del.txn : t = Import!Without(u, own[i].del.ent)
      BY <2>2, <3>2, Seen, UserAddsNoImport, WithoutKeeps DEF SeenTables
    <3> QED
      BY <3>1, <3>2, SeenAfter, UserAddsNoImport DEF SeenTables
  <2> QED
    BY <2>1, <2>2 DEF Once, Import!Imported
<1>3. ASSUME NEW i \in Importers, imp'[i].stage = "commit" PROVE Apart(Import!See(i))'
  BY <1>3, Seen, SeenAfter, UserAddsNoImport DEF OnceInv, Apart, SeenTables
<1> QED
  BY <1>1, <1>2, <1>3 DEF OnceInv

\* A step of an import leaves the others alone, and the ledger too unless it
\* commits, which only the holder of the lock does.
LEMMA ImportAlone ==
  ASSUME Shape, NEW i \in Importers, Import!Import(i)
  PROVE  /\ \A j \in Importers \ {i} : imp'[j] = imp[j] /\ own'[j] = own[j]
         /\ db' = db \/ Import!Commit(i)
         /\ Import!Commit(i) => \A j \in Importers \ {i} : imp'[j].stage \notin Locking
<1> USE DEF Shape, ImportsOK
<1>1. \A j \in Importers \ {i} : imp'[j] = imp[j] /\ own'[j] = own[j]
  <2>1. CASE Import!Begin(i)
    BY <2>1 DEF Import!Begin
  <2>2. CASE Import!ReplaceCheck(i)
    BY <2>2 DEF Import!ReplaceCheck
  <2>3. CASE Import!Resolve(i)
    BY <2>3 DEF Import!Resolve
  <2>4. CASE Import!Write(i)
    <3>1. PICK op : Import!WriteSkips(i, op) \/ Import!WriteRecords(i, op) \/ Import!WriteBooks(i, op)
      BY <2>4 DEF Import!Write
    <3>2. CASE Import!WriteBooks(i, op)
      <4>1. PICK op1, fx, made, ps : Booking(i, op1, fx, made, ps) \/ Error(i, op1, fx, made)
        BY <3>2, BooksOrErrs
      <4> QED
        BY <4>1 DEF Booking, Error
    <3> QED
      BY <3>1, <3>2 DEF Import!WriteSkips, Import!WriteRecords
  <2> QED
    BY <2>1, <2>2, <2>3, <2>4 DEF Import!Import, Import!Dump, Import!ReplaceDelete, Import!Validate,
      Import!Lock, Import!Reconcile, Import!Commit, Import!Fail, Import!End
<1>2. db' = db \/ Import!Commit(i)
  BY DEF Import!Import, Import!Begin, Import!Dump, Import!ReplaceCheck, Import!ReplaceDelete,
    Import!Validate, Import!Lock, Import!Resolve, Import!Write, Import!Reconcile, Import!Fail
<1>3. Import!Commit(i) => \A j \in Importers \ {i} : imp'[j].stage \notin Locking
  BY <1>1 DEF Import!Commit, OneHolder, Locking
<1> QED
  BY <1>1, <1>2, <1>3

\* What an import sees changes by its own steps only, while the ledger does not.
LEMMA SeesTheSame ==
  ASSUME NEW j, own'[j] = own[j], db' = db
  PROVE  Import!See(j)' = Import!See(j)
BY DEF Import!See

LEMMA SeesTheSameTxn ==
  ASSUME Shape, Shape', NEW i \in Importers, db' = db, own'[i].del = own[i].del
  PROVE  \E kept : /\ Import!See(i).txn = kept \cup own[i].add.txn
                   /\ Import!See(i)'.txn = kept \cup own'[i].add.txn
<1> DEFINE kept == {Import!Without(t, own[i].del.ent) : t \in db.txn \ own[i].del.txn}
<1>1. Import!See(i).txn = kept \cup own[i].add.txn
  BY Seen DEF SeenTables
<1>2. Import!See(i)'.txn = kept \cup own'[i].add.txn
  BY SeenAfter DEF SeenTables
<1> HIDE DEF kept
<1> QED
  BY <1>1, <1>2

LEMMA ImportKeepsOnce ==
  ASSUME Shape, Shape', OnceInv, NEW i \in Importers, Import!Import(i)
  PROVE  OnceInv'
<1> USE DEF Locking
<1>1. ASSUME db' = db,
             imp'[i].stage \in Locking => Once(Import!See(i))',
             imp'[i].stage = "commit" => Apart(Import!See(i))'
      PROVE  OnceInv'
  <2>2. ASSUME NEW j \in Importers \ {i}
        PROVE  Import!See(j)' = Import!See(j) /\ imp'[j] = imp[j]
    BY <1>1, ImportAlone, SeesTheSame
  <2> QED
    BY <1>1, <2>2 DEF OnceInv, Once, Apart, Import!Imported
<1>2. CASE Import!Begin(i) \/ Import!Dump(i) \/ Import!ReplaceCheck(i) \/ Import!ReplaceDelete(i)
           \/ Import!Fail(i)
  <2>1. imp'[i].stage \notin Locking /\ db' = db
    <3>1. CASE Import!Begin(i)
      BY <3>1 DEF Import!Begin, Import!Begun, Import!Idle, Shape, ImportsOK
    <3>2. CASE Import!ReplaceCheck(i)
      BY <3>2, CheckRemembers DEF Shape, ImportsOK
    <3>3. CASE Import!Dump(i) \/ Import!ReplaceDelete(i)
      BY <3>3 DEF Import!Dump, Import!ReplaceDelete, Shape, ImportsOK, ImpOK
    <3>4. CASE Import!Fail(i)
      BY <3>4 DEF Import!Fail, Import!Commit, Import!End, Import!Idle, Shape, ImportsOK
    <3> QED
      BY <1>2, <3>1, <3>2, <3>3, <3>4
  <2> QED
    BY <1>1, <2>1
<1>3. CASE Import!Validate(i) \/ Import!Lock(i)
  <2>1. /\ imp[i].stage \notin Locking /\ imp'[i].stage = "resolve" /\ UNCHANGED <<db, own>>
    BY <1>3 DEF Import!Validate, Import!Lock, Shape, ImportsOK, ImpOK
  <2>2. Once(Import!See(i))
    BY <2>1, LockerSeesOnce DEF Shape, NoEarlyRows, OnceInv
  <2>3. Import!See(i)' = Import!See(i)
    BY <2>1, SeesTheSame
  <2> QED
    BY <1>1, <2>1, <2>2, <2>3 DEF Once, Import!Imported
<1>4. CASE Import!Resolve(i)
  <2>1. db' = db /\ imp[i].stage \in Locking /\ imp'[i].stage = "write"
    BY <1>4, ResolveAdds DEF Shape, ImportsOK, ImpOK
  <2>2. own'[i].add.txn = own[i].add.txn /\ own'[i].del = own[i].del
    <3>1. PICK e, m : own' = [own EXCEPT ![i].add.ent = @ \cup e, ![i].add.map = @ \cup m]
      BY <1>4, ResolveAdds
    <3> QED
      BY <3>1 DEF Shape, ImportsOK, OwnOK, Import!Tables
  <2>3. Import!See(i)'.txn = Import!See(i).txn
    BY <2>1, <2>2, SeesTheSameTxn
  <2> QED
    BY <1>1, <2>1, <2>3 DEF OnceInv, Once, Import!Imported
<1>5. CASE Import!Write(i)
  <2>1. /\ imp[i].stage \in Locking /\ db' = db
    BY <1>5 DEF Import!Write
  <2>2. PICK op : Import!WriteSkips(i, op) \/ Import!WriteRecords(i, op) \/ Import!WriteBooks(i, op)
    BY <1>5 DEF Import!Write
  <2>3. Once(Import!See(i))' /\ imp'[i].stage = "write"
    <3>1. CASE Import!WriteSkips(i, op)
      <4>1. own' = own /\ imp'[i].stage = "write"
        BY <1>5, <3>1 DEF Import!WriteSkips, Import!Write, Shape, ImportsOK, ImpOK
      <4> QED
        BY <2>1, <4>1, SeesTheSame DEF OnceInv, Once, Import!Imported
    <3>2. CASE Import!WriteRecords(i, op)
      <4>1. /\ imp'[i].stage = "write"
            /\ own'[i].add.txn = own[i].add.txn /\ own'[i].del = own[i].del
        BY <1>5, <3>2 DEF Import!WriteRecords, Import!Write, Shape, ImportsOK, ImpOK, OwnOK, Import!Tables
      <4> QED
        BY <2>1, <4>1, SeesTheSameTxn DEF OnceInv, Once, Import!Imported
    <3>3. CASE Import!WriteBooks(i, op)
      <4>1. PICK fx, made, ps : Booking(i, op, fx, made, ps) \/ Error(i, op, fx, made)
        BY <3>3, BooksOrErrs
      <4>2. CASE Booking(i, op, fx, made, ps)
        <5> DEFINE new == NewTxn(i, op, ps)
        <5>1. /\ imp'[i].stage = "write"
              /\ own'[i].add.txn = own[i].add.txn \cup {new} /\ own'[i].del = own[i].del
          <6>1. ImportsOK
            BY DEF Shape
          <6>2. imp[i].stage = "write"
            BY <1>5 DEF Import!Write
          <6> HIDE DEF new
          <6>3. /\ imp'[i].stage = imp[i].stage /\ own'[i].del = own[i].del
                /\ own'[i].add.txn = own[i].add.txn \cup {new}
            BY <4>2, <6>1, BookingAdds DEF new
          <6> QED
            BY <6>2, <6>3
        <5>2. Import!See(i)'.txn = Import!See(i).txn \cup {new}
          BY <2>1, <5>1, SeesTheSameTxn
        <5>3. new.op = op.id
          BY DEF Import!Txn, NewTxn
        <5>4. \A t \in Import!See(i).txn : t.by = "actual" /\ t.marked => t.op # op.id
          BY <3>3, BooksOrErrs DEF Import!Marked, Import!Imported
        <5> HIDE DEF new
        <5> QED
          BY <2>1, <5>1, <5>2, <5>3, <5>4 DEF OnceInv, Once, Import!Imported
      <4>3. CASE Error(i, op, fx, made)
        <5>1. /\ imp'[i].stage = "write"
              /\ own'[i].add.txn = own[i].add.txn /\ own'[i].del = own[i].del
          BY <1>5, <4>3 DEF Error, Import!Write, Shape, ImportsOK, ImpOK, OwnOK, Import!Tables
        <5> QED
          BY <2>1, <5>1, SeesTheSameTxn DEF OnceInv, Once, Import!Imported
      <4> QED
        BY <4>1, <4>2, <4>3
    <3> QED
      BY <2>2, <3>1, <3>2, <3>3
  <2> QED
    BY <1>1, <2>1, <2>3
<1>6. CASE Import!Reconcile(i)
  <2>1. /\ imp[i].stage \in Locking /\ imp'[i].stage = "commit" /\ UNCHANGED <<db, own>>
        /\ Apart(Import!See(i))
    BY <1>6 DEF Import!Reconcile, Shape, ImportsOK, ImpOK, Apart
  <2>2. Import!See(i)' = Import!See(i)
    BY <2>1, SeesTheSame
  <2> QED
    BY <1>1, <2>1, <2>2 DEF OnceInv, Once, Apart, Import!Imported
<1>7. CASE Import!Commit(i)
  <2>1. /\ db' = Import!See(i) /\ imp[i].stage = "commit" /\ imp'[i].stage = "idle"
    BY <1>7 DEF Import!Commit, Import!End, Import!Idle, Shape, ImportsOK
  <2>2. Once(db)' /\ Apart(db)'
    BY <2>1 DEF OnceInv, Once, Apart, Import!Imported
  <2> QED
    BY <1>7, <2>1, <2>2, ImportAlone DEF OnceInv
<1> QED
  BY <1>2, <1>3, <1>4, <1>5, <1>6, <1>7 DEF Import!Import

-----------------------------------------------------------------------------
\* Some record tells where an operation went.
HasRecord(tables, id) == \E x \in tables.done : x.op = id

LEMMA RecordOfDone ==
  ASSUME NEW tables, NEW id
  PROVE  Import!DoneAs(tables, id) # {} <=> HasRecord(tables, id)
BY DEF Import!DoneAs, HasRecord

\* The library counts the same in every instance.
LEMMA OneIsSome ==
  ASSUME NEW T, Import!Cardinality(T) = 1
  PROVE  T # {}
<1>1. Import!Cardinality(T) = Cardinality(T)
  BY Zenon DEF Import!Cardinality, Cardinality
<1> QED
  BY <1>1, FS_EmptySet

\* An operation of the export of i is still to do, an error, or has a record
\* that i sees; before a commit of a strict import all have one.
WholeInv ==
  \A i \in Importers :
    /\ imp[i].stage \in {"dump", "check", "delete", "validate", "lock", "resolve"} =>
         imp[i].todo = Import!Operations(imp[i].rows)
    /\ imp[i].stage = "write" =>
         \A op \in Import!Operations(imp[i].rows) :
           op \in imp[i].todo \/ imp[i].errors \/ HasRecord(Import!See(i), op.id)
    /\ imp[i].stage = "commit" /\ imp[i].strict =>
         \A op \in Import!Operations(imp[i].rows) : HasRecord(Import!See(i), op.id)

LEMMA UserKeepsWhole ==
  ASSUME Shape, Shape', WholeInv, Import!User
  PROVE  WholeInv'
<1>1. ASSUME NEW i \in Importers PROVE Import!See(i)'.done = Import!See(i).done
  BY Seen, SeenAfter, UserAddsNoImport DEF SeenTables
<1> QED
  BY <1>1, UserAddsNoImport DEF WholeInv, HasRecord

LEMMA ImportKeepsWhole ==
  ASSUME Shape, Shape', WholeInv, NEW i \in Importers, Import!Import(i)
  PROVE  WholeInv'
<1> DEFINE W(j) ==
      /\ imp[j].stage \in {"dump", "check", "delete", "validate", "lock", "resolve"} =>
           imp[j].todo = Import!Operations(imp[j].rows)
      /\ imp[j].stage = "write" =>
           \A op \in Import!Operations(imp[j].rows) :
             op \in imp[j].todo \/ imp[j].errors \/ HasRecord(Import!See(j), op.id)
      /\ imp[j].stage = "commit" /\ imp[j].strict =>
           \A op \in Import!Operations(imp[j].rows) : HasRecord(Import!See(j), op.id)
<1>0. imp[i].stage \in {"dump", "check", "delete", "validate", "lock", "resolve"} =>
           imp[i].todo = Import!Operations(imp[i].rows)
  BY DEF WholeInv
<1>w. imp[i].stage = "write" =>
        \A op \in Import!Operations(imp[i].rows) :
          op \in imp[i].todo \/ imp[i].errors \/ HasRecord(Import!See(i), op.id)
  BY DEF WholeInv
<1>1. ASSUME NEW j \in Importers \ {i} PROVE W(j)'
  <2>1. CASE db' = db
    BY <2>1, ImportAlone, SeesTheSame DEF WholeInv
  <2>2. CASE Import!Commit(i)
    <3>1. imp[j].stage \notin Locking /\ imp'[j] = imp[j]
      BY <2>2, ImportAlone
    <3> QED
      BY <3>1 DEF WholeInv, Locking
  <2> QED
    BY <2>1, <2>2, ImportAlone
<1>2. W(i)'
  <2> USE DEF Shape, ImportsOK, ImpOK
  <2>1. CASE Import!Begin(i)
    <3>1. PICK mode \in {"plain", "replace", "pinned"}, strict \in BOOLEAN, rate \in {0, Rate},
               pin \in {{}} \cup {{t} : t \in Import!Imported(db)} :
             imp' = [imp EXCEPT ![i] = Import!Begun(mode, strict, rate, pin)]
      BY <2>1 DEF Import!Begin
    <3>2. /\ imp'[i].stage \notin {"write", "commit"}
          /\ imp'[i].todo = Import!Operations(source) /\ imp'[i].rows = source
      BY <3>1 DEF Import!Begun, Import!Idle
    <3> QED
      BY <3>2
  <2>2. CASE Import!Dump(i) \/ Import!ReplaceDelete(i)
    BY <1>0, <2>2 DEF Import!Dump, Import!ReplaceDelete
  <2>3. CASE Import!ReplaceCheck(i)
    BY <1>0, <2>3, CheckRemembers
  <2>4. CASE Import!Validate(i) \/ Import!Lock(i)
    BY <1>0, <2>4 DEF Import!Validate, Import!Lock
  <2>5. CASE Import!Resolve(i)
    BY <1>0, <2>5, ResolveAdds
  <2>6. CASE Import!Reconcile(i)
    <3>1. /\ imp[i].stage = "write" /\ imp[i].todo = {}
          /\ imp[i].strict => ~imp[i].errors
          /\ imp' = [imp EXCEPT ![i].stage = "commit"]
          /\ UNCHANGED <<db, own>>
      BY <2>6 DEF Import!Reconcile
    <3>2. Import!See(i)' = Import!See(i)
      BY <3>1, SeesTheSame
    <3>3. /\ imp'[i].stage = "commit" /\ imp'[i].strict = imp[i].strict
          /\ imp'[i].rows = imp[i].rows
      BY <3>1
    <3>4. imp[i].strict => \A op \in Import!Operations(imp[i].rows) : HasRecord(Import!See(i), op.id)
      <4> SUFFICES ASSUME imp[i].strict, NEW op \in Import!Operations(imp[i].rows)
                   PROVE  HasRecord(Import!See(i), op.id)
        OBVIOUS
      <4>1. op \in imp[i].todo \/ imp[i].errors \/ HasRecord(Import!See(i), op.id)
        BY <1>w, <3>1
      <4>2. op \notin imp[i].todo /\ ~imp[i].errors
        BY <3>1
      <4> QED
        BY <4>1, <4>2
    <3> QED
      BY <3>2, <3>3, <3>4 DEF HasRecord
  <2>7. CASE Import!Commit(i) \/ Import!Fail(i)
    BY <2>7 DEF Import!Commit, Import!Fail, Import!End, Import!Idle
  <2>8. CASE Import!Write(i)
    <3>1. PICK op \in imp[i].todo :
            Import!WriteSkips(i, op) \/ Import!WriteRecords(i, op) \/ Import!WriteBooks(i, op)
      BY <2>8 DEF Import!Write
    <3>2. imp[i].stage = "write" /\ db' = db
      BY <2>8 DEF Import!Write
    <3>3. /\ imp'[i].stage = "write" /\ imp'[i].rows = imp[i].rows
          /\ imp'[i].todo = imp[i].todo \ {op}
          /\ imp[i].errors => imp'[i].errors
          /\ own'[i].del = own[i].del /\ own[i].add.done \subseteq own'[i].add.done
          /\ imp'[i].errors \/ HasRecord(Import!See(i)', op.id)
      <4>1. CASE Import!WriteSkips(i, op)
        <5>1. HasRecord(Import!See(i)', op.id)
          BY <3>2, <4>1, RecordOfDone, SeesTheSame DEF Import!WriteSkips
        <5> QED
          BY <3>2, <4>1, <5>1 DEF Import!WriteSkips
      <4>2. CASE Import!WriteRecords(i, op)
        <5> DEFINE marked == {t \in Import!Marked(Import!See(i)) : t.op = op.id}
        <5>1. marked # {}
          BY <4>2, OneIsSome DEF Import!WriteRecords
        <5>2. own'[i].add.done = own[i].add.done \cup {[op |-> op.id, key |-> t.key] : t \in marked}
          BY <4>2 DEF Import!WriteRecords, OwnOK, Import!Tables
        <5> HIDE DEF marked
        <5>3. \E x \in own'[i].add.done : x.op = op.id
          <6>1. PICK t \in marked : TRUE
            BY <5>1
          <6>2. [op |-> op.id, key |-> t.key] \in own'[i].add.done
            BY <5>2
          <6> QED
            BY <6>2
        <5>4. HasRecord(Import!See(i)', op.id)
          BY <5>3, SeenAfter DEF SeenTables, HasRecord
        <5> QED
          BY <3>2, <4>2, <5>2, <5>4 DEF Import!WriteRecords, OwnOK
      <4>3. CASE Import!WriteBooks(i, op)
        <5>1. PICK fx, made, ps : Booking(i, op, fx, made, ps) \/ Error(i, op, fx, made)
          BY <4>3, BooksOrErrs
        <5>2. CASE Booking(i, op, fx, made, ps)
          <6>0. ImportsOK
            BY DEF Shape
          <6>1. own'[i].add.done = own[i].add.done \cup {NewRecord(i, op)}
            BY <5>2, <6>0, BookingAdds
          <6>2. HasRecord(Import!See(i)', op.id)
            <7>1. NewRecord(i, op) \in Import!See(i)'.done
              BY <6>1, SeenAfter DEF SeenTables
            <7> QED
              BY <7>1 DEF HasRecord, NewRecord
          <6>3. own[i].add.done \subseteq own'[i].add.done
            BY <6>1
          <6>a. own'[i].del = own[i].del
            BY <5>2, BookingAdds DEF Shape
          <6>4. imp[i].errors => imp'[i].errors
            BY <5>2, BookingAdds DEF Shape
          <6>5. /\ imp'[i].stage = imp[i].stage /\ imp'[i].rows = imp[i].rows
                /\ imp'[i].todo = imp[i].todo \ {op}
            BY <5>2, BookingAdds DEF Shape
          <6> QED
            BY <3>2, <6>2, <6>3, <6>a, <6>4, <6>5
        <5>3. CASE Error(i, op, fx, made)
          BY <3>2, <5>3 DEF Error, OwnOK, Import!Tables
        <5> QED
          BY <5>1, <5>2, <5>3
      <4> QED
        BY <3>1, <4>1, <4>2, <4>3
    <3>4. \A id : HasRecord(Import!See(i), id) => HasRecord(Import!See(i)', id)
      BY <3>2, <3>3, Seen, SeenAfter DEF SeenTables, HasRecord
    <3> QED
      BY <3>2, <3>3, <3>4 DEF WholeInv
  <2> QED
    BY <2>1, <2>2, <2>3, <2>4, <2>5, <2>6, <2>7, <2>8 DEF Import!Import
<1> QED
  BY <1>1, <1>2 DEF WholeInv

-----------------------------------------------------------------------------
\* Pinned history, under its locks, is in the ledger with all it refers to.
PinInv ==
  \A i \in Importers : imp[i].stage \in Locking =>
    \A t \in imp[i].pin :
      t \in db.txn /\ Import!Ents(t) \subseteq db.ent /\ Import!Ents(t) \subseteq imp[i].held

LEMMA UserKeepsPin ==
  ASSUME Shape, Shape', PinInv, Import!User
  PROVE  PinInv'
<1> SUFFICES ASSUME NEW i \in Importers, imp'[i].stage \in Locking, NEW t \in imp'[i].pin
             PROVE  /\ t \in db'.txn /\ Import!Ents(t) \subseteq db'.ent
                    /\ Import!Ents(t) \subseteq imp'[i].held
  BY DEF PinInv
<1>1. /\ imp' = imp /\ imp[i].stage \in Locking /\ t \in imp[i].pin
      /\ t \in db.txn /\ Import!Ents(t) \subseteq db.ent /\ Import!Ents(t) \subseteq imp[i].held
  BY UserAddsNoImport DEF PinInv
<1>2. t \in Import!Pinned(i)
  BY <1>1 DEF Import!Pinned, Locking
<1> USE DEF Shape, ImportsOK, Import!Tables
<1>3. CASE \E a, c \in db.ent : Import!UserPosts(a, c)
  <2>1. PICK a, c \in db.ent : Import!UserPosts(a, c)
    BY <1>3
  <2>2. db'.ent = db.ent /\ db.txn \subseteq db'.txn
    BY <2>1 DEF Import!UserPosts
  <2> QED
    BY <1>1, <2>2
<1>4. CASE \E u \in db.txn : Import!UserDeletes(u) \/ Import!UserRewrites(u)
  <2>1. PICK u \in db.txn : Import!UserDeletes(u) \/ Import!UserRewrites(u)
    BY <1>4
  <2>2. ~Import!Locked({u.key}, {}, Importers)
    BY <2>1 DEF Import!UserDeletes, Import!UserRewrites
  <2>3. t # u
    BY <1>2, <2>2 DEF Import!Locked
  <2>4. t \in db'.txn /\ db'.ent = db.ent
    BY <1>1, <2>1, <2>3 DEF Import!UserDeletes, Import!UserRewrites
  <2> QED
    BY <1>1, <2>4
<1>5. CASE \E c \in db.ent : Import!UserDeletesCategory(c)
  <2>1. PICK c \in db.ent : Import!UserDeletesCategory(c)
    BY <1>5
  <2>2. c \notin imp[i].held
    BY <2>1 DEF Import!UserDeletesCategory, Import!Locked
  <2> QED
    BY <1>1, <2>1, <2>2 DEF Import!UserDeletesCategory
<1>6. CASE Import!EditSource
  BY <1>1, <1>6 DEF Import!EditSource
<1> QED
  BY <1>3, <1>4, <1>5, <1>6 DEF Import!User

LEMMA ImportKeepsPin ==
  ASSUME Shape, Shape', PinInv, NEW i \in Importers, Import!Import(i)
  PROVE  PinInv'
<1>1. ASSUME NEW j \in Importers \ {i}, imp'[j].stage \in Locking
      PROVE  imp'[j] = imp[j] /\ db' = db
  BY <1>1, ImportAlone
<1>2. CASE imp'[i].stage \notin Locking
  BY <1>1, <1>2 DEF PinInv
<1>3. ASSUME db' = db, imp'[i].stage \in Locking, 
             imp[i].stage \in Locking, imp'[i].pin = imp[i].pin, imp'[i].held = imp[i].held
      PROVE  PinInv'
  BY <1>1, <1>3 DEF PinInv
<1> USE DEF Shape, ImportsOK, ImpOK
<1>4. CASE Import!Validate(i)
  <2>1. /\ \A t \in imp[i].pin : t \in db.txn
        /\ \A t \in imp[i].pin : \A p \in t.legs : p.ent \in db.ent /\ \E m \in db.map : m.ent = p.ent
    BY <1>4 DEF Import!Validate
  <2> DEFINE mapped == {m.ent : m \in db.map}
  <2>2. db' = db /\ imp' = [imp EXCEPT ![i].stage = "resolve", ![i].held = mapped]
    BY <1>4 DEF Import!Validate
  <2>3. \A t \in imp[i].pin : Import!Ents(t) \subseteq db.ent /\ Import!Ents(t) \subseteq mapped
    BY <2>1 DEF Import!Ents
  <2> HIDE DEF mapped
  <2>4. imp'[i].pin = imp[i].pin /\ imp'[i].held = mapped
    BY <2>2
  <2> QED
    BY <1>1, <2>1, <2>2, <2>3, <2>4 DEF PinInv
<1>5. CASE Import!Lock(i)
  <2>1. imp'[i].pin = {}
    BY <1>5 DEF Import!Lock, NoDeletes
  <2> QED
    BY <1>1, <1>5, <2>1 DEF PinInv
<1>6. CASE Import!Resolve(i)
  <2>1. imp' = [imp EXCEPT ![i].stage = "write"] /\ imp[i].stage = "resolve" /\ db' = db
    BY <1>6, ResolveAdds
  <2> QED
    BY <1>3, <2>1 DEF Locking
<1>7. CASE Import!Write(i)
  <2>1. PICK op : Import!WriteSkips(i, op) \/ Import!WriteRecords(i, op) \/ Import!WriteBooks(i, op)
    BY <1>7 DEF Import!Write
  <2>2. imp[i].stage = "write" /\ db' = db
    BY <1>7 DEF Import!Write
  <2>3. /\ imp'[i].stage = "write" /\ imp'[i].pin = imp[i].pin
        /\ imp'[i].held = imp[i].held
    <3>1. CASE Import!WriteBooks(i, op)
      <4>1. PICK fx, made, ps : Booking(i, op, fx, made, ps) \/ Error(i, op, fx, made)
        BY <3>1, BooksOrErrs
      <4>2. CASE Booking(i, op, fx, made, ps)
        BY <2>2, <4>2, BookingAdds DEF Shape
      <4>3. CASE Error(i, op, fx, made)
        BY <2>2, <4>3 DEF Error
      <4> QED
        BY <4>1, <4>2, <4>3
    <3> QED
      BY <2>1, <2>2, <3>1 DEF Import!WriteSkips, Import!WriteRecords
  <2> QED
    BY <1>3, <2>2, <2>3 DEF Locking
<1>8. CASE Import!Reconcile(i)
  <2>1. imp' = [imp EXCEPT ![i].stage = "commit"] /\ imp[i].stage = "write" /\ db' = db
    BY <1>8 DEF Import!Reconcile
  <2> QED
    BY <1>3, <2>1 DEF Locking
<1>9. CASE Import!Begin(i)
  <2>1. imp'[i].stage \in {"lock", "dump", "validate"}
    BY <1>9 DEF Import!Begin, Import!Begun, Import!Idle
  <2> QED
    BY <1>2, <2>1 DEF Locking
<1>10. CASE Import!ReplaceCheck(i)
  BY <1>2, <1>10, CheckRemembers DEF Locking
<1>11. CASE Import!Dump(i) \/ Import!ReplaceDelete(i)
  BY <1>2, <1>11 DEF Import!Dump, Import!ReplaceDelete, Locking
<1>12. CASE Import!Commit(i) \/ Import!Fail(i)
  BY <1>2, <1>12 DEF Import!Commit, Import!Fail, Import!End, Import!Idle, Locking
<1> QED
  BY <1>4, <1>5, <1>6, <1>7, <1>8, <1>9, <1>10, <1>11, <1>12 DEF Import!Import

-----------------------------------------------------------------------------
ImportInv == Shape /\ OnceInv /\ WholeInv /\ PinInv

LEMMA ImportInit == Import!Init => ImportInv
<1> SUFFICES ASSUME Import!Init PROVE ImportInv
  OBVIOUS
<1>1. /\ imp = [i \in Importers |-> Import!Idle] /\ own = [i \in Importers |-> Import!Nothing]
      /\ importLock = None
  BY DEF Import!Init
<1>2. DOMAIN db = Import!Tables /\ Once(db) /\ Apart(db)
  <2>1. CASE db = [Import!Empty EXCEPT !.ent = {Import!CashAccount}]
    BY <2>1 DEF Import!Empty, Import!Tables, Once, Apart, Import!Imported
  <2>2. CASE db \in Starts
    BY <2>2, StartsAssumption DEF Once, Apart
  <2> QED
    BY <2>1, <2>2 DEF Import!Init
<1>3. Shape
  BY <1>1, <1>2, ImportersAssumption DEF Shape, ImportsOK, OneHolder, NoEarlyRows, NoDeletes,
    ImpOK, OwnOK, Locking, Import!Idle, Import!Nothing, Import!Empty
<1>4. OnceInv /\ WholeInv /\ PinInv
  BY <1>1, <1>2 DEF OnceInv, WholeInv, PinInv, Locking, Import!Idle
<1> QED
  BY <1>3, <1>4 DEF ImportInv

\* The advisory lock, the books of the imports under way and the locks on
\* pinned history are in order in every reachable state.
THEOREM ImportsInvariant == Import!Spec => []ImportInv
<1>1. ImportInv /\ [Import!Next]_Import!ivars => ImportInv'
  <2> SUFFICES ASSUME ImportInv, [Import!Next]_Import!ivars PROVE ImportInv'
    OBVIOUS
  <2>1. CASE UNCHANGED Import!ivars
    <3>1. UNCHANGED <<db, own, imp, importLock>>
      BY <2>1 DEF Import!ivars
    <3>2. \A i \in Importers : Import!See(i)' = Import!See(i)
      BY <3>1 DEF Import!See
    <3>3. Shape'
      BY <3>1 DEF ImportInv, Shape, ImportsOK, OneHolder, NoEarlyRows, NoDeletes
    <3>4. OnceInv'
      BY <3>1, <3>2 DEF ImportInv, OnceInv, Once, Apart, Import!Imported
    <3>5. WholeInv'
      BY <3>1, <3>2 DEF ImportInv, WholeInv, HasRecord
    <3>6. PinInv'
      BY <3>1 DEF ImportInv, PinInv
    <3> QED
      BY <3>3, <3>4, <3>5, <3>6 DEF ImportInv
  <2>2. CASE Import!User
    BY <2>2, ImportShape, UserKeepsOnce, UserKeepsWhole, UserKeepsPin DEF ImportInv, Import!Next
  <2>3. CASE \E i \in Importers : Import!Import(i)
    BY <2>3, ImportShape, ImportKeepsOnce, ImportKeepsWhole, ImportKeepsPin DEF ImportInv, Import!Next
  <2> QED
    BY <2>1, <2>2, <2>3 DEF Import!Next
<1> QED
  BY <1>1, ImportInit, PTL DEF Import!Spec

\* check_idempotent looks before it books, under the advisory lock of
\* resolve_ids: no two imports book one operation of Actual, unless the user has
\* rewritten the marker of the first.
THEOREM NothingImportedTwice == Import!Spec => []ImportedOnce
<1>1. ImportInv => ImportedOnce
  BY DEF ImportInv, OnceInv, Once, Apart, ImportedOnce, Import!ImportedOnce
<1> QED
  BY <1>1, ImportsInvariant, PTL

\* A strict import that commits leaves a record of every operation of its export.
THEOREM StrictImportsAreWhole == Import!Spec => StrictIsWhole
<1>1. ImportInv /\ [Import!Next]_Import!ivars =>
        [\A i \in Importers : Import!Commit(i) /\ imp[i].strict =>
           \A op \in Import!Operations(imp[i].rows) : Import!DoneAs(db', op.id) # {}]_Import!ivars
  <2> SUFFICES ASSUME ImportInv, NEW i \in Importers, Import!Commit(i), imp[i].strict,
                      NEW op \in Import!Operations(imp[i].rows)
               PROVE  Import!DoneAs(db', op.id) # {}
    OBVIOUS
  <2>1. imp[i].stage = "commit" /\ db' = Import!See(i)
    BY DEF Import!Commit
  <2>2. HasRecord(Import!See(i), op.id)
    BY <2>1 DEF ImportInv, WholeInv
  <2> QED
    BY <2>1, <2>2, RecordOfDone
<1> QED
  BY <1>1, ImportsInvariant, PTL DEF Import!Spec, StrictIsWhole, Import!StrictIsWhole

\* Pinned history outlives its import, whatever others do meanwhile.
THEOREM PinnedHistoryIsKept == Import!Spec => PinnedKept
<1>1. ImportInv /\ [Import!Next]_Import!ivars =>
        [\A i \in Importers : Import!Commit(i) =>
           \A t \in imp[i].pin : t \in db'.txn /\ Import!Ents(t) \subseteq db'.ent]_Import!ivars
  <2> SUFFICES ASSUME ImportInv, NEW i \in Importers, Import!Commit(i), NEW t \in imp[i].pin
               PROVE  t \in db'.txn /\ Import!Ents(t) \subseteq db'.ent
    OBVIOUS
  <2>1. imp[i].stage = "commit" /\ db' = Import!See(i)
    BY DEF Import!Commit
  <2>2. t \in db.txn /\ Import!Ents(t) \subseteq db.ent
    BY <2>1 DEF ImportInv, PinInv, Locking
  <2>3. own[i].del = Import!Empty
    BY DEF ImportInv, Shape, NoDeletes
  <2>4. own[i].del.txn = {} /\ own[i].del.ent = {}
    BY <2>3 DEF Import!Empty, Import!Tables
  <2>5. Import!Without(t, own[i].del.ent) = t
    BY <2>4 DEF Import!Without
  <2> QED
    BY <2>1, <2>2, <2>4, <2>5, Seen DEF ImportInv, SeenTables
<1> QED
  BY <1>1, ImportsInvariant, PTL DEF Import!Spec, PinnedKept, Import!PinnedKept

(***************************************************************************)
(* Parsing.  The operations of a consistent export are made of its rows of *)
(* their own, of the first rows of its transfers and of its parents, one   *)
(* of each; so a balance by operations is one of rows, counted under other *)
(* names.                                                                  *)
(***************************************************************************)
\* The rows of an export have numbers, and none has that of another.
RowsOK(export) ==
  /\ IsFiniteSet(export)
  /\ \A r \in export : /\ r.id \in Nat \ {0} /\ r.partner \in Nat /\ r.amount \in Int
                      /\ r.kind \in {"plain", "parent", "child"}
  /\ \A r, q \in export : r.id = q.id => r = q

Singles(export) == {r \in Parsing!Plain(export) : r.partner = 0 /\ r.amount # 0}
Heads(export) == {r \in Parsing!Plain(export) : r.partner # 0 /\ r.id < r.partner}
Tails(export) == {r \in Parsing!Plain(export) : r.partner # 0 /\ r.partner < r.id}
Parents(export) == {r \in export : r.kind = "parent"}
Sources(export) == Singles(export) \cup Heads(export) \cup Parents(export)

Other(export) == [r \in export |-> CHOOSE q \in export : q.id = r.partner]
OpOf(export) ==
  [r \in export |-> IF r.kind = "parent" THEN Parsing!SplitOp(export, r)
                  ELSE IF r.partner = 0 THEN Parsing!SimpleOp(r)
                  ELSE Parsing!TransferOp(r, Other(export)[r])]

\* What the library sums and counts is the same in every instance.
LEMMA SameSums ==
  ASSUME NEW f, NEW T
  PROVE  /\ Parsing!SumFunctionOnSet(f, T) = SumFunctionOnSet(f, T)
         /\ Parsing!Cardinality(T) = Cardinality(T)
BY Zenon DEF Parsing!SumFunctionOnSet, SumFunctionOnSet, Parsing!FoldFunctionOnSet, FoldFunctionOnSet,
   Parsing!MapThenFoldSet, MapThenFoldSet, Parsing!Cardinality, Cardinality

\* The other row of a transfer names the first.
LEMMA Partners ==
  ASSUME NEW export, RowsOK(export), Parsing!WellFormed(export), NEW r \in export, r.partner # 0
  PROVE  LET q == Other(export)[r]
         IN /\ q \in Parsing!Plain(export) /\ r \in Parsing!Plain(export)
            /\ q.id = r.partner /\ q.partner = r.id
            /\ Parsing!Side(q.amount) # Parsing!Side(r.amount)
            /\ q.id # r.id
<1>1. PICK q \in Parsing!Plain(export) :
        /\ q.id = r.partner /\ q.partner = r.id /\ r.kind = "plain"
        /\ Parsing!Side(q.amount) # Parsing!Side(r.amount)
  BY DEF Parsing!WellFormed
<1>2. q \in export /\ r \in Parsing!Plain(export)
  BY <1>1 DEF Parsing!Plain
<1>3. Other(export)[r] = q
  BY <1>1, <1>2 DEF Other, RowsOK
<1>4. q.id # r.id
  BY <1>1, <1>2 DEF RowsOK
<1> QED
  BY <1>1, <1>2, <1>3, <1>4

\* Each operation is that of one row.
LEMMA OpsOfRows ==
  ASSUME NEW export, RowsOK(export), Parsing!WellFormed(export)
  PROVE  Parsing!Operations(export) = {OpOf(export)[r] : r \in Sources(export)}
<1>1. Parsing!SimpleOps(export) = {OpOf(export)[r] : r \in Singles(export)}
  BY DEF Parsing!SimpleOps, OpOf, Singles, Parsing!Plain
<1>2. Parsing!SplitOps(export) = {OpOf(export)[r] : r \in Parents(export)}
  <2>1. \A p \in export : p.kind = "parent" => Parsing!ChildrenOf(export, p) # {}
    BY DEF Parsing!WellFormed
  <2>2. \A p \in Parents(export) : OpOf(export)[p] = Parsing!SplitOp(export, p)
    BY DEF OpOf, Parents
  <2>3. {r \in export : r.kind = "parent" /\ Parsing!ChildrenOf(export, r) # {}} = Parents(export)
    BY <2>1 DEF Parents
  <2> QED
    BY <2>2, <2>3 DEF Parsing!SplitOps
<1>3. Parsing!TransferOps(export) = {OpOf(export)[r] : r \in Heads(export)}
  <2> DEFINE Pairs == {q \in Parsing!Plain(export) \X Parsing!Plain(export) :
                         q[1].partner = q[2].id /\ q[1].id < q[2].id}
  <2>1. ASSUME NEW p \in Pairs
        PROVE  p[1] \in Heads(export) /\ OpOf(export)[p[1]] = Parsing!TransferOp(p[1], p[2])
    <3>1. /\ p[1] \in export /\ p[2] \in export /\ p[1].kind = "plain"
          /\ p[1].partner = p[2].id /\ p[1].id < p[2].id
      BY DEF Parsing!Plain
    <3>2. p[1].partner # 0
      BY <3>1 DEF RowsOK
    <3>3. Other(export)[p[1]] = p[2]
      BY <3>1 DEF Other, RowsOK
    <3> QED
      BY <3>1, <3>2, <3>3 DEF Heads, OpOf, Parsing!Plain
  <2>2. ASSUME NEW r \in Heads(export)
        PROVE  /\ <<r, Other(export)[r]>> \in Pairs
               /\ OpOf(export)[r] = Parsing!TransferOp(r, Other(export)[r])
    <3>1. r \in export /\ r.partner # 0 /\ r.kind = "plain" /\ r.id < r.partner
      BY DEF Heads, Parsing!Plain
    <3> QED
      BY <3>1, Partners DEF OpOf, Parsing!Plain
  <2> HIDE DEF Pairs
  <2>3. Parsing!TransferOps(export) = {Parsing!TransferOp(p[1], p[2]) : p \in Pairs}
    BY DEF Parsing!TransferOps, Pairs
  <2>4. ASSUME NEW op \in {Parsing!TransferOp(p[1], p[2]) : p \in Pairs}
        PROVE  op \in {OpOf(export)[r] : r \in Heads(export)}
    <3>1. PICK p \in Pairs : op = Parsing!TransferOp(p[1], p[2])
      OBVIOUS
    <3> QED
      BY <2>1, <3>1
  <2>5. ASSUME NEW r \in Heads(export)
        PROVE  OpOf(export)[r] \in {Parsing!TransferOp(p[1], p[2]) : p \in Pairs}
    <3> DEFINE pair == <<r, Other(export)[r]>>
    <3>1. pair \in Pairs /\ OpOf(export)[r] = Parsing!TransferOp(pair[1], pair[2])
      BY <2>2
    <3> HIDE DEF pair
    <3> QED
      BY <3>1
  <2> QED
    BY <2>3, <2>4, <2>5
<1> QED
  BY <1>1, <1>2, <1>3 DEF Parsing!Operations, Sources

\* ... and has its identifier.
LEMMA OpIdOfRow ==
  ASSUME NEW export, NEW r \in export
  PROVE  OpOf(export)[r].id = r.id
BY DEF OpOf, Parsing!SplitOp, Parsing!SimpleOp, Parsing!TransferOp

\* A size with its side is the amount.
LEMMA SignedSize ==
  ASSUME NEW n \in Int, NEW row, NEW acct, NEW cat
  PROVE  Parsing!SourceSigned(Parsing!Leg(row, acct, cat, Parsing!Size(n), Parsing!Side(n))) = n
BY DEF Parsing!SourceSigned, Parsing!Leg, Parsing!Size, Parsing!Side

\* What a row adds to an account, and what the other row of its transfer does.
Adds(export, a) == [r \in export |-> IF r.acct = a THEN r.amount ELSE 0]
OtherAdds(export, a) ==
  [r \in export |-> IF r \in Heads(export) THEN Adds(export, a)[Other(export)[r]] ELSE 0]

LegSigned(op) == [l \in op.legs |-> Parsing!SourceSigned(l)]
LegsOn(op, a) == {l \in op.legs : l.cat = None /\ l.acct = a}

LEMMA OpAddsSum ==
  ASSUME NEW op, NEW a
  PROVE  Parsing!OpAdds(op, a) = SumFunctionOnSet(LegSigned(op), LegsOn(op, a))
BY SameSums DEF Parsing!OpAdds, LegSigned, LegsOn

LEMMA OneLegAdds ==
  ASSUME NEW op, NEW l \in op.legs, l.cat = None, Parsing!SourceSigned(l) \in Int,
         \A k \in op.legs : k.cat = None => k = l, NEW a
  PROVE  Parsing!OpAdds(op, a) = IF l.acct = a THEN Parsing!SourceSigned(l) ELSE 0
<1>1. CASE l.acct = a
  <2>1. LegsOn(op, a) = {l}
    BY <1>1 DEF LegsOn
  <2>2. LegSigned(op)[l] = Parsing!SourceSigned(l)
    BY DEF LegSigned
  <2> QED
    BY <1>1, <2>1, <2>2, OpAddsSum, SumOfFew
<1>2. CASE l.acct # a
  <2>1. LegsOn(op, a) = {}
    BY <1>2 DEF LegsOn
  <2> QED
    BY <1>2, <2>1, OpAddsSum, SumEmpty
<1> QED
  BY <1>1, <1>2

LEMMA SimpleAdds ==
  ASSUME NEW r, r.amount \in Int, r.cat # None, NEW a
  PROVE  Parsing!OpAdds(Parsing!SimpleOp(r), a) = IF r.acct = a THEN r.amount ELSE 0
<1> DEFINE op == Parsing!SimpleOp(r)
           l == Parsing!Leg(r.id, r.acct, None, Parsing!Size(r.amount), Parsing!Side(r.amount))
<1>1. l \in op.legs /\ l.cat = None /\ l.acct = r.acct /\ \A k \in op.legs : k.cat = None => k = l
  BY DEF Parsing!SimpleOp, Parsing!Leg
<1>2. Parsing!SourceSigned(l) = r.amount
  BY SignedSize
<1> HIDE DEF op, l
<1> QED
  BY <1>1, <1>2, OneLegAdds DEF op

LEMMA SplitAdds ==
  ASSUME NEW export, NEW r, r.amount \in Int, NEW a,
         \A c \in Parsing!ChildrenOf(export, r) : c.cat # None
  PROVE  Parsing!OpAdds(Parsing!SplitOp(export, r), a) = IF r.acct = a THEN r.amount ELSE 0
<1> DEFINE op == Parsing!SplitOp(export, r)
           l == Parsing!Leg(r.id, r.acct, None, Parsing!Size(r.amount), Parsing!Side(r.amount))
<1>1. l \in op.legs /\ l.cat = None /\ l.acct = r.acct /\ \A k \in op.legs : k.cat = None => k = l
  BY DEF Parsing!SplitOp, Parsing!Leg
<1>2. Parsing!SourceSigned(l) = r.amount
  BY SignedSize
<1> HIDE DEF op, l
<1> QED
  BY <1>1, <1>2, OneLegAdds DEF op

LEMMA TransferAdds ==
  ASSUME NEW p, NEW q, p.amount \in Int, q.amount \in Int,
         Parsing!Side(p.amount) # Parsing!Side(q.amount), NEW a
  PROVE  Parsing!OpAdds(Parsing!TransferOp(p, q), a)
           = (IF p.acct = a THEN p.amount ELSE 0) + (IF q.acct = a THEN q.amount ELSE 0)
<1> DEFINE op == Parsing!TransferOp(p, q)
           l == Parsing!Leg(p.id, p.acct, None, Parsing!Size(p.amount), Parsing!Side(p.amount))
           k == Parsing!Leg(q.id, q.acct, None, Parsing!Size(q.amount), Parsing!Side(q.amount))
<1>1. op.legs = {l, k}
  BY DEF Parsing!TransferOp, Parsing!Side
<1>2. l # k /\ l.cat = None /\ k.cat = None /\ l.acct = p.acct /\ k.acct = q.acct
  BY DEF Parsing!Leg
<1>3. Parsing!SourceSigned(l) = p.amount /\ Parsing!SourceSigned(k) = q.amount
  BY SignedSize
<1> HIDE DEF op, l, k
<1> DEFINE f == LegSigned(op)
<1>4. f[l] = p.amount /\ f[k] = q.amount
  BY <1>1, <1>3 DEF LegSigned
<1> HIDE DEF f
<1>5. SumFunctionOnSet(f, {l}) = p.amount /\ SumFunctionOnSet(f, {k}) = q.amount
  BY <1>4, SumOfFew
<1>6. SumFunctionOnSet(f, {l, k}) = p.amount + q.amount
  <2>1. f[l] \in Int /\ f[k] \in Int /\ l # k
    BY <1>2, <1>4
  <2>2. SumFunctionOnSet(f, {l, k}) = f[l] + f[k]
    BY <2>1, SumOfFew
  <2> QED
    BY <1>4, <2>2
<1>7. LegsOn(op, a) = (IF p.acct = a THEN {l} ELSE {}) \cup (IF q.acct = a THEN {k} ELSE {})
  BY <1>1, <1>2 DEF LegsOn
<1>8. Parsing!OpAdds(op, a) = SumFunctionOnSet(f, LegsOn(op, a))
  BY OpAddsSum DEF f
<1>9. SumFunctionOnSet(f, {}) = 0
  BY SumEmpty
<1>10. CASE p.acct = a /\ q.acct = a
  <2>1. LegsOn(op, a) = {l, k}
    BY <1>7, <1>10
  <2> QED
    BY <1>6, <1>8, <1>10, <2>1 DEF op
<1>11. CASE p.acct = a /\ q.acct # a
  <2>1. LegsOn(op, a) = {l}
    BY <1>7, <1>11
  <2> QED
    BY <1>5, <1>8, <1>11, <2>1 DEF op
<1>12. CASE p.acct # a /\ q.acct = a
  <2>1. LegsOn(op, a) = {k}
    BY <1>7, <1>12
  <2> QED
    BY <1>5, <1>8, <1>12, <2>1 DEF op
<1>13. CASE p.acct # a /\ q.acct # a
  <2>1. LegsOn(op, a) = {}
    BY <1>7, <1>13
  <2> QED
    BY <1>8, <1>9, <1>13, <2>1 DEF op
<1> QED
  BY <1>10, <1>11, <1>12, <1>13

LEMMA OpAddsOfRow ==
  ASSUME NEW export, RowsOK(export), Parsing!WellFormed(export), NEW r \in Sources(export), NEW a
  PROVE  /\ r \in export
         /\ Parsing!OpAdds(OpOf(export)[r], a) = Adds(export, a)[r] + OtherAdds(export, a)[r]
<1>1. r \in export /\ r.amount \in Int
  BY DEF Sources, Singles, Heads, Parents, Parsing!Plain, RowsOK
<1>2. Adds(export, a)[r] = (IF r.acct = a THEN r.amount ELSE 0) /\ Adds(export, a)[r] \in Int
  BY <1>1 DEF Adds
<1>3. CASE r \in Singles(export)
  <2>1. r.kind = "plain" /\ r.partner = 0 /\ r.cat # None
    BY <1>3 DEF Singles, Parsing!Plain, Parsing!WellFormed
  <2>2. OpOf(export)[r] = Parsing!SimpleOp(r) /\ OtherAdds(export, a)[r] = 0
    BY <1>1, <2>1 DEF OpOf, OtherAdds, Heads
  <2>3. Parsing!OpAdds(OpOf(export)[r], a) = IF r.acct = a THEN r.amount ELSE 0
    BY <1>1, <2>1, <2>2, SimpleAdds
  <2> QED
    BY <1>1, <1>2, <2>2, <2>3
<1>4. CASE r \in Parents(export)
  <2>1. r.kind = "parent" /\ \A c \in Parsing!ChildrenOf(export, r) : c.cat # None
    BY <1>4 DEF Parents, Parsing!WellFormed
  <2>2. OpOf(export)[r] = Parsing!SplitOp(export, r) /\ OtherAdds(export, a)[r] = 0
    BY <1>1, <2>1 DEF OpOf, OtherAdds, Heads, Parsing!Plain
  <2>3. Parsing!OpAdds(OpOf(export)[r], a) = IF r.acct = a THEN r.amount ELSE 0
    BY <1>1, <2>1, <2>2, SplitAdds
  <2> QED
    BY <1>1, <1>2, <2>2, <2>3
<1>5. CASE r \in Heads(export)
  <2> DEFINE q == Other(export)[r]
  <2>1. r.kind = "plain" /\ r.partner # 0
    BY <1>5 DEF Heads, Parsing!Plain
  <2>2. /\ q \in export /\ q.amount \in Int
        /\ Parsing!Side(q.amount) # Parsing!Side(r.amount)
    BY <1>1, <2>1, Partners DEF Parsing!Plain, RowsOK
  <2>3. /\ OpOf(export)[r] = Parsing!TransferOp(r, q)
        /\ OtherAdds(export, a)[r] = IF q.acct = a THEN q.amount ELSE 0
    BY <1>1, <1>5, <2>1, <2>2 DEF OpOf, OtherAdds, Adds
  <2> HIDE DEF q
  <2>4. Parsing!OpAdds(Parsing!TransferOp(r, q), a)
          = (IF r.acct = a THEN r.amount ELSE 0) + (IF q.acct = a THEN q.amount ELSE 0)
    BY <1>1, <2>2, TransferAdds
  <2> QED
    BY <1>1, <1>2, <2>3, <2>4
<1> QED
  BY <1>1, <1>3, <1>4, <1>5 DEF Sources

LEMMA FiniteParts ==
  ASSUME NEW export, RowsOK(export)
  PROVE  /\ Sources(export) \subseteq export /\ Tails(export) \subseteq export
         /\ Heads(export) \subseteq Sources(export)
         /\ IsFiniteSet(Sources(export)) /\ IsFiniteSet(Tails(export)) /\ IsFiniteSet(Heads(export))
<1>1. /\ Sources(export) \subseteq export /\ Tails(export) \subseteq export
      /\ Heads(export) \subseteq Sources(export)
  BY DEF Sources, Singles, Heads, Tails, Parents, Parsing!Plain
<1> QED
  BY <1>1, FS_Subset DEF RowsOK

\* The second rows of transfers are the others of the first.
LEMMA OthersAreTails ==
  ASSUME NEW export, RowsOK(export), Parsing!WellFormed(export)
  PROVE  /\ Tails(export) = {Other(export)[r] : r \in Heads(export)}
         /\ \A r, q \in Heads(export) : Other(export)[r] = Other(export)[q] => r = q
<1>1. ASSUME NEW r \in Heads(export)
      PROVE  /\ Other(export)[r] \in Tails(export)
             /\ Other(export)[r].partner = r.id /\ r \in export
  <2>1. r \in export /\ r.partner # 0 /\ r.id < r.partner
    BY DEF Heads, Parsing!Plain
  <2>2. r.id \in Nat \ {0}
    BY <2>1 DEF RowsOK
  <2> QED
    BY <2>1, <2>2, Partners DEF Tails
<1>2. ASSUME NEW q \in Tails(export)
      PROVE  Other(export)[q] \in Heads(export) /\ Other(export)[Other(export)[q]] = q
  <2> DEFINE r == Other(export)[q]
  <2>1. q \in export /\ q.partner # 0 /\ q.partner < q.id
    BY DEF Tails, Parsing!Plain
  <2>2. /\ r \in Parsing!Plain(export) /\ r \in export /\ r.id = q.partner /\ r.partner = q.id
        /\ q.id \in Nat \ {0}
    BY <2>1, Partners DEF RowsOK, Parsing!Plain
  <2>3. Other(export)[r] = q
    BY <2>1, <2>2 DEF Other, RowsOK
  <2> QED
    BY <2>1, <2>2, <2>3 DEF Heads
<1>3. ASSUME NEW r \in Heads(export), NEW q \in Heads(export), Other(export)[r] = Other(export)[q]
      PROVE  r = q
  BY <1>1, <1>3 DEF RowsOK
<1> QED
  BY <1>1, <1>2, <1>3

\* A balance by operations is what their first rows add, and the others of these.
LEMMA BalanceByOps ==
  ASSUME NEW export, RowsOK(export), Parsing!WellFormed(export), NEW a
  PROVE  Parsing!OpBalance(export, a)
           = SumFunctionOnSet(Adds(export, a), Sources(export))
             + SumFunctionOnSet(Adds(export, a), Tails(export))
<1> DEFINE Src == Sources(export)
           h == OpOf(export)
           f == Adds(export, a)
           g == OtherAdds(export, a)
           both == [r \in Src |-> f[r] + g[r]]
           ops == Parsing!Operations(export)
           adds == [op \in ops |-> Parsing!OpAdds(op, a)]
<1>1. ops = {h[r] : r \in Src}
  BY OpsOfRows
<1>2. \A r \in export : f[r] \in Int
  BY DEF Adds, RowsOK
<1>3. \A r \in Src : f[r] \in Int /\ g[r] \in Int
  <2>1. \A r \in Heads(export) : Other(export)[r] \in export
    BY OthersAreTails, FiniteParts
  <2> QED
    BY <1>2, <2>1, FiniteParts DEF OtherAdds
<1>4. \A r \in Src : both[r] \in Int /\ adds[h[r]] = both[r]
  BY <1>1, <1>3, OpAddsOfRow
<1>5. \A r, q \in Src : h[r] = h[q] => r = q
  BY OpIdOfRow, FiniteParts DEF RowsOK
<1>6. SumFunctionOnSet(adds, {h[r] : r \in Src}) = SumFunctionOnSet(both, Src)
  <2>1. IsFiniteSet(Src)
    BY FiniteParts
  <2> HIDE DEF Src, h, f, g, both, ops, adds
  <2> QED
    BY <1>4, <1>5, <2>1, SumRenamed
<1>7. SumFunctionOnSet(both, Src) = SumFunctionOnSet(f, Src) + SumFunctionOnSet(g, Src)
  <2>1. IsFiniteSet(Src)
    BY FiniteParts
  <2>2. \A r \in Src : both[r] = f[r] + g[r]
    OBVIOUS
  <2> HIDE DEF Src, h, f, g, both, ops, adds
  <2> QED
    BY <1>3, <2>1, <2>2, SumOfBoth
<1>8. SumFunctionOnSet(g, Src) = SumFunctionOnSet(g, Heads(export))
  <2>1. /\ IsFiniteSet(Src) /\ Heads(export) \in SUBSET Src
        /\ \A r \in Src \ Heads(export) : g[r] = 0
    BY FiniteParts DEF OtherAdds
  <2> HIDE DEF Src, h, f, g, both, ops, adds
  <2> QED
    BY <1>3, <2>1, SumWithoutZeros
<1>9. SumFunctionOnSet(g, Heads(export)) = SumFunctionOnSet(f, Tails(export))
  <2>1. \A r \in Heads(export) : g[r] \in Int /\ f[Other(export)[r]] = g[r]
    BY <1>3, FiniteParts DEF OtherAdds
  <2>2. IsFiniteSet(Heads(export))
    BY FiniteParts
  <2> DEFINE o == Other(export)
             Hd == Heads(export)
  <2>3. Tails(export) = {o[r] : r \in Hd} /\ \A r, q \in Hd : o[r] = o[q] => r = q
    BY OthersAreTails
  <2> HIDE DEF Src, h, f, g, both, ops, adds, o, Hd
  <2>4. SumFunctionOnSet(f, {o[r] : r \in Hd}) = SumFunctionOnSet(g, Hd)
    BY <2>1, <2>2, <2>3, SumRenamed DEF o, Hd
  <2> QED
    BY <2>3, <2>4 DEF Hd
<1>10. Parsing!OpBalance(export, a) = SumFunctionOnSet(adds, ops)
  BY SameSums DEF Parsing!OpBalance
<1> QED
  BY <1>1, <1>6, <1>7, <1>8, <1>9, <1>10

\* A balance by rows is what the same rows add.
LEMMA BalanceByRows ==
  ASSUME NEW export, RowsOK(export), Parsing!WellFormed(export), NEW a
  PROVE  Parsing!RowBalance(export, a)
           = SumFunctionOnSet(Adds(export, a), Sources(export))
             + SumFunctionOnSet(Adds(export, a), Tails(export))
<1> DEFINE f == Adds(export, a)
           amounts == [r \in export |-> r.amount]
           mine == {r \in export : r.acct = a /\ r.kind # "child"}
           Src == Sources(export)
           Tl == Tails(export)
           Used == Src \cup Tl
           Joined == Used \cup mine
<1>1. Parsing!RowBalance(export, a) = SumFunctionOnSet(amounts, mine)
  BY SameSums DEF Parsing!RowBalance
<1>2. \A r \in export : f[r] = (IF r.acct = a THEN r.amount ELSE 0) /\ f[r] \in Int
  BY DEF Adds, RowsOK
<1>3. Used \subseteq export /\ mine \subseteq export /\ Joined \subseteq export /\ IsFiniteSet(export)
  BY FiniteParts DEF RowsOK
<1>4. SumFunctionOnSet(amounts, mine) = SumFunctionOnSet(f, mine)
  <2>1. \A r \in mine : amounts[r] = f[r]
    BY <1>2
  <2>2. IsFiniteSet(mine)
    BY <1>3, FS_Subset
  <2> HIDE DEF mine, amounts, f
  <2> QED
    BY <2>1, <2>2, SumEqual
<1>5. SumFunctionOnSet(f, Joined) = SumFunctionOnSet(f, mine)
  <2>1. \A r \in Used : r.kind # "child"
    BY DEF Sources, Singles, Heads, Tails, Parents, Parsing!Plain
  <2>2. \A r \in Joined \ mine : f[r] = 0
    BY <1>2, <1>3, <2>1
  <2>3. mine \in SUBSET Joined /\ IsFiniteSet(Joined) /\ \A r \in Joined : f[r] \in Int
    BY <1>2, <1>3, FS_Subset
  <2> HIDE DEF mine, f, Joined
  <2> QED
    BY <2>2, <2>3, SumWithoutZeros
<1>6. SumFunctionOnSet(f, Joined) = SumFunctionOnSet(f, Used)
  <2>1. ASSUME NEW r \in Joined \ Used PROVE f[r] = 0
    <3>1. r \in export /\ r.kind # "child" /\ r.kind \in {"plain", "parent", "child"}
      BY <1>3 DEF RowsOK
    <3>2. r.partner # 0 => r.id # r.partner
      BY <3>1, Partners
    <3>3. r.kind = "plain" /\ r.partner = 0 /\ r.amount = 0
      <4>1. r.id \in Nat /\ r.partner \in Nat
        BY <3>1 DEF RowsOK
      <4> QED
        BY <3>1, <3>2, <4>1 DEF Sources, Singles, Heads, Tails, Parents, Parsing!Plain
    <3> QED
      BY <1>2, <3>1, <3>3
  <2>2. Used \in SUBSET Joined /\ IsFiniteSet(Joined) /\ \A r \in Joined : f[r] \in Int
    BY <1>2, <1>3, FS_Subset
  <2> HIDE DEF mine, f, Joined, Used
  <2> QED
    BY <2>1, <2>2, SumWithoutZeros
<1>7. SumFunctionOnSet(f, Used) = SumFunctionOnSet(f, Src) + SumFunctionOnSet(f, Tl)
  <2>1. Src \in SUBSET Used /\ Used \ Src = Tl
    <3>1. \A r \in Tl : r.id \in Nat /\ r.partner \in Nat
      BY <1>3 DEF RowsOK
    <3>2. Src \cap Tl = {}
      BY <3>1 DEF Sources, Singles, Heads, Tails, Parents, Parsing!Plain
    <3> QED
      BY <3>2
  <2>2. IsFiniteSet(Used) /\ \A r \in Used : f[r] \in Int
    BY <1>2, <1>3, FS_Subset
  <2> HIDE DEF Src, Tl, Used, f
  <2> QED
    BY <2>1, <2>2, SumDisjoint
<1> QED
  BY <1>1, <1>4, <1>5, <1>6, <1>7

\* Every row that has an amount is in an operation.
LEMMA RowsCovered ==
  ASSUME NEW export, RowsOK(export), Parsing!WellFormed(export), NEW r \in export, r.amount # 0
  PROVE  \E op \in Parsing!Operations(export) : \E l \in op.legs : l.row = r.id
<1>1. \A q \in Sources(export) : OpOf(export)[q] \in Parsing!Operations(export) /\ q \in export
  BY OpsOfRows, FiniteParts
<1>2. ASSUME NEW q \in Heads(export)
      PROVE  /\ \E l \in OpOf(export)[q].legs : l.row = q.id
             /\ \E l \in OpOf(export)[q].legs : l.row = Other(export)[q].id
  <2> DEFINE o == Other(export)[q]
  <2>1. OpOf(export)[q] = Parsing!TransferOp(q, o)
    BY FiniteParts DEF OpOf, Heads, Parsing!Plain
  <2>2. \A acct, cat, n, dir, row : Parsing!Leg(row, acct, cat, n, dir).row = row
    BY DEF Parsing!Leg
  <2> HIDE DEF o
  <2>3. /\ \E l \in Parsing!TransferOp(q, o).legs : l.row = q.id
        /\ \E l \in Parsing!TransferOp(q, o).legs : l.row = o.id
    BY <2>2 DEF Parsing!TransferOp
  <2> QED
    BY <2>1, <2>3 DEF o
<1>3. CASE r.kind = "parent"
  <2>1. OpOf(export)[r] = Parsing!SplitOp(export, r) /\ r \in Sources(export)
    BY <1>3 DEF OpOf, Sources, Parents
  <2> DEFINE leg == Parsing!Leg(r.id, r.acct, None, Parsing!Size(r.amount), Parsing!Side(r.amount))
  <2>2. leg \in Parsing!SplitOp(export, r).legs /\ leg.row = r.id
    BY DEF Parsing!SplitOp, Parsing!Leg
  <2> QED
    BY <1>1, <2>1, <2>2
<1>4. CASE r.kind = "child"
  <2>1. PICK p \in export : p.kind = "parent" /\ p.id = r.parent
    BY <1>4 DEF Parsing!WellFormed
  <2>2. OpOf(export)[p] = Parsing!SplitOp(export, p) /\ p \in Sources(export)
    BY <2>1 DEF OpOf, Sources, Parents
  <2>3. r \in Parsing!ChildrenOf(export, p)
    BY <1>4, <2>1 DEF Parsing!ChildrenOf
  <2> DEFINE leg == Parsing!Leg(r.id, r.acct, r.cat, Parsing!Size(r.amount),
                                Parsing!Opposite(Parsing!Side(p.amount)))
  <2>4. leg \in Parsing!SplitOp(export, p).legs /\ leg.row = r.id
    BY <2>3 DEF Parsing!SplitOp, Parsing!Leg
  <2> QED
    BY <1>1, <2>2, <2>4
<1>5. CASE r.kind = "plain" /\ r.partner = 0
  <2>1. OpOf(export)[r] = Parsing!SimpleOp(r) /\ r \in Sources(export)
    BY <1>5 DEF OpOf, Sources, Singles, Parsing!Plain
  <2>2. \E l \in Parsing!SimpleOp(r).legs : l.row = r.id
    BY DEF Parsing!SimpleOp, Parsing!Leg
  <2> QED
    BY <1>1, <2>1, <2>2
<1>6. CASE r.kind = "plain" /\ r.partner # 0
  <2>1. r \in Heads(export) \/ r \in Tails(export)
    <3>1. r.id \in Nat /\ r.partner \in Nat
      BY DEF RowsOK
    <3>2. r.id # r.partner
      BY <1>6, Partners
    <3> QED
      BY <1>6, <3>1, <3>2 DEF Heads, Tails, Parsing!Plain
  <2>2. CASE r \in Heads(export)
    BY <1>1, <1>2, <2>2, FiniteParts
  <2>3. CASE r \in Tails(export)
    <3>1. PICK q \in Heads(export) : r = Other(export)[q]
      BY <2>3, OthersAreTails
    <3> QED
      BY <1>1, <1>2, <3>1, FiniteParts
  <2> QED
    BY <2>1, <2>2, <2>3
<1> QED
  BY <1>3, <1>4, <1>5, <1>6 DEF RowsOK

\* No two operations have one identifier.
LEMMA OpIdsApart ==
  ASSUME NEW export, RowsOK(export), Parsing!WellFormed(export)
  PROVE  Parsing!Cardinality(Parsing!OpIds(export)) = Parsing!Cardinality(Parsing!Operations(export))
<1> DEFINE ops == Parsing!Operations(export)
           h == [op \in ops |-> op.id]
           g == OpOf(export)
           Src == Sources(export)
<1>1. ops = {g[r] : r \in Src}
  BY OpsOfRows
<1>2. IsFiniteSet(ops)
  <2>1. IsFiniteSet(Src)
    BY FiniteParts
  <2> HIDE DEF ops, g, Src
  <2> QED
    BY <1>1, <2>1, FiniteImage
<1>3. \A o, p \in ops : h[o] = h[p] => o = p
  BY <1>1, OpIdOfRow, FiniteParts DEF RowsOK
<1>4. Parsing!OpIds(export) = {h[op] : op \in ops}
  BY DEF Parsing!OpIds
<1> HIDE DEF ops, h
<1>5. Cardinality({h[op] : op \in ops}) = Cardinality(ops)
  BY <1>2, <1>3, FiniteImage
<1> QED
  BY <1>4, <1>5, SameSums DEF ops

\* The parser loses nothing of any consistent export, however large.
THEOREM ParserIsExact ==
  ASSUME NEW export, RowsOK(export), Parsing!WellFormed(export)
  PROVE  /\ \A a : Parsing!OpBalance(export, a) = Parsing!RowBalance(export, a)
         /\ \A r \in export : r.amount # 0 =>
              \E op \in Parsing!Operations(export) : \E l \in op.legs : l.row = r.id
         /\ Parsing!Cardinality(Parsing!OpIds(export)) = Parsing!Cardinality(Parsing!Operations(export))
BY BalanceByOps, BalanceByRows, RowsCovered, OpIdsApart

\* The rows of the samples are such rows.
LEMMA SampleRows ==
  ASSUME NEW export \in SUBSET Universe, \A r, q \in export : r.id = q.id => r = q
  PROVE  RowsOK(export)
<1>1. \A r \in Universe : /\ r.id \in 1..10 /\ r.partner \in Nat /\ r.amount \in Int
                          /\ r.kind \in {"plain", "parent", "child"}
  BY DEF Universe, Bread, BreadMoved, Give, Take, Whole, WholeLess, Part1, Part2, Zero1, Zero2,
    Refund, Stray, Row
<1>2. IsFiniteSet(export)
  <2> DEFINE M == [r \in export |-> r.id]
  <2>1. M \in Injection(export, 1..10)
    BY <1>1 DEF Injection, IsInjective
  <2>2. IsFiniteSet(1..10)
    <3>1. 1 \in Int /\ 10 \in Int
      OBVIOUS
    <3> QED
      BY <3>1, FS_Interval, Zenon
  <2> HIDE DEF M
  <2> QED
    BY <2>1, <2>2, FS_Injection
<1> QED
  BY <1>1, <1>2 DEF RowsOK

\* The part "parsing" is given exports of the sample rows, and keeps them.
SamplesParsed ==
  part = "parsing" => /\ source \in SUBSET Universe
                      /\ \A r, q \in source : r.id = q.id => r = q

\* get_transactions, get_transfers and get_splits of a consistent export give
\* every account the balance that get_account_balances does.
THEOREM ParserLosesNothing == PartSpec => []NothingLostInParsing
<1>1. PartInit => SamplesParsed
  BY DEF PartInit, SamplesParsed, Parsing!Init
<1>2. SamplesParsed /\ [PartNext]_<<part, vars, importVars>> => SamplesParsed'
  BY DEF PartNext, SamplesParsed, importVars
<1>3. SamplesParsed => NothingLostInParsing
  <2> SUFFICES ASSUME part = "parsing", SamplesParsed, Parsing!WellFormed(source)
               PROVE  /\ \A a \in Accounts : Parsing!OpBalance(source, a) = Parsing!RowBalance(source, a)
                      /\ {r.id : r \in {q \in source : q.amount # 0}} \subseteq
                           UNION {{l.row : l \in op.legs} : op \in Parsing!Operations(source)}
                      /\ Parsing!Cardinality(Parsing!OpIds(source))
                           = Parsing!Cardinality(Parsing!Operations(source))
    BY DEF NothingLostInParsing, Parsing!NothingLostInParsing
  <2>1. RowsOK(source)
    BY SampleRows DEF SamplesParsed
  <2>2. /\ \A a : Parsing!OpBalance(source, a) = Parsing!RowBalance(source, a)
        /\ \A r \in source : r.amount # 0 =>
             \E op \in Parsing!Operations(source) : \E l \in op.legs : l.row = r.id
        /\ Parsing!Cardinality(Parsing!OpIds(source)) = Parsing!Cardinality(Parsing!Operations(source))
    BY <2>1, ParserIsExact
  <2> QED
    BY <2>2
<1> QED
  BY <1>1, <1>2, <1>3, PTL DEF PartSpec
=============================================================================
