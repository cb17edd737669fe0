--------------------------- MODULE UploadAdmission ---------------------------
(***************************************************************************)
(* What an upload has to pass before its document is stored: the size      *)
(* limits, a slot for the parser that looks into it, and the quotas and    *)
(* the free space, looked at under one lock for all users                  *)
(* (documents/validation.py, upload_limits.py, service.py, router.py).     *)
(* DocumentPipeline tells what becomes of the document afterwards.         *)
(***************************************************************************)
EXTENDS Integers, FiniteSets, Functions

CONSTANTS
  Requests, Users,
  Contents,       \* each is the number of units it is long
  MaxFile,        \* DOCUMENT_MAX_FILE_BYTES
  Slots,          \* DOCUMENT_VALIDATION_CONCURRENCY
  UserQuota, GlobalQuota,
  Disk, MinFree,  \* the disk, and DOCUMENT_MIN_FREE_BYTES of it
  None

VARIABLES
  slots,      \* free slots of the semaphore
  rows,       \* the documents: a set of <<user, content>>
  originals,  \* the contents on the disk; they outlive their documents
  admission,  \* who holds the advisory lock "document-storage-admission"
  up          \* what a request is doing

uvars == <<slots, rows, originals, admission, up>>

Idle == [at |-> "idle"]
At(r, place) == up[r].at = place
Goto(r, place) == up' = [up EXCEPT ![r].at = place]

Init ==
  /\ slots = Slots
  /\ rows = {} /\ originals = {}
  /\ admission = None
  /\ up = [r \in Requests |-> Idle]

-----------------------------------------------------------------------------
\* The body is read up to the limits, of which the file's is the lower one (413).
Receive(r, u, c) ==
  /\ At(r, "idle")
  /\ c <= MaxFile
  /\ up' = [up EXCEPT ![r] = [at |-> "queue", user |-> u, content |-> c]]
  /\ UNCHANGED <<slots, rows, originals, admission>>

\* validate_document_content: a slot, or none within DOCUMENT_VALIDATION_QUEUE_SECONDS.
TakeSlot(r) ==
  /\ At(r, "queue")
  /\ slots > 0 /\ slots' = slots - 1
  /\ Goto(r, "parser")
  /\ UNCHANGED <<rows, originals, admission>>

NoSlot(r) ==
  /\ At(r, "queue") /\ slots = 0
  /\ up' = [up EXCEPT ![r] = Idle]
  /\ UNCHANGED <<slots, rows, originals, admission>>

\* The parser accepts the content; or it does not, does not end in time, or cannot
\* be started.  The slot is released in any case.
Parsed(r) ==
  /\ At(r, "parser")
  /\ slots' = slots + 1
  /\ Goto(r, "valid")
  /\ UNCHANGED <<rows, originals, admission>>

InvalidKeeps(r) ==            \* mutant: the slot is released after a success only
  /\ At(r, "parser")
  /\ up' = [up EXCEPT ![r] = Idle]
  /\ UNCHANGED <<slots, rows, originals, admission>>
Invalid(r) ==
  /\ At(r, "parser")
  /\ slots' = slots + 1
  /\ up' = [up EXCEPT ![r] = Idle]
  /\ UNCHANGED <<rows, originals, admission>>

-----------------------------------------------------------------------------
(***************************************************************************)
(* store_document, from the lock to the end of its transaction.            *)
(***************************************************************************)
Always(r) == TRUE             \* mutant: no lock for all users
AdmissionFree(r) == admission = None

Lock(r) ==
  /\ At(r, "valid")
  /\ AdmissionFree(r)
  /\ admission' = r
  /\ Goto(r, "admission")
  /\ UNCHANGED <<slots, rows, originals>>

Total(R) == SumFunction([row \in R |-> row[2]])
RowsOf(u) == {row \in rows : row[1] = u}
Free == Disk - SumFunction([c \in originals |-> c])

\* enforce_storage_admission
Fits(u, c) ==
  /\ Total(RowsOf(u)) + c <= UserQuota
  /\ Total(rows) + c <= GlobalQuota
  /\ Free >= c + MinFree

Stored(r) == <<up[r].user, up[r].content>>

Store(r) ==
  /\ At(r, "admission")
  /\ Stored(r) \in rows \/ Fits(up[r].user, up[r].content)
  /\ originals' = originals \cup {up[r].content}
  /\ Goto(r, "stored")
  /\ UNCHANGED <<slots, rows, admission>>

Leave(r) ==
  /\ admission' = IF admission = r THEN None ELSE admission
  /\ up' = [up EXCEPT ![r] = Idle]

Refuse(r) ==
  /\ At(r, "admission")
  /\ Stored(r) \notin rows /\ ~Fits(up[r].user, up[r].content)
  /\ Leave(r)
  /\ UNCHANGED <<slots, rows, originals>>

Commit(r) ==
  /\ At(r, "stored")
  /\ rows' = rows \cup {Stored(r)}
  /\ Leave(r)
  /\ UNCHANGED <<slots, originals>>

\* The transaction fails, or the process dies: the original stays.
Fail(r) ==
  /\ up[r].at \in {"admission", "stored"}
  /\ Leave(r)
  /\ UNCHANGED <<slots, rows, originals>>

\* delete_document removes the row, and takes no part in the lock.
Delete(row) ==
  /\ rows' = rows \ {row}
  /\ UNCHANGED <<slots, originals, admission, up>>

-----------------------------------------------------------------------------
Next ==
  \/ \E r \in Requests :
       \/ \E u \in Users, c \in Contents : Receive(r, u, c)
       \/ TakeSlot(r) \/ NoSlot(r) \/ Parsed(r) \/ Invalid(r)
       \/ Lock(r) \/ Store(r) \/ Refuse(r) \/ Commit(r) \/ Fail(r)
  \/ \E row \in rows : Delete(row)

Spec == Init /\ [][Next]_uvars

-----------------------------------------------------------------------------
(***************************************************************************)
(* Properties.                                                             *)
(***************************************************************************)

\* A slot is lost with no upload, however it ends (validate_document_content).
SlotsReturned == slots + Cardinality({r \in Requests : At(r, "parser")}) = Slots

\* No number of uploads, of one or of several users, passes a quota together
\* (enforce_storage_admission, "Caller holds global admission advisory lock until
\* transaction completion"), and they leave DOCUMENT_MIN_FREE_BYTES of the disk,
\* although the originals of deleted documents and of failed uploads stay on it and
\* count in no quota.
WithinQuotas ==
  /\ \A u \in Users : Total(RowsOf(u)) <= UserQuota
  /\ Total(rows) <= GlobalQuota
  /\ Free >= MinFree
=============================================================================
