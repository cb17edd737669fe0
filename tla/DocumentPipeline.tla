-------------------------- MODULE DocumentPipeline --------------------------
(***************************************************************************)
(* The life of an uploaded document: the upload endpoint                   *)
(* (documents/router.py, documents/service.py), the arq job queue, the     *)
(* periodic dispatcher and the OCR job (worker.py), and deletion.          *)
(*                                                                         *)
(* PostgreSQL is modelled by what it has COMMITTED: the row of a document  *)
(* (status, attempts, wait, err, stale, key), the documents that have an   *)
(* extracted text (text) and the inbox suggestions made from a document    *)
(* (inbox).  What an open transaction has written is not in these          *)
(* variables; it is carried by the program counter of the process that     *)
(* runs it, so that a rollback loses it by resetting the counter.  Row     *)
(* locks (holder) and the advisory admission lock are held until commit    *)
(* or rollback.  Redis is the set of job keys it has (queue) and of jobs   *)
(* marked as being run (leased).                                           *)
(***************************************************************************)
EXTENDS Naturals, FiniteSets

CONSTANTS
  Docs,         \* document ids, numbered in the order of documents.created_at
  Users,
  Contents,     \* file contents, told apart by their SHA-256
  Workers,      \* job slots of the arq workers
  Requests,     \* upload requests that may be in flight together
  Legacy,       \* documents an earlier release left unfinished
  MaxAttempts,  \* DOCUMENT_MAX_ATTEMPTS
  BatchSize,    \* DOCUMENT_DISPATCH_BATCH_SIZE
  MaxFaults,    \* bound on crashes, timeouts, outages and damaged files
  Dispatcher,   \* the cron job, as the holder of a row lock
  None          \* no holder, no request

Keys  == Users \X Contents     \* what a stored document is unique by
NoKey == <<None, None>>

ASSUME DocsAssumption  == Docs \subseteq Nat \ {0} /\ IsFiniteSet(Docs)
ASSUME LimitAssumption == /\ MaxAttempts \in Nat \ {0}
                          /\ BatchSize \in Nat \ {0}
                          /\ MaxFaults \in Nat
ASSUME NamesAssumption == /\ Legacy \subseteq Docs
                          /\ None \notin Workers \cup Requests \cup Users \cup {Dispatcher}
                          /\ Dispatcher \notin Workers

VARIABLES
  \* committed rows of PostgreSQL
  status,     \* documents.status, or "none" before and "deleted" after the row
  attempts,   \* documents.attempt_count
  wait,       \* next_attempt_at: "null", "later" than now, or "past"
  err,        \* documents.last_error_code
  stale,      \* documents whose updated_at is before the stale cutoff
  key,        \* owner and content of the row
  text,       \* documents with a row in document_texts
  inbox,      \* number of inbox suggestions made from the document
  \* locks
  holder,     \* who has the row lock of a document
  admission,  \* the request that has the advisory lock of uploads
  \* the upload directory and Redis
  file,       \* the stored original of a content: "none", "good" or "bad"
  queue,      \* documents with a job key in Redis
  leased,     \* documents whose job is marked as in progress in Redis
  \* processes
  wpc, wdoc,  \* job slot: where it is, and on which document
  dpc, batch, \* dispatcher: where it is, and the ids it has read
  rpc, rkey, rdoc,  \* upload request: where it is, what it stores, the row
  faults

rows  == <<status, attempts, wait, err, stale, key, text, inbox>>
locks == <<holder, admission>>
store == <<file, queue, leased>>
work  == <<wpc, wdoc>>
disp  == <<dpc, batch>>
reqs  == <<rpc, rkey, rdoc>>
vars  == <<rows, locks, store, work, disp, reqs, faults>>

Codes == {"null", "upstream_unavailable", "integrity_mismatch",
          "output_limit", "processing_failed"}

Unfinished == {"pending", "processing"}
Live(d) == status[d] \notin {"none", "deleted"}
Stored(k) == {d \in Docs : Live(d) /\ key[d] = k}

TypeOK ==
  /\ status \in [Docs -> {"none", "pending", "processing", "done", "error", "deleted"}]
  /\ attempts \in [Docs -> 0..MaxAttempts]
  /\ wait \in [Docs -> {"null", "later", "past"}]
  /\ err \in [Docs -> Codes]
  /\ stale \in SUBSET Docs
  /\ key \in [Docs -> Keys \cup {NoKey}]
  /\ text \in SUBSET Docs
  /\ inbox \in [Docs -> Nat]
  /\ holder \in [Docs -> Workers \cup {Dispatcher, None}]
  /\ admission \in Requests \cup {None}
  /\ file \in [Contents -> {"none", "good", "bad"}]
  /\ queue \in SUBSET Docs
  /\ leased \in SUBSET Docs
  /\ wpc \in [Workers -> {"idle", "read", "ocr", "extract", "plain", "suggest", "finish"}]
  /\ wdoc \in [Workers -> Docs \cup {0}]
  /\ dpc \in {"idle", "selected", "sending"}
  /\ batch \in SUBSET Docs
  /\ rpc \in [Requests -> {"idle", "write", "insert", "refresh", "notify"}]
  /\ rkey \in [Requests -> Keys \cup {NoKey}]
  /\ rdoc \in [Requests -> Docs \cup {0}]
  /\ faults \in 0..MaxFaults

(***************************************************************************)
(* An earlier release committed "processing" before it called the OCR      *)
(* service, so a row may be left in that status; and a row may wait with   *)
(* as many attempts as the limit is now, when the limit has been lowered.  *)
(***************************************************************************)
Init ==
  /\ status \in {s \in [Docs -> {"none", "pending", "processing"}] :
                   \A d \in Docs : d \in Legacy <=> s[d] # "none"}
  /\ attempts \in {a \in [Docs -> {0, MaxAttempts}] :
                     \A d \in Docs : a[d] # 0 => status[d] = "pending"}
  /\ wait = [d \in Docs |-> "null"]
  /\ err = [d \in Docs |-> IF attempts[d] = 0 THEN "null" ELSE "upstream_unavailable"]
  /\ stale = {}
  /\ key \in {k \in [Docs -> Keys \cup {NoKey}] :
                /\ \A d \in Docs : k[d] = NoKey <=> d \notin Legacy
                /\ \A d, e \in Legacy : k[d] = k[e] => d = e}
  /\ text = {}
  /\ inbox = [d \in Docs |-> 0]
  /\ holder = [d \in Docs |-> None]
  /\ admission = None
  /\ file = [c \in Contents |-> IF \E d \in Legacy : key[d][2] = c THEN "good" ELSE "none"]
  /\ queue = {}
  /\ leased = {}
  /\ wpc = [w \in Workers |-> "idle"]
  /\ wdoc = [w \in Workers |-> 0]
  /\ dpc = "idle"
  /\ batch = {}
  /\ rpc = [r \in Requests |-> "idle"]
  /\ rkey = [r \in Requests |-> NoKey]
  /\ rdoc = [r \in Requests |-> 0]
  /\ faults = 0

----------------------------------------------------------------------------
(***************************************************************************)
(* Upload and delete: the API process.                                     *)
(***************************************************************************)

Idle(r) ==
  /\ rpc' = [rpc EXCEPT ![r] = "idle"]
  /\ rkey' = [rkey EXCEPT ![r] = NoKey]
  /\ rdoc' = [rdoc EXCEPT ![r] = 0]

\* pg_advisory_xact_lock("document-storage-admission"), until the commit.
AdmissionUnguarded == TRUE    \* mutant: uploads are not serialised
AdmissionFree == admission = None

\* store_document takes the two advisory locks and looks for the user's row
\* with this hash.  Validation and quota refusals change nothing.
UploadAdmit(r, k) ==
  /\ rpc[r] = "idle"
  /\ AdmissionFree
  /\ admission' = r
  /\ rpc' = [rpc EXCEPT ![r] = "write"]
  /\ rkey' = [rkey EXCEPT ![r] = k]
  /\ \/ /\ Stored(k) = {}
        /\ \E d \in Docs : status[d] = "none"   \* bound: an id is left
        /\ UNCHANGED rdoc
     \/ \E d \in Stored(k) : rdoc' = [rdoc EXCEPT ![r] = d]
  /\ UNCHANGED <<rows, holder, store, work, disp, faults>>

\* The id the next row is given.
Fresh(d) == status[d] = "none" /\ \A e \in Docs : status[e] = "none" => d <= e

\* mutant: the job is enqueued before the row is committed
UploadWriteAndEnqueue(r) ==
  /\ rpc[r] = "write"
  /\ file[rkey[r][2]] # "bad"
  /\ file' = [file EXCEPT ![rkey[r][2]] = "good"]
  /\ queue' = queue \cup {d \in Docs : Fresh(d)}
  /\ rpc' = [rpc EXCEPT ![r] = "insert"]
  /\ UNCHANGED <<rows, locks, leased, work, disp, rkey, rdoc, faults>>

\* _write_document_content publishes the complete file under its hash, or
\* keeps the one that is there when its bytes still have that hash.
UploadWrite(r) ==
  /\ rpc[r] = "write"
  /\ file[rkey[r][2]] # "bad"
  /\ file' = [file EXCEPT ![rkey[r][2]] = "good"]
  /\ rpc' = [rpc EXCEPT ![r] = "insert"]
  /\ UNCHANGED <<rows, locks, queue, leased, work, disp, rkey, rdoc, faults>>

\* A damaged original is never overwritten: the request ends with a 503.
UploadRefused(r) ==
  /\ rpc[r] = "write"
  /\ file[rkey[r][2]] = "bad"
  /\ Idle(r)
  /\ admission' = None
  /\ UNCHANGED <<rows, holder, store, work, disp, faults>>

\* The new row, or no write for a duplicate, and the commit, which also
\* gives the advisory lock back.
UploadCommit(r) ==
  /\ rpc[r] = "insert"
  /\ \/ /\ rdoc[r] # 0
        /\ UNCHANGED <<rows, rdoc>>
     \/ /\ rdoc[r] = 0
        /\ \E d \in Docs :
             /\ Fresh(d)
             /\ status' = [status EXCEPT ![d] = "pending"]
             /\ key' = [key EXCEPT ![d] = rkey[r]]
             /\ rdoc' = [rdoc EXCEPT ![r] = d]
        /\ UNCHANGED <<attempts, wait, err, stale, text, inbox>>
  /\ admission' = None
  /\ rpc' = [rpc EXCEPT ![r] = "refresh"]
  /\ UNCHANGED <<holder, store, work, disp, rkey, faults>>

\* db.refresh(doc); the request is over unless the row is pending (a row
\* that was deleted meanwhile cannot be refreshed: the request fails).
UploadRefresh(r) ==
  /\ rpc[r] = "refresh"
  /\ \/ /\ status[rdoc[r]] = "pending"
        /\ rpc' = [rpc EXCEPT ![r] = "notify"]
        /\ UNCHANGED <<rkey, rdoc>>
     \/ /\ status[rdoc[r]] # "pending"
        /\ Idle(r)
  /\ UNCHANGED <<rows, locks, store, work, disp, faults>>

\* enqueue_process_document: a job key that is still there absorbs the call.
UploadEnqueue(r) ==
  /\ rpc[r] = "notify"
  /\ queue' = queue \cup {rdoc[r]}
  /\ Idle(r)
  /\ UNCHANGED <<rows, locks, file, leased, work, disp, faults>>

\* DELETE waits for the row lock; the text goes with the row (ON DELETE
\* CASCADE).  The fields of a row that is gone are given their initial values.
RowDeleted(d) ==
  /\ Live(d)
  /\ holder[d] = None
  /\ status' = [status EXCEPT ![d] = "deleted"]
  /\ attempts' = [attempts EXCEPT ![d] = 0]
  /\ wait' = [wait EXCEPT ![d] = "null"]
  /\ err' = [err EXCEPT ![d] = "null"]
  /\ stale' = stale \ {d}
  /\ key' = [key EXCEPT ![d] = NoKey]
  /\ text' = text \ {d}
  /\ UNCHANGED <<inbox, locks, queue, leased, work, disp, reqs, faults>>

\* mutant: the original, which another user's row may name, is removed as well
DeleteDocumentAndFile(d) == RowDeleted(d) /\ file' = [file EXCEPT ![key[d][2]] = "none"]

\* The file and the inbox suggestion stay.
DeleteDocument(d) == RowDeleted(d) /\ UNCHANGED file

----------------------------------------------------------------------------
(***************************************************************************)
(* dispatch_pending_documents: the cron job.                               *)
(***************************************************************************)

\* mutant: stale rows are not recovered
DueIfPending(d) == status[d] = "pending" /\ wait[d] # "later"

Due(d) == \/ status[d] = "pending" /\ wait[d] # "later"
          \/ status[d] = "processing" /\ d \in stale

\* ORDER BY created_at LIMIT BatchSize
Oldest(S) == {d \in S : Cardinality({e \in S : e < d}) < BatchSize}

\* FOR UPDATE SKIP LOCKED
SelectableAnyway(d) == Due(d)    \* mutant: the rows of active jobs are stolen
Selectable(d) == Due(d) /\ holder[d] = None

DispatchSelect ==
  /\ dpc = "idle"
  /\ batch' = Oldest({d \in Docs : Selectable(d)})
  /\ batch' # {}
  /\ holder' = [d \in Docs |-> IF d \in batch' THEN Dispatcher ELSE holder[d]]
  /\ dpc' = "selected"
  /\ UNCHANGED <<rows, admission, store, work, reqs, faults>>

Released == [d \in Docs |-> IF holder[d] = Dispatcher THEN None ELSE holder[d]]

\* The recovery of stale rows is committed before anything is enqueued.
DispatchCommit ==
  /\ dpc = "selected"
  /\ status' = [d \in Docs |-> IF d \in batch /\ status[d] = "processing"
                               THEN "pending" ELSE status[d]]
  /\ stale' = {d \in stale : d \in batch => status[d] # "processing"}
  /\ holder' = Released
  /\ dpc' = "sending"
  /\ UNCHANGED <<attempts, wait, err, key, text, inbox, admission, store,
                 work, batch, reqs, faults>>

DispatchEnqueue(d) ==
  /\ dpc = "sending"
  /\ d \in batch
  /\ \A e \in batch : d <= e
  /\ queue' = queue \cup {d}
  /\ batch' = batch \ {d}
  /\ dpc' = IF batch = {d} THEN "idle" ELSE "sending"
  /\ UNCHANGED <<rows, locks, file, leased, work, reqs, faults>>

----------------------------------------------------------------------------
(***************************************************************************)
(* process_document: the job.                                              *)
(***************************************************************************)

\* arq starts a job that is queued and not marked as in progress.
Takes(w, d) ==
  /\ wpc[w] = "idle"
  /\ d \in queue \ leased
  /\ leased' = leased \cup {d}
  /\ wdoc' = [wdoc EXCEPT ![w] = d]

\* mutant: without the retry time
ClaimableEarly(d) == holder[d] = None /\ status[d] \in Unfinished

\* SELECT ... FOR UPDATE SKIP LOCKED and the two early returns.
Claimable(d) == /\ holder[d] = None
                /\ status[d] \in Unfinished
                /\ wait[d] # "later"

JobSkipped(w, d) ==
  /\ Takes(w, d)
  /\ ~Claimable(d)
  /\ wpc' = [wpc EXCEPT ![w] = "finish"]
  /\ UNCHANGED <<rows, locks, file, queue, disp, reqs, faults>>

HasBudget(d) == attempts[d] < MaxAttempts

JobExhausted(w, d) ==
  /\ Takes(w, d)
  /\ Claimable(d)
  /\ ~HasBudget(d)
  /\ status' = [status EXCEPT ![d] = "error"]
  /\ wait' = [wait EXCEPT ![d] = "null"]
  /\ stale' = stale \ {d}
  /\ wpc' = [wpc EXCEPT ![w] = "finish"]
  /\ UNCHANGED <<attempts, err, key, text, inbox, locks, file, queue, disp, reqs, faults>>

\* attempt_count, status and next_attempt_at are written but not committed:
\* the other processes still see the row as it was, and cannot lock it.
JobClaimed(w, d) ==
  /\ Takes(w, d)
  /\ Claimable(d)
  /\ HasBudget(d)
  /\ holder' = [holder EXCEPT ![d] = w]
  /\ wpc' = [wpc EXCEPT ![w] = "read"]
  /\ UNCHANGED <<rows, admission, file, queue, disp, reqs, faults>>

\* read_verified_document_content found the bytes the row has the hash of.
ReadOriginal(w) ==
  /\ wpc[w] = "read"
  /\ file[key[wdoc[w]][2]] = "good"
  /\ wpc' = [wpc EXCEPT ![w] = "ocr"]
  /\ UNCHANGED <<rows, locks, store, wdoc, disp, reqs, faults>>

\* The OCR calls answered; the text is written in the open transaction, and
\* the model is asked about it only when it is not blank.
OcrAnswered(w) ==
  /\ wpc[w] = "ocr"
  /\ \E next \in {"extract", "plain"} : wpc' = [wpc EXCEPT ![w] = next]
  /\ UNCHANGED <<rows, locks, store, wdoc, disp, reqs, faults>>

\* Extraction detects nothing or fails with an error that is swallowed; or it
\* detects something, and create_inbox_from_document adds a suggestion unless
\* a committed one names the document.
ExtractionAnswered(w) ==
  /\ wpc[w] = "extract"
  /\ \/ wpc' = [wpc EXCEPT ![w] = "plain"]
     \/ inbox[wdoc[w]] = 0 /\ wpc' = [wpc EXCEPT ![w] = "suggest"]
  /\ UNCHANGED <<rows, locks, store, wdoc, disp, reqs, faults>>

\* The end of the transaction of a claim, committed or not.
Unlocked(w) == [holder EXCEPT ![wdoc[w]] = None]

JobDone(w) ==
  /\ wpc[w] \in {"plain", "suggest"}
  /\ LET d == wdoc[w] IN
       /\ status' = [status EXCEPT ![d] = "done"]
       /\ attempts' = [attempts EXCEPT ![d] = @ + 1]
       /\ wait' = [wait EXCEPT ![d] = "null"]
       /\ err' = [err EXCEPT ![d] = "null"]
       /\ stale' = stale \ {d}
       /\ text' = text \cup {d}
       /\ inbox' = IF wpc[w] = "suggest" THEN [inbox EXCEPT ![d] = @ + 1] ELSE inbox
  /\ holder' = Unlocked(w)
  /\ wpc' = [wpc EXCEPT ![w] = "finish"]
  /\ UNCHANGED <<key, admission, store, wdoc, disp, reqs, faults>>

\* mutants: permanent errors are retried; one attempt too many
RetryableAlways(d, code) == attempts[d] + 1 < MaxAttempts
RetryableOnceMore(d, code) == code = "upstream_unavailable" /\ attempts[d] + 1 <= MaxAttempts

\* Only an error of the upstream service (is_retryable_ocr_error) is worth
\* another attempt, and only within the budget.
Retryable(d, code) == code = "upstream_unavailable" /\ attempts[d] + 1 < MaxAttempts

\* A caught error: the savepoint is rolled back, the row lock kept, and the
\* outcome of the attempt committed.
Failed(w, code) ==
  /\ LET d == wdoc[w]
         retry == Retryable(d, code)
     IN  /\ status' = [status EXCEPT ![d] = IF retry THEN "pending" ELSE "error"]
         /\ wait' = [wait EXCEPT ![d] = IF retry THEN "later" ELSE "null"]
         /\ attempts' = [attempts EXCEPT ![d] = @ + 1]
         /\ err' = [err EXCEPT ![d] = code]
         /\ stale' = stale \ {d}
  /\ holder' = Unlocked(w)
  /\ wpc' = [wpc EXCEPT ![w] = "finish"]
  /\ UNCHANGED <<key, text, inbox, admission, store, wdoc, disp, reqs, faults>>

ReadFailed(w) ==
  /\ wpc[w] = "read"
  /\ \/ file[key[wdoc[w]][2]] = "bad" /\ Failed(w, "integrity_mismatch")
     \/ file[key[wdoc[w]][2]] = "none" /\ Failed(w, "processing_failed")

OcrFailed(w) ==
  /\ wpc[w] = "ocr"
  /\ \E code \in Codes \ {"null", "integrity_mismatch"} : Failed(w, code)

\* An error of the extraction that is not in the swallowed list (OSError).
ExtractionFailed(w) ==
  /\ wpc[w] = "extract"
  /\ Failed(w, "processing_failed")

\* arq removes the keys of a job that returned or raised.
JobFinished(w) ==
  /\ wpc[w] = "finish"
  /\ queue' = queue \ {wdoc[w]}
  /\ leased' = leased \ {wdoc[w]}
  /\ wpc' = [wpc EXCEPT ![w] = "idle"]
  /\ wdoc' = [wdoc EXCEPT ![w] = 0]
  /\ UNCHANGED <<rows, locks, file, disp, reqs, faults>>

----------------------------------------------------------------------------
(***************************************************************************)
(* Time, and what goes wrong.                                              *)
(***************************************************************************)

RetryTimeComes(d) ==
  /\ wait[d] = "later"
  /\ wait' = [wait EXCEPT ![d] = "past"]
  /\ UNCHANGED <<status, attempts, err, stale, key, text, inbox, locks, store,
                 work, disp, reqs, faults>>

BecomesStale(d) ==
  /\ status[d] = "processing"
  /\ d \notin stale
  /\ stale' = stale \cup {d}
  /\ UNCHANGED <<status, attempts, wait, err, key, text, inbox, locks, store,
                 work, disp, reqs, faults>>

Fault == faults < MaxFaults /\ faults' = faults + 1

Claiming == {"read", "ocr", "extract", "plain", "suggest"}

\* The job's timeout cancels it, or its database connection breaks: nothing
\* catches that in the job, the transaction rolls back, arq drops the job.
JobAborted(w) ==
  /\ Fault
  /\ wpc[w] \in Claiming
  /\ holder' = Unlocked(w)
  /\ wpc' = [wpc EXCEPT ![w] = "finish"]
  /\ UNCHANGED <<rows, admission, store, wdoc, disp, reqs>>

\* The worker process dies: PostgreSQL rolls back, the job key stays and is
\* given out again when the in-progress mark expires.
WorkerCrashed(w) ==
  /\ Fault
  /\ wpc[w] # "idle"
  /\ holder' = IF wpc[w] \in Claiming THEN Unlocked(w) ELSE holder
  /\ leased' = leased \ {wdoc[w]}
  /\ wpc' = [wpc EXCEPT ![w] = "idle"]
  /\ wdoc' = [wdoc EXCEPT ![w] = 0]
  /\ UNCHANGED <<rows, admission, file, queue, disp, reqs>>

\* Redis loses a job (restart, expiry, too many tries), running or not.
JobLost(d) ==
  /\ Fault
  /\ d \in queue
  /\ queue' = queue \ {d}
  /\ leased' = leased \ {d}
  /\ UNCHANGED <<rows, locks, file, work, disp, reqs>>

\* Redis is down when the upload enqueues: the error is logged and ignored.
UploadEnqueueFailed(r) ==
  /\ Fault
  /\ rpc[r] = "notify"
  /\ Idle(r)
  /\ UNCHANGED <<rows, locks, store, work, disp>>

\* Redis is down, or the process dies, during a pass of the dispatcher.
DispatchFailed ==
  /\ Fault
  /\ dpc # "idle"
  /\ dpc' = "idle"
  /\ batch' = {}
  /\ holder' = Released
  /\ UNCHANGED <<rows, admission, store, work, reqs>>

\* The API process dies: the open transaction is rolled back.
ApiCrashed(r) ==
  /\ Fault
  /\ rpc[r] # "idle"
  /\ Idle(r)
  /\ admission' = IF admission = r THEN None ELSE admission
  /\ UNCHANGED <<rows, holder, store, work, disp>>

\* The bytes of a stored original change on disk.
FileDamaged(c) ==
  /\ Fault
  /\ file[c] = "good"
  /\ file' = [file EXCEPT ![c] = "bad"]
  /\ UNCHANGED <<rows, locks, queue, leased, work, disp, reqs>>

----------------------------------------------------------------------------
UploadStep(r) ==
  \/ \E k \in Keys : UploadAdmit(r, k)
  \/ UploadWrite(r) \/ UploadRefused(r) \/ UploadCommit(r)
  \/ UploadRefresh(r) \/ UploadEnqueue(r)

DispatchStep == DispatchSelect \/ DispatchCommit \/ \E d \in Docs : DispatchEnqueue(d)

JobStarted(w, d) == JobClaimed(w, d) \/ JobExhausted(w, d)

JobStep(w) ==
  \/ ReadOriginal(w) \/ OcrAnswered(w) \/ ExtractionAnswered(w) \/ JobDone(w)
  \/ ReadFailed(w) \/ OcrFailed(w) \/ ExtractionFailed(w) \/ JobFinished(w)

TimeStep(d) == RetryTimeComes(d) \/ BecomesStale(d)

FaultStep ==
  \/ \E w \in Workers : JobAborted(w) \/ WorkerCrashed(w)
  \/ \E d \in Docs : JobLost(d)
  \/ \E r \in Requests : UploadEnqueueFailed(r) \/ ApiCrashed(r)
  \/ DispatchFailed
  \/ \E c \in Contents : FileDamaged(c)

Next ==
  \/ \E r \in Requests : UploadStep(r)
  \/ \E d \in Docs : DeleteDocument(d) \/ TimeStep(d)
  \/ DispatchStep
  \/ \E w \in Workers, d \in Docs : JobSkipped(w, d) \/ JobStarted(w, d)
  \/ \E w \in Workers : JobStep(w)
  \/ FaultStep

Spec == Init /\ [][Next]_vars

(***************************************************************************)
(* The scheduling the code justifies: every step of the dispatcher and of  *)
(* a started job ends (HTTP calls and jobs have timeouts, locks are held   *)
(* for a bounded time), an upload request that was admitted runs on, and   *)
(* time passes.  A job that can be claimed again and again is claimed at   *)
(* last: the dispatcher holds row locks for milliseconds twice a minute,   *)
(* the worker polls the queue twice a second.  Nothing obliges a user to   *)
(* upload or delete, and no fault has to happen.                           *)
(***************************************************************************)
Fairness ==
  /\ WF_vars(DispatchStep)
  /\ \A r \in Requests : WF_vars(rpc[r] # "idle" /\ UploadStep(r))
  /\ \A w \in Workers : WF_vars(JobStep(w))
  /\ \A d \in Docs : /\ WF_vars(TimeStep(d))
                     /\ SF_vars(\E w \in Workers : JobStarted(w, d))

----------------------------------------------------------------------------
(***************************************************************************)
(* Properties.                                                             *)
(***************************************************************************)

\* A user has one document per content, however many uploads of it run
\* together: documents has no unique constraint on it, only store_document's
\* advisory lock between the look-up and the commit.
OneRowPerContent ==
  \A d, e \in Docs : Live(d) /\ Live(e) /\ key[d] = key[e] => d = e

\* Every row has its original on disk: the file is published before the row
\* is committed, and no crash, refusal or deletion (of another user's row for
\* the same content) takes it away.
OriginalStored == \A d \in Docs : Live(d) => file[key[d][2]] # "none"

\* "A durable pending row must be visible before a worker receives its ID"
\* (documents/router.py): no job is in Redis for a row that was not committed.
CommittedBeforeQueued == \A d \in queue \cup batch : status[d] # "none"

\* The text and the status of a document are committed together: a document
\* has a text exactly when it is done, whatever was rolled back on the way.
TextIffDone == \A d \in Docs : d \in text <=> status[d] = "done"

\* However often a job is delivered, an inbox suggestion is made once.
SuggestedOnce == \A d \in Docs : inbox[d] <= 1

\* A retry is scheduled only for an upstream error and within the budget, so
\* that DOCUMENT_RETRY_DELAYS_SECONDS[attempt_count - 1] exists; a row that is
\* waiting never carries a permanent error, a done row carries none, and an
\* error row is not scheduled.
RetryWithinBudget ==
  \A d \in Docs :
    /\ wait[d] # "null" => status[d] = "pending" /\ attempts[d] \in 1..MaxAttempts - 1
    /\ status[d] \in Unfinished => err[d] \in {"null", "upstream_unavailable"}
    /\ status[d] = "done" => err[d] = "null"

\* A document that is done or in error stays so until it is deleted: neither a
\* late delivery nor the recovery of stale rows reopens it.
TerminalIsFinal ==
  [][\A d \in Docs : status[d] \in {"done", "error"} => status'[d] \in {status[d], "deleted"}]_vars

\* No attempt is charged, and no status changes, before the retry time, though
\* a duplicate upload enqueues the job of a waiting row at any time (a user may
\* delete the row).
NoEarlyRetry ==
  [][\A d \in Docs : wait[d] = "later" =>
       \/ attempts'[d] = attempts[d] /\ status'[d] = status[d]
       \/ status'[d] = "deleted"]_vars

\* A row that a job works on is changed by nobody else: not by the dispatcher,
\* another delivery, a deletion or a duplicate upload.  (A crash or an abort
\* leaves the committed row as it was.)
ClaimExcludes ==
  [][\A d \in Docs : (\E w \in Workers : wdoc[w] = d /\ wpc[w] \in Claiming) =>
       \/ status'[d] = status[d] /\ attempts'[d] = attempts[d]
       \/ \E w \in Workers : wdoc[w] = d /\ wpc[w] \in Claiming /\ wpc'[w] = "finish"]_vars

\* The pipeline implements the life of a document as its readers know it.
Phase == [d \in Docs |-> IF status[d] \in Unfinished THEN "waiting" ELSE status[d]]
Lifecycle == INSTANCE DocumentLifecycle WITH phase <- Phase, tries <- attempts, suggested <- inbox
ImplementsLifecycle == Lifecycle!Spec

\* A stored document is processed at last, or deleted: whatever jobs Redis has
\* lost, the dispatcher finds the row again.  The premise excludes a schedule
\* in which a duplicate upload puts the job in the queue during every single
\* pass of the dispatcher, so that the job always finds the row locked, and its
\* key, not yet removed, absorbs what the dispatcher enqueues next.
UploadsCease == <>[](\A r \in Requests : rpc[r] = "idle")
EventuallyProcessed ==
  UploadsCease =>
    \A d \in Docs : status[d] \in Unfinished ~> status[d] \in {"done", "error", "deleted"}
=============================================================================
