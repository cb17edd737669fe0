----------------------- MODULE DocumentPipelineProofs -----------------------
(***************************************************************************)
(* Proofs about DocumentPipeline, and in the end about UploadAdmission     *)
(* (Admission), for every set of documents, users, contents, workers and   *)
(* requests and every limit.                                               *)
(*                                                                         *)
(* The properties are not inductive: they hold because of what a process   *)
(* knows while it is inside its transaction.  Inv adds that knowledge:     *)
(* what a job knows of the row it has locked (Claims), the dispatcher of   *)
(* its batch (BatchLocked), an upload of its content while it has the      *)
(* admission lock (UploadsKnow), and what a row that is not there looks    *)
(* like (FreshRows, LiveRows).                                             *)
(***************************************************************************)
EXTENDS MCDocumentPipeline, DataTheorems, TLAPS

\* What a job that has claimed a row relies on until it commits.
Claims ==
  \A w \in Workers :
    /\ wpc[w] # "idle" => wdoc[w] \in Docs
    /\ wpc[w] \in Claiming =>
         /\ holder[wdoc[w]] = w
         /\ status[wdoc[w]] \in Unfinished
         /\ wait[wdoc[w]] # "later"
         /\ attempts[wdoc[w]] < MaxAttempts
    /\ wpc[w] = "suggest" => inbox[wdoc[w]] = 0

\* The dispatcher has the rows it recovers locked until it commits.
BatchLocked == dpc = "selected" => \A d \in batch : holder[d] = Dispatcher

\* An id that was never used has a blank row.
FreshRows ==
  \A d \in Docs : status[d] = "none" =>
    attempts[d] = 0 /\ wait[d] = "null" /\ err[d] = "null"

LiveRows == \A d \in Docs : Live(d) => key[d] \in Keys

\* Until its commit an upload has the admission lock, and what it found out
\* about its content when it took it is still so.
UploadsKnow ==
  \A r \in Requests :
    /\ rpc[r] # "idle" => rkey[r] \in Keys
    /\ rpc[r] \in {"write", "insert"} => admission = r
    /\ rpc[r] \in {"write", "insert"} /\ rdoc[r] = 0 => Stored(rkey[r]) = {}
    /\ rpc[r] = "insert" => file[rkey[r][2]] # "none"
    /\ rpc[r] \in {"refresh", "notify"} => rdoc[r] \in Docs
    /\ rdoc[r] \in Docs => status[rdoc[r]] # "none"

RowInv == TextIffDone /\ SuggestedOnce /\ RetryWithinBudget /\ FreshRows

UploadInv == LiveRows /\ UploadsKnow /\ OneRowPerContent /\ OriginalStored

Inv == TypeOK /\ Claims /\ BatchLocked /\ RowInv /\ UploadInv /\ CommittedBeforeQueued

----------------------------------------------------------------------------
\* The three ways in which an attempt fails end in the same handler.
LEMMA FailedCases ==
  ASSUME NEW w \in Workers, ReadFailed(w) \/ OcrFailed(w) \/ ExtractionFailed(w)
  PROVE  wpc[w] \in Claiming /\ \E code \in Codes \ {"null"} : Failed(w, code)
  BY DEF ReadFailed, OcrFailed, ExtractionFailed, Claiming, Codes

\* Every step keeps the types; the two bounds, attempts <= MaxAttempts and a
\* row for every request that refers to one, come from Claims and UploadsKnow.
LEMMA TypeOKStep ==
  ASSUME TypeOK, Claims, UploadsKnow, [Next]_vars
  PROVE  TypeOK'
  <1> USE LimitAssumption DEF TypeOK, Claiming, Codes, rows, locks, store, work, disp, reqs
  <1>1. ASSUME NEW r \in Requests, NEW k \in Keys, UploadAdmit(r, k)
        PROVE  TypeOK'
    BY <1>1 DEF UploadAdmit, AdmissionFree, Stored
  <1>2. ASSUME NEW r \in Requests, UploadWrite(r)
        PROVE  TypeOK'
    BY <1>2 DEF UploadWrite
  <1>3. ASSUME NEW r \in Requests, UploadRefused(r)
        PROVE  TypeOK'
    BY <1>3 DEF UploadRefused, Idle
  <1>4. ASSUME NEW r \in Requests, UploadCommit(r)
        PROVE  TypeOK'
    BY <1>4 DEF UploadCommit, Fresh
  <1>5. ASSUME NEW r \in Requests, UploadRefresh(r)
        PROVE  TypeOK'
    BY <1>5 DEF UploadRefresh, Idle
  <1>6. ASSUME NEW r \in Requests, UploadEnqueue(r)
        PROVE  TypeOK'
    BY <1>6 DEF UploadEnqueue, Idle, UploadsKnow
  <1>7. ASSUME NEW d \in Docs, DeleteDocument(d)
        PROVE  TypeOK'
    BY <1>7 DEF DeleteDocument, RowDeleted
  <1>8. ASSUME NEW d \in Docs, RetryTimeComes(d)
        PROVE  TypeOK'
    BY <1>8 DEF RetryTimeComes
  <1>9. ASSUME NEW d \in Docs, BecomesStale(d)
        PROVE  TypeOK'
    BY <1>9 DEF BecomesStale
  <1>10. CASE DispatchSelect
    BY <1>10 DEF DispatchSelect, Oldest, Selectable, Due
  <1>11. CASE DispatchCommit
    BY <1>11 DEF DispatchCommit, Released
  <1>12. ASSUME NEW d \in Docs, DispatchEnqueue(d)
        PROVE  TypeOK'
    BY <1>12 DEF DispatchEnqueue
  <1>13. ASSUME NEW w \in Workers, NEW d \in Docs, JobSkipped(w, d)
        PROVE  TypeOK'
    BY <1>13 DEF JobSkipped, Takes
  <1>14. ASSUME NEW w \in Workers, NEW d \in Docs, JobExhausted(w, d)
        PROVE  TypeOK'
    BY <1>14 DEF JobExhausted, Takes, Claimable
  <1>15. ASSUME NEW w \in Workers, NEW d \in Docs, JobClaimed(w, d)
        PROVE  TypeOK'
    BY <1>15 DEF JobClaimed, Takes, Claimable, HasBudget
  <1>16. ASSUME NEW w \in Workers, ReadOriginal(w)
        PROVE  TypeOK'
    BY <1>16 DEF ReadOriginal
  <1>17. ASSUME NEW w \in Workers, OcrAnswered(w)
        PROVE  TypeOK'
    BY <1>17 DEF OcrAnswered
  <1>18. ASSUME NEW w \in Workers, ExtractionAnswered(w)
        PROVE  TypeOK'
    BY <1>18 DEF ExtractionAnswered
  <1>19. ASSUME NEW w \in Workers, JobDone(w)
        PROVE  TypeOK'
    BY <1>19 DEF JobDone, Unlocked, Claims
  <1>20. ASSUME NEW w \in Workers, NEW code \in Codes \ {"null"}, wpc[w] \in Claiming, Failed(w, code)
        PROVE  TypeOK'
    BY <1>20 DEF Failed, Unlocked, Retryable, Claims
  <1>21. ASSUME NEW w \in Workers, JobFinished(w)
        PROVE  TypeOK'
    BY <1>21 DEF JobFinished
  <1>22. ASSUME NEW w \in Workers, JobAborted(w)
        PROVE  TypeOK'
    BY <1>22 DEF JobAborted, Unlocked, Fault, Claims
  <1>23. ASSUME NEW w \in Workers, WorkerCrashed(w)
        PROVE  TypeOK'
    BY <1>23 DEF WorkerCrashed, Unlocked, Fault, Claims
  <1>24. ASSUME NEW d \in Docs, JobLost(d)
        PROVE  TypeOK'
    BY <1>24 DEF JobLost, Fault
  <1>25. ASSUME NEW r \in Requests, UploadEnqueueFailed(r)
        PROVE  TypeOK'
    BY <1>25 DEF UploadEnqueueFailed, Idle, Fault
  <1>26. CASE DispatchFailed
    BY <1>26 DEF DispatchFailed, Released, Fault
  <1>27. ASSUME NEW r \in Requests, ApiCrashed(r)
        PROVE  TypeOK'
    BY <1>27 DEF ApiCrashed, Idle, Fault
  <1>28. ASSUME NEW c \in Contents, FileDamaged(c)
        PROVE  TypeOK'
    BY <1>28 DEF FileDamaged, Fault
  <1>29. CASE UNCHANGED vars
    BY <1>29 DEF vars
  <1> HIDE DEF TypeOK, Claiming, Codes, rows, locks, store, work, disp, reqs
  <1> QED
    BY <1>1, <1>2, <1>3, <1>4, <1>5, <1>6, <1>7, <1>8, <1>9, <1>10, <1>11, <1>12,
       <1>13, <1>14, <1>15, <1>16, <1>17, <1>18, <1>19, <1>20, <1>21, <1>22, <1>23,
       <1>24, <1>25, <1>26, <1>27, <1>28, <1>29, FailedCases
    DEF Next, UploadStep, TimeStep, DispatchStep, JobStarted, JobStep, FaultStep

\* No step of another process touches a row that a job has claimed: each needs
\* the row lock.
LEMMA ClaimsStep ==
  ASSUME TypeOK, Claims, BatchLocked, [Next]_vars
  PROVE  Claims'
  <1> USE NamesAssumption DEF TypeOK, Claims, Claiming, Unfinished, rows, locks, store, work, disp, reqs
  <1>1. ASSUME NEW r \in Requests, NEW k \in Keys, UploadAdmit(r, k)
        PROVE  Claims'
    BY <1>1 DEF UploadAdmit, AdmissionFree, Stored
  <1>2. ASSUME NEW r \in Requests, UploadWrite(r)
        PROVE  Claims'
    BY <1>2 DEF UploadWrite
  <1>3. ASSUME NEW r \in Requests, UploadRefused(r)
        PROVE  Claims'
    BY <1>3 DEF UploadRefused, Idle
  <1>4. ASSUME NEW r \in Requests, UploadCommit(r)
        PROVE  Claims'
    BY <1>4 DEF UploadCommit, Fresh
  <1>5. ASSUME NEW r \in Requests, UploadRefresh(r)
        PROVE  Claims'
    BY <1>5 DEF UploadRefresh, Idle
  <1>6. ASSUME NEW r \in Requests, UploadEnqueue(r)
        PROVE  Claims'
    BY <1>6 DEF UploadEnqueue, Idle
  <1>7. ASSUME NEW d \in Docs, DeleteDocument(d)
        PROVE  Claims'
    BY <1>7 DEF DeleteDocument, RowDeleted
  <1>8. ASSUME NEW d \in Docs, RetryTimeComes(d)
        PROVE  Claims'
    BY <1>8 DEF RetryTimeComes
  <1>9. ASSUME NEW d \in Docs, BecomesStale(d)
        PROVE  Claims'
    BY <1>9 DEF BecomesStale
  <1>10. CASE DispatchSelect
    BY <1>10 DEF DispatchSelect, Oldest, Selectable, Due
  <1>11. CASE DispatchCommit
    BY <1>11 DEF DispatchCommit, Released, BatchLocked
  <1>12. ASSUME NEW d \in Docs, DispatchEnqueue(d)
        PROVE  Claims'
    BY <1>12 DEF DispatchEnqueue
  <1>13. ASSUME NEW w \in Workers, NEW d \in Docs, JobSkipped(w, d)
        PROVE  Claims'
    BY <1>13 DEF JobSkipped, Takes
  <1>14. ASSUME NEW w \in Workers, NEW d \in Docs, JobExhausted(w, d)
        PROVE  Claims'
    BY <1>14 DEF JobExhausted, Takes, Claimable
  <1>15. ASSUME NEW w \in Workers, NEW d \in Docs, JobClaimed(w, d)
        PROVE  Claims'
    BY <1>15 DEF JobClaimed, Takes, Claimable, HasBudget
  <1>16. ASSUME NEW w \in Workers, ReadOriginal(w)
        PROVE  Claims'
    BY <1>16 DEF ReadOriginal
  <1>17. ASSUME NEW w \in Workers, OcrAnswered(w)
        PROVE  Claims'
    BY <1>17 DEF OcrAnswered
  <1>18. ASSUME NEW w \in Workers, ExtractionAnswered(w)
        PROVE  Claims'
    BY <1>18 DEF ExtractionAnswered
  <1>19. ASSUME NEW w \in Workers, JobDone(w)
        PROVE  Claims'
    BY <1>19 DEF JobDone, Unlocked
  <1>20. ASSUME NEW w \in Workers, NEW code \in Codes \ {"null"}, wpc[w] \in Claiming, Failed(w, code)
        PROVE  Claims'
    BY <1>20 DEF Failed, Unlocked, Retryable
  <1>21. ASSUME NEW w \in Workers, JobFinished(w)
        PROVE  Claims'
    BY <1>21 DEF JobFinished
  <1>22. ASSUME NEW w \in Workers, JobAborted(w)
        PROVE  Claims'
    BY <1>22 DEF JobAborted, Unlocked, Fault
  <1>23. ASSUME NEW w \in Workers, WorkerCrashed(w)
        PROVE  Claims'
    BY <1>23 DEF WorkerCrashed, Unlocked, Fault
  <1>24. ASSUME NEW d \in Docs, JobLost(d)
        PROVE  Claims'
    BY <1>24 DEF JobLost, Fault
  <1>25. ASSUME NEW r \in Requests, UploadEnqueueFailed(r)
        PROVE  Claims'
    BY <1>25 DEF UploadEnqueueFailed, Idle, Fault
  <1>26. CASE DispatchFailed
    BY <1>26 DEF DispatchFailed, Released, Fault
  <1>27. ASSUME NEW r \in Requests, ApiCrashed(r)
        PROVE  Claims'
    BY <1>27 DEF ApiCrashed, Idle, Fault
  <1>28. ASSUME NEW c \in Contents, FileDamaged(c)
        PROVE  Claims'
    BY <1>28 DEF FileDamaged, Fault
  <1>29. CASE UNCHANGED vars
    BY <1>29 DEF vars
  <1> HIDE DEF TypeOK, Claims, Claiming, Unfinished, rows, locks, store, work, disp, reqs
  <1> QED
    BY <1>1, <1>2, <1>3, <1>4, <1>5, <1>6, <1>7, <1>8, <1>9, <1>10, <1>11, <1>12,
       <1>13, <1>14, <1>15, <1>16, <1>17, <1>18, <1>19, <1>20, <1>21, <1>22, <1>23,
       <1>24, <1>25, <1>26, <1>27, <1>28, <1>29, FailedCases
    DEF Next, UploadStep, TimeStep, DispatchStep, JobStarted, JobStep, FaultStep

\* The steps that change a row; all the others leave the rows alone.
LEMMA RowSteps ==
  ASSUME [Next]_vars
  PROVE  \/ UNCHANGED rows
         \/ \E r \in Requests : UploadCommit(r)
         \/ \E d \in Docs : DeleteDocument(d)
         \/ \E d \in Docs : TimeStep(d)
         \/ DispatchCommit
         \/ \E w \in Workers, d \in Docs : JobExhausted(w, d)
         \/ \E w \in Workers : JobDone(w)
         \/ \E w \in Workers, code \in Codes \ {"null"} : wpc[w] \in Claiming /\ Failed(w, code)
  <1>1. CASE \E r \in Requests : UploadStep(r)
    BY <1>1 DEF UploadStep, UploadAdmit, UploadWrite, UploadRefused, UploadRefresh, UploadEnqueue
  <1>2. CASE DispatchStep
    BY <1>2 DEF DispatchStep, DispatchSelect, DispatchEnqueue
  <1>3. CASE \E w \in Workers, d \in Docs : JobSkipped(w, d) \/ JobStarted(w, d)
    BY <1>3 DEF JobSkipped, JobStarted, JobClaimed
  <1>4. CASE \E w \in Workers : JobStep(w)
    BY <1>4, FailedCases DEF JobStep, ReadOriginal, OcrAnswered, ExtractionAnswered, JobFinished
  <1>5. CASE FaultStep
    BY <1>5 DEF FaultStep, JobAborted, WorkerCrashed, JobLost, UploadEnqueueFailed, ApiCrashed,
                DispatchFailed, FileDamaged
  <1>6. CASE UNCHANGED vars
    BY <1>6 DEF vars
  <1> QED
    BY <1>1, <1>2, <1>3, <1>4, <1>5, <1>6 DEF Next

\* A row is written only by a process that has it locked and knows its status.
LEMMA RowInvStep ==
  ASSUME TypeOK, Claims, RowInv, [Next]_vars
  PROVE  RowInv'
  <1> USE LimitAssumption
      DEF TypeOK, Claims, RowInv, TextIffDone, SuggestedOnce, RetryWithinBudget, FreshRows,
          Claiming, Codes, Unfinished, rows
  <1>1. CASE UNCHANGED rows
    BY <1>1
  <1>2. ASSUME NEW r \in Requests, UploadCommit(r)
        PROVE  RowInv'
    BY <1>2 DEF UploadCommit, Fresh
  <1>3. ASSUME NEW d \in Docs, DeleteDocument(d)
        PROVE  RowInv'
    BY <1>3 DEF DeleteDocument, RowDeleted
  <1>4. ASSUME NEW d \in Docs, TimeStep(d)
        PROVE  RowInv'
    BY <1>4 DEF TimeStep, RetryTimeComes, BecomesStale
  <1>5. CASE DispatchCommit
    BY <1>5 DEF DispatchCommit
  <1>6. ASSUME NEW w \in Workers, NEW d \in Docs, JobExhausted(w, d)
        PROVE  RowInv'
    BY <1>6 DEF JobExhausted, Claimable
  <1>7. ASSUME NEW w \in Workers, JobDone(w)
        PROVE  RowInv'
    BY <1>7 DEF JobDone
  <1>8. ASSUME NEW w \in Workers, NEW code \in Codes \ {"null"}, wpc[w] \in Claiming, Failed(w, code)
        PROVE  RowInv'
    BY <1>8 DEF Failed, Retryable
  <1> HIDE DEF TypeOK, Claims, RowInv, Claiming, Codes, Unfinished, rows
  <1> QED
    BY <1>1, <1>2, <1>3, <1>4, <1>5, <1>6, <1>7, <1>8, RowSteps


\* What the proofs use of keys and ids without looking into them.
LEMMA KeyFacts ==
  /\ \A k \in Keys : k[2] \in Contents
  /\ NoKey \notin Keys
  /\ 0 \notin Docs
  BY NamesAssumption, DocsAssumption DEF Keys, NoKey

\* A step is quiet for the uploads when it neither adds or removes a row nor
\* touches a request, the admission lock or a stored original.
Quiet ==
  /\ \A d \in Docs : /\ Live(d)' <=> Live(d)
                     /\ status'[d] = "none" <=> status[d] = "none"
  /\ UNCHANGED <<key, admission, file, reqs>>

\* The steps that matter to uploads: requests, deletions and damage to a file.
LEMMA QuietSteps ==
  ASSUME TypeOK, Claims, [Next]_vars
  PROVE  \/ Quiet
         \/ \E r \in Requests : UploadStep(r) \/ UploadEnqueueFailed(r) \/ ApiCrashed(r)
         \/ \E d \in Docs : DeleteDocument(d)
         \/ \E c \in Contents : FileDamaged(c)
  <1> USE DEF Quiet, Live, TypeOK, rows, locks, store
  <1>1. ASSUME NEW d \in Docs, TimeStep(d)
        PROVE  Quiet
    BY <1>1 DEF TimeStep, RetryTimeComes, BecomesStale
  <1>2. CASE DispatchStep
    BY <1>2 DEF DispatchStep, DispatchSelect, DispatchCommit, DispatchEnqueue
  <1>3. ASSUME NEW w \in Workers, NEW d \in Docs, JobSkipped(w, d) \/ JobStarted(w, d)
        PROVE  Quiet
    BY <1>3 DEF JobSkipped, JobStarted, JobClaimed, JobExhausted, Claimable, Unfinished
  <1>4. ASSUME NEW w \in Workers, ReadOriginal(w) \/ OcrAnswered(w) \/ ExtractionAnswered(w) \/ JobFinished(w)
        PROVE  Quiet
    BY <1>4 DEF ReadOriginal, OcrAnswered, ExtractionAnswered, JobFinished
  <1>5. ASSUME NEW w \in Workers, JobDone(w)
        PROVE  Quiet
    BY <1>5 DEF JobDone, Claims, Claiming, Unfinished
  <1>6. ASSUME NEW w \in Workers, NEW code \in Codes, wpc[w] \in Claiming, Failed(w, code)
        PROVE  Quiet
    BY <1>6 DEF Failed, Claims, Unfinished
  <1>7. ASSUME NEW w \in Workers, JobAborted(w) \/ WorkerCrashed(w)
        PROVE  Quiet
    BY <1>7 DEF JobAborted, WorkerCrashed
  <1>8. CASE DispatchFailed \/ \E d \in Docs : JobLost(d)
    BY <1>8 DEF DispatchFailed, JobLost
  <1>9. CASE UNCHANGED vars
    BY <1>9 DEF vars
  <1> HIDE DEF Quiet, TypeOK
  <1> QED
    BY <1>1, <1>2, <1>3, <1>4, <1>5, <1>6, <1>7, <1>8, <1>9, FailedCases DEF Next, JobStep, FaultStep

\* While an upload has the admission lock no other upload can add a row or
\* leave its look-up behind; deletions only take rows away.
LEMMA UploadInvStep ==
  ASSUME TypeOK, Claims, UploadInv, [Next]_vars
  PROVE  UploadInv'
  <1> USE NamesAssumption, KeyFacts
      DEF TypeOK, UploadInv, LiveRows, UploadsKnow, OneRowPerContent, OriginalStored, Live, Stored,
          rows, locks, store, reqs
  <1>1. CASE Quiet
    BY <1>1 DEF Quiet
  <1>2. ASSUME NEW r \in Requests, NEW k \in Keys, UploadAdmit(r, k)
        PROVE  UploadInv'
    BY <1>2 DEF UploadAdmit, AdmissionFree
  <1>3. ASSUME NEW r \in Requests, UploadWrite(r)
        PROVE  UploadInv'
    BY <1>3 DEF UploadWrite
  <1>4. ASSUME NEW r \in Requests, UploadRefused(r)
        PROVE  UploadInv'
    BY <1>4 DEF UploadRefused, Idle
  <1>5. ASSUME NEW r \in Requests, UploadCommit(r)
        PROVE  UploadInv'
    <2>1. CASE UNCHANGED <<rows, rdoc>> /\ rdoc[r] # 0
      BY <1>5, <2>1 DEF UploadCommit
    <2>2. CASE rdoc[r] = 0
      <3>1. PICK d \in Docs : /\ Fresh(d)
                              /\ status' = [status EXCEPT ![d] = "pending"]
                              /\ key' = [key EXCEPT ![d] = rkey[r]]
                              /\ rdoc' = [rdoc EXCEPT ![r] = d]
        BY <1>5, <2>2 DEF UploadCommit
      <3>2. LiveRows' /\ OneRowPerContent' /\ OriginalStored'
        BY <1>5, <2>2, <3>1 DEF UploadCommit
      <3>3. UploadsKnow'
        BY <1>5, <2>2, <3>1 DEF UploadCommit
      <3> QED
        BY <3>2, <3>3
    <2> QED
      BY <1>5, <2>1, <2>2 DEF UploadCommit
  <1>6. ASSUME NEW r \in Requests, UploadRefresh(r)
        PROVE  UploadInv'
    BY <1>6 DEF UploadRefresh, Idle
  <1>7. ASSUME NEW r \in Requests, UploadEnqueue(r) \/ UploadEnqueueFailed(r)
        PROVE  UploadInv'
    BY <1>7 DEF UploadEnqueue, UploadEnqueueFailed, Idle
  <1>8. ASSUME NEW r \in Requests, ApiCrashed(r)
        PROVE  UploadInv'
    BY <1>8 DEF ApiCrashed, Idle
  <1>9. ASSUME NEW d \in Docs, DeleteDocument(d)
        PROVE  UploadInv'
    BY <1>9 DEF DeleteDocument, RowDeleted
  <1>10. ASSUME NEW c \in Contents, FileDamaged(c)
        PROVE  UploadInv'
    BY <1>10 DEF FileDamaged
  <1> HIDE DEF TypeOK, UploadInv
  <1> QED
    BY <1>1, <1>2, <1>3, <1>4, <1>5, <1>6, <1>7, <1>8, <1>9, <1>10, QuietSteps DEF UploadStep

\* A key is put in the queue by a request that has committed its row, or by
\* the dispatcher, which read the row.
LEMMA CommittedStep ==
  ASSUME TypeOK, UploadsKnow, CommittedBeforeQueued, [Next]_vars
  PROVE  CommittedBeforeQueued'
  <1>1. \A d \in Docs : status[d] # "none" => status'[d] # "none"
    BY RowSteps DEF TypeOK, rows, UploadCommit, Fresh, DeleteDocument, RowDeleted, TimeStep,
       RetryTimeComes, BecomesStale, DispatchCommit, JobExhausted, JobDone, Failed
  <1>2. \A d \in queue' \cup batch' : d \in queue \cup batch \/ (d \in Docs /\ status[d] # "none")
    <2>1. CASE queue' \subseteq queue /\ batch' \subseteq batch
      BY <2>1
    <2>2. ASSUME NEW r \in Requests, UploadEnqueue(r)
          PROVE  queue' \subseteq queue \cup {rdoc[r]} /\ batch' = batch /\ status[rdoc[r]] # "none"
      BY <2>2 DEF UploadEnqueue, UploadsKnow, disp
    <2>3. CASE DispatchSelect
      BY <2>3 DEF DispatchSelect, Oldest, Selectable, Due, store
    <2>4. ASSUME NEW d \in Docs, DispatchEnqueue(d)
          PROVE  queue' \subseteq queue \cup batch /\ batch' \subseteq batch
      BY <2>4 DEF DispatchEnqueue
    <2>5. \/ queue' \subseteq queue /\ batch' \subseteq batch
          \/ \E r \in Requests : UploadEnqueue(r)
          \/ DispatchSelect
          \/ \E d \in Docs : DispatchEnqueue(d)
      BY SMTT(20) DEF Next, UploadStep, UploadAdmit, UploadWrite, UploadRefused, UploadCommit, UploadRefresh,
         DeleteDocument, RowDeleted, TimeStep, RetryTimeComes, BecomesStale,
         DispatchStep, DispatchCommit, JobSkipped, JobStarted, JobClaimed, JobExhausted,
         JobStep, ReadOriginal, OcrAnswered, ExtractionAnswered, JobDone, ReadFailed, OcrFailed,
         ExtractionFailed, Failed, JobFinished, FaultStep, JobAborted, WorkerCrashed, JobLost,
         UploadEnqueueFailed, DispatchFailed, ApiCrashed, FileDamaged, store, disp, vars
    <2> QED
      BY <2>1, <2>2, <2>3, <2>4, <2>5 DEF UploadsKnow, UploadEnqueue
  <1> QED
    BY <1>1, <1>2 DEF CommittedBeforeQueued, TypeOK

\* The dispatcher keeps the locks of FOR UPDATE SKIP LOCKED until its commit.
LEMMA BatchLockedStep ==
  ASSUME TypeOK, Claims, BatchLocked, [Next]_vars
  PROVE  BatchLocked'
  <1> USE NamesAssumption DEF TypeOK, Claims, BatchLocked, Claiming, locks, disp, vars
  <1>1. CASE \E r \in Requests : UploadStep(r)
    BY <1>1 DEF UploadStep, UploadAdmit, UploadWrite, UploadRefused, UploadCommit, UploadRefresh,
                UploadEnqueue
  <1>2. CASE \E d \in Docs : DeleteDocument(d) \/ TimeStep(d)
    BY <1>2 DEF DeleteDocument, RowDeleted, TimeStep, RetryTimeComes, BecomesStale
  <1>3. CASE DispatchStep
    <2>1. CASE DispatchSelect
      BY <2>1 DEF DispatchSelect, Oldest
    <2>2. CASE DispatchCommit
      BY <2>2 DEF DispatchCommit
    <2>3. ASSUME NEW d \in Docs, DispatchEnqueue(d)
          PROVE  BatchLocked'
      BY <2>3 DEF DispatchEnqueue
    <2> QED
      BY <1>3, <2>1, <2>2, <2>3 DEF DispatchStep
  <1>4. CASE \E w \in Workers, d \in Docs : JobSkipped(w, d) \/ JobStarted(w, d)
    BY <1>4 DEF JobSkipped, JobStarted, JobClaimed, JobExhausted, Claimable
  <1>5. ASSUME NEW w \in Workers, JobStep(w)
        PROVE  BatchLocked'
    <2>1. CASE UNCHANGED holder /\ UNCHANGED disp
      BY <2>1
    <2>2. CASE wpc[w] \in Claiming /\ holder' = Unlocked(w) /\ UNCHANGED disp
      BY <2>2 DEF Unlocked
    <2> QED
      BY <1>5, <2>1, <2>2, FailedCases
      DEF JobStep, ReadOriginal, OcrAnswered, ExtractionAnswered, JobDone, Failed, JobFinished
  <1>6. CASE FaultStep
    BY <1>6 DEF FaultStep, JobAborted, WorkerCrashed, JobLost, UploadEnqueueFailed, ApiCrashed,
                DispatchFailed, FileDamaged, Unlocked
  <1> QED
    BY <1>1, <1>2, <1>3, <1>4, <1>5, <1>6 DEF Next

\* The invariant holds in the states an earlier release may have left.
LEMMA InvInit == Init => Inv
  <1> SUFFICES ASSUME Init PROVE Inv
    OBVIOUS
  <1> USE LimitAssumption, NamesAssumption DEF Init
  <1>1. TypeOK
    BY DEF TypeOK, Codes
  <1>2. Claims /\ BatchLocked
    BY DEF Claims, BatchLocked, Claiming
  <1>3. RowInv
    BY DEF RowInv, TextIffDone, SuggestedOnce, RetryWithinBudget, FreshRows, Unfinished
  <1>4. \A d \in Docs : Live(d) => d \in Legacy /\ key[d] \in Keys
    BY DEF Live
  <1>5. UploadInv
    BY <1>4, KeyFacts DEF UploadInv, LiveRows, UploadsKnow, OneRowPerContent, OriginalStored
  <1>6. CommittedBeforeQueued
    BY DEF CommittedBeforeQueued
  <1> QED
    BY <1>1, <1>2, <1>3, <1>5, <1>6 DEF Inv

\* The invariant that all the safety theorems rest on: every reachable state
\* of uploads, dispatcher, jobs, deletions and faults satisfies it.
THEOREM Invariance == Spec => []Inv
  <1>1. Inv /\ [Next]_vars => Inv'
    BY TypeOKStep, ClaimsStep, BatchLockedStep, RowInvStep, UploadInvStep, CommittedStep DEF Inv, UploadInv
  <1> QED
    BY <1>1, InvInit, PTL DEF Spec

\* The types; in particular attempt_count never exceeds DOCUMENT_MAX_ATTEMPTS.
THEOREM TypeCorrect == Spec => []TypeOK
  BY Invariance, PTL DEF Inv

\* A document has a text exactly when its status is done, whatever jobs abort
\* or crash (process_document commits both together).
THEOREM TextExactlyWhenDone == Spec => []TextIffDone
  BY Invariance, PTL DEF Inv, RowInv

\* However many deliveries and crashes, one inbox suggestion at most is made
\* from a document (create_inbox_from_document under the claim).
THEOREM AtMostOneSuggestion == Spec => []SuggestedOnce
  BY Invariance, PTL DEF Inv, RowInv

\* process_document schedules a retry only within the budget and only for an
\* error of the upstream service.
THEOREM RetriesWithinBudget == Spec => []RetryWithinBudget
  BY Invariance, PTL DEF Inv, RowInv

\* store_document's advisory lock makes a user's documents unique by content.
THEOREM UniqueContent == Spec => []OneRowPerContent
  BY Invariance, PTL DEF Inv, UploadInv

\* No row without its original: the file is published before the row commits
\* and delete_document leaves it for the other rows that name it.
THEOREM OriginalsStored == Spec => []OriginalStored
  BY Invariance, PTL DEF Inv, UploadInv

\* No worker is given an id whose row was not committed (upload_document and
\* dispatch_pending_documents commit before they enqueue).
THEOREM QueuedAfterCommit == Spec => []CommittedBeforeQueued
  BY Invariance, PTL DEF Inv

----------------------------------------------------------------------------
\* What a step does to the row of a document, in terms of a reader.
Outcome(d) ==
  \/ status'[d] = status[d] /\ attempts'[d] = attempts[d]
  \/ status[d] = "none" /\ status'[d] = "pending" /\ attempts'[d] = attempts[d]
  \/ status'[d] = "deleted"
  \/ status[d] = "processing" /\ status'[d] = "pending" /\ attempts'[d] = attempts[d]
  \/ status[d] \in Unfinished /\ wait[d] # "later"

\* Every step has one of these outcomes for every row.
LEMMA RowOutcome ==
  ASSUME Inv, [Next]_vars, NEW e \in Docs
  PROVE  Outcome(e)
  <1> USE DEF Inv, TypeOK, Claims, Outcome, Unfinished, rows
  <1>1. CASE UNCHANGED rows
    BY <1>1
  <1>2. ASSUME NEW r \in Requests, UploadCommit(r)
        PROVE  Outcome(e)
    BY <1>2 DEF UploadCommit, Fresh
  <1>3. ASSUME NEW d \in Docs, DeleteDocument(d)
        PROVE  Outcome(e)
    BY <1>3 DEF DeleteDocument, RowDeleted
  <1>4. ASSUME NEW d \in Docs, TimeStep(d)
        PROVE  Outcome(e)
    BY <1>4 DEF TimeStep, RetryTimeComes, BecomesStale
  <1>5. CASE DispatchCommit
    BY <1>5 DEF DispatchCommit
  <1>6. ASSUME NEW w \in Workers, NEW d \in Docs, JobExhausted(w, d)
        PROVE  Outcome(e)
    BY <1>6 DEF JobExhausted, Claimable
  <1>7. ASSUME NEW w \in Workers, JobDone(w)
        PROVE  Outcome(e)
    BY <1>7 DEF JobDone, Claiming
  <1>8. ASSUME NEW w \in Workers, NEW code \in Codes \ {"null"}, wpc[w] \in Claiming, Failed(w, code)
        PROVE  Outcome(e)
    BY <1>8 DEF Failed
  <1> HIDE DEF Inv, Outcome, rows
  <1> QED
    BY <1>1, <1>2, <1>3, <1>4, <1>5, <1>6, <1>7, <1>8, RowSteps

\* process_document and the dispatcher never reopen a done or failed document.
THEOREM TerminalStates == Spec => TerminalIsFinal
  <1>1. Inv /\ [Next]_vars =>
          [\A d \in Docs : status[d] \in {"done", "error"} => status'[d] \in {status[d], "deleted"}]_vars
    BY RowOutcome DEF Outcome, Unfinished
  <1> QED
    BY <1>1, Invariance, PTL DEF Spec, TerminalIsFinal

\* No attempt is charged before next_attempt_at.
THEOREM RetryTimeRespected == Spec => NoEarlyRetry
  <1>1. Inv /\ [Next]_vars =>
          [\A d \in Docs : wait[d] = "later" =>
             \/ attempts'[d] = attempts[d] /\ status'[d] = status[d]
             \/ status'[d] = "deleted"]_vars
    <2> SUFFICES ASSUME Inv, [Next]_vars, NEW d \in Docs, wait[d] = "later"
                 PROVE  \/ attempts'[d] = attempts[d] /\ status'[d] = status[d]
                        \/ status'[d] = "deleted"
      OBVIOUS
    <2>1. status[d] = "pending"
      BY DEF Inv, RowInv, RetryWithinBudget
    <2> QED
      BY <2>1, RowOutcome DEF Outcome
  <1> QED
    BY <1>1, Invariance, PTL DEF Spec, NoEarlyRetry

\* While a job has claimed a row, only that job changes it, and in one step
\* that ends its transaction.
THEOREM ClaimsExclude == Spec => ClaimExcludes
  <1> DEFINE Excluded(d) ==
        \/ status'[d] = status[d] /\ attempts'[d] = attempts[d]
        \/ \E w \in Workers : wdoc[w] = d /\ wpc[w] \in Claiming /\ wpc'[w] = "finish"
  <1>1. ASSUME Inv, [Next]_vars, NEW e \in Docs, NEW v \in Workers, wdoc[v] = e, wpc[v] \in Claiming
        PROVE  Excluded(e)
    <2>1. holder[e] = v /\ holder[e] # None /\ holder[e] # Dispatcher /\ status[e] \in Unfinished
      BY <1>1, NamesAssumption DEF Inv, Claims
    <2> USE <1>1, <2>1 DEF Inv, TypeOK, rows
    <2>2. CASE UNCHANGED rows
      BY <2>2
    <2>3. ASSUME NEW r \in Requests, UploadCommit(r)
          PROVE  Excluded(e)
      BY <2>3 DEF UploadCommit, Fresh, Unfinished
    <2>4. ASSUME NEW d \in Docs, DeleteDocument(d)
          PROVE  Excluded(e)
      BY <2>4 DEF DeleteDocument, RowDeleted
    <2>5. ASSUME NEW d \in Docs, TimeStep(d)
          PROVE  Excluded(e)
      BY <2>5 DEF TimeStep, RetryTimeComes, BecomesStale
    <2>6. CASE DispatchCommit
      BY <2>6 DEF DispatchCommit, BatchLocked
    <2>7. ASSUME NEW w \in Workers, NEW d \in Docs, JobExhausted(w, d)
          PROVE  Excluded(e)
      BY <2>7 DEF JobExhausted, Claimable
    <2>8. ASSUME NEW w \in Workers, JobDone(w)
          PROVE  Excluded(e)
      BY <2>8 DEF JobDone, Claiming
    <2>9. ASSUME NEW w \in Workers, NEW code \in Codes \ {"null"}, wpc[w] \in Claiming, Failed(w, code)
          PROVE  Excluded(e)
      BY <2>9 DEF Failed
    <2> HIDE DEF Excluded, Inv, rows
    <2> QED
      BY <2>2, <2>3, <2>4, <2>5, <2>6, <2>7, <2>8, <2>9, RowSteps
  <1>2. Inv /\ [Next]_vars =>
          [\A d \in Docs : (\E w \in Workers : wdoc[w] = d /\ wpc[w] \in Claiming) =>
             \/ status'[d] = status[d] /\ attempts'[d] = attempts[d]
             \/ \E w \in Workers : wdoc[w] = d /\ wpc[w] \in Claiming /\ wpc'[w] = "finish"]_vars
    BY <1>1
  <1> QED
    BY <1>2, Invariance, PTL DEF Spec, ClaimExcludes

----------------------------------------------------------------------------
\* Rows left by an earlier release are documents that wait.
LEMMA LifecycleInit == Init => Lifecycle!Init
  BY LimitAssumption DEF Init, Lifecycle!Init, Phase, Unfinished

\* A reader sees a document move only when its status moves between phases.
LEMMA PhaseMoves ==
  ASSUME NEW d \in Docs, NEW s, DOMAIN status = Docs, status' = [status EXCEPT ![d] = s]
  PROVE  Phase' = [Phase EXCEPT ![d] = IF s \in Unfinished THEN "waiting" ELSE s]
  BY DEF Phase

LEMMA PhaseStays ==
  ASSUME \A d \in Docs : \/ status'[d] = status[d]
                         \/ status[d] \in Unfinished /\ status'[d] \in Unfinished
  PROVE  Phase' = Phase
  BY DEF Phase

\* Commits and deletions are the steps of the life of a document, everything
\* else is invisible to its readers.
LEMMA LifecycleStep ==
  ASSUME Inv, [Next]_vars
  PROVE  [Lifecycle!Next]_Lifecycle!vars
  <1>t. TypeOK /\ Claims /\ RowInv /\ DOMAIN status = Docs
    BY DEF Inv, TypeOK
  <1>p. \A d \in Docs : Phase[d] = IF status[d] \in Unfinished THEN "waiting" ELSE status[d]
    BY DEF Phase
  <1>1. CASE UNCHANGED rows
    BY <1>1 DEF rows, Phase, Lifecycle!vars
  <1>2. ASSUME NEW r \in Requests, UploadCommit(r)
        PROVE  UNCHANGED Lifecycle!vars \/ \E d \in Docs : Lifecycle!Accept(d)
    <2>1. CASE UNCHANGED rows
      BY <2>1 DEF rows, Phase, Lifecycle!vars
    <2>2. CASE rdoc[r] = 0
      <3>1. PICK d \in Docs : Fresh(d) /\ status' = [status EXCEPT ![d] = "pending"]
        BY <1>2, <2>2 DEF UploadCommit
      <3>2. Phase[d] = "none" /\ Phase' = [Phase EXCEPT ![d] = "waiting"]
        BY <1>t, <1>p, <3>1, PhaseMoves DEF Fresh, Unfinished
      <3> QED
        BY <1>2, <2>2, <3>2 DEF UploadCommit, Lifecycle!Accept
    <2> QED
      BY <1>2, <2>1, <2>2 DEF UploadCommit
  <1>3. ASSUME NEW d \in Docs, DeleteDocument(d)
        PROVE  Lifecycle!Remove(d)
    <2>1. Phase[d] \in {"waiting", "done", "error"}
      BY <1>3, <1>t, <1>p DEF DeleteDocument, RowDeleted, Live, Unfinished, TypeOK
    <2>2. Phase' = [Phase EXCEPT ![d] = "deleted"]
      BY <1>3, <1>t, PhaseMoves DEF DeleteDocument, RowDeleted, Unfinished
    <2> QED
      BY <1>3, <2>1, <2>2 DEF DeleteDocument, RowDeleted, Lifecycle!Remove
  <1>4. ASSUME NEW d \in Docs, TimeStep(d)
        PROVE  UNCHANGED Lifecycle!vars
    BY <1>4, PhaseStays DEF TimeStep, RetryTimeComes, BecomesStale, Lifecycle!vars
  <1>5. ASSUME DispatchCommit
        PROVE  UNCHANGED Lifecycle!vars
    BY <1>5, <1>t, PhaseStays DEF DispatchCommit, Unfinished, Lifecycle!vars
  <1>6. ASSUME NEW w \in Workers, NEW d \in Docs, JobExhausted(w, d)
        PROVE  Lifecycle!GiveUp(d)
    <2>1. attempts[d] = MaxAttempts
      BY <1>6, <1>t, LimitAssumption, SMTT(20) DEF JobExhausted, HasBudget, TypeOK
    <2>2. Phase[d] = "waiting" /\ Phase' = [Phase EXCEPT ![d] = "error"]
      BY <1>6, <1>t, <1>p, PhaseMoves DEF JobExhausted, Claimable, Unfinished
    <2> QED
      BY <1>6, <2>1, <2>2 DEF JobExhausted, Lifecycle!GiveUp
  <1>7. ASSUME NEW w \in Workers, JobDone(w)
        PROVE  wdoc[w] \in Docs /\ Lifecycle!Complete(wdoc[w])
    <2>1. /\ wdoc[w] \in Docs
          /\ status[wdoc[w]] \in Unfinished
          /\ attempts[wdoc[w]] < MaxAttempts
          /\ wpc[w] = "suggest" => inbox[wdoc[w]] = 0
      BY <1>7, <1>t DEF JobDone, Claims, Claiming
    <2>2. Phase[wdoc[w]] = "waiting" /\ Phase' = [Phase EXCEPT ![wdoc[w]] = "done"]
      BY <1>7, <1>t, <1>p, <2>1, PhaseMoves DEF JobDone, Unfinished
    <2>3. inbox' = inbox \/ (inbox[wdoc[w]] = 0 /\ inbox' = [inbox EXCEPT ![wdoc[w]] = 1])
      <3>1. CASE wpc[w] = "suggest"
        <4>1. inbox[wdoc[w]] + 1 = 1
          BY <2>1, <3>1
        <4> QED
          BY <1>7, <2>1, <3>1, <4>1 DEF JobDone
      <3>2. CASE wpc[w] # "suggest"
        BY <1>7, <3>2 DEF JobDone
      <3> QED
        BY <3>1, <3>2
    <2> QED
      BY <1>7, <2>1, <2>2, <2>3 DEF JobDone, Lifecycle!Complete, Lifecycle!Charged
  <1>8. ASSUME NEW w \in Workers, NEW code \in Codes \ {"null"}, wpc[w] \in Claiming, Failed(w, code)
        PROVE  wdoc[w] \in Docs /\ (Lifecycle!Retry(wdoc[w]) \/ Lifecycle!GiveUp(wdoc[w]))
    <2>1. /\ wdoc[w] \in Docs
          /\ status[wdoc[w]] \in Unfinished
          /\ Phase[wdoc[w]] = "waiting"
          /\ attempts[wdoc[w]] < MaxAttempts
      BY <1>8, <1>t, <1>p DEF Claims, Claiming
    <2>2. CASE Retryable(wdoc[w], code)
      <3>1. Phase' = Phase
        BY <1>8, <1>t, <2>1, <2>2, PhaseStays DEF Failed, Unfinished
      <3> QED
        BY <1>8, <1>t, <2>1, <2>2, <3>1 DEF Failed, Retryable, TypeOK, Lifecycle!Retry, Lifecycle!Charged
    <2>3. CASE ~Retryable(wdoc[w], code)
      <3>1. Phase' = [Phase EXCEPT ![wdoc[w]] = "error"]
        BY <1>8, <1>t, <2>1, <2>3, PhaseMoves DEF Failed, Unfinished
      <3> QED
        BY <1>8, <2>1, <2>3, <3>1 DEF Failed, Lifecycle!GiveUp, Lifecycle!Charged
    <2> QED
      BY <2>1, <2>2, <2>3
  <1> QED
    BY <1>1, <1>2, <1>3, <1>4, <1>5, <1>6, <1>7, <1>8, RowSteps DEF Lifecycle!Next

\* The pipeline implements DocumentLifecycle, for every number of workers,
\* requests, documents and faults.
THEOREM Refinement == Spec => ImplementsLifecycle
  BY LifecycleInit, LifecycleStep, Invariance, PTL DEF Spec, ImplementsLifecycle, Lifecycle!Spec
----------------------------------------------------------------------------
(***************************************************************************)
(* Upload admission.  Only the request with the lock for all users adds to *)
(* the documents and the originals, so that what it has looked at is still *)
(* so when it commits, but for deletions.  The quotas hold for the         *)
(* documents together with the one that is about to be committed.          *)
(***************************************************************************)
SizedRows == UploadUsers \X Sizes
Uploading == [at : {"queue", "parser", "valid", "admission", "stored"},
              user : UploadUsers, content : Sizes]
Parsing == {r \in SizedRequests : up[r].at = "parser"}

AdmissionTypeOK ==
  /\ slots \in Nat
  /\ stored \subseteq SizedRows /\ IsFiniteSet(stored)
  /\ originals \subseteq Sizes /\ IsFiniteSet(originals)
  /\ up \in [SizedRequests -> {Admission!Idle} \cup Uploading]

ParsersInv == IsFiniteSet(Parsing) /\ slots + Cardinality(Parsing) = Slots

\* The quotas hold for the documents R.
QuotasHold(R) ==
  /\ \A u \in UploadUsers : Admission!Total({row \in R : row[1] = u}) <= UserQuota
  /\ Admission!Total(R) <= GlobalQuota

AdmissionHeld ==
  \A r \in SizedRequests :
    /\ up[r].at \in {"admission", "stored"} => quotaLock = r
    /\ up[r].at = "stored" =>
         up[r].content \in originals /\ QuotasHold(stored \cup {Admission!Stored(r)})

StorageInv ==
  /\ AdmissionTypeOK
  /\ AdmissionHeld
  /\ \A row \in stored : row[2] \in originals
  /\ QuotasHold(stored)
  /\ Admission!Free >= MinFree

----------------------------------------------------------------------------
(***************************************************************************)
(* Sums and sizes.                                                         *)
(***************************************************************************)
\* The library's operators are the same in the instance.
LEMMA AdmissionLibrary ==
  /\ \A f : Admission!SumFunction(f) = SumFunctionOnSet(f, DOMAIN f)
  /\ \A S : Admission!Cardinality(S) = Cardinality(S)
<1>1. ASSUME NEW f PROVE Admission!SumFunction(f) = SumFunctionOnSet(f, DOMAIN f)
  BY Zenon DEF Admission!SumFunction, Admission!SumFunctionOnSet, Admission!FoldFunctionOnSet,
               Admission!MapThenFoldSet, SumFunctionOnSet, FoldFunctionOnSet, MapThenFoldSet
<1>2. ASSUME NEW S PROVE Admission!Cardinality(S) = Cardinality(S)
  BY Zenon DEF Cardinality, Admission!Cardinality
<1> QED
  BY <1>1, <1>2

RowLength == [row \in SizedRows |-> row[2]]
Length == [c \in Sizes |-> c]

LEMMA TotalIsSum ==
  ASSUME NEW R \in SUBSET SizedRows, IsFiniteSet(R)
  PROVE  Admission!Total(R) = SumFunctionOnSet(RowLength, R) /\ Admission!Total(R) \in Nat
<1> DEFINE f == [row \in R |-> row[2]]
<1>1. Admission!Total(R) = SumFunctionOnSet(f, R)
  <2>1. DOMAIN f = R
    OBVIOUS
  <2>2. Admission!Total(R) = Admission!SumFunction(f)
    BY DEF Admission!Total
  <2> HIDE DEF f
  <2> QED
    BY <2>1, <2>2, AdmissionLibrary
<1>2. \A row \in R : f[row] = RowLength[row] /\ RowLength[row] \in Nat
  BY SizesAssumption DEF RowLength, SizedRows
<1> HIDE DEF f
<1>3. SumFunctionOnSet(f, R) = SumFunctionOnSet(RowLength, R)
  BY <1>2, SumEqual
<1>4. SumFunctionOnSet(RowLength, R) \in Nat
  BY <1>2, SumType
<1> QED
  BY <1>1, <1>3, <1>4

LEMMA TotalLess ==
  ASSUME NEW R \in SUBSET SizedRows, IsFiniteSet(R), NEW T \in SUBSET R
  PROVE  Admission!Total(T) <= Admission!Total(R)
<1>1. IsFiniteSet(T) /\ T \in SUBSET SizedRows
  BY FS_Subset
<1>2. \A row \in R : RowLength[row] \in Nat
  BY SizesAssumption DEF RowLength, SizedRows
<1>3. SumFunctionOnSet(RowLength, T) <= SumFunctionOnSet(RowLength, R)
  BY <1>2, SumOfPart
<1> QED
  BY <1>1, <1>3, TotalIsSum

LEMMA TotalMore ==
  ASSUME NEW R \in SUBSET SizedRows, IsFiniteSet(R), NEW x \in SizedRows, x \notin R
  PROVE  Admission!Total(R \cup {x}) = x[2] + Admission!Total(R)
<1>1. IsFiniteSet(R \cup {x}) /\ R \cup {x} \in SUBSET SizedRows
  BY FS_AddElement
<1>2. \A row \in R \cup {x} : RowLength[row] \in Int
  <2>1. \A row \in SizedRows : RowLength[row] \in Nat
    BY SizesAssumption DEF RowLength, SizedRows
  <2> QED
    BY <2>1
<1>3. RowLength[x] = x[2]
  BY DEF RowLength
<1> QED
  BY <1>1, <1>2, <1>3, SumInsert, TotalIsSum

\* Fewer documents are within the quotas too.
LEMMA QuotasOfPart ==
  ASSUME NEW R \in SUBSET SizedRows, IsFiniteSet(R), NEW T \in SUBSET R, QuotasHold(R)
  PROVE  QuotasHold(T)
<1>1. IsFiniteSet(T) /\ T \in SUBSET SizedRows
  BY FS_Subset
<1>2. ASSUME NEW u \in UploadUsers
      PROVE  Admission!Total({row \in T : row[1] = u}) <= UserQuota
  <2> DEFINE A == {row \in T : row[1] = u}
             B == {row \in R : row[1] = u}
  <2>1. A \in SUBSET B /\ B \in SUBSET SizedRows /\ A \in SUBSET SizedRows
    OBVIOUS
  <2>2. IsFiniteSet(B) /\ IsFiniteSet(A)
    BY <1>1, FS_Subset
  <2>3. Admission!Total(B) <= UserQuota
    BY DEF QuotasHold
  <2> HIDE DEF A, B
  <2>4. Admission!Total(A) <= Admission!Total(B)
    BY <2>1, <2>2, TotalLess
  <2>5. Admission!Total(A) \in Nat /\ Admission!Total(B) \in Nat
    BY <2>1, <2>2, TotalIsSum
  <2>6. Admission!Total(A) <= UserQuota
    BY <2>3, <2>4, <2>5, SizesAssumption
  <2> QED
    BY <2>6 DEF A
<1>3. Admission!Total(T) <= GlobalQuota
  BY <1>1, TotalLess, TotalIsSum, SizesAssumption DEF QuotasHold
<1> QED
  BY <1>2, <1>3 DEF QuotasHold

\* A document that fits.
LEMMA QuotasWithOne ==
  ASSUME NEW R \in SUBSET SizedRows, IsFiniteSet(R), NEW u \in UploadUsers, NEW c \in Sizes,
         QuotasHold(R),
         Admission!Total({row \in R : row[1] = u}) + c <= UserQuota,
         Admission!Total(R) + c <= GlobalQuota
  PROVE  QuotasHold(R \cup {<<u, c>>})
<1> DEFINE x == <<u, c>>
<1>1. x \in SizedRows /\ x[1] = u /\ x[2] = c
  BY DEF SizedRows
<1> HIDE DEF x
<1>2. CASE x \in R
  <2>1. R \cup {x} = R
    BY <1>2
  <2> QED
    BY <2>1 DEF x
<1>3. CASE x \notin R
  <2>1. Admission!Total(R \cup {x}) <= GlobalQuota
    <3>1. Admission!Total(R) \in Nat /\ c \in Nat
      BY TotalIsSum, SizesAssumption
    <3> QED
      BY <1>1, <1>3, <3>1, TotalMore, SizesAssumption
  <2>2. ASSUME NEW v \in UploadUsers
        PROVE  Admission!Total({row \in R \cup {x} : row[1] = v}) <= UserQuota
    <3> DEFINE A == {row \in R : row[1] = v}
               B == {row \in R \cup {x} : row[1] = v}
    <3>1. A \in SUBSET SizedRows /\ IsFiniteSet(A) /\ x \notin A
      BY <1>3, FS_Subset
    <3>2. CASE v = u
      <4>1. B = A \cup {x}
        BY <1>1, <3>2
      <4>2. Admission!Total(A) + c <= UserQuota
        BY <3>2
      <4> HIDE DEF A, B
      <4>3. Admission!Total(A) \in Nat /\ c \in Nat
        BY <3>1, TotalIsSum, SizesAssumption
      <4>4. Admission!Total(B) = c + Admission!Total(A)
        BY <1>1, <3>1, <4>1, TotalMore
      <4>5. Admission!Total(B) <= UserQuota
        BY <4>2, <4>3, <4>4
      <4> QED
        BY <4>5 DEF B
    <3>3. CASE v # u
      <4>1. B = A
        BY <1>1, <3>3
      <4>2. Admission!Total(A) <= UserQuota
        BY DEF QuotasHold
      <4> QED
        BY <4>1, <4>2
    <3> QED
      BY <3>2, <3>3
  <2> QED
    BY <2>1, <2>2 DEF QuotasHold, x
<1> QED
  BY <1>2, <1>3

\* An original more, and what is free.
LEMMA FreeWithOne ==
  ASSUME originals \subseteq Sizes, IsFiniteSet(originals), NEW c \in Sizes,
         originals' = originals \cup {c}
  PROVE  Admission!Free \in Int /\ Admission!Free' \in {Admission!Free, Admission!Free - c}
<1>1. ASSUME NEW S \in SUBSET Sizes, IsFiniteSet(S)
      PROVE  /\ Admission!SumFunction([x \in S |-> x]) = SumFunctionOnSet(Length, S)
             /\ SumFunctionOnSet(Length, S) \in Nat
  <2> DEFINE f == [x \in S |-> x]
  <2>1. DOMAIN f = S /\ \A x \in S : f[x] = Length[x] /\ Length[x] \in Nat
    BY SizesAssumption DEF Length
  <2> HIDE DEF f
  <2>2. Admission!SumFunction(f) = SumFunctionOnSet(f, S)
    BY <2>1, AdmissionLibrary
  <2>3. SumFunctionOnSet(f, S) = SumFunctionOnSet(Length, S)
    BY <1>1, <2>1, SumEqual
  <2>4. SumFunctionOnSet(Length, S) \in Nat
    BY <1>1, <2>1, SumType
  <2> QED
    BY <2>2, <2>3, <2>4 DEF f
<1>2. Admission!Free = Disk - SumFunctionOnSet(Length, originals)
      /\ SumFunctionOnSet(Length, originals) \in Nat
  BY <1>1 DEF Admission!Free
<1>3. IsFiniteSet(originals \cup {c}) /\ originals \cup {c} \in SUBSET Sizes
  BY FS_AddElement
<1>4. Admission!Free' = Disk - SumFunctionOnSet(Length, originals \cup {c})
  BY <1>1, <1>3 DEF Admission!Free
<1>5. CASE c \in originals
  <2>1. originals \cup {c} = originals
    BY <1>5
  <2> QED
    BY <1>2, <1>4, <2>1, SizesAssumption
<1>6. CASE c \notin originals
  <2>1. \A x \in originals \cup {c} : Length[x] \in Int
    BY SizesAssumption DEF Length
  <2>2. Length[c] = c /\ c \in Nat
    BY SizesAssumption DEF Length
  <2>3. SumFunctionOnSet(Length, originals \cup {c}) = c + SumFunctionOnSet(Length, originals)
    BY <1>6, <2>1, <2>2, SumInsert
  <2> QED
    BY <1>2, <1>4, <2>2, <2>3, SizesAssumption
<1> QED
  BY <1>5, <1>6

----------------------------------------------------------------------------
(***************************************************************************)
(* The steps of an upload.                                                 *)
(***************************************************************************)
\* An upload that is somewhere else next.
LEMMA UploadMoves ==
  ASSUME AdmissionTypeOK, NEW r \in SizedRequests, up[r].at # "idle",
         NEW place \in {"parser", "valid", "admission", "stored"}, Admission!Goto(r, place)
  PROVE  /\ up' \in [SizedRequests -> {Admission!Idle} \cup Uploading]
         /\ up'[r].at = place /\ up'[r].user = up[r].user /\ up'[r].content = up[r].content
         /\ up[r].user \in UploadUsers /\ up[r].content \in Sizes
         /\ \A q \in SizedRequests : q # r => up'[q] = up[q]
<1>1. up[r] \in Uploading
  BY DEF AdmissionTypeOK, Admission!Idle
<1>2. up' = [up EXCEPT ![r] = [up[r] EXCEPT !.at = place]]
  BY DEF Admission!Goto
<1>3. [up[r] EXCEPT !.at = place] \in Uploading
  BY <1>1 DEF Uploading
<1> QED
  BY <1>1, <1>2, <1>3 DEF AdmissionTypeOK, Uploading

\* An upload that ends, or one that begins.
LEMMA UploadSet ==
  ASSUME AdmissionTypeOK, NEW r \in SizedRequests, NEW o \in {Admission!Idle} \cup Uploading,
         up' = [up EXCEPT ![r] = o]
  PROVE  /\ up' \in [SizedRequests -> {Admission!Idle} \cup Uploading]
         /\ up'[r] = o
         /\ \A q \in SizedRequests : q # r => up'[q] = up[q]
BY DEF AdmissionTypeOK

\* Each step, as far as the slots and the parsers go.
LEMMA ParsersStep ==
  ASSUME AdmissionTypeOK, ParsersInv, [Admission!Next]_(Admission!uvars)
  PROVE  ParsersInv' /\ slots' \in Nat
<1>1. slots \in Nat /\ IsFiniteSet(Parsing) /\ Cardinality(Parsing) \in Nat
  BY FS_CardinalityType DEF AdmissionTypeOK, ParsersInv
<1>2. ASSUME NEW r \in SizedRequests, Admission!TakeSlot(r)
      PROVE  ParsersInv' /\ slots' \in Nat
  <2>1. up[r].at = "queue" /\ slots > 0 /\ slots' = slots - 1 /\ Admission!Goto(r, "parser")
    BY <1>2 DEF Admission!TakeSlot, Admission!At
  <2>2. up'[r].at = "parser" /\ \A q \in SizedRequests : q # r => up'[q] = up[q]
    BY <2>1, UploadMoves
  <2>3. Parsing' = Parsing \cup {r} /\ r \notin Parsing
    BY <2>1, <2>2 DEF Parsing
  <2>4. IsFiniteSet(Parsing') /\ Cardinality(Parsing') = Cardinality(Parsing) + 1
    BY <1>1, <2>3, FS_AddElement
  <2> QED
    BY <1>1, <2>1, <2>4, SizesAssumption DEF ParsersInv
<1>3. ASSUME NEW r \in SizedRequests, Admission!Parsed(r) \/ Admission!Invalid(r)
      PROVE  ParsersInv' /\ slots' \in Nat
  <2>1. up[r].at = "parser" /\ slots' = slots + 1
    BY <1>3 DEF Admission!Parsed, Admission!Invalid, Admission!At
  <2>2. up'[r].at # "parser" /\ \A q \in SizedRequests : q # r => up'[q] = up[q]
    <3>1. CASE Admission!Parsed(r)
      BY <2>1, <3>1, UploadMoves DEF Admission!Parsed
    <3>2. CASE Admission!Invalid(r)
      BY <3>2, UploadSet DEF Admission!Invalid, Admission!Idle
    <3> QED
      BY <1>3, <3>1, <3>2
  <2>3. Parsing' = Parsing \ {r} /\ r \in Parsing
    BY <2>1, <2>2 DEF Parsing
  <2>4. IsFiniteSet(Parsing') /\ Cardinality(Parsing') = Cardinality(Parsing) - 1
    BY <1>1, <2>3, FS_RemoveElement
  <2> QED
    BY <1>1, <2>1, <2>4, SizesAssumption DEF ParsersInv
<1>4. CASE UNCHANGED <<slots, Parsing>>
  BY <1>1, <1>4 DEF ParsersInv
<1>5. ASSUME NEW r \in SizedRequests, UNCHANGED slots, up[r].at # "parser", up'[r].at # "parser",
             \A q \in SizedRequests : q # r => up'[q] = up[q]
      PROVE  UNCHANGED <<slots, Parsing>>
  BY <1>5 DEF Parsing
<1>6. ASSUME NEW r \in SizedRequests,
             \/ \E u \in UploadUsers, c \in Sizes : Admission!Receive(r, u, c)
             \/ Admission!NoSlot(r) \/ Admission!Refuse(r) \/ Admission!Commit(r) \/ Admission!Fail(r)
      PROVE  UNCHANGED <<slots, Parsing>>
  <2>1. PICK o \in {Admission!Idle} \cup Uploading :
          o.at # "parser" /\ up' = [up EXCEPT ![r] = o]
    BY <1>6 DEF Admission!Receive, Admission!NoSlot, Admission!Refuse, Admission!Commit,
                Admission!Fail, Admission!Leave, Admission!Idle, Uploading
  <2>2. UNCHANGED slots /\ up[r].at # "parser"
    BY <1>6 DEF Admission!Receive, Admission!NoSlot, Admission!Refuse, Admission!Commit,
                Admission!Fail, Admission!At
  <2> QED
    BY <1>5, <2>1, <2>2, UploadSet
<1>7. ASSUME NEW r \in SizedRequests, Admission!Lock(r) \/ Admission!Store(r)
      PROVE  UNCHANGED <<slots, Parsing>>
  <2>1. UNCHANGED slots /\ up[r].at \in {"valid", "admission"}
    BY <1>7 DEF Admission!Lock, Admission!Store, Admission!At
  <2>2. up'[r].at # "parser" /\ \A q \in SizedRequests : q # r => up'[q] = up[q]
    BY <1>7, <2>1, UploadMoves DEF Admission!Lock, Admission!Store
  <2> QED
    BY <1>5, <2>1, <2>2
<1>8. CASE UNCHANGED <<slots, up>>
  BY <1>4, <1>8 DEF Parsing
<1> QED
  BY <1>2, <1>3, <1>4, <1>6, <1>7, <1>8 DEF Admission!Next, Admission!Delete, Admission!uvars

\* Only the upload with the lock has something to hold.
LEMMA HeldAlone ==
  ASSUME AdmissionHeld, NEW r \in SizedRequests, quotaLock \in {None, r}
  PROVE  \A q \in SizedRequests : q # r => up[q].at \notin {"admission", "stored"}
BY SizesAssumption DEF AdmissionHeld

\* Steps of an upload that has not got the lock.
LEMMA OutsideStorage ==
  ASSUME StorageInv, NEW r \in SizedRequests, slots' \in Nat,
         up' \in [SizedRequests -> {Admission!Idle} \cup Uploading],
         up'[r].at \notin {"admission", "stored"},
         \A q \in SizedRequests : q # r => up'[q] = up[q],
         UNCHANGED <<stored, originals, quotaLock>>
  PROVE  StorageInv'
<1>1. AdmissionTypeOK'
  BY DEF StorageInv, AdmissionTypeOK
<1>2. AdmissionHeld'
  BY DEF StorageInv, AdmissionHeld, Admission!Stored, QuotasHold, Admission!Total
<1>3. Admission!Free' = Admission!Free /\ QuotasHold(stored)' = QuotasHold(stored)
  BY DEF Admission!Free, QuotasHold, Admission!Total
<1> QED
  BY <1>1, <1>2, <1>3 DEF StorageInv

LEMMA StorageStep ==
  ASSUME StorageInv, slots' \in Nat, [Admission!Next]_(Admission!uvars)
  PROVE  StorageInv'
<1>1. AdmissionTypeOK /\ AdmissionHeld /\ QuotasHold(stored)
  BY DEF StorageInv
<1>2. ASSUME NEW r \in SizedRequests, NEW u \in UploadUsers, NEW c \in Sizes,
             Admission!Receive(r, u, c)
      PROVE  StorageInv'
  <2> DEFINE o == [at |-> "queue", user |-> u, content |-> c]
  <2>1. o \in Uploading /\ o.at \notin {"admission", "stored"}
    BY DEF Uploading
  <2>2. up' = [up EXCEPT ![r] = o] /\ UNCHANGED <<stored, originals, quotaLock>>
    BY <1>2 DEF Admission!Receive
  <2> HIDE DEF o
  <2> QED
    BY <1>1, <2>1, <2>2, UploadSet, OutsideStorage
<1>3. ASSUME NEW r \in SizedRequests, Admission!NoSlot(r) \/ Admission!Invalid(r)
      PROVE  StorageInv'
  <2>1. up' = [up EXCEPT ![r] = Admission!Idle] /\ UNCHANGED <<stored, originals, quotaLock>>
    BY <1>3 DEF Admission!NoSlot, Admission!Invalid
  <2>2. Admission!Idle.at \notin {"admission", "stored"}
    BY DEF Admission!Idle
  <2> QED
    BY <1>1, <2>1, <2>2, UploadSet, OutsideStorage
<1>4. ASSUME NEW r \in SizedRequests, Admission!TakeSlot(r) \/ Admission!Parsed(r)
      PROVE  StorageInv'
  <2>1. /\ up[r].at # "idle" /\ UNCHANGED <<stored, originals, quotaLock>>
        /\ Admission!Goto(r, "parser") \/ Admission!Goto(r, "valid")
    BY <1>4 DEF Admission!TakeSlot, Admission!Parsed, Admission!At
  <2> QED
    BY <1>1, <2>1, UploadMoves, OutsideStorage
<1>5. ASSUME NEW r \in SizedRequests, Admission!Lock(r)
      PROVE  StorageInv'
  <2>1. /\ up[r].at # "idle" /\ Admission!Goto(r, "admission") /\ quotaLock = None /\ quotaLock' = r
        /\ UNCHANGED <<slots, stored, originals>>
    BY <1>5 DEF Admission!Lock, Admission!At, Admission!AdmissionFree
  <2>2. /\ up' \in [SizedRequests -> {Admission!Idle} \cup Uploading]
        /\ up'[r].at = "admission" /\ \A q \in SizedRequests : q # r => up'[q] = up[q]
    BY <1>1, <2>1, UploadMoves
  <2>3. AdmissionTypeOK'
    BY <1>1, <2>1, <2>2 DEF AdmissionTypeOK
  <2>4. AdmissionHeld'
    BY <1>1, <2>1, <2>2, HeldAlone DEF AdmissionHeld
  <2>5. Admission!Free' = Admission!Free /\ QuotasHold(stored)'
    BY <1>1, <2>1 DEF Admission!Free, QuotasHold, Admission!Total
  <2> QED
    BY <2>1, <2>3, <2>4, <2>5 DEF StorageInv
<1>6. ASSUME NEW r \in SizedRequests, Admission!Store(r)
      PROVE  StorageInv'
  <2>1. /\ up[r].at = "admission" /\ Admission!Goto(r, "stored") /\ UNCHANGED <<slots, stored, quotaLock>>
        /\ originals' = originals \cup {up[r].content}
        /\ Admission!Stored(r) \in stored \/ Admission!Fits(up[r].user, up[r].content)
    BY <1>6 DEF Admission!Store, Admission!At
  <2>2. /\ up' \in [SizedRequests -> {Admission!Idle} \cup Uploading]
        /\ up'[r].at = "stored" /\ up'[r].user = up[r].user /\ up'[r].content = up[r].content
        /\ up[r].user \in UploadUsers /\ up[r].content \in Sizes
        /\ \A q \in SizedRequests : q # r => up'[q] = up[q]
    BY <1>1, <2>1, UploadMoves
  <2>3. PICK u \in UploadUsers, c \in Sizes : u = up[r].user /\ c = up[r].content
    BY <2>2
  <2>4. Admission!Stored(r)' = <<u, c>> /\ Admission!Stored(r) = <<u, c>>
    BY <2>2, <2>3 DEF Admission!Stored
  <2>5. /\ stored \in SUBSET SizedRows /\ IsFiniteSet(stored)
        /\ originals \subseteq Sizes /\ IsFiniteSet(originals)
    BY <1>1 DEF AdmissionTypeOK
  <2>6. QuotasHold(stored \cup {<<u, c>>}) /\ Admission!Free' >= MinFree
    <3>1. Admission!Free \in Int /\ Admission!Free' \in {Admission!Free, Admission!Free - c} /\ c \in Nat
      BY <2>1, <2>3, <2>5, FreeWithOne, SizesAssumption
    <3>2. CASE <<u, c>> \in stored
      <4>1. stored \cup {<<u, c>>} = stored /\ originals' = originals
        BY <2>1, <2>3, <3>2 DEF StorageInv
      <4>2. Admission!Free' = Admission!Free
        BY <4>1 DEF Admission!Free
      <4> QED
        BY <1>1, <4>1, <4>2 DEF StorageInv
    <3>3. CASE Admission!Fits(u, c)
      <4>1. /\ Admission!Total({row \in stored : row[1] = u}) + c <= UserQuota
            /\ Admission!Total(stored) + c <= GlobalQuota
            /\ Admission!Free >= c + MinFree
        BY <3>3 DEF Admission!Fits, Admission!RowsOf
      <4>2. QuotasHold(stored \cup {<<u, c>>})
        BY <1>1, <2>5, <4>1, QuotasWithOne
      <4> QED
        BY <3>1, <4>1, <4>2, SizesAssumption
    <3> QED
      BY <2>1, <2>3, <2>4, <3>2, <3>3
  <2>7. AdmissionTypeOK'
    BY <1>1, <2>1, <2>2, FS_AddElement DEF AdmissionTypeOK
  <2>8. quotaLock = r
    BY <1>1, <2>1 DEF AdmissionHeld
  <2>9. QuotasHold(stored \cup {Admission!Stored(r)})' /\ QuotasHold(stored)'
    BY <1>1, <2>1, <2>4, <2>6 DEF QuotasHold, Admission!Total
  <2>10. AdmissionHeld'
    BY <1>1, <2>1, <2>2, <2>8, <2>9, HeldAlone DEF AdmissionHeld
  <2> QED
    BY <2>1, <2>6, <2>7, <2>9, <2>10 DEF StorageInv
<1>7. ASSUME NEW r \in SizedRequests, up[r].at \in {"admission", "stored"}, Admission!Leave(r)
      PROVE  /\ up' \in [SizedRequests -> {Admission!Idle} \cup Uploading]
             /\ AdmissionHeld'
  <2>1. /\ up' \in [SizedRequests -> {Admission!Idle} \cup Uploading]
        /\ up'[r] = Admission!Idle /\ \A q \in SizedRequests : q # r => up'[q] = up[q]
    BY <1>1, <1>7, UploadSet DEF Admission!Leave
  <2>2. \A q \in SizedRequests : up'[q].at \notin {"admission", "stored"}
    <3>1. quotaLock = r
      BY <1>1, <1>7 DEF AdmissionHeld
    <3>2. \A q \in SizedRequests : q # r => up[q].at \notin {"admission", "stored"}
      BY <1>1, <3>1, HeldAlone
    <3>3. Admission!Idle.at = "idle"
      BY DEF Admission!Idle
    <3> QED
      BY <2>1, <3>2, <3>3
  <2> QED
    BY <2>1, <2>2 DEF AdmissionHeld
<1>8. ASSUME NEW r \in SizedRequests, Admission!Refuse(r) \/ Admission!Fail(r)
      PROVE  StorageInv'
  <2>1. /\ up[r].at \in {"admission", "stored"} /\ Admission!Leave(r)
        /\ UNCHANGED <<slots, stored, originals>>
    BY <1>8 DEF Admission!Refuse, Admission!Fail, Admission!At
  <2>2. AdmissionTypeOK' /\ AdmissionHeld'
    BY <1>1, <1>7, <2>1 DEF AdmissionTypeOK
  <2>3. Admission!Free' = Admission!Free /\ QuotasHold(stored)'
    BY <1>1, <2>1 DEF Admission!Free, QuotasHold, Admission!Total
  <2> QED
    BY <2>1, <2>2, <2>3 DEF StorageInv
<1>9. ASSUME NEW r \in SizedRequests, Admission!Commit(r)
      PROVE  StorageInv'
  <2>1. /\ up[r].at = "stored" /\ Admission!Leave(r) /\ UNCHANGED <<slots, originals>>
        /\ stored' = stored \cup {Admission!Stored(r)}
    BY <1>9 DEF Admission!Commit, Admission!At
  <2>2. up[r] \in Uploading
    BY <1>1, <2>1 DEF AdmissionTypeOK, Admission!Idle
  <2>3. PICK x \in SizedRows : x = Admission!Stored(r) /\ x[2] = up[r].content
    <3>1. Admission!Stored(r) \in SizedRows /\ Admission!Stored(r)[2] = up[r].content
      BY <2>2 DEF Uploading, Admission!Stored, SizedRows
    <3> QED
      BY <3>1
  <2>4. x[2] \in originals /\ QuotasHold(stored \cup {x})
    BY <1>1, <2>1, <2>3 DEF AdmissionHeld
  <2>5. AdmissionTypeOK' /\ AdmissionHeld'
    BY <1>1, <1>7, <2>1, <2>3, FS_AddElement DEF AdmissionTypeOK
  <2>6. Admission!Free' = Admission!Free /\ QuotasHold(stored)'
    BY <2>1, <2>3, <2>4 DEF Admission!Free, QuotasHold, Admission!Total
  <2> QED
    BY <2>1, <2>3, <2>4, <2>5, <2>6 DEF StorageInv
<1>10. ASSUME NEW row \in stored, Admission!Delete(row)
       PROVE  StorageInv'
  <2>1. stored' = stored \ {row} /\ UNCHANGED <<slots, originals, quotaLock, up>>
    BY <1>10 DEF Admission!Delete
  <2>2. stored \in SUBSET SizedRows /\ IsFiniteSet(stored)
    BY <1>1 DEF AdmissionTypeOK
  <2>3. AdmissionTypeOK'
    BY <1>1, <2>1, FS_Subset DEF AdmissionTypeOK
  <2>4. QuotasHold(stored \ {row})
    BY <1>1, <2>2, QuotasOfPart
  <2>5. AdmissionHeld'
    <3> SUFFICES ASSUME NEW r \in SizedRequests, up[r].at = "stored"
                 PROVE  QuotasHold(stored \cup {Admission!Stored(r)})'
      BY <1>1, <2>1 DEF AdmissionHeld
    <3>1. up[r] \in Uploading
      BY <1>1 DEF AdmissionTypeOK, Admission!Idle
    <3>2. PICK x \in SizedRows : x = Admission!Stored(r)
      BY <3>1 DEF Uploading, Admission!Stored, SizedRows
    <3>3. /\ stored \cup {x} \in SUBSET SizedRows /\ IsFiniteSet(stored \cup {x})
          /\ (stored \ {row}) \cup {x} \in SUBSET (stored \cup {x})
          /\ QuotasHold(stored \cup {x})
      BY <1>1, <2>2, <3>2, FS_AddElement DEF AdmissionHeld
    <3>4. QuotasHold((stored \ {row}) \cup {x})
      BY <3>3, QuotasOfPart
    <3>5. Admission!Stored(r)' = x
      BY <2>1, <3>2 DEF Admission!Stored
    <3> QED
      BY <2>1, <3>4, <3>5 DEF QuotasHold, Admission!Total
  <2>6. Admission!Free' = Admission!Free /\ QuotasHold(stored)'
    BY <2>1, <2>4 DEF Admission!Free, QuotasHold, Admission!Total
  <2> QED
    BY <2>1, <2>3, <2>5, <2>6 DEF StorageInv
<1>11. CASE UNCHANGED Admission!uvars
  BY <1>11 DEF Admission!uvars, StorageInv, AdmissionTypeOK, AdmissionHeld, QuotasHold,
               Admission!Total, Admission!Free, Admission!Stored
<1> QED
  BY <1>2, <1>3, <1>4, <1>5, <1>6, <1>8, <1>9, <1>10, <1>11 DEF Admission!Next

LEMMA AdmissionInit == ASSUME Admission!Init PROVE ParsersInv /\ StorageInv
<1>1. /\ slots = Slots /\ stored = {} /\ originals = {}
      /\ up = [r \in SizedRequests |-> Admission!Idle]
  BY DEF Admission!Init
<1>2. Parsing = {} /\ AdmissionHeld
  BY <1>1 DEF Parsing, AdmissionHeld, Admission!Idle
<1>3. IsFiniteSet({}) /\ Cardinality({}) = 0
  BY FS_EmptySet
<1>4. ParsersInv
  BY <1>1, <1>2, <1>3, SizesAssumption DEF ParsersInv
<1>5. AdmissionTypeOK
  BY <1>1, <1>3, SizesAssumption DEF AdmissionTypeOK
<1>6. \A f : SumFunctionOnSet(f, {}) = 0
  BY SumEmpty
<1>7. Admission!Total({}) = 0
  BY <1>3, <1>6, TotalIsSum
<1>8. QuotasHold(stored)
  <2>1. \A u : {row \in stored : row[1] = u} = {}
    BY <1>1
  <2> QED
    BY <1>1, <1>7, <2>1, SizesAssumption DEF QuotasHold
<1>9. Admission!Free >= MinFree
  <2> DEFINE f == [c \in {} |-> c]
  <2>1. DOMAIN f = {}
    OBVIOUS
  <2>2. Admission!Free = Disk - Admission!SumFunction(f)
    BY <1>1 DEF Admission!Free
  <2> HIDE DEF f
  <2>3. Admission!SumFunction(f) = 0
    BY <1>6, <2>1, AdmissionLibrary
  <2> QED
    BY <2>2, <2>3, SizesAssumption
<1> QED
  BY <1>1, <1>2, <1>4, <1>5, <1>8, <1>9 DEF StorageInv

\* What the uploads know while they are admitted, and the parsers they use.
THEOREM AdmissionInvariant == Admission!Spec => [](ParsersInv /\ StorageInv)
<1>1. Admission!Init => ParsersInv /\ StorageInv
  BY AdmissionInit
<1>2. ParsersInv /\ StorageInv /\ [Admission!Next]_(Admission!uvars) => (ParsersInv /\ StorageInv)'
  BY ParsersStep, StorageStep DEF StorageInv
<1> QED
  BY <1>1, <1>2, PTL DEF Admission!Spec

\* Every upload gives its slot back, for any number of uploads at the same time
\* (validate_document_content).
THEOREM EverySlotReturned == Admission!Spec => []SlotsReturned
<1>1. ParsersInv => SlotsReturned
  BY AdmissionLibrary DEF ParsersInv, Parsing, SlotsReturned, Admission!SlotsReturned, Admission!At
<1> QED
  BY <1>1, AdmissionInvariant, PTL

\* However many uploads of however many users are admitted at the same time, the
\* documents stay within the quotas, and the originals leave the reserve of the
\* disk (enforce_storage_admission).
THEOREM QuotasKept == Admission!Spec => []WithinQuotas
<1>1. StorageInv => WithinQuotas
  BY DEF StorageInv, QuotasHold, WithinQuotas, Admission!WithinQuotas, Admission!RowsOf
<1> QED
  BY <1>1, AdmissionInvariant, PTL
============================================================================
