# Formal model of the Personal Advisor

This directory holds TLA+ models of the program in this repository: a FastAPI
backend on PostgreSQL and Redis, an arq worker, a React front end and the
scripts that operate them. It holds the TLC configurations that check the
models on small instances and TLAPS proofs of the theorems that matter most.

Every definition translates code of the repository. `PROJECT.json` maps each one
to its lines ("map"), lists the components and what is left out of them, the
hazards of the code with the properties that guard them, the runs with a
deliberately broken variant of the code for every property ("mutants"), and the
theorems.

    tlc -workers 2 -config Ledger.cfg MCLedger
    tlapm LoanPaymentsProofs.tla

## 1. Inventory

### Components

| Component | State | Operations | Module |
|---|---|---|---|
| Document pipeline (`worker.py`, `documents/`) | `documents`, `document_texts`, originals on disk, arq job keys in Redis | upload, dispatcher every 30 s, OCR job with retries, deletion, suggestion to the inbox | `DocumentPipeline` |
| Upload admission (`validation.py`, `upload_limits.py`) | parser slots, quota sums, free disk space | size limits, validation in a subprocess, quotas | `UploadAdmission` |
| Accounts (`finance/entities.py`, `queries.py`, `transactions.py`, `ledger_validation.py`) | `accounts`, account postings | create, edit, close, delete; transfer | `AccountBook` |
| Exchange rates (`finance/nbp_rates.py`, `transactions.py`) | the rates NBP has published | look up, fall back over a weekend, book an exchange | `Exchange` |
| Categories (`finance/entities.py`, `budgets.py`) | `categories`, category postings, budgets | create, re-parent, retype, delete | `CategoryTree` |
| Budget status and summary (`finance/budgets.py`, `reporting.py`) | none of their own | sums over the tree and the postings | `Reports` |
| Loans (`finance/loans.py`, `transactions.py`) | installments, `loan_payment_links` | link, unlink, edit and delete installments and transfers | `LoanPayments` |
| Cash flow (`finance/cashflow.py`) | scheduled items, settings | forecast, match, confirm | `ScheduledItems` |
| Import from Actual (`scripts/migrate_actual.py`, `finance/actual_*.py`) | mappings and run records beside the ledger | parse, resolve, book, reconcile, replace, pin | `ActualExport`, `ActualImport` |
| Advisor (`advisor/`) | conversations, messages, `tool_executions`, audit events | message loop, confirm, deny | `AdvisorTools` |
| Inbox (`inbox/`) | `inbox_items` | create, edit, classify, convert, delete | `Inbox` |
| Work board (`work/`) | projects, tasks, time blocks | create, edit, complete, delete | `WorkBoard` |
| Identity, CSRF, rate limits, audit (`identity/`, `security/`, `audit/`, `database.py`) | session rows, the connection pool | log in, validate, log out, refuse, audit | `Sessions` |
| Front end: authentication (`authStore.ts`, `api.ts`, the pages that use them) | versioned calls, cookie, page | log in, log out, fetch the user, redirect | `AuthStore` |
| Operations (`ops/`) | Restic snapshots, restore staging | backup, restore drill | `BackupRestore` |
| Advisor tools and policies, migrations, release and host tooling, other pages | | | left out, see section 7 |

### How they interact

- Every request is one PostgreSQL transaction at READ COMMITTED, committed when
  the handler returns and rolled back on an error (`database.py`, `get_db`). All
  concurrency between requests is that of their statements: what one reads may
  be changed before it writes, unless a row lock or an advisory lock keeps the
  other out. The finance, inbox and work modules all have this shape.
- A request locks its session row (`identity/service.py:47`) until it ends, so
  two requests of one session do not overlap (`Sessions`; an upload is the
  exception, it commits early). The concurrent requests in the other models
  belong to different sessions: two browsers, or two logins.
- The API and the worker share the `documents` rows and Redis. A row is committed
  before its job is enqueued, and the row, not the job, is the durable record:
  the dispatcher enqueues what Redis has lost. A processed document makes one
  item of the inbox.
- The ledger, the loans, the scheduled items, the importer and the advisor's tools
  write the same transactions and postings; they meet in the account locks of
  `queries.lock_accounts` and in `FOR UPDATE` on transactions. The importer has
  an advisory lock of its own, and shares the accounts it books on like every other
  posting; a deletion waits for what an open import has booked (`ReplaceDelete`).
- The reports read a tree of categories that other requests rearrange: `Reports`
  extends `CategoryTree`.
- The advisor's tools call the other components' services inside the request's
  transaction, in a savepoint when the user has confirmed the call.
- The backup reads the database and the upload directory of the running
  application; it shares `.backup.lock` with uploads.

### What is hard, and what has to hold

The hazards are listed one by one in `PROJECT.json`. By component:

- Documents: a job delivered twice or not at all, a worker that dies inside its
  transaction, a retry that is charged early, two uploads of one content, slots
  and quotas shared by uploads of all users. Text and status agree, attempts stay
  in the budget, finished rows stay finished, no slot is lost, everything stored
  is processed at last.
- Ledger: checks before a lock, cascades, foreign keys that restrict or clear,
  two roundings. Currencies agree, nothing dangles, both legs stay, a booked
  exchange is within half a unit of its rate.
- Categories and reports: no cycle, and every posting and budget counted once.
- Loans: four kinds of rows locked one after the other. No installment is
  overpaid, linked rows are frozen, nobody waits in a circle.
- Cash flow: an occurrence is recognised by its amount and date alone. It is
  confirmed once, not counted twice, and listed while it is in its grace.
- Import: interrupted, repeated and concurrent runs over a ledger in use. Each
  operation once, a strict run whole or not at all, pinned and manual history kept.
- Advisor: a proposal is decided once, takes effect at most once, is audited.
- Inbox and board: read, decide, write without a lock. One conversion, completion
  and links that agree.
- Identity: rows locked for a whole request and a second connection taken while
  the first is held. Nothing is done after a logout, every request is answered,
  and in the browser the newest call decides.
- Operations: a snapshot of a system in use is complete; a drill publishes only
  what it has verified and cleans up.

## 2. Modules

A module models a transaction by its interleaved statements. What a transaction
has written but not committed is carried by the request's operation (`op`, or a
program counter), so that a rollback or a crash loses it. `Rollback`, `Fail` or
`GiveUp` stands for every refusal, error and disconnection.

| Module | Models | Abstract specification | Proofs |
|---|---|---|---|
| `DocumentPipeline` | upload, dispatcher, job, deletion, faults | `DocumentLifecycle` | `DocumentPipelineProofs` |
| `UploadAdmission` | size limits, slots, quotas, disk | | `DocumentPipelineProofs` |
| `AccountBook` | accounts and what is booked on them | | `AccountBookProofs` |
| `Exchange` | the rate of a day, the legs of an exchange | | `LedgerProofs` |
| `CategoryTree`, `Reports` | categories, what refers to them, and the sums over them | | `RecordsProofs` |
| `LoanPayments` | installments and payment links | | `LoanPaymentsProofs` |
| `ScheduledItems` | items, forecast, confirmation | | `LedgerProofs` |
| `ActualExport`, `ActualImport` | the parser and the importer | | `OperatorProofs` |
| `AdvisorTools` | messages, tool calls, decisions, audit | `ToolApproval` | `AdvisorProofs` |
| `Inbox` | items and their conversion | | `RecordsProofs` |
| `WorkBoard` | projects, tasks, time blocks | | `RecordsProofs` |
| `Sessions` | requests, session rows, connections, audit | | `AdvisorProofs` |
| `AuthStore` | the browser's side of signing in and out | | `AdvisorProofs` |
| `BackupRestore` | backup and restore drill | | `OperatorProofs` |

The `MC...` modules instantiate them for TLC. Several put modules that do not
share variables side by side in one run: the initial state chooses the part
(`part` or `scenario`), and only that part moves. `ActualSamples` has the rows,
exports and ledgers the importer is run on. The modules of proofs extend the `MC...`
modules, so that a theorem and a run speak of the same definitions.

**DocumentPipeline.** The committed row is `status`, `attempts`, `wait`
(`next_attempt_at` compared with now), `err`, `stale`, `key`; `text` and `inbox`
are the rows made from it. `queue` is the set of arq job keys and `leased` those
in progress: `enqueue_job` with a `_job_id` that exists does nothing, and
`keep_result = 0` removes the key with the job. `UploadAdmit` .. `UploadEnqueue`
follow `store_document` and the router, `DispatchSelect` .. `DispatchEnqueue` the
cron job, `JobClaimed` .. `JobFinished` the job. Faults (at most `MaxFaults`) are
a crash of the API or of a worker, an aborted job, a lost job, a failed enqueue
or pass, a damaged file. `Legacy` rows are those an earlier release could commit
as `processing`. `DocumentLifecycle` says what a reader of the documents list
relies on: accepted, waiting, then done with a text or in error, with a bounded
number of tries and one suggestion.

**UploadAdmission.** What precedes the row: the body is read up to its limit,
waits for a slot of the semaphore, is parsed (and the slot released, however the
parser ends), and is counted against quotas and the free space of the disk under
the advisory lock for all users. An original outlives its document and a failed
upload. That is why the disk has a bound of its own.

**AccountBook.** `booked` is the set of account legs (of transfers, scheduled
items and loans). `shared` and `holder` are the `FOR SHARE` and `FOR UPDATE`
locks of `lock_accounts`. The two checks of `delete_account` and its deletion are
separate steps, and `Restricted` is the foreign key that refuses.

**Exchange.** Amounts are minor units and a rate is a number of `1/Scale`, so both
roundings are exact: `HalfEven` into PLN, then into the foreign currency.
`Lookup` and `Fallback` follow `get_rate`: a weekday without a table has no rate,
a Saturday or Sunday takes the last one of the week before.

**CategoryTree, Reports.** `tree` is the advisory lock. The walk up the parents is
one step under the lock. A category is read before the lock is waited for, as the
code reads it. Deletion checks first and deletes later; budgets restrict,
postings are cleared (`ON DELETE SET NULL`). `Reports` adds no state: `Aggregated`
and `Tree` are the categories the totals of the budget status and the tree of
expenses run over, for the rows that are there.

**LoanPayments.** An operation is the list of rows it still has to lock (`todo`),
in the order of the code, then a check and a commit. Edits and deletions look for
links only after they have locked their rows.

**ScheduledItems.** A calendar of months of three days; one account, one category
and one type, since others never match. `Matched` is `_matching_actuals` with the
comparison of amounts, `Expected` and `Suggested` the forecast. An entry
remembers the occurrence it confirms only for the properties; the code does not
store it. The memory is dropped when the item is edited or the entry is moved
(`Loose`), see section 6.

**ActualExport, ActualImport.** `ActualExport` is the parser as a function: a row,
a pair of rows or a parent with its children becomes an operation (`SimpleOp`,
`TransferOp`, `SplitOp`), and the balances come from the rows themselves.
`ActualImport` is a run: lock, resolve accounts and categories through their
mappings or older provenance, write one operation at a time, reconcile, commit. An
operation is skipped by its record (`WriteSkips`), recorded when a transaction has
its marker (`WriteRecords`), or booked, or reported as an error (`WriteBooks`).
`db` is what is committed and `own[i]` what a run has added and deleted. `See(i)`
is what the run reads, in which postings have lost the accounts and categories that
it has deleted (`Without`, the foreign keys' `SET NULL`). The modes are plain,
strict, replacing (dump, look for manual references, delete, import) and pinned
(history that a manifest names must survive). The user posts, deletes and
rewrites in between, the export itself changes between runs, and any step fails.

**AdvisorTools.** A message is up to `MaxIterations` rounds in which the language
model, which may answer anything, calls tools; calls that change data become
proposals. `Replayed` is how `_history_messages` matches executions with calls.
`ToolApproval` is the promise to the user: proposed, then decided once, and in
effect exactly if approved and successful.

**Inbox, WorkBoard.** A request reads rows, and later writes the columns that
differ from what it read (`Written`), as the ORM does. Only `process_inbox_item`
locks. An update of an item may set it back to not processed and write any target
(`Edits`, the fields of `InboxItemUpdate`). `made`, `reopened`, `retargeted`, `moved`
and `mixed` are history for the properties: the tasks made of an item, how often a
user reopened it, the items whose target a user has written since, the tasks that
have changed their project, the rows on which an update met a newer one. What follows
from such an update is described in section 6, and the properties leave these
rows out. What the properties do claim is that everything else, creation,
cascades and the other updates, keeps the rows in agreement.

**Sessions.** A request takes a connection, locks its session row, works, is
audited on a second connection if it is a login, a logout or a refusal, and ends.
Waiting for a connection ends with a timeout; the audit is then lost and the
request goes on. `upload_document` gives everything back before it enqueues.

**AuthStore.** One tab. A call's version is its index in `calls`; answers come in
any order, or not at all, and set or delete the cookie when they arrive whatever
the store does with them. `live` is what the server accepts.

**BackupRestore.** The steps of `backup.sh` and of the drill, between any two of
which the application uploads, deletes, migrates and changes the ledger. Both
hold the operation lock. `createdb` and the flag that makes the database the drill's
own are two steps (`DrillStart`, `DrillOwns`), and the traps remove a database only
after the second (`Cleanup`). A drill may fail at any step (`DrillFails`), lose the
verification alone (`VerifyKilled`), or be interrupted (`DrillInterrupted`): that is a
SIGKILL or a power failure, a SIGTERM, and a removal that fails in a trap, after which
any part of what it restored may be left.

## 3. Runs

| Run | Instance | Shows |
|---|---|---|
| `doc_workers` | four scenarios. workers: 2 documents (1 legacy), 2 job slots, 1 upload, 2 attempts, 1 fault. uploads: 1 content, 2 upload requests, with 1 fault or (users) with 2 users. admission: 2 users, 2 uploads, files of 4 sizes, 1 slot | the claim protocol and the upload: `RetryWithinBudget`, `NoEarlyRetry`, `OneRowPerContent`, `OriginalStored`, `CommittedBeforeQueued`, the refinement of `DocumentLifecycle`; `SlotsReturned`, `WithinQuotas` |
| `progress` | documents: 2 documents, 2 slots, 1 upload, 1 fault. faults: 1 document of an earlier release, 2 slots, 2 faults. backlog: 2 of them in passes of 1. requests: 2 requests of one session, 2 connections. Fairness | `EventuallyProcessed`, `EveryRequestAnswered`; also `ClaimExcludes` |
| `ledger` | accounts: a transfer, a loan and 2 requests, on 3 accounts (1 imported) or, with an item as well, on 2. scheduled: 1 item, 3 entries, 2 requests, 5 days in 2 months. exchange: amounts up to 30, 20 manual rates, 2 rates on each of 5 days around a weekend | `PostingCurrencyMatches`, `BookedOnOpenAccounts`; `ConfirmedOnce`, `NotCountedTwice`; `ExchangeBooked` |
| `records_concurrent` | categories: 3 categories, a budget, 2 requests. board: 2 projects, a task, a block, 2 requests. inbox: 1 item, 3 requests, 1 reopening | `NoCycle`, `ReferencesKept`, `BudgetedOnce`; `LinksAgree`; `ConvertedOnce`, `TargetKept` |
| `loan_links` | 2 loans, 2 installments, 2 transfers, 2 links, 2 requests | `PaidWithinTotal`, `LinkedPaymentsValid`, `LinkedRowsFrozen`, `NoCircularWait` |
| `adv_decisions` | advisor: 3 calls, 3 requests, 3 rounds. browser: 4 overlapping calls, 2 sessions. sessions: 3 requests, 2 sessions, 2 connections | `AuditTellsDecisions`, `EveryCallAnswered`, the refinement of `ToolApproval`; `NewestDecides`, `NeverStuckLoading`; `NothingAfterLogout` |
| `operator_commands` | backup: 1 content and 2 revisions, or 2 contents and 1 revision. import: 3 ledgers, 2 importers, 2 runs, with 4 exports or with 2 exports and 1 edit. parsing: every consistent export of 12 rows | `SnapshotComplete`, `PublishedVerified`, `NothingLeft`; `ImportedOnce`, `StrictIsWhole`, `PinnedKept`, `ReplacedIsSaved`; `NothingLostInParsing` |
| `acc_delete_race` | 2 accounts, a transfer, 2 requests | finding: `LedgerBalanced` is violated |
| `cat_delete_race` | 2 categories, a posting, 2 requests | finding: `PostingHasTarget` is violated |
| `cat_type_race` | 2 categories, a posting, 2 requests | finding: `RolledUpOnce` is violated |
| `sched_month_end` | 1 item due on the last day of a month | finding: `ListedInGrace` is violated |
| `import_replace_race` | 1 importer, 1 edit of the user | finding: `ManualKept` is violated |

A type invariant is not model-checked where it is proved (section 5).

**Bounds.** Two concurrent requests are enough where a property relates two
transactions, since every lock is exclusive between two holders; the advisor and
the inbox have three, so that two decisions and a third writer overlap. One
reopening makes an item convertible a second time. Two
documents tell a batch of one from the backlog; two attempts make one retry and
one exhaustion; two faults lose a job and the worker that would have repaired it.
One slot and quotas of four and five units are passed by two files of three. Three
categories make a cycle that no single edit makes, and a budget within a budget
within a third category. Two amounts are enough for a sum to exceed a total. Five
days are the due day, its grace, a day after it and the next due day. Two imports
are a run and its repetition, or two at once, and one edit between the steps of
either is what a user does meanwhile; the exports differ by a row deleted,
moved and changed, and by a transfer of nothing. Four calls of a tab are a login, a
logout, a late answer and the one that decides. Two connections are exhausted by
two requests of which each wants a second one.

The bounds are the CONSTANTS of each `.cfg`; the models bound nothing else except
the migrations (`MaxRevision`), the calls of one answer (`MaxBatch`), the calls of
a tab (`MaxCalls`), the reopenings (`MaxReopen`) and the runs and edits of the
importer. Ids are not reused, so a system may come to rest with every id spent:
those runs have `CHECK_DEADLOCK FALSE`. Waiting in a circle is checked as
`NoCircularWait` instead. `operator_commands` checks deadlock: its steps at rest
are only those of an import after its last run.

**Fairness** is assumed in `progress` only. For documents: weak fairness of the
dispatcher (a cron job), of an upload that was admitted, of each step of a started
job (its calls and the job itself have timeouts) and of time; strong fairness of
the start of a job, since the worker polls the queue twice a second and the
dispatcher holds row locks for milliseconds twice a minute. No user action and no
fault is fair. `EventuallyProcessed` is stated for schedules in which uploads
cease: a user who uploads the same content again during every single pass of the
dispatcher could keep the job key busy exactly then. For requests: weak fairness
of each step the server takes for a request it has accepted, and strong fairness
of the lock of the session row, which PostgreSQL grants in the order in which it
was asked for. That a wait for a connection ends, and the audit with it, is the
timeout of the pool and not an assumption.

## 4. Findings

1. `acc_delete_race`: `delete_account` looks for postings, without a lock, and
   then deletes by ORM cascade whatever postings there are. A transfer that
   commits in between loses one leg and the ledger does not balance
   (`entities.py:58-74`; `ledger_validation.py:24` calls balance the invariant).
   The restore drill's ledger check would then fail on every later snapshot.
2. `cat_delete_race`: the same window in `delete_category`; the posting stays
   without account and category, which `ledger_validation.py:60` rules out.
3. `cat_type_race`: `update_category` reads the category before it waits for the
   tree lock (`entities.py:126`), and validates what it read. A category that is
   moved meanwhile can end up under a parent of the other type, and what is posted
   to it is in no node of the summary that is to be "rolling each posting up once"
   (`reporting.py:198`).
4. `sched_month_end`: on the first of a month the forecast forgets the
   occurrences of the last one, although the cash flow design gives them three
   days of grace (`cashflow.py:259`).
5. `import_replace_race`: a replacement looks for manual references to imported
   categories (`migrate_actual.py:203`) and deletes the categories later. A posting
   of the user's that commits in between loses its category, though "a replacement
   must not alter manually created data"
   (`docs/superpowers/specs/2026-08-14-actual-corrective-replacement-design.md:15`).

## 5. Proofs

The theorems hold for every value of the constants that the modules' ASSUMEs
allow: that bounds are numbers, and positive where the code divides by them or
starts with one; that names of different kinds differ; that the calls of a
conversation are finitely many; that sizes, quotas and the disk are numbers and the
reserve is not larger than the disk; that the ledgers an importer first finds have no
operation twice and no two accounts as one. Identifiers, rows, requests, exports,
amounts, rates and edits are as many as one likes.

| Module | Proved | Invariant behind it |
|---|---|---|
| `DocumentPipelineProofs`: pipeline | types, all safety and action properties of the runs, that text and status agree, that suggestions are made once, that finished rows stay so, the refinement of `DocumentLifecycle` | what a job knows of the row it has claimed, the dispatcher of its batch, an upload of its content under the admission lock; what a row that is not there looks like |
| admission | `SlotsReturned`, `WithinQuotas` | the free slots and the parsers at work make up the limit; the rows, with that of the upload that has the admission lock, are within every quota |
| `AccountBookProofs` | `TypeOK`, `PostingCurrencyMatches`, `NothingDangling`, `BookedOnOpenAccounts` | shared and exclusive locks exclude each other; an account that a request has validated and holds stays open and keeps its currency |
| `LedgerProofs`: cash flow | `ConfirmedOnce`, `NotCountedTwice` | what is booked for an occurrence still pays it (`BookedPays`): an entry that no longer would has been let go of; who confirms has the item locked and has found no payment of the occurrence (`CheckedPays`) |
| exchange | `ExchangeBooked` | the rate a request has looked up is the last one published up to its day; the arithmetic of `HalfEven`, that both roundings are off by at most a half |
| `RecordsProofs`: categories | `TypeOK`, `NoCycle`, `ReferencesKept`, `BudgetedOnce` | some set of categories contains the chosen parent, is closed under `parent` and does not contain the category that moves (`Outside`). Under the tree lock it survives the deletions, which only cut branches off |
| inbox | `ConvertedOnce`, `TargetKept` | a conversion has its item as it read it; an item that can be converted has been reopened as often as it became a task (`ReopenBudget`); `TargetKept` is inductive beside these |
| board | `CompletionKept`, `LinksAgree` | what a request has read of a task, a block and their projects is so still, or another request has changed it and the row is one of those the properties leave out, or is gone (`ValidatedHolds`) |
| `LoanPaymentsProofs` | `TypeOK`, `LinkedPaymentsValid`, `LinkedRowsFrozen`, `PaidWithinTotal`, `NoCircularWait` | which rows a request has locked at its step, and what it has checked of them; that what it is about to link still fits (`FitsStill`); for the deadlock, at which steps the holder of a lock of each kind can be |
| `AdvisorProofs`: advisor | `TypeOK`, `AuditTellsDecisions`, `EveryCallAnswered`, the refinement of `ToolApproval` | the calls of a message under way have no row yet and are nobody else's; a decision holds the row of its call, as it read it |
| sessions | the limit of the pool, `NothingAfterLogout` | a request that acts on a session has its row locked, alone, and the row is there |
| browser | `NeverStuckLoading`, `NewestDecides` | a call asks what its kind says; a login was not started from a page that was loading |
| `OperatorProofs`: backups | `TypeOK`, `SnapshotComplete`, `PublishedVerified`, `NothingLeft` | every row has its original at any time, a dump's rows are in any later archive, and a drill at each step has what its checks so far have established |
| imports | `ImportedOnce`, `StrictIsWhole`, `PinnedKept` | the holder of the import lock is alone in adding rows; what it sees has every operation once (`OnceInv`); what it has dealt with has a record, or the run has errors (`WholeInv`); its pins are in the ledger and under its locks (`PinInv`) |
| parsing | `NothingLostInParsing`, and `ParserIsExact` for every finite export | none: it is about one state |

Few of these properties are inductive: most hold because of what a process
knows inside its transaction, and the invariant states that knowledge. Every proof
has the same shape: initial states, one lemma or step per action, a stuttering step,
and one temporal theorem for each property.

**Sums and sizes.** The induction theorems of the library are about predicates,
which are operators. `DataTheorems` states what is needed of them with sets in the
place of predicates and functions in the place of what is summed: a non-empty set of
numbers has a least one (`LeastNatural`), a set of sets that contains the empty set
and is closed under adding an element contains every finite set (`SetInduction`), and
from these the sums over finite sets: one element more or less, equal terms, a part,
zeros, disjoint sets, sums of sums, renamed elements. `PaidWithinTotal`,
`WithinQuotas`, `SlotsReturned`, `BudgetedOnce` and the parser's balances rest on them.

**Why no operation is imported twice.** Only the holder of the advisory lock adds
rows, so what it sees changes only by its own steps and by users, who delete and
rewrite but never mark a transaction as imported. It books an operation only if what
it sees has neither a record nor a marker of it. A transaction whose marker a user has
rewritten, and whose record is gone, can be booked again, and the theorem leaves those
out. A replacement deletes before it has
the lock, but a deletion cannot make anything double. The mappings stay apart because every import,
a strict one or not, compares them before its commit (`Reconcile`), still under the
lock, whatever the recovery of old provenance has inferred.

**Why the parser is exact.** Take an account. Counted under other names, the rows
that are not children are the simple rows, both rows of every transfer, and the
parents of splits; dropped rows have an amount of zero. To each operation belong
the rows that made it, no row belongs to two, and an operation adds to the account
what its rows do (`OpAdds`). For a split this needs that its children make up its
amount and share its sign, for a transfer that its rows name each other and have
opposite signs: what `WellFormed` says of an export.

`NoCircularWait` is proved by the lock order. `Rank` says how far a request is: a
link that waits for its installment, one that waits for its transfer, one that
waits for the link it has found, an unlink that waits for its link, one that
waits for the installment of it, anything else. `OrderInv` says which locks a
request can have at which rank, so that whoever waits for a lock waits for a
request of a higher rank (`WaitsForFurther`), and in any set of requests the one
that is furthest waits for no other. The case that is not plain is an unlink that
waits for an installment. No link can hold that installment, for it would hold
the agreement of it, which the unlink holds: this is where locking the agreement
first, in both operations, is needed.

Proved, and not among the properties of a run: the types, what the first row of the
table says of texts, suggestions and finished rows, the limit of the pool, and
`CompletionKept`, that a task has its time of completion exactly if it is done, unless
two updates of it overlapped.

Only model-checked: liveness under fairness (`EventuallyProcessed`,
`EveryRequestAnswered`), which is out of the prover's reach, and `ReplacedIsSaved`. The
latter compares a dump with what is deleted several steps later, and what is brought
back after that, across every import and edit in between; an inductive invariant would
have to follow each key and each record through all of them, and we have none that is
true of every ledger. With two edits, or with three runs, it holds as in the run. The
properties of the runs that expect a violation are false, and so not proved.

## 6. What the code does not guarantee

Met while modelling, true of the code, and promised nowhere clearly enough to be
a finding; the models include these behaviours and their properties are stated
so as not to claim otherwise.

Finance:

- Two edits of a scheduled item, one of its currency and one of its account, can
  leave an item whose currency is not its account's (`cashflow.py:135-151`). The
  confirmation refuses it (`:370`).
- A category with a budget can become an income category, and a posting that was
  validated against the old type of its category can be committed after a change
  of it (`entities.py:142-152`).
- A confirmed occurrence can be confirmed again after the item's amount is edited
  or the booked entry is moved out of the window of grace: it is recognised by
  its amount and date only (`cashflow.py:267-274`). An entry that the user books by
  hand while a confirmation is under way, or moves into the window of grace then, pays
  the occurrence a second time (`:389`).

Import:

- A split whose parts do not add up to the whole is refused, except when a
  transfer that was booked earlier in the same run has made the category of
  exchange gains or losses: the difference is then booked on that category
  (`migrate_actual.py:801-826`, against its docstring at `:736`).
- A replacement deletes before it takes the advisory lock, where the design takes the
  lock first (`docs/superpowers/specs/2026-08-14-actual-corrective-replacement-design.md:73-75`);
  imports that begin meanwhile are kept apart by the rows only.
- A replacement leaves imported accounts and categories that nothing uses without
  a mapping, and makes new ones beside them. Every import that books a difference
  of exchange makes a new category for it (`:1404-1409`).
- A split with two parts of one amount in different categories makes every later
  import refuse: a leg that is booked is recognised by its amount, its currency
  and its direction, and of these there are two (`:525-533`).
- Deleting an imported transaction leaves its record, and later imports stop at
  it. A user who rewrites the description of a transaction of the first releases
  removes its marker: a run that is not strict books it again.

Inbox and board:

- Two overlapping updates of a task can leave one in progress with a time of
  completion, or a done one without it (`work/service.py:161`; `mixed`). A task
  that is moved leaves its blocks with the old project (`moved`), and one that is
  moved out of a project while that is being deleted is deleted with it.
- `classify_inbox_item` after a conversion overwrites `target_type` and
  `classified_by`. A `PATCH` may write any `target_id` (`inbox/schemas.py:15`), so a
  processed item need not name what was made of it. An item that was reopened and is processed as a reference keeps
  the id of its earlier task.

Identity:

- A logout whose answer arrives after a later login deletes the cookie of that
  login; a logout whose request is lost leaves the session valid on the server.
- The audit rows of a login and of a logout are committed before the request is,
  and remain if it then fails.
- An upload commits before it enqueues and needs a connection again: with the pool
  exhausted it answers with an error for a document that is stored and will be
  processed. Requests of its session are no longer excluded at that point.

Operations:

- A restore drill can leave its database or its files behind, which stop later drills
  until an operator removes them (`run-restore-drill.sh:34`, `:51`), although
  "ownership-aware cleanup removes only the exact `finanse_restore` database and restore
  output it created" after a failed verification
  (`docs/operations/backup-restore.md:135-136`): when it is killed; when it is stopped
  between `createdb` and the flag (`:51-52`); when a `dropdb` or `rm` of its trap fails,
  which `|| true` hides (`:41`, `:43`); when a SIGTERM reaches it while the last command
  had succeeded, since its EXIT trap then sees 0; and, of the staging directory, when
  only the verification is killed.
- The revision in a backup's manifest is read after the dump; a migration in
  between makes a snapshot that the drill refuses (`backup.sh:78`).

## 7. Not modelled

- The bodies of the advisor's tools (`advisor/tools/registry.py`): they read and
  write through the services above, and `AdvisorTools` has the outcomes such a
  call can have. The advisor's policies: nothing calls them.
- Migrations other than as revisions; release and host tooling, which are one-shot
  scripts; pages without state of their own; the balance line of the forecast, the
  financial summary and the reconciliation of an account, which are sums of what
  is read at once.
- Texts, names, layout and logging; what OCR and the language model answer (any
  answer is possible); the ZIP and SQLite reading of an export; the fixed-window
  counter of the rate limits, which is one atomic script, and the comparison of
  CSRF tokens.
- Three hazards of `PROJECT.json` have no property, in the cash flow
  (`cashflow.py:142` and `:274`) and on the board (`work/service.py:161`): the code does
  there what section 6 says.
- Statements of one step. A replacement's look at the ledger (`ReplaceCheck`,
  `migrate_actual.py:143-218`) is several reads under READ COMMITTED and one step here,
  so that a commit between two of them is not told from one before or after all.
  `ManualKept` is violated without it.

`PROJECT.json` gives the reason for each component that is left out or modelled in
part.

## 8. Plan

What would come next, in this order:

1. The forecast's balance line with the settings row, and the months that it and
   the reconciliation sum over.
2. The tools of the advisor as writers of `WorkBoard` and `AccountBook`, in the
   savepoint of a confirmation.
3. An inductive invariant for `ReplacedIsSaved`, and the reconciliation of a strict
   import with the balances `ParserIsExact` speaks of.
