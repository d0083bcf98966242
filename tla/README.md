# Verification of the document service

The repository holds a document-processing service: a FastAPI application
(`src/Python/app`) that stores uploaded documents, runs an extraction and
analysis pipeline over each one in the background, and serves the results; a
React client that polls it (`src/React`); and the CloudFormation templates that
deploy both (`src/infra`).  This directory holds TLA+ modules that model the
parts of it where ordering, concurrency and failure matter, the TLC
configurations that check them on small instances, and proofs of what holds
for every instance.

All paths below are relative to the repository root, with `app/` short for
`src/Python/app/`.

## 1. The system

| Component | State it keeps | Operations | Modelled in |
|---|---|---|---|
| documents table (`app/repositories/document.py`, `app/models/document.py`) | `documents`, `document_extractions`, `document_events` rows | create, get_by_checksum, claim_for_processing, mark_completed, mark_failed, reset_to_pending, upsert_extraction, add_event, list_stuck_processing; list_documents | `DocumentRow`, `Reports` |
| document requests (`app/api/v1/endpoints/documents.py`, `app/services/document_service.py`, `app/api/deps.py`) | none beyond the request's database session | upload, reprocess, delete; list, ask and the other read-only endpoints | `DocumentPipeline`, `DocumentReports` |
| processing pipeline (`app/services/document_processor.py`) | the locals of each run | claim, fetch, extract, analyse, persist, fail; the startup sweep | `DocumentPipeline`; the stages in `DocumentEngines` and `DocumentReports` |
| background task runner (`app/services/task_runner.py`) | semaphore, task set, `_closing` | submit, drain, reopen | `DocumentPipeline` |
| application lifespan and sessions (`app/main.py`, `app/core/database.py`) | the phase of the process; a session per request or `session_scope` | startup housekeeping, serving, drain, crash; commit and rollback | `DocumentPipeline`, `RefreshSessions` |
| blob storage (`app/services/storage.py`) | files under keys | save, load, delete | `DocumentPipeline` (as atomic calls) |
| document lifecycle (`app/models/document.py:46-65`, `document_processor.py:59-81`) | – | the transitions that the status field promises | `DocumentLifecycle` (abstract) |
| analysis and extraction engines (`app/services/ai/registry.py`, `textract.py`, `local_text.py`, `base.py`) | cached engine instances, OCR jobs, staged files | resolve, extract (upload, start, poll until a deadline, page, clean up), analyse, fall back | `EngineRegistry`, `DocumentEngines` |
| analysis contract and rule engine (`app/services/ai/analysis_contract.py`, `heuristic.py`, both adapters) | none | truncation, repair, validation, caps, scoring, summary, confidence, answers | `AnalysisContract`, `RuleEngine` |
| authentication sessions (`app/services/auth_service.py`, `app/repositories/refresh_token.py`) | `refresh_tokens` rows | register, login, rotate, reuse detection, logout, password change, pruning | `RefreshSessions` |
| user administration (`app/repositories/user.py`, `app/api/v1/endpoints/users.py`) | `users` rows | first administrator, role, deactivate, delete, profile | `RefreshSessions` |
| runtime settings (`app/services/settings_service.py`, `app/api/v1/endpoints/admin_settings.py`) | one row of `app_settings` | get, validate and set the analysis engine | `DocumentEngines` |
| dashboard and analytics (`app/repositories/analytics.py`, `dashboard.py` and their endpoints) | none (queries) | totals, shares, percentiles, buckets, series, windows | `Reports`, `DocumentReports` |
| web client (`src/React/src/hooks/useApi.js`, `pages/*.jsx`, `context/AuthContext.jsx`) | component state, timers | poll, abort, retry | not modelled (section 7) |
| health, configuration, logging, middleware; mock server; deployment | – | – | not modelled (section 7) |

**How they interact.**  A request handler runs in the event loop of one API
process (a *replica*).  Upload stores the blob, inserts the row and its first
event in one transaction, commits, and only then calls `schedule_processing`,
which hands a task to the in-process runner.  The task waits for a permit of
the runner's semaphore, claims the row with a conditional UPDATE, fetches the
blob, extracts and analyses under `asyncio.timeout`, and writes the result.
Reprocess resets a settled row to PENDING and submits another task; delete
removes the row and the blob.  Nothing but the database and the storage is
shared between replicas, and the queue of submitted tasks is in memory only.
When a process starts it sweeps rows that are PROCESSING for longer than
`PROCESSING_TIMEOUT_SECONDS`; when it stops it drains its tasks for a grace
period and cancels the rest.  ECS replaces tasks with
`MaximumPercent: 200, MinimumHealthyPercent: 100`
(`src/infra/cloudformation/30-services.yaml`), so replicas overlap in every
deploy.

Every request but login and registration carries an access token; the account is
read from `users` each time, so a deactivation takes effect at once.  What keeps
a client signed in is a refresh token, whose row in `refresh_tokens` is exchanged
for a new one, revoked, pruned at a start, or deleted with its account.  An
administrator's choice of the analysis engine is a row of `app_settings`, which
every replica reads when it claims a document and resolves against the API keys
it is configured with.  The analytics and dashboard pages are queries on the
documents table and share nothing with the pipeline but its rows.

**What is hard.**  State read in one transaction and written in the next
(duplicate check and insert, status check and reset, sweep select and update);
UPDATEs by id that take no notice of the status; columns that the unit of work
leaves out because the *loaded* value did not differ; transactions that fail
outside the pipeline's try block; the blob that is not part of any transaction;
work that exists only in memory when a process stops; a sweep that cannot tell a
dead run from a slow one; sessions that are opened or continued while they are
being ended; administrators who edit each other; a selection that is validated on
one replica and used on another; an answer of a model that must be repaired, not
discarded; threads that outlive the await that started them; figures whose groups,
windows and joins must add up.  PROJECT.json lists each of these hazards with its
line and the properties aimed at it.

**What makes each part correct.**

* documents: no duplicate content, legal transitions, columns that agree with
  the status, an event trail that agrees with the row, a result that belongs to
  the run that completed the document;
* pipeline: one run per document at a time, one run per request for it, every
  accepted document settles, a failure is always recorded;
* storage: a document has its file;
* replicas: a stop loses no more than the runs in memory, and the sweep finds
  what a stop left behind;
* sessions: a token is spent once and a spent one is recognised, a sign-out ends
  every session of the account, an installation keeps an administrator and makes
  only one by itself;
* engines: a document finishes on the engine chosen at its claim or, with a
  warning, on the rules; an outage costs quality and not the document; the pipeline
  ends whatever an engine does, and nothing stays in the staging bucket;
* analysis: whatever a model answers is repaired to something valid; the rules fail
  only on the one value they forget to cut, and never claim the confidence of a model;
* figures: the panels of one window agree with each other and with the stat cards,
  no document is counted twice or not at all, and paging loses none that keeps its
  place in the list.

## 2. The modules

| Module | What it is |
|---|---|
| `DocumentRow` | a row of the table and the repository's statements as operators on rows |
| `DocumentPipeline` | the state machine: requests, runs, replicas over the shared table and storage; its properties and fairness |
| `DocumentLifecycle` | the abstract specification of a document's life |
| `RefreshSessions` | the state machine of accounts and refresh tokens: requests of users and administrators, starts of replicas |
| `EngineRegistry` | which engine reads and which one analyses a document, as functions of the configuration |
| `DocumentEngines` | the state machine of one document between claim and result: OCR job, analyser, fallback, timeouts, and the administrators' selection |
| `AnalysisContract` | truncation, repair and validation of what a model answers |
| `RuleEngine` | the built-in analyser on abstract texts |
| `Reports` | the figures of analytics, dashboard and document list as operators on the table |
| `DocumentReports` | the state machine that composes the last three: documents are uploaded, analysed, run again and deleted while a client pages through the list |
| `DocumentPipelineMC`, `RefreshSessionsMC`, `DocumentEnginesMC`, `DocumentReportsMC` | the instances for TLC: symmetry, views, fleets of configurations, sample texts and answers |
| `DocumentPipelineProofs` | theorems about the table, with proofs checked by TLAPS |
| `DocumentSerialProofs` | theorems about the claim, and the refinement |
| `DocumentCalmProofs` | theorems about queued work and files, without stops and faults |
| `DocumentEnginesProofs` | theorems about engines, selection and staging |
| `AnalysisProofs` | theorems about what is made of any text and any answer, with lemmas about sums, extremes and finite sets |
| `DocumentReportsProofs` | theorems about figures, stored analyses and paging |
| `RefreshSessionsProofs` | theorems about accounts and sessions under every interleaving |
| `RefreshSerialProofs` | theorems about tokens, administrators and the first account, where requests of one kind do not overlap |

`DocumentPipeline`, `DocumentEngines` and `DocumentReports` are three views of the
same documents.  The first has every interleaving of runs, requests and replicas
and leaves the stages opaque; the second follows one claim through its stages; the
third has the data a run leaves behind.  They meet at the claim (`ClaimWon`,
`Claim`), at the outcome of the stages (`StageDone`, `StageFails` and `Timeout`;
`completed` and `failed`) and at what `Persist` writes (`Persisted`).

### State and code

`DocumentPipeline`:


| Variable | In the code |
|---|---|
| `row[d]` | the row of the document that upload `d` creates, with its extraction and event trail |
| `blobs` | the keys for which `storage.load` finds a file |
| `pc[r]`, `target[r]`, `host[r]` | where request `r` stands in its handler and then in its task; `document_id`; the process it runs in |
| `content[u]` | the (owner, checksum) of the bytes that upload `u` carries |
| `seen[r]` | the ORM instance that `get_owned_document` loaded for a reprocess |
| `code[r]` | the error code that an `except` branch of `process_document` passes to `_fail` |
| `due` | the runs whose claim is older than `PROCESSING_TIMEOUT_SECONDS` |
| `phase[p]`, `stuck[p]` | where `lifespan` of `app/main.py` stands; the rows the sweep selected |

In `DocumentPipeline` a run is named after the request that submits it, and a document after the
upload that creates it; so `processing_started_at` and the extraction can be
identified by the run that wrote them, and an exclusive claim becomes a
statement about names.

`RefreshSessions`:

| Variable | In the code |
|---|---|
| `users[u]`, `tokens[t]` | the rows of `users` and `refresh_tokens`; a token's `parent` is the one it was exchanged for |
| `registered`, `issued` | the last ids given out |
| `expired` | the clock: how many tokens are past `expires_at`, in the order of issue |
| `pc[h]`, `call[h]` | where the request of handler `h` stands, and the locals it read |
| `selfMade`, `voided`, `overtaken`, `escaped` | history: administrators by virtue of an empty table; what a sign-out was to end; who was about to issue a token then, and what they issued |

`DocumentEngines`:

| Variable | In the code |
|---|---|
| `config[p]` | the settings of replica `p` that the registry reads |
| `setting`, `put[a]`, `puts` | the `analysis_provider` row; the request of administrator `a` between load and commit; how many there were |
| `pc[d]`, `job[d]` | where `process_document` stands; `_Job` and the locals of the stages |
| `elapsed[d]` | ticks since the claim |
| `uploads`, `staged`, `orphaned` | threads in `put_object`; objects in the staging bucket; history of the cleanups that something prevented |
| `faults` | crashes and failed deletes so far |

`DocumentReports`:

| Variable | In the code |
|---|---|
| `docs` | the rows of `documents` with their extraction, by id |
| `now`, `nextId`, `runs` | the clock, the next id, the claims so far |
| `client` | the list a client walks through and what it has seen |

### Grain of atomicity

One action is one database transaction, one storage call or one step of the
event loop between two awaits.  A handler of several transactions is several
actions, and so are the select and the update of the sweep.  Where a check
and the write that relies on it are two statements of one transaction, they are
two actions: under READ COMMITTED other transactions commit between them.  The
actions and the handlers correspond as follows.

| Handler | Actions |
|---|---|
| `POST /documents` | `UploadDuplicate` or `UploadNew`, `StoreBlob` or `StoreFails`, `InsertRow`, `Submit` |
| `POST /documents/{id}/reprocess` | `RejectReprocess`, or `LoadForReprocess`, `Requeue`, `Submit` |
| `DELETE /documents/{id}` | `LoadForDelete`, `DeleteBlob` or `DeleteBlobFails`, `CommitDelete` |
| `task_runner.submit`, `process_document` | `Acquire`, `ClaimWon` or `ClaimLost`, `StageDone` (three times), `StageFails`, `FetchFails`, `Timeout`, `Persist`, `RecordFailure` |
| `lifespan`, `drain`, `recover_stuck_documents` | `Start`, `SweepRead`, `SweepWrite`, `HousekeepingFails`, `BeginDrain`, `FinishDrain`, `Crash` |
| rollback in `get_db`, `session_scope` | `TransactionFails` |
| the clock | `Tick` |
| `POST /auth/register` | `Register`, `CountUsers`, `CreateUser` |
| `POST /auth/login` | `Authenticate`, `IssueForLogin` |
| `POST /auth/refresh` | `PresentForRefresh`, `CheckOwner`, `Rotate`; `PresentSpent`, `CommitSignOut` |
| `POST /auth/logout` | `PresentForLogout`, `Logout`; `PresentForLogoutAll`, `CommitSignOut` |
| `DELETE /users/me/sessions`, change password | `RevokeMySessions`, `VerifyPasswords`; `CommitSignOut` |
| `PATCH /users/me` | `UpdateMe`, `CheckEmail`, `UpdateProfile` |
| `PATCH /users/{id}`, `DELETE /users/{id}` | `Authorise`, then `LoadForEdit`, `EditUser`, or `LoadForDelete`, `DeleteUser` |
| `bootstrap_first_admin`, `delete_expired` | `Start`, `Housekeep` |
| any request that ends without an effect | `Abandon` |
| `PUT /settings/ai` | `LoadSetting`, `CommitSetting` |
| `_extract`, `TextractExtractor` | `RefuseFile`, `BeginReading`, `ReadText`, `ReadFails`; `BeginUpload`, `UploadDone`, `UploadFails`, `StartJob`, `JobSucceeds`, `LastPage`, `OcrFails`, `Cleanup`, `CleanupFails` |
| `_analyse` | `NoAnalyzer`, `CallAnalyzer`, `AnalysisSucceeds`, `ProviderFails`, `QuotaExhausted`, `AnalyzerBreaks`, `FallBack` |
| what a run stores | `AnalysedByModel`, `ModelDiscarded`, `ModelCrashes`, `AnalysedByRules`, `Fail` |
| `GET /documents` | `OpenList`, `NextPage` |

### What is abstracted, and why it may be

* **Database.**  Statements of one transaction take effect together at its
  commit.  A delete is only flushed before the blob goes, so no other session
  sees it until `CommitDelete`.  Foreign keys are enforced (MySQL and
  PostgreSQL, the databases of the deployment), so the extraction or event of a
  deleted document breaks its transaction; SQLite, the default of the
  development setup, does not enforce them unless asked to, and there a late
  `Persist` or `SweepWrite` would leave child rows without a parent.
* **Storage.**  Replicas share it, as they do with the S3 backend; save, load
  and delete are atomic and may fail.
* **Stages.**  What extraction and analysis compute is not modelled here; a
  stage succeeds, fails or runs into the timeout.  `StageFails` at the fetch
  happens exactly when the file is gone, and `FetchFails` is a storage that fails
  to deliver a file that is there.
* **Error codes.**  The codes that the branches of `process_document` take from
  an `AppError`, and `internal_error`, are one value, `app_error`.
* **Time.**  A run becomes `due` at any moment after its claim.  Ticks of
  different runs are not ordered by the age of their claims, which allows more
  behaviours than a clock does; no property relies on their order.
* **Events.**  Of the trail we keep the last event and two counters, the run
  starts and the requeue requests.
* **Drain.**  uvicorn waits for the responses in flight before it shuts the
  lifespan down, hence `BeginDrain` waits until no handler is at work.  Tasks
  that are cancelled at the end of the grace period leave their rows unchanged:
  the `CancelledError` branch of `process_document` only logs and re-raises.
* **Ownership.**  A request that names a document of another owner, or none,
  gets 404 and changes nothing; it is not an action.
* **Credentials.**  Passwords, signatures and access tokens are left out of
  `RefreshSessions`: a caller is any account, and a client may present any refresh
  token it was ever given.  `decode_token` refuses expired tokens, which is why the
  `is_expired` branch of the row is not a case of its own.  Every replica may be
  configured with another first administrator, or with none; its password is
  taken to be valid.
* **Engines.**  An engine is asked and answers, fails in one of the ways its
  adapter tells apart, or never answers.  One document is followed; documents
  share nothing between claim and result but the selection, which they read.
* **Texts.**  A text is what its patterns find in it (see `RuleEngine`); a length
  is a number, a confidence a number of ten-thousandths.  Of the entities and fields
  of an analysis, `AnalysisContract` keeps how many there are, the longest text, key
  and value, and the most extreme confidence: these are what the caps of
  `DocumentAnalysis` and its items bear on.  `MaxFloat` stands for the largest float.
  Two reads of one file may give different readings, which is more than happens.
* **Crashes.**  The error that ends a run unexpectedly is recorded as
  `internal_error` and nothing more; the field `crash` of a row adds, as history, for
  which text and in which engine it was raised.
* **The list.**  All four sort columns of `list_documents`, both directions, and the
  filters on owner and status.  The filters on document type, name and address are
  left out: like the filter on the status they decide which rows match, and a row may
  come to match or cease to when a run ends.  A filename is its place in the collation.
  `updated_at` is stamped by every UPDATE with the clock of the replica, at most
  `Skew` ticks before the commit shows it.
* **Figures.**  All figures of a request are computed from one state of the table.
  MySQL's REPEATABLE READ gives a request that snapshot; under PostgreSQL's default
  and in SQLite each query of a panel sees its own moment, and figures that this
  project shows to add up may then miss a document that changed in between.
  Averages, sizes, languages, the activity feed and the wording of labels and
  relative times are left out.

## 3. The runs

Deadlock checking is off where the system legitimately stops, because no client
sends anything more and the bounded uploads and faults are used up: in all runs but
`sessions` and `redeem`, where requests may always come.

| Run | Instance | States | What it shows |
|---|---|---|---|
| `serial` | 1 replica, 2 uploads, 2 reprocesses, 1 delete, 2 contents, 2 permits, 1 stop | 323 k | With reprocess requests for one document not racing: `ClaimHeld`, `ExclusivePipeline`, `ColumnsMatchStatus`, and the refinement of `DocumentLifecycle`, across a crash or a drain, the restart and its sweep |
| `overlap` | 2 replicas, 1 upload, 2 racing reprocesses, 1 delete, 2 stops, 1 fault | 944 k | What survives even when live replicas sweep each other's rows: `TypeOK`, `TrailExplainsStatus`, `EveryRunWasRequested`, `SweepSeesProcessing`, `SettledRowIsReadable` |
| `calm` | 1 replica, 2 uploads of the same content, 2 racing reprocesses, 1 delete, 1 permit, no stops, no faults, fair | 98 k | Nothing accepted is lost: `OneRowPerContent`, `NoOrphanedWork`, `FileBehindEveryRow`, `Settles` |
| `sessions` | 2 requests at a time, 2 accounts, 3 tokens (4 rows in all), 1 expiry, starts with any first administrator or none | 234 k | Under every interleaving: `TypeOK`, `OneAccountPerEmail`, `EverySessionHasOwner`, `SignOutIsComplete`, `InactiveHasNoSession`; with clients that present a token in one request at a time: `SingleUse`, `SpentTokenIsRemembered`; with administrators who act one at a time: `AdminRemains`; with a first account that has no rival: `OneSelfMadeAdmin` |
| `engines` | 2 replicas in 6 uniform configurations or mixed, 2 administrators with 3 selections, 1 document of any type, timeout after 2 ticks, 1 fault, fair | 379 k | `TypeOK`, `FinishesOnItsEngine`, `OutageKeepsTheDocument`, `OfferedEnginesRun`, `AuditNamesTheWriter`, `StagingIsTemporary`, `OwnDeadlineNeverDecides`, `EveryJobEnds` |
| `reports` | 2 documents of 2 owners, 2 runs, 3 texts, 3 answers of a model, 3 instants at the turn of a year, windows of 1 tick, months of 2, a list by `updated_at` and one by `created_at` with a filter, pages of 1 | 155 k | `TypeOK`, `OnlyTruncationDiscards`, `CrashesAreExplained`, `PanelsAgree`, `PercentilesBracket`, `RulesNeverOutrank`, `DashboardsAgree`, `SeriesIsComplete`, `PagingIsComplete`, `AnswersAreGrounded` |
| `redeem` | 2 requests that may present one token | – | refutes `SingleUse` |
| `quota` | 1 replica, 1 document | – | refutes `QuotaKeepsTheDocument` |
| `race` | 1 replica, 2 racing reprocesses | – | refutes `ExclusivePipeline` |
| `escape` | 1 failed transaction | – | refutes `NothingEscapesWhileProcessing` |
| `unlink` | 1 failed transaction, 1 delete | – | refutes `FileBehindEveryRow` |
| `restart` | 1 stop, fair | – | refutes `InterruptedIsReclaimed` |

**Why the bounds are enough.**  Every hazard listed involves one document and at
most three actors on it: the run that works on it, a request (or second run)
that interferes, and a sweep.  `overlap` gives one document all of these at
once - an upload's run, two reprocesses, a delete, two replicas of which each
may stop and sweep.  `serial` and `calm` need two documents only where documents
interact, through the unique constraint, the sweep's single transaction and the
semaphore.  Two reprocess requests are the fewest that can race, and with the
upload they allow three runs of one document.  `MaxStops` and `MaxFaults` bound
failures; one stop suffices for a restart with its sweep, and a second one
in `overlap` lets the sweeping replica stop as well.

The races of `sessions` are between two requests, of which one is in the middle
(two rows of `Issuing`, `Admin` or `Setup` at once); three tokens make a chain of
two rotations or a rotation beside a login, and two accounts are what one
administrator and one address can quarrel about.  `MaxRows` drops only the
instance with two accounts *and* three tokens.  `Serial` lists the kinds of request
that do not overlap their own kind; the four unconditional properties concern
kinds that are never serialised against each other (a login against a sign-out, a
rotation against a password change, an edit against a rotation).  In `engines` the
timeout of two ticks lets polling begin at, or after, the start of the stage; three
selections let one be loaded, overtaken by a second and followed by a third.  The
texts of `reports` are one that exceeds every cap the rules observe, one that has a
number inside a longer match and a total with a label, and one that is nothing but a
total a character longer than a field may be; the answers of a model are one within
the schema, in percent and without a confidence, one that keeps to no bound, and one
with a number that no float can hold.  Two documents make a window and a percentile
boundary; months of two ticks and three instants put the turn of a year between two of
them, and `StartMonth` is a December.  Of the columns of
the list `updated_at` is the one that moves documents and `created_at` the default;
filenames and sizes never change and differ from `created_at` in nothing the property
could tell.  A page per document cuts the list everywhere, and with two documents one
may stay while the other joins, leaves or moves.  Stamps that lag behind their commit
(`Skew`) and longer lists are left to the theorem.

**Symmetry and view.**  The safety runs take requests of a kind, replicas and
contents as interchangeable; no action or property tells them apart.  The view
leaves out the locals of requests that have ended and of handlers past their
last use, which nothing reads.  `calm` and `restart` check temporal properties
and use neither.  `sessions` takes handlers and addresses as interchangeable and its
view keeps what an action or a property reads of a revoked token and of the
history; `reports` takes owners as interchangeable, and its view keeps of a walk that
has ended only whether it was complete, which nothing that follows can change;
`engines` uses neither.

**Fairness** (`Fairness` in `DocumentPipeline`).  Weak fairness of each handler
and each task: the event loop keeps scheduling them and each await ends.  Weak
fairness of `Tick`: time passes, which makes the stages end at the latest by the
timeout.  Weak fairness of `Acquire`, enough because asyncio's semaphore is FIFO
and permits come free.  Weak fairness of the startup steps: the orchestrator
restarts a replica that is down.  Requests, stops and faults are never forced.
In `DocumentEngines` time passes, a timeout that is due fires (`asyncio.timeout`
needs only the event loop) and a cleanup answers or fails; nothing is assumed of
engines, uploads and polls, which may take forever.  `RefreshSessions` and
`DocumentReports` state no liveness: nothing there has to happen.

**Mutants.**  Each property of a passing run is broken by one of the
`Name_Variant` operators that stand beside the definitions they vary:

| Variant | The mistake | Breaks |
|---|---|---|
| `Requeueable_Processing` | reprocess accepts a running document | `ClaimHeld`, `ExclusivePipeline` |
| `ResetToPending_KeepsFinished` | the reset forgets `processing_finished_at` | `ColumnsMatchStatus` |
| `UpsertExtraction_FirstWins` | insert-if-missing in place of upsert | `ImplementsLifecycle` |
| `Interrupt_OddCode` | the sweep records a code no one knows | `TypeOK` |
| `Interrupt_NoEvent` | the sweep leaves out its event | `TrailExplainsStatus` |
| `Interrupt_Requeues` | the sweep requeues in place of failing | `EveryRunWasRequested` |
| `ClaimForProcessing_Unstamped` | the claim does not set `processing_started_at` | `SweepSeesProcessing` |
| `MarkCompleted_KeepsError` | completing keeps the error columns | `SettledRowIsReadable` |
| `InsertRow_NoConstraint` | no unique constraint | `OneRowPerContent` |
| `Requeue_NotScheduled` | reprocess commits and does not submit | `NoOrphanedWork` |
| `UploadNew_RowFirst` | the row is inserted before the blob is saved | `FileBehindEveryRow` |
| `RecordFailure_NotMarked` | `_fail` does not mark the row | `Settles` |
| `RoleForNew_Unset` | later accounts get no role | `TypeOK` |
| `InsertUser_Unchecked` | no unique index on the email | `OneAccountPerEmail` |
| `IssueForLogin_NoForeignKey` | no foreign key from session to account | `EverySessionHasOwner` |
| `CommitSignOut_RolledBack` | the sign-out after a replay is rolled back with the 401 | `SignOutIsComplete` |
| `Authenticate_AnyAccount` | login does not ask whether the account is active | `InactiveHasNoSession` |
| `Rotate_IssueOnly` | a rotation does not revoke the old token | `SingleUse` |
| `PresentForLogout_Any` | logout revokes a revoked token again | `SpentTokenIsRemembered` |
| `LoadForEdit_AnyAccount` | administrators may edit themselves | `AdminRemains` |
| `Start_Always` | the bootstrap does not count the accounts | `OneSelfMadeAdmin` |
| `CallAnalyzer_Unchecked` | the call does not check that there is an engine | `TypeOK` |
| `AnalyzerOf_Current` | the analyser follows the selection of the moment, not of the claim | `FinishesOnItsEngine` |
| `Fallback_AutoOnly` | an engine chosen explicitly has no fallback | `OutageKeepsTheDocument` |
| `Offered_All` | engines without a key are offered | `OfferedEnginesRun` |
| `LoadSetting_ByOnce` | only the first administrator is recorded | `AuditNamesTheWriter` |
| `Timeout_Abrupt` | the timeout skips the cleanup | `StagingIsTemporary` |
| `DeadlinePassed_Half` | the poll gives up after half the timeout | `OwnDeadlineNeverDecides` |
| `TimeoutDue_ReadingOnly` | the timeout covers the extraction only | `EveryJobEnds` |
| `MergeExtractorFields_Uncapped` | detected pairs are added without a cap | `TypeOK` |
| `ClampConfidence_Open` | a confidence above one is left | `OnlyTruncationDiscards` |
| `FindEntities_Uncut` | more entities than the schema admits | `CrashesAreExplained` |
| `ByType_Inner` | an inner join on the extraction | `PanelsAgree` |
| `Offset_NearestRank` | the offset is the rank | `PercentilesBracket` |
| `OverallConfidence_Uncapped` | the rules' confidence has no ceiling | `RulesNeverOutrank` |
| `WindowMetrics_Closed` | a window includes its end | `DashboardsAgree` |
| `FirstMonth_Late` | the series begins a month late | `SeriesIsComplete` |
| `ListOrders_NoTieBreak` | no tie break in the order of the list | `PagingIsComplete` |
| `CoerceAnswer_Trusting` | a blank answer counts as found | `AnswersAreGrounded` |

## 4. Where the code and its comments disagree

1. **Two pipelines on one document** (run `race`).  The guard of
   `reprocess_document` reads the row as it was loaded; `reset_to_pending` writes
   by id.  A second reprocess that loaded the settled row before the first one
   committed resets the row while the first run is PROCESSING, and its own claim
   then succeeds.  `claim_for_processing` says that two workers "cannot both start
   the (billable) AI pipeline".  `EveryRunWasRequested` is what remains true:
   no document is run more often than it was asked for.
2. **An exception does leave `process_document`** (run `escape`).  `_persist` is
   outside the try block, and so is `_claim`; the docstring says "Never raises".
3. **A row whose file is gone** (run `unlink`).  The row goes first only in the
   session; the blob is removed before the commit, and a commit that fails brings
   the row back.
4. **A row that polls forever** (run `restart`).  The sweep runs only at startup
   and only selects rows older than the timeout; a replica that is back sooner
   leaves its interrupted rows PROCESSING, and reprocess refuses them.
5. **A token redeemed twice** (run `redeem`).  Two requests that present one
   refresh token, from two tabs or a retry, both read its row as live before either
   commits; each is given a token of its own and neither is taken for a replay.
   `rotate_tokens` says "A refresh token is single-use".  `SingleUse` and
   `SpentTokenIsRemembered` hold of clients that wait for the answer.
6. **An exhausted quota loses the document** (run `quota`).  The adapters report it
   as `RateLimitedError`, which is no `AIProviderError`, so `_analyse` does not fall
   back although `get_analyzer_with_fallback` names "an exhausted quota" as what the
   fallback is for.

These six are refuted by a run each.  The following have none of their own; the models
contain each of them, and a property says how far it goes.

* **An amount that the rules do not cut.**  `_find_fields` cuts the values of labels to
  the 2048 characters a field may have (`heuristic.py:438`), and not those of amounts
  (`heuristic.py:458`), whose pattern takes any number of digits.  The schema refuses
  the field, nothing stands in for the rules, and the document ends in
  `internal_error`, although the rules are called "a floor on quality"
  (`heuristic.py:30`).  `CrashesAreExplained` and `RulesAreValid` show that this is the
  only cap the rules miss.
* **A number that is not repaired.**  `clamp_confidence` says "Never raises"
  (`analysis_contract.py:206`); `float` raises `OverflowError` for an integer that no
  float can hold.  The repair is outside the try block of both adapters, so the rules
  do not stand in (`Raises`, `ModelCrashes`).
* **A queue that is not reclaimed.**  `task_runner.py:26` says that the startup sweep
  "returns abandoned documents to `FAILED` so they can be retried".  It does so with
  PROCESSING rows; a document that was waiting for its turn when the replica stopped
  stays PENDING, nothing submits it again, and reprocess refuses it.  This is why
  `NoOrphanedWork` and `Settles` are stated without stops.
* **Two founders.**  The first account becomes administrator and "every subsequent
  account is a regular `user`" (`endpoints/auth.py:38`); two registrations on an empty
  installation both count no users (`auth_service.py:52`).  `OneSelfMadeAdmin` assumes
  that the first account has no rival.
* **An audit column of someone else.**  `updated_by_id` is "who changed it last"
  (`app_setting.py:40`), but the upsert writes only what differs from the row as it was
  loaded: two overlapping changes may leave the value of one administrator under the
  name of the other.  `AuditNamesTheWriter` is what remains true.
* **A list that moves.**  The tie-break is there "so paging is stable"
  (`repositories/document.py:146`).  A list by `updated_at` moves a document with every
  change of its status, so that a walk may miss or repeat one that was there all the
  time; `PagingIsComplete` says when.

Smaller ones: twenty warnings of a model on a truncated text discard its analysis,
because the adapter adds one after the cut (`claude_analyzer.py:135`;
`OnlyTruncationDiscards` shows it is the only such case); `_merge_extractor_fields`
may reach 101 fields (it looks at the cap after adding one; the type `Extraction` of
`DocumentReports` has the 101); `_percentile` calls itself nearest-rank and takes the
rank above where `n * p` is a whole number (`analytics.py:337`); `ask_document` uses
the analyser of the environment and not the administrator's selection
(`document_service.py:208`).

And a limit the comments do not mention: a request that has read a token, or verified
a password, before a sign-out commits still issues a session after it - the exception
in `SignOutIsComplete` and `InactiveHasNoSession`.

## 5. What is proved

All theorems hold for all finite or infinite sets of uploads, requests, replicas,
contents, handlers and addresses and for all bounds.  Every invariant of a passing
run is stated by one of them.

### Documents

`DocumentPipelineProofs`, whatever clients and replicas do:

| Theorem | States |
|---|---|
| `TypeCorrect` | `Spec => []TypeOK` |
| `RunsAreRequested` | `Spec => []EveryRunWasRequested` |
| `TrailIsRight` | `Spec => []TrailExplainsStatus` |
| `SweepMissesNone` | `Spec => []SweepSeesProcessing` |
| `SettledIsReadable` | `Spec => []SettledRowIsReadable` |
| `Deduplicated` | `Spec => []OneRowPerContent` |

`DocumentSerialProofs`, under `Serial` - at most one replica, and no two
reprocess requests that have both loaded one document:

| Theorem | States |
|---|---|
| `ClaimIsHeld` | `Spec => []ClaimHeld` |
| `ClaimIsExclusive` | `Spec => []ExclusivePipeline` |
| `ColumnsMatch` | `Spec => []ColumnsMatchStatus` |
| `PipelineImplementsLifecycle` | `Spec => ImplementsLifecycle`: the refinement of `DocumentLifecycle` |

**Assumptions.**  `NoneIsNull` (SQL NULL is no content and no run),
`RequestKinds` (the kinds of request are disjoint and NULL is no replica) and
`Bounds` (the numeric constants are numbers).  `Serial` is assumed by the second
module only.  It is a restriction on the environment that the code does not
enforce: run `race` refutes `ExclusivePipeline` without its first half, and
with overlapping replicas a sweep may take a row from a live run that is past
its timeout.  Crashes, drains, restarts, faults, deletes and racing uploads
are unrestricted in both modules.

**Argument for the table.**  Type lemmas say that each statement of the
repository maps rows to rows.  `RowChanges` then reduces a step of the whole
system to the table: it inserts one row that the unique constraint accepted, or
applies to each row at most one `Statement`.  The four invariants of single
rows are the conjuncts of `ColumnsOK`, which every statement preserves.  The
inductive invariant `TableInv` adds two things to it: the types, and
`FailureHasCode` - a run on its way to `_fail` knows its error code - without
which a FAILED row might have no error.  `Deduplicated` follows because no
statement changes a content, and an insert has passed the constraint.

**Argument for the claim.**  `ClaimHeld` is not inductive: a reprocess that has
passed its status check could reset the row of a running pipeline, an insert
could overwrite it, a sweep could take it.  `ClaimInv` excludes these:
`LoadedIsCurrent` (what a reprocess loaded is still settled when it writes) with
`OneLoaded`; `NewIsUnknown` (nobody knows a document before its row is
inserted); `LiveIsServed` (whoever is at work runs on a replica that serves, so
a sweep, which happens before serving, meets nobody).  Each action is shown to be
of one of a few kinds - `Moves`, `Arrives`, `Writes`, `Deletes`, `Rests`, or a
replica's step - and each kind to preserve each conjunct.  The heart of it is
`Alone`: whoever writes a row is the only one at work on that document.

**Argument for the refinement.**  Under `ClaimInv` every change of a row is
`Legal` (`LegalWrites`), which is stronger than being a `Statement`: a row is
completed or failed only while PROCESSING and by its owner, and reset only when
it is settled and to what its loader saw.  A legal change is a `Transition` and
keeps `ColumnsAgree` (`LegalTransition`), and a transition is a step of the
lifecycle (`LifecycleWrite`).  `LifeInv` adds `AbsentIsEmpty` (a deleted row
holds nothing) and `SweptIsStuck` (what a sweep selected stays PROCESSING until
it is marked).

### Sessions

`RefreshSessionsProofs`, under every interleaving of requests, starts and failures:

| Theorem | States |
|---|---|
| `TypeCorrect` | `Spec => []TypeOK` |
| `EmailsAreUnique` | `Spec => []OneAccountPerEmail` |
| `SessionsAreOwned` | `Spec => []EverySessionHasOwner` |
| `SignOutsAreComplete` | `Spec => []SignOutIsComplete` |
| `InactiveAccountsAreOut` | `Spec => []InactiveHasNoSession` |

`RefreshSerialProofs`, each under the restriction it names:

| Theorem | States | Restriction |
|---|---|---|
| `TokensAreSingleUse` | `Spec => []SingleUse` | a token is presented in one request at a time |
| `SpentIsRemembered` | `Spec => []SpentTokenIsRemembered` | the same |
| `AnAdminRemains` | `Spec => []AdminRemains` | administrators act one at a time |
| `OnlyOneSelfMadeAdmin` | `Spec => []OneSelfMadeAdmin` | administrators act one at a time, and the first account has no rival |

**Assumptions.**  `NoneIsNull` (SQL NULL is no address, role, reason or Boolean),
`SessionBounds` and `FirstAdminIsAnEmail`.  The restrictions are membership in
`Serial`; the code enforces none of them: run `redeem` refutes `SingleUse` without
the first, and section 4 has what happens without the last.  The last theorem needs
its first half too: two administrators who delete each other leave an empty table, and
the installation begins anew.

**Argument.**  `Kinds` sorts the steps: a handler `Reads` - it goes on with what it
found, described by `Opens`, or ends without an effect - or it `Writes`, in one of
nine ways whose effect on the tables is a lemma each (`Inserted`, `Issued`,
`Rotations`, `Revokes`, `Edits`, ...).  Each invariant then has one lemma for reads,
one or several for writes.  `TypeInv` adds `LocalsOK`: what the locals of a request
are at each point of its handler.  `TableInv` adds `FreshIds`, for ids are given out
in order and so a new token has no history, and `Held`: the row of a token that was
read is that of the account that was read with it, or gone.  Neither sign-out
property is inductive, since a request under way may still issue a token; `EscapeOK`
says of these requests that whoever holds a void token, or works for an account that
is not active, was overtaken or holds a token that escaped, which is how its own
token escapes.  For single use, `OneHolder` and `NoSuccessor` say that who has read a live
token holds it alone and nothing was issued for it.  For the administrators, `Backed`
says that whoever edits or deletes an account leaves another administrator; for the
first account, `Empty` and `First` say that whoever is about to become administrator
by virtue of an empty table is alone and the table is empty.

### Documents without stops and faults

`DocumentCalmProofs`, assuming `MaxStops = 0` and `MaxFaults = 0`:

| Theorem | States |
|---|---|
| `NoWorkIsLost` | `Spec => []NoOrphanedWork` |
| `EveryRowHasItsFile` | `Spec => []FileBehindEveryRow` |

The assumption is what the properties are about: a stop loses the queue that is in
memory (section 4), and a commit that fails after the blob was removed leaves a
row without a file (run `unlink`).  Uploads of one content, reprocess requests and
deletes race as they like, on any number of replicas.

**Argument.**  Every step is one of one request on one document (`Works`), and is
described by what it does to the work that is waiting (`Carries`) and to the file
(`Files`).  `CalmInv` adds two parts to the properties.  `AddressInv`: every replica is
up, and a request under way has a replica and a document, an upload that of its own.
`FileInv`: the file is stored before the row is inserted, and a row, or a delete that
has loaded it, is there only after the insert - without this a delete could remove the
file of an upload that is about to insert its row.  A document without its file is then
one whose delete is between the removal and the commit, which cannot fail here.

### Engines

`DocumentEnginesProofs`, for every fleet of replicas (alike or configured
differently), any administrators and documents, every timeout and number of faults:

| Theorem | States |
|---|---|
| `EnginesTypeOK` | `Spec => []TypeOK` |
| `DocumentsFinishOnTheirEngine` | `Spec => []FinishesOnItsEngine` |
| `OutagesKeepTheDocument` | `Spec => []OutageKeepsTheDocument` |
| `OfferedEnginesAreThere` | `Spec => []OfferedEnginesRun` |
| `AuditNamesWriters` | `Spec => []AuditNamesTheWriter` |
| `StagedFilesAreTemporary` | `Spec => []StagingIsTemporary` |
| `PollDeadlineNeverDecides` | `Spec => []OwnDeadlineNeverDecides` |

**Assumptions.**  `EngineConstants`: a fleet assigns configurations to replicas, a choice
is a selection, the numeric constants are numbers, the timeout positive, and NULL is no
value of any other kind.

**Argument.**  `EngineInv` has one part per thing that moves.  `RowInv` and `PutInv`:
what an untorn row, or a PUT nobody overtook, holds was offered by some replica and
names its author.  `JobInv`: the engine that is called is the one that the selection
of the claim resolves to on the replica of the claim, and a fallback is only reached
from a model.  `TimeInv`: before the cleanup no more time has passed than the timeout
allows, which is why the later deadline of the OCR poll is never the first.
`EndInv`: a document fails or completes only with an outcome that its reader, its
analyser and the fallback allow.  `StagingInv`: an object is staged while its job is
before the end of its cleanup, and an upload thread runs while its job uploads or cleans
up, unless something in `orphaned` got between them.

### Reports

`AnalysisProofs`, for every text and every answer of a model:

| Theorem | States |
|---|---|
| `RulesAreValid` | what the rules make of a text is `Valid` exactly if it has no overlong amount (`Overlong`), and has a confidence of at most 78 percent |
| `AnswersRepaired` | an answer whose numbers a float can hold is repaired to something `Valid`, unless the text was truncated and the model gave twenty warnings |
| `AnswersHold` | an answer the rules find has one to three quotes, one of them about the question |

`DocumentReportsProofs`, for every set of texts, readings, answers and owners, every
window, month and page size:

| Theorem | States |
|---|---|
| `ReportsTypeOK` | `Spec => []TypeOK` |
| `OnlyTruncation` | `Spec => []OnlyTruncationDiscards` |
| `CrashesExplained` | `Spec => []CrashesAreExplained` |
| `WalksAreComplete` | `Spec => []PagingIsComplete` |
| `AnswersGrounded` | `Spec => []AnswersAreGrounded` |
| `RulesStayBelow` | `Spec => []RulesNeverOutrank` |
| `PanelsAddUp` | `Spec => []PanelsAgree` |
| `DashboardAgrees` | `Spec => []DashboardsAgree` |
| `SeriesComplete` | `Spec => []SeriesIsComplete` |
| `PercentilesHold` | `Spec => []PercentilesBracket` |

**Assumptions.**  `ReportConstants`: sizes and lengths are positive, owners are
finitely many, a series has 1 to 12 months (as the endpoint admits; the labels of more
would repeat), `MaxFloat` is a number, NULL is no number, owner or code, and
`internal_error` is not among the errors that end a run for another reason, so that
`CrashesAreExplained` speaks of unexpected exceptions alone.  `TextAndAnswers`: texts
are finite, a model answers within the schema of `analysis_schema` (`IsResponse`) -
any lengths and any numbers, those included that cannot be repaired - and a list is
by one of the sort columns.  `NoneIsNoRecord`: NULL is no row of
`document_extractions` and no cause of an error.

**Argument for what is stored.**  `RowOK` says of a row what its last run left: a
completed one has its extraction, a failed one an error of its own, and an
`internal_error` its cause; an extraction by the rules cost no tokens, has at most
their confidence and is of a text without an overlong amount; one whose model answer
was discarded was truncated with twenty warnings.  `RulesAreValid` and
`AnswersRepaired` are what makes each run keep it.  `OverallConfidence` is bounded part
by part, and the summary because `TopBy` takes at most as many sentences as it is asked
for, each of bounded length.

**Argument for paging.**  The property speaks of pages read in different states of the
table.  `WalkInv` relates them through the *rank* of a document, the number of
documents before it in the order of the list.  While no document left and none moved to
a later place, the ranks of those that stayed where they were only grow (`RankGrows`):
whoever was before them still is.  So what is still unseen of them lies past the pages
read.  While none joined and none moved, ranks only shrink, so what was seen lies
before the next page.  `OrderRanks` says that, because ids break ties whatever the
column, the database has one order to deliver, in which the i-th document has rank
i - 1; `PageRanks`, that a page is an interval of ranks.

**Argument for the figures.**  They are functions of the table, and all follow from
`TableInv`.  A group-by is a function from documents to keys; `Groups` says that the
cardinalities of its fibres add up to the documents grouped, `PanelAddsUp` applies it
to each panel.  The share of the busiest uploaders compares averages (`TopShare`).
For the series, months are counted from the year 0 and `MonthOf` maps the count to
year and month, so `NextMonth` adds one and twelve months in a row have twelve labels.
For percentiles a document's rank by time gives the sorted list that `Percentile`
chooses (`SortedExists`), and in a sorted list the documents below the i-th are among
its first i - 1 (`SortedSplits`); `OffsetFits` is the arithmetic of the offset.

**Sums and induction.**  The library's folds and induction theorems take operators as
parameters, which the provers cannot instantiate.  `NatInductionSet` and
`SubsetInduction` prove induction over numbers and finite subsets for a *set* in place
of a predicate.  With it `PartialsAgree` shows that a fold over a set adds up the same
whatever elements it chooses first, from which `TotalSplits`, `TotalAdds` and `Groups`
follow.  `Percentile` says "the rows ordered by time" with `CHOOSE` over `SetToSeqs`
and not with `SetToSortSeq`, whose definition (through `SortSeq` of module TLC) the
provers cannot expand.

### Only model-checked

Liveness: `Settles` and `EveryJobEnds`.  They rest on fairness and ENABLED, which are
outside the prover's reach.  And the six refutations of section 4, which are
counterexamples and need no proof.

## 6. Plan

What comes next, in this order:

1. **Proofs.**  Which of the serial theorems survive one stop at a time: `ClaimHeld`
   with overlapping replicas whose timeouts are longer than any run; the resolution
   of engines in `EngineRegistry` as theorems of its own.
2. **Client** (`PollingClient`): `useApi`'s aborts, the poll timer, navigation;
   composed with an abstract document that settles.
3. **Storage** (`LocalStorage`): write, rename, delete as file system steps with
   crashes, implementing the atomic save that `DocumentPipeline` assumes.

## 7. Not modelled

* Which substrings the patterns match, prompts, and how files are parsed: data,
  not control.  What is made of them is in `AnalysisContract` and `RuleEngine`.
* The sniffing of uploaded bytes and the endpoints that return one row as it is.
* The web client: its hazards (a poll timer that aborts its own request, a view that
  outlives its data) are about timers in one browser tab.  It matters here as the
  source of requests, which the modules allow in any order.
* The write-then-rename of the local storage, taken as atomic.
* Routing, middleware, logging, CORS, OpenAPI, health probes, parsing of settings:
  stateless, or state that no behaviour depends on.
* The React views as layout, and the offline mock server.
* CloudFormation, Dockerfiles and scripts: configuration; what they say about
  replicas and restarts is used above.
