# A TLA+ model of the OCR and AI backend

This directory holds TLA+ specifications of the program in `src/`, the TLC
configurations that check them on small instances, and proofs of theorems about
them for TLAPS. The program is an "AI SaaS" for document OCR: a FastAPI backend
(`backend/app`), ARQ workers that share its code, Postgres, Redis, a storage
volume, and a React client (`frontend`). What follows says which parts there
are, what is modelled and how it corresponds to the code, what every run shows,
and what is proved.

## 1. Inventory

Sources are below `src/backend/app/` unless they start with `frontend/`.

| component | state it keeps | operations | talks to |
| --- | --- | --- | --- |
| OCR jobs (`services/ocr_service.py`, `workers/ocr_jobs.py`, OCR repositories) | `ocr_jobs`, `ocr_results` rows; `run_ocr_job` messages | create + enqueue, run (mark running, extract, store, retry, fail), read results | Redis queue, storage, OCR engine |
| OCR reconciler (`services/ocr_reconcile_service.py`, `workers/reconcile_jobs.py`) | none of its own | cron scan: reset stale running rows, enqueue stale queued ones | `ocr_jobs`, Redis queue |
| Pipelines (`services/pipeline_service.py`, `workers/pipeline_jobs.py`) | `pipeline_runs` rows with a JSON list of stages | create + enqueue, run four stages with a commit between each two | inner OCR jobs, AI requests, provider |
| Authentication sessions (`services/auth_service.py`, refresh token repository) | `refresh_tokens` rows, denylist keys in Redis | login, refresh (rotation), reuse wipe, logout | Redis, web client |
| Rate limits (in the auth and AI services) | counters with expiry in Redis | check, bump | Redis |
| Erasure (`services/erasure_service.py`, `workers/erasure_jobs.py`) | `erasure_jobs` rows | request, run (delete files and rows, anonymize) | documents, tokens, audit, storage |
| Documents (`services/document_service.py`, storage adapters) | `documents` rows, stored objects | upload, soft delete, hard delete | storage |
| AI requests (`services/ai_service.py`, `adapters/llm_factory.py`) | `ai_requests`, `ai_usages` rows | chat, vision, fallback to a second provider | providers, rate limits, prompts |
| Prompts (`services/prompt_service.py`) | `ai_prompts` rows, one active version per name | create, new version, update, activate | AI, pipelines |
| RAG index (`services/rag_service.py`) | `document_chunks` rows | index (replace all), search, delete | OCR results, embeddings |
| Statistics (`services/stats_service.py`, `workers/stats_jobs.py`) | `stat_daily` rows, cached summary | rebuild of two days every ten minutes, series, summary | Redis cache |
| Organizations and users, administration, audit | plain rows | single-row reads and writes | - |
| Web client (`frontend/services/http.ts`, `frontend/hooks/usePolling.ts`, consoles) | access token in memory, polling loop | single-flight refresh, polling until a decided status | API |
| Vendor adapters, web plumbing | none | calls to outside services, configuration, error format | - |

How the parts interact: the API writes a row, commits, and only then enqueues a
message; a worker process takes messages from Redis (ARQ, `max_jobs = 10`, but
every handler runs its synchronous part to the end inside the event loop), reads
the row into a session that does not expire on commit, and commits several times
while it works; crons run in the same worker; the client polls rows through the
API. Postgres runs at READ COMMITTED, without row versions or explicit locks.

The behaviours that are hard here:

* a commit and an enqueue are two steps, and either process can die in between;
* a worker holds a copy of the row across commits of other processes, and writes
  back only the columns it changed;
* ARQ delivers at least once: after a crash, and to a second process when a
  handler outlives its in-progress key;
* the reconciler guesses from timestamps that a worker has died;
* transactions that overlap meet only at row locks and unique indexes: those of the
  prompts, the chunks and the daily statistics are what holds their rows together;
* an erasure removes rows under running jobs;
* Redis counters, denylist entries and the database are not updated together;
* the client's polling loop outlives the job it was started for.

`PROJECT.json` lists each of these under "hazards" with its line.

What makes each component correct:

* OCR: a created job is decided unless its document is erased; a succeeded job
  has results; results are published once; a decided status stays; no trace of an
  erased document comes back; attempts are bounded.
* Pipelines: a succeeded run has four succeeded stages whose references agree
  with its columns; a failed run names the stage that failed and keeps the ones
  before it; no provider call is repeated except after a crash; an undecided run has
  a message on its way.
* Sessions: a chain of rotations is whole; requests that do not overlap leave one
  live refresh token for each login at most; an answer that sets or clears the
  cookie is true; the alarm for a reused token has a cause.
* Limits: a window grants no more than the limit and the calls already under way, and
  every counter ends.
* AI requests: every answer that was paid for is booked once, on its provider.
* Erasure: what was there when it was asked for is gone when it has succeeded; a closed
  account stays closed; a file without a row, or a row without a file, has a cause; an
  active job is going to be decided.
* Prompts: from the first activation on exactly one active version per name.
* RAG: the chunks of a document are those of one indexing, and hold its whole text.
* Statistics: one point per metric, day and user, and the total is the sum of them.
* Client: while a job is undecided and shown, it is polled.

## 2. Plan

Most important behaviour first. All items but the last are done.

1. `OcrPromise` (what a client of an OCR job is promised) and `OcrJobs` (the
   machinery), the refinement between them, `OcrJobsProofs`.
2. `Pipeline`: the stages of a run, crashes, redelivery. Of its inner OCR jobs it
   has the creation, the run inside the pipeline's own worker and the reconciler's reset;
   what happens to a job from the reset on is the subject of `OcrJobs`.
3. `JobPolling`: the client's polling hook against jobs that change state.
4. `RefreshTokens`: rotation, reuse and logout under concurrent requests.
   `BrowserProofs` has the theorems about this module and about the client.
5. `Erasure`: erasure jobs with documents, stored objects, uploads and the writes to
   the user row.
6. `AiRequests` (quota, providers, fallback, rows), `Prompts` (versions and the active
   one), `RagIndex` (replacement of chunks, `chunk_text`) and `Stats` (rebuilds of a
   day).
7. Proofs of the safety properties of all of these: `PipelineProofs`, `ErasureProofs`,
   `AiRequestsProofs`, `PromptsProofs`, `RagIndexProofs`, `StatsProofs` and the rest of
   `OcrJobsProofs` and `BrowserProofs`, with the safety part of the refinement.
8. Next: what `Pipeline` keeps of `SucceededIsWhole` when runs outlast their in-progress
   key; `AttemptsAccounted` for several workers, with the duplicated runs in the bound.

Abstract specifications worth stating beside `OcrPromise`: a session as one chain
with one live end (for `RefreshTokens` without overlap), and a prompt as one variable
that holds its active version (for `Prompts`).

The set of runs is kept to a dozen. Disagreements between code and documentation that
have no run of their own any more keep their definition in the module, and section 6
tells how to see them.

## 3. The modules

Every definition that stands for code is listed with its lines under "map" in
`PROJECT.json`. Definitions with a remark such as "Mutant of ..." in
their comment are not part of a specification: they are the plausible mistakes
with which each property is shown to be sensitive to the code.

### OcrPromise, OcrJobs, MCOcrJobs, OcrJobsProofs

`OcrPromise` is what `GET /ocr/jobs/{id}` promises: a job is pending, is decided
once, its text appears together with the success and is never rewritten, and only
an erasure takes it away; a pending job is decided.

`OcrJobs` is the machinery. The correspondence:

| state | code |
| --- | --- |
| `row`, `results`, `docs` | `ocr_jobs`, `ocr_results` (which generation of rows), the document's existence and `deleted_at` |
| `queue`, `unsent`, `owed` | `run_ocr_job` messages in Redis; commits of the API and of the cron whose enqueue is still to come |
| `pc`, `job`, `seen`, `found`, `scan` | where a worker's event loop is, the row its session holds, the results and rows it has read |
| `crashes`, `losses`, `runs` | bounds only |

One action is one transaction or one Redis command: `CreateJob`/`EnqueueJob`
(`create_ocr_job`), `Deliver` (ARQ takes a message and the job reads its row),
then `MarkRunning`, the extraction with its errors, `StoreResults` (results and
status in one commit) or its refusal, the handling of a failure, and
`ScanStale`/`Requeue`/`SendOwed` (the reconciler). `Written` is the important
helper: the session writes only the columns in which its object differs from what
it loaded, so a late commit mixes with what others have written meanwhile. Time
is kept as far as the reconciler distinguishes it, "recent" or "stale". ARQ is
modelled from how the code uses it: at-least-once delivery, redelivery after a
crash, and a second delivery when a run outlasts its in-progress key
(`DeliverAgain`). A document is taken to have at least one page, so a successful
extraction stores at least one result. A database error in the commit of a failure's
handler has the effect of a crash whose message is lost as well, and is left to those steps.

### Pipeline, MCPipeline, PipelineProofs

The four stages of `workers/pipeline_jobs.py` with a commit between each two. The
worker's own list of stages (`stages`) is separate from the row because it is
written whole. `jobs` and `requests` are the rows of the inner OCR jobs and AI
requests in the order of their creation; a stage's `output_ref` is an index into
them. `blame` is what the error handler writes: the stage of a `PipelineStageError`, or
"unexpected" for any other error of the try (`StageBreaks`), which the code puts down to
persist.

`mark_running` and its commit are outside the try, and the handlers of errors can fail
themselves. `BreakOff` is such an error: it leaves `run`, ARQ fails the job without a
retry, the message is consumed and the row stays queued or running. `lost` and `broken`
remember the runs this happened to, and those whose message is gone, for the properties
only. A commit that raises is taken not to have happened.

`Reconcile` puts an undecided inner job back ("requeued"): one that a crash left behind,
or, where runs may be long, one whose pipeline run is still inside the extraction. From
then on other runs of the job decide it, once or several times, and nothing is assumed of
how: `OcrJobs` is about that, one such job at a time. A pipeline run that was inside goes
on with the text it has.

### JobPolling, MCJobPolling, BrowserProofs

The effect of `usePolling` as one loop (`off`, `asking`, `answered`, `waiting`,
`stopped`, `unmounted`), the consoles' table, their selection and the displayed
results. A request has two steps, the server's answer and its arrival, so an
answer may be old when it arrives. Intervals are counted in units of 500 ms, the
increment of the backoff. The specification is called `ClientSpec` (with `ClientInit`,
`ClientNext` and `ClientTypeOK`), so that `BrowserProofs` can extend it together with
`RefreshTokens`, the other module in which the browser acts.

### RefreshTokens, MCRefreshTokens, BrowserProofs

| state | code |
| --- | --- |
| `row`, `issued` | `refresh_tokens`: absent, live or revoked, and `replaced_by_id`; tokens are numbered in the order of their commits |
| `denied` | `aisaas:auth:deny:{jti}` keys in Redis |
| `expired` | tokens whose `expires_at` has passed |
| `jar` | the browser's refresh cookie, shared by its tabs |
| `pc`, `plan`, `token`, `targets`, `out` | a request: where its thread is, what its transaction is for, the cookie it came with, the rows its wipe waits for, its answer |
| `opened`, `logins`, `troubles` | a bound, and what has happened so far (overlap, lost reply, failure, suspension), for the properties only |

A request reads its row once without a lock. Its first UPDATE takes the row's lock
and keeps it to the commit (`Holds`), while Redis sees every command at once;
that gap between the denylist and the table is what the module is about. `Revoke`
waits for the lock, and the wipe (`StartWipe`, `EndWipe`) updates the rows it found
committed when it began. `Fail` is an exception anywhere before the commit: the
transaction is rolled back, Redis keeps what it was told.

### Erasure, MCErasure, ErasureProofs

| state | code |
| --- | --- |
| `doc`, `files` | `documents` rows (uploaded, deleted or absent) and the stored objects |
| `user` | active, named (not anonymized) and whether a refresh token is live |
| `job`, `queue` | `erasure_jobs` rows with their scopes and counted storage errors; `run_erasure_job` messages |
| `upload`, `request`, `visit`, `work` | how far an upload, a request for an erasure, a write to the user row and a worker's run are |
| `owed`, `saw`, `lost`, `late`, `faults` | what was there when a job was created, what its check saw, messages that are gone, writers older than the erasure, a bound: for the properties only |

An upload is a file, then an INSERT with its commit, then a refresh of the object, with
a crash in between (`LeakFile`). Commit and refresh share one try, so the handler deletes
the file either of a row that was not committed (`FailUpload`) or of one that was
(`FailRefresh`, which leaves the upload "unfiled"). A run of the worker deletes a file at once and
its row at the commit at the end, so `DeleteFile` and `DeleteRow` differ in what a
rollback (`FailRun`), an error outside the handler (`BreakOff`) or a crash undoes. A row
being deleted by another run is waited for (`Unlocked`). `Rename`, `Login` and `SaveForm`
write the columns they changed to a user row that they have read before.

### AiRequests, MCAiRequests, AiRequestsProofs

`counter` holds the quota keys in Redis, one for each user and one for the organisation,
each with whether it has a TTL; `call` is a request in its thread. A call passes two
checks, prepares its messages (`ChatAccepted`, `VisionAccepted`: every reason for which
the code refuses), asks a provider, perhaps the fallback, is counted with an INCR and an
EXPIRE for each of two keys, and is recorded. `OpenAi`, `Gemini` and `Ollama` are the
tables by which each adapter turns a reply into an error of the application, since the
fallback is tried for a `ProviderError` and not for a limit or a bad request. `spent`,
`recorded` and `wasted` are the books: what was answered, what was committed, what a
fault lost between.

### Prompts, MCPrompts, PromptsProofs; RagIndex, MCRagIndex, RagIndexProofs; Stats, MCStats, StatsProofs

These three are transactions that race, and are built alike: `txn[a]` or `run[i]` holds
where the transaction is, the rows that its UPDATE or DELETE found when it began, those
it has written and not committed, and those it is about to insert. A statement sees what
is committed when it begins; a row being written by another transaction is waited for
and looked at again; an INSERT waits for an uncommitted row of the same key and fails on
a committed one. In `Prompts` that gives circles of waiting (`Victim`: PostgreSQL breaks
one off): an activation has locked its version and waits for the row that is active,
while another has turned that row off and waits for the version. In
`RagIndex` the text is a function from positions to letter or blank, `Pieces` is
`chunk_text`. A search sends one SELECT for each document named in its request, and a
request may name a document twice: `List` is the first SELECT, `ListAgain` a further one,
`late` what was committed between them, and `Cite` picks from all that was listed. In `Stats` the
users' jobs, requests, runs and failed logins of a day are counters that grow, and that
an erasure sets to zero, while the rebuild's SELECTs read them one after another.

## 4. The runs

Pass means that TLC explores every reachable state and finds no error.

| run | instance | what it shows |
| --- | --- | --- |
| `ocr_single` | 1 job, 1 worker, 2 attempts, 2 crashes, 1 lost queue, long runs | `PromiseKept`: the machinery implements `OcrPromise`, liveness included; `AttemptsAccounted`: every attempt beyond the limit is one that a crash cut short |
| `ocr_replicas` | 1 job, 2 workers, 1 crash, 3 runs | overlapping runs leave no succeeded job without results (`SucceededHasResults`), and none brings anything of an erased document back (`PurgeIsComplete`) |
| `pipeline` | 1 run, 2 workers, 2 crashes | a succeeded run is whole, a named failure keeps the stages before it, providers are paid once per crash more at most, options are given up only after a crash, a decided success stays; an undecided run has its message on the way (`UndecidedIsCarried`) and is decided (`RunDecided`), unless the message is lost or an error outside the handlers breaks the run off |
| `polling` | 2 jobs, intervals 3 to 4 | the table never shows a decision that was not taken; polling ends; the job that is polled comes to show how it ended |
| `refresh` | 2 requests at once, 3 logins and refreshes | see below |
| `erasure` | 2 documents, 2 jobs, 2 workers, 1 fault | see below |
| `ai_requests` | 2 calls at once, 2 users, limits 1 and 2, 3 providers, 1 fault | calls pass the quota only as far as they run at once (`QuotaBounded`); a counter has an end unless a fault struck between INCR and EXPIRE (`CountersExpire`); answers are booked once, on the provider that gave them, or lost to a fault (`AnswersAccounted`) |
| `prompts` | 3 administrators, 3 versions, 1 broken transaction | a prompt that has an active version always has exactly one (`OneStaysActive`), and nobody is refused who was alone (`ConflictsOverlap`) |
| `rag` | 3 indexings of 2 jobs, every text of up to 5 characters, windows of 3 with an overlap of 1 | chunks of two indexings stand together, or are cited together, only if these overlapped, or, for a citation, if one of the two was committed between two SELECTs of the search (`MixedOverlapped`); an indexing is in the table whole or not at all, and cuts no passage as long as the overlap (`IndexedWhole`) |
| `stats` | 3 rebuilds by 2 workers, 2 users, 2 days, 2 events | however rebuilds overlap with each other and with erasures, a series has one point a day and the total is the sum of the users (`RollupsAddUp`) |
| `polling_second`, `refresh_logout` | small | expected violations, section 6 |

`erasure` checks that all rows there when a job was created are gone once it has
succeeded (`SucceededIsGone`), that every file without a row and row without a file has
one of the causes it names (`FilesAccounted`: a crash or an error of storage, a job that
failed or is going over the row again, an upload that deleted the file of its committed row), that two jobs are active at once only if
their requests overlapped (`TwoActiveOverlapped`), that an active job has a message or
its loss is known (`ActiveIsDriven`: nothing else would ever decide it), and that only a
writer older than the erasure, or an administrator, reopens an account
(`AccountStaysClosed`).

`refresh` checks that chains are whole (`ChainsWhole`: who has a successor is
revoked, successors are newer and not shared), that a denied token is retired or
just being retired unless a transaction failed (`DeniedIsRetired`), that an answer
which sets or clears the cookie is true of the token the client came with
(`AnswersAreTrue`), that requests that do not overlap leave one live token per
login at most (`LiveAccounted`), that all sessions are ended only after an
overlap, a lost reply or a failure (`AlarmHasCause`), and that a browser that met
none of these, and no suspension, stays logged in (`StaysLoggedIn`). The last
three name their conditions because without them the code does otherwise: two
overlapping refreshes do leave two live tokens, and the wipe after a reuse does
not reach the successor that another transaction has not committed yet.

### Bounds

* One OCR job or pipeline run is enough for what the runs ask: jobs share only the
  queue, whose order the model leaves open, and the reconciler's batch. Two workers
  and one or two crashes reach every hazard listed.
* `MaxAttempts = 2` has a first, a last and (after a crash) a surplus attempt.
* `MaxRuns = 6` does not cut off anything with one worker. `MaxRuns = 3` with two
  workers does: their duplicated runs can reset one another for ever, so
  `ocr_replicas` checks safety only. `MaxMessages = 2` merges further messages of one
  job, which do the same as the second.
* `MaxCrashes = 2` of `pipeline` stays below ARQ's `max_tries` of 5, after which ARQ
  drops a message.
* `polling` has an interval that grows once and then stays at its limit.
* `erasure` has two documents, so that a run can break off between them, two jobs, which
  overlap or follow each other, and two workers for them. `MaxFaults = 1` is one crash,
  failed storage call, failed commit or lost message anywhere. One upload at a time is
  under way (`OneUploadAtATime`, a state constraint): uploads touch nothing in common, and
  without the constraint the run passes too, with three times as many states.
* `ai_requests` has limits of 1 and 2, so that two calls reach them from below, at them
  and beyond; `MaxAnswers = 2` bounds the run, whose
  counters would grow for ever. The fallback is off by default; the instance has it on,
  and calls that name a provider go without it.
* `prompts` has three administrators because a circle of waiting has two and the third
  commits between them; `rag` and `stats` have three transactions, one that leaves rows
  behind and two that race to replace them. The windows of `rag` are small, but their
  arithmetic is that of the code with other constants (`MinSize` is 64 there), and every
  text up to five characters has up to three windows with blanks at every place.
* In `stats` two rebuilds run at once at most (`Workers`): a rebuild blocks its process.
* `refresh` has two requests at once (every hazard listed has two actors) and three
  tokens: one that is rotated, its successor, and another login or the successor
  of an overlapping rotation. Requests differ only in their names, hence the
  symmetry; the run has no temporal property.

CHECK_DEADLOCK is off where the system may stop: all jobs decided and documents
erased, the page closed, every indexing or rebuild made. It is on for `ai_requests` and
`prompts`, where somebody can always go on.

### Fairness

* `OcrJobs`: a run and a scan are synchronous calls that return; time passes; a free
  worker takes a waiting message and resumes its suspended tasks (strong fairness,
  because the minute cron and the messages of other jobs can come in between); the
  cron fires, and what it owes is enqueued in the end (strong fairness of `SendOwed`: a scan
  that Redis refuses is repeated a minute later). Nothing obliges a user to act or a user's
  own enqueue to succeed.
* `Pipeline`: the same for a run and its delivery; a request of the API ends, with or
  without its enqueue. Nothing is asked of the reconciler.
* `JobPolling`: timers fire and requests end; a server asked again and again answers
  once (strong fairness). Nothing makes the user choose, reload or stay.
* `RefreshTokens` and the modules of items 5 and 6 have none: they claim only safety. A lost
  erasure message or a broken INCR and EXPIRE have no remedy in the code, so what could be
  asked for there, that every job is decided and every counter ends, does not hold;
  `ActiveIsDriven` and `CountersExpire` say exactly when.

## 5. What is proved

Every theorem holds for all values of the constants that `ConstantsAssumption` of its
module (`ClientAssumption` of `JobPolling`) allows (any sets of jobs, workers, calls or documents and any bounds), unless it
names a further hypothesis. In each module `TypeCorrect` is `Spec => []TypeOK`. The other
theorems follow one pattern: an inductive invariant that contains the property, a lemma for
each action or group of actions that can disturb a part of it, and a last step in
temporal logic. What the strengthenings say is most of what there is to learn from the
proofs, so it is told here.

### OcrJobsProofs

* `ResultsOfSucceeded` and `ErasureIsComplete`: `SucceededHasResults` and
  `PurgeIsComplete`, for any number of workers. They are proved together as `Stored`,
  because each needs the other: a late UPDATE is harmless only if the row still exists,
  and a row that exists belongs to a document that is not erased. The lemma
  `WrittenStatus` (a late UPDATE leaves the status that was there or the one it writes)
  carries the argument for every action of a run.
* `AttemptsHold`: `AttemptsAccounted`, under `OneWorker`, as in
  `docker-compose.yml` and in `ocr_single`. `Alone` strengthens it: a run's session holds
  what the row says (`RunsAlone`), a scan's rows are as it loaded them (`ScansAlone`), and a
  job that waits for an attempt has one left, or a crash has cut one short (`AttemptLeft`).
* `WorkerKeepsPromise`, under `OneWorker`: the safety part of `PromiseKept`. Each step of
  `OcrJobs` is mapped: `CreateJob` to `Submit`, `StoreResults` to `Succeed`, the last
  failure to `Fail`, `PurgeDocument` to `Erase` of the document's job, and everything
  else (attempts, retries, crashes, resets, deliveries) to a stutter.

### PipelineProofs

* `OnlyOwnTextAnalysed`: `AnalysisOfOwnText`, even for runs that outlast ARQ's in-progress
  key (any `LongRuns`): the job whose text was analysed has succeeded or is erased, or,
  under `LongRuns` only, the reconciler has put it back while its run was inside it.
  `Basis` adds that each worker has an inner OCR job of its own, which no other pipeline
  run decides (`OwnJobs`), that an erasure takes the row together with the document
  (`PurgedIsGone`), and what a worker's own list shows of the stages behind it
  (`AllProgress`).
* Under `LongRuns = FALSE` (the instance of the run `pipeline`; with `TRUE` TLC finds each
  of them violated, section 6 tells by which behaviour of the code): `SucceededRunsAreWhole`, `FailedRunsKeepStages`,
  `PaidOncePerExecution`, `OptionsKept` and `SucceededRowsStay`, for `SucceededIsWhole`,
  `PriorStagesKept`, `CallsAccounted`, `DefaultsOnlyAfterCrash` and the action property
  `SucceededStays`. `SoloInv` adds to `Basis` that one worker at a time has a run
  (`OneWorker`), that its session holds what the row says unless the row is erased
  (`AllSessions`), and that a run's paid answers and inner jobs are at most its crashes,
  with one more only past the point where it is made (`CallsCounted`, `JobsCounted`).
* `UndecidedRunsAreCarried`: `UndecidedIsCarried`, without long runs. `Carried` says why the
  message is there: it stays while a worker has the run, and a worker that is done with
  it has decided it, or has broken off.
* `OneJobPerExecution`: without long runs a run has created no more inner OCR jobs than it
  had executions, one and the crashes.
* `ErasureTakesRuns`: `PurgedIsGone`, a part of `Basis` that is worth knowing by itself.

### BrowserProofs, on RefreshTokens

* `TypeCorrect` includes that no two transactions hold the lock of one row. `TypeOK` is
  not inductive, because a commit needs a token number within the bound. `Basis` adds
  what is missing: `Accounted` (the tokens issued and the requests that are going to issue
  one are together no more than the requests sent, by the cardinality theorems of the
  library), `OnlyIssued` (only issued tokens have rows or are held by anybody), `Coherent`
  (what a request is for fits where it is, and it has a token) and `Retired` (an alarm, and
  a logout with nothing to revoke, concern a revoked token).
* `Chains`, `Answers` and `Denials`: `ChainsWhole`, `AnswersAreTrue` and
  `DeniedIsRetired`, each inductive together with `Basis`. `RowsStep` carries the first two
  (numbers only grow, a revoked row stays revoked), `LockReleased` the last (a lock is
  given up by a commit that revokes the row, or by a failure).
* `LiveTokens`: `LiveAccounted`. Without an overlap one request at most is under way
  (`OneAtATime`), so that the token a refresh has found alive is still alive when it is
  revoked (`RotatesLive`), and a rotation adds no live token.
* `AlarmCause`: `AlarmHasCause`. Without overlap, lost reply or failure the cookie is
  never a token with a successor, except while the answer with that successor is on its
  way (`CookieFresh`).
* `LoggedIn`: `StaysLoggedIn`. Without any trouble the cookie names a token that is live and
  not denied, or expired, except while it is given up or replaced (`CookieSound`).

### BrowserProofs, on JobPolling

* `ClientTypeCorrect` (`ClientTypeOK`) includes the bounds of the backoff and that a
  running loop has an active job.
* `TableIsTrue`: `ShownIsTrue`. It is not inductive, since what the table shows next is
  what an answer or a table under way says. `Copies` extends it to these copies of a
  status: each that is decided is the server's. It is kept because the server never takes
  a decision back (`DecisionStays`), however late a copy arrives.
* `ServerKeepsPromise` composes the client with the backend: whatever the client does and
  whenever a job is decided, the server's jobs, as `JobPolling` has them, take only steps of
  `OcrPromise`, or stutter. That justifies the environment that the client is checked in,
  and `OcrJobs` implements `OcrPromise` in turn (`WorkerKeepsPromise`). An erasure of a
  document that is being looked at is left out of `JobPolling`.

### ErasureProofs

`IInv` is one invariant for all five properties, which lean on each other.

* `ErasureComplete`, `StorageAccounted`, `SecondJobOverlapped`, `JobsDriven` and
  `AccountClosed`: `SucceededIsGone`, `FilesAccounted`, `TwoActiveOverlapped`,
  `ActiveIsDriven` and `AccountStaysClosed`.
* The strengthening is about where a document can still come from: a row is inserted once
  (`UploadsInOrder`), what a job owes was settled before the job (`RequestsInOrder`), and a
  run in any phase still has ahead of it, or has deleted in its transaction, every row that it
  owes (`RunsFit`), so that no rollback or crash loses one. `StrayFiles` and `BareRows` name the
  one who answers for each file without a row and each row without a file; an upload that
  deleted the file of its committed row answers for it for good (`UnfiledStays`).

### AiRequestsProofs

* `QuotaHolds`: `QuotaBounded`. A counter and the calls between their check and their INCR
  are bounded together, by cardinalities of sets of calls; a call that enters the set
  found the counter below its limit.
* `WindowsEnd` and `BooksBalance`: `CountersExpire` and `AnswersAccounted`, with the number
  of calls that are answered and not yet recorded.
* `TypeCorrect` needs that a counter, with the calls answered and not yet counted on it, is
  at most the number of answers (`CountsAnswers`; for the books, `SpentAnswers`).
* `FiniteHasLargest` (the limit of the organisation is the largest of those configured) is
  proved from a smallest counterexample, see below.

### PromptsProofs

* `OnlyOverlapsConflict` and `OneVersionActive`: `ConflictsOverlap` and the action property
  `OneStaysActive`. `OneActive` is what the partial unique index enforces while transactions
  are open: one row active, one about to be, and when there is one, nothing active that
  its transaction has not turned off. `AloneSees`: who has met nobody has seen all there is.

### RagIndexProofs

* `Indexed`: `IndexedWhole`, for every text, every size of the windows and every overlap.
  The half about the table says that an uncommitted indexing is out of sight and that a
  DELETE takes all chunks of an indexing that it has found (`AllWhole`). The half about
  `chunk_text` is a proof about the algorithm: that each window begins after the last
  (`WindowsExist`, without which the recursion defines nothing), that windows leave no
  gap and overlap as configured (`WindowsCut`), and that trimming blanks cuts no passage
  that an overlap holds (`PiecesCut`).
* `OnlyOverlapsMix`: `MixedOverlapped`. Indexings open at once have met (`Acquainted`), and
  what one neither found nor will delete was inserted by one that it has met (`Beside`).
  For a search of several SELECTs: what it has listed goes with what it would list now, but
  for what was committed in between (`MixedBut`).

### StatsProofs

* `SeriesAddUpAlways`: `RollupsAddUp`, for any number of rebuilds, days, users and events.
  The invariant is about the table and about what each rebuild is going to do to it.
  `Table`: no two rows have the same key, every row that others see is committed, and a row
  for all is the sum of the rows for users that were inserted with it (`Balanced`). A rebuild
  under way inserts a SELECT's rows together and each SELECT once for a day (`InOrder`,
  `Inserts`); a DELETE takes the rows of an earlier rebuild for a day all together or not at
  all (`TakesAll`), so that no row for all outlives its parts; and what it has inserted has
  no rival, in the table or in another rebuild (`NoRivals`), which is what the unique index
  enforces. It follows that for each metric the rows for users are split into the parts of
  the rows for all, and the sum over days is the sum over users (`SeriesAddUp`).
* `TypeCorrect` needs that what the users did on a day is together no more than has happened
  (`Counted`), or a total would be out of bounds.

### How data is reasoned about

The induction theorems of the library take an operator as a parameter and cannot be used
here. Where a proof needs induction over numbers or finite sets it takes a smallest
counterexample from the theorems about well-founded relations (`LastVersion`,
`FiniteHasLargest`, `Smallest`), or states the induction over a set of numbers
(`Upwards`; for finite sets `SubsetsDown` and `SubsetsUp`).

Totals are the folds of the community modules (`SumFunctionOnSet`), which choose an element
in each step. `StatsProofs` therefore begins with a theory of finite sums: that there is one
function which satisfies the recursion (`AddsExist`, `AddsUnique`), so that the fold
unfolds as its definition says (`SumUnfolds`); that the element chosen makes no difference
(`SumAdds`); and what follows for two disjoint sets (`SumOfTwo`), for a set split into
parts (`SumOfSums`), for elements renamed (`SumRenamed`), and for bounds.

### Only model-checked

* Everything temporal with fairness: the liveness part of `PromiseKept`, `RunDecided`, `PollingEnds` and `PolledIsShown`. Liveness under
  fairness is out of the prover's reach.

All safety properties of the runs have a theorem. The hypotheses of those that have one
are needed: with several workers `PromiseKept` does not hold (section 6, `FinalIsFinal`),
nor does `AttemptsAccounted`, and TLC finds both violated in `OcrReplicas.cfg` even with
`LongRuns = FALSE` and no crash: the reconciler of one worker sends a job that has waited
too long once more while another worker is taking it, and the job is executed twice.

`TypeOK` of `Prompts`, `RagIndex` and `Stats` is in no run: it is proved.

## 6. Where the code and its documentation disagree

Two have a run that TLC must find violated; "findings" in `PROJECT.json` quotes the lines.

* `polling_second` (`DecidedIsShown`): after polling has stopped at one job, the next one
  is never polled.
* `refresh_logout` (`AlarmMeansRotated`): a refresh overlapped by a logout of the same
  token takes it for reuse and ends all sessions of the user.

The others have a definition, but no run; it takes one line of a .cfg to see each.

| property | module and instance | what the code does | what says otherwise |
| --- | --- | --- | --- |
| `AttemptsWithinMax` | `OcrJobs`, `OcrSingle.cfg` | a redelivered job starts an attempt beyond the limit, which is consulted only after an attempt fails (`workers/ocr_jobs.py:131`) | `core/config.py:89`, "Max OCR worker attempts before permanent failed" |
| `ResetOnlyAfterCrash` | `OcrJobs`, `OcrReplicas.cfg` with no crash | `started_at` is set once per job, so the reconciler takes a later attempt in progress for a crashed worker (`repositories/ocr_job_repository.py:114`) | `services/ocr_reconcile_service.py:10`, "assume worker crash" |
| `FinalIsFinal` | `OcrJobs`, `OcrReplicas.cfg` with no crash | of two overlapping runs the one that ends last overwrites a final status (`workers/ocr_jobs.py:159`) | `workers/ocr_jobs.py:116` skips a "terminal status"; the client stops polling at it |
| `FailureBlamesItsStage` | `Pipeline`, `PipelineRuns.cfg` | exceptions that are not a `PipelineStageError` are shown as a failure of persist (`workers/pipeline_jobs.py:217`) | `docs/TASKS.md:222`, "Client sees which stage failed" |
| `SucceededShowsStages` | `Pipeline`, `PipelineRuns.cfg` with `LongRuns = TRUE` | a run that outlasts `job_timeout` is executed twice, and the second execution puts stages of a succeeded run back to pending (`workers/pipeline_jobs.py:244`) | `tests/api/test_pipelines.py:202` asserts that all stages have succeeded |
| `ErasedHasNoDocuments` | `Erasure`, `Erasure.cfg` | an upload authenticated before the account was erased is committed after the documents were listed (`workers/erasure_jobs.py:81`) | `docs/SPIKE_DATA_RETENTION.md:17`, "Account erase ... hard-delete owned documents" |

Beside these, the quota of AI calls is documented as a maximum (`core/config.py:46`) and is
one only for calls that do not overlap; `QuotaBounded` gives the bound that holds.

## 7. What is not modelled

* Of the AI requests: contents, token counts, rendering of prompts, citations, listings.
* Of the statistics: latency averages, tokens and costs (counted like requests), the
  cached summary, the CSV export. A job that fails two days after it was created is not
  counted as failed, since its day is not rebuilt again: a limit of the code that no
  property is about.
* Of the RAG index: documents of several pages (pages are cut one by one), embeddings and
  scores (a search may rank the chunks in any order), the mark of soft deletion, which
  neither the indexing's transaction nor a search of the chunks looks at.
* Of documents: MIME types, sizes, listing, download; of the login: its rate limit.
* Of the sessions: registration, rejected logins and their rate limit, rejections for
  a missing CSRF token (they happen before the service and change nothing), the access
  token and the client's retry after a 401, the user's other browsers, and an erasure's
  removal of tokens.
* Organizations, users, administration and audit beyond what races with an erasure or the
  quota: single-row reads and writes without a state machine. OCR engine and image
  preparation: calls without state, present as the success or failure of a step. Web
  plumbing: configuration, hashing, error format.
* Contents: image and text, prompts and answers, languages, confidences, messages.
