------------------------------- MODULE OcrJobs -------------------------------
(***************************************************************************)
(* The life of an OCR job: the ocr_jobs row and its ocr_results in         *)
(* Postgres, the run_ocr_job messages in Redis, the API process that       *)
(* creates jobs, the worker processes that run them, the reconciler cron   *)
(* that looks for lost ones, and the deletion of the document below them.  *)
(*                                                                         *)
(* A worker process runs a job as one synchronous call inside its event    *)
(* loop, so between Deliver and the end of the run it does nothing else;   *)
(* other worker processes, the API and the passage of time interleave      *)
(* freely.  A run reads the row once into its database session (seen) and  *)
(* later writes only the columns it changed, which is why the copy and the *)
(* row are separate variables here.                                        *)
(***************************************************************************)
EXTENDS Naturals

CONSTANTS
    Jobs,         \* OCR jobs that may be created
    Workers,      \* worker processes
    MaxAttempts,  \* settings.ocr_max_attempts
    LongRuns,     \* may one attempt outlast the stale-running threshold?
    MaxCrashes,   \* bound: worker crashes
    MaxLosses,    \* bound: losses of the Redis queue
    MaxMessages,  \* bound: messages of one job in the queue; more are merged
    MaxRuns       \* bound: runs started by all workers together

ASSUME ConstantsAssumption ==
    /\ MaxAttempts \in Nat \ {0}
    /\ LongRuns \in BOOLEAN
    /\ MaxCrashes \in Nat
    /\ MaxLosses \in Nat
    /\ MaxMessages \in Nat \ {0}
    /\ MaxRuns \in Nat
    /\ "no job" \notin Jobs

VARIABLES
    row,      \* row[j]: the ocr_jobs row of j ("absent" when there is none)
    results,  \* results[j]: which generation of ocr_results rows j has, 0 for none
    docs,     \* docs[j]: the document j refers to
    queue,    \* queue[j]: run_ocr_job messages of j waiting in Redis
    unsent,   \* jobs committed by the API whose message is not enqueued yet
    pc,       \* pc[w]: what worker w's event loop is executing
    job,      \* job[w]: the job of the run w is executing
    seen,     \* seen[w]: the row as w's database session holds it
    found,    \* found[w]: the generation of results w's delete_for_job read
    scan,     \* scan[w]: the rows w's reconciler scan loaded
    owed,     \* owed[w]: jobs w has yet to enqueue (tasks suspended at an await)
    crashes,  \* worker crashes so far
    losses,   \* queue losses so far
    runs      \* runs started so far

rowVars  == <<row, results, docs>>
taskVars == <<pc, job, seen, found, scan>>
bounds   == <<crashes, losses, runs>>
vars     == <<row, results, docs, queue, unsent, pc, job, seen, found, scan,
              owed, crashes, losses, runs>>

-----------------------------------------------------------------------------
(* The row.  Timestamps are kept only as far as the reconciler can tell    *)
(* them apart: older than its threshold ("stale") or not ("recent").       *)

Status == {"absent", "queued", "running", "succeeded", "failed", "cancelled"}
Final  == {"succeeded", "failed", "cancelled"}
Live   == {"queued", "running"}

Row == [status   : Status,
        attempts : Nat,                               \* attempt_count
        started  : {"unset", "recent", "stale"},      \* started_at
        updated  : {"recent", "stale"},               \* updated_at
        error    : {"none", "attempt", "stale note"}]

AbsentRow == [status |-> "absent", attempts |-> 0, started |-> "unset",
              updated |-> "recent", error |-> "none"]

QueuedRow == [AbsentRow EXCEPT !.status = "queued"]

\* What an UPDATE leaves in the row: the session writes the columns in which its
\* object differs from what it loaded, and onupdate stamps updated_at; an
\* unchanged object causes no UPDATE.
Written(current, loaded, new) ==
    IF new = loaded THEN current
    ELSE [status   |-> IF new.status # loaded.status THEN new.status ELSE current.status,
          attempts |-> IF new.attempts # loaded.attempts THEN new.attempts ELSE current.attempts,
          started  |-> IF new.started # loaded.started THEN new.started ELSE current.started,
          updated  |-> "recent",
          error    |-> IF new.error # loaded.error THEN new.error ELSE current.error]

\* OcrJobRepository.mark_*: the session object after the call.
Running(r) ==
    [status   |-> "running",
     attempts |-> r.attempts + 1,
     started  |-> IF r.started = "unset" THEN "recent" ELSE r.started,
     updated  |-> r.updated,
     error    |-> "none"]

Succeeded(r)   == [r EXCEPT !.status = "succeeded", !.error = "none"]
Failed(r)      == [r EXCEPT !.status = "failed", !.error = "attempt"]
RetryQueued(r) == [r EXCEPT !.status = "queued", !.error = "attempt"]
StaleRequeued(r) ==
    [r EXCEPT !.status = "queued", !.error = "stale note", !.updated = "recent"]
Touched(r) == [r EXCEPT !.updated = "recent"]

\* Mutant of MayRetry: the attempt limit is off by one.
MayRetryOnceMore(attempt) == attempt <= MaxAttempts

\* compute_ocr_retry_delay_seconds returns a delay rather than None.
MayRetry(attempt) == attempt < MaxAttempts

\* Mutant of StaleQueued: rows no worker has started yet are not looked at.
StaleQueuedOnceStarted ==
    {j \in Jobs : row[j].status = "queued" /\ row[j].updated = "stale"
                   /\ row[j].started # "unset"}

\* The rows list_stale_queued and list_stale_running select.
StaleQueued  == {j \in Jobs : row[j].status = "queued" /\ row[j].updated = "stale"}
StaleRunning ==
    {j \in Jobs :
        /\ row[j].status = "running"
        /\ "stale" = IF row[j].started # "unset" THEN row[j].started ELSE row[j].updated}

-----------------------------------------------------------------------------
(* Workers and messages                                                    *)

NoJob  == "no job"
NoScan == [queued |-> {}, running |-> {}]

PC == {"idle",         \* the event loop is free
       "loaded",       \* run: the row is read and not final
       "opening",      \* mark_running committed; _process reads the document
       "extracting",   \* pages go through preprocessing and the OCR engine
       "storing",      \* delete_for_job has read the old results
       "retrying",     \* rolled back and reloaded; a retry is left
       "failing",      \* rolled back and reloaded; no retry is left
       "reconciling"}  \* scan has loaded the stale rows

Idle(w)         == pc[w] = "idle"
Executing(w, j) == job[w] = j /\ pc[w] \in PC \ {"idle", "reconciling"}

\* One more message of each job in S, merged above the bound.
Enqueued(q, S) ==
    [j \in Jobs |-> IF j \in S /\ q[j] < MaxMessages THEN q[j] + 1 ELSE q[j]]

\* Mutant of EndTask: the finished task's job is not let go.
EndTaskKeepingJob(w) ==
    /\ pc'    = [pc EXCEPT ![w] = "idle"]
    /\ seen'  = [seen EXCEPT ![w] = AbsentRow]
    /\ found' = [found EXCEPT ![w] = 0]
    /\ UNCHANGED job

\* The end of a run; the session and what it read are gone.
EndTask(w) ==
    /\ pc'    = [pc EXCEPT ![w] = "idle"]
    /\ job'   = [job EXCEPT ![w] = NoJob]
    /\ seen'  = [seen EXCEPT ![w] = AbsentRow]
    /\ found' = [found EXCEPT ![w] = 0]

Init ==
    /\ row     = [j \in Jobs |-> AbsentRow]
    /\ results = [j \in Jobs |-> 0]
    /\ docs    = [j \in Jobs |-> "live"]
    /\ queue   = [j \in Jobs |-> 0]
    /\ unsent  = {}
    /\ pc      = [w \in Workers |-> "idle"]
    /\ job     = [w \in Workers |-> NoJob]
    /\ seen    = [w \in Workers |-> AbsentRow]
    /\ found   = [w \in Workers |-> 0]
    /\ scan    = [w \in Workers |-> NoScan]
    /\ owed    = [w \in Workers |-> {}]
    /\ crashes = 0
    /\ losses  = 0
    /\ runs    = 0

-----------------------------------------------------------------------------
(* The API process                                                         *)

\* OcrService.create_job: the row is committed before anything is enqueued.
CreateJob(j) ==
    /\ docs[j] = "live"
    /\ row[j].status = "absent"
    /\ row'    = [row EXCEPT ![j] = QueuedRow]
    /\ unsent' = unsent \cup {j}
    /\ UNCHANGED <<results, docs, queue, taskVars, owed, bounds>>

\* OcrService.enqueue_job -> QueuePublisher.enqueue_ocr_job.
EnqueueJob(j) ==
    /\ j \in unsent
    /\ unsent' = unsent \ {j}
    /\ queue'  = Enqueued(queue, {j})
    /\ UNCHANGED <<rowVars, taskVars, owed, bounds>>

\* The API process dies, or Redis refuses, between the commit and the enqueue.
LoseEnqueue(j) ==
    /\ j \in unsent
    /\ unsent' = unsent \ {j}
    /\ UNCHANGED <<rowVars, queue, taskVars, owed, bounds>>

\* DocumentService.soft_delete.
SoftDelete(j) ==
    /\ docs[j] = "live"
    /\ docs' = [docs EXCEPT ![j] = "deleted"]
    /\ UNCHANGED <<row, results, queue, unsent, taskVars, owed, bounds>>

-----------------------------------------------------------------------------
(* A worker running a job                                                  *)

\* A worker with a free loop takes a message; run reads the row.
Deliver(w, j) ==
    /\ Idle(w)
    /\ queue[j] > 0
    /\ row[j].status \in Live
    /\ runs < MaxRuns
    /\ queue' = [queue EXCEPT ![j] = @ - 1]
    /\ pc'    = [pc EXCEPT ![w] = "loaded"]
    /\ job'   = [job EXCEPT ![w] = j]
    /\ seen'  = [seen EXCEPT ![w] = row[j]]
    /\ runs'  = runs + 1
    /\ UNCHANGED <<rowVars, unsent, found, scan, owed, crashes, losses>>

\* run returns at once: the row is missing or already final.
SkipDelivery(w, j) ==
    /\ Idle(w)
    /\ queue[j] > 0
    /\ row[j].status \notin Live
    /\ queue' = [queue EXCEPT ![j] = @ - 1]
    /\ UNCHANGED <<rowVars, unsent, taskVars, owed, bounds>>

\* A run that blocks longer than ARQ's in-progress key lives (job_timeout and
\* 10 seconds) loses its claim, and another worker takes the same message.
DeliverAgain(v, w) ==
    /\ LongRuns
    /\ Idle(v)
    /\ pc[w] = "extracting"
    /\ row[job[w]].status \in Live
    /\ runs < MaxRuns
    /\ pc'   = [pc EXCEPT ![v] = "loaded"]
    /\ job'  = [job EXCEPT ![v] = job[w]]
    /\ seen' = [seen EXCEPT ![v] = row[job[w]]]
    /\ runs' = runs + 1
    /\ UNCHANGED <<rowVars, queue, unsent, found, scan, owed, crashes, losses>>

\* mark_running and its commit.  attempt_count is written as the value read + 1.
MarkRunning(w) ==
    LET j == job[w] IN
    /\ pc[w] = "loaded"
    /\ row[j].status # "absent"
    /\ row'  = [row EXCEPT ![j] = Written(@, seen[w], Running(seen[w]))]
    /\ seen' = [seen EXCEPT ![w] = Running(@)]
    /\ pc'   = [pc EXCEPT ![w] = "opening"]
    /\ UNCHANGED <<results, docs, queue, unsent, job, found, scan, owed, bounds>>

\* The row was deleted since it was read: the UPDATE matches nothing and the
\* error leaves run before its try block, so the ARQ job fails without a retry.
MarkRunningFails(w) ==
    /\ pc[w] = "loaded"
    /\ row[job[w]].status = "absent"
    /\ EndTask(w)
    /\ UNCHANGED <<rowVars, queue, unsent, scan, owed, bounds>>

OpenDocument(w) ==
    /\ pc[w] = "opening"
    /\ docs[job[w]] = "live"
    /\ pc' = [pc EXCEPT ![w] = "extracting"]
    /\ UNCHANGED <<rowVars, queue, unsent, job, seen, found, scan, owed, bounds>>

\* except: roll back, read the row again, and decide from this run's own attempt
\* number (seen before the reload) whether a retry is left.  A missing row ends
\* the run; the status read again is not looked at.
Raise(w, retryable) ==
    IF row[job[w]].status = "absent"
    THEN EndTask(w)
    ELSE /\ pc' = [pc EXCEPT ![w] = IF retryable /\ MayRetry(seen[w].attempts)
                                    THEN "retrying" ELSE "failing"]
         /\ seen'  = [seen EXCEPT ![w] = row[job[w]]]
         /\ found' = [found EXCEPT ![w] = 0]
         /\ UNCHANGED job

\* _process: "Document not found for OCR job", a RuntimeError.
DocumentMissing(w) ==
    /\ pc[w] = "opening"
    /\ docs[job[w]] # "live"
    /\ Raise(w, TRUE)
    /\ UNCHANGED <<rowVars, queue, unsent, scan, owed, bounds>>

\* Storage, preprocessing or the engine raises.
ExtractFails(w) ==
    /\ pc[w] = "extracting"
    /\ Raise(w, TRUE)
    /\ UNCHANGED <<rowVars, queue, unsent, scan, owed, bounds>>

\* OcrPermanentError: the document has more pages than ocr_max_pages.
PageLimitExceeded(w) ==
    /\ pc[w] = "extracting"
    /\ Raise(w, FALSE)
    /\ UNCHANGED <<rowVars, queue, unsent, scan, owed, bounds>>

\* Mutant of Extracted: the old results are deleted in a transaction of their own.
ExtractedDeletingFirst(w) ==
    /\ pc[w] = "extracting"
    /\ pc'      = [pc EXCEPT ![w] = "storing"]
    /\ results' = [results EXCEPT ![job[w]] = 0]
    /\ found'   = [found EXCEPT ![w] = 0]
    /\ UNCHANGED <<row, docs, queue, unsent, job, seen, scan, owed, bounds>>

\* All pages extracted; delete_for_job lists the results to replace.
Extracted(w) ==
    /\ pc[w] = "extracting"
    /\ pc'    = [pc EXCEPT ![w] = "storing"]
    /\ found' = [found EXCEPT ![w] = results[job[w]]]
    /\ UNCHANGED <<rowVars, queue, unsent, job, seen, scan, owed, bounds>>

\* Mutant of StoreResults: a row deleted meanwhile is written back.
StoreResultsUnchecked(w) ==
    LET j == job[w] IN
    /\ pc[w] = "storing"
    /\ results[j] = found[w]
    /\ results' = [results EXCEPT ![j] = @ + 1]
    /\ row'     = [row EXCEPT ![j] = Written(@, seen[w], Succeeded(seen[w]))]
    /\ EndTask(w)
    /\ UNCHANGED <<docs, queue, unsent, scan, owed, bounds>>

\* New results, one for each page (a document has at least one), and mark_succeeded
\* in one commit.
StoreResults(w) ==
    LET j == job[w] IN
    /\ pc[w] = "storing"
    /\ row[j].status # "absent"
    /\ results[j] = found[w]
    /\ results' = [results EXCEPT ![j] = @ + 1]
    /\ row'     = [row EXCEPT ![j] = Written(@, seen[w], Succeeded(seen[w]))]
    /\ EndTask(w)
    /\ UNCHANGED <<docs, queue, unsent, scan, owed, bounds>>

\* The transaction is refused: the job row is gone (foreign key), or another
\* worker stored pages this session did not delete (uq_ocr_results_job_page).
StoreConflict(w) ==
    /\ pc[w] = "storing"
    /\ row[job[w]].status = "absent" \/ results[job[w]] # found[w]
    /\ Raise(w, TRUE)
    /\ UNCHANGED <<rowVars, queue, unsent, scan, owed, bounds>>

\* mark_retry_queued and its commit; the task goes on to its enqueue.
ScheduleRetry(w) ==
    LET j == job[w] IN
    /\ pc[w] = "retrying"
    /\ row[j].status # "absent"
    /\ row'  = [row EXCEPT ![j] = Written(@, seen[w], RetryQueued(seen[w]))]
    /\ owed' = [owed EXCEPT ![w] = @ \cup {j}]
    /\ EndTask(w)
    /\ UNCHANGED <<results, docs, queue, unsent, scan, bounds>>

\* mark_failed and its commit.
GiveUp(w) ==
    LET j == job[w] IN
    /\ pc[w] = "failing"
    /\ row[j].status # "absent"
    /\ row' = [row EXCEPT ![j] = Written(@, seen[w], Failed(seen[w]))]
    /\ EndTask(w)
    /\ UNCHANGED <<results, docs, queue, unsent, scan, owed, bounds>>

\* The row was deleted after the reload: the UPDATE fails and leaves run.
FailureUnrecorded(w) ==
    /\ pc[w] \in {"retrying", "failing"}
    /\ row[job[w]].status = "absent"
    /\ EndTask(w)
    /\ UNCHANGED <<rowVars, queue, unsent, scan, owed, bounds>>

-----------------------------------------------------------------------------
(* The reconciler cron, and the enqueues that follow a commit              *)

\* OcrReconcileService.scan: load the stale rows.
ScanStale(w) ==
    /\ Idle(w)
    /\ StaleQueued \cup StaleRunning # {}
    /\ pc'   = [pc EXCEPT ![w] = "reconciling"]
    /\ scan' = [scan EXCEPT ![w] = [queued |-> StaleQueued, running |-> StaleRunning]]
    /\ UNCHANGED <<rowVars, queue, unsent, job, seen, found, owed, bounds>>

\* touch, mark_stale_requeue and the commit.  The columns written are the same
\* whatever happened to the row since it was loaded.
Requeue(w) ==
    LET S == scan[w].queued \cup scan[w].running IN
    /\ pc[w] = "reconciling"
    /\ \A j \in S : row[j].status # "absent"
    /\ row'  = [j \in Jobs |-> IF j \in scan[w].running THEN StaleRequeued(row[j])
                               ELSE IF j \in S THEN Touched(row[j]) ELSE row[j]]
    /\ owed' = [owed EXCEPT ![w] = @ \cup S]
    /\ scan' = [scan EXCEPT ![w] = NoScan]
    /\ pc'   = [pc EXCEPT ![w] = "idle"]
    /\ UNCHANGED <<results, docs, queue, unsent, job, seen, found, bounds>>

\* One of the rows is gone: its UPDATE fails and the whole scan is rolled back.
RequeueFails(w) ==
    /\ pc[w] = "reconciling"
    /\ \E j \in scan[w].queued \cup scan[w].running : row[j].status = "absent"
    /\ scan' = [scan EXCEPT ![w] = NoScan]
    /\ pc'   = [pc EXCEPT ![w] = "idle"]
    /\ UNCHANGED <<rowVars, queue, unsent, job, seen, found, owed, bounds>>

\* await redis.enqueue_job, of a retry or of a requeue.
SendOwed(w, j) ==
    /\ Idle(w)
    /\ j \in owed[w]
    /\ owed'  = [owed EXCEPT ![w] = @ \ {j}]
    /\ queue' = Enqueued(queue, {j})
    /\ UNCHANGED <<rowVars, unsent, taskVars, bounds>>

\* An erasure job hard-deletes the document; the cascade removes the job row and
\* its results.  It runs in a worker process, never inside a run of that process.
PurgeDocument(w, j) ==
    /\ Idle(w)
    /\ docs[j] # "purged"
    /\ docs'    = [docs EXCEPT ![j] = "purged"]
    /\ row'     = [row EXCEPT ![j] = AbsentRow]
    /\ results' = [results EXCEPT ![j] = 0]
    /\ UNCHANGED <<queue, unsent, taskVars, owed, bounds>>

-----------------------------------------------------------------------------
(* Failures and time                                                       *)

\* A worker process dies and is restarted.  ARQ delivers the messages of the
\* tasks it was executing again, unless their tries are used up.
Crash(w) ==
    /\ crashes < MaxCrashes
    /\ pc[w] # "idle" \/ owed[w] # {}
    /\ \E S \in SUBSET (owed[w] \cup ({job[w]} \ {NoJob})) :
          queue' = Enqueued(queue, S)
    /\ EndTask(w)
    /\ scan'    = [scan EXCEPT ![w] = NoScan]
    /\ owed'    = [owed EXCEPT ![w] = {}]
    /\ crashes' = crashes + 1
    /\ UNCHANGED <<rowVars, unsent, losses, runs>>

\* Redis restarts without its data (AOF is optional).
LoseQueue ==
    /\ losses < MaxLosses
    /\ \E j \in Jobs : queue[j] > 0
    /\ queue'  = [j \in Jobs |-> 0]
    /\ losses' = losses + 1
    /\ UNCHANGED <<rowVars, unsent, taskVars, owed, crashes, runs>>

\* updated_at falls behind the stale-queued threshold.
QueuedTooLong(j) ==
    /\ row[j].status = "queued"
    /\ row[j].updated = "recent"
    /\ row' = [row EXCEPT ![j].updated = "stale"]
    /\ UNCHANGED <<results, docs, queue, unsent, taskVars, owed, bounds>>

\* started_at falls behind the stale-running threshold.  Unless LongRuns, not
\* while the attempt that set it is still being executed.
StartedTooLongAgo(j) ==
    /\ row[j].status \in Live
    /\ row[j].started = "recent"
    /\ LongRuns \/ row[j].attempts > 1 \/ ~ \E w \in Workers : Executing(w, j)
    /\ row' = [row EXCEPT ![j].started = "stale"]
    /\ UNCHANGED <<results, docs, queue, unsent, taskVars, owed, bounds>>

-----------------------------------------------------------------------------

Run(w) ==
    \/ MarkRunning(w) \/ MarkRunningFails(w)
    \/ OpenDocument(w) \/ DocumentMissing(w)
    \/ ExtractFails(w) \/ PageLimitExceeded(w) \/ Extracted(w)
    \/ StoreResults(w) \/ StoreConflict(w)
    \/ ScheduleRetry(w) \/ GiveUp(w) \/ FailureUnrecorded(w)

Reconcile(w) == ScanStale(w) \/ Requeue(w) \/ RequeueFails(w)

Time(j) == QueuedTooLong(j) \/ StartedTooLongAgo(j)

Next ==
    \/ \E j \in Jobs : \/ CreateJob(j) \/ EnqueueJob(j) \/ LoseEnqueue(j)
                       \/ SoftDelete(j) \/ Time(j)
    \/ \E w \in Workers, j \in Jobs : \/ Deliver(w, j) \/ SkipDelivery(w, j)
                                      \/ SendOwed(w, j) \/ PurgeDocument(w, j)
    \/ \E v, w \in Workers : DeliverAgain(v, w)
    \/ \E w \in Workers : Run(w) \/ Reconcile(w) \/ Crash(w)
    \/ LoseQueue

Spec == Init /\ [][Next]_vars

(***************************************************************************)
(* Fairness.  A run and a scan are plain calls that return (the storage,   *)
(* preprocessing and engine calls are assumed to); thresholds pass; the    *)
(* cron fires every minute.  A free worker polls its queue twice a second  *)
(* and its event loop resumes suspended tasks in turn, so neither is       *)
(* starved by the minute cron: strong fairness.  What the cron owes is     *)
(* enqueued in the end, since a scan that Redis refuses is repeated.       *)
(* Nothing obliges a user to create or delete, a user's own enqueue to     *)
(* succeed, or a process to crash.                                         *)
(***************************************************************************)
Fairness ==
    /\ \A w \in Workers : WF_vars(Run(w)) /\ WF_vars(Requeue(w) \/ RequeueFails(w))
    /\ \A j \in Jobs : /\ WF_vars(Time(j))
                       /\ SF_vars(\E w \in Workers : Deliver(w, j))
    /\ \A w \in Workers, j \in Jobs : SF_vars(SendOwed(w, j))
    /\ SF_vars(\E w \in Workers : ScanStale(w))

FairSpec == Spec /\ Fairness

-----------------------------------------------------------------------------
(* Properties                                                              *)

RowsType ==
    /\ row     \in [Jobs -> Row]
    /\ results \in [Jobs -> Nat]
    /\ docs    \in [Jobs -> {"live", "deleted", "purged"}]

MessagesType ==
    /\ queue  \in [Jobs -> Nat]
    /\ unsent \subseteq Jobs
    /\ owed   \in [Workers -> SUBSET Jobs]

\* A worker has a job exactly while it is executing a run.
TasksFit ==
    \A w \in Workers : (job[w] = NoJob) <=> (pc[w] \in {"idle", "reconciling"})

TasksType ==
    /\ pc    \in [Workers -> PC]
    /\ job   \in [Workers -> Jobs \cup {NoJob}]
    /\ seen  \in [Workers -> Row]
    /\ found \in [Workers -> Nat]
    /\ scan  \in [Workers -> [queued : SUBSET Jobs, running : SUBSET Jobs]]
    /\ TasksFit

BoundsType ==
    /\ crashes \in 0..MaxCrashes
    /\ losses  \in 0..MaxLosses
    /\ runs    \in 0..MaxRuns

\* Every variable has its type, and what a worker holds fits what it is doing.
TypeOK == RowsType /\ MessagesType /\ TasksType /\ BoundsType

\* GET /ocr/jobs/{id}/results answers with rows whenever it does not answer 409:
\* a succeeded job has its results, whatever runs, retries and resets overlapped.
SucceededHasResults ==
    \A j \in Jobs : row[j].status = "succeeded" => results[j] > 0

\* Erasure is complete: no run, retry, requeue or late commit brings back the row
\* or the extracted text of a purged document.
PurgeIsComplete ==
    \A j \in Jobs : docs[j] = "purged" => row[j].status = "absent" /\ results[j] = 0

\* Every attempt beyond ocr_max_attempts is one a crash cut short (one worker).
AttemptsAccounted ==
    \A j \in Jobs : row[j].attempts <= MaxAttempts + crashes

\* workers/ocr_jobs.py treats succeeded, failed and cancelled as terminal, and the
\* console stops polling at them: only an erasure changes a final status.  The code does
\* not keep this: of two workers whose runs overlap, the one that ends last decides.
FinalIsFinal ==
    [][\A j \in Jobs : row[j].status \in Final
          => row'[j].status \in {row[j].status, "absent"}]_vars

\* With one worker process the whole machinery implements OcrPromise.
Promise == INSTANCE OcrPromise WITH
    outcome <- [j \in Jobs |->
                   IF docs[j] = "purged" THEN "erased"
                   ELSE IF row[j].status = "absent" THEN "none"
                   ELSE IF row[j].status \in Live THEN "pending" ELSE row[j].status],
    text    <- results

\* A client of the API sees the behaviour OcrPromise describes, and a pending job
\* is decided, whatever is lost, repeated, crashed or reset underneath.
PromiseKept == Promise!Spec

\* "assume worker crash": the reconciler resets a running job only when no worker
\* is executing it.  The code does not keep this: started_at is that of the first attempt.
ResetOnlyAfterCrash ==
    [][\A w \in Workers : Requeue(w)
          => \A j \in scan[w].running : ~ \E v \in Workers : Executing(v, j)]_vars

\* "Max OCR worker attempts before permanent failed": attempt_count never passes it.
\* The code does not keep this: a redelivered run counts without looking at the limit.
AttemptsWithinMax ==
    \A j \in Jobs : row[j].attempts <= MaxAttempts
==============================================================================
