------------------------------ MODULE Pipeline ------------------------------
(***************************************************************************)
(* A pipeline run: preprocess -> ocr -> ai_analyze -> persist, executed by *)
(* a worker with a commit between each two stages, against crashes and the *)
(* redelivery of the run's message, the deletion of its document, and the  *)
(* OCR reconciler, which takes the inner OCR jobs a crash left behind.     *)
(*                                                                         *)
(* Of an inner OCR job only the outcome its pipeline run gives it appears  *)
(* here; one the reconciler has taken over is anybody's, and OcrJobs       *)
(* models what becomes of it.  Every action is one database transaction,   *)
(* one call to a provider, or one step of Redis.                           *)
(***************************************************************************)
EXTENDS Naturals, Sequences

CONSTANTS
    Runs,        \* pipeline runs that may be created
    Workers,     \* worker processes
    LongRuns,    \* may a run outlast ARQ's in-progress key?
    MaxCrashes   \* bound: worker crashes, below ARQ's max_tries (5)

ASSUME ConstantsAssumption ==
    /\ LongRuns \in BOOLEAN
    /\ MaxCrashes \in 0..4
    /\ "no run" \notin Runs

VARIABLES
    row,       \* row[r]: the pipeline_runs row of r
    docs,      \* docs[r]: the document r refers to
    jobs,      \* jobs[r]: the OCR jobs created for r, in order; job k is jobs[r][k]
    requests,  \* requests[r]: ai_requests of r, in order; each names its OCR job
    calls,     \* calls[r]: answers of AI providers that r has paid for
    unsent,    \* runs committed by the API whose message is not enqueued yet
    message,   \* message[r]: "pipeline:{id}" is in Redis, waiting or in progress
    lost,      \* runs whose message was lost
    broken,    \* runs an error ended before the row said so: ARQ retries no error
    pc,        \* pc[w]: what worker w is executing
    at,        \* at[w]: the run w is executing
    seen,      \* seen[w]: the row as w's database session holds it
    stages,    \* stages[w]: w's own list of stages, written whole at each commit
    options,   \* options[w]: the options w took from the row
    blame,     \* blame[w]: the stage a failure of w is recorded for
    crashes    \* worker crashes so far

dataVars == <<row, docs, jobs, requests, calls>>
taskVars == <<pc, at, seen, stages, options, blame>>
vars     == <<row, docs, jobs, requests, calls, unsent, message, lost, broken,
              pc, at, seen, stages, options, blame, crashes>>

-----------------------------------------------------------------------------
(* The row and its list of stages                                          *)

StageNames == {"preprocess", "ocr", "ai_analyze", "persist"}

\* The stages before each stage.
Prior == [preprocess |-> {},
          ocr        |-> {"preprocess"},
          ai_analyze |-> {"preprocess", "ocr"},
          persist    |-> {"preprocess", "ocr", "ai_analyze"}]

\* The JSON list: status and output_ref of each stage, and whether the first one
\* still carries the user's options.  A reference is the number of the OCR job or
\* AI request, or 1 where there is only one thing to name; 0 is no reference.
\* "running" is never committed: it is set in the worker's own list only.
Stages == [at    : [StageNames -> {"pending", "succeeded", "failed"}],
           ref   : [StageNames -> Nat],
           input : BOOLEAN]

NoRef == 0

InitialStages == [at    |-> [s \in StageNames |-> "pending"],
                  ref   |-> [s \in StageNames |-> NoRef],
                  input |-> TRUE]

\* _set_stage; only the entry of "preprocess" has an input to clear, and it is
\* cleared whenever that stage ends.
SetStage(list, name, status, ref) ==
    [at    |-> [list.at EXCEPT ![name] = status],
     ref   |-> [list.ref EXCEPT ![name] = IF ref = NoRef THEN @ ELSE ref],
     input |-> list.input /\ name # "preprocess"]

\* _extract_options: the options of the request, or the defaults.
OptionsOf(list) == IF list.input THEN "given" ELSE "default"

\* Whom the error column names: a stage, or nobody for an unexpected exception.
Blame == StageNames \cup {"none", "unexpected"}

Row == [status    : {"absent", "queued", "running", "succeeded", "failed"},
        stages    : Stages,
        ocrJob    : Nat,                                   \* ocr_job_id
        aiRequest : Nat,                                   \* ai_request_id
        error     : Blame]

AbsentRow == [status |-> "absent", stages |-> InitialStages,
              ocrJob |-> NoRef, aiRequest |-> NoRef, error |-> "none"]

QueuedRow == [AbsentRow EXCEPT !.status = "queued"]

Exists(r) == row[r].status # "absent"

\* What an UPDATE leaves in the row: the columns in which the session's object
\* differs from what it loaded, and stages when it is flagged as modified.
Written(current, loaded, new, flagged) ==
    [status    |-> IF new.status # loaded.status THEN new.status ELSE current.status,
     stages    |-> IF flagged THEN new.stages ELSE current.stages,
     ocrJob    |-> IF new.ocrJob # loaded.ocrJob THEN new.ocrJob ELSE current.ocrJob,
     aiRequest |-> IF new.aiRequest # loaded.aiRequest THEN new.aiRequest
                   ELSE current.aiRequest,
     error     |-> IF new.error # loaded.error THEN new.error ELSE current.error]

\* Mutant of Returned: a run marked running is taken to be in good hands.
ReturnedOrRunning == {"absent", "running", "succeeded"}

\* Mutant of Returned: a succeeded run is executed again.
ReturnedMissing == {"absent"}

\* The statuses at which run returns at once; nothing sets "cancelled", and a
\* failed run is executed again.
Returned == {"absent", "succeeded"}

-----------------------------------------------------------------------------
(* Workers                                                                 *)

NoRun == "no run"

PC == {"idle",         \* the event loop is free
       "loaded",       \* run: the row is read, stages cloned, options taken
       "preprocess",   \* marked running
       "ocr",          \* preprocess committed
       "recognizing",  \* the inner OCR job is committed
       "extracting",   \* the inner OCR job has opened the document
       "recognized",   \* the inner OCR job succeeded
       "rejected",     \* the inner OCR job failed
       "ai_analyze",   \* ocr committed
       "answered",     \* the provider has answered
       "analyzed",     \* the AI request is committed
       "persist",      \* ai_analyze committed
       "failing",      \* rolled back and reloaded, the failed stage set
       "done"}         \* run has returned; the message is not removed yet

Idle(w) == pc[w] = "idle"

\* Mutant of Free: job_timeout is shorter than a run may take.
FreeTooSoon(r) ==
    \A w \in Workers : at[w] = r => pc[w] \in {"extracting", "ai_analyze"}

\* Nobody executes r, or those who do have been inside the OCR engine or a provider
\* call for longer than ARQ's in-progress key lives (job_timeout and 10 seconds).
Free(r) ==
    \A w \in Workers : at[w] = r => LongRuns /\ pc[w] \in {"extracting", "ai_analyze"}

\* w is inside the inner OCR job k of run r.
Recognizing(w, r, k) ==
    at[w] = r /\ pc[w] \in {"recognizing", "extracting"} /\ seen[w].ocrJob = k

\* Mutant of EndTask: the finished run is not let go.
EndTaskKeepingRun(w) ==
    /\ pc'      = [pc EXCEPT ![w] = "idle"]
    /\ seen'    = [seen EXCEPT ![w] = AbsentRow]
    /\ stages'  = [stages EXCEPT ![w] = InitialStages]
    /\ options' = [options EXCEPT ![w] = "given"]
    /\ blame'   = [blame EXCEPT ![w] = "none"]
    /\ UNCHANGED at

\* The task is over: the session and everything the worker held are gone.
EndTask(w) ==
    /\ pc'      = [pc EXCEPT ![w] = "idle"]
    /\ at'      = [at EXCEPT ![w] = NoRun]
    /\ seen'    = [seen EXCEPT ![w] = AbsentRow]
    /\ stages'  = [stages EXCEPT ![w] = InitialStages]
    /\ options' = [options EXCEPT ![w] = "given"]
    /\ blame'   = [blame EXCEPT ![w] = "none"]

Goto(w, label) == pc' = [pc EXCEPT ![w] = label]

\* One commit of the session's object of w's run, with its list of stages.
Commit(w, new, flagged) ==
    /\ row'  = [row EXCEPT ![at[w]] = Written(@, seen[w], new, flagged)]
    /\ seen' = [seen EXCEPT ![w] = new]

Init ==
    /\ row      = [r \in Runs |-> AbsentRow]
    /\ docs     = [r \in Runs |-> "live"]
    /\ jobs     = [r \in Runs |-> <<>>]
    /\ requests = [r \in Runs |-> <<>>]
    /\ calls    = [r \in Runs |-> 0]
    /\ unsent   = {}
    /\ message  = [r \in Runs |-> FALSE]
    /\ lost     = {}
    /\ broken   = {}
    /\ pc       = [w \in Workers |-> "idle"]
    /\ at       = [w \in Workers |-> NoRun]
    /\ seen     = [w \in Workers |-> AbsentRow]
    /\ stages   = [w \in Workers |-> InitialStages]
    /\ options  = [w \in Workers |-> "given"]
    /\ blame    = [w \in Workers |-> "none"]
    /\ crashes  = 0

-----------------------------------------------------------------------------
(* The API process                                                         *)

\* PipelineService.create_run: the options travel inside the first stage.
CreateRun(r) ==
    /\ docs[r] = "live"
    /\ row[r].status = "absent"
    /\ row'    = [row EXCEPT ![r] = QueuedRow]
    /\ unsent' = unsent \cup {r}
    /\ UNCHANGED <<docs, jobs, requests, calls, message, lost, broken, taskVars, crashes>>

\* enqueue_run: its ARQ id is the run's, so there is one message at most.
EnqueueRun(r) ==
    /\ r \in unsent
    /\ unsent'  = unsent \ {r}
    /\ message' = [message EXCEPT ![r] = TRUE]
    /\ UNCHANGED <<dataVars, lost, broken, taskVars, crashes>>

\* The API process dies, or Redis refuses, between the commit and the enqueue.
LoseEnqueue(r) ==
    /\ r \in unsent
    /\ unsent' = unsent \ {r}
    /\ lost'   = lost \cup {r}
    /\ UNCHANGED <<dataVars, message, broken, taskVars, crashes>>

\* DocumentService.soft_delete.
SoftDelete(r) ==
    /\ docs[r] = "live"
    /\ docs' = [docs EXCEPT ![r] = "deleted"]
    /\ UNCHANGED <<row, jobs, requests, calls, unsent, message, lost, broken, taskVars, crashes>>

-----------------------------------------------------------------------------
(* A worker executing a run                                                *)

\* A worker with a free loop takes the message; run reads the row.
Deliver(w, r) ==
    /\ Idle(w)
    /\ message[r]
    /\ Free(r)
    /\ row[r].status \notin Returned
    /\ pc'      = [pc EXCEPT ![w] = "loaded"]
    /\ at'      = [at EXCEPT ![w] = r]
    /\ seen'    = [seen EXCEPT ![w] = row[r]]
    /\ stages'  = [stages EXCEPT ![w] = row[r].stages]
    /\ options' = [options EXCEPT ![w] = OptionsOf(row[r].stages)]
    /\ UNCHANGED <<dataVars, unsent, message, lost, broken, blame, crashes>>

\* run returns at once, and the message is removed.
SkipDelivery(w, r) ==
    /\ Idle(w)
    /\ message[r]
    /\ Free(r)
    /\ row[r].status \in Returned
    /\ message' = [message EXCEPT ![r] = FALSE]
    /\ UNCHANGED <<dataVars, unsent, lost, broken, taskVars, crashes>>

\* Mutant of MarkRunning: the message is acknowledged when the run begins.
MarkRunningAcknowledging(w) ==
    /\ pc[w] = "loaded"
    /\ Exists(at[w])
    /\ Commit(w, [seen[w] EXCEPT !.status = "running", !.error = "none"], FALSE)
    /\ message' = [message EXCEPT ![at[w]] = FALSE]
    /\ Goto(w, "preprocess")
    /\ UNCHANGED <<docs, jobs, requests, calls, unsent, lost, broken,
                   at, stages, options, blame, crashes>>

\* mark_running and its commit.
MarkRunning(w) ==
    /\ pc[w] = "loaded"
    /\ Exists(at[w])
    /\ Commit(w, [seen[w] EXCEPT !.status = "running", !.error = "none"], FALSE)
    /\ Goto(w, "preprocess")
    /\ UNCHANGED <<docs, jobs, requests, calls, unsent, message, lost, broken,
                   at, stages, options, blame, crashes>>

\* The row was deleted since it was read.  Outside the try block, or in the
\* handler of a failure, the error leaves run and the ARQ job fails; inside, the
\* reload finds nothing and run returns "missing".  Neither writes anything, and
\* ARQ does not try again.
Vanished(w) ==
    /\ pc[w] \in {"loaded", "ocr", "recognizing", "extracting", "recognized",
                  "analyzed", "persist", "failing"}
    /\ ~ Exists(at[w])
    /\ Goto(w, "done")
    /\ UNCHANGED <<dataVars, unsent, message, lost, broken, at, seen, stages, options,
                   blame, crashes>>

\* Mutant of Raise: the list of stages is rebuilt from nothing.
RaiseFromScratch(w, who, ref) ==
    LET failed == IF who = "unexpected" THEN "persist" ELSE who IN
    IF Exists(at[w])
    THEN /\ Goto(w, "failing")
         /\ seen'   = [seen EXCEPT ![w] = row[at[w]]]
         /\ stages' = [stages EXCEPT ![w] = SetStage(InitialStages, failed, "failed", ref)]
         /\ blame'  = [blame EXCEPT ![w] = who]
    ELSE Goto(w, "done") /\ UNCHANGED <<seen, stages, blame>>

\* except: roll back, read the row again, clone its stages and set the failed
\* one.  Whatever is not a PipelineStageError is put down to "persist".
Raise(w, who, ref) ==
    LET failed == IF who = "unexpected" THEN "persist" ELSE who IN
    IF Exists(at[w])
    THEN /\ Goto(w, "failing")
         /\ seen'   = [seen EXCEPT ![w] = row[at[w]]]
         /\ stages' = [stages EXCEPT ![w] =
                          SetStage(row[at[w]].stages, failed, "failed", ref)]
         /\ blame'  = [blame EXCEPT ![w] = who]
    ELSE Goto(w, "done") /\ UNCHANGED <<seen, stages, blame>>

\* The stage ends with an error: nothing is written before the handler's commit.
StageRaises(w, who, ref) ==
    /\ Raise(w, who, ref)
    /\ UNCHANGED <<dataVars, unsent, message, lost, broken, at, options, crashes>>

\* No document, no stored object, or too many pages.
PreprocessFails(w) == pc[w] = "preprocess" /\ StageRaises(w, "preprocess", NoRef)

\* Where the worker may be when a statement, a commit or a call of the try raises.
InTry == {"preprocess", "ocr", "recognizing", "extracting", "recognized",
          "ai_analyze", "answered", "analyzed", "persist"}

\* Any error that is not a PipelineStageError: pages that cannot be read, a provider
\* the factory does not know, a statement or commit that fails anywhere in a stage.
StageBreaks(w) == pc[w] \in InTry /\ StageRaises(w, "unexpected", NoRef)

\* mark_running or its commit fails, outside the try, or so does the handler of an
\* error: the exception leaves run with nothing written, and ARQ does not try again.
BreakOff(w) ==
    /\ pc[w] \in InTry \cup {"loaded", "rejected", "failing"}
    /\ broken' = broken \cup {at[w]}
    /\ Goto(w, "done")
    /\ UNCHANGED <<dataVars, unsent, message, lost, at, seen, stages, options,
                   blame, crashes>>

\* _persist_progress: the worker's list and what else the session changed.
PersistProgress(w, new, list) ==
    /\ Commit(w, [new EXCEPT !.stages = list], TRUE)
    /\ stages' = [stages EXCEPT ![w] = list]

\* Mutant of Preprocess: the options are taken from the list after the stage.
PreprocessThenOptions(w) ==
    LET list == SetStage(stages[w], "preprocess", "succeeded", 1) IN
    /\ pc[w] = "preprocess"
    /\ docs[at[w]] = "live"
    /\ PersistProgress(w, seen[w], list)
    /\ options' = [options EXCEPT ![w] = OptionsOf(list)]
    /\ Goto(w, "ocr")
    /\ UNCHANGED <<docs, jobs, requests, calls, unsent, message, lost, broken,
                   at, blame, crashes>>

\* The pages are counted and loaded; the stage is committed.
Preprocess(w) ==
    /\ pc[w] = "preprocess"
    /\ docs[at[w]] = "live"
    /\ PersistProgress(w, seen[w], SetStage(stages[w], "preprocess", "succeeded", 1))
    /\ Goto(w, "ocr")
    /\ UNCHANGED <<docs, jobs, requests, calls, unsent, message, lost, broken,
                   at, options, blame, crashes>>

\* A new OCR job for every execution, committed before it is run.
CreateOcrJob(w) ==
    LET r == at[w] IN
    /\ pc[w] = "ocr"
    /\ Exists(r)
    /\ jobs' = [jobs EXCEPT ![r] =
                   Append(@, [outcome |-> "pending", options |-> options[w]])]
    /\ Commit(w, [seen[w] EXCEPT !.ocrJob = Len(jobs[r]) + 1], FALSE)
    /\ Goto(w, "recognizing")
    /\ UNCHANGED <<docs, requests, calls, unsent, message, lost, broken,
                   at, stages, options, blame, crashes>>

\* OcrJobRunner._process finds the document.
OcrOpensDocument(w) ==
    /\ pc[w] = "recognizing"
    /\ docs[at[w]] = "live"
    /\ Goto(w, "extracting")
    /\ UNCHANGED <<dataVars, unsent, message, lost, broken, at, seen, stages, options,
                   blame, crashes>>

\* The inner run decides its OCR job, in a transaction of its own; what that is
\* worth for a job the reconciler has put back, OcrJobs says.
OcrDecides(w, outcome, label) ==
    /\ Exists(at[w])
    /\ jobs' = [jobs EXCEPT ![at[w]][seen[w].ocrJob].outcome =
                    IF @ = "requeued" THEN @ ELSE outcome]
    /\ Goto(w, label)
    /\ UNCHANGED <<row, docs, requests, calls, unsent, message, lost, broken,
                   at, seen, stages, options, blame, crashes>>

OcrSucceeds(w) == pc[w] = "extracting" /\ OcrDecides(w, "succeeded", "recognized")

\* max_attempts is 1: the first failure is the last.
OcrFails(w) ==
    pc[w] \in {"recognizing", "extracting"} /\ OcrDecides(w, "failed", "rejected")

\* Mutant of OcrRejected: the outcome of the inner run is not looked at.
OcrRejectedUnchecked(w) ==
    /\ pc[w] = "rejected"
    /\ Goto(w, "recognized")
    /\ UNCHANGED <<dataVars, unsent, message, lost, broken, at, seen, stages, options,
                   blame, crashes>>

OcrRejected(w) == pc[w] = "rejected" /\ StageRaises(w, "ocr", seen[w].ocrJob)

\* _persist_progress after the ocr stage.
CommitOcr(w) ==
    /\ pc[w] = "recognized"
    /\ Exists(at[w])
    /\ PersistProgress(w, seen[w], SetStage(stages[w], "ocr", "succeeded", seen[w].ocrJob))
    /\ Goto(w, "ai_analyze")
    /\ UNCHANGED <<docs, jobs, requests, calls, unsent, message, lost, broken,
                   at, options, blame, crashes>>

\* The prompt cannot be rendered, or the provider (and its fallback) fails.
AnalysisFails(w) == pc[w] = "ai_analyze" /\ StageRaises(w, "ai_analyze", NoRef)

\* The text of the OCR job goes to the provider, which answers and charges.
ProviderAnswers(w) ==
    /\ pc[w] = "ai_analyze"
    /\ calls' = [calls EXCEPT ![at[w]] = @ + 1]
    /\ Goto(w, "answered")
    /\ UNCHANGED <<row, docs, jobs, requests, unsent, message, lost, broken,
                   at, seen, stages, options, blame, crashes>>

\* The AI request and its usage, committed apart from the run's row: this works
\* even when the row is gone.
RecordRequest(w) ==
    LET r == at[w] IN
    /\ pc[w] = "answered"
    /\ requests' = [requests EXCEPT ![r] = Append(@, seen[w].ocrJob)]
    /\ stages'   = [stages EXCEPT ![w] =
                       SetStage(@, "ai_analyze", "succeeded", Len(requests[r]) + 1)]
    /\ Goto(w, "analyzed")
    /\ UNCHANGED <<row, docs, jobs, calls, unsent, message, lost, broken,
                   at, seen, options, blame, crashes>>

\* Mutant of CommitAi: ai_request_id is set only where it is still empty.
CommitAiOnce(w) ==
    LET request == IF seen[w].aiRequest = NoRef THEN stages[w].ref["ai_analyze"]
                   ELSE seen[w].aiRequest IN
    /\ pc[w] = "analyzed"
    /\ Exists(at[w])
    /\ PersistProgress(w, [seen[w] EXCEPT !.aiRequest = request], stages[w])
    /\ Goto(w, "persist")
    /\ UNCHANGED <<docs, jobs, requests, calls, unsent, message, lost, broken,
                   at, options, blame, crashes>>

\* _persist_progress after the ai_analyze stage.
CommitAi(w) ==
    /\ pc[w] = "analyzed"
    /\ Exists(at[w])
    /\ PersistProgress(w, [seen[w] EXCEPT !.aiRequest = stages[w].ref["ai_analyze"]],
                       stages[w])
    /\ Goto(w, "persist")
    /\ UNCHANGED <<docs, jobs, requests, calls, unsent, message, lost, broken,
                   at, options, blame, crashes>>

\* The persist stage, mark_succeeded and the last commit.
Persist(w) ==
    LET list == SetStage(stages[w], "persist", "succeeded", 1) IN
    /\ pc[w] = "persist"
    /\ Exists(at[w])
    /\ PersistProgress(w, [seen[w] EXCEPT !.status = "succeeded", !.error = "none"], list)
    /\ Goto(w, "done")
    /\ UNCHANGED <<docs, jobs, requests, calls, unsent, message, lost, broken,
                   at, options, blame, crashes>>

\* mark_failed and its commit.
RecordFailure(w) ==
    /\ pc[w] = "failing"
    /\ Exists(at[w])
    /\ PersistProgress(w, [seen[w] EXCEPT !.status = "failed", !.error = blame[w]], stages[w])
    /\ Goto(w, "done")
    /\ UNCHANGED <<docs, jobs, requests, calls, unsent, message, lost, broken,
                   at, options, blame, crashes>>

\* run has returned: ARQ removes the message.
Finish(w) ==
    /\ pc[w] = "done"
    /\ message' = [message EXCEPT ![at[w]] = FALSE]
    /\ EndTask(w)
    /\ UNCHANGED <<dataVars, unsent, lost, broken, crashes>>

-----------------------------------------------------------------------------
(* Around the worker                                                       *)

\* The reconciler finds an undecided OCR job stale and puts it back: nobody is inside
\* it, or its pipeline run has been recognizing for longer than stale_running_seconds.
\* From now on the runs of its messages decide it, perhaps again and again (OcrJobs).
Reconcile(r, k) ==
    /\ jobs[r][k].outcome = "pending"
    /\ \A w \in Workers : Recognizing(w, r, k) => LongRuns /\ pc[w] = "extracting"
    /\ jobs' = [jobs EXCEPT ![r][k].outcome = "requeued"]
    /\ UNCHANGED <<row, docs, requests, calls, unsent, message, lost, broken,
                   taskVars, crashes>>

\* An erasure job, in a worker process with a free loop, hard-deletes the document;
\* the cascade removes the run's row and its OCR jobs, and leaves the AI requests.
PurgeDocument(w, r) ==
    /\ Idle(w)
    /\ docs[r] # "purged"
    /\ docs' = [docs EXCEPT ![r] = "purged"]
    /\ row'  = [row EXCEPT ![r] = AbsentRow]
    /\ jobs' = [jobs EXCEPT ![r] =
                   [k \in DOMAIN @ |-> [@[k] EXCEPT !.outcome = "erased"]]]
    /\ UNCHANGED <<requests, calls, unsent, message, lost, broken, taskVars, crashes>>

\* A worker process dies and is restarted; its message is still in Redis and is
\* taken again once its in-progress key has expired.
Crash(w) ==
    /\ crashes < MaxCrashes
    /\ ~ Idle(w)
    /\ EndTask(w)
    /\ crashes' = crashes + 1
    /\ UNCHANGED <<dataVars, unsent, message, lost, broken>>

\* Redis restarts without its data (AOF is optional).
LoseQueue ==
    /\ \E r \in Runs : message[r]
    /\ lost'    = lost \cup {r \in Runs : message[r]}
    /\ message' = [r \in Runs |-> FALSE]
    /\ UNCHANGED <<dataVars, unsent, broken, taskVars, crashes>>

-----------------------------------------------------------------------------

Run(w) ==
    \/ MarkRunning(w) \/ Vanished(w)
    \/ Preprocess(w) \/ PreprocessFails(w)
    \/ CreateOcrJob(w) \/ OcrOpensDocument(w) \/ OcrSucceeds(w) \/ OcrFails(w)
    \/ OcrRejected(w) \/ CommitOcr(w)
    \/ AnalysisFails(w) \/ ProviderAnswers(w)
    \/ RecordRequest(w) \/ CommitAi(w) \/ Persist(w)
    \/ StageBreaks(w) \/ RecordFailure(w) \/ BreakOff(w) \/ Finish(w)

Next ==
    \/ \E r \in Runs : \/ CreateRun(r) \/ EnqueueRun(r) \/ LoseEnqueue(r)
                       \/ SoftDelete(r)
                       \/ \E k \in DOMAIN jobs[r] : Reconcile(r, k)
    \/ \E w \in Workers, r \in Runs : \/ Deliver(w, r) \/ SkipDelivery(w, r)
                                      \/ PurgeDocument(w, r)
    \/ \E w \in Workers : Run(w) \/ Crash(w)
    \/ LoseQueue

Spec == Init /\ [][Next]_vars

(***************************************************************************)
(* Fairness.  run is a plain call that returns (storage, engine and        *)
(* provider calls are assumed to, with their timeouts); a free worker      *)
(* polls the queue and takes messages in the order of their scores, so a   *)
(* waiting one is not passed over for ever; a request of the API ends, one *)
(* way or the other.                                                       *)
(***************************************************************************)
Fairness ==
    /\ \A w \in Workers : WF_vars(Run(w))
    /\ \A r \in Runs :
          /\ SF_vars(\E w \in Workers : Deliver(w, r) \/ SkipDelivery(w, r))
          /\ WF_vars(EnqueueRun(r) \/ LoseEnqueue(r))

FairSpec == Spec /\ Fairness
-----------------------------------------------------------------------------
(* Properties                                                              *)

RowsType ==
    /\ row      \in [Runs -> Row]
    /\ docs     \in [Runs -> {"live", "deleted", "purged"}]
    /\ jobs     \in [Runs -> Seq([outcome : {"pending", "succeeded", "failed",
                                             "requeued", "erased"},
                                  options : {"given", "default"}])]
    /\ requests \in [Runs -> Seq(Nat)]
    /\ calls    \in [Runs -> Nat]

MessagesType ==
    /\ unsent  \subseteq Runs
    /\ message \in [Runs -> BOOLEAN]
    /\ lost    \subseteq Runs
    /\ broken  \subseteq Runs

\* A worker has a run exactly while it is executing one.
TasksFit == \A w \in Workers : (at[w] = NoRun) <=> Idle(w)

TasksType ==
    /\ pc      \in [Workers -> PC]
    /\ at      \in [Workers -> Runs \cup {NoRun}]
    /\ seen    \in [Workers -> Row]
    /\ stages  \in [Workers -> Stages]
    /\ options \in [Workers -> {"given", "default"}]
    /\ blame   \in [Workers -> Blame]
    /\ TasksFit

\* Every variable has its type, and what a worker holds fits what it is doing.
TypeOK == RowsType /\ MessagesType /\ TasksType /\ crashes \in 0..MaxCrashes

\* A run shown as succeeded is whole: its four stages succeeded, their references
\* are the row's own columns, the OCR job they name succeeded, and the AI request
\* they name was made from that very job, however often a crash made it start over.
SucceededIsWhole ==
    \A r \in Runs : row[r].status = "succeeded" =>
        LET k == row[r].ocrJob
            q == row[r].aiRequest IN
        /\ \A s \in StageNames : row[r].stages.at[s] = "succeeded"
        /\ row[r].stages.ref["ocr"] = k
        /\ row[r].stages.ref["ai_analyze"] = q
        /\ k \in DOMAIN jobs[r] /\ jobs[r][k].outcome = "succeeded"
        /\ q \in DOMAIN requests[r] /\ requests[r][q] = k

\* "On failure, prior stages keep succeeded + output_ref": where a stage is named
\* as the one that failed, it is marked so and all the stages before it are kept.
PriorStagesKept ==
    \A r \in Runs : row[r].status = "failed" /\ row[r].error \in StageNames =>
        LET list == row[r].stages IN
        /\ list.at[row[r].error] = "failed"
        /\ \A s \in Prior[row[r].error] :
              list.at[s] = "succeeded" /\ list.ref[s] # NoRef

\* The pipeline never pays for the analysis of text that was not recognized: each
\* AI request names an OCR job of its run that succeeded (or is erased by now), or,
\* where runs may be long, one the reconciler put back under the run that was in it.
AnalysisOfOwnText ==
    \A r \in Runs : \A q \in DOMAIN requests[r] :
        /\ requests[r][q] \in DOMAIN jobs[r]
        /\ \/ jobs[r][requests[r][q]].outcome \in {"succeeded", "erased"}
           \/ LongRuns /\ jobs[r][requests[r][q]].outcome = "requeued"

\* A provider is paid once for a run, and once more for each crash.
CallsAccounted == \A r \in Runs : calls[r] <= 1 + crashes

\* The options of the request are given up only when a crash made the run start
\* over after preprocess had been committed.
DefaultsOnlyAfterCrash ==
    \A r \in Runs : \A k \in DOMAIN jobs[r] :
        jobs[r][k].options = "default" => crashes > 0

\* A client stops polling at "succeeded": from then on the row stays as it is until
\* it is erased.
SucceededStays ==
    [][\A r \in Runs : row[r].status = "succeeded" => row'[r] \in {row[r], AbsentRow}]_vars

\* A run a client still sees as queued or running is on its way: its message is in
\* Redis or about to be sent.  Only a lost message, or an error in mark_running or in
\* the handler of another, leaves such a run behind, and nothing scans for it.
UndecidedIsCarried ==
    \A r \in Runs : row[r].status \in {"queued", "running"} =>
        r \in unsent \/ message[r] \/ r \in lost \cup broken

\* A run whose message is not lost, and which no such error breaks off, is decided:
\* the client's polling ends.
RunDecided ==
    \A r \in Runs :
        row[r].status \in {"queued", "running"}
            ~> (row[r].status \notin {"queued", "running"} \/ r \in lost \cup broken)

\* "Client sees which stage failed": a failed run has a failed stage before which
\* every stage succeeded.  The code does not keep this: an error of no stage of its own
\* is put down to persist.
FailureBlamesItsStage ==
    \A r \in Runs : row[r].status = "failed" =>
        \E s \in StageNames :
            /\ row[r].stages.at[s] = "failed"
            /\ \A p \in Prior[s] : row[r].stages.at[p] = "succeeded"

\* The pipeline test asserts of a succeeded run that every stage shows "succeeded".
\* The code does not keep this: a second execution writes its own stages.
SucceededShowsStages ==
    \A r \in Runs : row[r].status = "succeeded" =>
        \A s \in StageNames : row[r].stages.at[s] = "succeeded"
=============================================================================
