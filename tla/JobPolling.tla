----------------------------- MODULE JobPolling -----------------------------
(***************************************************************************)
(* The web client watching jobs: usePolling as OcrConsole and              *)
(* PipelinesConsole use it.  The user starts a job or picks one from the   *)
(* table, the polling loop asks the API for the active job until it is     *)
(* decided, and the table shows what the answers say.                      *)
(*                                                                         *)
(* A job here is what the API reports of an OCR job or a pipeline run; how *)
(* the backend decides it is OcrPromise's business.  Every callback of the *)
(* browser is one action, and an answer is a snapshot taken when the       *)
(* server handles the request, which may be long before it arrives.  The   *)
(* client treats queued and running alike, here "pending", and the backend *)
(* cancels no job.  The specification is called ClientSpec, and so on, so  *)
(* that the module can stand beside another in one module of proofs.       *)
(***************************************************************************)
EXTENDS Naturals

CONSTANTS
    Jobs,          \* jobs of the user, started here or on an earlier visit
    Reloads,       \* may the user change the document, which reloads the table?
    Interval,      \* intervalMs, in units of 500 ms
    MaxInterval    \* maxIntervalMs, likewise

ASSUME ClientAssumption ==
    /\ Reloads \in BOOLEAN
    /\ Interval \in Nat /\ MaxInterval \in Nat /\ Interval <= MaxInterval
    /\ "no job" \notin Jobs

VARIABLES
    server,     \* server[j]: the status of j in the database
    creating,   \* the job whose creation the client is waiting for
    created,    \* the status its creation is going to be answered with
    active,     \* activeJobId
    shown,      \* shown[j]: the status in the table's first row for j
    results,    \* the job whose results are displayed
    wanted,     \* the job whose results have been asked for
    loop,       \* the polling loop of the effect
    asked,      \* the job the loop's request is about
    answer,     \* the status the server answered it with, "absent" before that
    tick,       \* tickRef: the current interval
    loading,    \* the request for the table: "no", "asked" or "answered"
    page        \* the table as the server answered it

tableVars  == <<shown, loading, page>>
loopVars   == <<loop, asked, answer, tick>>
resultVars == <<results, wanted>>
clientVars == <<server, creating, created, active, tableVars, loopVars, resultVars>>

-----------------------------------------------------------------------------

NoJob  == "no job"
Final  == {"succeeded", "failed", "cancelled"}    \* TERMINAL
Status == {"absent", "pending", "succeeded", "failed"}
Loops  == {"off",        \* not enabled
           "asking",     \* the request is under way
           "answered",   \* the answer is under way
           "waiting",    \* setTimeout
           "stopped",    \* stopWhen returned true
           "unmounted"}

Mounted == loop # "unmounted"

NoTable == [j \in Jobs |-> "absent"]

\* LoadingState replaces the table and the buttons.
Clickable == Mounted /\ loading = "no"

\* The page is opened: some jobs exist already, and the table is asked for.
ClientInit ==
    /\ server   \in [Jobs -> Status]
    /\ creating = NoJob
    /\ created  = "absent"
    /\ active   = NoJob
    /\ shown    = NoTable
    /\ results  = NoJob
    /\ wanted   = NoJob
    /\ loop     = "off"
    /\ asked    = NoJob
    /\ answer   = "absent"
    /\ tick     = Interval
    /\ loading  = "asked"
    /\ page     = NoTable

\* The backend decides a job.
Progress(j) ==
    /\ server[j] = "pending"
    /\ \E s \in {"succeeded", "failed"} : server' = [server EXCEPT ![j] = s]
    /\ UNCHANGED <<creating, created, active, tableVars, loopVars, resultVars>>

-----------------------------------------------------------------------------
(* The table                                                               *)

\* Another document is selected: reload depends on documentId.
Reload ==
    /\ Reloads /\ Clickable
    /\ loading' = "asked"
    /\ UNCHANGED <<server, creating, created, active, shown, page, loopVars, resultVars>>

ServeList ==
    /\ Mounted /\ loading = "asked"
    /\ loading' = "answered"
    /\ page'    = server
    /\ UNCHANGED <<server, creating, created, active, shown, loopVars, resultVars>>

\* setJobs(j.items): the table is replaced, whatever it says by then.
ListArrives ==
    /\ Mounted /\ loading = "answered"
    /\ loading' = "no"
    /\ shown'   = page
    /\ page'    = NoTable
    /\ UNCHANGED <<server, creating, created, active, loopVars, resultVars>>

ListFails ==
    /\ Mounted /\ loading # "no"
    /\ loading' = "no"
    /\ page'    = NoTable
    /\ UNCHANGED <<server, creating, created, active, shown, loopVars, resultVars>>

-----------------------------------------------------------------------------
(* The buttons                                                             *)

\* setActiveJobId.  The effect of usePolling depends on enabled: it runs when the
\* first job becomes active, and never again.
Watch(j) ==
    /\ active' = j
    /\ IF active = NoJob
       THEN loop' = "asking" /\ asked' = j /\ tick' = Interval
       ELSE UNCHANGED <<loop, asked, tick>>

\* startJob, up to its await; the button is disabled until the answer.
StartJob(j) ==
    /\ Clickable
    /\ creating = NoJob
    /\ server[j] = "absent"
    /\ creating' = j
    /\ results'  = NoJob
    /\ UNCHANGED <<server, created, active, tableVars, loopVars, wanted>>

\* The server creates the job.
ServeStart ==
    /\ creating # NoJob
    /\ server[creating] = "absent"
    /\ server'  = [server EXCEPT ![creating] = "pending"]
    /\ created' = "pending"
    /\ UNCHANGED <<creating, active, tableVars, loopVars, resultVars>>

\* createOcrJob then reads the job, and does without if that request fails.
ServeCreated ==
    /\ created # "absent"
    /\ created' = server[creating]
    /\ UNCHANGED <<server, creating, active, tableVars, loopVars, resultVars>>

\* The rest of startJob: the new job becomes active.
JobStarted ==
    /\ Mounted
    /\ created # "absent"
    /\ Watch(creating)
    /\ shown'    = [shown EXCEPT ![creating] = created]
    /\ creating' = NoJob
    /\ created'  = "absent"
    /\ UNCHANGED <<server, answer, loading, page, resultVars>>

\* The creation is answered with an error, or its answer is lost.
StartFailed ==
    /\ Mounted
    /\ creating # NoJob
    /\ creating' = NoJob
    /\ created'  = "absent"
    /\ UNCHANGED <<server, active, tableVars, loopVars, resultVars>>

\* A click on a row of the table.
ChooseJob(j) ==
    /\ Clickable
    /\ shown[j] # "absent"
    /\ Watch(j)
    /\ results' = NoJob
    /\ UNCHANGED <<server, creating, created, tableVars, answer, wanted>>

-----------------------------------------------------------------------------
(* The loop of usePolling                                                  *)

Serve ==
    /\ loop = "asking"
    /\ loop'   = "answered"
    /\ answer' = server[asked]
    /\ UNCHANGED <<server, creating, created, active, tableVars, asked, tick, resultVars>>

\* Mutant of Backoff: the interval grows without a limit.
BackoffUnlimited == tick + 1

\* Math.min(tickRef.current + 500, maxIntervalMs).
Backoff == IF tick < MaxInterval THEN tick + 1 ELSE MaxInterval

\* Mutant of Polled: the answer is taken to be about the active job.
PolledActive(status) ==
    /\ shown' = [shown EXCEPT ![active] = status]
    /\ wanted' = IF status = "succeeded" THEN active ELSE wanted

\* setData and the effect of the console it triggers: the row of the polled job is
\* replaced, or put first when there is none, and a success asks for the results.
Polled(status) ==
    /\ shown' = [shown EXCEPT ![asked] = status]
    /\ wanted' = IF status = "succeeded" THEN asked ELSE wanted

\* The request and its answer are gone.
Answered == asked' = NoJob /\ answer' = "absent"

\* The await returns: show the answer, then stop or wait.
Arrive ==
    /\ loop = "answered"
    /\ Polled(answer)
    /\ IF answer \in Final
       THEN loop' = "stopped" /\ UNCHANGED tick
       ELSE loop' = "waiting" /\ tick' = Backoff
    /\ Answered
    /\ UNCHANGED <<server, creating, created, active, loading, page, results>>

\* Mutant of FetchFails: an error ends the polling.
FetchFailsForGood ==
    /\ loop \in {"asking", "answered"}
    /\ loop' = "stopped"
    /\ Answered
    /\ UNCHANGED <<server, creating, created, active, tableVars, tick, resultVars>>

\* The request fails, or its answer is lost: try again after the same interval.
FetchFails ==
    /\ loop \in {"asking", "answered"}
    /\ loop' = "waiting"
    /\ Answered
    /\ UNCHANGED <<server, creating, created, active, tableVars, tick, resultVars>>

\* Mutant of Tick: without the ref, the fetcher of an earlier render may be called.
TickFirstFetcher ==
    /\ loop = "waiting"
    /\ loop'  = "asking"
    /\ asked' \in {j \in Jobs : shown[j] # "absent"} \cup {active}
    /\ UNCHANGED <<server, creating, created, active, tableVars, answer, tick, resultVars>>

\* The timeout fires: fetcherRef.current asks for the job that is active now.
Tick ==
    /\ loop = "waiting"
    /\ loop'  = "asking"
    /\ asked' = active
    /\ UNCHANGED <<server, creating, created, active, tableVars, answer, tick, resultVars>>

\* getOcrResults returns.
ResultsArrive ==
    /\ Mounted /\ wanted # NoJob
    /\ results' = wanted
    /\ wanted'  = NoJob
    /\ UNCHANGED <<server, creating, created, active, tableVars, loopVars>>

ResultsFail ==
    /\ Mounted /\ wanted # NoJob
    /\ wanted' = NoJob
    /\ UNCHANGED <<server, creating, created, active, tableVars, loopVars, results>>

\* The user leaves the page: cancelled is set and the timer cleared.
Unmount ==
    /\ Mounted
    /\ loop' = "unmounted"
    /\ Answered
    /\ UNCHANGED <<server, creating, created, active, tableVars, tick, resultVars>>

-----------------------------------------------------------------------------

ClientNext ==
    \/ \E j \in Jobs : Progress(j) \/ StartJob(j) \/ ChooseJob(j)
    \/ Reload \/ ServeList \/ ListArrives \/ ListFails
    \/ ServeStart \/ ServeCreated \/ JobStarted \/ StartFailed
    \/ Serve \/ Arrive \/ FetchFails \/ Tick
    \/ ResultsArrive \/ ResultsFail
    \/ Unmount

ClientSpec == ClientInit /\ [][ClientNext]_clientVars

\* Timers fire and requests end.  A request may fail, but not every one does: a
\* server that is reached again and again answers, and an answer arrives.
Fairness ==
    /\ WF_clientVars(Tick)
    /\ SF_clientVars(Serve)
    /\ SF_clientVars(Arrive)
    /\ WF_clientVars(ServeList) /\ WF_clientVars(ListArrives \/ ListFails)
    /\ WF_clientVars(JobStarted \/ StartFailed)
    /\ WF_clientVars(ResultsArrive \/ ResultsFail)

FairSpec == ClientSpec /\ Fairness

-----------------------------------------------------------------------------
(* Properties                                                              *)

\* Types; the interval stays between its first value and its limit, and a loop
\* that runs asks for a job (usePolling.ts, tickRef and the non-null activeJobId).
ClientTypeOK ==
    /\ server   \in [Jobs -> Status]
    /\ creating \in Jobs \cup {NoJob}
    /\ created  \in Status
    /\ active   \in Jobs \cup {NoJob}
    /\ shown    \in [Jobs -> Status]
    /\ results  \in Jobs \cup {NoJob}
    /\ wanted   \in Jobs \cup {NoJob}
    /\ loop     \in Loops
    /\ asked    \in Jobs \cup {NoJob}
    /\ answer   \in Status
    /\ tick     \in Interval..MaxInterval
    /\ loading  \in {"no", "asked", "answered"}
    /\ page     \in [Jobs -> Status]
    /\ loop \in {"asking", "answered", "waiting"} => active # NoJob
    /\ loop \in {"asking", "answered"} => asked # NoJob
    /\ created # "absent" => creating # NoJob

\* A decided status in the table is the one in the database, and results that are
\* displayed or asked for are those of a succeeded job, although answers arrive
\* late, out of order and for jobs the user no longer looks at (OcrConsole.tsx,
\* the effect on polled).
ShownIsTrue ==
    /\ \A j \in Jobs : shown[j] \in Final => shown[j] = server[j]
    /\ \A j \in {results, wanted} \ {NoJob} : server[j] = "succeeded"

\* Polling does not go on for a job that is decided: the loop ends, whichever jobs
\* it has been following before (usePolling.ts, stopWhen and fetcherRef).
PollingEnds ==
    \A j \in Jobs :
        (active = j /\ server[j] \in Final)
            ~> (loop \in {"stopped", "unmounted"} \/ active # j)

\* A loop that follows a job, its next request being about it, comes to show how it
\* ended, although requests fail and the table is reloaded meanwhile.
PolledIsShown ==
    \A j \in Jobs :
        (/\ active = j
         /\ server[j] \in Final
         /\ loop = "waiting" \/ (loop \in {"asking", "answered"} /\ asked = j))
            ~> (shown[j] = server[j] \/ active # j \/ ~ Mounted)

\* The stronger promise of usePolling.ts, to poll until stopWhen returns true or
\* unmount: however the user came to the active job, the table comes to show how it
\* ended.  It fails: the loop is started once, and has stopped at an earlier job.
DecidedIsShown ==
    \A j \in Jobs :
        (active = j /\ server[j] \in Final)
            ~> (shown[j] = server[j] \/ active # j \/ ~ Mounted)

==============================================================================
