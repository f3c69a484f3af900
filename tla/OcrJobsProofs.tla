---------------------------- MODULE OcrJobsProofs ----------------------------
(***************************************************************************)
(* Theorems about OcrJobs, for any number of jobs, workers, attempts,      *)
(* crashes, losses and messages, and whatever runs overlap; and, for one   *)
(* worker process, that the whole machinery implements OcrPromise.         *)
(***************************************************************************)
EXTENDS OcrJobs, TLAPS

-----------------------------------------------------------------------------
(* What the operators on rows and queues return                            *)

\* An UPDATE from a well-typed session object leaves a well-typed row.
LEMMA WrittenType ==
    ASSUME NEW current \in Row, NEW loaded \in Row, NEW new \in Row
    PROVE  Written(current, loaded, new) \in Row
BY DEF Written, Row

\* An UPDATE never makes a row succeed unless the session object succeeded.
LEMMA WrittenStatus ==
    ASSUME NEW current \in Row, NEW loaded \in Row, NEW new \in Row
    PROVE  Written(current, loaded, new).status \in {current.status, new.status}
BY DEF Written, Row

\* The mark_* methods keep the type of the row, and set the status they name.
LEMMA MarksType ==
    ASSUME NEW r \in Row
    PROVE  /\ Running(r) \in Row       /\ Running(r).status = "running"
           /\ Succeeded(r) \in Row     /\ Succeeded(r).status = "succeeded"
           /\ Failed(r) \in Row        /\ Failed(r).status = "failed"
           /\ RetryQueued(r) \in Row   /\ RetryQueued(r).status = "queued"
           /\ StaleRequeued(r) \in Row /\ StaleRequeued(r).status = "queued"
           /\ Touched(r) \in Row       /\ Touched(r).status = r.status
<1> USE DEF Row, Status
<1>1. Running(r) \in Row /\ Running(r).status = "running"
  <2>1. ASSUME NEW n \in Nat, NEW t \in {"unset", "recent", "stale"}
        PROVE  [status |-> "running", attempts |-> n, started |-> t,
                updated |-> r.updated, error |-> "none"] \in Row
    OBVIOUS
  <2>2. r.attempts + 1 \in Nat
    <3>1. r.attempts \in Nat
      OBVIOUS
    <3> HIDE DEF Row
    <3> QED BY <3>1
  <2>3. (IF r.started = "unset" THEN "recent" ELSE r.started) \in {"unset", "recent", "stale"}
    OBVIOUS
  <2> HIDE DEF Row
  <2> QED
    BY <2>1, <2>2, <2>3, Zenon DEF Running
<1>2. Succeeded(r) \in Row /\ Succeeded(r).status = "succeeded"
  BY DEF Succeeded
<1>3. Failed(r) \in Row /\ Failed(r).status = "failed"
  BY DEF Failed
<1>4. RetryQueued(r) \in Row /\ RetryQueued(r).status = "queued"
  BY DEF RetryQueued
<1>5. StaleRequeued(r) \in Row /\ StaleRequeued(r).status = "queued"
  BY DEF StaleRequeued
<1>6. Touched(r) \in Row /\ Touched(r).status = r.status
  BY DEF Touched
<1> QED
  BY <1>1, <1>2, <1>3, <1>4, <1>5, <1>6

LEMMA InitialRows ==
    /\ AbsentRow \in Row /\ AbsentRow.status = "absent"
    /\ QueuedRow \in Row /\ QueuedRow.status = "queued"
BY DEF AbsentRow, QueuedRow, Row, Status

\* The clock keeps the type of the row it ages.
LEMMA AgedType ==
    ASSUME NEW r \in Row
    PROVE  /\ [r EXCEPT !.updated = "stale"] \in Row
           /\ [r EXCEPT !.started = "stale"] \in Row
           /\ [r EXCEPT !.updated = "stale"].status = r.status
           /\ [r EXCEPT !.started = "stale"].status = r.status
BY DEF Row

\* Enqueueing keeps message counts natural.
LEMMA EnqueuedType ==
    ASSUME NEW q \in [Jobs -> Nat], NEW S
    PROVE  Enqueued(q, S) \in [Jobs -> Nat]
BY DEF Enqueued

\* The job of a run is a job.
LEMMA RunJob ==
    ASSUME TasksType, NEW w \in Workers, pc[w] \notin {"idle", "reconciling"}
    PROVE  job[w] \in Jobs
BY DEF TasksType, TasksFit

-----------------------------------------------------------------------------
(* Type correctness, part by part                                          *)

\* The rows, results and documents keep their types.
LEMMA RowsStep == TypeOK /\ [Next]_vars => RowsType'
<1> SUFFICES ASSUME TypeOK, [Next]_vars PROVE RowsType'
  OBVIOUS
<1> USE DEF TypeOK
<1>1. CASE UNCHANGED rowVars
  BY <1>1 DEF RowsType, rowVars
<1>2. ASSUME NEW j \in Jobs, CreateJob(j) PROVE RowsType'
  BY <1>2, InitialRows DEF CreateJob, RowsType
<1>3. ASSUME NEW j \in Jobs, SoftDelete(j) PROVE RowsType'
  BY <1>3 DEF SoftDelete, RowsType
<1>4. ASSUME NEW j \in Jobs, QueuedTooLong(j) PROVE RowsType'
  <2>1. row[j] \in Row
    BY DEF RowsType
  <2> QED BY <1>4, <2>1, AgedType DEF QueuedTooLong, RowsType
<1>5. ASSUME NEW j \in Jobs, StartedTooLongAgo(j) PROVE RowsType'
  <2>1. row[j] \in Row
    BY DEF RowsType
  <2> QED BY <1>5, <2>1, AgedType DEF StartedTooLongAgo, RowsType
<1>6. ASSUME NEW w \in Workers, NEW j \in Jobs, PurgeDocument(w, j) PROVE RowsType'
  BY <1>6, InitialRows DEF PurgeDocument, RowsType
<1>7. ASSUME NEW w \in Workers, NEW new \in Row, pc[w] \notin {"idle", "reconciling"},
             row' = [row EXCEPT ![job[w]] = Written(@, seen[w], new)],
             \/ UNCHANGED results
             \/ results' = [results EXCEPT ![job[w]] = @ + 1],
             UNCHANGED docs
      PROVE  RowsType'
  <2>1. job[w] \in Jobs /\ seen[w] \in Row
    BY <1>7, RunJob DEF TasksType
  <2>2. Written(row[job[w]], seen[w], new) \in Row
    BY <2>1, WrittenType DEF RowsType
  <2> QED BY <1>7, <2>1, <2>2 DEF RowsType
<1>8. ASSUME NEW w \in Workers, MarkRunning(w) PROVE RowsType'
  BY <1>7, <1>8, MarksType DEF MarkRunning, TasksType
<1>9. ASSUME NEW w \in Workers, StoreResults(w) PROVE RowsType'
  BY <1>7, <1>9, MarksType DEF StoreResults, TasksType
<1>10. ASSUME NEW w \in Workers, ScheduleRetry(w) PROVE RowsType'
  BY <1>7, <1>10, MarksType DEF ScheduleRetry, TasksType
<1>11. ASSUME NEW w \in Workers, GiveUp(w) PROVE RowsType'
  BY <1>7, <1>11, MarksType DEF GiveUp, TasksType
<1>12. ASSUME NEW w \in Workers, Requeue(w) PROVE RowsType'
  <2>1. \A j \in Jobs : row'[j] \in Row
    BY <1>12, MarksType DEF Requeue, RowsType
  <2> QED BY <1>12, <2>1 DEF Requeue, RowsType
<1> QED
  BY <1>1, <1>2, <1>3, <1>4, <1>5, <1>6, <1>8, <1>9, <1>10, <1>11, <1>12
  DEF Next, vars, rowVars, Run, Reconcile, Time, EnqueueJob, LoseEnqueue, Deliver,
      SkipDelivery, SendOwed, DeliverAgain, Crash, LoseQueue, MarkRunningFails,
      OpenDocument, DocumentMissing, ExtractFails, PageLimitExceeded, Extracted,
      StoreConflict, FailureUnrecorded, ScanStale, RequeueFails
\* Message counts stay natural, and only jobs are owed or unsent.
LEMMA MessagesStep == TypeOK /\ [Next]_vars => MessagesType'
<1> SUFFICES ASSUME TypeOK, [Next]_vars PROVE MessagesType'
  OBVIOUS
<1> USE DEF TypeOK, MessagesType
<1>1. CASE UNCHANGED <<queue, unsent, owed>>
  BY <1>1
<1>2. ASSUME NEW j \in Jobs, CreateJob(j) PROVE MessagesType'
  BY <1>2 DEF CreateJob
<1>3. ASSUME NEW j \in Jobs, EnqueueJob(j) \/ LoseEnqueue(j) PROVE MessagesType'
  BY <1>3, EnqueuedType DEF EnqueueJob, LoseEnqueue
<1>4. ASSUME NEW w \in Workers, NEW j \in Jobs, Deliver(w, j) \/ SkipDelivery(w, j)
      PROVE  MessagesType'
  <2>1. queue[j] - 1 \in Nat
    BY <1>4 DEF Deliver, SkipDelivery
  <2> QED BY <1>4, <2>1 DEF Deliver, SkipDelivery
<1>5. ASSUME NEW w \in Workers, NEW j \in Jobs, SendOwed(w, j) PROVE MessagesType'
  BY <1>5, EnqueuedType DEF SendOwed
<1>6. ASSUME NEW w \in Workers, Crash(w) PROVE MessagesType'
  BY <1>6, EnqueuedType DEF Crash
<1>7. ASSUME NEW w \in Workers, ScheduleRetry(w) PROVE MessagesType'
  <2>1. job[w] \in Jobs
    BY <1>7, RunJob DEF ScheduleRetry
  <2> QED BY <1>7, <2>1 DEF ScheduleRetry
<1>8. ASSUME NEW w \in Workers, Requeue(w) PROVE MessagesType'
  <2>1. scan[w].queued \cup scan[w].running \subseteq Jobs
    BY DEF TasksType
  <2> QED BY <1>8, <2>1 DEF Requeue
<1>9. CASE LoseQueue
  BY <1>9 DEF LoseQueue
<1> QED
  BY <1>1, <1>2, <1>3, <1>4, <1>5, <1>6, <1>7, <1>8, <1>9
  DEF Next, vars, Run, Reconcile, Time, SoftDelete, QueuedTooLong, StartedTooLongAgo,
      DeliverAgain, PurgeDocument, MarkRunning, MarkRunningFails, OpenDocument,
      DocumentMissing, ExtractFails, PageLimitExceeded, Extracted, StoreResults,
      StoreConflict, GiveUp, FailureUnrecorded, ScanStale, RequeueFails

\* A counter below its bound may be stepped.
LEMMA CounterStep ==
    ASSUME NEW n \in Nat, NEW c \in 0..n, c < n
    PROVE  c + 1 \in 0..n
OBVIOUS

\* The counters stay within their bounds.
LEMMA BoundsStep == TypeOK /\ [Next]_vars => BoundsType'
<1> SUFFICES ASSUME TypeOK, [Next]_vars PROVE BoundsType'
  OBVIOUS
<1>1. MaxCrashes \in Nat /\ MaxLosses \in Nat /\ MaxRuns \in Nat
  BY ConstantsAssumption DEF ConstantsAssumption
<1>2. crashes \in 0..MaxCrashes /\ losses \in 0..MaxLosses /\ runs \in 0..MaxRuns
  BY DEF TypeOK, BoundsType
<1>3. ASSUME crashes' = crashes \/ (crashes < MaxCrashes /\ crashes' = crashes + 1),
             losses' = losses \/ (losses < MaxLosses /\ losses' = losses + 1),
             runs' = runs \/ (runs < MaxRuns /\ runs' = runs + 1)
      PROVE  BoundsType'
  <2>1. crashes' \in 0..MaxCrashes
    BY <1>1, <1>2, <1>3, CounterStep
  <2>2. losses' \in 0..MaxLosses
    BY <1>1, <1>2, <1>3, CounterStep
  <2>3. runs' \in 0..MaxRuns
    BY <1>1, <1>2, <1>3, CounterStep
  <2> QED BY <2>1, <2>2, <2>3 DEF BoundsType
<1>4. CASE UNCHANGED bounds
  BY <1>3, <1>4 DEF bounds
<1>5. ASSUME NEW w \in Workers, NEW j \in Jobs, Deliver(w, j) PROVE BoundsType'
  BY <1>3, <1>5 DEF Deliver
<1>6. ASSUME NEW v \in Workers, NEW w \in Workers, DeliverAgain(v, w) PROVE BoundsType'
  BY <1>3, <1>6 DEF DeliverAgain
<1>7. ASSUME NEW w \in Workers, Crash(w) PROVE BoundsType'
  BY <1>3, <1>7 DEF Crash
<1>8. CASE LoseQueue
  BY <1>3, <1>8 DEF LoseQueue
<1> QED
  BY <1>4, <1>5, <1>6, <1>7, <1>8
  DEF Next, vars, bounds, Run, Reconcile, Time, CreateJob, EnqueueJob, LoseEnqueue,
      SoftDelete, SkipDelivery, SendOwed, PurgeDocument, QueuedTooLong,
      StartedTooLongAgo, MarkRunning, MarkRunningFails, OpenDocument, DocumentMissing,
      ExtractFails, PageLimitExceeded, Extracted, StoreResults, StoreConflict,
      ScheduleRetry, GiveUp, FailureUnrecorded, ScanStale, Requeue, RequeueFails

\* A worker that starts, ends or moves on with a task leaves the others alone, so
\* the task variables fit again once that worker's do.
LEMMA OneTaskChanges ==
    ASSUME TasksType, NEW w \in Workers,
           NEW p \in PC, NEW k \in Jobs \cup {NoJob}, NEW r \in Row, NEW g \in Nat,
           (k = NoJob) <=> (p \in {"idle", "reconciling"}),
           NEW s \in [queued : SUBSET Jobs, running : SUBSET Jobs],
           pc'    = [pc EXCEPT ![w] = p],
           job'   = [job EXCEPT ![w] = k],
           seen'  = [seen EXCEPT ![w] = r],
           found' = [found EXCEPT ![w] = g],
           scan'  = [scan EXCEPT ![w] = s]
    PROVE  TasksType'
BY DEF TasksType, TasksFit

\* What EndTask and Raise leave.
LEMMA EndTaskType ==
    ASSUME TasksType, NEW w \in Workers, EndTask(w),
           NEW s \in [queued : SUBSET Jobs, running : SUBSET Jobs],
           scan' = [scan EXCEPT ![w] = s]
    PROVE  TasksType'
BY InitialRows, OneTaskChanges DEF EndTask, PC

LEMMA RaiseType ==
    ASSUME RowsType, TasksType, NEW w \in Workers, NEW retryable \in BOOLEAN,
           pc[w] \notin {"idle", "reconciling"}, Raise(w, retryable), UNCHANGED scan
    PROVE  TasksType'
<1>1. job[w] \in Jobs
  BY RunJob
<1>2. scan' = [scan EXCEPT ![w] = scan[w]]
  BY DEF TasksType
<1>3. CASE row[job[w]].status = "absent"
  BY <1>2, <1>3, EndTaskType DEF Raise, TasksType
<1>4. CASE row[job[w]].status # "absent"
  <2>1. PICK p \in {"retrying", "failing"} : pc' = [pc EXCEPT ![w] = p]
    BY <1>4 DEF Raise
  <2>2. job' = [job EXCEPT ![w] = job[w]]
    BY <1>4 DEF Raise, TasksType
  <2>3. row[job[w]] \in Row /\ job[w] # NoJob
    BY <1>1, ConstantsAssumption DEF RowsType, ConstantsAssumption, NoJob
  <2>4. /\ seen'  = [seen EXCEPT ![w] = row[job[w]]]
        /\ found' = [found EXCEPT ![w] = 0]
        /\ scan[w] \in [queued : SUBSET Jobs, running : SUBSET Jobs]
        /\ p \in PC \ {"idle", "reconciling"}
    BY <1>4, <2>1 DEF Raise, TasksType, PC
  <2> QED
    BY <1>1, <1>2, <2>1, <2>2, <2>3, <2>4, OneTaskChanges
<1> QED
  BY <1>3, <1>4
\* Tasks keep their types, and a worker has a job exactly while it runs one.
LEMMA TasksStep == TypeOK /\ [Next]_vars => TasksType'
<1> SUFFICES ASSUME TypeOK, [Next]_vars PROVE TasksType'
  OBVIOUS
<1> USE DEF TypeOK
<1>1. CASE UNCHANGED taskVars
  BY <1>1 DEF TasksType, TasksFit, taskVars
<1>2. \A w \in Workers : scan' = scan => scan' = [scan EXCEPT ![w] = scan[w]]
  BY DEF TasksType
<1>3. \A w \in Workers : scan[w] \in [queued : SUBSET Jobs, running : SUBSET Jobs]
  BY DEF TasksType
<1>4. \A j \in Jobs : row[j] \in Row /\ j # NoJob
  BY ConstantsAssumption DEF RowsType, ConstantsAssumption, NoJob
<1>5. ASSUME NEW w \in Workers, NEW j \in Jobs,
             pc' = [pc EXCEPT ![w] = "loaded"], job' = [job EXCEPT ![w] = j],
             seen' = [seen EXCEPT ![w] = row[j]], UNCHANGED <<found, scan>>
      PROVE  TasksType'
  <2>1. found' = [found EXCEPT ![w] = found[w]] /\ found[w] \in Nat
    BY <1>5 DEF TasksType
  <2> QED BY <1>2, <1>3, <1>4, <1>5, <2>1, OneTaskChanges DEF PC
<1>6. ASSUME NEW w \in Workers, NEW j \in Jobs, Deliver(w, j) PROVE TasksType'
  BY <1>5, <1>6 DEF Deliver
<1>7. ASSUME NEW v \in Workers, NEW w \in Workers, DeliverAgain(v, w) PROVE TasksType'
  BY <1>5, <1>7, RunJob DEF DeliverAgain
<1>8. ASSUME NEW w \in Workers, EndTask(w), UNCHANGED scan PROVE TasksType'
  BY <1>2, <1>3, <1>8, EndTaskType
<1>9. ASSUME NEW w \in Workers, NEW r \in BOOLEAN, Raise(w, r), UNCHANGED scan,
             pc[w] \notin {"idle", "reconciling"}
      PROVE  TasksType'
  BY <1>9, RaiseType
<1>10. ASSUME NEW w \in Workers, NEW p \in PC \ {"idle", "reconciling"},
              NEW r \in Row, NEW g \in Nat, pc[w] \notin {"idle", "reconciling"},
              pc' = [pc EXCEPT ![w] = p], seen' = [seen EXCEPT ![w] = r],
              found' = [found EXCEPT ![w] = g], UNCHANGED <<job, scan>>
       PROVE  TasksType'
  <2>1. job' = [job EXCEPT ![w] = job[w]] /\ job[w] \in Jobs /\ job[w] # NoJob
    BY <1>4, <1>10, RunJob DEF TasksType
  <2> QED BY <1>2, <1>3, <1>10, <2>1, OneTaskChanges
<1>11. ASSUME NEW w \in Workers
       PROVE  /\ seen[w] \in Row /\ Running(seen[w]) \in Row /\ found[w] \in Nat
              /\ seen' = seen => seen' = [seen EXCEPT ![w] = seen[w]]
              /\ found' = found => found' = [found EXCEPT ![w] = found[w]]
  BY MarksType DEF TasksType
<1>12. ASSUME NEW w \in Workers, MarkRunning(w) PROVE TasksType'
  BY <1>10, <1>11, <1>12 DEF MarkRunning, PC
<1>13. ASSUME NEW w \in Workers, OpenDocument(w) PROVE TasksType'
  <2>1. /\ pc' = [pc EXCEPT ![w] = "extracting"] /\ UNCHANGED <<job, seen, found, scan>>
        /\ pc[w] \notin {"idle", "reconciling"}
    BY <1>13 DEF OpenDocument
  <2>2. pc \in [Workers -> PC] /\ TasksFit
    BY DEF TasksType
  <2>3. pc' \in [Workers -> PC]
    BY <2>1, <2>2 DEF PC
  <2>4. TasksFit'
    BY <2>1, <2>2 DEF TasksFit
  <2> QED BY <2>1, <2>3, <2>4 DEF TasksType
<1>14. ASSUME NEW w \in Workers, Extracted(w) PROVE TasksType'
  <2>1. results[job[w]] \in Nat
    BY <1>14, RunJob DEF Extracted, RowsType
  <2> QED BY <1>10, <1>11, <1>14, <2>1 DEF Extracted, PC
<1>15. ASSUME NEW w \in Workers, DocumentMissing(w) \/ ExtractFails(w)
                \/ PageLimitExceeded(w) \/ StoreConflict(w)
       PROVE  TasksType'
  BY <1>9, <1>15 DEF DocumentMissing, ExtractFails, PageLimitExceeded, StoreConflict
<1>16. ASSUME NEW w \in Workers, MarkRunningFails(w) \/ StoreResults(w)
                \/ ScheduleRetry(w) \/ GiveUp(w) \/ FailureUnrecorded(w)
       PROVE  TasksType'
  BY <1>8, <1>16
  DEF MarkRunningFails, StoreResults, ScheduleRetry, GiveUp, FailureUnrecorded
<1>17. ASSUME NEW w \in Workers, Crash(w) PROVE TasksType'
  <2>1. NoScan \in [queued : SUBSET Jobs, running : SUBSET Jobs]
    BY DEF NoScan
  <2> QED BY <1>17, <2>1, EndTaskType DEF Crash
<1>18. ASSUME NEW w \in Workers, NEW p \in {"idle", "reconciling"},
              NEW s \in [queued : SUBSET Jobs, running : SUBSET Jobs],
              pc[w] \in {"idle", "reconciling"}, pc' = [pc EXCEPT ![w] = p],
              scan' = [scan EXCEPT ![w] = s], UNCHANGED <<job, seen, found>>
       PROVE  TasksType'
  <2>1. job' = [job EXCEPT ![w] = NoJob]
    BY <1>18 DEF TasksType, TasksFit
  <2> QED BY <1>11, <1>18, <2>1, OneTaskChanges DEF PC
<1>19. ASSUME NEW w \in Workers, ScanStale(w) PROVE TasksType'
  <2>1. [queued |-> StaleQueued, running |-> StaleRunning]
           \in [queued : SUBSET Jobs, running : SUBSET Jobs]
    BY DEF StaleQueued, StaleRunning
  <2> QED BY <1>18, <1>19, <2>1 DEF ScanStale, Idle
<1>20. ASSUME NEW w \in Workers, Requeue(w) \/ RequeueFails(w) PROVE TasksType'
  <2>1. NoScan \in [queued : SUBSET Jobs, running : SUBSET Jobs]
    BY DEF NoScan
  <2> QED BY <1>18, <1>20, <2>1 DEF Requeue, RequeueFails
<1> QED
  BY <1>1, <1>6, <1>7, <1>12, <1>13, <1>14, <1>15, <1>16, <1>17, <1>19, <1>20
  DEF Next, vars, taskVars, Run, Reconcile, Time, CreateJob, EnqueueJob, LoseEnqueue,
      SoftDelete, SkipDelivery, SendOwed, PurgeDocument, QueuedTooLong,
      StartedTooLongAgo, LoseQueue

LEMMA TypeInit == Init => TypeOK
<1> SUFFICES ASSUME Init PROVE TypeOK
  OBVIOUS
<1> USE DEF Init
<1>1. RowsType
  BY InitialRows DEF RowsType
<1>2. MessagesType
  BY DEF MessagesType
<1>3. TasksType
  <2>1. scan \in [Workers -> [queued : SUBSET Jobs, running : SUBSET Jobs]]
    BY DEF NoScan
  <2> QED BY <2>1, InitialRows DEF TasksType, TasksFit, PC
<1>4. BoundsType
  <2>1. MaxCrashes \in Nat /\ MaxLosses \in Nat /\ MaxRuns \in Nat
    BY ConstantsAssumption DEF ConstantsAssumption
  <2> QED BY <2>1 DEF BoundsType
<1> QED
  BY <1>1, <1>2, <1>3, <1>4 DEF TypeOK

\* Type correctness: whatever the workers, the queue, the clock and the deletions
\* do, every variable keeps its type and a worker has a job exactly while it is
\* inside OcrJobRunner.run.
THEOREM TypeCorrect == Spec => []TypeOK
<1>1. TypeOK /\ [Next]_vars => TypeOK'
  BY RowsStep, MessagesStep, TasksStep, BoundsStep DEF TypeOK
<1> QED
  BY TypeInit, <1>1, PTL DEF Spec

-----------------------------------------------------------------------------
(* Results and erasure, with any number of overlapping runs                *)

Stored == SucceededHasResults /\ PurgeIsComplete

\* A run's UPDATE of a row that still exists keeps Stored, when the session object
\* has not succeeded or new results come with it.
LEMMA RunUpdate ==
    ASSUME TypeOK, Stored, NEW w \in Workers, NEW new \in Row,
           pc[w] \notin {"idle", "reconciling"},
           row[job[w]].status # "absent",
           row' = [row EXCEPT ![job[w]] = Written(@, seen[w], new)],
           \/ new.status # "succeeded" /\ UNCHANGED results
           \/ results' = [results EXCEPT ![job[w]] = @ + 1],
           UNCHANGED docs
    PROVE  Stored'
<1>1. job[w] \in Jobs /\ seen[w] \in Row /\ row[job[w]] \in Row
  BY RunJob DEF TypeOK, RowsType, TasksType
<1>2. /\ row'[job[w]].status \in {row[job[w]].status, new.status}
      /\ docs[job[w]] # "purged"
      /\ \A j \in Jobs \ {job[w]} : row'[j] = row[j] /\ results'[j] = results[j]
  <2>1. row'[job[w]] = Written(row[job[w]], seen[w], new)
    BY <1>1 DEF TypeOK, RowsType
  <2>2. row'[job[w]].status \in {row[job[w]].status, new.status}
    BY <1>1, <2>1, WrittenStatus
  <2>3. docs[job[w]] # "purged"
    BY <1>1 DEF Stored, PurgeIsComplete
  <2>4. \A j \in Jobs \ {job[w]} : row'[j] = row[j] /\ results'[j] = results[j]
    BY <1>1 DEF TypeOK, RowsType
  <2> QED BY <2>2, <2>3, <2>4
<1>3. results[job[w]] \in Nat
  BY <1>1 DEF TypeOK, RowsType
<1>4. row'[job[w]].status = "succeeded" => results'[job[w]] > 0
  <2>1. CASE new.status # "succeeded" /\ UNCHANGED results
    BY <1>1, <1>2, <2>1 DEF Stored, SucceededHasResults
  <2>2. CASE results' = [results EXCEPT ![job[w]] = @ + 1]
    <3>1. results'[job[w]] = results[job[w]] + 1
      BY <1>1, <2>2 DEF TypeOK, RowsType
    <3> QED BY <1>3, <3>1
  <2> QED BY <2>1, <2>2
<1>5. SucceededHasResults'
  BY <1>2, <1>4 DEF Stored, SucceededHasResults
<1>6. PurgeIsComplete'
  BY <1>2 DEF Stored, PurgeIsComplete
<1> QED
  BY <1>5, <1>6 DEF Stored

LEMMA StoredStep == TypeOK /\ Stored /\ [Next]_vars => Stored'
<1> SUFFICES ASSUME TypeOK, Stored, [Next]_vars PROVE Stored'
  OBVIOUS
<1>1. CASE UNCHANGED rowVars
  BY <1>1 DEF Stored, SucceededHasResults, PurgeIsComplete, rowVars
<1>2. ASSUME NEW j \in Jobs, CreateJob(j) PROVE Stored'
  <2>1. row'[j].status = "queued" /\ \A k \in Jobs \ {j} : row'[k] = row[k]
    BY <1>2, InitialRows DEF CreateJob, TypeOK, RowsType
  <2>2. docs[j] = "live" /\ UNCHANGED <<results, docs>>
    BY <1>2 DEF CreateJob
  <2> QED
    BY <1>2, <2>1, <2>2 DEF Stored, SucceededHasResults, PurgeIsComplete
<1>3. ASSUME NEW j \in Jobs, SoftDelete(j) PROVE Stored'
  BY <1>3 DEF SoftDelete, Stored, SucceededHasResults, PurgeIsComplete, TypeOK, RowsType
<1>4. ASSUME NEW j \in Jobs, QueuedTooLong(j) \/ StartedTooLongAgo(j) PROVE Stored'
  <2>1. \A k \in Jobs : row'[k].status = row[k].status
    <3>1. row[j] \in Row
      BY DEF TypeOK, RowsType
    <3>2. /\ row'[j] = [row[j] EXCEPT !.updated = "stale"]
             \/ row'[j] = [row[j] EXCEPT !.started = "stale"]
          /\ \A k \in Jobs \ {j} : row'[k] = row[k]
      BY <1>4 DEF QueuedTooLong, StartedTooLongAgo, TypeOK, RowsType
    <3> QED BY <3>1, <3>2, AgedType
  <2> QED
    BY <1>4, <2>1 DEF QueuedTooLong, StartedTooLongAgo, Stored, SucceededHasResults,
                      PurgeIsComplete
<1>5. ASSUME NEW w \in Workers, NEW j \in Jobs, PurgeDocument(w, j) PROVE Stored'
  <2>1. /\ row'[j].status = "absent" /\ results'[j] = 0
        /\ \A k \in Jobs \ {j} :
              row'[k] = row[k] /\ results'[k] = results[k] /\ docs'[k] = docs[k]
    BY <1>5, InitialRows DEF PurgeDocument, TypeOK, RowsType
  <2> QED
    BY <2>1 DEF Stored, SucceededHasResults, PurgeIsComplete
<1>6. ASSUME NEW w \in Workers, MarkRunning(w) PROVE Stored'
  <2>1. Running(seen[w]) \in Row /\ Running(seen[w]).status # "succeeded"
    BY MarksType DEF TypeOK, TasksType
  <2> QED BY <1>6, <2>1, RunUpdate DEF MarkRunning
<1>7. ASSUME NEW w \in Workers, StoreResults(w) PROVE Stored'
  <2>1. Succeeded(seen[w]) \in Row
    BY MarksType DEF TypeOK, TasksType
  <2> QED BY <1>7, <2>1, RunUpdate DEF StoreResults
<1>8. ASSUME NEW w \in Workers, ScheduleRetry(w) PROVE Stored'
  <2>1. RetryQueued(seen[w]) \in Row /\ RetryQueued(seen[w]).status # "succeeded"
    BY MarksType DEF TypeOK, TasksType
  <2> QED BY <1>8, <2>1, RunUpdate DEF ScheduleRetry
<1>9. ASSUME NEW w \in Workers, GiveUp(w) PROVE Stored'
  <2>1. Failed(seen[w]) \in Row /\ Failed(seen[w]).status # "succeeded"
    BY MarksType DEF TypeOK, TasksType
  <2> QED BY <1>9, <2>1, RunUpdate DEF GiveUp
<1>10. ASSUME NEW w \in Workers, Requeue(w) PROVE Stored'
  <2>1. ASSUME NEW j \in Jobs
        PROVE  row'[j].status = row[j].status
               \/ (row[j].status # "absent" /\ row'[j].status = "queued")
    BY <1>10, MarksType DEF Requeue, TypeOK, RowsType
  <2> QED
    BY <1>10, <2>1 DEF Requeue, Stored, SucceededHasResults, PurgeIsComplete
<1> QED
  BY <1>1, <1>2, <1>3, <1>4, <1>5, <1>6, <1>7, <1>8, <1>9, <1>10
  DEF Next, vars, rowVars, Run, Reconcile, Time, EnqueueJob, LoseEnqueue, Deliver,
      SkipDelivery, SendOwed, DeliverAgain, Crash, LoseQueue, MarkRunningFails,
      OpenDocument, DocumentMissing, ExtractFails, PageLimitExceeded, Extracted,
      StoreConflict, FailureUnrecorded, ScanStale, RequeueFails

LEMMA StoredAlways == Spec => []Stored
<1>1. Init => Stored
  BY InitialRows DEF Init, Stored, SucceededHasResults, PurgeIsComplete
<1> QED
  BY <1>1, StoredStep, TypeCorrect, PTL DEF Spec

\* A job reported as succeeded has results to show, for any number of workers whose
\* runs overlap, are duplicated, or are reset under way by the reconciler.
THEOREM ResultsOfSucceeded == Spec => []SucceededHasResults
<1>1. Stored => SucceededHasResults
  BY DEF Stored
<1> QED
  BY <1>1, StoredAlways, PTL

\* Once an erasure has removed a document, no run still holding its job, and no
\* reconciler scan that loaded the row before, writes anything of it back.
THEOREM ErasureIsComplete == Spec => []PurgeIsComplete
<1>1. Stored => PurgeIsComplete
  BY DEF Stored
<1> QED
  BY <1>1, StoredAlways, PTL

-----------------------------------------------------------------------------
(* One worker                                                              *)

\* One worker process, as docker-compose starts it.
OneWorker == \A v, w \in Workers : v = w

InRun(w) == pc[w] \notin {"idle", "reconciling"}

\* What a run has read of its row is what the row says, and its attempt is one of those
\* allowed, or makes up for a crash.
RunsAlone ==
    \A w \in Workers : InRun(w) =>
        /\ seen[w].status = row[job[w]].status
        /\ seen[w].attempts = row[job[w]].attempts
        /\ IF pc[w] = "loaded"
           THEN /\ row[job[w]].status \in Live
                /\ row[job[w]].attempts < MaxAttempts + crashes
           ELSE row[job[w]].status = "running"
        /\ pc[w] = "retrying" => row[job[w]].attempts < MaxAttempts

\* The rows a scan has loaded are as it loaded them.
ScansAlone ==
    \A w \in Workers : pc[w] = "reconciling" =>
        /\ \A j \in scan[w].running : row[j].status = "running"
        /\ \A j \in scan[w].queued : row[j].status = "queued"

\* A job that waits for an attempt has one left.
AttemptLeft ==
    \A j \in Jobs : row[j].status \in Live /\ (\A w \in Workers : ~ Executing(w, j))
        => row[j].attempts < MaxAttempts + crashes

\* Results are stored once, and there are no other outcomes.
StoredOnce ==
    \A j \in Jobs : /\ results[j] = IF row[j].status = "succeeded" THEN 1 ELSE 0
                    /\ row[j].status # "cancelled"

Alone == RunsAlone /\ ScansAlone /\ AttemptLeft /\ AttemptsAccounted /\ StoredOnce

\* What the proofs below need of the types.
LEMMA Numbers ==
    ASSUME TypeOK
    PROVE  /\ MaxAttempts \in Nat \ {0} /\ crashes \in Nat
           /\ \A j \in Jobs : row[j] \in Row /\ row[j].attempts \in Nat /\ results[j] \in Nat
           /\ \A w \in Workers : seen[w] \in Row /\ seen[w].attempts \in Nat
<1>1. MaxAttempts \in Nat \ {0} /\ MaxCrashes \in Nat
  BY ConstantsAssumption, Zenon DEF ConstantsAssumption
<1>2. crashes \in Nat
  BY <1>1 DEF TypeOK, BoundsType
<1>3. /\ \A j \in Jobs : row[j] \in Row /\ results[j] \in Nat
      /\ \A w \in Workers : seen[w] \in Row
  BY DEF TypeOK, RowsType, TasksType
<1>4. \A r \in Row : r.attempts \in Nat
  BY DEF Row
<1> QED
  BY <1>1, <1>2, <1>3, <1>4

\* An UPDATE from a session whose copy is true leaves what the session object says.
LEMMA WrittenAlone ==
    ASSUME NEW current \in Row, NEW loaded \in Row, NEW new \in Row,
           loaded.status = current.status, loaded.attempts = current.attempts
    PROVE  /\ Written(current, loaded, new).status = new.status
           /\ Written(current, loaded, new).attempts = new.attempts
  BY DEF Written, Row

\* Only mark_running counts an attempt.
LEMMA MarkedAttempts ==
    ASSUME NEW r \in Row
    PROVE  /\ Running(r).attempts = r.attempts + 1
           /\ Succeeded(r).attempts = r.attempts
           /\ Failed(r).attempts = r.attempts
           /\ RetryQueued(r).attempts = r.attempts
           /\ StaleRequeued(r).attempts = r.attempts
           /\ Touched(r).attempts = r.attempts
           /\ [r EXCEPT !.updated = "stale"].attempts = r.attempts
           /\ [r EXCEPT !.started = "stale"].attempts = r.attempts
  BY DEF Running, Succeeded, Failed, RetryQueued, StaleRequeued, Touched, Row

\* The row of a run's job after an UPDATE of the run.
LEMMA RunWrites ==
    ASSUME TypeOK, RunsAlone, NEW w \in Workers, InRun(w), NEW new \in Row,
           row' = [row EXCEPT ![job[w]] = Written(@, seen[w], new)]
    PROVE  /\ job[w] \in Jobs
           /\ row'[job[w]].status = new.status /\ row'[job[w]].attempts = new.attempts
           /\ \A j \in Jobs \ {job[w]} : row'[j] = row[j]
<1>1. job[w] \in Jobs /\ seen[w] \in Row /\ row[job[w]] \in Row
  BY RunJob DEF TypeOK, RowsType, TasksType, InRun
<1>2. seen[w].status = row[job[w]].status /\ seen[w].attempts = row[job[w]].attempts
  BY DEF RunsAlone
<1>3. /\ row'[job[w]] = Written(row[job[w]], seen[w], new)
      /\ \A j \in Jobs \ {job[w]} : row'[j] = row[j]
  BY <1>1 DEF TypeOK, RowsType
<1> QED
  BY <1>1, <1>2, <1>3, WrittenAlone

\* A worker that has nothing to do is all there is.
LEMMA NobodyBusy ==
    ASSUME OneWorker, NEW w \in Workers, pc[w] = "idle"
    PROVE  \A v \in Workers : pc[v] = "idle" /\ \A j \in Jobs : ~ Executing(v, j)
  BY DEF OneWorker, Executing


\* What a run does to its row, alone: nothing, or a step of the row's life.
RunGoesOn(w)  == pc[w] # "loaded" /\ pc'[w] # "idle" /\ UNCHANGED <<row, results>>
RunStarts(w)  == /\ pc[w] = "loaded" /\ pc'[w] = "opening"
                 /\ row'[job[w]].status = "running"
                 /\ row'[job[w]].attempts = row[job[w]].attempts + 1
                 /\ UNCHANGED results
RunStores(w)  == /\ pc[w] = "storing" /\ pc'[w] = "idle"
                 /\ row'[job[w]].status = "succeeded"
                 /\ row'[job[w]].attempts = row[job[w]].attempts
                 /\ results' = [results EXCEPT ![job[w]] = @ + 1]
RunRetries(w) == /\ pc[w] = "retrying" /\ pc'[w] = "idle"
                 /\ row'[job[w]].status = "queued"
                 /\ row'[job[w]].attempts = row[job[w]].attempts
                 /\ UNCHANGED results
RunGivesUp(w) == /\ pc[w] = "failing" /\ pc'[w] = "idle"
                 /\ row'[job[w]].status = "failed"
                 /\ row'[job[w]].attempts = row[job[w]].attempts
                 /\ UNCHANGED results

\* A run that is not over has read what it wrote.
RunFollows(w) ==
    /\ pc'[w] \in {"idle", "opening", "extracting", "storing", "retrying", "failing"}
    /\ pc'[w] # "idle" => /\ job' = job
                          /\ seen'[w].status = row'[job[w]].status
                          /\ seen'[w].attempts = row'[job[w]].attempts
                          /\ pc'[w] = "retrying" => row'[job[w]].attempts < MaxAttempts

\* The session object of a run has the status and the attempts of the row.
LEMMA RunReads ==
    ASSUME TypeOK, RunsAlone, NEW w \in Workers, InRun(w)
    PROVE  /\ job[w] \in Jobs /\ seen[w] \in Row /\ row[job[w]] \in Row
           /\ seen[w].status = row[job[w]].status
           /\ seen[w].attempts = row[job[w]].attempts
           /\ row[job[w]].status \in Live
  BY RunJob DEF TypeOK, RowsType, TasksType, InRun, RunsAlone, Live

\* The only worker runs: the row of its job takes a step, and the run's copy follows.
LEMMA RunMoves ==
    ASSUME OneWorker, TypeOK, Alone, NEW w \in Workers, Run(w)
    PROVE  /\ InRun(w) /\ UNCHANGED <<scan, crashes>>
           /\ \A j \in Jobs \ {job[w]} : row'[j] = row[j] /\ results'[j] = results[j]
           /\ RunGoesOn(w) \/ RunStarts(w) \/ RunStores(w) \/ RunRetries(w) \/ RunGivesUp(w)
           /\ RunFollows(w)
<1> USE DEF Alone
<1>1. InRun(w)
  <2>1. \/ pc[w] = "loaded" \/ pc[w] = "opening" \/ pc[w] = "extracting" \/ pc[w] = "storing"
        \/ pc[w] = "retrying" \/ pc[w] = "failing" \/ pc[w] \in {"retrying", "failing"}
    BY Zenon DEF Run, MarkRunning, MarkRunningFails, OpenDocument, DocumentMissing, ExtractFails,
        PageLimitExceeded, Extracted, StoreResults, StoreConflict, ScheduleRetry, GiveUp,
        FailureUnrecorded
  <2> QED
    BY <2>1 DEF InRun
<1>2. /\ job[w] \in Jobs /\ seen[w] \in Row /\ row[job[w]] \in Row
      /\ seen[w].status = row[job[w]].status /\ seen[w].attempts = row[job[w]].attempts
      /\ row[job[w]].status # "absent"
  BY <1>1, RunReads DEF Live
<1>3. UNCHANGED <<scan, crashes>>
  BY Zenon DEF Run, MarkRunning, MarkRunningFails, OpenDocument, DocumentMissing, ExtractFails,
      PageLimitExceeded, Extracted, StoreResults, StoreConflict, ScheduleRetry, GiveUp,
      FailureUnrecorded, bounds
<1>4. ~ MarkRunningFails(w) /\ ~ FailureUnrecorded(w)
  BY <1>2 DEF MarkRunningFails, FailureUnrecorded
<1>5. CASE MarkRunning(w)
  <2>1. /\ row' = [row EXCEPT ![job[w]] = Written(@, seen[w], Running(seen[w]))]
        /\ seen' = [seen EXCEPT ![w] = Running(@)] /\ pc' = [pc EXCEPT ![w] = "opening"]
        /\ job' = job /\ results' = results /\ pc[w] = "loaded"
    BY <1>5 DEF MarkRunning
  <2>2. seen'[w] = Running(seen[w]) /\ pc'[w] = "opening"
    BY <2>1 DEF TypeOK, TasksType
  <2>3. /\ Running(seen[w]) \in Row /\ Running(seen[w]).status = "running"
        /\ Running(seen[w]).attempts = row[job[w]].attempts + 1
    <3>1. seen[w] \in Row /\ seen[w].attempts = row[job[w]].attempts
      BY <1>2
    <3>2. Running(seen[w]) \in Row /\ Running(seen[w]).status = "running"
      BY <3>1, MarksType
    <3>3. Running(seen[w]).attempts = seen[w].attempts + 1
      BY <3>1, MarkedAttempts
    <3> QED
      BY <3>1, <3>2, <3>3
  <2>4. /\ row'[job[w]].status = "running"
        /\ row'[job[w]].attempts = row[job[w]].attempts + 1
        /\ \A j \in Jobs \ {job[w]} : row'[j] = row[j]
    BY <1>1, <2>1, <2>3, RunWrites
  <2> QED
    BY <1>1, <1>3, <2>1, <2>2, <2>3, <2>4 DEF RunStarts, RunFollows
<1>7. CASE OpenDocument(w) \/ Extracted(w)
  <2>1. /\ pc'[w] \in {"extracting", "storing"} /\ pc[w] # "loaded"
        /\ UNCHANGED <<row, results, job, seen>>
    BY <1>7 DEF OpenDocument, Extracted, rowVars, TypeOK, TasksType
  <2> QED
    BY <1>1, <1>2, <1>3, <2>1 DEF RunGoesOn, RunFollows
<1>8. CASE DocumentMissing(w) \/ ExtractFails(w) \/ PageLimitExceeded(w) \/ StoreConflict(w)
  <2>1. /\ \E retryable \in BOOLEAN : Raise(w, retryable)
        /\ pc[w] # "loaded" /\ UNCHANGED <<row, results>>
    BY <1>8 DEF DocumentMissing, ExtractFails, PageLimitExceeded, StoreConflict, rowVars
  <2>2. /\ pc'[w] \in {"retrying", "failing"}
        /\ pc'[w] = "retrying" => MayRetry(seen[w].attempts)
        /\ seen'[w] = row[job[w]] /\ job' = job
    BY <1>2, <2>1 DEF Raise, TypeOK, TasksType
  <2> QED
    BY <1>1, <1>2, <1>3, <2>1, <2>2 DEF RunGoesOn, MayRetry, RunFollows
<1>9. CASE StoreResults(w)
  <2>1. /\ row' = [row EXCEPT ![job[w]] = Written(@, seen[w], Succeeded(seen[w]))]
        /\ results' = [results EXCEPT ![job[w]] = @ + 1]
        /\ pc' = [pc EXCEPT ![w] = "idle"] /\ pc[w] = "storing"
    BY <1>9 DEF StoreResults, EndTask
  <2>2. pc'[w] = "idle" /\ \A j \in Jobs \ {job[w]} : results'[j] = results[j]
    BY <2>1 DEF TypeOK, TasksType, RowsType
  <2>3. /\ Succeeded(seen[w]) \in Row /\ Succeeded(seen[w]).status = "succeeded"
        /\ Succeeded(seen[w]).attempts = row[job[w]].attempts
    BY <1>2, MarksType, MarkedAttempts
  <2>4. /\ row'[job[w]].status = "succeeded"
        /\ row'[job[w]].attempts = row[job[w]].attempts
        /\ \A j \in Jobs \ {job[w]} : row'[j] = row[j]
    BY <1>1, <2>1, <2>3, RunWrites
  <2> QED
    BY <1>1, <1>3, <2>1, <2>2, <2>4 DEF RunStores, RunFollows
<1>10. CASE ScheduleRetry(w)
  <2>1. /\ row' = [row EXCEPT ![job[w]] = Written(@, seen[w], RetryQueued(seen[w]))]
        /\ results' = results
        /\ pc' = [pc EXCEPT ![w] = "idle"] /\ pc[w] = "retrying"
    BY <1>10 DEF ScheduleRetry, EndTask
  <2>2. pc'[w] = "idle"
    BY <2>1 DEF TypeOK, TasksType
  <2>3. /\ RetryQueued(seen[w]) \in Row /\ RetryQueued(seen[w]).status = "queued"
        /\ RetryQueued(seen[w]).attempts = row[job[w]].attempts
    BY <1>2, MarksType, MarkedAttempts
  <2>4. /\ row'[job[w]].status = "queued"
        /\ row'[job[w]].attempts = row[job[w]].attempts
        /\ \A j \in Jobs \ {job[w]} : row'[j] = row[j]
    BY <1>1, <2>1, <2>3, RunWrites
  <2> QED
    BY <1>1, <1>3, <2>1, <2>2, <2>4 DEF RunRetries, RunFollows
<1>11. CASE GiveUp(w)
  <2>1. /\ row' = [row EXCEPT ![job[w]] = Written(@, seen[w], Failed(seen[w]))]
        /\ results' = results
        /\ pc' = [pc EXCEPT ![w] = "idle"] /\ pc[w] = "failing"
    BY <1>11 DEF GiveUp, EndTask
  <2>2. pc'[w] = "idle"
    BY <2>1 DEF TypeOK, TasksType
  <2>3. /\ Failed(seen[w]) \in Row /\ Failed(seen[w]).status = "failed"
        /\ Failed(seen[w]).attempts = row[job[w]].attempts
    BY <1>2, MarksType, MarkedAttempts
  <2>4. /\ row'[job[w]].status = "failed"
        /\ row'[job[w]].attempts = row[job[w]].attempts
        /\ \A j \in Jobs \ {job[w]} : row'[j] = row[j]
    BY <1>1, <2>1, <2>3, RunWrites
  <2> QED
    BY <1>1, <1>3, <2>1, <2>2, <2>4 DEF RunGivesUp, RunFollows
<1> QED
  BY <1>4, <1>5, <1>7, <1>8, <1>9, <1>10, <1>11 DEF Run

\* A step of a run keeps Alone.
LEMMA RunAlone ==
    ASSUME OneWorker, TypeOK, Alone, NEW w \in Workers, Run(w)
    PROVE  Alone'
<1> USE DEF Alone
<1>1. /\ MaxAttempts \in Nat \ {0} /\ crashes \in Nat
      /\ \A k \in Jobs : row[k] \in Row /\ row[k].attempts \in Nat /\ results[k] \in Nat
  BY Numbers
<1> DEFINE j == job[w]
<1>2. /\ InRun(w) /\ UNCHANGED <<scan, crashes>>
      /\ \A k \in Jobs \ {j} : row'[k] = row[k] /\ results'[k] = results[k]
      /\ RunGoesOn(w) \/ RunStarts(w) \/ RunStores(w) \/ RunRetries(w) \/ RunGivesUp(w)
      /\ RunFollows(w)
  BY RunMoves, Zenon
<1>3. j \in Jobs /\ row[j].status \in Live /\ \A v \in Workers : v = w
  BY <1>2, RunReads DEF OneWorker
<1>4. pc[w] # "loaded" => row[j].status = "running"
  BY <1>2 DEF RunsAlone
<1>5. pc[w] = "loaded" => row[j].attempts < MaxAttempts + crashes
  BY <1>2 DEF RunsAlone
<1>6. pc[w] = "retrying" => row[j].attempts < MaxAttempts
  BY <1>2 DEF RunsAlone
<1>7. RunsAlone'
  <2>1. ASSUME pc'[w] # "idle"
        PROVE  /\ job'[w] = j /\ pc'[w] # "loaded" /\ row'[j].status = "running"
               /\ seen'[w].status = row'[j].status /\ seen'[w].attempts = row'[j].attempts
               /\ pc'[w] = "retrying" => row'[j].attempts < MaxAttempts
    <3>1. row'[j].status = "running"
      BY <1>2, <1>4, <2>1 DEF RunGoesOn, RunStarts, RunStores, RunRetries, RunGivesUp
    <3> QED
      BY <1>2, <2>1, <3>1 DEF RunFollows
  <2>2. ASSUME NEW v \in Workers, (InRun(v))'
        PROVE  v = w /\ pc'[w] # "idle"
    BY <1>3, <2>2 DEF InRun
  <2> QED
    BY <1>3, <2>1, <2>2 DEF RunsAlone
<1>8. ScansAlone'
  BY <1>2, <1>3 DEF ScansAlone, RunFollows
<1>9. row'[j].attempts <= MaxAttempts + crashes /\ row[j].attempts <= MaxAttempts + crashes
  <2>1. row[j].attempts <= MaxAttempts + crashes
    BY <1>3 DEF AttemptsAccounted
  <2> QED
    BY <1>1, <1>2, <1>3, <1>5, <2>1 DEF RunGoesOn, RunStarts, RunStores, RunRetries, RunGivesUp
<1>10. AttemptsAccounted'
  BY <1>2, <1>9 DEF AttemptsAccounted
<1>11. ASSUME row'[j].status \in Live, pc'[w] = "idle"
       PROVE  row'[j].attempts < MaxAttempts + crashes
  BY <1>1, <1>2, <1>3, <1>6, <1>11 DEF RunGoesOn, RunStarts, RunStores, RunRetries, RunGivesUp, Live
<1>12. AttemptLeft'
  <2>1. ASSUME NEW k \in Jobs, row'[k].status \in Live,
               \A v \in Workers : ~ (Executing(v, k))'
        PROVE  row'[k].attempts < MaxAttempts + crashes
    <3>1. CASE k = j
      <4>1. pc'[w] = "idle" \/ pc'[w] = "reconciling" \/ job'[w] # j
        BY <1>2, <1>3, <2>1, <3>1 DEF RunFollows, Executing, PC
      <4> QED
        BY <1>2, <1>11, <2>1, <3>1, <4>1 DEF RunFollows
    <3>2. CASE k # j
      <4>1. \A v \in Workers : ~ Executing(v, k)
        BY <1>3, <3>2 DEF Executing
      <4> QED
        BY <1>2, <2>1, <3>2, <4>1 DEF AttemptLeft
    <3> QED
      BY <3>1, <3>2
  <2> QED
    BY <1>2, <2>1 DEF AttemptLeft
<1>13. StoredOnce'
  <2>1. results[j] = 0
    BY <1>3 DEF StoredOnce, Live
  <2>2. /\ results'[j] = IF row'[j].status = "succeeded" THEN 1 ELSE 0
        /\ row'[j].status # "cancelled"
    BY <1>2, <1>3, <2>1
       DEF RunGoesOn, RunStarts, RunStores, RunRetries, RunGivesUp, Live, TypeOK, RowsType
  <2> QED
    BY <1>2, <2>2 DEF StoredOnce
<1> QED
  BY <1>7, <1>8, <1>10, <1>12, <1>13

\* Every step of one worker and its environment keeps Alone.
LEMMA AloneStep ==
    ASSUME OneWorker, TypeOK, Alone, [Next]_vars
    PROVE  Alone'
<1> USE DEF Alone
<1>1. /\ MaxAttempts \in Nat \ {0} /\ crashes \in Nat
      /\ \A j \in Jobs : row[j] \in Row /\ row[j].attempts \in Nat /\ results[j] \in Nat
      /\ \A w \in Workers : seen[w] \in Row /\ seen[w].attempts \in Nat
  BY Numbers
<1>2. ASSUME \A j \in Jobs : row'[j].status = row[j].status /\ row'[j].attempts = row[j].attempts,
             UNCHANGED <<results, pc, job, seen, scan, crashes>>
      PROVE  Alone'
  <2>1. \A w \in Workers : InRun(w) => job[w] \in Jobs
    BY RunJob DEF TypeOK, InRun
  <2>2. \A w \in Workers : scan[w].running \subseteq Jobs /\ scan[w].queued \subseteq Jobs
    BY DEF TypeOK, TasksType
  <2>3. RunsAlone'
    BY <1>2, <2>1 DEF RunsAlone, InRun
  <2>4. ScansAlone'
    BY <1>2, <2>2 DEF ScansAlone
  <2>5. AttemptLeft' /\ AttemptsAccounted' /\ StoredOnce'
    BY <1>2 DEF AttemptLeft, AttemptsAccounted, StoredOnce, Executing
  <2> QED
    BY <2>3, <2>4, <2>5
<1>3. CASE UNCHANGED <<row, results, pc, job, seen, scan, crashes>>
  BY <1>2, <1>3
<1>4. ASSUME NEW j \in Jobs, CreateJob(j)
      PROVE  Alone'
  <2>1. /\ row'[j] = QueuedRow /\ row[j].status = "absent"
        /\ \A k \in Jobs \ {j} : row'[k] = row[k]
        /\ UNCHANGED <<results, pc, job, seen, scan, crashes>>
    BY <1>4 DEF CreateJob, taskVars, bounds, TypeOK, RowsType
  <2>2. QueuedRow.status = "queued" /\ QueuedRow.attempts = 0
    BY DEF QueuedRow, AbsentRow
  <2>3. \A w \in Workers : InRun(w) => job[w] \in Jobs \ {j}
    BY <2>1, RunJob DEF TypeOK, InRun, RunsAlone, Live
  <2>4. \A w \in Workers : scan[w].running \subseteq Jobs /\ scan[w].queued \subseteq Jobs
    BY DEF TypeOK, TasksType
  <2>5. RunsAlone'
    BY <2>1, <2>3 DEF RunsAlone, InRun
  <2>6. ScansAlone'
    BY <2>1, <2>2, <2>4 DEF ScansAlone
  <2>7. AttemptLeft' /\ AttemptsAccounted'
    BY <1>1, <2>1, <2>2 DEF AttemptLeft, AttemptsAccounted, Executing
  <2>8. StoredOnce'
    BY <2>1, <2>2 DEF StoredOnce
  <2> QED
    BY <2>5, <2>6, <2>7, <2>8
<1>5. ASSUME NEW j \in Jobs, Time(j)
      PROVE  Alone'
  <2>1. /\ \/ row' = [row EXCEPT ![j] = [row[j] EXCEPT !.updated = "stale"]]
           \/ row' = [row EXCEPT ![j] = [row[j] EXCEPT !.started = "stale"]]
        /\ UNCHANGED <<results, pc, job, seen, scan, crashes>>
    BY <1>5, Zenon DEF Time, QueuedTooLong, StartedTooLongAgo, taskVars, bounds
  <2>2. \A k \in Jobs : row'[k].status = row[k].status /\ row'[k].attempts = row[k].attempts
    <3>1. /\ \/ row'[j] = [row[j] EXCEPT !.updated = "stale"]
             \/ row'[j] = [row[j] EXCEPT !.started = "stale"]
          /\ \A k \in Jobs \ {j} : row'[k] = row[k]
      BY <2>1 DEF TypeOK, RowsType
    <3>2. row'[j].status = row[j].status /\ row'[j].attempts = row[j].attempts
      BY <1>1, <3>1, AgedType, MarkedAttempts
    <3> QED
      BY <3>1, <3>2
  <2> QED
    BY <1>2, <2>1, <2>2
<1>6. ASSUME NEW w \in Workers, NEW j \in Jobs, PurgeDocument(w, j)
      PROVE  Alone'
  <2>1. /\ \A v \in Workers : pc[v] = "idle" /\ \A k \in Jobs : ~ Executing(v, k)
        /\ row'[j] = AbsentRow /\ results'[j] = 0
        /\ \A k \in Jobs \ {j} : row'[k] = row[k] /\ results'[k] = results[k]
        /\ UNCHANGED <<pc, job, seen, scan, crashes>>
    BY <1>6, NobodyBusy DEF PurgeDocument, Idle, taskVars, bounds, TypeOK, RowsType
  <2>2. AbsentRow.status = "absent" /\ AbsentRow.attempts = 0
    BY DEF AbsentRow
  <2>3. RunsAlone' /\ ScansAlone'
    BY <2>1 DEF RunsAlone, ScansAlone, InRun
  <2>4. AttemptLeft' /\ AttemptsAccounted'
    BY <1>1, <2>1, <2>2 DEF AttemptLeft, AttemptsAccounted, Executing
  <2>5. StoredOnce'
    BY <2>1, <2>2 DEF StoredOnce
  <2> QED
    BY <2>3, <2>4, <2>5
<1>7. ASSUME NEW w \in Workers, NEW j \in Jobs, Deliver(w, j)
      PROVE  Alone'
  <2>1. /\ \A v \in Workers : v = w
        /\ \A v \in Workers : pc[v] = "idle" /\ \A k \in Jobs : ~ Executing(v, k)
        /\ pc'[w] = "loaded" /\ job'[w] = j /\ seen'[w] = row[j] /\ row[j].status \in Live
        /\ UNCHANGED <<row, results, crashes>>
    BY <1>7, NobodyBusy DEF Deliver, Idle, rowVars, TypeOK, TasksType, OneWorker
  <2>2. row[j].attempts < MaxAttempts + crashes
    BY <2>1 DEF AttemptLeft
  <2>3. RunsAlone' /\ ScansAlone'
    BY <2>1, <2>2 DEF RunsAlone, ScansAlone, InRun
  <2>4. AttemptLeft' /\ AttemptsAccounted' /\ StoredOnce'
    BY <2>1 DEF AttemptLeft, AttemptsAccounted, StoredOnce
  <2> QED
    BY <2>3, <2>4
<1>8. ASSUME NEW v \in Workers, NEW w \in Workers, DeliverAgain(v, w)
      PROVE  FALSE
  BY <1>8 DEF DeliverAgain, Idle, OneWorker
<1>9. ASSUME NEW w \in Workers, Run(w)
      PROVE  Alone'
  BY <1>9, RunAlone
<1>10. ASSUME NEW w \in Workers, ScanStale(w)
       PROVE  Alone'
  <2>1. /\ \A v \in Workers : v = w
        /\ \A k \in Jobs : ~ Executing(w, k)
        /\ pc'[w] = "reconciling"
        /\ scan'[w] = [queued |-> StaleQueued, running |-> StaleRunning]
        /\ UNCHANGED <<row, results, crashes>>
    BY <1>10, NobodyBusy DEF ScanStale, Idle, rowVars, bounds, TypeOK, TasksType, OneWorker
  <2>2. RunsAlone' /\ ScansAlone'
    BY <2>1 DEF RunsAlone, ScansAlone, InRun, StaleQueued, StaleRunning
  <2>3. AttemptLeft' /\ AttemptsAccounted' /\ StoredOnce'
    BY <2>1 DEF AttemptLeft, AttemptsAccounted, StoredOnce
  <2> QED
    BY <2>2, <2>3
<1>11. ASSUME NEW w \in Workers, Requeue(w)
       PROVE  Alone'
  <2>1. /\ \A v \in Workers : v = w
        /\ pc[w] = "reconciling" /\ pc'[w] = "idle"
        /\ UNCHANGED <<results, crashes>>
    BY <1>11 DEF Requeue, bounds, TypeOK, TasksType, OneWorker
  <2>2. ASSUME NEW j \in Jobs
        PROVE  /\ row'[j].attempts = row[j].attempts
               /\ row'[j].status = row[j].status
                    \/ (row[j].status = "running" /\ row'[j].status = "queued")
    BY <1>1, <1>11, <2>1, MarksType, MarkedAttempts DEF Requeue, ScansAlone
  <2>3. RunsAlone' /\ ScansAlone'
    BY <2>1 DEF RunsAlone, ScansAlone, InRun
  <2>4. AttemptLeft'
    BY <2>1, <2>2 DEF AttemptLeft, Executing, Live
  <2>5. AttemptsAccounted' /\ StoredOnce'
    BY <2>1, <2>2 DEF AttemptsAccounted, StoredOnce
  <2> QED
    BY <2>3, <2>4, <2>5
<1>12. ASSUME NEW w \in Workers, RequeueFails(w)
       PROVE  Alone'
  <2>1. /\ \A v \in Workers : v = w
        /\ pc[w] = "reconciling" /\ pc'[w] = "idle"
        /\ UNCHANGED <<row, results, crashes>>
    BY <1>12 DEF RequeueFails, rowVars, bounds, TypeOK, TasksType, OneWorker
  <2>2. RunsAlone' /\ ScansAlone' /\ AttemptLeft'
    BY <2>1 DEF RunsAlone, ScansAlone, InRun, AttemptLeft, Executing
  <2>3. AttemptsAccounted' /\ StoredOnce'
    BY <2>1 DEF AttemptsAccounted, StoredOnce
  <2> QED
    BY <2>2, <2>3
<1>13. ASSUME NEW w \in Workers, Crash(w)
       PROVE  Alone'
  <2>1. /\ \A v \in Workers : v = w
        /\ pc'[w] = "idle" /\ UNCHANGED <<row, results>> /\ crashes' = crashes + 1
    BY <1>13 DEF Crash, EndTask, rowVars, TypeOK, TasksType, OneWorker
  <2>2. RunsAlone' /\ ScansAlone'
    BY <2>1 DEF RunsAlone, ScansAlone, InRun
  <2>3. AttemptLeft' /\ AttemptsAccounted'
    BY <1>1, <2>1 DEF AttemptLeft, AttemptsAccounted
  <2>4. StoredOnce'
    BY <2>1 DEF StoredOnce
  <2> QED
    BY <2>2, <2>3, <2>4
<1>14. \/ UNCHANGED <<row, results, pc, job, seen, scan, crashes>>
       \/ \E j \in Jobs : CreateJob(j) \/ Time(j)
       \/ \E w \in Workers, j \in Jobs : PurgeDocument(w, j) \/ Deliver(w, j)
       \/ \E v, w \in Workers : DeliverAgain(v, w)
       \/ \E w \in Workers : \/ Run(w) \/ ScanStale(w) \/ Requeue(w) \/ RequeueFails(w)
                             \/ Crash(w)
  BY Zenon DEF Next, vars, rowVars, taskVars, bounds, Reconcile, EnqueueJob, LoseEnqueue,
               SoftDelete, SkipDelivery, SendOwed, LoseQueue
<1> HIDE DEF Alone
<1> QED
  BY <1>3, <1>4, <1>5, <1>6, <1>7, <1>8, <1>9, <1>10, <1>11, <1>12, <1>13, <1>14, Zenon

\* What one worker has read stays true, and results are stored once.
LEMMA AloneAlways == ASSUME OneWorker PROVE Spec => [](Alone /\ Stored /\ TypeOK)
<1>1. Init => Alone
  <2> SUFFICES ASSUME Init PROVE Alone
    OBVIOUS
  <2>1. /\ MaxAttempts \in Nat \ {0} /\ crashes = 0
        /\ \A j \in Jobs : row[j] = AbsentRow /\ results[j] = 0
        /\ \A w \in Workers : pc[w] = "idle"
    BY ConstantsAssumption DEF ConstantsAssumption, Init
  <2>2. AbsentRow.status = "absent" /\ AbsentRow.attempts = 0
    BY DEF AbsentRow
  <2>3. RunsAlone /\ ScansAlone /\ StoredOnce
    BY <2>1, <2>2 DEF RunsAlone, ScansAlone, StoredOnce, InRun
  <2>4. AttemptLeft /\ AttemptsAccounted
    BY <2>1, <2>2 DEF AttemptLeft, AttemptsAccounted
  <2> QED
    BY <2>3, <2>4 DEF Alone
<1>2. TypeOK /\ Alone /\ [Next]_vars => Alone'
  BY AloneStep
<1> QED
  BY <1>1, <1>2, StoredAlways, TypeCorrect, PTL DEF Spec

\* One worker makes no attempt beyond the limit that a crash did not cut short: neither
\* a retry, nor a reset by the reconciler, nor a repeated message adds one.
THEOREM AttemptsHold == ASSUME OneWorker PROVE Spec => []AttemptsAccounted
<1>1. Alone => AttemptsAccounted
  BY DEF Alone
<1> QED
  BY <1>1, AloneAlways, PTL

-----------------------------------------------------------------------------
(* One worker implements OcrPromise                                        *)

\* What the client is told of a document and a row (the substitution of Promise).
Told(d, r) == IF d = "purged" THEN "erased"
              ELSE IF r.status = "absent" THEN "none"
              ELSE IF r.status \in Live THEN "pending" ELSE r.status

Outcomes(d, r) == [j \in Jobs |-> Told(d[j], r[j])]

\* What a step of the machinery is to the client.
Unseen      == Outcomes(docs, row)' = Outcomes(docs, row) /\ results' = results
Submits(j)  == /\ Outcomes(docs, row)[j] = "none"
               /\ Outcomes(docs, row)' = [Outcomes(docs, row) EXCEPT ![j] = "pending"]
               /\ results' = results
Succeeds(j) == /\ Outcomes(docs, row)[j] = "pending"
               /\ Outcomes(docs, row)' = [Outcomes(docs, row) EXCEPT ![j] = "succeeded"]
               /\ results' = [results EXCEPT ![j] = 1]
Fails(j)    == /\ Outcomes(docs, row)[j] = "pending"
               /\ Outcomes(docs, row)' = [Outcomes(docs, row) EXCEPT ![j] = "failed"]
               /\ results' = results
Erases(j)   == /\ Outcomes(docs, row)[j] # "erased"
               /\ Outcomes(docs, row)' = [Outcomes(docs, row) EXCEPT ![j] = "erased"]
               /\ results' = [results EXCEPT ![j] = 0]

\* Nothing changes for a client when every status stays as it was or live.
LEMMA StaysUnseen ==
    ASSUME UNCHANGED <<docs, results>>,
           \A j \in Jobs : \/ row'[j].status = row[j].status
                           \/ row'[j].status \in Live /\ row[j].status \in Live
    PROVE  Unseen
<1>1. \A j \in Jobs : Told(docs'[j], row'[j]) = Told(docs[j], row[j])
  BY DEF Told, Live
<1> QED
  BY <1>1 DEF Unseen, Outcomes

\* One job changes for the client, and the others do not.
LEMMA OneSeen ==
    ASSUME NEW j \in Jobs, NEW o, Told(docs'[j], row'[j]) = o,
           \A k \in Jobs \ {j} : row'[k] = row[k] /\ docs'[k] = docs[k]
    PROVE  /\ Outcomes(docs, row)[j] = Told(docs[j], row[j])
           /\ Outcomes(docs, row)' = [Outcomes(docs, row) EXCEPT ![j] = o]
  BY DEF Outcomes

\* The row of a run's job is live, so that the client still waits for it.
LEMMA RunSeen ==
    ASSUME OneWorker, TypeOK, Alone, Stored, NEW w \in Workers, Run(w)
    PROVE  \/ Unseen
           \/ \E j \in Jobs : Succeeds(j) \/ Fails(j)
<1> DEFINE j == job[w]
<1>1. /\ InRun(w)
      /\ \A k \in Jobs \ {j} : row'[k] = row[k] /\ results'[k] = results[k]
      /\ RunGoesOn(w) \/ RunStarts(w) \/ RunStores(w) \/ RunRetries(w) \/ RunGivesUp(w)
  BY RunMoves
<1>2. docs' = docs
  BY Zenon DEF Run, MarkRunning, MarkRunningFails, OpenDocument, DocumentMissing, ExtractFails,
      PageLimitExceeded, Extracted, StoreResults, StoreConflict, ScheduleRetry, GiveUp,
      FailureUnrecorded, rowVars
<1>3. j \in Jobs /\ row[j].status \in Live
  BY <1>1, RunReads DEF Alone
<1>4. docs[j] # "purged" /\ results[j] = 0
  BY <1>3 DEF Stored, PurgeIsComplete, Alone, StoredOnce, Live
<1>5. Told(docs[j], row[j]) = "pending"
  BY <1>3, <1>4 DEF Told, Live
<1> HIDE DEF j
<1>6. CASE RunGoesOn(w) \/ RunStarts(w) \/ RunRetries(w)
  <2>1. results' = results /\ (row' = row \/ row'[j].status \in {"running", "queued"})
    BY <1>6 DEF RunGoesOn, RunStarts, RunRetries, j
  <2> QED
    BY <1>1, <1>2, <1>3, <2>1, StaysUnseen DEF Live
<1>7. CASE RunStores(w)
  <2>1. row'[j].status = "succeeded" /\ results' = [results EXCEPT ![j] = 1]
    BY <1>3, <1>4, <1>7 DEF RunStores, TypeOK, RowsType, j
  <2>2. Told(docs'[j], row'[j]) = "succeeded"
    BY <1>2, <1>4, <2>1 DEF Told, Live
  <2>3. Succeeds(j)
    BY <1>1, <1>2, <1>3, <1>5, <2>1, <2>2, OneSeen DEF Succeeds
  <2> QED
    BY <1>3, <2>3, Zenon
<1>8. CASE RunGivesUp(w)
  <2>1. row'[j].status = "failed" /\ results' = results
    BY <1>8 DEF RunGivesUp, j
  <2>2. Told(docs'[j], row'[j]) = "failed"
    BY <1>2, <1>4, <2>1 DEF Told, Live
  <2>3. Fails(j)
    BY <1>1, <1>2, <1>3, <1>5, <2>1, <2>2, OneSeen DEF Fails
  <2> QED
    BY <1>3, <2>3, Zenon
<1> QED
  BY <1>1, <1>6, <1>7, <1>8, Zenon

\* Every step is one of those a client may see, or shows nothing.
LEMMA ClientSees ==
    ASSUME OneWorker, TypeOK, Alone, Stored, [Next]_vars
    PROVE  \/ Unseen
           \/ \E j \in Jobs : Submits(j) \/ Succeeds(j) \/ Fails(j) \/ Erases(j)
<1>1. CASE UNCHANGED rowVars
  BY <1>1, StaysUnseen DEF rowVars
<1>2. ASSUME NEW j \in Jobs, CreateJob(j)
      PROVE  Submits(j)
  <2>1. /\ docs[j] = "live" /\ row[j].status = "absent" /\ row'[j] = QueuedRow
        /\ \A k \in Jobs \ {j} : row'[k] = row[k]
        /\ docs' = docs /\ results' = results
    BY <1>2 DEF CreateJob, TypeOK, RowsType
  <2>2. Told(docs[j], row[j]) = "none" /\ Told(docs'[j], row'[j]) = "pending"
    BY <2>1, InitialRows DEF Told, Live
  <2> QED
    BY <2>1, <2>2, OneSeen DEF Submits
<1>3. ASSUME NEW j \in Jobs, Time(j)
      PROVE  Unseen
  <2>1. /\ \/ row' = [row EXCEPT ![j] = [row[j] EXCEPT !.updated = "stale"]]
           \/ row' = [row EXCEPT ![j] = [row[j] EXCEPT !.started = "stale"]]
        /\ docs' = docs /\ results' = results
    BY <1>3, Zenon DEF Time, QueuedTooLong, StartedTooLongAgo
  <2>2. /\ \/ row'[j] = [row[j] EXCEPT !.updated = "stale"]
           \/ row'[j] = [row[j] EXCEPT !.started = "stale"]
        /\ \A k \in Jobs \ {j} : row'[k] = row[k]
    BY <2>1 DEF TypeOK, RowsType
  <2>3. row'[j].status = row[j].status
    BY <2>2, AgedType DEF TypeOK, RowsType
  <2> QED
    BY <2>1, <2>2, <2>3, StaysUnseen
<1>4. ASSUME NEW j \in Jobs, SoftDelete(j)
      PROVE  Unseen
  <2>1. /\ docs[j] = "live" /\ docs'[j] = "deleted" /\ \A k \in Jobs \ {j} : docs'[k] = docs[k]
        /\ row' = row /\ results' = results
    BY <1>4 DEF SoftDelete, TypeOK, RowsType
  <2>2. \A k \in Jobs : Told(docs'[k], row'[k]) = Told(docs[k], row[k])
    BY <2>1 DEF Told
  <2> QED
    BY <2>1, <2>2 DEF Unseen, Outcomes
<1>5. ASSUME NEW w \in Workers, NEW j \in Jobs, PurgeDocument(w, j)
      PROVE  Erases(j)
  <2>1. /\ docs[j] # "purged" /\ docs'[j] = "purged"
        /\ \A k \in Jobs \ {j} : row'[k] = row[k] /\ docs'[k] = docs[k]
        /\ results' = [results EXCEPT ![j] = 0]
    BY <1>5 DEF PurgeDocument, TypeOK, RowsType
  <2>2. Told(docs[j], row[j]) # "erased" /\ Told(docs'[j], row'[j]) = "erased"
    <3>1. row[j].status \in Status
      BY DEF TypeOK, RowsType, Row
    <3> QED
      BY <2>1, <3>1 DEF Told, Live, Status
  <2> QED
    BY <2>1, <2>2, OneSeen DEF Erases
<1>6. ASSUME NEW w \in Workers, Run(w)
      PROVE  \/ Unseen
             \/ \E j \in Jobs : Succeeds(j) \/ Fails(j)
  BY <1>6, RunSeen
<1>7. ASSUME NEW w \in Workers, Requeue(w)
      PROVE  Unseen
  <2>1. pc[w] = "reconciling" /\ docs' = docs /\ results' = results
    BY <1>7 DEF Requeue
  <2>2. ASSUME NEW j \in Jobs
        PROVE  row'[j].status = row[j].status
                 \/ (row[j].status = "running" /\ row'[j].status = "queued")
    <3>1. row[j] \in Row
      BY DEF TypeOK, RowsType
    <3> QED
      BY <1>7, <2>1, <3>1, MarksType DEF Requeue, Alone, ScansAlone
  <2> QED
    BY <2>1, <2>2, StaysUnseen DEF Live
<1>8. \/ UNCHANGED rowVars
      \/ \E j \in Jobs : CreateJob(j) \/ Time(j) \/ SoftDelete(j)
      \/ \E w \in Workers, j \in Jobs : PurgeDocument(w, j)
      \/ \E w \in Workers : Run(w) \/ Requeue(w)
  BY Zenon DEF Next, vars, rowVars, Reconcile, EnqueueJob, LoseEnqueue, SkipDelivery, Deliver,
               DeliverAgain, SendOwed, LoseQueue, ScanStale, RequeueFails, Crash
<1> QED
  BY <1>1, <1>2, <1>3, <1>4, <1>5, <1>6, <1>7, <1>8, Zenon

\* The safety part of PromiseKept: with one worker, whatever is lost, repeated, crashed
\* or reset, every step is one that OcrPromise allows, or changes nothing for a client.
THEOREM WorkerKeepsPromise ==
    ASSUME OneWorker
    PROVE  Spec => Promise!Init /\ [][Promise!Next]_(Promise!promiseVars)
<1>1. Init => Promise!Init
  <2> SUFFICES ASSUME Init
               PROVE  Promise!Init
    OBVIOUS
  <2>1. \A j \in Jobs : docs[j] = "live" /\ row[j].status = "absent"
    BY InitialRows DEF Init
  <2> QED
    BY <2>1 DEF Promise!Init, Init
<1>2. Alone /\ Stored /\ TypeOK /\ [Next]_vars => [Promise!Next]_(Promise!promiseVars)
  <2> SUFFICES ASSUME Alone, Stored, TypeOK, [Next]_vars
               PROVE  [Promise!Next]_(Promise!promiseVars)
    OBVIOUS
  <2> DEFINE Mapped == [j \in Jobs |->
                   IF docs[j] = "purged" THEN "erased"
                   ELSE IF row[j].status = "absent" THEN "none"
                   ELSE IF row[j].status \in Live THEN "pending" ELSE row[j].status]
  <2>1. Mapped = Outcomes(docs, row)
    BY Zenon DEF Outcomes, Told
  <2>2. Mapped' = Outcomes(docs, row)'
    BY Zenon DEF Outcomes, Told
  <2>3. CASE Unseen
    BY <2>1, <2>2, <2>3, Zenon DEF Unseen, Promise!promiseVars
  <2>4. ASSUME NEW j \in Jobs, Submits(j) \/ Succeeds(j) \/ Fails(j) \/ Erases(j)
        PROVE  Promise!Next
    <3>1. CASE Submits(j)
      <4>1. Promise!Submit(j)
        BY <2>1, <2>2, <3>1, Zenon DEF Submits, Promise!Submit
      <4> QED
        BY <4>1, Zenon DEF Promise!Next
    <3>2. CASE Succeeds(j)
      <4>1. Promise!Succeed(j)
        BY <2>1, <2>2, <3>2, Zenon DEF Succeeds, Promise!Succeed
      <4> QED
        BY <4>1, Zenon DEF Promise!Next
    <3>3. CASE Fails(j)
      <4>1. Promise!Fail(j)
        BY <2>1, <2>2, <3>3, Zenon DEF Fails, Promise!Fail
      <4> QED
        BY <4>1, Zenon DEF Promise!Next
    <3>4. CASE Erases(j)
      <4>1. /\ Mapped' = [k \in Jobs |-> IF k \in {j} THEN "erased" ELSE Mapped[k]]
            /\ results' = [k \in Jobs |-> IF k \in {j} THEN 0 ELSE results[k]]
            /\ \A k \in {j} : Mapped[k] # "erased"
        BY <2>1, <2>2, <3>4 DEF Erases, Outcomes, TypeOK, RowsType
      <4>2. Promise!Erase({j})
        BY <4>1 DEF Promise!Erase
      <4>3. {j} \in SUBSET Jobs
        OBVIOUS
      <4> QED
        BY <4>2, <4>3, Zenon DEF Promise!Next
    <3> QED
      BY <2>4, <3>1, <3>2, <3>3, <3>4
  <2> QED
    BY <2>3, <2>4, ClientSees, Zenon
<1> QED
  BY <1>1, <1>2, AloneAlways, PTL DEF Spec
==============================================================================
