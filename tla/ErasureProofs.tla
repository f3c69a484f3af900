---------------------------- MODULE ErasureProofs ----------------------------
(***************************************************************************)
(* Theorems about Erasure, for any number of documents, any finite sets of *)
(* jobs and workers, and with every fault.                                 *)
(***************************************************************************)
EXTENDS Erasure, WellFoundedInduction, TLAPS

-----------------------------------------------------------------------------
(* The inductive invariant                                                 *)

\* Documents whose upload has been committed, or has failed with nothing left behind:
\* no row is ever inserted for them again.
Settled == {d \in Docs : upload[d] \in {"committed", "unfiled", "done"}}

\* A row is inserted once, and only for a file that is in storage.
UploadsInOrder ==
    \A d \in Docs :
        /\ doc[d] # "absent" => d \in Settled
        /\ upload[d] = "stored" => d \in files

\* A job has a row once its request has committed, what it owes is settled by then, it
\* is queued after that, and the jobs its request saw had been decided.
RequestsInOrder ==
    \A j \in Jobs :
        /\ job[j].status = "absent" <=> request[j] \in {"unused", "account", "documents"}
        /\ owed[j] \subseteq Settled
        /\ j \in queue => request[j] = "done"
        /\ \A k \in saw[j] : job[k].status \in {"succeeded", "failed"}

\* What worker w holds, and how far it is, fits the row of its job, the documents and
\* storage: nothing it owes is left out, and no file of a row it deletes is forgotten.
RunFits(w) ==
    LET r == work[w]
    IN  /\ r.pc # "idle" => r.job \in queue
        /\ r.pc \in {"listing", "files", "row"} => job[r.job].status = "running"
        /\ r.pc = "finishing" => job[r.job].status \in {"succeeded", "failed"}
        /\ r.todo \cup r.gone \subseteq Settled
        /\ r.gone \cap files \subseteq r.errors
        /\ r.pc \in {"files", "row"} => owed[r.job] \cap Rows \subseteq r.todo \cup r.gone
        /\ r.pc = "row" => r.todo # {} /\ (NextDoc(w) \in files => NextDoc(w) \in r.errors)

RunsFit == \A w \in Workers : RunFits(w)

\* No two workers run the same job.
OneRunEach ==
    \A w, x \in Workers : work[w].pc # "idle" /\ work[x].pc # "idle" /\ work[w].job = work[x].job
                              => w = x

\* A file without a row belongs to an upload, or its failed deletion is recorded.
StrayFiles ==
    \A d \in files \ Rows :
        \/ upload[d] \in {"stored", "leaked"}
        \/ \E j \in Succeeded : d \in job[j].errors

\* A row without a file belongs to an upload that deleted it, or to a job that failed, or
\* whose run goes over it again.
Answers(j, d) ==
    \/ job[j].status = "failed"
    \/ /\ job[j].status = "running"
       /\ \A w \in Workers : work[w].job = j /\ work[w].pc \in {"files", "row"}
              => d \in work[w].todo \cup work[w].gone

BareRows == \A d \in Rows \ files : upload[d] = "unfiled" \/ \E j \in Jobs : Answers(j, d)

\* Whoever is still to write the row of an erased account has read it before, or has
\* read it erased.
NobodyLate ==
    Erased /\ ~ late => visit \in {"none", "over", "erased form"}

IInv ==
    /\ TypeOK
    /\ UploadsInOrder /\ RequestsInOrder
    /\ RunsFit /\ OneRunEach
    /\ StrayFiles /\ BareRows
    /\ SucceededIsGone /\ ActiveIsDriven
    /\ NobodyLate /\ AccountStaysClosed

-----------------------------------------------------------------------------
(* Documents in order, and the records of runs                             *)

LEMMA Bound == NumDocs \in Nat /\ MaxFaults \in Nat
<1>1. NumDocs \in Nat /\ MaxFaults \in 0..4
  BY ConstantsAssumption, Zenon DEF ConstantsAssumption
<1> QED
  BY <1>1

\* A run is idle, or it holds a job.
Running ==
    [pc     : {"starting", "listing", "files", "row", "finishing"},
     job    : Jobs,
     todo   : SUBSET Docs,
     gone   : SUBSET Docs,
     errors : SUBSET Docs]

LEMMA WorkFields ==
    ASSUME TypeOK, NEW w \in Workers
    PROVE  /\ work[w].todo \subseteq Docs /\ work[w].gone \subseteq Docs
           /\ work[w].errors \subseteq Docs
           /\ work[w].pc \in {"idle", "starting", "listing", "files", "row", "finishing"}
           /\ work[w].pc # "idle" => work[w] \in Running /\ work[w].job \in Jobs
           /\ work[w].pc = "idle" => work[w] = Idle
<1>1. work[w] \in {Idle} \cup Running
  <2>1. work[w] \in Work
    BY DEF TypeOK
  <2> QED
    BY <2>1 DEF Work, Running
<1>2. CASE work[w] = Idle
  BY <1>2 DEF Idle
<1>3. CASE work[w] \in Running
  BY <1>3 DEF Running
<1> QED
  BY <1>1, <1>2, <1>3

LEMMA RunningIsWork == Running \subseteq Work /\ Idle \in Work
  BY DEF Work, Running

\* A run that has documents left has a next one.
LEMMA NextDocLeft ==
    ASSUME TypeOK, NEW w \in Workers, work[w].todo # {}
    PROVE  NextDoc(w) \in work[w].todo /\ NextDoc(w) \in Docs
<1>1. work[w].todo \subseteq Docs
  BY WorkFields
<1> DEFINE T == work[w].todo
<1>2. T \subseteq Nat /\ T # {}
  BY <1>1, Bound DEF Docs
<1>3. PICK d \in T : \A e \in T : <<e, d>> \notin OpToRel(<, Nat)
  <2> HIDE DEF T
  <2> QED
    BY <1>2, NatLessThanWellFounded, WFMin
<1>4. \A e \in T : d <= e
  <2> SUFFICES ASSUME NEW e \in T, e < d PROVE FALSE
    BY <1>2
  <2>1. <<e, d>> \in OpToRel(<, Nat)
    BY <1>2 DEF OpToRel
  <2> QED
    BY <2>1, <1>3
<1> QED
  BY <1>1, <1>4 DEF NextDoc

-----------------------------------------------------------------------------
(* What each step of a worker makes of its run                             *)

\* Only the run of w changes, and it becomes r.
Becomes(w, p, j, S, G, E) ==
    /\ work' \in [Workers -> Work]
    /\ \A x \in Workers \ {w} : work'[x] = work[x]
    /\ work'[w].pc = p /\ work'[w].job = j
    /\ work'[w].todo = S /\ work'[w].gone = G /\ work'[w].errors = E

LEMMA EndTaskRun ==
    ASSUME TypeOK, NEW w \in Workers, EndTask(w) \/ work' = [work EXCEPT ![w] = Idle]
    PROVE  Becomes(w, "idle", "none", {}, {}, {})
<1>1. /\ Idle.pc = "idle" /\ Idle.job = "none" /\ Idle.todo = {} /\ Idle.gone = {}
      /\ Idle.errors = {}
  BY DEF Idle
<1> QED
  BY <1>1, RunningIsWork DEF TypeOK, EndTask, Becomes

LEMMA StartTaskRun ==
    ASSUME TypeOK, NEW w \in Workers, NEW j \in Jobs, StartTask(w, j)
    PROVE  Becomes(w, "starting", j, {}, {}, {})
<1>1. work[w] = Idle
  BY WorkFields DEF StartTask
<1> DEFINE r == [Idle EXCEPT !.pc = "starting", !.job = j]
<1>2. r \in Running /\ r.pc = "starting" /\ r.job = j /\ r.todo = {} /\ r.gone = {} /\ r.errors = {}
  BY DEF Idle, Running
<1>3. work' = [work EXCEPT ![w] = r]
  BY <1>1 DEF StartTask, TypeOK
<1> HIDE DEF r
<1> QED
  BY <1>2, <1>3, RunningIsWork DEF TypeOK, Becomes

LEMMA WorkOnRun ==
    ASSUME TypeOK, NEW w \in Workers, work[w].pc # "idle",
           NEW p \in {"listing", "row"}, WorkOn(w, p)
    PROVE  Becomes(w, p, work[w].job, work[w].todo, work[w].gone, work[w].errors)
<1> DEFINE r == [work[w] EXCEPT !.pc = p]
<1>1. work[w] \in Running
  BY WorkFields
<1>2. /\ r \in Running /\ r.pc = p /\ r.job = work[w].job
      /\ r.todo = work[w].todo /\ r.gone = work[w].gone /\ r.errors = work[w].errors
  BY <1>1 DEF Running
<1>3. work' = [work EXCEPT ![w] = r]
  BY DEF WorkOn, TypeOK
<1> HIDE DEF r
<1> QED
  BY <1>2, <1>3, RunningIsWork DEF TypeOK, Becomes

LEMMA ListDocumentsRun ==
    ASSUME TypeOK, NEW w \in Workers, ListDocuments(w)
    PROVE  Becomes(w, "files", work[w].job, Rows, work[w].gone, work[w].errors)
<1> DEFINE r == [work[w] EXCEPT !.pc = "files", !.todo = Rows]
<1>1. work[w] \in Running /\ Rows \subseteq Docs
  BY WorkFields DEF ListDocuments, Rows
<1>2. /\ r \in Running /\ r.pc = "files" /\ r.job = work[w].job
      /\ r.todo = Rows /\ r.gone = work[w].gone /\ r.errors = work[w].errors
  BY <1>1 DEF Running
<1>3. work' = [work EXCEPT ![w] = r]
  BY DEF ListDocuments, TypeOK
<1> HIDE DEF r
<1> QED
  BY <1>2, <1>3, RunningIsWork DEF TypeOK, Becomes

LEMMA FailDeleteFileRun ==
    ASSUME TypeOK, NEW w \in Workers, FailDeleteFile(w)
    PROVE  Becomes(w, "row", work[w].job, work[w].todo, work[w].gone,
                   work[w].errors \cup {NextDoc(w)})
<1> DEFINE r == [work[w] EXCEPT !.pc = "row", !.errors = work[w].errors \cup {NextDoc(w)}]
<1>1. work[w] \in Running /\ NextDoc(w) \in Docs
  BY WorkFields, NextDocLeft DEF FailDeleteFile
<1>2. /\ r \in Running /\ r.pc = "row" /\ r.job = work[w].job
      /\ r.todo = work[w].todo /\ r.gone = work[w].gone
      /\ r.errors = work[w].errors \cup {NextDoc(w)}
  BY <1>1 DEF Running
<1>3. work' = [work EXCEPT ![w] = r]
  BY DEF FailDeleteFile, TypeOK
<1> HIDE DEF r
<1> QED
  BY <1>2, <1>3, RunningIsWork DEF TypeOK, Becomes

LEMMA DeleteRowRun ==
    ASSUME TypeOK, NEW w \in Workers, DeleteRow(w), work[w].todo # {}
    PROVE  Becomes(w, "files", work[w].job, work[w].todo \ {NextDoc(w)},
                   work[w].gone \cup {NextDoc(w)}, work[w].errors)
<1> DEFINE r == [work[w] EXCEPT !.pc = "files", !.gone = work[w].gone \cup {NextDoc(w)},
                                !.todo = work[w].todo \ {NextDoc(w)}]
<1>1. work[w] \in Running /\ NextDoc(w) \in Docs
  BY WorkFields, NextDocLeft DEF DeleteRow
<1>2. /\ r \in Running /\ r.pc = "files" /\ r.job = work[w].job
      /\ r.todo = work[w].todo \ {NextDoc(w)} /\ r.gone = work[w].gone \cup {NextDoc(w)}
      /\ r.errors = work[w].errors
  BY <1>1 DEF Running
<1>3. work' = [work EXCEPT ![w] = r]
  BY DEF DeleteRow, TypeOK
<1> HIDE DEF r
<1> QED
  BY <1>2, <1>3, RunningIsWork DEF TypeOK, Becomes

LEMMA FinishingRun ==
    ASSUME TypeOK, NEW w \in Workers, work[w].pc # "idle",
           work' = [work EXCEPT ![w] = [Idle EXCEPT !.pc = "finishing", !.job = work[w].job]]
    PROVE  Becomes(w, "finishing", work[w].job, {}, {}, {})
<1> DEFINE r == [Idle EXCEPT !.pc = "finishing", !.job = work[w].job]
<1>1. work[w].job \in Jobs
  BY WorkFields
<1>2. /\ r \in Running /\ r.pc = "finishing" /\ r.job = work[w].job
      /\ r.todo = {} /\ r.gone = {} /\ r.errors = {}
  BY <1>1 DEF Idle, Running
<1> HIDE DEF r
<1> QED
  BY <1>2, RunningIsWork DEF TypeOK, Becomes, r

LEMMA RowLeft ==
    ASSUME IInv, NEW w \in Workers, work[w].pc = "row"
    PROVE  work[w].todo # {}
  BY DEF IInv, RunsFit, RunFits

\* Whatever a worker does, it changes its own run only.
LEMMA WorkerRuns ==
    ASSUME IInv, NEW w \in Workers, WorkerStep(w)
    PROVE  \E p, j, S, G, E : Becomes(w, p, j, S, G, E)
<1>1. TypeOK
  BY DEF IInv
<1>2. ASSUME NEW j \in Jobs, StartTask(w, j)
      PROVE  \E p, k, S, G, E : Becomes(w, p, k, S, G, E)
  BY <1>1, <1>2, StartTaskRun
<1>3. CASE SkipDecided(w) \/ Return(w) \/ BreakOff(w) \/ Crash(w)
  BY <1>1, <1>3, EndTaskRun DEF SkipDecided, Return, BreakOff, Crash
<1>4. CASE MarkRunning(w) \/ DeleteFile(w)
  BY <1>1, <1>4, WorkOnRun DEF MarkRunning, DeleteFile
<1>5. CASE ListDocuments(w)
  BY <1>1, <1>5, ListDocumentsRun
<1>6. CASE FailDeleteFile(w)
  BY <1>1, <1>6, FailDeleteFileRun
<1>7. CASE DeleteRow(w)
  <2>1. work[w].todo # {}
    BY <1>7, RowLeft DEF DeleteRow
  <2> QED
    BY <1>1, <1>7, <2>1, DeleteRowRun
<1>8. CASE Finish(w) \/ FailRun(w)
  BY <1>1, <1>8, FinishingRun DEF Finish, FailRun
<1> QED
  BY <1>2, <1>3, <1>4, <1>5, <1>6, <1>7, <1>8 DEF WorkerStep

-----------------------------------------------------------------------------
(* Types                                                                   *)

LEMMA MarkedType ==
    ASSUME TypeOK, NEW j \in Jobs, NEW s \in JobStatus, NEW E \in SUBSET Docs
    PROVE  /\ Marked(j, s, E) \in [Jobs -> JobRow]
           /\ Marked(j, s, E)[j].status = s
           /\ Marked(j, s, E)[j].errors = E
           /\ Marked(j, s, E)[j].scopes = job[j].scopes
           /\ \A k \in Jobs \ {j} : Marked(j, s, E)[k] = job[k]
<1> DEFINE r == [job[j] EXCEPT !.status = s, !.errors = E]
<1>1. /\ r \in JobRow /\ r.status = s /\ r.errors = E /\ r.scopes = job[j].scopes
  BY DEF TypeOK, JobRow
<1>2. Marked(j, s, E) = [job EXCEPT ![j] = r]
  BY DEF Marked, TypeOK
<1> HIDE DEF r
<1> QED
  BY <1>1, <1>2 DEF TypeOK

LEMMA NewJobType ==
    ASSUME NEW S \in SUBSET Scopes
    PROVE  NewJob(S) \in JobRow /\ NewJob(S).status = "queued" /\ NewJob(S).scopes = S
  BY DEF NewJob, JobRow, JobStatus

LEMMA UserRowType ==
    ASSUME NEW row \in UserRow, NEW b \in BOOLEAN, NEW c \in BOOLEAN
    PROVE  /\ [row EXCEPT !.named = b] \in UserRow
           /\ [row EXCEPT !.sessions = b] \in UserRow
           /\ [row EXCEPT !.active = b, !.named = c] \in UserRow
           /\ Anonymized(row) \in UserRow
  BY DEF UserRow, Anonymized

LEMMA TypeInit == Init => TypeOK
<1> SUFFICES ASSUME Init PROVE TypeOK
  OBVIOUS
<1>1. Idle \in Work /\ AbsentJob \in JobRow
  BY DEF Work, JobRow, AbsentJob, JobStatus
<1>2. doc \in [Docs -> DocRow] /\ job \in [Jobs -> JobRow] /\ work \in [Workers -> Work]
  BY <1>1 DEF Init, DocRow
<1>3. user \in UserRow
  BY DEF Init, UserRow
<1>4. faults \in 0..MaxFaults
  <2>1. faults = 0
    BY DEF Init
  <2> QED
    BY <2>1, Bound
<1>5. /\ late \in BOOLEAN
      /\ files = {} /\ queue = {} /\ lost = {} /\ visit = "none"
      /\ upload = [d \in Docs |-> "unused"] /\ request = [j \in Jobs |-> "unused"]
      /\ owed = [j \in Jobs |-> {}] /\ saw = [j \in Jobs |-> {}]
  BY DEF Init
<1> QED
  BY <1>2, <1>3, <1>4, <1>5 DEF TypeOK

LEMMA FaultType == faults \in 0..MaxFaults /\ Fault => faults' \in 0..MaxFaults
  BY Bound DEF Fault

LEMMA TypeUserStep == TypeOK /\ UserStep => TypeOK'
<1> SUFFICES ASSUME TypeOK, UserStep PROVE TypeOK'
  OBVIOUS
<1> USE DEF documentVars, accountVars, requestVars
<1>1. ASSUME NEW d \in Docs,
             BeginUpload(d) \/ StoreFile(d) \/ CommitUpload(d) \/ FinishUpload(d)
                \/ FailUpload(d) \/ FailRefresh(d) \/ LeakFile(d) \/ SoftDelete(d)
      PROVE  TypeOK'
  <2>1. faults' \in 0..MaxFaults
    BY <1>1, FaultType DEF TypeOK, BeginUpload, StoreFile, CommitUpload, FinishUpload,
       FailUpload, FailRefresh, LeakFile, SoftDelete
  <2> QED
    BY <1>1, <2>1 DEF TypeOK, BeginUpload, StoreFile, CommitUpload, FinishUpload, FailUpload,
       FailRefresh, LeakFile, SoftDelete, UploadTo, Put, Inserted, SoftDeleted, DocRow
<1>2. ASSUME NEW v \in Visits, BeginVisit(v) PROVE TypeOK'
  BY <1>2 DEF TypeOK, BeginVisit
<1>3. CASE OpenForm
  BY <1>3 DEF TypeOK, OpenForm
<1>4. CASE Rename
  BY <1>4, UserRowType DEF TypeOK, Rename, WriteUser
<1>5. CASE Login
  BY <1>5, UserRowType DEF TypeOK, Login, WriteUser
<1>6. ASSUME NEW b \in BOOLEAN, SaveForm(b) PROVE TypeOK'
  <2> DEFINE c == visit = "named form"
  <2>1. c \in BOOLEAN /\ late' \in BOOLEAN
    BY <1>6 DEF SaveForm
  <2>2. user' = [user EXCEPT !.active = b, !.named = c]
    BY <1>6 DEF SaveForm, WriteUser
  <2> HIDE DEF c
  <2>3. user' \in UserRow
    BY <2>1, <2>2, UserRowType DEF TypeOK
  <2> QED
    BY <1>6, <2>1, <2>3 DEF TypeOK, SaveForm, WriteUser
<1> QED
  BY <1>1, <1>2, <1>3, <1>4, <1>5, <1>6 DEF UserStep

LEMMA TypeRequestStep == TypeOK /\ RequestStep => TypeOK'
<1> SUFFICES ASSUME TypeOK, RequestStep PROVE TypeOK'
  OBVIOUS
<1> USE DEF documentVars, accountVars
<1>1. ASSUME NEW j \in Jobs, NEW S \in SUBSET Scopes, CheckRequest(j, S) PROVE TypeOK'
  BY <1>1 DEF TypeOK, CheckRequest, RequestTo, Created
<1>2. ASSUME NEW j \in Jobs, CommitRequest(j) PROVE TypeOK'
  <2>1. Normalized({request[j]}) \in SUBSET Scopes
    BY <1>2 DEF CommitRequest, Normalized, Scopes
  <2>2. NewJob(Normalized({request[j]})) \in JobRow
    BY <2>1, NewJobType
  <2> QED
    BY <1>2, <2>2 DEF TypeOK, CommitRequest, RequestTo, Rows
<1>3. ASSUME NEW j \in Jobs, Enqueue(j) PROVE TypeOK'
  BY <1>3 DEF TypeOK, Enqueue, RequestTo
<1>4. ASSUME NEW j \in Jobs, LoseMessage(j) PROVE TypeOK'
  BY <1>4, FaultType DEF TypeOK, LoseMessage, RequestTo
<1> QED
  BY <1>1, <1>2, <1>3, <1>4 DEF RequestStep

LEMMA TypeWorkerStep ==
    ASSUME IInv, NEW w \in Workers, WorkerStep(w)
    PROVE  TypeOK'
<1>1. TypeOK /\ work' \in [Workers -> Work]
  BY WorkerRuns DEF IInv, Becomes
<1>2. work[w].pc # "idle" => work[w].job \in Jobs /\ work[w].errors \subseteq Docs
  BY <1>1, WorkFields
<1>3. {"running", "succeeded", "failed"} \subseteq JobStatus
  BY DEF JobStatus
<1> USE DEF documentVars, accountVars, requestVars
<1>4. faults' \in 0..MaxFaults
  BY <1>1, FaultType DEF TypeOK, WorkerStep, StartTask, SkipDecided, MarkRunning, ListDocuments,
     DeleteFile, DeleteRow, Finish, Return, FailDeleteFile, FailRun, BreakOff, Crash
<1>5. ASSUME NEW j \in Jobs, StartTask(w, j) PROVE TypeOK'
  BY <1>1, <1>5 DEF TypeOK, StartTask
<1>6. CASE SkipDecided(w) \/ Return(w) \/ BreakOff(w) \/ Crash(w)
  <2>1. lost' \subseteq Jobs /\ queue' \subseteq Jobs
    BY <1>1, <1>2, <1>6 DEF TypeOK, SkipDecided, Return, BreakOff, Crash, EndTask
  <2> QED
    BY <1>1, <1>4, <1>6, <2>1 DEF TypeOK, SkipDecided, Return, BreakOff, Crash
<1>7. CASE ListDocuments(w) \/ DeleteRow(w) \/ DeleteFile(w) \/ FailDeleteFile(w)
  BY <1>1, <1>4, <1>7 DEF TypeOK, ListDocuments, DeleteRow, DeleteFile, FailDeleteFile
<1>8. CASE MarkRunning(w)
  <2>1. job[work[w].job].errors \in SUBSET Docs
    BY <1>1, <1>2, <1>8 DEF MarkRunning, TypeOK, JobRow
  <2>2. job' \in [Jobs -> JobRow]
    BY <1>1, <1>2, <1>3, <1>8, <2>1, MarkedType DEF MarkRunning
  <2> QED
    BY <1>1, <1>8, <2>2 DEF TypeOK, MarkRunning
<1>9. CASE FailRun(w)
  <2>1. job' \in [Jobs -> JobRow]
    BY <1>1, <1>2, <1>3, <1>9, MarkedType DEF FailRun
  <2> QED
    BY <1>1, <1>4, <1>9, <2>1 DEF TypeOK, FailRun
<1>10. CASE Finish(w)
  <2>1. job' \in [Jobs -> JobRow]
    BY <1>1, <1>2, <1>3, <1>10, MarkedType DEF Finish
  <2>2. doc' \in [Docs -> DocRow]
    BY <1>1, <1>10 DEF TypeOK, Finish, Remove, DocRow
  <2>3. user' \in UserRow /\ late' \in BOOLEAN
    BY <1>1, <1>10, UserRowType DEF TypeOK, Finish
  <2> QED
    BY <1>1, <1>10, <2>1, <2>2, <2>3 DEF TypeOK, Finish
<1> QED
  BY <1>5, <1>6, <1>7, <1>8, <1>9, <1>10 DEF WorkerStep

LEMMA TypeStep == IInv /\ [Next]_vars => TypeOK'
<1> SUFFICES ASSUME IInv, [Next]_vars PROVE TypeOK'
  OBVIOUS
<1>1. CASE UNCHANGED vars
  BY <1>1 DEF IInv, TypeOK, vars, documentVars, accountVars, requestVars
<1> QED
  BY <1>1, TypeUserStep, TypeRequestStep, TypeWorkerStep DEF Next, IInv

-----------------------------------------------------------------------------
(* Which steps change what                                                 *)

UploadStep(d) ==
    \/ BeginUpload(d) \/ StoreFile(d) \/ CommitUpload(d) \/ FinishUpload(d)
    \/ FailUpload(d) \/ FailRefresh(d) \/ LeakFile(d) \/ SoftDelete(d)

LEMMA DocumentSteps ==
    [Next]_vars =>
        \/ UNCHANGED documentVars
        \/ \E d \in Docs : UploadStep(d)
        \/ \E w \in Workers : DeleteFile(w) \/ Finish(w)
  BY DEF Next, UserStep, RequestStep, WorkerStep, vars, documentVars, UploadStep, BeginVisit,
     OpenForm, Rename, Login, SaveForm, WriteUser, CheckRequest, CommitRequest, Enqueue,
     LoseMessage, StartTask, SkipDecided, MarkRunning, ListDocuments, DeleteRow, Return,
     FailDeleteFile, FailRun, BreakOff, Crash

LEMMA JobSteps ==
    [Next]_vars =>
        \/ UNCHANGED <<job, owed>>
        \/ \E j \in Jobs : CommitRequest(j)
        \/ owed' = owed /\ \E w \in Workers : MarkRunning(w) \/ Finish(w) \/ FailRun(w)
  BY DEF Next, UserStep, RequestStep, WorkerStep, vars, requestVars, BeginUpload, StoreFile,
     CommitUpload, FinishUpload, FailUpload, FailRefresh, LeakFile, SoftDelete, BeginVisit,
     OpenForm, Rename, Login, SaveForm, WriteUser, CheckRequest, Enqueue, LoseMessage, StartTask,
     SkipDecided, MarkRunning, ListDocuments, DeleteFile, DeleteRow, Finish, Return,
     FailDeleteFile, FailRun, BreakOff, Crash

LEMMA RequestSteps ==
    [Next]_vars =>
        \/ UNCHANGED <<request, saw>>
        \/ \E j \in Jobs, S \in SUBSET Scopes : CheckRequest(j, S)
        \/ \E j \in Jobs : CommitRequest(j) \/ Enqueue(j) \/ LoseMessage(j)
  BY DEF Next, UserStep, RequestStep, WorkerStep, vars, requestVars, BeginUpload, StoreFile,
     CommitUpload, FinishUpload, FailUpload, FailRefresh, LeakFile, SoftDelete, BeginVisit,
     OpenForm, Rename, Login, SaveForm, WriteUser, StartTask, SkipDecided, MarkRunning,
     ListDocuments, DeleteFile, DeleteRow, Finish, Return, FailDeleteFile, FailRun, BreakOff,
     Crash

\* A message leaves the queue only with the end of its run, and the job of a run that
\* broke off is lost.
Ends(w) == SkipDecided(w) \/ Return(w) \/ BreakOff(w)

LEMMA QueueSteps ==
    [Next]_vars =>
        \/ UNCHANGED <<queue, lost>>
        \/ \E j \in Jobs : Enqueue(j) \/ LoseMessage(j)
        \/ \E w \in Workers : Ends(w)
  BY DEF Next, UserStep, RequestStep, WorkerStep, vars, Ends, BeginUpload, StoreFile,
     CommitUpload, FinishUpload, FailUpload, FailRefresh, LeakFile, SoftDelete, BeginVisit,
     OpenForm, Rename, Login, SaveForm, WriteUser, CheckRequest, CommitRequest, StartTask,
     MarkRunning, ListDocuments, DeleteFile, DeleteRow, Finish, FailDeleteFile, FailRun, Crash

LEMMA RunSteps ==
    [Next]_vars => work' = work \/ \E w \in Workers : WorkerStep(w)
  BY DEF Next, UserStep, RequestStep, vars, BeginUpload, StoreFile, CommitUpload, FinishUpload,
     FailUpload, FailRefresh, LeakFile, SoftDelete, BeginVisit, OpenForm, Rename, Login,
     SaveForm, WriteUser, CheckRequest, CommitRequest, Enqueue, LoseMessage

LEMMA AccountSteps ==
    [Next]_vars =>
        \/ UNCHANGED accountVars
        \/ \E v \in Visits : BeginVisit(v)
        \/ OpenForm \/ Rename \/ Login
        \/ \E b \in BOOLEAN : SaveForm(b)
        \/ \E w \in Workers : Finish(w)
  BY DEF Next, UserStep, RequestStep, WorkerStep, vars, accountVars, BeginUpload, StoreFile,
     CommitUpload, FinishUpload, FailUpload, FailRefresh, LeakFile, SoftDelete, CheckRequest,
     CommitRequest, Enqueue, LoseMessage, StartTask, SkipDecided, MarkRunning, ListDocuments,
     DeleteFile, DeleteRow, Return, FailDeleteFile, FailRun, BreakOff, Crash

-----------------------------------------------------------------------------
(* Documents                                                               *)

\* What is settled stays so, and gets neither a row nor a file again.
LEMMA SettledStays ==
    ASSUME IInv, [Next]_vars
    PROVE  /\ Settled \subseteq Settled'
           /\ Settled \cap Rows' \subseteq Rows
           /\ Settled \cap files' \subseteq files
           /\ UploadsInOrder'
<1>1. TypeOK /\ UploadsInOrder
  BY DEF IInv
<1>2. CASE UNCHANGED documentVars
  BY <1>1, <1>2 DEF documentVars, Settled, Rows, UploadsInOrder
<1>3. ASSUME NEW d \in Docs, UploadStep(d)
      PROVE  /\ Settled \subseteq Settled'
             /\ Settled \cap Rows' \subseteq Rows
             /\ Settled \cap files' \subseteq files
             /\ UploadsInOrder'
  BY <1>1, <1>3 DEF TypeOK, UploadStep, BeginUpload, StoreFile, CommitUpload, FinishUpload,
     FailUpload, FailRefresh, LeakFile, SoftDelete, UploadTo, Put, Inserted, SoftDeleted,
     Settled, Rows, UploadsInOrder
<1>4. ASSUME NEW w \in Workers, DeleteFile(w)
      PROVE  /\ Settled \subseteq Settled'
             /\ Settled \cap Rows' \subseteq Rows
             /\ Settled \cap files' \subseteq files
             /\ UploadsInOrder'
  <2>1. NextDoc(w) \in Settled
    BY <1>1, <1>4, NextDocLeft DEF IInv, RunsFit, RunFits, DeleteFile
  <2> QED
    BY <1>1, <1>4, <2>1 DEF DeleteFile, Settled, Rows, UploadsInOrder
<1>5. ASSUME NEW w \in Workers, Finish(w)
      PROVE  /\ Settled \subseteq Settled'
             /\ Settled \cap Rows' \subseteq Rows
             /\ Settled \cap files' \subseteq files
             /\ UploadsInOrder'
  BY <1>1, <1>5 DEF Finish, Remove, Settled, Rows, UploadsInOrder
<1> QED
  BY <1>2, <1>3, <1>4, <1>5, DocumentSteps

-----------------------------------------------------------------------------
(* Jobs and their requests                                                 *)

\* What the invariant says of a run.
LEMMA RunFacts ==
    ASSUME IInv, NEW w \in Workers
    PROVE  /\ TypeOK /\ RunFits(w)
           /\ work[w].pc # "idle" =>
                 /\ work[w].job \in Jobs /\ work[w].job \in queue
                 /\ request[work[w].job] = "done"
                 /\ job[work[w].job].status # "absent"
           /\ \A x \in Workers :
                 work[w].pc # "idle" /\ work[x].pc # "idle" /\ work[w].job = work[x].job => w = x
<1>1. TypeOK /\ RunFits(w)
  BY DEF IInv, RunsFit
<1>2. work[w].pc # "idle" => work[w].job \in Jobs /\ work[w].job \in queue
  BY <1>1, WorkFields DEF RunFits
<1> QED
  BY <1>1, <1>2 DEF IInv, RequestsInOrder, OneRunEach

\* The row of a job is written by its request, once, and by its run.
LEMMA JobChanges ==
    ASSUME IInv, [Next]_vars, NEW j \in Jobs
    PROVE  \/ job'[j] = job[j] /\ owed'[j] = owed[j]
           \/ /\ CommitRequest(j)
              /\ job[j].status = "absent" /\ job'[j].status = "queued" /\ owed'[j] = Rows
           \/ /\ owed'[j] = owed[j] /\ job'[j].scopes = job[j].scopes
              /\ \E w \in Workers :
                    /\ work[w].pc # "idle" /\ work[w].job = j
                    /\ \/ /\ MarkRunning(w)
                          /\ job[j].status \in {"queued", "running"} /\ job'[j].status = "running"
                       \/ /\ Finish(w)
                          /\ job[j].status = "running" /\ job'[j].status = "succeeded"
                          /\ job'[j].errors = work[w].errors
                       \/ /\ FailRun(w)
                          /\ job[j].status = "running" /\ job'[j].status = "failed"
<1>1. TypeOK
  BY DEF IInv
<1>2. ASSUME NEW k \in Jobs, CommitRequest(k)
      PROVE  \/ job'[j] = job[j] /\ owed'[j] = owed[j]
             \/ /\ CommitRequest(j)
                /\ job[j].status = "absent" /\ job'[j].status = "queued" /\ owed'[j] = Rows
  <2>1. Normalized({request[k]}) \in SUBSET Scopes
    BY <1>2 DEF CommitRequest, Normalized, Scopes
  <2>2. NewJob(Normalized({request[k]})).status = "queued"
    BY <2>1, NewJobType
  <2>3. /\ job' = [job EXCEPT ![k] = NewJob(Normalized({request[k]}))]
        /\ owed' = [owed EXCEPT ![k] = Rows]
        /\ request[k] \in {"account", "documents"}
    BY <1>2 DEF CommitRequest
  <2>4. CASE k = j
    <3>1. job[k].status = "absent"
      BY <2>3 DEF IInv, RequestsInOrder
    <3>2. job'[k].status = "queued" /\ owed'[k] = Rows
      BY <1>1, <2>2, <2>3 DEF TypeOK
    <3> QED
      BY <1>2, <2>4, <3>1, <3>2, Zenon
  <2>5. CASE k # j
    BY <1>1, <2>3, <2>5 DEF TypeOK
  <2> QED
    BY <2>4, <2>5
<1>3. ASSUME NEW w \in Workers, MarkRunning(w)
      PROVE  /\ work[w].pc # "idle"
             /\ work[w].job = j => job[j].status \in {"queued", "running"}
             /\ work[w].job = j => job'[j].status = "running" /\ job'[j].scopes = job[j].scopes
             /\ work[w].job # j => job'[j] = job[j]
  <2>1. work[w].pc # "idle" /\ work[w].job \in Active /\ work[w].job \in Jobs
    BY <1>3 DEF MarkRunning, Active
  <2>2. job[work[w].job].errors \in SUBSET Docs /\ "running" \in JobStatus
    BY <1>1, <2>1 DEF TypeOK, JobRow, JobStatus
  <2> QED
    BY <1>1, <1>3, <2>1, <2>2, MarkedType DEF MarkRunning, Active
<1>4. ASSUME NEW w \in Workers, Finish(w)
      PROVE  /\ work[w].pc # "idle"
             /\ work[w].job = j => job[j].status = "running"
             /\ work[w].job = j => /\ job'[j].status = "succeeded" /\ job'[j].scopes = job[j].scopes
                                   /\ job'[j].errors = work[w].errors
             /\ work[w].job # j => job'[j] = job[j]
  <2>1. work[w].pc = "files" /\ work[w].job \in Jobs /\ work[w].errors \subseteq Docs
    BY <1>1, <1>4, WorkFields DEF Finish
  <2>2. job[work[w].job].status = "running" /\ "succeeded" \in JobStatus
    BY <2>1, RunFacts DEF RunFits, JobStatus
  <2>3. job' = Marked(work[w].job, "succeeded", work[w].errors)
    BY <1>4 DEF Finish
  <2> QED
    BY <1>1, <2>1, <2>2, <2>3, MarkedType
<1>5. ASSUME NEW w \in Workers, FailRun(w)
      PROVE  /\ work[w].pc # "idle"
             /\ work[w].job = j => job[j].status = "running"
             /\ work[w].job = j => job'[j].status = "failed" /\ job'[j].scopes = job[j].scopes
             /\ work[w].job # j => job'[j] = job[j]
  <2>1. work[w].pc \in {"files", "row"} /\ work[w].job \in Jobs /\ work[w].errors \subseteq Docs
    BY <1>1, <1>5, WorkFields DEF FailRun
  <2>2. job[work[w].job].status = "running" /\ "failed" \in JobStatus
    BY <2>1, RunFacts DEF RunFits, JobStatus
  <2>3. job' = Marked(work[w].job, "failed", work[w].errors)
    BY <1>5 DEF FailRun
  <2> QED
    BY <1>1, <2>1, <2>2, <2>3, MarkedType
<1> QED
  BY <1>2, <1>3, <1>4, <1>5, JobSteps

\* A decided job stays as it is.
LEMMA DecidedStays ==
    ASSUME IInv, [Next]_vars, NEW j \in Jobs, job[j].status \in {"succeeded", "failed"}
    PROVE  job'[j] = job[j] /\ owed'[j] = owed[j]
  BY JobChanges

LEMMA RequestsStep == IInv /\ [Next]_vars => RequestsInOrder'
<1> SUFFICES ASSUME IInv, [Next]_vars, NEW j \in Jobs
             PROVE  /\ job'[j].status = "absent"
                           <=> request'[j] \in {"unused", "account", "documents"}
                    /\ owed'[j] \subseteq Settled'
                    /\ j \in queue' => request'[j] = "done"
                    /\ \A k \in saw'[j] : job'[k].status \in {"succeeded", "failed"}
  BY DEF RequestsInOrder
<1>1. /\ TypeOK
      /\ job[j].status = "absent" <=> request[j] \in {"unused", "account", "documents"}
      /\ owed[j] \subseteq Settled
      /\ j \in queue => request[j] = "done"
      /\ \A k \in saw[j] : k \in Jobs /\ job[k].status \in {"succeeded", "failed"}
  BY DEF IInv, RequestsInOrder, TypeOK
<1>2. Rows \subseteq Settled
  BY DEF IInv, UploadsInOrder, Rows
<1>3. owed'[j] \subseteq Settled'
  BY <1>1, <1>2, JobChanges, SettledStays
<1>4. ASSUME NEW k \in saw'[j]
      PROVE  job'[k].status \in {"succeeded", "failed"}
  <2>1. k \in saw[j] \/ (k \in Created /\ Active = {})
    BY <1>1, RequestSteps DEF CheckRequest, CommitRequest, Enqueue, LoseMessage, NoActiveJob,
       TypeOK, requestVars
  <2>2. k \in Jobs /\ job[k].status \in {"succeeded", "failed"}
    <3>1. CASE k \in Created /\ Active = {}
      <4>1. k \in Jobs /\ job[k].status \in JobStatus /\ job[k].status # "absent"
        BY <1>1, <3>1 DEF Created, TypeOK, JobRow
      <4> QED
        BY <3>1, <4>1 DEF Active, JobStatus
    <3> QED
      BY <1>1, <2>1, <3>1
  <2> QED
    BY <2>2, DecidedStays
<1>5. job'[j].status = "absent" <=> request'[j] \in {"unused", "account", "documents"}
  <2>1. \/ request'[j] = request[j]
        \/ request[j] = "unused" /\ request'[j] \in {"account", "documents"}
        \/ CommitRequest(j) /\ request'[j] = "committed"
        \/ request[j] = "committed" /\ request'[j] = "done"
    BY <1>1, RequestSteps DEF TypeOK, CheckRequest, CommitRequest, Enqueue, LoseMessage, RequestTo
  <2>2. CommitRequest(j) => /\ job'[j].status # "absent"
                            /\ request'[j] = "committed"
    <3>1. CommitRequest(j) => request'[j] = "committed" /\ request[j] # "committed"
      BY <1>1 DEF CommitRequest, RequestTo, TypeOK
    <3>2. CommitRequest(j) => job'[j] = [job EXCEPT ![j] = NewJob(Normalized({request[j]}))][j]
      BY DEF CommitRequest
    <3>3. CommitRequest(j) => Normalized({request[j]}) \in SUBSET Scopes
      BY DEF CommitRequest, Normalized, Scopes
    <3> QED
      BY <1>1, <3>1, <3>2, <3>3, NewJobType DEF TypeOK
  <2>3. ~ CommitRequest(j) => (job'[j].status = "absent" <=> job[j].status = "absent")
    BY JobChanges
  <2> QED
    BY <1>1, <2>1, <2>2, <2>3
<1>6. j \in queue' => request'[j] = "done"
  <2>1. j \in queue' => j \in queue \/ Enqueue(j)
    BY QueueSteps DEF Enqueue, LoseMessage, Ends, SkipDecided, Return, BreakOff, EndTask
  <2>2. request[j] = "done" => request'[j] = "done"
    BY <1>1, RequestSteps DEF CheckRequest, CommitRequest, Enqueue, LoseMessage, RequestTo, TypeOK
  <2>3. Enqueue(j) => request'[j] = "done"
    BY <1>1 DEF Enqueue, RequestTo, TypeOK
  <2> QED
    BY <1>1, <2>1, <2>2, <2>3
<1> QED
  BY <1>3, <1>4, <1>5, <1>6

-----------------------------------------------------------------------------
(* Runs                                                                    *)

LEMMA OneRunStep == IInv /\ [Next]_vars => OneRunEach'
<1> SUFFICES ASSUME IInv, [Next]_vars PROVE OneRunEach'
  OBVIOUS
<1>1. TypeOK /\ OneRunEach
  BY DEF IInv
<1>2. CASE work' = work
  BY <1>1, <1>2 DEF OneRunEach
<1>3. ASSUME NEW w \in Workers, WorkerStep(w) PROVE OneRunEach'
  <2>1. \A x \in Workers \ {w} : work'[x] = work[x]
    BY <1>3, WorkerRuns DEF Becomes
  <2>2. ASSUME NEW j \in Jobs, StartTask(w, j)
        PROVE  work'[w].job = j /\ \A x \in Workers : work[x].job # j
    BY <1>1, <2>2, StartTaskRun DEF StartTask, Becomes
  <2>3. ASSUME ~ \E j \in Jobs : StartTask(w, j)
        PROVE  work'[w].pc = "idle" \/ (work'[w].job = work[w].job /\ work[w].pc # "idle")
    <3>1. CASE SkipDecided(w) \/ Return(w) \/ BreakOff(w) \/ Crash(w)
      BY <1>1, <3>1, EndTaskRun DEF SkipDecided, Return, BreakOff, Crash, Becomes
    <3>2. CASE MarkRunning(w) \/ DeleteFile(w)
      BY <1>1, <3>2, WorkOnRun DEF MarkRunning, DeleteFile, Becomes
    <3>3. CASE ListDocuments(w)
      BY <1>1, <3>3, ListDocumentsRun DEF ListDocuments, Becomes
    <3>4. CASE FailDeleteFile(w)
      BY <1>1, <3>4, FailDeleteFileRun DEF FailDeleteFile, Becomes
    <3>5. CASE DeleteRow(w)
      BY <1>1, <3>5, RowLeft, DeleteRowRun DEF DeleteRow, Becomes
    <3>6. CASE Finish(w) \/ FailRun(w)
      BY <1>1, <3>6, FinishingRun DEF Finish, FailRun, Becomes
    <3> QED
      BY <1>3, <2>3, <3>1, <3>2, <3>3, <3>4, <3>5, <3>6 DEF WorkerStep
  <2> QED
    BY <1>1, <2>1, <2>2, <2>3 DEF OneRunEach
<1> QED
  BY <1>2, <1>3, RunSteps

\* A run that a step does not change still fits: only it writes its job and ends its
\* message, and what it holds is settled.
LEMMA OtherRunFits ==
    ASSUME IInv, [Next]_vars, NEW w \in Workers, work'[w] = work[w],
           \A v \in Workers : WorkerStep(v) => v # w
    PROVE  RunFits(w)'
<1>1. RunFits(w) /\ TypeOK
  BY RunFacts
<1>2. CASE work[w].pc = "idle"
  <2>1. work[w].todo = {} /\ work[w].gone = {}
    BY <1>1, <1>2, WorkFields DEF Idle
  <2> QED
    BY <1>2, <2>1 DEF RunFits
<1>3. CASE work[w].pc # "idle"
  <2> DEFINE j == work[w].job
  <2>1. /\ j \in Jobs /\ j \in queue /\ job[j].status # "absent"
        /\ \A x \in Workers : work[x].pc # "idle" /\ work[x].job = j => x = w
    BY <1>3, RunFacts
  <2>2. job'[j] = job[j] /\ owed'[j] = owed[j]
    <3>1. ASSUME NEW x \in Workers, work[x].pc # "idle", work[x].job = j,
                 MarkRunning(x) \/ Finish(x) \/ FailRun(x)
          PROVE  FALSE
      BY <2>1, <3>1 DEF WorkerStep
    <3> HIDE DEF j
    <3> QED
      BY <2>1, <3>1, JobChanges
  <2>3. j \in queue'
    <3>1. ASSUME NEW x \in Workers, Ends(x)
          PROVE  j \in queue'
      <4>1. x # w /\ work[x].pc # "idle" /\ queue' = queue \ {work[x].job}
        BY <3>1 DEF Ends, WorkerStep, SkipDecided, Return, BreakOff, EndTask
      <4> QED
        BY <2>1, <4>1
    <3> QED
      BY <2>1, <3>1, QueueSteps DEF Enqueue, LoseMessage
  <2>4. /\ work[w].todo \cup work[w].gone \subseteq Settled'
        /\ work[w].gone \cap files' \subseteq work[w].errors
        /\ owed[j] \cap Rows' \subseteq owed[j] \cap Rows
    <3>1. owed[j] \subseteq Settled
      BY <2>1 DEF IInv, RequestsInOrder
    <3> QED
      BY <1>1, <3>1, SettledStays DEF RunFits
  <2>5. work[w].pc = "row" =>
          /\ work[w].todo # {} /\ NextDoc(w)' = NextDoc(w)
          /\ NextDoc(w) \in files' => NextDoc(w) \in work[w].errors
    <3>1. NextDoc(w)' = NextDoc(w)
      BY DEF NextDoc
    <3>2. work[w].pc = "row" => work[w].todo # {} /\ NextDoc(w) \in Settled
      BY <1>1, NextDocLeft DEF RunFits
    <3> QED
      BY <1>1, <3>1, <3>2, SettledStays DEF RunFits
  <2> QED
    BY <1>1, <1>3, <2>2, <2>3, <2>4, <2>5 DEF RunFits
<1> QED
  BY <1>2, <1>3

\* A run that has ended, or is about to return, holds nothing.
LEMMA EndedRunFits ==
    ASSUME IInv, [Next]_vars, NEW w \in Workers,
           SkipDecided(w) \/ Return(w) \/ BreakOff(w) \/ Crash(w)
    PROVE  RunFits(w)'
<1>1. work'[w].pc = "idle" /\ work'[w].todo = {} /\ work'[w].gone = {}
  BY EndTaskRun DEF IInv, SkipDecided, Return, BreakOff, Crash, Becomes
<1> QED
  BY <1>1 DEF RunFits

LEMMA StartedRunFits ==
    ASSUME IInv, [Next]_vars, NEW w \in Workers, NEW j \in Jobs, StartTask(w, j)
    PROVE  RunFits(w)'
<1>1. /\ work'[w].pc = "starting" /\ work'[w].job = j
      /\ work'[w].todo = {} /\ work'[w].gone = {}
  BY StartTaskRun DEF IInv, Becomes
<1>2. j \in queue'
  BY DEF StartTask
<1> QED
  BY <1>1, <1>2 DEF RunFits

LEMMA MarkedRunFits ==
    ASSUME IInv, [Next]_vars, NEW w \in Workers, MarkRunning(w)
    PROVE  RunFits(w)'
<1>1. RunFits(w) /\ TypeOK /\ work[w].pc = "starting"
  BY RunFacts DEF MarkRunning
<1>2. /\ work'[w].pc = "listing" /\ work'[w].job = work[w].job
      /\ work'[w].todo = work[w].todo /\ work'[w].gone = work[w].gone
      /\ work'[w].errors = work[w].errors
  BY <1>1, WorkOnRun DEF MarkRunning, Becomes
<1>3. work[w].job \in queue' /\ work[w].job \in Jobs
  BY <1>1, RunFacts DEF MarkRunning
<1>4. job'[work[w].job].status = "running"
  <2>1. /\ job[work[w].job].errors \in SUBSET Docs /\ "running" \in JobStatus
        /\ job' = Marked(work[w].job, "running", job[work[w].job].errors)
    BY <1>1, <1>3 DEF MarkRunning, TypeOK, JobRow, JobStatus
  <2> QED
    BY <1>1, <1>3, <2>1, MarkedType
<1>5. files' = files /\ Settled' = Settled
  BY DEF MarkRunning, documentVars, Settled
<1> QED
  BY <1>1, <1>2, <1>3, <1>4, <1>5 DEF RunFits

\* Every row there is is listed: so is every row the job owes.
LEMMA ListedRunFits ==
    ASSUME IInv, [Next]_vars, NEW w \in Workers, ListDocuments(w)
    PROVE  RunFits(w)'
<1>1. RunFits(w) /\ TypeOK /\ work[w].pc = "listing"
  BY RunFacts DEF ListDocuments
<1>2. /\ work'[w].pc = "files" /\ work'[w].job = work[w].job
      /\ work'[w].todo = Rows /\ work'[w].gone = work[w].gone
      /\ work'[w].errors = work[w].errors
  BY <1>1, ListDocumentsRun DEF Becomes
<1>3. UNCHANGED <<files, doc, upload, job, queue, owed>>
  BY DEF ListDocuments, documentVars, requestVars
<1>4. Settled' = Settled /\ Rows' = Rows
  BY <1>3 DEF Settled, Rows
<1>5. Rows \subseteq Settled
  BY DEF IInv, UploadsInOrder, Rows
<1> QED
  BY <1>1, <1>2, <1>3, <1>4, <1>5 DEF RunFits

\* The file of the next document is gone, or the failure is recorded.
LEMMA FileRunFits ==
    ASSUME IInv, [Next]_vars, NEW w \in Workers, DeleteFile(w) \/ FailDeleteFile(w)
    PROVE  RunFits(w)'
<1>1. RunFits(w) /\ TypeOK /\ work[w].pc = "files" /\ work[w].todo # {}
  BY RunFacts DEF DeleteFile, FailDeleteFile
<1>2. /\ work'[w].pc = "row" /\ work'[w].job = work[w].job
      /\ work'[w].todo = work[w].todo /\ work'[w].gone = work[w].gone
      /\ work[w].errors \subseteq work'[w].errors
      /\ FailDeleteFile(w) => NextDoc(w) \in work'[w].errors
  BY <1>1, WorkOnRun, FailDeleteFileRun DEF DeleteFile, Becomes
<1>3. NextDoc(w)' = NextDoc(w)
  BY <1>2 DEF NextDoc
<1>4. /\ UNCHANGED <<doc, upload, job, queue, owed>> /\ files' \subseteq files
      /\ DeleteFile(w) => NextDoc(w) \notin files'
  BY DEF DeleteFile, FailDeleteFile, documentVars, requestVars
<1>5. Settled' = Settled /\ Rows' = Rows
  BY <1>4 DEF Settled, Rows
<1> QED
  BY <1>1, <1>2, <1>3, <1>4, <1>5 DEF RunFits

LEMMA RowRunFits ==
    ASSUME IInv, [Next]_vars, NEW w \in Workers, DeleteRow(w)
    PROVE  RunFits(w)'
<1>1. RunFits(w) /\ TypeOK /\ work[w].pc = "row" /\ work[w].todo # {}
  BY RunFacts, RowLeft DEF DeleteRow
<1>2. /\ work'[w].pc = "files" /\ work'[w].job = work[w].job
      /\ work'[w].todo = work[w].todo \ {NextDoc(w)}
      /\ work'[w].gone = work[w].gone \cup {NextDoc(w)}
      /\ work'[w].errors = work[w].errors
  BY <1>1, DeleteRowRun DEF Becomes
<1>3. NextDoc(w) \in work[w].todo
  BY <1>1, NextDocLeft
<1>4. UNCHANGED <<files, doc, upload, job, queue, owed>>
  BY DEF DeleteRow, documentVars, requestVars
<1>5. Settled' = Settled /\ Rows' = Rows
  BY <1>4 DEF Settled, Rows
<1> QED
  BY <1>1, <1>2, <1>3, <1>4, <1>5 DEF RunFits

LEMMA DecidedRunFits ==
    ASSUME IInv, [Next]_vars, NEW w \in Workers, Finish(w) \/ FailRun(w)
    PROVE  RunFits(w)'
<1>1. /\ RunFits(w) /\ TypeOK /\ work[w].pc # "idle" /\ work[w].job \in Jobs
      /\ work[w].job \in queue
  BY RunFacts DEF Finish, FailRun
<1>2. /\ work'[w].pc = "finishing" /\ work'[w].job = work[w].job
      /\ work'[w].todo = {} /\ work'[w].gone = {}
  BY <1>1, FinishingRun DEF Finish, FailRun, Becomes
<1>3. job'[work[w].job].status \in {"succeeded", "failed"}
  <2>1. work[w].errors \in SUBSET Docs /\ {"succeeded", "failed"} \subseteq JobStatus
    BY <1>1, WorkFields DEF JobStatus
  <2>2. \/ job' = Marked(work[w].job, "succeeded", work[w].errors)
        \/ job' = Marked(work[w].job, "failed", work[w].errors)
    BY DEF Finish, FailRun
  <2> QED
    BY <1>1, <2>1, <2>2, MarkedType
<1>4. queue' = queue
  BY DEF Finish, FailRun
<1> QED
  BY <1>1, <1>2, <1>3, <1>4 DEF RunFits

LEMMA RunsStep == IInv /\ [Next]_vars => RunsFit'
<1> SUFFICES ASSUME IInv, [Next]_vars, NEW x \in Workers PROVE RunFits(x)'
  BY DEF RunsFit
<1>1. CASE \A v \in Workers : ~ WorkerStep(v)
  BY <1>1, RunSteps, OtherRunFits
<1>2. ASSUME NEW w \in Workers, WorkerStep(w) PROVE RunFits(x)'
  <2>1. CASE WorkerStep(x)
    BY <2>1, EndedRunFits, StartedRunFits, MarkedRunFits, ListedRunFits, FileRunFits, RowRunFits,
       DecidedRunFits DEF WorkerStep
  <2>2. CASE ~ WorkerStep(x)
    <3>1. work'[x] = work[x]
      BY <1>2, <2>2, WorkerRuns DEF Becomes
    <3> QED
      BY <2>2, <3>1, OtherRunFits
  <2> QED
    BY <2>1, <2>2
<1> QED
  BY <1>1, <1>2

-----------------------------------------------------------------------------
(* Rows and files                                                          *)

\* What a run that finishes has deleted is all that its job owes.
LEMMA SucceededStep == IInv /\ [Next]_vars => SucceededIsGone'
<1> SUFFICES ASSUME IInv, [Next]_vars, NEW j \in Jobs, job'[j].status = "succeeded"
             PROVE  owed'[j] \cap Rows' = {}
  BY DEF SucceededIsGone, Succeeded
<1>1. owed[j] \subseteq Settled /\ TypeOK
  BY DEF IInv, RequestsInOrder
<1>2. owed[j] \cap Rows' \subseteq owed[j] \cap Rows
  BY <1>1, SettledStays
<1>3. CASE job[j].status = "succeeded"
  <2>1. owed'[j] = owed[j] /\ owed[j] \cap Rows = {}
    BY <1>3, DecidedStays DEF IInv, SucceededIsGone, Succeeded
  <2> QED
    BY <1>2, <2>1
<1>4. ASSUME NEW w \in Workers, work[w].job = j, Finish(w), owed'[j] = owed[j]
      PROVE  owed'[j] \cap Rows' = {}
  <2>1. owed[j] \cap Rows \subseteq work[w].gone
    BY <1>4, RunFacts DEF RunFits, Finish
  <2>2. Rows' \cap work[w].gone = {}
    BY <1>4 DEF Finish, Remove, Rows
  <2> QED
    BY <1>2, <1>4, <2>1, <2>2
<1> QED
  BY <1>3, <1>4, JobChanges

LEMMA StrayFilesStep == IInv /\ [Next]_vars => StrayFiles'
<1> SUFFICES ASSUME IInv, [Next]_vars PROVE StrayFiles'
  OBVIOUS
<1> SUFFICES ASSUME NEW d \in Docs, d \in files', d \notin Rows'
             PROVE  \/ upload'[d] \in {"stored", "leaked"}
                    \/ \E j \in Jobs : job'[j].status = "succeeded" /\ d \in job'[j].errors
  <2>1. files' \subseteq Docs
    BY TypeStep DEF TypeOK
  <2> QED
    BY <2>1 DEF StrayFiles, Succeeded
<1>1. TypeOK
  BY DEF IInv
<1>2. CASE d \in files /\ d \notin Rows
  <2>1. CASE upload[d] \in {"stored", "leaked"}
    <3>1. ASSUME NEW e \in Docs \ {d}, UploadStep(e)
          PROVE  upload'[d] \in {"stored", "leaked"}
      BY <1>1, <2>1, <3>1 DEF UploadStep, BeginUpload, StoreFile, CommitUpload,
         FinishUpload, FailUpload, FailRefresh, LeakFile, SoftDelete, UploadTo, TypeOK
    <3>2. CASE UploadStep(d)
      <4>1. ~ CommitUpload(d) /\ ~ FailUpload(d) /\ ~ FinishUpload(d) /\ ~ FailRefresh(d)
        BY <1>1, <2>1 DEF CommitUpload, FailUpload, FinishUpload, FailRefresh, Inserted, Rows,
           TypeOK
      <4> QED
        BY <1>1, <2>1, <3>2, <4>1 DEF UploadStep, BeginUpload, StoreFile, LeakFile, SoftDelete,
           UploadTo, TypeOK
    <3> QED
      BY <2>1, <3>1, <3>2, DocumentSteps DEF documentVars, DeleteFile, Finish
  <2>2. ASSUME NEW j \in Jobs, job[j].status = "succeeded", d \in job[j].errors
        PROVE  job'[j].status = "succeeded" /\ d \in job'[j].errors
    BY <2>2, DecidedStays
  <2> QED
    BY <1>2, <2>1, <2>2 DEF IInv, StrayFiles, Succeeded
<1>3. CASE ~ (d \in files /\ d \notin Rows)
  <2>1. CASE \E e \in Docs : UploadStep(e)
    <3>1. ASSUME NEW e \in Docs, UploadStep(e)
          PROVE  StoreFile(d) \/ LeakFile(d)
      <4>1. d \in Rows => d \in Rows'
        BY <1>1, <3>1 DEF UploadStep, BeginUpload, StoreFile, CommitUpload, FinishUpload,
           FailUpload, FailRefresh, LeakFile, SoftDelete, Inserted, SoftDeleted, Rows, TypeOK
      <4>2. d \notin files
        BY <1>3, <4>1
      <4> QED
        BY <3>1, <4>2, Zenon DEF UploadStep, BeginUpload, StoreFile, CommitUpload, FinishUpload,
           FailUpload, FailRefresh, LeakFile, SoftDelete, Put
    <3> QED
      BY <1>1, <2>1, <3>1 DEF StoreFile, LeakFile, UploadTo, TypeOK
  <2>2. ASSUME NEW w \in Workers, DeleteFile(w) \/ Finish(w)
        PROVE  \E j \in Jobs : job'[j].status = "succeeded" /\ d \in job'[j].errors
    <3>1. Finish(w) /\ d \in work[w].gone /\ d \in files
      BY <1>1, <1>3, <2>2 DEF DeleteFile, Finish, Remove, Rows
    <3>2. d \in work[w].errors /\ work[w].job \in Jobs
      BY <3>1, RunFacts DEF RunFits, Finish
    <3>3. /\ job' = Marked(work[w].job, "succeeded", work[w].errors)
          /\ work[w].errors \in SUBSET Docs /\ "succeeded" \in JobStatus
      BY <1>1, <3>1, WorkFields DEF Finish, JobStatus
    <3> QED
      BY <1>1, <3>2, <3>3, MarkedType
  <2> QED
    BY <1>3, <2>1, <2>2, DocumentSteps DEF documentVars, Rows
<1> QED
  BY <1>2, <1>3

\* The job that answers for a row without a file goes on answering for it, until the
\* commit of its run removes the row.
LEMMA AnswersStays ==
    ASSUME IInv, [Next]_vars, NEW j \in Jobs, NEW d \in Docs, Answers(j, d), d \in Rows,
           d \in Rows'
    PROVE  Answers(j, d)'
<1>1. TypeOK
  BY DEF IInv
<1>2. CASE job[j].status = "failed"
  BY <1>2, DecidedStays DEF Answers
<1>3. CASE job[j].status = "running" /\ job'[j].status = "failed"
  BY <1>3 DEF Answers
<1>4. CASE job[j].status = "running" /\ job'[j].status = "running"
  <2> SUFFICES ASSUME NEW x \in Workers, work'[x].job = j, work'[x].pc \in {"files", "row"}
               PROVE  d \in work'[x].todo \cup work'[x].gone
    BY <1>4 DEF Answers
  <2>1. CASE ~ WorkerStep(x)
    <3>1. work'[x] = work[x]
      BY <2>1, RunSteps, WorkerRuns DEF Becomes
    <3> QED
      BY <1>4, <3>1 DEF Answers
  <2>2. CASE ListDocuments(x)
    BY <1>1, <2>2, ListDocumentsRun DEF Becomes
  <2>3. CASE DeleteFile(x) \/ FailDeleteFile(x)
    <3>1. /\ work'[x].todo = work[x].todo /\ work'[x].gone = work[x].gone
          /\ work'[x].job = work[x].job /\ work[x].pc = "files"
      BY <1>1, <2>3, WorkOnRun, FailDeleteFileRun DEF DeleteFile, FailDeleteFile, Becomes
    <3> QED
      BY <1>4, <3>1 DEF Answers
  <2>4. CASE DeleteRow(x)
    <3>1. /\ work'[x].todo = work[x].todo \ {NextDoc(x)}
          /\ work'[x].gone = work[x].gone \cup {NextDoc(x)}
          /\ work'[x].job = work[x].job /\ work[x].pc = "row"
      BY <1>1, <2>4, RowLeft, DeleteRowRun DEF DeleteRow, Becomes
    <3> QED
      BY <1>4, <3>1 DEF Answers
  <2>5. ~ (SkipDecided(x) \/ Return(x) \/ BreakOff(x) \/ Crash(x))
    BY <1>1, EndTaskRun DEF SkipDecided, Return, BreakOff, Crash, Becomes
  <2>6. ~ (MarkRunning(x) \/ Finish(x) \/ FailRun(x)) /\ \A k \in Jobs : ~ StartTask(x, k)
    BY <1>1, WorkOnRun, FinishingRun, StartTaskRun DEF MarkRunning, Finish, FailRun, Becomes
  <2> QED
    BY <2>1, <2>2, <2>3, <2>4, <2>5, <2>6 DEF WorkerStep
<1>5. ASSUME NEW w \in Workers, Finish(w), work[w].job = j, job[j].status = "running"
      PROVE  FALSE
  <2>1. d \in work[w].gone
    BY <1>5 DEF Finish, Answers
  <2> QED
    BY <1>5, <2>1 DEF Finish, Remove, Rows
<1> QED
  BY <1>2, <1>3, <1>4, <1>5, JobChanges DEF Answers

\* An upload that has been cleaned up is over.
LEMMA UnfiledStays ==
    ASSUME IInv, [Next]_vars, NEW d \in Docs, upload[d] = "unfiled"
    PROVE  upload'[d] = "unfiled"
<1>1. TypeOK
  BY DEF IInv
<1>2. ASSUME NEW e \in Docs, UploadStep(e)
      PROVE  upload'[d] = "unfiled"
  BY <1>1, <1>2 DEF UploadStep, BeginUpload, StoreFile, CommitUpload, FinishUpload, FailUpload,
     FailRefresh, LeakFile, SoftDelete, UploadTo, TypeOK
<1> QED
  BY <1>2, DocumentSteps DEF documentVars, DeleteFile, Finish

LEMMA BareRowsStep == IInv /\ [Next]_vars => BareRows'
<1> SUFFICES ASSUME IInv, [Next]_vars PROVE BareRows'
  OBVIOUS
<1> SUFFICES ASSUME NEW d \in Docs, d \in Rows', d \notin files'
             PROVE  upload'[d] = "unfiled" \/ \E j \in Jobs : Answers(j, d)'
  BY DEF BareRows, Rows
<1>1. TypeOK
  BY DEF IInv
<1>2. CASE d \in Rows /\ d \notin files
  BY <1>2, AnswersStays, UnfiledStays DEF IInv, BareRows
<1>3. ASSUME NEW e \in Docs, UploadStep(e), ~ (d \in Rows /\ d \notin files)
      PROVE  upload'[d] = "unfiled"
  <2>1. d \in Rows
    <3>1. CASE CommitUpload(e)
      BY <1>1, <3>1 DEF CommitUpload, Inserted, Rows, TypeOK, IInv, UploadsInOrder
    <3> QED
      BY <1>1, <1>3, <3>1 DEF UploadStep, BeginUpload, StoreFile, FinishUpload, FailUpload,
         FailRefresh, LeakFile, SoftDelete, SoftDeleted, Rows, TypeOK
  <2>2. d \in files
    BY <1>3, <2>1
  <2>3. (FailUpload(e) \/ FailRefresh(e)) /\ e = d
    BY <1>3, <2>2 DEF UploadStep, BeginUpload, StoreFile, CommitUpload, FinishUpload, FailUpload,
       FailRefresh, LeakFile, SoftDelete, Put
  <2> QED
    BY <1>1, <2>1, <2>3 DEF FailUpload, FailRefresh, UploadTo, TypeOK, IInv, UploadsInOrder,
       Settled, Rows
<1>4. ASSUME NEW w \in Workers, DeleteFile(w) \/ Finish(w), ~ (d \in Rows /\ d \notin files)
      PROVE  \E j \in Jobs : Answers(j, d)'
  <2>1. DeleteFile(w) /\ d = NextDoc(w)
    BY <1>4 DEF DeleteFile, Finish, Remove, Rows
  <2>2. /\ work[w].pc = "files" /\ work[w].job \in Jobs /\ job[work[w].job].status = "running"
        /\ d \in work[w].todo
    BY <1>1, <2>1, RunFacts, NextDocLeft DEF RunFits, DeleteFile
  <2>3. Answers(work[w].job, d)
    BY <2>2, RunFacts DEF Answers
  <2>4. d \in Rows
    BY <1>4, <2>1 DEF DeleteFile, Rows
  <2> QED
    BY <2>2, <2>3, <2>4, AnswersStays
<1> QED
  BY <1>2, <1>3, <1>4, DocumentSteps DEF documentVars, Rows

-----------------------------------------------------------------------------
(* Active jobs                                                             *)

LEMMA DrivenStep == IInv /\ [Next]_vars => ActiveIsDriven'
<1> SUFFICES ASSUME IInv, [Next]_vars PROVE ActiveIsDriven'
  OBVIOUS
<1> SUFFICES ASSUME NEW j \in Jobs, job'[j].status \in {"queued", "running"}
             PROVE  j \in queue' \/ j \in lost' \/ request'[j] = "committed"
  BY DEF ActiveIsDriven, Active
<1>1. TypeOK
  BY DEF IInv
<1>2. CASE CommitRequest(j)
  BY <1>1, <1>2 DEF CommitRequest, RequestTo, TypeOK
<1>3. CASE ~ CommitRequest(j)
  <2>1. job[j].status \in {"queued", "running"}
    BY <1>3, JobChanges
  <2>2. j \in queue \/ j \in lost \/ request[j] = "committed"
    BY <2>1 DEF IInv, ActiveIsDriven, Active
  <2>3. CASE Enqueue(j) \/ LoseMessage(j)
    BY <1>1, <2>3 DEF Enqueue, LoseMessage
  <2>4. request[j] = "committed" /\ ~ (Enqueue(j) \/ LoseMessage(j)) => request'[j] = "committed"
    BY <1>1, RequestSteps DEF CheckRequest, CommitRequest, Enqueue, LoseMessage, RequestTo, TypeOK
  <2>5. lost \subseteq lost'
    BY QueueSteps DEF Enqueue, LoseMessage, Ends, SkipDecided, Return, BreakOff
  <2>6. CASE j \in queue
    <3>1. ASSUME NEW w \in Workers, Ends(w), work[w].job = j
          PROVE  j \in lost'
      <4>1. job[j].status = job[work[w].job].status /\ RunFits(w)
        BY <3>1, RunFacts
      <4>2. ~ SkipDecided(w) /\ ~ Return(w)
        BY <2>1, <4>1, <3>1 DEF SkipDecided, Return, Active, RunFits
      <4> QED
        BY <2>1, <3>1, <4>2 DEF Ends, BreakOff, Active
    <3> QED
      BY <2>6, <3>1, QueueSteps
      DEF Enqueue, LoseMessage, Ends, SkipDecided, Return, BreakOff, EndTask
  <2> QED
    BY <2>2, <2>3, <2>4, <2>5, <2>6
<1> QED
  BY <1>2, <1>3

\* A job that a request saw was decided, so it is not active beside that request's job.
LEMMA NoneOverlooked == IInv => TwoActiveOverlapped
  BY DEF IInv, RequestsInOrder, TwoActiveOverlapped, Active

-----------------------------------------------------------------------------
(* The account                                                             *)

\* Only the commit of a run for the account erases it.
Erases(w) == Finish(w) /\ "account" \in job[work[w].job].scopes

LEMMA ErasedSteps ==
    ASSUME IInv, [Next]_vars, Erased'
    PROVE  Erased \/ \E w \in Workers : Erases(w)
<1>1. PICK j \in Jobs : job'[j].status = "succeeded" /\ "account" \in job'[j].scopes
  BY DEF Erased, Succeeded
<1> QED
  BY <1>1, JobChanges DEF Erased, Succeeded, Erases

Closed(row) == row.active = FALSE /\ row.named = FALSE /\ row.sessions = FALSE

LEMMA AccountStep ==
    ASSUME IInv, [Next]_vars, Erased', late' = FALSE
    PROVE  visit' \in {"none", "over", "erased form"} /\ Closed(user')
<1>1. TypeOK
  BY DEF IInv
<1>2. ASSUME NEW w \in Workers, Erases(w)
      PROVE  visit' \in {"none", "over", "erased form"} /\ Closed(user')
  <2>1. /\ user' = Anonymized(user) /\ visit' = visit
        /\ late' = (late \/ visit \notin {"none", "over"})
    BY <1>2 DEF Erases, Finish
  <2>2. Closed(Anonymized(user))
    BY DEF Closed, Anonymized
  <2>3. visit \in {"none", "over"}
    BY <2>1
  <2> QED
    BY <2>1, <2>2, <2>3
<1>3. CASE Erased /\ ~ \E w \in Workers : Erases(w)
  <2>1. late = FALSE
    BY <1>1, AccountSteps DEF accountVars, BeginVisit, OpenForm, Rename, Login, SaveForm, Finish,
       TypeOK
  <2>2. visit \in {"none", "over", "erased form"} /\ Closed(user)
    BY <1>1, <1>3, <2>1 DEF IInv, NobodyLate, AccountStaysClosed, Closed, TypeOK, UserRow
  <2>3. CASE UNCHANGED accountVars
    BY <2>2, <2>3 DEF accountVars
  <2>4. ASSUME NEW v \in Visits, BeginVisit(v) PROVE FALSE
    BY <2>2, <2>4 DEF BeginVisit, Closed
  <2>5. CASE OpenForm
    BY <2>2, <2>5 DEF OpenForm, Closed
  <2>6. ~ Rename /\ ~ Login
    BY <2>2 DEF Rename, Login
  <2>7. ASSUME NEW b \in BOOLEAN, SaveForm(b)
        PROVE  visit' \in {"none", "over", "erased form"} /\ Closed(user')
    <3>1. visit = "erased form" /\ visit' = "over"
      BY <2>2, <2>7 DEF SaveForm, WriteUser
    <3>2. b = FALSE
      BY <1>3, <2>7 DEF SaveForm
    <3>3. user' = [user EXCEPT !.active = FALSE, !.named = visit = "named form"]
      BY <2>7, <3>2 DEF SaveForm, WriteUser
    <3>4. (visit = "named form") = FALSE
      BY <3>1
    <3>5. user' = [user EXCEPT !.active = FALSE, !.named = FALSE]
      BY <3>3, <3>4
    <3> QED
      BY <1>1, <2>2, <3>1, <3>5 DEF Closed, TypeOK, UserRow
  <2>8. ASSUME NEW w \in Workers, Finish(w)
        PROVE  UNCHANGED <<user, visit>>
    BY <1>3, <2>8 DEF Erases, Finish
  <2> QED
    BY <2>2, <2>3, <2>4, <2>5, <2>6, <2>7, <2>8, AccountSteps
<1> QED
  BY <1>2, <1>3, ErasedSteps

-----------------------------------------------------------------------------
(* The theorems                                                            *)

LEMMA InitHolds == Init => IInv
<1> SUFFICES ASSUME Init PROVE IInv
  OBVIOUS
<1>1. TypeOK
  BY TypeInit
<1>2. \A j \in Jobs :
          job[j].status = "absent" /\ request[j] = "unused" /\ owed[j] = {} /\ saw[j] = {}
  BY DEF Init, AbsentJob
<1>3. \A w \in Workers : work[w].pc = "idle" /\ work[w].todo = {} /\ work[w].gone = {}
  BY DEF Init, Idle
<1>4. (\A d \in Docs : doc[d] = "absent" /\ upload[d] = "unused") /\ files = {} /\ queue = {}
  BY DEF Init
<1>5. Rows = {} /\ Succeeded = {} /\ Active = {}
  BY <1>2, <1>4 DEF Rows, Succeeded, Active
<1>6. UploadsInOrder /\ RequestsInOrder
  BY <1>2, <1>4 DEF UploadsInOrder, RequestsInOrder
<1>7. RunsFit /\ OneRunEach
  BY <1>3 DEF RunsFit, RunFits, OneRunEach
<1>8. StrayFiles /\ BareRows /\ SucceededIsGone /\ ActiveIsDriven
  BY <1>4, <1>5 DEF StrayFiles, BareRows, SucceededIsGone, ActiveIsDriven
<1>9. NobodyLate /\ AccountStaysClosed
  BY <1>5 DEF NobodyLate, AccountStaysClosed, Erased
<1> QED
  BY <1>1, <1>6, <1>7, <1>8, <1>9 DEF IInv

LEMMA StepHolds == IInv /\ [Next]_vars => IInv'
<1> SUFFICES ASSUME IInv, [Next]_vars PROVE IInv'
  OBVIOUS
<1>1. TypeOK' /\ UploadsInOrder' /\ RequestsInOrder' /\ RunsFit' /\ OneRunEach'
  BY TypeStep, SettledStays, RequestsStep, RunsStep, OneRunStep
<1>2. StrayFiles' /\ BareRows' /\ SucceededIsGone' /\ ActiveIsDriven'
  BY StrayFilesStep, BareRowsStep, SucceededStep, DrivenStep
<1>3. NobodyLate' /\ AccountStaysClosed'
  <2>1. late' \in BOOLEAN
    BY <1>1 DEF TypeOK
  <2> QED
    BY <2>1, AccountStep DEF NobodyLate, AccountStaysClosed, Closed
<1> QED
  BY <1>1, <1>2, <1>3 DEF IInv

\* What the argument rests on: the order of uploads and of requests, the runs, and what
\* accounts for the difference between the rows and storage.
THEOREM Invariance == Spec => []IInv
  BY InitHolds, StepHolds, PTL DEF Spec

\* Every variable keeps its type (app/models/erasure.py, document.py, user.py).
THEOREM TypeCorrect == Spec => []TypeOK
<1>1. IInv => TypeOK
  BY DEF IInv
<1> QED
  BY <1>1, Invariance, PTL

\* When a job has succeeded, nothing of what there was when it was requested is left,
\* however often its run crashed, was delivered again or ran beside another
\* (ErasureJobRunner.run).
THEOREM ErasureComplete == Spec => []SucceededIsGone
<1>1. IInv => SucceededIsGone
  BY DEF IInv
<1> QED
  BY <1>1, Invariance, PTL

\* Files and rows differ only where an upload, a counted failure, or a job that is
\* running or failed says why (DocumentService.upload, ErasureJobRunner.run).
THEOREM StorageAccounted == Spec => []FilesAccounted
<1>1. IInv => FilesAccounted
  BY DEF IInv, StrayFiles, BareRows, Answers, FilesAccounted
<1> QED
  BY <1>1, Invariance, PTL

\* The check of has_active_for_user lets two jobs through only when their requests
\* overlapped.
THEOREM SecondJobOverlapped == Spec => []TwoActiveOverlapped
  BY Invariance, NoneOverlooked, PTL

\* A job that is active will be run, or its message or its run has been lost.
THEOREM JobsDriven == Spec => []ActiveIsDriven
<1>1. IInv => ActiveIsDriven
  BY DEF IInv
<1> QED
  BY <1>1, Invariance, PTL

\* An erased account is reopened by nobody but who had read it before, or an
\* administrator who reactivates it (UserRepository.anonymize_and_deactivate).
THEOREM AccountClosed == Spec => []AccountStaysClosed
<1>1. IInv => AccountStaysClosed
  BY DEF IInv
<1> QED
  BY <1>1, Invariance, PTL
=============================================================================
