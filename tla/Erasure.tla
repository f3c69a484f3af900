------------------------------- MODULE Erasure -------------------------------
(***************************************************************************)
(* The documents and the account of one user, and their erasure: uploads,  *)
(* which write a file and then a row, soft deletion, the request of an     *)
(* erasure job, its run in the worker, which deletes files at once and     *)
(* rows at its commit, and the writes to the user row that may overlap it. *)
(*                                                                         *)
(* A request loads the user when it begins (get_current_user) and writes   *)
(* later, in a transaction of its own.  Every action is one statement, one *)
(* storage call, one commit or one Redis command, together with whatever   *)
(* the code does before another process can see anything of it.            *)
(***************************************************************************)
EXTENDS Naturals, FiniteSets

CONSTANTS
    NumDocs,      \* bound: documents the user may upload, in order of created_at
    Jobs,         \* bound: erasure jobs that may be requested
    Workers,      \* worker processes
    MaxFaults     \* bound: crashes, failed transactions, failed storage calls

\* ARQ gives a message up after five runs that ended in a crash.
ASSUME ConstantsAssumption ==
    /\ NumDocs \in Nat
    /\ IsFiniteSet(Jobs)
    /\ IsFiniteSet(Workers)
    /\ MaxFaults \in 0..4

VARIABLES
    doc,        \* doc[d]: the committed documents row of d
    files,      \* the documents whose object is in storage
    upload,     \* upload[d]: how far the request that uploads d is
    user,       \* the user row, and whether a refresh token of it is live
    visit,      \* what has read the user row and is to write it: one visit (bound)
    job,        \* job[j]: the committed erasure_jobs row
    request,    \* request[j]: how far the request that creates j is
    queue,      \* jobs whose message is in Redis, also while a worker runs it
    work,       \* work[w]: what worker w is doing
    owed,       \* owed[j]: the rows there were when j was created
    saw,        \* saw[j]: the jobs there were when the request of j looked
    lost,       \* jobs whose message was never sent, or whose run broke off
    late,       \* had something read the user row before the account was erased
                \* and not written it yet, or has an administrator reactivated it?
    faults      \* faults so far

documentVars == <<doc, files, upload>>
accountVars  == <<user, visit, late>>
requestVars  == <<request, owed, saw>>
vars == <<documentVars, accountVars, job, requestVars, queue, work, lost, faults>>

-----------------------------------------------------------------------------

Docs   == 1..NumDocs
Visits == {"rename", "login"}             \* requests that write the user or a token

Scopes == {"account", "documents"}

\* Of a documents row only its being there and its soft deletion matter.
DocRow == {"absent", "uploaded", "deleted"}

JobStatus == {"absent", "queued", "running", "succeeded", "failed"}

JobRow == [status : JobStatus,
           scopes : SUBSET Scopes,
           errors : SUBSET Docs]     \* stats: the files it could not delete

AbsentJob == [status |-> "absent", scopes |-> {}, errors |-> {}]

UserRow == [active : BOOLEAN, named : BOOLEAN, sessions : BOOLEAN]

Idle == [pc |-> "idle", job |-> "none", todo |-> {}, gone |-> {}, errors |-> {}]

Work == {Idle} \cup
        [pc     : {"starting", "listing", "files", "row", "finishing"},
         job    : Jobs,
         todo   : SUBSET Docs,       \* listed and not yet deleted
         gone   : SUBSET Docs,       \* rows deleted, not committed: locked
         errors : SUBSET Docs]

Rows      == {d \in Docs : doc[d] # "absent"}
Created   == {j \in Jobs : job[j].status # "absent"}
Active    == {j \in Jobs : job[j].status \in {"queued", "running"}}
Succeeded == {j \in Jobs : job[j].status = "succeeded"}
Erased    == \E j \in Succeeded : "account" \in job[j].scopes

Unlocked(d) == \A w \in Workers : d \notin work[w].gone

\* One more fault.
Fault ==
    /\ faults < MaxFaults
    /\ faults' = faults + 1

Init ==
    /\ doc     = [d \in Docs |-> "absent"]
    /\ files   = {}
    /\ upload  = [d \in Docs |-> "unused"]
    /\ user    = [active |-> TRUE, named |-> TRUE, sessions |-> TRUE]
    /\ visit   = "none"
    /\ job     = [j \in Jobs |-> AbsentJob]
    /\ request = [j \in Jobs |-> "unused"]
    /\ queue   = {}
    /\ work    = [w \in Workers |-> Idle]
    /\ owed    = [j \in Jobs |-> {}]
    /\ saw     = [j \in Jobs |-> {}]
    /\ lost    = {}
    /\ late    = FALSE
    /\ faults  = 0

-----------------------------------------------------------------------------
(* Documents                                                               *)

UploadTo(d, label) == upload' = [upload EXCEPT ![d] = label]

\* The user is active and the file is of an accepted type, size and page count.
BeginUpload(d) ==
    /\ user.active
    /\ upload[d] = "unused"
    /\ \A e \in 1..(d - 1) : upload[e] # "unused"
    /\ UploadTo(d, "begun")
    /\ UNCHANGED <<doc, files, accountVars, job, requestVars, queue, work, lost, faults>>

Put(d) == files \cup {d}

\* The file is stored under a key of its own before there is a row.
StoreFile(d) ==
    /\ upload[d] = "begun"
    /\ files' = Put(d)
    /\ UploadTo(d, "stored")
    /\ UNCHANGED <<doc, accountVars, job, requestVars, queue, work, lost, faults>>

Inserted(d) == [doc EXCEPT ![d] = "uploaded"]

\* The row is inserted and committed.
CommitUpload(d) ==
    /\ upload[d] = "stored"
    /\ doc' = Inserted(d)
    /\ UploadTo(d, "committed")
    /\ UNCHANGED <<files, accountVars, job, requestVars, queue, work, lost, faults>>

\* The row is read back; or the process dies here, which leaves row and file as they are.
FinishUpload(d) ==
    /\ upload[d] = "committed"
    /\ UploadTo(d, "done")
    /\ UNCHANGED <<doc, files, accountVars, job, requestVars, queue, work, lost, faults>>

\* The insert or its commit fails, and the file is deleted again.
FailUpload(d) ==
    /\ Fault
    /\ upload[d] = "stored"
    /\ files' = files \ {d}
    /\ UploadTo(d, "done")
    /\ UNCHANGED <<doc, accountVars, job, requestVars, queue, work, lost>>

\* The refresh fails after the commit, as it does when an erasure has deleted the row, or
\* the commit has raised although it was made: the same handler deletes the file.
FailRefresh(d) ==
    /\ IF d \in Rows THEN Fault ELSE UNCHANGED faults
    /\ upload[d] = "committed"
    /\ files' = files \ {d}
    /\ UploadTo(d, "unfiled")
    /\ UNCHANGED <<doc, accountVars, job, requestVars, queue, work, lost>>

\* put fails half-way, the process dies after it, or the cleanup fails too.
LeakFile(d) ==
    /\ Fault
    /\ upload[d] \in {"begun", "stored"}
    /\ files' = files \cup {d}
    /\ UploadTo(d, "leaked")
    /\ UNCHANGED <<doc, accountVars, job, requestVars, queue, work, lost>>

SoftDeleted(d) == [doc EXCEPT ![d] = "deleted"]

\* The row stays, and so does the file; the UPDATE waits for a row that is being deleted.
SoftDelete(d) ==
    /\ user.active
    /\ doc[d] = "uploaded"
    /\ Unlocked(d)
    /\ doc' = SoftDeleted(d)
    /\ UNCHANGED <<files, upload, accountVars, job, requestVars, queue, work, lost, faults>>

-----------------------------------------------------------------------------
(* The account                                                             *)

\* PATCH /users/me or a login finds the user active.
BeginVisit(v) ==
    /\ user.active
    /\ visit = "none"
    /\ visit' = v
    /\ UNCHANGED <<documentVars, user, late, job, requestVars, queue, work, lost, faults>>

\* openEdit of UsersAdminPanel copies the row of the table.
OpenForm ==
    /\ visit = "none"
    /\ visit' = IF user.named THEN "named form" ELSE "erased form"
    /\ UNCHANGED <<documentVars, user, late, job, requestVars, queue, work, lost, faults>>

\* What a write by what was read before makes of the row.
WriteUser(row) ==
    /\ user'  = row
    /\ visit' = "over"
    /\ UNCHANGED <<documentVars, job, requestVars, queue, work, lost, faults>>

\* The row is written by its id, whatever has become of it.
Rename ==
    /\ visit = "rename"
    /\ WriteUser([user EXCEPT !.named = TRUE])
    /\ UNCHANGED late

Login ==
    /\ visit = "login"
    /\ WriteUser([user EXCEPT !.sessions = TRUE])
    /\ UNCHANGED late

\* The form sends name, role and status; an erasure leaves the role alone.
SaveForm(active) ==
    /\ visit \in {"named form", "erased form"}
    /\ WriteUser([user EXCEPT !.active = active, !.named = visit = "named form"])
    /\ late' = (late \/ (Erased /\ active))

-----------------------------------------------------------------------------
(* The request of an erasure                                               *)

RequestTo(j, label) == request' = [request EXCEPT ![j] = label]

\* Mutant of NoActiveJob: a running job is not looked for.
NoQueuedJob == \A j \in Jobs : job[j].status # "queued"

NoActiveJob == Active = {}

\* _normalize_scopes: the account implies the documents.
Normalized(scopes) == scopes \cup {"documents"}

\* An active user asks for the account to be erased, an administrator for either scope.
CheckRequest(j, scopes) ==
    /\ request[j] = "unused"
    /\ NoActiveJob
    /\ RequestTo(j, IF "account" \in scopes THEN "account" ELSE "documents")
    /\ saw' = [saw EXCEPT ![j] = Created]
    /\ UNCHANGED <<documentVars, accountVars, job, owed, queue, work, lost, faults>>

NewJob(scopes) == [status |-> "queued", scopes |-> scopes, errors |-> {}]

\* The job and its audit record.
CommitRequest(j) ==
    /\ request[j] \in {"account", "documents"}
    /\ job'  = [job EXCEPT ![j] = NewJob(Normalized({request[j]}))]
    /\ owed' = [owed EXCEPT ![j] = Rows]
    /\ RequestTo(j, "committed")
    /\ UNCHANGED <<documentVars, accountVars, saw, queue, work, lost, faults>>

Enqueue(j) ==
    /\ request[j] = "committed"
    /\ queue' = queue \cup {j}
    /\ RequestTo(j, "done")
    /\ UNCHANGED <<documentVars, accountVars, job, owed, saw, work, lost, faults>>

\* The process dies, or Redis refuses, between the commit and the message.
LoseMessage(j) ==
    /\ Fault
    /\ request[j] = "committed"
    /\ lost' = lost \cup {j}
    /\ RequestTo(j, "done")
    /\ UNCHANGED <<documentVars, accountVars, job, owed, saw, queue, work>>

-----------------------------------------------------------------------------
(* The worker                                                              *)

WorkOn(w, label) == work' = [work EXCEPT ![w].pc = label]

\* Mutant of EndTask: the run ends without closing its session.
EndTaskInSession(w) ==
    /\ work'  = [work EXCEPT ![w].pc = "idle"]
    /\ queue' = queue \ {work[w].job}

\* The run is over and ARQ removes the message.
EndTask(w) ==
    /\ work'  = [work EXCEPT ![w] = Idle]
    /\ queue' = queue \ {work[w].job}

\* Mutant of StartTask: the message is acknowledged when it is taken.
StartTaskAcknowledging(w, j) ==
    /\ work[w].pc = "idle"
    /\ j \in queue
    /\ \A x \in Workers : work[x].job # j
    /\ queue' = queue \ {j}
    /\ work' = [work EXCEPT ![w].pc = "starting", ![w].job = j]
    /\ UNCHANGED <<documentVars, accountVars, job, requestVars, lost, faults>>

\* ARQ starts the run of a message no other worker is running.
StartTask(w, j) ==
    /\ work[w].pc = "idle"
    /\ j \in queue
    /\ \A x \in Workers : work[x].job # j
    /\ work' = [work EXCEPT ![w].pc = "starting", ![w].job = j]
    /\ UNCHANGED <<documentVars, accountVars, job, requestVars, queue, lost, faults>>

\* The job is decided already: its worker died between the commit and the acknowledgement.
SkipDecided(w) ==
    /\ work[w].pc = "starting"
    /\ work[w].job \notin Active
    /\ EndTask(w)
    /\ UNCHANGED <<documentVars, accountVars, job, requestVars, lost, faults>>

\* mark_running, mark_succeeded, mark_failed.
Marked(j, status, errors) ==
    [job EXCEPT ![j].status = status, ![j].errors = errors]

\* The row is marked, and the commit makes that visible at once.
MarkRunning(w) ==
    LET j == work[w].job
    IN  /\ work[w].pc = "starting"
        /\ j \in Active
        /\ job' = Marked(j, "running", job[j].errors)
        /\ WorkOn(w, "listing")
        /\ UNCHANGED <<documentVars, accountVars, requestVars, queue, lost, faults>>

\* Mutant of ListDocuments: soft-deleted documents are not listed.
ListUploaded(w) ==
    /\ work[w].pc = "listing"
    /\ work' = [work EXCEPT ![w].pc = "files", ![w].todo = {d \in Docs : doc[d] = "uploaded"}]
    /\ UNCHANGED <<documentVars, accountVars, job, requestVars, queue, lost, faults>>

\* list_all_for_owner, soft-deleted documents included.
ListDocuments(w) ==
    /\ work[w].pc = "listing"
    /\ work' = [work EXCEPT ![w].pc = "files", ![w].todo = Rows]
    /\ UNCHANGED <<documentVars, accountVars, job, requestVars, queue, lost, faults>>

\* The next document of the list, in order of created_at.
NextDoc(w) == CHOOSE d \in work[w].todo : \A e \in work[w].todo : d <= e

\* storage.delete, at once and for good; a file that is not there is no error.
DeleteFile(w) ==
    /\ work[w].pc = "files"
    /\ work[w].todo # {}
    /\ files' = files \ {NextDoc(w)}
    /\ WorkOn(w, "row")
    /\ UNCHANGED <<doc, upload, accountVars, job, requestVars, queue, lost, faults>>

\* Mutant of FailDeleteFile: the error is not counted.
FailDeleteFileUncounted(w) ==
    /\ Fault
    /\ work[w].pc = "files"
    /\ work[w].todo # {}
    /\ WorkOn(w, "row")
    /\ UNCHANGED <<documentVars, accountVars, job, requestVars, queue, lost>>

\* storage.delete raises: it is counted, and the row is deleted all the same.
FailDeleteFile(w) ==
    /\ Fault
    /\ work[w].pc = "files"
    /\ work[w].todo # {}
    /\ work' = [work EXCEPT ![w].pc = "row", ![w].errors = @ \cup {NextDoc(w)}]
    /\ UNCHANGED <<documentVars, accountVars, job, requestVars, queue, lost>>

\* hard_delete: waits for a row another worker is deleting; one that is gone is no error.
DeleteRow(w) ==
    /\ work[w].pc = "row"
    /\ Unlocked(NextDoc(w))
    /\ work' = [work EXCEPT ![w].pc   = "files",
                            ![w].gone = @ \cup {NextDoc(w)},
                            ![w].todo = @ \ {NextDoc(w)}]
    /\ UNCHANGED <<documentVars, accountVars, job, requestVars, queue, lost, faults>>

\* What the commit of a finished run makes of the rows.
Remove(rows) == doc' = [d \in Docs |-> IF d \in rows THEN "absent" ELSE doc[d]]

\* Mutant of Anonymized: the status is left alone.
Renamed(row) == [row EXCEPT !.named = FALSE, !.sessions = FALSE]

\* revoke_all_for_user and anonymize_and_deactivate.
Anonymized(row) == [active |-> FALSE, named |-> FALSE, sessions |-> FALSE]

\* The list is done: the account, the audit record, mark_succeeded, and the commit of all.
Finish(w) ==
    LET j == work[w].job
    IN  /\ work[w].pc = "files"
        /\ work[w].todo = {}
        /\ Remove(work[w].gone)
        /\ IF "account" \in job[j].scopes
           THEN /\ user' = Anonymized(user)
                /\ late' = (late \/ visit \notin {"none", "over"})
           ELSE UNCHANGED <<user, late>>
        /\ job'  = Marked(j, "succeeded", work[w].errors)
        /\ work' = [work EXCEPT ![w] = [Idle EXCEPT !.pc = "finishing", !.job = j]]
        /\ UNCHANGED <<files, upload, visit, requestVars, queue, lost, faults>>

\* A statement or the commit fails: rollback, then mark_failed, committed.
FailRun(w) ==
    LET j == work[w].job
    IN  /\ Fault
        /\ work[w].pc \in {"files", "row"}
        /\ job' = Marked(j, "failed", work[w].errors)
        /\ work' = [work EXCEPT ![w] = [Idle EXCEPT !.pc = "finishing", !.job = j]]
        /\ UNCHANGED <<documentVars, accountVars, requestVars, queue, lost>>

\* The run returns.
Return(w) ==
    /\ work[w].pc = "finishing"
    /\ EndTask(w)
    /\ UNCHANGED <<documentVars, accountVars, job, requestVars, lost, faults>>

\* mark_running or mark_failed cannot be committed either: ARQ retries no exception.
BreakOff(w) ==
    /\ Fault
    /\ work[w].pc \in {"starting", "listing", "files", "row"}
    /\ lost' = IF work[w].job \in Active THEN lost \cup {work[w].job} ELSE lost
    /\ EndTask(w)
    /\ UNCHANGED <<documentVars, accountVars, job, requestVars>>

\* The worker dies: what it has not committed is gone, the message is delivered again.
Crash(w) ==
    /\ Fault
    /\ work[w].pc # "idle"
    /\ work' = [work EXCEPT ![w] = Idle]
    /\ UNCHANGED <<documentVars, accountVars, job, requestVars, queue, lost>>

-----------------------------------------------------------------------------

UserStep ==
    \/ \E d \in Docs : BeginUpload(d) \/ StoreFile(d) \/ CommitUpload(d)
                       \/ FinishUpload(d) \/ FailUpload(d) \/ FailRefresh(d)
                       \/ LeakFile(d) \/ SoftDelete(d)
    \/ \E v \in Visits : BeginVisit(v)
    \/ OpenForm \/ Rename \/ Login
    \/ \E active \in BOOLEAN : SaveForm(active)

RequestStep ==
    \/ \E j \in Jobs, scopes \in SUBSET Scopes \ {{}} : CheckRequest(j, scopes)
    \/ \E j \in Jobs : CommitRequest(j) \/ Enqueue(j) \/ LoseMessage(j)

WorkerStep(w) ==
    \/ \E j \in Jobs : StartTask(w, j)
    \/ SkipDecided(w) \/ MarkRunning(w) \/ ListDocuments(w)
    \/ DeleteFile(w) \/ DeleteRow(w) \/ Finish(w) \/ Return(w)
    \/ FailDeleteFile(w) \/ FailRun(w) \/ BreakOff(w) \/ Crash(w)

Next == UserStep \/ RequestStep \/ \E w \in Workers : WorkerStep(w)

Spec == Init /\ [][Next]_vars

-----------------------------------------------------------------------------
(* Properties                                                              *)

\* Every variable keeps its type, in all actions of the module.
TypeOK ==
    /\ doc \in [Docs -> DocRow]
    /\ files \subseteq Docs
    /\ upload \in [Docs -> {"unused", "begun", "stored", "leaked", "committed",
                          "unfiled", "done"}]
    /\ user \in UserRow
    /\ visit \in Visits \cup {"none", "over", "named form", "erased form"}
    /\ job \in [Jobs -> JobRow]
    /\ request \in [Jobs -> {"unused", "account", "documents", "committed", "done"}]
    /\ queue \subseteq Jobs
    /\ work \in [Workers -> Work]
    /\ owed \in [Jobs -> SUBSET Docs]
    /\ saw \in [Jobs -> SUBSET Jobs]
    /\ lost \subseteq Jobs
    /\ late \in BOOLEAN
    /\ faults \in 0..MaxFaults

\* When an erasure job has succeeded, every row there was when it was created
\* is gone for good, soft-deleted ones too (ErasureJobRunner.run).
SucceededIsGone ==
    \A j \in Succeeded : owed[j] \cap Rows = {}

\* Storage and table differ only where the code says so: a file without a row
\* belongs to an upload that is under way or was cut off, or its failed deletion
\* is counted in the stats of a job that succeeded; a row without a file belongs
\* to an erasure that is still running, or failed after deleting the file, or to an
\* upload that was cleaned up after its row had been committed.
FilesAccounted ==
    /\ \A d \in files \ Rows :
           \/ upload[d] \in {"stored", "leaked"}
           \/ \E j \in Succeeded : d \in job[j].errors
    /\ \A d \in Rows \ files :
           \/ upload[d] = "unfiled"
           \/ \E j \in Jobs : job[j].status \in {"running", "failed"}

\* Two jobs of a user are active at once only when both requests looked before
\* either had committed: the check of has_active_for_user has no constraint behind it.
TwoActiveOverlapped ==
    \A j, k \in Active : j # k => j \notin saw[k] /\ k \notin saw[j]

\* An active job has a message, or its request is about to send one; otherwise
\* the send failed or the run broke off, and nothing will ever decide the job.
ActiveIsDriven ==
    Active \subseteq queue \cup lost \cup {j \in Jobs : request[j] = "committed"}

\* An erased account has no name, no session and no access again unless a request
\* or a form that had read the user row before still writes it, or an administrator
\* reactivates the account.
AccountStaysClosed ==
    Erased /\ ~ late => ~ (user.active \/ user.named \/ user.sessions)

\* "Account erase: hard-delete owned documents" (SPIKE_DATA_RETENTION.md): none of an erased
\* account is left.  The code does not keep this: an upload that was authenticated before
\* is committed after the job has listed the documents.
ErasedHasNoDocuments ==
    Erased /\ ~ late => Rows = {}
=============================================================================
