--------------------------- MODULE PipelineProofs ----------------------------
(***************************************************************************)
(* Theorems about Pipeline, for any runs, any workers and any number of    *)
(* crashes.  What holds even of runs that outlast ARQ's in-progress key    *)
(* comes first; the rest is for those that do not.                         *)
(***************************************************************************)
EXTENDS Pipeline, SequenceTheorems, TLAPS

-----------------------------------------------------------------------------
(* The invariant of any runs, overlapping or not                           *)

\* Where a worker has an inner OCR job of its own, and where that job has succeeded.
WithJob    == {"recognizing", "extracting", "recognized", "rejected", "ai_analyze",
               "answered", "analyzed", "persist"}
WithText   == {"recognized", "ai_analyze", "answered", "analyzed", "persist"}

\* Where a worker has marked its run running.
Marked == {"preprocess", "ocr"} \cup WithJob

JobOf(w) == jobs[at[w]][seen[w].ocrJob]

Inside == {"recognizing", "extracting"}

\* What others than the worker inside may make of an OCR job: an erasure takes it, and
\* where runs may be long the reconciler puts it back.
Elsewhere == {"erased"} \cup {x \in {"requeued"} : LongRuns}
Undecided == {"pending"} \cup Elsewhere
Readable  == {"succeeded"} \cup Elsewhere

\* Each worker runs an inner OCR job of its own, even beside another worker in the same
\* pipeline run, and decides it, unless it is erased or put back.
OwnJobs ==
    /\ \A w \in Workers : pc[w] \in WithJob =>
          /\ seen[w].ocrJob \in DOMAIN jobs[at[w]]
          /\ pc[w] \in Inside => JobOf(w).outcome \in Undecided
          /\ pc[w] \in WithText => JobOf(w).outcome \in Readable
    /\ \A v, w \in Workers :
          pc[v] \in WithJob /\ pc[w] \in WithJob /\ at[v] = at[w] /\ seen[v].ocrJob = seen[w].ocrJob
              => v = w

\* An erasure takes the row with the document, and only an erasure takes a job.
PurgedIsGone ==
    /\ \A r \in Runs : docs[r] = "purged" => ~ Exists(r)
    /\ \A r \in Runs : \A k \in DOMAIN jobs[r] : jobs[r][k].outcome = "erased" => docs[r] = "purged"

\* What a worker's own list shows of the stages behind it.
Progress(w) ==
    /\ pc[w] \in Marked => seen[w].status = "running"
    /\ pc[w] \in {"ocr"} \cup WithJob =>
          stages[w].at["preprocess"] = "succeeded" /\ stages[w].ref["preprocess"] # NoRef
    /\ pc[w] \in {"ai_analyze", "answered", "analyzed", "persist"} =>
          stages[w].at["ocr"] = "succeeded" /\ stages[w].ref["ocr"] = seen[w].ocrJob
    /\ pc[w] \in {"analyzed", "persist"} =>
          /\ stages[w].at["ai_analyze"] = "succeeded"
          /\ stages[w].ref["ai_analyze"] \in DOMAIN requests[at[w]]
          /\ requests[at[w]][stages[w].ref["ai_analyze"]] = seen[w].ocrJob
    /\ pc[w] = "persist" => seen[w].aiRequest = stages[w].ref["ai_analyze"]

AllProgress == \A w \in Workers : Progress(w)

Basis == TypeOK /\ OwnJobs /\ PurgedIsGone /\ AllProgress /\ AnalysisOfOwnText

-----------------------------------------------------------------------------
(* The invariant of runs that do not outlast ARQ's in-progress key         *)

Nobody(r) == \A w \in Workers : at[w] # r

\* One worker at a time executes a run.
OneWorker == \A v, w \in Workers : at[v] = at[w] /\ at[v] # NoRun => v = w

\* Nothing is there of a run before it is created, and nobody has it before its message
\* is enqueued, which happens once.
NotBefore ==
    \A r \in Runs :
        /\ row[r].status = "absent" /\ docs[r] # "purged" =>
              Nobody(r) /\ r \notin unsent /\ message[r] = FALSE
        /\ r \in unsent => Nobody(r) /\ message[r] = FALSE

SameLists(s, t) == s.at = t.at /\ s.ref = t.ref /\ s.input = t.input

SameRows(x, y) ==
    /\ x.status = y.status /\ x.ocrJob = y.ocrJob /\ x.aiRequest = y.aiRequest
    /\ x.error = y.error /\ SameLists(x.stages, y.stages)

\* A list in which stage s is marked as failed and those before it are kept.
Failed(list, s) ==
    /\ list.at[s] = "failed"
    /\ \A p \in Prior[s] : list.at[p] = "succeeded" /\ list.ref[p] # NoRef

\* The session holds what the row says, unless the row is erased; the worker's own list
\* is ahead of it only between an AI request and its commit, and when a failure is
\* about to be recorded.
Session(w) ==
    /\ pc[w] \notin {"idle", "done"} /\ Exists(at[w]) => SameRows(row[at[w]], seen[w])
    /\ pc[w] \notin {"idle", "analyzed", "failing", "done"} =>
           SameLists(stages[w], seen[w].stages)
    /\ pc[w] = "loaded" => seen[w].status # "succeeded"
    /\ pc[w] = "failing" =>
           seen[w].status = "running" /\ (blame[w] \in StageNames => Failed(stages[w], blame[w]))

AllSessions == \A w \in Workers : Session(w)

\* Nobody will execute r any more, or somebody is past the point X.
Past(r, X) ==
    \/ \E w \in Workers : at[w] = r /\ pc[w] \in X
    \/ Nobody(r) /\ r \notin unsent /\ message[r] = FALSE /\ (Exists(r) \/ docs[r] = "purged")

Paid == {"answered", "analyzed", "persist", "failing", "done"}

\* A provider's answer, and an inner OCR job, is one of a crashed execution or of the last.
CallsCounted ==
    \A r \in Runs : calls[r] <= crashes \/ (calls[r] = crashes + 1 /\ Past(r, Paid))

JobsCounted ==
    \A r \in Runs :
        Len(jobs[r]) <= crashes \/ (Len(jobs[r]) = crashes + 1 /\ Past(r, WithJob \cup Paid))

\* Without a crash no execution begins after another one.
FirstExecution ==
    crashes = 0 =>
        /\ \A w \in Workers : options[w] = "given"
        /\ \A r \in Runs : (message[r] = TRUE \/ r \in unsent) /\ Nobody(r) /\ Exists(r) =>
              row[r].stages.input = TRUE

SoloInv ==
    /\ Basis
    /\ OneWorker /\ NotBefore /\ AllSessions /\ CallsCounted /\ JobsCounted
    /\ FirstExecution /\ DefaultsOnlyAfterCrash
    /\ SucceededIsWhole /\ PriorStagesKept

-----------------------------------------------------------------------------
(* Types                                                                   *)

Ends == {"pending", "succeeded", "failed"}

Job == [outcome : {"pending", "succeeded", "failed", "requeued", "erased"},
        options : {"given", "default"}]

LEMMA Bound == MaxCrashes \in Nat /\ NoRun \notin Runs
<1>1. MaxCrashes \in 0..4 /\ NoRun \notin Runs
  BY ConstantsAssumption, Zenon DEF ConstantsAssumption, NoRun
<1> QED
  BY <1>1

LEMMA Task ==
    ASSUME TypeOK, NEW w \in Workers
    PROVE  /\ pc[w] \in PC /\ at[w] \in Runs \cup {NoRun}
           /\ seen[w] \in Row /\ stages[w] \in Stages
           /\ options[w] \in {"given", "default"} /\ blame[w] \in Blame
           /\ pc[w] # "idle" => at[w] \in Runs
           /\ pc[w] = "idle" => at[w] = NoRun
BY DEF TypeOK, TasksType, TasksFit, Idle

LEMMA RowFields ==
    ASSUME NEW x \in Row
    PROVE  /\ x.status \in {"absent", "queued", "running", "succeeded", "failed"}
           /\ x.stages \in Stages /\ x.ocrJob \in Nat /\ x.aiRequest \in Nat /\ x.error \in Blame
BY DEF Row

LEMMA ListFields ==
    ASSUME NEW x \in Stages
    PROVE  /\ x.at \in [StageNames -> Ends] /\ x.ref \in [StageNames -> Nat]
           /\ x.input \in BOOLEAN
BY DEF Stages, Ends

LEMMA InitialTypes ==
    /\ InitialStages \in Stages /\ InitialStages.input = TRUE
    /\ AbsentRow \in Row /\ AbsentRow.status = "absent"
    /\ QueuedRow \in Row /\ QueuedRow.status = "queued" /\ QueuedRow.stages.input = TRUE
<1>1. InitialStages \in Stages /\ InitialStages.input = TRUE
  BY DEF InitialStages, Stages, NoRef
<1>2. "none" \in Blame
  BY DEF Blame
<1>3. AbsentRow \in Row /\ AbsentRow.status = "absent" /\ AbsentRow.stages = InitialStages
  BY <1>1, <1>2 DEF AbsentRow, Row, NoRef
<1>4. QueuedRow \in Row /\ QueuedRow.status = "queued" /\ QueuedRow.stages = AbsentRow.stages
  BY <1>3 DEF QueuedRow, Row
<1> QED
  BY <1>1, <1>3, <1>4

\* What _set_stage leaves of a list.
LEMMA SetStageDoes ==
    ASSUME NEW list \in Stages, NEW name \in StageNames, NEW status \in Ends, NEW ref \in Nat
    PROVE  LET new == SetStage(list, name, status, ref) IN
           /\ new \in Stages
           /\ new.at[name] = status /\ \A s \in StageNames \ {name} : new.at[s] = list.at[s]
           /\ new.ref[name] = IF ref = NoRef THEN list.ref[name] ELSE ref
           /\ \A s \in StageNames \ {name} : new.ref[s] = list.ref[s]
<1> DEFINE b == list.input /\ name # "preprocess"
           new == SetStage(list, name, status, ref)
<1>1. b \in BOOLEAN
  BY Zenon
<1>2. new = [at |-> [list.at EXCEPT ![name] = status],
             ref |-> [list.ref EXCEPT ![name] = IF ref = NoRef THEN @ ELSE ref],
             input |-> b]
  BY Zenon DEF SetStage
<1>3. list.at \in [StageNames -> Ends] /\ list.ref \in [StageNames -> Nat]
  BY ListFields
<1> HIDE DEF b, new
<1>4. /\ new.at = [list.at EXCEPT ![name] = status]
      /\ new.ref = [list.ref EXCEPT ![name] = IF ref = NoRef THEN @ ELSE ref]
      /\ new.input = b
  BY <1>2
<1>5. /\ new.at \in [StageNames -> Ends] /\ new.ref \in [StageNames -> Nat]
      /\ new.at[name] = status /\ \A s \in StageNames \ {name} : new.at[s] = list.at[s]
      /\ new.ref[name] = IF ref = NoRef THEN list.ref[name] ELSE ref
      /\ \A s \in StageNames \ {name} : new.ref[s] = list.ref[s]
  BY <1>3, <1>4
<1>6. new \in Stages
  <2> DEFINE a == [list.at EXCEPT ![name] = status]
             f == [list.ref EXCEPT ![name] = IF ref = NoRef THEN @ ELSE ref]
  <2>1. a \in [StageNames -> Ends] /\ f \in [StageNames -> Nat]
    BY <1>4, <1>5
  <2>2. new = [at |-> a, ref |-> f, input |-> b]
    BY <1>2
  <2> HIDE DEF a, f
  <2> QED
    BY <1>1, <2>1, <2>2 DEF Stages, Ends
<1> QED
  BY <1>5, <1>6 DEF new

-----------------------------------------------------------------------------
(* Commits                                                                 *)

\* What an UPDATE makes of a row that is as the session holds it.
LEMMA WrittenDoes ==
    ASSUME NEW current \in Row, NEW loaded \in Row, NEW new \in Row, NEW flagged \in BOOLEAN
    PROVE  /\ Written(current, loaded, new, flagged) \in Row
           /\ SameRows(current, loaded) /\ (flagged = FALSE => SameLists(new.stages, loaded.stages))
                  => SameRows(Written(current, loaded, new, flagged), new)
<1> DEFINE x == Written(current, loaded, new, flagged)
<1>1. /\ x.status = IF new.status # loaded.status THEN new.status ELSE current.status
      /\ x.stages = IF flagged THEN new.stages ELSE current.stages
      /\ x.ocrJob = IF new.ocrJob # loaded.ocrJob THEN new.ocrJob ELSE current.ocrJob
      /\ x.aiRequest = IF new.aiRequest # loaded.aiRequest THEN new.aiRequest
                       ELSE current.aiRequest
      /\ x.error = IF new.error # loaded.error THEN new.error ELSE current.error
  BY DEF Written
<1>2. x \in Row
  BY DEF Written, Row
<1>3. SameRows(current, loaded) /\ (flagged = FALSE => SameLists(new.stages, loaded.stages))
          => SameRows(x, new)
  <2> HIDE DEF x
  <2> QED
    BY <1>1 DEF SameRows, SameLists
<1> QED
  BY <1>2, <1>3

\* Only w moves, and it stays with its run.
Others(w) ==
    \A v \in Workers \ {w} :
          /\ pc'[v] = pc[v] /\ at'[v] = at[v] /\ seen'[v] = seen[v] /\ stages'[v] = stages[v]
          /\ options'[v] = options[v] /\ blame'[v] = blame[v]

\* The transaction of w leaves new in its session.
LEMMA CommitDoes ==
    ASSUME TypeOK, NEW w \in Workers, at[w] \in Runs, NEW new \in Row, NEW flagged \in BOOLEAN,
           Commit(w, new, flagged)
    PROVE  /\ row' \in [Runs -> Row] /\ seen' \in [Workers -> Row]
           /\ seen'[w] = new /\ \A v \in Workers \ {w} : seen'[v] = seen[v]
           /\ \A r \in Runs \ {at[w]} : row'[r] = row[r]
           /\ SameRows(row[at[w]], seen[w])
                  /\ (flagged = FALSE => SameLists(new.stages, seen[w].stages))
                  => SameRows(row'[at[w]], new)
<1>1. PICK r \in Runs : r = at[w]
  OBVIOUS
<1> DEFINE x == Written(row[r], seen[w], new, flagged)
<1>2. row \in [Runs -> Row] /\ seen \in [Workers -> Row]
  BY DEF TypeOK, RowsType, TasksType
<1>3. row' = [row EXCEPT ![r] = x] /\ seen' = [seen EXCEPT ![w] = new]
  BY <1>1 DEF Commit
<1>4. /\ x \in Row
      /\ SameRows(row[r], seen[w]) /\ (flagged = FALSE => SameLists(new.stages, seen[w].stages))
             => SameRows(x, new)
  BY <1>2, WrittenDoes
<1> HIDE DEF x
<1>5. /\ row' \in [Runs -> Row] /\ row'[r] = x /\ \A s \in Runs \ {r} : row'[s] = row[s]
      /\ seen' \in [Workers -> Row] /\ seen'[w] = new
      /\ \A v \in Workers \ {w} : seen'[v] = seen[v]
  BY <1>2, <1>3, <1>4
<1> QED
  BY <1>1, <1>4, <1>5

\* The same for _persist_progress, which writes the worker's list too.
LEMMA PersistDoes ==
    ASSUME TypeOK, NEW w \in Workers, at[w] \in Runs, NEW new \in Row, NEW list \in Stages,
           PersistProgress(w, new, list)
    PROVE  /\ row' \in [Runs -> Row] /\ seen' \in [Workers -> Row]
           /\ stages' \in [Workers -> Stages] /\ stages'[w] = list
           /\ seen'[w].status = new.status /\ seen'[w].ocrJob = new.ocrJob
           /\ seen'[w].aiRequest = new.aiRequest /\ seen'[w].error = new.error
           /\ seen'[w].stages = list
           /\ \A v \in Workers \ {w} : seen'[v] = seen[v] /\ stages'[v] = stages[v]
           /\ \A r \in Runs \ {at[w]} : row'[r] = row[r]
           /\ SameRows(row[at[w]], seen[w]) => SameRows(row'[at[w]], seen'[w])
<1> DEFINE x == [new EXCEPT !.stages = list]
<1>1. /\ x \in Row /\ x.status = new.status /\ x.ocrJob = new.ocrJob
      /\ x.aiRequest = new.aiRequest /\ x.error = new.error /\ x.stages = list
  BY DEF Row
<1>2. Commit(w, x, TRUE) /\ stages' = [stages EXCEPT ![w] = list]
  BY Zenon DEF PersistProgress
<1>3. stages \in [Workers -> Stages] /\ TRUE \in BOOLEAN
  BY DEF TypeOK, TasksType
<1> HIDE DEF x
<1>4. /\ row' \in [Runs -> Row] /\ seen' \in [Workers -> Row]
      /\ seen'[w] = x /\ \A v \in Workers \ {w} : seen'[v] = seen[v]
      /\ \A r \in Runs \ {at[w]} : row'[r] = row[r]
      /\ SameRows(row[at[w]], seen[w]) => SameRows(row'[at[w]], x)
  BY <1>1, <1>2, <1>3, CommitDoes, Zenon
<1>5. /\ stages' \in [Workers -> Stages] /\ stages'[w] = list
      /\ \A v \in Workers \ {w} : stages'[v] = stages[v]
  BY <1>2, <1>3
<1> QED
  BY <1>1, <1>4, <1>5

-----------------------------------------------------------------------------
(* What a step of a run does to its worker                                 *)

\* w goes on to label; nobody else moves.
Moves(w, label) ==
    /\ pc' \in [Workers -> PC] /\ pc'[w] = label
    /\ at' = at /\ options' = options
    /\ seen' \in [Workers -> Row] /\ stages' \in [Workers -> Stages]
    /\ blame' \in [Workers -> Blame]
    /\ Others(w)

\* What w holds stays as it is.
Holds(w) == seen'[w] = seen[w] /\ stages'[w] = stages[w] /\ blame'[w] = blame[w]

LEMMA GotoDoes ==
    ASSUME TypeOK, NEW w \in Workers, NEW label \in PC, Goto(w, label)
    PROVE  /\ pc' \in [Workers -> PC] /\ pc'[w] = label
           /\ \A v \in Workers \ {w} : pc'[v] = pc[v]
BY DEF TypeOK, TasksType, Goto

LEMMA GotoMoves ==
    ASSUME TypeOK, NEW w \in Workers, NEW label \in PC, Goto(w, label),
           at' = at, seen' = seen, stages' = stages, options' = options, blame' = blame
    PROVE  Moves(w, label) /\ Holds(w)
<1>1. /\ seen \in [Workers -> Row] /\ stages \in [Workers -> Stages]
      /\ blame \in [Workers -> Blame]
  BY DEF TypeOK, TasksType
<1>2. Others(w)
  BY GotoDoes DEF Others
<1> QED
  BY <1>1, <1>2, GotoDoes DEF Moves, Holds

\* A commit moves w on too.
LEMMA PersistMoves ==
    ASSUME TypeOK, NEW w \in Workers, at[w] \in Runs, NEW new \in Row, NEW list \in Stages,
           PersistProgress(w, new, list), NEW label \in PC, Goto(w, label),
           at' = at, options' = options, blame' = blame
    PROVE  Moves(w, label) /\ blame'[w] = blame[w]
<1>1. blame \in [Workers -> Blame]
  BY DEF TypeOK, TasksType
<1>2. Others(w)
  BY GotoDoes, PersistDoes DEF Others
<1> QED
  BY <1>1, <1>2, GotoDoes, PersistDoes DEF Moves

\* Which stage is marked as failed.
FailedStage(who) == IF who = "unexpected" THEN "persist" ELSE who

Whom == StageNames \cup {"unexpected"}

\* A failure reloads the row, if it is there.
Raises(w, who) ==
    \/ Moves(w, "done") /\ Holds(w) /\ ~ Exists(at[w])
    \/ /\ Moves(w, "failing") /\ Exists(at[w])
       /\ seen'[w] = row[at[w]] /\ blame'[w] = who
       /\ stages'[w].at[FailedStage(who)] = "failed"
       /\ \A s \in StageNames \ {FailedStage(who)} :
             /\ stages'[w].at[s] = row[at[w]].stages.at[s]
             /\ stages'[w].ref[s] = row[at[w]].stages.ref[s]

LEMMA RaiseDoes ==
    ASSUME TypeOK, NEW w \in Workers, at[w] \in Runs, NEW who \in Whom, NEW ref \in Nat,
           StageRaises(w, who, ref)
    PROVE  Raises(w, who) /\ UNCHANGED <<dataVars, unsent, message, lost, crashes>>
<1>1. PICK r \in Runs : r = at[w]
  OBVIOUS
<1>2. Raise(w, who, ref) /\ at' = at /\ options' = options
      /\ UNCHANGED <<dataVars, unsent, message, lost, crashes>>
  BY DEF StageRaises
<1>3. "done" \in PC /\ "failing" \in PC
  BY DEF PC
<1>4. CASE ~ Exists(at[w])
  <2>1. Goto(w, "done") /\ seen' = seen /\ stages' = stages /\ blame' = blame
    BY <1>2, <1>4 DEF Raise
  <2> QED
    BY <1>2, <1>3, <1>4, <2>1, GotoMoves DEF Raises
<1>5. CASE Exists(at[w])
  <2> DEFINE failed == FailedStage(who)
             list == SetStage(row[r].stages, failed, "failed", ref)
  <2>1. /\ Goto(w, "failing")
        /\ seen' = [seen EXCEPT ![w] = row[r]]
        /\ stages' = [stages EXCEPT ![w] = list]
        /\ blame' = [blame EXCEPT ![w] = who]
    BY <1>1, <1>2, <1>5, Zenon DEF Raise, FailedStage
  <2>2. /\ row[r] \in Row /\ seen \in [Workers -> Row] /\ stages \in [Workers -> Stages]
        /\ blame \in [Workers -> Blame] /\ who \in Blame
    BY DEF TypeOK, RowsType, TasksType, Whom, Blame
  <2>3. row[r].stages \in Stages
    BY <2>2, RowFields
  <2>4. failed \in StageNames /\ "failed" \in Ends
    BY DEF FailedStage, Whom, StageNames, Ends
  <2> HIDE DEF failed
  <2>5. /\ list \in Stages /\ list.at[failed] = "failed"
        /\ \A s \in StageNames \ {failed} : list.at[s] = row[r].stages.at[s]
        /\ \A s \in StageNames \ {failed} : list.ref[s] = row[r].stages.ref[s]
    BY <2>3, <2>4, SetStageDoes
  <2> HIDE DEF list
  <2>6. /\ seen' \in [Workers -> Row] /\ seen'[w] = row[r]
        /\ stages' \in [Workers -> Stages] /\ stages'[w] = list
        /\ blame' \in [Workers -> Blame] /\ blame'[w] = who
        /\ \A v \in Workers \ {w} :
              seen'[v] = seen[v] /\ stages'[v] = stages[v] /\ blame'[v] = blame[v]
    BY <2>1, <2>2, <2>5
  <2>7. Moves(w, "failing")
    <3>1. Others(w)
      BY <1>2, <1>3, <2>1, <2>6, GotoDoes DEF Others
    <3> QED
      BY <1>2, <1>3, <2>1, <2>6, <3>1, GotoDoes DEF Moves
  <2> QED
    BY <1>1, <1>2, <1>5, <2>5, <2>6, <2>7 DEF Raises, failed
<1> QED
  BY <1>4, <1>5

\* The list of stage s, which has succeeded with the given reference.
Ended(w, s, ref) ==
    /\ stages'[w].at[s] = "succeeded" /\ (ref # NoRef => stages'[w].ref[s] = ref)
    /\ \A p \in StageNames \ {s} :
          stages'[w].at[p] = stages[w].at[p] /\ stages'[w].ref[p] = stages[w].ref[p]

\* A commit of w's row, and of nothing else.
Commits(w, label) ==
    /\ Moves(w, label) /\ blame'[w] = blame[w]
    /\ row' \in [Runs -> Row] /\ \A r \in Runs \ {at[w]} : row'[r] = row[r]
    /\ SameRows(row[at[w]], seen[w]) => SameRows(row'[at[w]], seen'[w])
    /\ UNCHANGED <<docs, jobs, requests, calls, unsent, message, lost, crashes>>

LEMMA MarkRunningDoes ==
    ASSUME TypeOK, NEW w \in Workers, MarkRunning(w)
    PROVE  /\ pc[w] = "loaded" /\ at[w] \in Runs /\ Exists(at[w]) /\ Commits(w, "preprocess")
           /\ stages'[w] = stages[w] /\ seen'[w].stages = seen[w].stages
           /\ seen'[w].status = "running" /\ seen'[w].ocrJob = seen[w].ocrJob
           /\ seen'[w].aiRequest = seen[w].aiRequest
<1>1. pc[w] = "loaded" /\ at[w] \in Runs /\ Exists(at[w])
  BY Task DEF MarkRunning
<1> DEFINE x == [seen[w] EXCEPT !.status = "running", !.error = "none"]
<1>2. /\ Commit(w, x, FALSE) /\ Goto(w, "preprocess")
      /\ at' = at /\ stages' = stages /\ options' = options /\ blame' = blame
      /\ UNCHANGED <<docs, jobs, requests, calls, unsent, message, lost, crashes>>
  BY DEF MarkRunning
<1>3. /\ x \in Row /\ x.status = "running" /\ x.ocrJob = seen[w].ocrJob
      /\ x.aiRequest = seen[w].aiRequest /\ x.stages = seen[w].stages
  BY Task DEF Row, Blame
<1>4. FALSE \in BOOLEAN /\ "preprocess" \in PC /\ SameLists(x.stages, seen[w].stages)
  BY <1>3 DEF PC, SameLists
<1> HIDE DEF x
<1>5. /\ row' \in [Runs -> Row] /\ seen' \in [Workers -> Row]
      /\ seen'[w] = x /\ \A v \in Workers \ {w} : seen'[v] = seen[v]
      /\ \A r \in Runs \ {at[w]} : row'[r] = row[r]
      /\ SameRows(row[at[w]], seen[w]) => SameRows(row'[at[w]], x)
  BY <1>1, <1>2, <1>3, <1>4, CommitDoes, Zenon
<1>6. stages \in [Workers -> Stages] /\ blame \in [Workers -> Blame]
  BY DEF TypeOK, TasksType
<1>7. Others(w)
  BY <1>2, <1>4, <1>5, GotoDoes DEF Others
<1>8. Moves(w, "preprocess")
  BY <1>2, <1>4, <1>5, <1>6, <1>7, GotoDoes DEF Moves
<1> QED
  BY <1>1, <1>2, <1>3, <1>5, <1>8 DEF Commits

\* The commits of _persist_progress.
LEMMA ProgressCommits ==
    ASSUME TypeOK, NEW w \in Workers, at[w] \in Runs, NEW new \in Row, NEW list \in Stages,
           PersistProgress(w, new, list), NEW label \in PC, Goto(w, label),
           UNCHANGED <<docs, jobs, requests, calls, unsent, message, lost, at, options, blame,
                       crashes>>
    PROVE  /\ Commits(w, label) /\ stages'[w] = list /\ seen'[w].stages = list
           /\ seen'[w].status = new.status /\ seen'[w].ocrJob = new.ocrJob
           /\ seen'[w].aiRequest = new.aiRequest /\ seen'[w].error = new.error
<1>1. at' = at /\ options' = options /\ blame' = blame
      /\ UNCHANGED <<docs, jobs, requests, calls, unsent, message, lost, crashes>>
  OBVIOUS
<1>2. Moves(w, label) /\ blame'[w] = blame[w]
  BY <1>1, PersistMoves
<1> QED
  BY <1>1, <1>2, PersistDoes DEF Commits

LEMMA PreprocessDoes ==
    ASSUME TypeOK, NEW w \in Workers, Preprocess(w)
    PROVE  /\ pc[w] = "preprocess" /\ at[w] \in Runs /\ docs[at[w]] = "live" /\ Commits(w, "ocr")
           /\ Ended(w, "preprocess", 1) /\ seen'[w].stages = stages'[w]
           /\ seen'[w].status = seen[w].status
<1> DEFINE list == SetStage(stages[w], "preprocess", "succeeded", 1)
<1>1. /\ pc[w] = "preprocess" /\ docs[at[w]] = "live"
      /\ PersistProgress(w, seen[w], list) /\ Goto(w, "ocr")
      /\ UNCHANGED <<docs, jobs, requests, calls, unsent, message, lost, at, options, blame,
                     crashes>>
  BY DEF Preprocess
<1>2. at[w] \in Runs /\ seen[w] \in Row /\ stages[w] \in Stages /\ "ocr" \in PC
  BY <1>1, Task DEF PC
<1>3. "preprocess" \in StageNames /\ "succeeded" \in Ends /\ 1 \in Nat /\ 1 # NoRef
  BY DEF StageNames, Ends, NoRef
<1>4. /\ list \in Stages
      /\ list.at["preprocess"] = "succeeded" /\ list.ref["preprocess"] = 1
      /\ \A p \in StageNames \ {"preprocess"} :
            list.at[p] = stages[w].at[p] /\ list.ref[p] = stages[w].ref[p]
  BY <1>2, <1>3, SetStageDoes
<1> HIDE DEF list
<1>5. /\ Commits(w, "ocr") /\ stages'[w] = list /\ seen'[w].stages = list
      /\ seen'[w].status = seen[w].status
  BY <1>1, <1>2, <1>4, ProgressCommits, Zenon
<1> QED
  BY <1>1, <1>2, <1>4, <1>5 DEF Ended

LEMMA CommitOcrDoes ==
    ASSUME TypeOK, NEW w \in Workers, CommitOcr(w)
    PROVE  /\ pc[w] = "recognized" /\ at[w] \in Runs /\ Exists(at[w]) /\ Commits(w, "ai_analyze")
           /\ Ended(w, "ocr", seen[w].ocrJob) /\ seen'[w].stages = stages'[w]
           /\ seen'[w].status = seen[w].status /\ seen'[w].ocrJob = seen[w].ocrJob
<1> DEFINE list == SetStage(stages[w], "ocr", "succeeded", seen[w].ocrJob)
<1>1. /\ pc[w] = "recognized" /\ Exists(at[w])
      /\ PersistProgress(w, seen[w], list) /\ Goto(w, "ai_analyze")
      /\ UNCHANGED <<docs, jobs, requests, calls, unsent, message, lost, at, options, blame,
                     crashes>>
  BY DEF CommitOcr
<1>2. /\ at[w] \in Runs /\ seen[w] \in Row /\ stages[w] \in Stages /\ "ai_analyze" \in PC
      /\ seen[w].ocrJob \in Nat
  BY <1>1, Task, RowFields DEF PC
<1>3. "ocr" \in StageNames /\ "succeeded" \in Ends
  BY DEF StageNames, Ends
<1>4. /\ list \in Stages
      /\ list.at["ocr"] = "succeeded"
      /\ seen[w].ocrJob # NoRef => list.ref["ocr"] = seen[w].ocrJob
      /\ \A p \in StageNames \ {"ocr"} :
            list.at[p] = stages[w].at[p] /\ list.ref[p] = stages[w].ref[p]
  BY <1>2, <1>3, SetStageDoes
<1> HIDE DEF list
<1>5. /\ Commits(w, "ai_analyze") /\ stages'[w] = list /\ seen'[w].stages = list
      /\ seen'[w].status = seen[w].status /\ seen'[w].ocrJob = seen[w].ocrJob
  BY <1>1, <1>2, <1>4, ProgressCommits, Zenon
<1> QED
  BY <1>1, <1>2, <1>4, <1>5 DEF Ended

LEMMA CommitAiDoes ==
    ASSUME TypeOK, NEW w \in Workers, CommitAi(w)
    PROVE  /\ pc[w] = "analyzed" /\ at[w] \in Runs /\ Exists(at[w]) /\ Commits(w, "persist")
           /\ stages'[w] = stages[w] /\ seen'[w].stages = stages'[w]
           /\ seen'[w].status = seen[w].status /\ seen'[w].ocrJob = seen[w].ocrJob
           /\ seen'[w].aiRequest = stages[w].ref["ai_analyze"]
<1> DEFINE x == [seen[w] EXCEPT !.aiRequest = stages[w].ref["ai_analyze"]]
           list == stages[w]
<1>1. /\ pc[w] = "analyzed" /\ Exists(at[w])
      /\ PersistProgress(w, x, list) /\ Goto(w, "persist")
      /\ UNCHANGED <<docs, jobs, requests, calls, unsent, message, lost, at, options, blame,
                     crashes>>
  BY DEF CommitAi
<1>2. at[w] \in Runs /\ seen[w] \in Row /\ list \in Stages /\ "persist" \in PC
  BY <1>1, Task DEF PC
<1>3. stages[w].ref["ai_analyze"] \in Nat
  BY <1>2, ListFields DEF StageNames
<1>4. /\ x \in Row /\ x.status = seen[w].status /\ x.ocrJob = seen[w].ocrJob
      /\ x.aiRequest = stages[w].ref["ai_analyze"]
  BY <1>2, <1>3 DEF Row
<1> HIDE DEF x, list
<1>5. /\ Commits(w, "persist") /\ stages'[w] = list /\ seen'[w].stages = list
      /\ seen'[w].status = x.status /\ seen'[w].ocrJob = x.ocrJob
      /\ seen'[w].aiRequest = x.aiRequest
  BY <1>1, <1>2, <1>4, ProgressCommits, Zenon
<1> QED
  BY <1>1, <1>2, <1>4, <1>5 DEF list

LEMMA PersistStageDoes ==
    ASSUME TypeOK, NEW w \in Workers, Persist(w)
    PROVE  /\ pc[w] = "persist" /\ at[w] \in Runs /\ Exists(at[w]) /\ Commits(w, "done")
           /\ Ended(w, "persist", 1) /\ seen'[w].stages = stages'[w]
           /\ seen'[w].status = "succeeded" /\ seen'[w].ocrJob = seen[w].ocrJob
           /\ seen'[w].aiRequest = seen[w].aiRequest
<1> DEFINE list == SetStage(stages[w], "persist", "succeeded", 1)
           x == [seen[w] EXCEPT !.status = "succeeded", !.error = "none"]
<1>1. /\ pc[w] = "persist" /\ Exists(at[w])
      /\ PersistProgress(w, x, list) /\ Goto(w, "done")
      /\ UNCHANGED <<docs, jobs, requests, calls, unsent, message, lost, at, options, blame,
                     crashes>>
  BY DEF Persist
<1>2. at[w] \in Runs /\ seen[w] \in Row /\ stages[w] \in Stages /\ "done" \in PC
  BY <1>1, Task DEF PC
<1>3. "persist" \in StageNames /\ "succeeded" \in Ends /\ 1 \in Nat /\ 1 # NoRef
  BY DEF StageNames, Ends, NoRef
<1>4. /\ list \in Stages
      /\ list.at["persist"] = "succeeded" /\ list.ref["persist"] = 1
      /\ \A p \in StageNames \ {"persist"} :
            list.at[p] = stages[w].at[p] /\ list.ref[p] = stages[w].ref[p]
  BY <1>2, <1>3, SetStageDoes
<1>5. /\ x \in Row /\ x.status = "succeeded" /\ x.ocrJob = seen[w].ocrJob
      /\ x.aiRequest = seen[w].aiRequest
  BY <1>2 DEF Row, Blame
<1> HIDE DEF list, x
<1>6. /\ Commits(w, "done") /\ stages'[w] = list /\ seen'[w].stages = list
      /\ seen'[w].status = x.status /\ seen'[w].ocrJob = x.ocrJob
      /\ seen'[w].aiRequest = x.aiRequest
  BY <1>1, <1>2, <1>4, <1>5, ProgressCommits, Zenon
<1> QED
  BY <1>1, <1>2, <1>4, <1>5, <1>6 DEF Ended

LEMMA RecordFailureDoes ==
    ASSUME TypeOK, NEW w \in Workers, RecordFailure(w)
    PROVE  /\ pc[w] = "failing" /\ at[w] \in Runs /\ Exists(at[w]) /\ Commits(w, "done")
           /\ stages'[w] = stages[w] /\ seen'[w].stages = stages'[w]
           /\ seen'[w].status = "failed" /\ seen'[w].error = blame[w]
<1> DEFINE x == [seen[w] EXCEPT !.status = "failed", !.error = blame[w]]
           list == stages[w]
<1>1. /\ pc[w] = "failing" /\ Exists(at[w])
      /\ PersistProgress(w, x, list) /\ Goto(w, "done")
      /\ UNCHANGED <<docs, jobs, requests, calls, unsent, message, lost, at, options, blame,
                     crashes>>
  BY DEF RecordFailure
<1>2. at[w] \in Runs /\ seen[w] \in Row /\ list \in Stages /\ blame[w] \in Blame /\ "done" \in PC
  BY <1>1, Task DEF PC
<1>3. x \in Row /\ x.status = "failed" /\ x.error = blame[w]
  BY <1>2 DEF Row
<1> HIDE DEF x, list
<1>4. /\ Commits(w, "done") /\ stages'[w] = list /\ seen'[w].stages = list
      /\ seen'[w].status = x.status /\ seen'[w].error = x.error
  BY <1>1, <1>2, <1>3, ProgressCommits, Zenon
<1> QED
  BY <1>1, <1>2, <1>3, <1>4 DEF list

-----------------------------------------------------------------------------
(* What a step does to the OCR jobs and the AI requests                    *)

LEMMA JobsOf ==
    ASSUME TypeOK, NEW r \in Runs
    PROVE  /\ jobs[r] \in Seq(Job) /\ Len(jobs[r]) \in Nat /\ DOMAIN jobs[r] = 1..Len(jobs[r])
           /\ \A k \in DOMAIN jobs[r] : jobs[r][k] \in Job
<1>1. jobs[r] \in Seq(Job)
  BY DEF TypeOK, RowsType, Job
<1> QED
  BY <1>1, LenProperties, ElementOfSeq

LEMMA RequestsOf ==
    ASSUME TypeOK, NEW r \in Runs
    PROVE  /\ requests[r] \in Seq(Nat) /\ Len(requests[r]) \in Nat
           /\ DOMAIN requests[r] = 1..Len(requests[r])
           /\ \A q \in DOMAIN requests[r] : requests[r][q] \in Nat
<1>1. requests[r] \in Seq(Nat)
  BY DEF TypeOK, RowsType
<1> QED
  BY <1>1, LenProperties, ElementOfSeq

\* Job k of r, and nothing else, gets an outcome.
DecidesOne(r, k, outcome) ==
    /\ jobs' \in [Runs -> Seq(Job)]
    /\ \A s \in Runs \ {r} : jobs'[s] = jobs[s]
    /\ Len(jobs'[r]) = Len(jobs[r]) /\ DOMAIN jobs'[r] = DOMAIN jobs[r]
    /\ \A j \in DOMAIN jobs[r] \ {k} : jobs'[r][j] = jobs[r][j]
    /\ jobs'[r][k].outcome = outcome /\ jobs'[r][k].options = jobs[r][k].options

LEMMA OneDecided ==
    ASSUME TypeOK, NEW r \in Runs, NEW k \in DOMAIN jobs[r],
           NEW outcome \in {"succeeded", "failed", "requeued"},
           jobs' = [jobs EXCEPT ![r][k].outcome = outcome]
    PROVE  DecidesOne(r, k, outcome)
<1> DEFINE e == [jobs[r][k] EXCEPT !.outcome = outcome]
           s == [jobs[r] EXCEPT ![k] = e]
<1>1. /\ jobs \in [Runs -> Seq(Job)] /\ jobs[r] \in Seq(Job) /\ k \in 1..Len(jobs[r])
      /\ jobs[r][k] \in Job
  BY JobsOf DEF TypeOK, RowsType, Job
<1>2. e \in Job /\ e.outcome = outcome /\ e.options = jobs[r][k].options
  BY <1>1 DEF Job
<1>3. jobs' = [jobs EXCEPT ![r] = s]
  OBVIOUS
<1> HIDE DEF e
<1>4. /\ s \in Seq(Job) /\ Len(s) = Len(jobs[r])
      /\ \A j \in 1..Len(jobs[r]) : s[j] = IF j = k THEN e ELSE jobs[r][j]
  BY <1>1, <1>2, ExceptSeq
<1>5. DOMAIN s = 1..Len(jobs[r])
  BY <1>4, LenProperties
<1> HIDE DEF s
<1>6. jobs' \in [Runs -> Seq(Job)] /\ jobs'[r] = s /\ \A t \in Runs \ {r} : jobs'[t] = jobs[t]
  BY <1>1, <1>3, <1>4
<1> QED
  BY <1>1, <1>2, <1>4, <1>5, <1>6, JobsOf DEF DecidesOne

\* One element more.
LEMMA OneAppended ==
    ASSUME NEW S, NEW seq \in Seq(S), NEW e \in S
    PROVE  /\ Append(seq, e) \in Seq(S) /\ Len(Append(seq, e)) = Len(seq) + 1
           /\ DOMAIN Append(seq, e) = 1..(Len(seq) + 1)
           /\ \A i \in 1..Len(seq) : Append(seq, e)[i] = seq[i]
           /\ Append(seq, e)[Len(seq) + 1] = e
BY AppendProperties, LenProperties

\* The ocr stage creates a job that is pending, with the options of its worker.
LEMMA CreateOcrJobDoes ==
    ASSUME TypeOK, NEW w \in Workers, CreateOcrJob(w)
    PROVE  /\ pc[w] = "ocr" /\ at[w] \in Runs /\ Exists(at[w])
           /\ Moves(w, "recognizing") /\ blame'[w] = blame[w] /\ stages'[w] = stages[w]
           /\ row' \in [Runs -> Row] /\ \A r \in Runs \ {at[w]} : row'[r] = row[r]
           /\ SameRows(row[at[w]], seen[w]) => SameRows(row'[at[w]], seen'[w])
           /\ UNCHANGED <<docs, requests, calls, unsent, message, lost, crashes>>
           /\ seen'[w].status = seen[w].status /\ seen'[w].stages = seen[w].stages
           /\ seen'[w].ocrJob = Len(jobs[at[w]]) + 1
           /\ jobs' \in [Runs -> Seq(Job)] /\ \A r \in Runs \ {at[w]} : jobs'[r] = jobs[r]
           /\ Len(jobs'[at[w]]) = Len(jobs[at[w]]) + 1
           /\ DOMAIN jobs'[at[w]] = 1..(Len(jobs[at[w]]) + 1)
           /\ \A k \in DOMAIN jobs[at[w]] : jobs'[at[w]][k] = jobs[at[w]][k]
           /\ jobs'[at[w]][Len(jobs[at[w]]) + 1].outcome = "pending"
           /\ jobs'[at[w]][Len(jobs[at[w]]) + 1].options = options[w]
<1>1. pc[w] = "ocr" /\ at[w] \in Runs /\ Exists(at[w])
  BY Task DEF CreateOcrJob
<1>2. PICK r \in Runs : r = at[w]
  BY <1>1
<1> DEFINE e == [outcome |-> "pending", options |-> options[w]]
           n == Len(jobs[r]) + 1
           x == [seen[w] EXCEPT !.ocrJob = n]
           s == Append(jobs[r], e)
<1>3. /\ jobs' = [jobs EXCEPT ![r] = s] /\ Commit(w, x, FALSE) /\ Goto(w, "recognizing")
      /\ at' = at /\ stages' = stages /\ options' = options /\ blame' = blame
      /\ UNCHANGED <<docs, requests, calls, unsent, message, lost, crashes>>
  BY <1>2 DEF CreateOcrJob
<1>4. /\ jobs \in [Runs -> Seq(Job)] /\ jobs[r] \in Seq(Job) /\ Len(jobs[r]) \in Nat
      /\ DOMAIN jobs[r] = 1..Len(jobs[r])
  BY JobsOf DEF TypeOK, RowsType, Job
<1>5. e \in Job /\ e.outcome = "pending" /\ e.options = options[w]
  BY Task DEF Job
<1>6. /\ x \in Row /\ x.status = seen[w].status /\ x.stages = seen[w].stages
      /\ x.ocrJob = n
  <2>1. n \in Nat /\ seen[w] \in Row
    BY <1>4, Task
  <2> HIDE DEF n
  <2> QED
    BY <2>1 DEF Row
<1> HIDE DEF e, x
<1>7. /\ s \in Seq(Job) /\ Len(s) = Len(jobs[r]) + 1 /\ DOMAIN s = 1..(Len(jobs[r]) + 1)
      /\ \A i \in 1..Len(jobs[r]) : s[i] = jobs[r][i]
      /\ s[Len(jobs[r]) + 1] = e
  BY <1>4, <1>5, OneAppended
<1> HIDE DEF s
<1>8. jobs' \in [Runs -> Seq(Job)] /\ jobs'[r] = s /\ \A t \in Runs \ {r} : jobs'[t] = jobs[t]
  BY <1>3, <1>4, <1>7
<1>9. FALSE \in BOOLEAN /\ "recognizing" \in PC /\ SameLists(x.stages, seen[w].stages)
  BY <1>6 DEF PC, SameLists
<1>10. /\ row' \in [Runs -> Row] /\ seen' \in [Workers -> Row]
       /\ seen'[w] = x /\ \A v \in Workers \ {w} : seen'[v] = seen[v]
       /\ \A t \in Runs \ {at[w]} : row'[t] = row[t]
       /\ SameRows(row[at[w]], seen[w]) => SameRows(row'[at[w]], x)
  BY <1>1, <1>3, <1>6, <1>9, CommitDoes, Zenon
<1>11. stages \in [Workers -> Stages] /\ blame \in [Workers -> Blame]
  BY DEF TypeOK, TasksType
<1>12. Others(w)
  BY <1>3, <1>9, <1>10, GotoDoes DEF Others
<1>13. Moves(w, "recognizing")
  BY <1>3, <1>9, <1>10, <1>11, <1>12, GotoDoes DEF Moves
<1> QED
  BY <1>1, <1>2, <1>3, <1>4, <1>5, <1>6, <1>7, <1>8, <1>10, <1>13

\* The outcome of an OCR job that its own run decides: nothing changes one put back.
Decided(x, outcome) == IF x.outcome = "requeued" THEN "requeued" ELSE outcome

\* The inner OCR job of w is decided, in w's run.
LEMMA OcrDecidesDoes ==
    ASSUME TypeOK, NEW w \in Workers, OcrSucceeds(w) \/ OcrFails(w),
           seen[w].ocrJob \in DOMAIN jobs[at[w]]
    PROVE  /\ pc[w] \in {"recognizing", "extracting"} /\ at[w] \in Runs /\ Exists(at[w])
           /\ Holds(w)
           /\ UNCHANGED <<row, docs, requests, calls, unsent, message, lost, crashes>>
           /\ \/ /\ Moves(w, "recognized")
                 /\ DecidesOne(at[w], seen[w].ocrJob, Decided(JobOf(w), "succeeded"))
              \/ /\ Moves(w, "rejected")
                 /\ DecidesOne(at[w], seen[w].ocrJob, Decided(JobOf(w), "failed"))
<1>1. ASSUME NEW outcome \in {"succeeded", "failed"}, NEW label \in PC,
             pc[w] \in {"recognizing", "extracting"}, OcrDecides(w, outcome, label)
      PROVE  /\ at[w] \in Runs /\ Exists(at[w]) /\ Moves(w, label) /\ Holds(w)
             /\ UNCHANGED <<row, docs, requests, calls, unsent, message, lost, crashes>>
             /\ DecidesOne(at[w], seen[w].ocrJob, Decided(JobOf(w), outcome))
  <2>1. at[w] \in Runs
    BY <1>1, Task
  <2>2. PICK r \in Runs : r = at[w]
    BY <2>1
  <2>7. PICK k \in DOMAIN jobs[r] : k = seen[w].ocrJob
    BY <2>2
  <2>8. PICK end \in {"succeeded", "failed", "requeued"} :
           end = IF jobs[r][k].outcome = "requeued" THEN "requeued" ELSE outcome
    OBVIOUS
  <2>3. /\ jobs' = [jobs EXCEPT ![r][k].outcome =
                       IF jobs[r][k].outcome = "requeued" THEN jobs[r][k].outcome ELSE outcome]
        /\ Goto(w, label) /\ Exists(at[w])
        /\ UNCHANGED <<row, docs, requests, calls, unsent, message, lost, crashes>>
        /\ at' = at /\ seen' = seen /\ stages' = stages /\ options' = options /\ blame' = blame
    BY <1>1, <2>2, <2>7 DEF OcrDecides
  <2>9. jobs' = [jobs EXCEPT ![r][k].outcome = end]
    BY <2>3, <2>8
  <2>4. DecidesOne(r, k, end)
    BY <2>9, OneDecided
  <2>5. Moves(w, label) /\ Holds(w)
    BY <2>3, GotoMoves
  <2>10. end = Decided(JobOf(w), outcome)
    BY <2>2, <2>7, <2>8, Zenon DEF Decided, JobOf
  <2>6. DecidesOne(at[w], seen[w].ocrJob, Decided(JobOf(w), outcome))
    BY <2>2, <2>7, <2>4, <2>10
  <2> QED
    BY <2>1, <2>3, <2>5, <2>6
<1>2. "recognized" \in PC /\ "rejected" \in PC
  BY DEF PC
<1>3. CASE OcrSucceeds(w)
  <2>1. pc[w] \in {"recognizing", "extracting"} /\ OcrDecides(w, "succeeded", "recognized")
    BY <1>3 DEF OcrSucceeds
  <2> QED
    BY <1>1, <1>2, <2>1
<1>4. CASE OcrFails(w)
  <2>1. pc[w] \in {"recognizing", "extracting"} /\ OcrDecides(w, "failed", "rejected")
    BY <1>4 DEF OcrFails
  <2> QED
    BY <1>1, <1>2, <2>1
<1> QED
  BY <1>3, <1>4

LEMMA ProviderAnswersDoes ==
    ASSUME TypeOK, NEW w \in Workers, ProviderAnswers(w)
    PROVE  /\ pc[w] = "ai_analyze" /\ at[w] \in Runs /\ Moves(w, "answered") /\ Holds(w)
           /\ UNCHANGED <<row, docs, jobs, requests, unsent, message, lost, crashes>>
           /\ calls' \in [Runs -> Nat] /\ calls'[at[w]] = calls[at[w]] + 1
           /\ \A r \in Runs \ {at[w]} : calls'[r] = calls[r]
<1>1. pc[w] = "ai_analyze" /\ at[w] \in Runs
  BY Task DEF ProviderAnswers
<1>2. /\ Goto(w, "answered") /\ calls' = [calls EXCEPT ![at[w]] = @ + 1]
      /\ UNCHANGED <<row, docs, jobs, requests, unsent, message, lost, crashes>>
      /\ at' = at /\ seen' = seen /\ stages' = stages /\ options' = options /\ blame' = blame
  BY DEF ProviderAnswers
<1>3. calls \in [Runs -> Nat] /\ "answered" \in PC
  BY DEF TypeOK, RowsType, PC
<1>4. /\ calls' \in [Runs -> Nat] /\ calls'[at[w]] = calls[at[w]] + 1
      /\ \A r \in Runs \ {at[w]} : calls'[r] = calls[r]
  BY <1>1, <1>2, <1>3
<1> QED
  BY <1>1, <1>2, <1>3, <1>4, GotoMoves

LEMMA RecordRequestDoes ==
    ASSUME TypeOK, NEW w \in Workers, RecordRequest(w)
    PROVE  /\ pc[w] = "answered" /\ at[w] \in Runs /\ Moves(w, "analyzed")
           /\ seen'[w] = seen[w] /\ blame'[w] = blame[w]
           /\ UNCHANGED <<row, docs, jobs, calls, unsent, message, lost, crashes>>
           /\ Ended(w, "ai_analyze", Len(requests[at[w]]) + 1)
           /\ requests' \in [Runs -> Seq(Nat)]
           /\ \A r \in Runs \ {at[w]} : requests'[r] = requests[r]
           /\ DOMAIN requests'[at[w]] = 1..(Len(requests[at[w]]) + 1)
           /\ \A q \in DOMAIN requests[at[w]] : requests'[at[w]][q] = requests[at[w]][q]
           /\ requests'[at[w]][Len(requests[at[w]]) + 1] = seen[w].ocrJob
<1>1. pc[w] = "answered" /\ at[w] \in Runs
  BY Task DEF RecordRequest
<1>2. PICK r \in Runs : r = at[w]
  BY <1>1
<1> DEFINE n == Len(requests[r]) + 1
           s == Append(requests[r], seen[w].ocrJob)
           list == SetStage(stages[w], "ai_analyze", "succeeded", n)
<1>3. /\ requests' = [requests EXCEPT ![r] = s] /\ stages' = [stages EXCEPT ![w] = list]
      /\ Goto(w, "analyzed")
      /\ at' = at /\ seen' = seen /\ options' = options /\ blame' = blame
      /\ UNCHANGED <<row, docs, jobs, calls, unsent, message, lost, crashes>>
  BY <1>2 DEF RecordRequest
<1>4. /\ requests \in [Runs -> Seq(Nat)] /\ requests[r] \in Seq(Nat) /\ Len(requests[r]) \in Nat
      /\ DOMAIN requests[r] = 1..Len(requests[r])
  BY RequestsOf DEF TypeOK, RowsType
<1>5. stages[w] \in Stages /\ seen[w].ocrJob \in Nat
  BY Task, RowFields
<1>6. "ai_analyze" \in StageNames /\ "succeeded" \in Ends /\ n \in Nat /\ n # NoRef
  BY <1>4 DEF StageNames, Ends, NoRef
<1>7. /\ list \in Stages
      /\ list.at["ai_analyze"] = "succeeded" /\ list.ref["ai_analyze"] = n
      /\ \A p \in StageNames \ {"ai_analyze"} :
            list.at[p] = stages[w].at[p] /\ list.ref[p] = stages[w].ref[p]
  <2> HIDE DEF n
  <2> QED
    BY <1>5, <1>6, SetStageDoes
<1>8. /\ s \in Seq(Nat) /\ DOMAIN s = 1..n
      /\ \A i \in 1..Len(requests[r]) : s[i] = requests[r][i]
      /\ s[n] = seen[w].ocrJob
  BY <1>4, <1>5, OneAppended
<1> HIDE DEF list, s
<1>9. /\ requests' \in [Runs -> Seq(Nat)] /\ requests'[r] = s
      /\ \A t \in Runs \ {r} : requests'[t] = requests[t]
  BY <1>3, <1>4, <1>8
<1>10. /\ seen \in [Workers -> Row] /\ blame \in [Workers -> Blame]
       /\ stages' \in [Workers -> Stages] /\ stages'[w] = list
       /\ \A v \in Workers \ {w} : stages'[v] = stages[v]
  BY <1>3, <1>7 DEF TypeOK, TasksType
<1>11. "analyzed" \in PC
  BY DEF PC
<1>12. Others(w)
  BY <1>3, <1>10, <1>11, GotoDoes DEF Others
<1>13. Moves(w, "analyzed")
  BY <1>3, <1>10, <1>11, <1>12, GotoDoes DEF Moves
<1>14. Ended(w, "ai_analyze", n)
  BY <1>7, <1>10 DEF Ended
<1> QED
  BY <1>1, <1>2, <1>3, <1>4, <1>8, <1>9, <1>13, <1>14

\* What a step that only computes leaves alone.
Stored == <<row, docs, jobs, requests, calls, unsent, message, lost, crashes>>

\* The steps that end the run with nothing written.
Leaving(w) == Vanished(w) \/ BreakOff(w)

LEMMA LeavingDoes ==
    ASSUME TypeOK, NEW w \in Workers, Leaving(w)
    PROVE  /\ at[w] \in Runs /\ Moves(w, "done") /\ Holds(w) /\ UNCHANGED Stored
<1>1. at[w] \in Runs /\ "done" \in PC
  BY Task DEF Leaving, Vanished, BreakOff, InTry, PC
<1>2. /\ Goto(w, "done") /\ UNCHANGED Stored
      /\ at' = at /\ seen' = seen /\ stages' = stages /\ options' = options /\ blame' = blame
  BY DEF Leaving, Vanished, BreakOff, dataVars, Stored
<1> QED
  BY <1>1, <1>2, GotoMoves

LEMMA OcrOpensDoes ==
    ASSUME TypeOK, NEW w \in Workers, OcrOpensDocument(w)
    PROVE  /\ pc[w] = "recognizing" /\ at[w] \in Runs /\ Moves(w, "extracting") /\ Holds(w)
           /\ UNCHANGED Stored
<1>1. pc[w] = "recognizing" /\ at[w] \in Runs /\ "extracting" \in PC
  BY Task DEF OcrOpensDocument, PC
<1>2. /\ Goto(w, "extracting") /\ UNCHANGED Stored
      /\ at' = at /\ seen' = seen /\ stages' = stages /\ options' = options /\ blame' = blame
  BY DEF OcrOpensDocument, dataVars, Stored
<1> QED
  BY <1>1, <1>2, GotoMoves

\* The steps that raise an error, and whom it is put down to.
Raising(w) ==
    PreprocessFails(w) \/ OcrRejected(w) \/ AnalysisFails(w) \/ StageBreaks(w)

LEMMA RaisingDoes ==
    ASSUME TypeOK, NEW w \in Workers, Raising(w)
    PROVE  /\ at[w] \in Runs /\ UNCHANGED Stored
           /\ \/ pc[w] = "preprocess" /\ Raises(w, "preprocess")
              \/ pc[w] = "rejected" /\ Raises(w, "ocr")
              \/ pc[w] = "ai_analyze" /\ Raises(w, "ai_analyze")
              \/ pc[w] \in InTry /\ Raises(w, "unexpected")
<1>1. /\ "preprocess" \in Whom /\ "ocr" \in Whom /\ "ai_analyze" \in Whom
      /\ "unexpected" \in Whom /\ NoRef \in Nat
  BY DEF Whom, StageNames, NoRef
<1>2. seen[w].ocrJob \in Nat
  BY Task, RowFields
<1>3. at[w] \in Runs
  BY Task DEF Raising, PreprocessFails, OcrRejected, AnalysisFails, StageBreaks, InTry
<1>4. ASSUME NEW who \in Whom, NEW ref \in Nat, StageRaises(w, who, ref)
      PROVE  Raises(w, who) /\ UNCHANGED Stored
  BY <1>3, <1>4, RaiseDoes DEF StageRaises, dataVars, Stored
<1>5. CASE PreprocessFails(w)
  BY <1>1, <1>3, <1>4, <1>5, Zenon DEF PreprocessFails
<1>6. CASE StageBreaks(w)
  BY <1>1, <1>3, <1>4, <1>6, Zenon DEF StageBreaks
<1>7. CASE OcrRejected(w)
  <2>1. PICK ref \in Nat : ref = seen[w].ocrJob
    BY <1>2
  <2>2. pc[w] = "rejected" /\ StageRaises(w, "ocr", ref)
    BY <1>7, <2>1 DEF OcrRejected, StageRaises, Raise
  <2> QED
    BY <1>1, <1>3, <1>4, <2>2, Zenon
<1>8. CASE AnalysisFails(w)
  BY <1>1, <1>3, <1>4, <1>8, Zenon DEF AnalysisFails
<1> QED
  BY <1>5, <1>6, <1>7, <1>8 DEF Raising

\* A worker takes a message and loads the row.
LEMMA DeliverDoes ==
    ASSUME TypeOK, NEW w \in Workers, NEW r \in Runs, Deliver(w, r)
    PROVE  /\ pc[w] = "idle" /\ message[r] = TRUE /\ Free(r) /\ row[r].status \notin Returned
           /\ UNCHANGED Stored
           /\ TasksType' /\ Others(w)
           /\ pc'[w] = "loaded" /\ at'[w] = r /\ seen'[w] = row[r] /\ stages'[w] = row[r].stages
           /\ options'[w] = OptionsOf(row[r].stages)
<1>1. /\ pc[w] = "idle" /\ message[r] /\ Free(r) /\ row[r].status \notin Returned
      /\ pc' = [pc EXCEPT ![w] = "loaded"] /\ at' = [at EXCEPT ![w] = r]
      /\ seen' = [seen EXCEPT ![w] = row[r]]
      /\ stages' = [stages EXCEPT ![w] = row[r].stages]
      /\ options' = [options EXCEPT ![w] = OptionsOf(row[r].stages)]
      /\ blame' = blame /\ UNCHANGED Stored
  BY DEF Deliver, Idle, dataVars, Stored
<1>2. message[r] = TRUE
  BY <1>1 DEF TypeOK, MessagesType
<1>3. row[r] \in Row
  BY DEF TypeOK, RowsType
<1>4. row[r].stages \in Stages /\ "loaded" \in PC
  BY <1>3, RowFields DEF PC
<1>5. PICK o \in {"given", "default"} : o = OptionsOf(row[r].stages)
  BY DEF OptionsOf
<1>6. /\ pc \in [Workers -> PC] /\ at \in [Workers -> Runs \cup {NoRun}]
      /\ seen \in [Workers -> Row] /\ stages \in [Workers -> Stages]
      /\ options \in [Workers -> {"given", "default"}] /\ blame \in [Workers -> Blame]
      /\ \A v \in Workers : at[v] = NoRun <=> pc[v] = "idle"
  BY DEF TypeOK, TasksType, TasksFit, Idle
<1>7. /\ pc' \in [Workers -> PC] /\ at' \in [Workers -> Runs \cup {NoRun}]
      /\ seen' \in [Workers -> Row] /\ stages' \in [Workers -> Stages]
      /\ options' \in [Workers -> {"given", "default"}] /\ blame' \in [Workers -> Blame]
  BY <1>1, <1>3, <1>4, <1>5, <1>6
<1>8. /\ pc'[w] = "loaded" /\ at'[w] = r /\ seen'[w] = row[r] /\ stages'[w] = row[r].stages
      /\ options'[w] = OptionsOf(row[r].stages)
      /\ Others(w)
  BY <1>1, <1>6 DEF Others
<1>9. TasksFit'
  BY <1>6, <1>7, <1>8, Bound DEF TasksFit, Idle, Others
<1> QED
  BY <1>1, <1>2, <1>7, <1>8, <1>9 DEF TasksType

LEMMA EndTaskDoes ==
    ASSUME TypeOK, NEW w \in Workers, EndTask(w)
    PROVE  /\ TasksType' /\ Others(w)
           /\ pc'[w] = "idle" /\ at'[w] = NoRun /\ seen'[w] = AbsentRow
           /\ stages'[w] = InitialStages /\ options'[w] = "given"
<1>1. /\ pc \in [Workers -> PC] /\ at \in [Workers -> Runs \cup {NoRun}]
      /\ seen \in [Workers -> Row] /\ stages \in [Workers -> Stages]
      /\ options \in [Workers -> {"given", "default"}] /\ blame \in [Workers -> Blame]
      /\ \A v \in Workers : at[v] = NoRun <=> pc[v] = "idle"
  BY DEF TypeOK, TasksType, TasksFit, Idle
<1>2. "idle" \in PC /\ "none" \in Blame
  BY DEF PC, Blame
<1>3. /\ pc' = [pc EXCEPT ![w] = "idle"] /\ at' = [at EXCEPT ![w] = NoRun]
      /\ seen' = [seen EXCEPT ![w] = AbsentRow] /\ stages' = [stages EXCEPT ![w] = InitialStages]
      /\ options' = [options EXCEPT ![w] = "given"] /\ blame' = [blame EXCEPT ![w] = "none"]
  BY DEF EndTask
<1>4. /\ pc' \in [Workers -> PC] /\ at' \in [Workers -> Runs \cup {NoRun}]
      /\ seen' \in [Workers -> Row] /\ stages' \in [Workers -> Stages]
      /\ options' \in [Workers -> {"given", "default"}] /\ blame' \in [Workers -> Blame]
  BY <1>1, <1>2, <1>3, InitialTypes
<1>5. /\ Others(w) /\ pc'[w] = "idle" /\ at'[w] = NoRun /\ seen'[w] = AbsentRow
      /\ stages'[w] = InitialStages /\ options'[w] = "given"
  BY <1>1, <1>3 DEF Others
<1>6. TasksFit'
  BY <1>1, <1>4, <1>5 DEF TasksFit, Idle, Others
<1> QED
  BY <1>4, <1>5, <1>6 DEF TasksType

\* An erasure takes the row of r and marks its OCR jobs.
LEMMA PurgeDoes ==
    ASSUME TypeOK, NEW w \in Workers, NEW r \in Runs, PurgeDocument(w, r)
    PROVE  /\ docs' \in [Runs -> {"live", "deleted", "purged"}] /\ docs'[r] = "purged"
           /\ row' \in [Runs -> Row] /\ row'[r] = AbsentRow
           /\ \A s \in Runs \ {r} : docs'[s] = docs[s] /\ row'[s] = row[s] /\ jobs'[s] = jobs[s]
           /\ jobs' \in [Runs -> Seq(Job)]
           /\ Len(jobs'[r]) = Len(jobs[r]) /\ DOMAIN jobs'[r] = DOMAIN jobs[r]
           /\ \A k \in DOMAIN jobs[r] :
                 jobs'[r][k].outcome = "erased" /\ jobs'[r][k].options = jobs[r][k].options
           /\ UNCHANGED <<requests, calls, unsent, message, lost, taskVars, crashes>>
<1> DEFINE s == [k \in DOMAIN jobs[r] |-> [jobs[r][k] EXCEPT !.outcome = "erased"]]
<1>1. /\ docs' = [docs EXCEPT ![r] = "purged"] /\ row' = [row EXCEPT ![r] = AbsentRow]
      /\ jobs' = [jobs EXCEPT ![r] = s]
      /\ UNCHANGED <<requests, calls, unsent, message, lost, taskVars, crashes>>
  BY DEF PurgeDocument
<1>2. /\ docs \in [Runs -> {"live", "deleted", "purged"}] /\ row \in [Runs -> Row]
      /\ jobs \in [Runs -> Seq(Job)]
  BY DEF TypeOK, RowsType, Job
<1>3. /\ Len(jobs[r]) \in Nat /\ DOMAIN jobs[r] = 1..Len(jobs[r])
      /\ \A k \in DOMAIN jobs[r] : jobs[r][k] \in Job
  BY JobsOf
<1>4. /\ DOMAIN s = 1..Len(jobs[r])
      /\ \A k \in 1..Len(jobs[r]) :
            s[k] \in Job /\ s[k].outcome = "erased" /\ s[k].options = jobs[r][k].options
  BY <1>3 DEF Job
<1>5. s \in [1..Len(jobs[r]) -> Job]
  BY <1>3, <1>4
<1> HIDE DEF s
<1>6. s \in Seq(Job)
  BY <1>3, <1>5, IsASeq
<1>7. Len(s) = Len(jobs[r])
  BY <1>3, <1>4, <1>6, LenProperties
<1>8. jobs' \in [Runs -> Seq(Job)] /\ jobs'[r] = s /\ \A t \in Runs \ {r} : jobs'[t] = jobs[t]
  BY <1>1, <1>2, <1>6
<1>9. /\ docs' \in [Runs -> {"live", "deleted", "purged"}] /\ docs'[r] = "purged"
      /\ row' \in [Runs -> Row] /\ row'[r] = AbsentRow
      /\ \A t \in Runs \ {r} : docs'[t] = docs[t] /\ row'[t] = row[t]
  BY <1>1, <1>2, InitialTypes
<1> QED
  BY <1>1, <1>3, <1>4, <1>7, <1>8, <1>9

-----------------------------------------------------------------------------
(* Every step keeps the types                                              *)

LEMMA MovesTyped ==
    ASSUME TypeOK, NEW w \in Workers, at[w] \in Runs, NEW label \in PC \ {"idle"}, Moves(w, label)
    PROVE  TasksType'
<1>1. /\ at \in [Workers -> Runs \cup {NoRun}] /\ options \in [Workers -> {"given", "default"}]
      /\ \A v \in Workers : at[v] = NoRun <=> pc[v] = "idle"
  BY DEF TypeOK, TasksType, TasksFit, Idle
<1>2. at' = at /\ options' = options /\ pc'[w] = label /\ \A v \in Workers \ {w} : pc'[v] = pc[v]
  BY DEF Moves, Others
<1>3. TasksFit'
  BY <1>1, <1>2, Bound DEF TasksFit, Idle
<1> QED
  BY <1>1, <1>2, <1>3 DEF TasksType, Moves

\* An error breaks the run of its worker off, and nothing else does.
LEMMA BrokenChange ==
    ASSUME Next, broken' # broken
    PROVE  \E w \in Workers : BreakOff(w)
BY Zenon DEF Next, CreateRun, EnqueueRun, LoseEnqueue, SoftDelete, Reconcile, Deliver,
   SkipDelivery, PurgeDocument, Crash, LoseQueue, Run, MarkRunning, Vanished, Preprocess,
   PreprocessFails, CreateOcrJob, OcrOpensDocument, OcrSucceeds, OcrFails, OcrDecides,
   OcrRejected, CommitOcr, AnalysisFails, ProviderAnswers, RecordRequest, CommitAi, Persist,
   StageBreaks, RecordFailure, Finish, StageRaises

LEMMA BrokenTyped ==
    ASSUME TypeOK, Next
    PROVE  broken' \subseteq Runs /\ broken \subseteq broken'
<1>1. broken \subseteq Runs
  BY DEF TypeOK, MessagesType
<1>2. ASSUME NEW w \in Workers, BreakOff(w)
      PROVE  broken' \subseteq Runs /\ broken \subseteq broken'
  <2>1. at[w] \in Runs
    BY <1>2, Task DEF BreakOff, InTry
  <2>2. broken' = broken \cup {at[w]}
    BY <1>2 DEF BreakOff
  <2> QED
    BY <1>1, <2>1, <2>2
<1> QED
  BY <1>1, <1>2, BrokenChange

\* The rest of the types, when only the row is written.
LEMMA CommitsTyped ==
    ASSUME TypeOK, NEW w \in Workers, at[w] \in Runs, NEW label \in PC \ {"idle"},
           Commits(w, label), broken' \subseteq Runs
    PROVE  TypeOK'
<1>1. /\ row' \in [Runs -> Row] /\ Moves(w, label)
      /\ UNCHANGED <<docs, jobs, requests, calls, unsent, message, lost, crashes>>
  BY DEF Commits
<1>2. TasksType'
  BY <1>1, MovesTyped
<1> QED
  BY <1>1, <1>2 DEF TypeOK, RowsType, MessagesType

LEMMA StoredTyped ==
    ASSUME TypeOK, NEW w \in Workers, at[w] \in Runs, NEW label \in PC \ {"idle"},
           Moves(w, label), UNCHANGED Stored, broken' \subseteq Runs
    PROVE  TypeOK'
<1>1. TasksType'
  BY MovesTyped
<1> QED
  BY <1>1 DEF TypeOK, RowsType, MessagesType, Stored

LEMMA RunTyped ==
    ASSUME TypeOK, OwnJobs, NEW w \in Workers, Run(w), broken' \subseteq Runs
    PROVE  TypeOK'
<1>1. /\ "preprocess" \in PC \ {"idle"} /\ "ocr" \in PC \ {"idle"}
      /\ "recognizing" \in PC \ {"idle"} /\ "extracting" \in PC \ {"idle"}
      /\ "recognized" \in PC \ {"idle"} /\ "rejected" \in PC \ {"idle"}
      /\ "ai_analyze" \in PC \ {"idle"} /\ "answered" \in PC \ {"idle"}
      /\ "analyzed" \in PC \ {"idle"} /\ "persist" \in PC \ {"idle"}
      /\ "failing" \in PC \ {"idle"} /\ "done" \in PC \ {"idle"}
  BY DEF PC
<1>2. CASE MarkRunning(w)
  BY <1>1, <1>2, MarkRunningDoes, CommitsTyped, Zenon
<1>3. CASE Leaving(w)
  BY <1>1, <1>3, LeavingDoes, StoredTyped, Zenon
<1>4. CASE Preprocess(w)
  BY <1>1, <1>4, PreprocessDoes, CommitsTyped, Zenon
<1>5. CASE Raising(w)
  <2>1. at[w] \in Runs /\ UNCHANGED Stored /\ \E who \in Whom : Raises(w, who)
    BY <1>5, RaisingDoes DEF Whom, StageNames
  <2>2. Moves(w, "done") \/ Moves(w, "failing")
    BY <2>1 DEF Raises
  <2> QED
    BY <1>1, <2>1, <2>2, StoredTyped, Zenon
<1>6. CASE CreateOcrJob(w)
  <2>1. /\ at[w] \in Runs /\ Moves(w, "recognizing") /\ row' \in [Runs -> Row]
        /\ jobs' \in [Runs -> Seq(Job)]
        /\ UNCHANGED <<docs, requests, calls, unsent, message, lost, crashes>>
    BY <1>6, CreateOcrJobDoes
  <2>2. TasksType'
    BY <1>1, <2>1, MovesTyped
  <2> QED
    BY <2>1, <2>2 DEF TypeOK, RowsType, MessagesType, Job
<1>7. CASE OcrOpensDocument(w)
  BY <1>1, <1>7, OcrOpensDoes, StoredTyped, Zenon
<1>8. CASE OcrSucceeds(w) \/ OcrFails(w)
  <2>1. seen[w].ocrJob \in DOMAIN jobs[at[w]]
    BY <1>8 DEF OwnJobs, WithJob, OcrSucceeds, OcrFails
  <2>2. /\ at[w] \in Runs /\ (Moves(w, "recognized") \/ Moves(w, "rejected"))
        /\ jobs' \in [Runs -> Seq(Job)]
        /\ UNCHANGED <<row, docs, requests, calls, unsent, message, lost, crashes>>
    BY <1>8, <2>1, OcrDecidesDoes DEF DecidesOne
  <2>3. TasksType'
    BY <1>1, <2>2, MovesTyped
  <2> QED
    BY <2>2, <2>3 DEF TypeOK, RowsType, MessagesType, Job
<1>9. CASE CommitOcr(w)
  BY <1>1, <1>9, CommitOcrDoes, CommitsTyped, Zenon
<1>10. CASE ProviderAnswers(w)
  <2>1. /\ at[w] \in Runs /\ Moves(w, "answered") /\ calls' \in [Runs -> Nat]
        /\ UNCHANGED <<row, docs, jobs, requests, unsent, message, lost, crashes>>
    BY <1>10, ProviderAnswersDoes
  <2>2. TasksType'
    BY <1>1, <2>1, MovesTyped
  <2> QED
    BY <2>1, <2>2 DEF TypeOK, RowsType, MessagesType
<1>11. CASE RecordRequest(w)
  <2>1. /\ at[w] \in Runs /\ Moves(w, "analyzed") /\ requests' \in [Runs -> Seq(Nat)]
        /\ UNCHANGED <<row, docs, jobs, calls, unsent, message, lost, crashes>>
    BY <1>11, RecordRequestDoes
  <2>2. TasksType'
    BY <1>1, <2>1, MovesTyped
  <2> QED
    BY <2>1, <2>2 DEF TypeOK, RowsType, MessagesType
<1>12. CASE CommitAi(w)
  BY <1>1, <1>12, CommitAiDoes, CommitsTyped, Zenon
<1>13. CASE Persist(w)
  BY <1>1, <1>13, PersistStageDoes, CommitsTyped, Zenon
<1>14. CASE RecordFailure(w)
  BY <1>1, <1>14, RecordFailureDoes, CommitsTyped, Zenon
<1>15. CASE Finish(w)
  <2>1. /\ at[w] \in Runs /\ EndTask(w) /\ message' = [message EXCEPT ![at[w]] = FALSE]
        /\ UNCHANGED <<dataVars, unsent, lost, crashes>>
    BY <1>15, Task DEF Finish
  <2>2. message' \in [Runs -> BOOLEAN]
    BY <2>1 DEF TypeOK, MessagesType
  <2>3. TasksType'
    BY <2>1, EndTaskDoes
  <2> QED
    BY <2>1, <2>2, <2>3 DEF TypeOK, RowsType, MessagesType, dataVars
<1> QED
  BY <1>2, <1>3, <1>4, <1>5, <1>6, <1>7, <1>8, <1>9, <1>10, <1>11, <1>12, <1>13, <1>14, <1>15
  DEF Run, Raising, Leaving

LEMMA NextTyped ==
    ASSUME TypeOK, OwnJobs, Next
    PROVE  TypeOK'
<1>1. /\ row \in [Runs -> Row] /\ docs \in [Runs -> {"live", "deleted", "purged"}]
      /\ jobs \in [Runs -> Seq(Job)] /\ message \in [Runs -> BOOLEAN]
      /\ unsent \subseteq Runs /\ lost \subseteq Runs /\ broken' \subseteq Runs
      /\ crashes \in 0..MaxCrashes
  BY BrokenTyped DEF TypeOK, RowsType, MessagesType, Job
<1>2. ASSUME UNCHANGED taskVars
      PROVE  TasksType'
  BY <1>2 DEF taskVars, TypeOK, TasksType, TasksFit, Idle
<1>3. ASSUME NEW r \in Runs, CreateRun(r)
      PROVE  TypeOK'
  <2>1. row' \in [Runs -> Row] /\ unsent' \subseteq Runs /\ TasksType'
    BY <1>1, <1>2, <1>3, InitialTypes DEF CreateRun
  <2> QED
    BY <1>1, <1>3, <2>1 DEF CreateRun, TypeOK, RowsType, MessagesType
<1>4. ASSUME NEW r \in Runs, EnqueueRun(r) \/ LoseEnqueue(r)
      PROVE  TypeOK'
  <2>1. message' \in [Runs -> BOOLEAN] /\ unsent' \subseteq Runs /\ lost' \subseteq Runs
    BY <1>1, <1>4 DEF EnqueueRun, LoseEnqueue
  <2>2. UNCHANGED <<dataVars, taskVars, crashes>>
    BY <1>4 DEF EnqueueRun, LoseEnqueue
  <2> QED
    BY <1>1, <1>2, <2>1, <2>2 DEF dataVars, TypeOK, RowsType, MessagesType
<1>5. ASSUME NEW r \in Runs, SoftDelete(r)
      PROVE  TypeOK'
  <2>1. docs' \in [Runs -> {"live", "deleted", "purged"}] /\ TasksType'
    BY <1>1, <1>2, <1>5 DEF SoftDelete
  <2> QED
    BY <1>1, <1>5, <2>1 DEF SoftDelete, TypeOK, RowsType, MessagesType
<1>6. ASSUME NEW r \in Runs, NEW k \in DOMAIN jobs[r], Reconcile(r, k)
      PROVE  TypeOK'
  <2>1. jobs' = [jobs EXCEPT ![r][k].outcome = "requeued"]
    BY <1>6 DEF Reconcile
  <2>2. jobs' \in [Runs -> Seq(Job)]
    BY <2>1, OneDecided DEF DecidesOne
  <2>3. UNCHANGED <<row, docs, requests, calls, unsent, message, lost, taskVars, crashes>>
    BY <1>6, Zenon DEF Reconcile
  <2>4. TasksType'
    BY <1>2, <2>3
  <2> QED
    BY <1>1, <2>2, <2>3, <2>4 DEF TypeOK, RowsType, MessagesType, Job
<1>7. ASSUME NEW w \in Workers, NEW r \in Runs, Deliver(w, r)
      PROVE  TypeOK'
  <2>1. UNCHANGED Stored /\ TasksType'
    BY <1>7, DeliverDoes, Zenon
  <2> QED
    BY <1>1, <2>1 DEF TypeOK, RowsType, MessagesType, Stored
<1>8. ASSUME NEW w \in Workers, NEW r \in Runs, SkipDelivery(w, r)
      PROVE  TypeOK'
  <2>1. message' \in [Runs -> BOOLEAN] /\ TasksType'
    BY <1>1, <1>2, <1>8 DEF SkipDelivery
  <2> QED
    BY <1>1, <1>8, <2>1 DEF SkipDelivery, dataVars, TypeOK, RowsType, MessagesType
<1>9. ASSUME NEW w \in Workers, NEW r \in Runs, PurgeDocument(w, r)
      PROVE  TypeOK'
  <2>1. /\ docs' \in [Runs -> {"live", "deleted", "purged"}] /\ row' \in [Runs -> Row]
        /\ jobs' \in [Runs -> Seq(Job)]
        /\ UNCHANGED <<requests, calls, unsent, message, lost, taskVars, crashes>>
    BY <1>9, PurgeDoes, Zenon
  <2>2. TasksType'
    BY <1>2, <2>1
  <2> QED
    BY <1>1, <2>1, <2>2 DEF TypeOK, RowsType, MessagesType, Job
<1>10. ASSUME NEW w \in Workers, Crash(w)
       PROVE  TypeOK'
  <2>1. /\ EndTask(w) /\ crashes < MaxCrashes /\ crashes' = crashes + 1
        /\ UNCHANGED <<dataVars, unsent, message, lost>>
    BY <1>10 DEF Crash
  <2>2. crashes' \in 0..MaxCrashes
    BY <1>1, <2>1, Bound
  <2>3. TasksType'
    BY <2>1, EndTaskDoes
  <2> QED
    BY <1>1, <2>1, <2>2, <2>3 DEF dataVars, TypeOK, RowsType, MessagesType
<1>11. ASSUME LoseQueue
       PROVE  TypeOK'
  <2>1. message' \in [Runs -> BOOLEAN] /\ lost' \subseteq Runs /\ TasksType'
    BY <1>1, <1>2, <1>11 DEF LoseQueue
  <2> QED
    BY <1>1, <1>11, <2>1 DEF LoseQueue, dataVars, TypeOK, RowsType, MessagesType
<1> QED
  BY <1>1, <1>3, <1>4, <1>5, <1>6, <1>7, <1>8, <1>9, <1>10, <1>11, RunTyped DEF Next

-----------------------------------------------------------------------------
(* Every worker keeps its own OCR job                                      *)

\* The OCR job of w, if it has one, is the one it had.
KeepsJob(w) ==
    pc'[w] \in WithJob =>
        /\ pc[w] \in WithJob /\ at'[w] = at[w] /\ seen'[w].ocrJob = seen[w].ocrJob
        /\ pc'[w] \in Inside => pc[w] \in Inside
        /\ pc'[w] \in WithText => pc[w] \in WithText

LEMMA JobsLeftAlone ==
    ASSUME OwnJobs, NEW w \in Workers, Others(w), KeepsJob(w), jobs' = jobs
    PROVE  OwnJobs'
<1>1. \A v \in Workers : KeepsJob(v)
  BY DEF Others, KeepsJob
<1>2. ASSUME NEW v \in Workers, pc'[v] \in WithJob
      PROVE  /\ seen'[v].ocrJob \in DOMAIN jobs'[at'[v]]
             /\ pc'[v] \in Inside =>
                    jobs'[at'[v]][seen'[v].ocrJob].outcome \in Undecided
             /\ pc'[v] \in WithText =>
                    jobs'[at'[v]][seen'[v].ocrJob].outcome \in Readable
  BY <1>1, <1>2, Zenon DEF KeepsJob, OwnJobs, JobOf, Inside
<1>3. ASSUME NEW u \in Workers, NEW v \in Workers, pc'[u] \in WithJob, pc'[v] \in WithJob,
             at'[u] = at'[v], seen'[u].ocrJob = seen'[v].ocrJob
      PROVE  u = v
  BY <1>1, <1>3, Zenon DEF KeepsJob, OwnJobs
<1> QED
  BY <1>2, <1>3, Zenon DEF OwnJobs, JobOf, Inside

\* The steps of a worker that leave the OCR jobs alone.
LEMMA RunKeepsJob ==
    ASSUME TypeOK, NEW w \in Workers, Run(w),
           ~ CreateOcrJob(w), ~ OcrSucceeds(w), ~ OcrFails(w)
    PROVE  Others(w) /\ KeepsJob(w) /\ jobs' = jobs
<1>1. ASSUME NEW label, Commits(w, label)
      PROVE  Others(w) /\ pc'[w] = label /\ at'[w] = at[w] /\ jobs' = jobs
  BY <1>1 DEF Commits, Moves
<1>2. ASSUME NEW label \in {"preprocess", "ocr", "failing", "done"},
             Commits(w, label) \/ (Moves(w, label) /\ UNCHANGED Stored)
      PROVE  Others(w) /\ KeepsJob(w) /\ jobs' = jobs
  <2>1. Others(w) /\ pc'[w] = label /\ jobs' = jobs
    BY <1>2 DEF Commits, Moves, Stored
  <2> QED
    BY <2>1 DEF KeepsJob, WithJob
<1>3. CASE MarkRunning(w)
  BY <1>2, <1>3, MarkRunningDoes, Zenon
<1>4. CASE Leaving(w)
  BY <1>2, <1>4, LeavingDoes, Zenon
<1>5. CASE Preprocess(w)
  BY <1>2, <1>5, PreprocessDoes, Zenon
<1>6. CASE Raising(w)
  <2>1. UNCHANGED Stored /\ \E who \in Whom : Raises(w, who)
    BY <1>6, RaisingDoes DEF Whom, StageNames
  <2>2. Moves(w, "done") \/ Moves(w, "failing")
    BY <2>1 DEF Raises
  <2> QED
    BY <1>2, <2>1, <2>2
<1>7. CASE OcrOpensDocument(w)
  <2>1. pc[w] = "recognizing" /\ Moves(w, "extracting") /\ UNCHANGED Stored /\ seen'[w] = seen[w]
    BY <1>7, OcrOpensDoes, Zenon DEF Holds
  <2> QED
    BY <2>1 DEF Moves, Stored, KeepsJob, WithJob, WithText, Inside
<1>8. CASE CommitOcr(w)
  <2>1. /\ pc[w] = "recognized" /\ Commits(w, "ai_analyze")
        /\ seen'[w].ocrJob = seen[w].ocrJob
    BY <1>8, CommitOcrDoes, Zenon
  <2> QED
    BY <1>1, <2>1 DEF KeepsJob, WithJob, WithText, Inside
<1>9. CASE ProviderAnswers(w)
  <2>1. pc[w] = "ai_analyze" /\ Moves(w, "answered") /\ jobs' = jobs /\ seen'[w] = seen[w]
    BY <1>9, ProviderAnswersDoes, Zenon DEF Holds
  <2> QED
    BY <2>1 DEF Moves, KeepsJob, WithJob, WithText, Inside
<1>10. CASE RecordRequest(w)
  <2>1. pc[w] = "answered" /\ Moves(w, "analyzed") /\ jobs' = jobs /\ seen'[w] = seen[w]
    BY <1>10, RecordRequestDoes, Zenon
  <2> QED
    BY <2>1 DEF Moves, KeepsJob, WithJob, WithText, Inside
<1>11. CASE CommitAi(w)
  <2>1. /\ pc[w] = "analyzed" /\ Commits(w, "persist")
        /\ seen'[w].ocrJob = seen[w].ocrJob
    BY <1>11, CommitAiDoes, Zenon
  <2> QED
    BY <1>1, <2>1 DEF KeepsJob, WithJob, WithText, Inside
<1>12. CASE Persist(w)
  BY <1>2, <1>12, PersistStageDoes, Zenon
<1>13. CASE RecordFailure(w)
  BY <1>2, <1>13, RecordFailureDoes, Zenon
<1>14. CASE Finish(w)
  <2>1. EndTask(w) /\ jobs' = jobs
    BY <1>14 DEF Finish, dataVars
  <2> QED
    BY <2>1, EndTaskDoes DEF KeepsJob, WithJob
<1> QED
  BY <1>3, <1>4, <1>5, <1>6, <1>7, <1>8, <1>9, <1>10, <1>11, <1>12, <1>13, <1>14
  DEF Run, Raising, Leaving

\* An OCR job is decided or put back, under a worker whose point allows what it says.
LEMMA DecisionKeepsOwnJobs ==
    ASSUME OwnJobs, NEW r \in Runs, NEW k \in DOMAIN jobs[r], NEW o, DecidesOne(r, k, o),
           \A v \in Workers : pc'[v] \in WithJob =>
               /\ pc[v] \in WithJob /\ at'[v] = at[v] /\ seen'[v].ocrJob = seen[v].ocrJob
               /\ at[v] \in Runs
               /\ at[v] = r /\ seen[v].ocrJob = k =>
                     /\ pc'[v] \in Inside => o \in Undecided
                     /\ pc'[v] \in WithText => o \in Readable
               /\ ~ (at[v] = r /\ seen[v].ocrJob = k) =>
                     /\ pc'[v] \in Inside => pc[v] \in Inside
                     /\ pc'[v] \in WithText => pc[v] \in WithText
    PROVE  OwnJobs'
<1>1. /\ \A s \in Runs \ {r} : jobs'[s] = jobs[s]
      /\ DOMAIN jobs'[r] = DOMAIN jobs[r]
      /\ \A j \in DOMAIN jobs[r] \ {k} : jobs'[r][j] = jobs[r][j]
      /\ jobs'[r][k].outcome = o
  BY DEF DecidesOne
<1>2. ASSUME NEW v \in Workers, pc'[v] \in WithJob
      PROVE  /\ seen'[v].ocrJob \in DOMAIN jobs'[at'[v]]
             /\ pc'[v] \in Inside =>
                    jobs'[at'[v]][seen'[v].ocrJob].outcome \in Undecided
             /\ pc'[v] \in WithText =>
                    jobs'[at'[v]][seen'[v].ocrJob].outcome \in Readable
  <2>1. /\ seen[v].ocrJob \in DOMAIN jobs[at[v]]
        /\ pc[v] \in Inside => jobs[at[v]][seen[v].ocrJob].outcome \in Undecided
        /\ pc[v] \in WithText => jobs[at[v]][seen[v].ocrJob].outcome \in Readable
    BY <1>2 DEF OwnJobs, JobOf
  <2>2. seen'[v].ocrJob = seen[v].ocrJob /\ at'[v] = at[v] /\ at[v] \in Runs
    BY <1>2
  <2>3. seen'[v].ocrJob \in DOMAIN jobs'[at'[v]]
    BY <1>1, <2>1, <2>2
  <2>4. CASE at[v] = r /\ seen[v].ocrJob = k
    BY <1>1, <1>2, <2>2, <2>3, <2>4, Zenon
  <2>5. CASE ~ (at[v] = r /\ seen[v].ocrJob = k)
    <3>1. jobs'[at'[v]][seen'[v].ocrJob] = jobs[at[v]][seen[v].ocrJob]
      BY <1>1, <2>1, <2>2, <2>5
    <3> QED
      BY <1>2, <2>1, <2>3, <2>5, <3>1, Zenon
  <2> QED
    BY <2>4, <2>5
<1>3. ASSUME NEW u \in Workers, NEW v \in Workers, pc'[u] \in WithJob, pc'[v] \in WithJob,
             at'[u] = at'[v], seen'[u].ocrJob = seen'[v].ocrJob
      PROVE  u = v
  BY <1>3, Zenon DEF OwnJobs
<1> QED
  BY <1>2, <1>3, Zenon DEF OwnJobs, JobOf

LEMMA OwnJobsKept ==
    ASSUME TypeOK, OwnJobs, PurgedIsGone, Next
    PROVE  OwnJobs'
<1>1. \A v \in Workers : pc[v] \in WithJob => at[v] \in Runs
  BY Task DEF WithJob
<1>2. ASSUME NEW w \in Workers, CreateOcrJob(w)
      PROVE  OwnJobs'
  <2>1. PICK r \in Runs : r = at[w]
    BY <1>2, CreateOcrJobDoes
  <2>2. /\ Others(w) /\ at' = at /\ pc'[w] = "recognizing"
        /\ seen'[w].ocrJob = Len(jobs[r]) + 1
        /\ \A s \in Runs \ {r} : jobs'[s] = jobs[s]
        /\ DOMAIN jobs'[r] = 1..(Len(jobs[r]) + 1)
        /\ \A k \in DOMAIN jobs[r] : jobs'[r][k] = jobs[r][k]
        /\ jobs'[r][Len(jobs[r]) + 1].outcome = "pending"
        /\ DOMAIN jobs[r] = 1..Len(jobs[r]) /\ Len(jobs[r]) \in Nat
    BY <1>2, <2>1, CreateOcrJobDoes, JobsOf, Zenon DEF Moves
  <2>3. /\ seen'[w].ocrJob \in DOMAIN jobs'[r] /\ seen'[w].ocrJob \notin DOMAIN jobs[r]
        /\ \A k \in DOMAIN jobs[r] : k \in DOMAIN jobs'[r]
    BY <2>2
  <2>4. ASSUME NEW v \in Workers \ {w}, pc'[v] \in WithJob
        PROVE  /\ pc[v] = pc'[v] /\ at'[v] = at[v] /\ seen'[v].ocrJob = seen[v].ocrJob
               /\ seen[v].ocrJob \in DOMAIN jobs[at[v]]
               /\ seen'[v].ocrJob \in DOMAIN jobs'[at'[v]]
               /\ jobs'[at'[v]][seen'[v].ocrJob] = jobs[at[v]][seen[v].ocrJob]
    <3>1. pc[v] = pc'[v] /\ at'[v] = at[v] /\ seen'[v] = seen[v]
      BY <2>2 DEF Others
    <3>2. seen[v].ocrJob \in DOMAIN jobs[at[v]] /\ at[v] \in Runs
      BY <1>1, <2>4, <3>1 DEF OwnJobs
    <3>3. CASE at[v] = r
      BY <2>2, <2>3, <3>1, <3>2, <3>3, Zenon
    <3>4. CASE at[v] # r
      BY <2>2, <3>1, <3>2, <3>4, Zenon
    <3> QED
      BY <3>3, <3>4
  <2>5. ASSUME NEW v \in Workers, pc'[v] \in WithJob
        PROVE  /\ seen'[v].ocrJob \in DOMAIN jobs'[at'[v]]
               /\ pc'[v] \in Inside =>
                      jobs'[at'[v]][seen'[v].ocrJob].outcome \in Undecided
               /\ pc'[v] \in WithText =>
                      jobs'[at'[v]][seen'[v].ocrJob].outcome \in Readable
    <3>1. CASE v = w
      BY <2>1, <2>2, <2>3, <3>1 DEF WithText, Undecided
    <3>2. CASE v # w
      BY <2>4, <2>5, <3>2, Zenon DEF OwnJobs, JobOf, Inside
    <3> QED
      BY <3>1, <3>2
  <2>6. ASSUME NEW u \in Workers, NEW v \in Workers, pc'[u] \in WithJob, pc'[v] \in WithJob,
               at'[u] = at'[v], seen'[u].ocrJob = seen'[v].ocrJob
        PROVE  u = v
    <3>1. CASE u # w /\ v # w
      BY <2>4, <2>6, <3>1, Zenon DEF OwnJobs
    <3>2. CASE u = w /\ v # w
      BY <2>1, <2>2, <2>3, <2>4, <2>6, <3>2, Zenon
    <3>3. CASE u # w /\ v = w
      BY <2>1, <2>2, <2>3, <2>4, <2>6, <3>3, Zenon
    <3> QED
      BY <3>1, <3>2, <3>3
  <2> QED
    BY <2>5, <2>6, Zenon DEF OwnJobs, JobOf, Inside
<1>3. ASSUME NEW w \in Workers, OcrSucceeds(w) \/ OcrFails(w)
      PROVE  OwnJobs'
  <2>1. /\ pc[w] \in Inside /\ pc[w] \in WithJob
        /\ seen[w].ocrJob \in DOMAIN jobs[at[w]] /\ JobOf(w).outcome \in Undecided
    BY <1>3 DEF OwnJobs, WithJob, Inside, OcrSucceeds, OcrFails
  <2>2. PICK r \in Runs : r = at[w]
    BY <1>1, <2>1
  <2>3. PICK k \in DOMAIN jobs[r] : k = seen[w].ocrJob
    BY <2>1, <2>2
  <2>4. PICK o : /\ Holds(w) /\ DecidesOne(r, k, o)
                 /\ \/ Moves(w, "recognized") /\ o = Decided(JobOf(w), "succeeded")
                    \/ Moves(w, "rejected")
    BY <1>3, <2>1, <2>2, <2>3, OcrDecidesDoes
  <2>5. Others(w) /\ at' = at /\ seen'[w] = seen[w] /\ pc'[w] \in {"recognized", "rejected"}
    BY <2>4 DEF Moves, Holds
  <2>6. pc'[w] \notin Inside /\ (pc'[w] \in WithText => o \in Readable)
    BY <2>1, <2>4 DEF Moves, Inside, WithText, Decided, Undecided, Readable, Elsewhere
  <2>7. ASSUME NEW v \in Workers, pc'[v] \in WithJob
        PROVE  /\ pc[v] \in WithJob /\ at'[v] = at[v] /\ seen'[v].ocrJob = seen[v].ocrJob
               /\ at[v] \in Runs
               /\ at[v] = r /\ seen[v].ocrJob = k =>
                     /\ pc'[v] \in Inside => o \in Undecided
                     /\ pc'[v] \in WithText => o \in Readable
               /\ ~ (at[v] = r /\ seen[v].ocrJob = k) =>
                     /\ pc'[v] \in Inside => pc[v] \in Inside
                     /\ pc'[v] \in WithText => pc[v] \in WithText
    <3>1. CASE v = w
      BY <2>1, <2>2, <2>3, <2>5, <2>6, <3>1, Zenon
    <3>2. CASE v # w
      <4>1. pc'[v] = pc[v] /\ at'[v] = at[v] /\ seen'[v] = seen[v]
        BY <2>5, <3>2 DEF Others
      <4>2. ~ (at[v] = r /\ seen[v].ocrJob = k)
        BY <2>1, <2>2, <2>3, <2>7, <3>2, <4>1, Zenon DEF OwnJobs
      <4> QED
        BY <1>1, <2>7, <4>1, <4>2, Zenon
    <3> QED
      BY <3>1, <3>2
  <2> QED
    BY <2>4, <2>7, DecisionKeepsOwnJobs
<1>4. ASSUME NEW r \in Runs, NEW k \in DOMAIN jobs[r], Reconcile(r, k)
      PROVE  OwnJobs'
  <2>1. /\ jobs[r][k].outcome = "pending"
        /\ \A w \in Workers : Recognizing(w, r, k) => LongRuns /\ pc[w] = "extracting"
        /\ pc' = pc /\ at' = at /\ seen' = seen
        /\ jobs' = [jobs EXCEPT ![r][k].outcome = "requeued"]
    BY <1>4 DEF Reconcile, taskVars
  <2>2. DecidesOne(r, k, "requeued")
    BY <2>1, OneDecided
  <2>3. ASSUME NEW v \in Workers, pc[v] \in WithJob, at[v] = r, seen[v].ocrJob = k
        PROVE  (pc[v] \in Inside => "requeued" \in Undecided) /\ pc[v] \notin WithText
    <3>1. pc[v] \in Inside => LongRuns
      BY <2>1, <2>3, Zenon DEF Recognizing, Inside
    <3>2. pc[v] \in WithText => "pending" \in Readable
      BY <2>1, <2>3, Zenon DEF OwnJobs, JobOf
    <3>3. (LongRuns => "requeued" \in Undecided) /\ "pending" \notin Readable
      BY DEF Undecided, Readable, Elsewhere
    <3> QED
      BY <3>1, <3>2, <3>3
  <2>4. \A v \in Workers : pc[v] \in WithJob => at[v] \in Runs
    BY <1>1
  <2> QED
    BY <2>1, <2>2, <2>3, <2>4, DecisionKeepsOwnJobs
<1>5. ASSUME NEW w \in Workers, NEW r \in Runs, PurgeDocument(w, r)
      PROVE  OwnJobs'
  <2>1. /\ pc' = pc /\ at' = at /\ seen' = seen
        /\ \A s \in Runs \ {r} : jobs'[s] = jobs[s]
        /\ DOMAIN jobs'[r] = DOMAIN jobs[r]
        /\ \A k \in DOMAIN jobs[r] : jobs'[r][k].outcome = "erased"
        /\ "erased" \in Undecided /\ "erased" \in Readable
    BY <1>5, PurgeDoes DEF taskVars, Undecided, Readable, Elsewhere
  <2>2. ASSUME NEW v \in Workers, pc'[v] \in WithJob
        PROVE  /\ seen'[v].ocrJob \in DOMAIN jobs'[at'[v]]
               /\ pc'[v] \in Inside =>
                      jobs'[at'[v]][seen'[v].ocrJob].outcome \in Undecided
               /\ pc'[v] \in WithText =>
                      jobs'[at'[v]][seen'[v].ocrJob].outcome \in Readable
    <3>1. seen[v].ocrJob \in DOMAIN jobs[at[v]] /\ at[v] \in Runs
      BY <1>1, <2>1, <2>2 DEF OwnJobs
    <3>2. CASE at[v] = r
      BY <2>1, <3>1, <3>2
    <3>3. CASE at[v] # r
      <4>1. at'[v] = at[v] /\ seen'[v] = seen[v] /\ pc'[v] = pc[v] /\ jobs'[at[v]] = jobs[at[v]]
        BY <2>1, <3>1, <3>3
      <4> QED
        BY <2>2, <4>1 DEF OwnJobs, JobOf, Inside
    <3> QED
      BY <3>2, <3>3
  <2>3. ASSUME NEW u \in Workers, NEW v \in Workers, pc'[u] \in WithJob, pc'[v] \in WithJob,
               at'[u] = at'[v], seen'[u].ocrJob = seen'[v].ocrJob
        PROVE  u = v
    BY <2>1, <2>3, Zenon DEF OwnJobs
  <2> QED
    BY <2>2, <2>3, Zenon DEF OwnJobs, JobOf, Inside
<1>6. ASSUME NEW w \in Workers, Run(w), ~ CreateOcrJob(w), ~ OcrSucceeds(w), ~ OcrFails(w)
      PROVE  OwnJobs'
  BY <1>6, RunKeepsJob, JobsLeftAlone
<1>7. ASSUME NEW w \in Workers, NEW r \in Runs, Deliver(w, r)
      PROVE  OwnJobs'
  <2>1. Others(w) /\ pc'[w] = "loaded" /\ jobs' = jobs
    BY <1>7, DeliverDoes DEF Stored
  <2> QED
    BY <2>1, JobsLeftAlone DEF KeepsJob, WithJob
<1>8. ASSUME NEW w \in Workers, Crash(w)
      PROVE  OwnJobs'
  <2>1. Others(w) /\ pc'[w] = "idle" /\ jobs' = jobs
    BY <1>8, EndTaskDoes DEF Crash, dataVars
  <2> QED
    BY <2>1, JobsLeftAlone DEF KeepsJob, WithJob
<1>9. ASSUME UNCHANGED <<taskVars, jobs>>
      PROVE  OwnJobs'
  BY <1>9, Zenon DEF taskVars, OwnJobs, JobOf
<1>10. CASE LoseQueue
  BY <1>9, <1>10 DEF LoseQueue, dataVars
<1>11. ASSUME NEW r \in Runs, CreateRun(r) \/ EnqueueRun(r) \/ LoseEnqueue(r) \/ SoftDelete(r)
       PROVE  OwnJobs'
  BY <1>9, <1>11 DEF CreateRun, EnqueueRun, LoseEnqueue, SoftDelete, dataVars
<1>12. ASSUME NEW w \in Workers, NEW r \in Runs, SkipDelivery(w, r)
       PROVE  OwnJobs'
  BY <1>9, <1>12 DEF SkipDelivery, dataVars
<1> QED
  BY <1>2, <1>3, <1>4, <1>5, <1>6, <1>7, <1>8, <1>10, <1>11, <1>12 DEF Next

-----------------------------------------------------------------------------
(* Which steps write what                                                  *)

LEMMA DocsChange ==
    ASSUME Next, docs' # docs
    PROVE  \/ \E r \in Runs : SoftDelete(r)
           \/ \E w \in Workers, r \in Runs : PurgeDocument(w, r)
BY Zenon DEF Next, CreateRun, EnqueueRun, LoseEnqueue, Reconcile, Deliver, SkipDelivery, Crash,
   LoseQueue, Run, MarkRunning, Vanished, Preprocess, PreprocessFails, StageBreaks,
   CreateOcrJob, OcrOpensDocument, OcrSucceeds, OcrFails, OcrDecides, OcrRejected, CommitOcr,
   AnalysisFails, BreakOff, ProviderAnswers, RecordRequest, CommitAi, Persist,
   RecordFailure, Finish, StageRaises, dataVars

LEMMA RequestsChange ==
    ASSUME Next, requests' # requests
    PROVE  \E w \in Workers : RecordRequest(w)
BY Zenon DEF Next, CreateRun, EnqueueRun, LoseEnqueue, SoftDelete, Reconcile, Deliver,
   SkipDelivery, PurgeDocument, Crash, LoseQueue, Run, MarkRunning, Vanished, Preprocess,
   PreprocessFails, StageBreaks, CreateOcrJob, OcrOpensDocument, OcrSucceeds, OcrFails,
   OcrDecides, OcrRejected, CommitOcr, AnalysisFails, BreakOff, ProviderAnswers, CommitAi,
   Persist, RecordFailure, Finish, StageRaises, dataVars

LEMMA CallsChange ==
    ASSUME Next, calls' # calls
    PROVE  \E w \in Workers : ProviderAnswers(w)
BY Zenon DEF Next, CreateRun, EnqueueRun, LoseEnqueue, SoftDelete, Reconcile, Deliver,
   SkipDelivery, PurgeDocument, Crash, LoseQueue, Run, MarkRunning, Vanished, Preprocess,
   PreprocessFails, StageBreaks, CreateOcrJob, OcrOpensDocument, OcrSucceeds, OcrFails,
   OcrDecides, OcrRejected, CommitOcr, AnalysisFails, BreakOff, RecordRequest, CommitAi,
   Persist, RecordFailure, Finish, StageRaises, dataVars

LEMMA JobsChange ==
    ASSUME Next, jobs' # jobs
    PROVE  \/ \E w \in Workers : CreateOcrJob(w) \/ OcrSucceeds(w) \/ OcrFails(w)
           \/ \E r \in Runs : \E k \in DOMAIN jobs[r] : Reconcile(r, k)
           \/ \E w \in Workers, r \in Runs : PurgeDocument(w, r)
BY Zenon DEF Next, CreateRun, EnqueueRun, LoseEnqueue, SoftDelete, Deliver,
   SkipDelivery, Crash, LoseQueue, Run, MarkRunning, Vanished, Preprocess,
   PreprocessFails, StageBreaks, OcrOpensDocument, OcrRejected, CommitOcr, AnalysisFails,
   BreakOff, ProviderAnswers, RecordRequest, CommitAi, Persist, RecordFailure, Finish,
   StageRaises, dataVars

LEMMA RowsChange ==
    ASSUME Next, row' # row
    PROVE  \/ \E r \in Runs : CreateRun(r)
           \/ \E w \in Workers, r \in Runs : PurgeDocument(w, r)
           \/ \E w \in Workers : \/ MarkRunning(w) \/ Preprocess(w) \/ CreateOcrJob(w)
                                 \/ CommitOcr(w) \/ CommitAi(w) \/ Persist(w) \/ RecordFailure(w)
BY Zenon DEF Next, EnqueueRun, LoseEnqueue, SoftDelete, Reconcile, Deliver,
   SkipDelivery, Crash, LoseQueue, Run, Vanished, PreprocessFails, StageBreaks,
   OcrOpensDocument, OcrSucceeds, OcrFails, OcrDecides, OcrRejected, AnalysisFails,
   BreakOff, ProviderAnswers, RecordRequest, Finish, StageRaises, dataVars

\* A row appears with its creation, goes with its document, and is otherwise written by a
\* worker that has it, while the document is not erased.
LEMMA RowsWritten ==
    ASSUME TypeOK, PurgedIsGone, Next, NEW r \in Runs, row'[r] # row[r]
    PROVE  \/ CreateRun(r)
           \/ \E w \in Workers : PurgeDocument(w, r)
           \/ docs[r] # "purged" /\ docs' = docs
<1>1. row' # row
  OBVIOUS
<1>2. ASSUME NEW s \in Runs, CreateRun(s)
      PROVE  CreateRun(r)
  <2>1. row' = [row EXCEPT ![s] = QueuedRow] /\ row \in [Runs -> Row]
    BY <1>2 DEF CreateRun, TypeOK, RowsType
  <2>2. r = s
    BY <2>1
  <2> QED
    BY <1>2, <2>2
<1>3. ASSUME NEW w \in Workers, NEW s \in Runs, PurgeDocument(w, s)
      PROVE  PurgeDocument(w, r)
  <2>1. r = s
    BY <1>3, PurgeDoes
  <2> QED
    BY <1>3, <2>1
<1>4. ASSUME NEW w \in Workers,
             \/ MarkRunning(w) \/ Preprocess(w) \/ CreateOcrJob(w)
             \/ CommitOcr(w) \/ CommitAi(w) \/ Persist(w) \/ RecordFailure(w)
      PROVE  docs[r] # "purged" /\ docs' = docs
  <2>1. /\ at[w] \in Runs /\ docs' = docs /\ \A s \in Runs \ {at[w]} : row'[s] = row[s]
        /\ Exists(at[w]) \/ docs[at[w]] = "live"
    BY <1>4, MarkRunningDoes, PreprocessDoes, CreateOcrJobDoes, CommitOcrDoes, CommitAiDoes,
       PersistStageDoes, RecordFailureDoes, Zenon DEF Commits
  <2>2. r = at[w]
    BY <2>1
  <2> QED
    BY <2>1, <2>2 DEF PurgedIsGone
<1> QED
  BY <1>1, <1>2, <1>3, <1>4, RowsChange

\* One job is created, one pending job is decided or put back, or a document takes its
\* jobs along; one that has been put back stays so.
JobDecided(r, k) ==
    \E o \in {"succeeded", "failed", "requeued"} :
        /\ DecidesOne(r, k, o)
        /\ jobs[r][k].outcome = "pending" \/ (jobs[r][k].outcome = "requeued" /\ o = "requeued")

LEMMA JobsMove ==
    ASSUME TypeOK, OwnJobs, PurgedIsGone, Next, jobs' # jobs
    PROVE  \/ \E w \in Workers : CreateOcrJob(w)
           \/ \E r \in Runs : \E k \in DOMAIN jobs[r] : JobDecided(r, k)
           \/ \E w \in Workers, r \in Runs : PurgeDocument(w, r)
<1>1. ASSUME NEW w \in Workers, OcrSucceeds(w) \/ OcrFails(w)
      PROVE  \E r \in Runs : \E k \in DOMAIN jobs[r] : JobDecided(r, k)
  <2>1. seen[w].ocrJob \in DOMAIN jobs[at[w]] /\ JobOf(w).outcome \in Undecided
    BY <1>1 DEF OwnJobs, WithJob, Inside, OcrSucceeds, OcrFails
  <2>2. /\ at[w] \in Runs /\ Exists(at[w])
        /\ \E end \in {"succeeded", "failed"} :
              DecidesOne(at[w], seen[w].ocrJob, Decided(JobOf(w), end))
    BY <1>1, <2>1, OcrDecidesDoes
  <2>3. PICK s \in Runs : s = at[w]
    BY <2>2
  <2>4. PICK j \in DOMAIN jobs[s] : j = seen[w].ocrJob
    BY <2>1, <2>3
  <2>5. PICK end \in {"succeeded", "failed"} : DecidesOne(s, j, Decided(JobOf(w), end))
    BY <2>2, <2>3, <2>4
  <2>6. JobOf(w) = jobs[s][j] /\ jobs[s][j].outcome \in {"pending", "requeued"}
    BY <2>1, <2>2, <2>3, <2>4 DEF PurgedIsGone, JobOf, Undecided, Elsewhere
  <2> QED
    BY <2>5, <2>6 DEF JobDecided, Decided
<1>2. ASSUME NEW s \in Runs, NEW j \in DOMAIN jobs[s], Reconcile(s, j)
      PROVE  JobDecided(s, j)
  <2>1. jobs[s][j].outcome = "pending" /\ jobs' = [jobs EXCEPT ![s][j].outcome = "requeued"]
    BY <1>2 DEF Reconcile
  <2> QED
    BY <2>1, OneDecided DEF JobDecided
<1> QED
  BY <1>1, <1>2, JobsChange, Zenon

\* What becomes of the jobs of one run.
LEMMA JobsStep ==
    ASSUME TypeOK, OwnJobs, PurgedIsGone, Next, NEW r \in Runs, jobs'[r] # jobs[r]
    PROVE  \/ \E w \in Workers :
                 /\ CreateOcrJob(w) /\ at[w] = r
                 /\ Len(jobs'[r]) = Len(jobs[r]) + 1 /\ Len(jobs[r]) + 1 \notin DOMAIN jobs[r]
                 /\ DOMAIN jobs'[r] = DOMAIN jobs[r] \cup {Len(jobs[r]) + 1}
                 /\ \A k \in DOMAIN jobs[r] : jobs'[r][k] = jobs[r][k]
                 /\ jobs'[r][Len(jobs[r]) + 1].outcome = "pending"
                 /\ jobs'[r][Len(jobs[r]) + 1].options = options[w]
           \/ \E k \in DOMAIN jobs[r] : JobDecided(r, k)
           \/ \E w \in Workers : PurgeDocument(w, r)
<1>1. ASSUME NEW w \in Workers, CreateOcrJob(w)
      PROVE  /\ CreateOcrJob(w) /\ at[w] = r
             /\ Len(jobs'[r]) = Len(jobs[r]) + 1 /\ Len(jobs[r]) + 1 \notin DOMAIN jobs[r]
             /\ DOMAIN jobs'[r] = DOMAIN jobs[r] \cup {Len(jobs[r]) + 1}
             /\ \A k \in DOMAIN jobs[r] : jobs'[r][k] = jobs[r][k]
             /\ jobs'[r][Len(jobs[r]) + 1].outcome = "pending"
             /\ jobs'[r][Len(jobs[r]) + 1].options = options[w]
  <2>1. PICK s \in Runs : s = at[w]
    BY <1>1, CreateOcrJobDoes
  <2>2. /\ \A t \in Runs \ {s} : jobs'[t] = jobs[t]
        /\ Len(jobs'[s]) = Len(jobs[s]) + 1
        /\ DOMAIN jobs'[s] = 1..(Len(jobs[s]) + 1)
        /\ DOMAIN jobs[s] = 1..Len(jobs[s]) /\ Len(jobs[s]) \in Nat
        /\ \A j \in DOMAIN jobs[s] : jobs'[s][j] = jobs[s][j]
        /\ jobs'[s][Len(jobs[s]) + 1].outcome = "pending"
        /\ jobs'[s][Len(jobs[s]) + 1].options = options[w]
    BY <1>1, <2>1, CreateOcrJobDoes, JobsOf, Zenon
  <2>3. r = s
    BY <2>2
  <2>4. /\ DOMAIN jobs'[s] = DOMAIN jobs[s] \cup {Len(jobs[s]) + 1}
        /\ Len(jobs[s]) + 1 \notin DOMAIN jobs[s]
    BY <2>2
  <2> QED
    BY <1>1, <2>1, <2>2, <2>3, <2>4, Zenon
<1>2. ASSUME NEW s \in Runs, NEW j \in DOMAIN jobs[s], JobDecided(s, j)
      PROVE  s = r
  BY <1>2 DEF JobDecided, DecidesOne
<1>3. ASSUME NEW w \in Workers, NEW s \in Runs, PurgeDocument(w, s)
      PROVE  s = r
  BY <1>3, PurgeDoes
<1>4. jobs' # jobs
  OBVIOUS
<1> QED
  BY <1>1, <1>2, <1>3, <1>4, JobsMove, Zenon

-----------------------------------------------------------------------------
(* Erasures                                                                *)

LEMMA PurgedIsGoneKept ==
    ASSUME TypeOK, OwnJobs, PurgedIsGone, Next
    PROVE  PurgedIsGone'
<1>1. ASSUME NEW r \in Runs, docs'[r] = "purged"
      PROVE  row'[r].status = "absent"
  <2>1. CASE docs[r] = "purged"
    <3>1. row[r].status = "absent"
      BY <2>1 DEF PurgedIsGone, Exists
    <3>2. CASE row'[r] = row[r]
      BY <3>1, <3>2
    <3>3. CASE row'[r] # row[r]
      <4>1. ~ CreateRun(r)
        BY <2>1 DEF CreateRun
      <4>2. PICK w \in Workers : PurgeDocument(w, r)
        BY <2>1, <3>3, <4>1, RowsWritten
      <4> QED
        BY <4>2, PurgeDoes, InitialTypes
    <3> QED
      BY <3>2, <3>3
  <2>2. CASE docs[r] # "purged"
    <3>1. ASSUME NEW s \in Runs, SoftDelete(s)
          PROVE  FALSE
      <4>1. docs' = [docs EXCEPT ![s] = "deleted"]
            /\ docs \in [Runs -> {"live", "deleted", "purged"}]
        BY <3>1 DEF SoftDelete, TypeOK, RowsType
      <4> QED
        BY <1>1, <2>2, <4>1
    <3>2. docs' # docs
      BY <1>1, <2>2
    <3>3. PICK w \in Workers, s \in Runs : PurgeDocument(w, s)
      BY <3>1, <3>2, DocsChange
    <3>4. s = r
      BY <1>1, <2>2, <3>3, PurgeDoes
    <3> QED
      BY <3>3, <3>4, PurgeDoes, InitialTypes
  <2> QED
    BY <2>1, <2>2
<1>2. ASSUME NEW r \in Runs, NEW k \in DOMAIN jobs'[r], jobs'[r][k].outcome = "erased"
      PROVE  docs'[r] = "purged"
  <2>1. CASE k \in DOMAIN jobs[r] /\ jobs[r][k].outcome = "erased"
    <3>1. docs[r] = "purged"
      BY <2>1 DEF PurgedIsGone
    <3>2. ASSUME NEW s \in Runs, SoftDelete(s)
          PROVE  docs'[r] = "purged"
      <4>1. docs' = [docs EXCEPT ![s] = "deleted"] /\ docs[s] = "live"
        BY <3>2 DEF SoftDelete
      <4> QED
        BY <3>1, <4>1 DEF TypeOK, RowsType
    <3>3. ASSUME NEW w \in Workers, NEW s \in Runs, PurgeDocument(w, s)
          PROVE  docs'[r] = "purged"
      BY <3>1, <3>3, PurgeDoes
    <3> QED
      BY <3>1, <3>2, <3>3, DocsChange
  <2>2. CASE ~ (k \in DOMAIN jobs[r] /\ jobs[r][k].outcome = "erased")
    <3>1. jobs'[r] # jobs[r]
      BY <1>2, <2>2
    <3>2. ASSUME NEW w \in Workers,
                 DOMAIN jobs'[r] = DOMAIN jobs[r] \cup {Len(jobs[r]) + 1},
                 \A j \in DOMAIN jobs[r] : jobs'[r][j] = jobs[r][j],
                 jobs'[r][Len(jobs[r]) + 1].outcome = "pending"
          PROVE  FALSE
      BY <1>2, <2>2, <3>2
    <3>3. ASSUME NEW j \in DOMAIN jobs[r], JobDecided(r, j)
          PROVE  FALSE
      BY <1>2, <2>2, <3>3 DEF JobDecided, DecidesOne
    <3>4. PICK w \in Workers : PurgeDocument(w, r)
      BY <3>1, <3>2, <3>3, JobsStep, Zenon
    <3> QED
      BY <3>4, PurgeDoes
  <2> QED
    BY <2>1, <2>2
<1> QED
  BY <1>1, <1>2, Zenon DEF PurgedIsGone, Exists

-----------------------------------------------------------------------------
(* What each worker has behind it                                          *)

\* Requests are only added.
LEMMA RequestsStay ==
    ASSUME TypeOK, Next, NEW r \in Runs, NEW q \in DOMAIN requests[r]
    PROVE  q \in DOMAIN requests'[r] /\ requests'[r][q] = requests[r][q]
<1>1. CASE requests' = requests
  BY <1>1
<1>2. CASE requests' # requests
  <2>1. PICK w \in Workers : RecordRequest(w)
    BY <1>2, RequestsChange
  <2>2. PICK s \in Runs : s = at[w]
    BY <2>1, RecordRequestDoes
  <2>3. /\ \A t \in Runs \ {s} : requests'[t] = requests[t]
        /\ DOMAIN requests'[s] = 1..(Len(requests[s]) + 1)
        /\ \A p \in DOMAIN requests[s] : requests'[s][p] = requests[s][p]
        /\ DOMAIN requests[s] = 1..Len(requests[s]) /\ Len(requests[s]) \in Nat
    BY <2>1, <2>2, RecordRequestDoes, RequestsOf, Zenon
  <2> QED
    BY <2>3
<1> QED
  BY <1>1, <1>2

LEMMA OthersProgress ==
    ASSUME TypeOK, AllProgress, Next, NEW v \in Workers, pc'[v] = pc[v], at'[v] = at[v],
           seen'[v] = seen[v], stages'[v] = stages[v]
    PROVE  Progress(v)'
<1>1. CASE pc[v] \in {"analyzed", "persist"}
  <2>1. at[v] \in Runs
    BY <1>1, Task
  <2>2. PICK r \in Runs : r = at[v]
    BY <2>1
  <2>3. PICK q \in DOMAIN requests[r] : q = stages[v].ref["ai_analyze"]
    BY <1>1, <2>2 DEF AllProgress, Progress
  <2>4. q \in DOMAIN requests'[r] /\ requests'[r][q] = requests[r][q]
    BY RequestsStay
  <2> QED
    BY <2>2, <2>3, <2>4 DEF AllProgress, Progress
<1>2. CASE pc[v] \notin {"analyzed", "persist"}
  BY <1>2 DEF AllProgress, Progress
<1> QED
  BY <1>1, <1>2

\* Where a worker has nothing behind it, or nothing to do with it.
LEMMA NoProgress ==
    ASSUME NEW w \in Workers, pc'[w] \in {"idle", "loaded", "failing", "done"}
    PROVE  Progress(w)'
BY DEF Progress, Marked, WithJob

\* What w has behind it before it ends a stage; the stages are told apart here.
LEMMA Behind ==
    ASSUME AllProgress, NEW w \in Workers
    PROVE  /\ pc[w] \in {"preprocess", "ocr", "recognizing", "extracting", "recognized",
                         "rejected", "ai_analyze", "answered", "analyzed", "persist"}
                  => seen[w].status = "running"
           /\ pc[w] \in {"ocr", "recognizing", "extracting", "recognized", "rejected",
                         "ai_analyze", "answered", "analyzed", "persist"}
                  => stages[w].at["preprocess"] = "succeeded"
                         /\ stages[w].ref["preprocess"] # NoRef
           /\ pc[w] \in {"ai_analyze", "answered", "analyzed", "persist"}
                  => stages[w].at["ocr"] = "succeeded" /\ stages[w].ref["ocr"] = seen[w].ocrJob
           /\ pc[w] \in {"analyzed", "persist"}
                  => /\ stages[w].at["ai_analyze"] = "succeeded"
                     /\ stages[w].ref["ai_analyze"] \in DOMAIN requests[at[w]]
                     /\ requests[at[w]][stages[w].ref["ai_analyze"]] = seen[w].ocrJob
           /\ pc[w] = "persist" => seen[w].aiRequest = stages[w].ref["ai_analyze"]
BY DEF AllProgress, Progress, Marked, WithJob

LEMMA RunProgress ==
    ASSUME TypeOK, OwnJobs, AllProgress, NEW w \in Workers, Run(w)
    PROVE  Progress(w)'
<1>1. CASE MarkRunning(w)
  <2>1. pc'[w] = "preprocess" /\ seen'[w].status = "running"
    BY <1>1, MarkRunningDoes DEF Commits, Moves
  <2> QED
    BY <2>1 DEF Progress, WithJob
<1>2. CASE Preprocess(w)
  <2>1. /\ pc[w] = "preprocess" /\ pc'[w] = "ocr" /\ seen'[w].status = seen[w].status
        /\ stages'[w].at["preprocess"] = "succeeded" /\ stages'[w].ref["preprocess"] = 1
    BY <1>2, PreprocessDoes DEF Commits, Moves, Ended, NoRef
  <2> QED
    BY <2>1, Behind DEF Progress, WithJob, NoRef
<1>3. CASE CreateOcrJob(w)
  <2>1. /\ pc[w] = "ocr" /\ pc'[w] = "recognizing" /\ stages'[w] = stages[w]
        /\ seen'[w].status = seen[w].status
    BY <1>3, CreateOcrJobDoes, Zenon DEF Moves
  <2> QED
    BY <2>1, Behind DEF Progress
<1>4. CASE OcrOpensDocument(w)
  <2>1. /\ pc[w] = "recognizing" /\ pc'[w] = "extracting" /\ stages'[w] = stages[w]
        /\ seen'[w] = seen[w]
    BY <1>4, OcrOpensDoes, Zenon DEF Moves, Holds
  <2> QED
    BY <2>1, Behind DEF Progress
<1>5. CASE OcrSucceeds(w) \/ OcrFails(w)
  <2>1. seen[w].ocrJob \in DOMAIN jobs[at[w]]
    BY <1>5 DEF OwnJobs, WithJob, OcrSucceeds, OcrFails
  <2>2. /\ pc[w] \in {"recognizing", "extracting"} /\ pc'[w] \in {"recognized", "rejected"}
        /\ stages'[w] = stages[w] /\ seen'[w] = seen[w]
    BY <1>5, <2>1, OcrDecidesDoes DEF Moves, Holds
  <2> QED
    BY <2>2, Behind DEF Progress
<1>6. CASE CommitOcr(w)
  <2>1. /\ pc[w] = "recognized" /\ at[w] \in Runs /\ pc'[w] = "ai_analyze"
        /\ Ended(w, "ocr", seen[w].ocrJob)
        /\ seen'[w].status = seen[w].status /\ seen'[w].ocrJob = seen[w].ocrJob
    BY <1>6, CommitOcrDoes, Zenon DEF Commits, Moves
  <2>2. seen[w].ocrJob # NoRef
    <3>1. PICK r \in Runs : r = at[w]
      BY <2>1
    <3>2. seen[w].ocrJob \in DOMAIN jobs[r] /\ DOMAIN jobs[r] = 1..Len(jobs[r])
      BY <2>1, <3>1, JobsOf DEF OwnJobs, WithJob
    <3> QED
      BY <3>2 DEF NoRef
  <2>3. /\ stages'[w].at["ocr"] = "succeeded" /\ stages'[w].ref["ocr"] = seen[w].ocrJob
        /\ stages'[w].at["preprocess"] = stages[w].at["preprocess"]
        /\ stages'[w].ref["preprocess"] = stages[w].ref["preprocess"]
    BY <2>1, <2>2 DEF Ended, StageNames
  <2> QED
    BY <2>1, <2>3, Behind DEF Progress
<1>7. CASE ProviderAnswers(w)
  <2>1. /\ pc[w] = "ai_analyze" /\ pc'[w] = "answered" /\ stages'[w] = stages[w]
        /\ seen'[w] = seen[w]
    BY <1>7, ProviderAnswersDoes, Zenon DEF Moves, Holds
  <2> QED
    BY <2>1, Behind DEF Progress
<1>8. CASE RecordRequest(w)
  <2>1. PICK r \in Runs : r = at[w]
    BY <1>8, RecordRequestDoes
  <2>2. /\ pc[w] = "answered" /\ pc'[w] = "analyzed" /\ at'[w] = r /\ seen'[w] = seen[w]
        /\ Ended(w, "ai_analyze", Len(requests[r]) + 1)
        /\ DOMAIN requests'[r] = 1..(Len(requests[r]) + 1)
        /\ requests'[r][Len(requests[r]) + 1] = seen[w].ocrJob
        /\ Len(requests[r]) \in Nat
    BY <1>8, <2>1, RecordRequestDoes, RequestsOf, Zenon DEF Moves
  <2>3. /\ stages'[w].at["ai_analyze"] = "succeeded"
        /\ stages'[w].ref["ai_analyze"] = Len(requests[r]) + 1
        /\ stages'[w].at["preprocess"] = stages[w].at["preprocess"]
        /\ stages'[w].ref["preprocess"] = stages[w].ref["preprocess"]
        /\ stages'[w].at["ocr"] = stages[w].at["ocr"]
        /\ stages'[w].ref["ocr"] = stages[w].ref["ocr"]
    BY <2>2 DEF Ended, StageNames, NoRef
  <2>4. Len(requests[r]) + 1 \in DOMAIN requests'[r]
    BY <2>2
  <2> QED
    BY <2>2, <2>3, <2>4, Behind DEF Progress
<1>9. CASE CommitAi(w)
  <2>1. /\ pc[w] = "analyzed" /\ pc'[w] = "persist" /\ at'[w] = at[w] /\ requests' = requests
        /\ stages'[w] = stages[w] /\ seen'[w].status = seen[w].status
        /\ seen'[w].ocrJob = seen[w].ocrJob
        /\ seen'[w].aiRequest = stages[w].ref["ai_analyze"]
    BY <1>9, CommitAiDoes DEF Commits, Moves
  <2> QED
    BY <2>1, Behind DEF Progress
<1>10. CASE Leaving(w) \/ Persist(w) \/ RecordFailure(w)
  <2>1. pc'[w] = "done"
    BY <1>10, LeavingDoes, PersistStageDoes, RecordFailureDoes, Zenon DEF Commits, Moves
  <2> QED
    BY <2>1, NoProgress
<1>11. CASE Raising(w)
  <2>1. \E who \in Whom : Raises(w, who)
    BY <1>11, RaisingDoes DEF Whom, StageNames
  <2>2. pc'[w] \in {"done", "failing"}
    BY <2>1 DEF Raises, Moves
  <2> QED
    BY <2>2, NoProgress
<1>12. CASE Finish(w)
  BY <1>12, EndTaskDoes, NoProgress DEF Finish
<1> QED
  BY <1>1, <1>2, <1>3, <1>4, <1>5, <1>6, <1>7, <1>8, <1>9, <1>10, <1>11, <1>12 DEF Run, Raising,
     Leaving

\* A worker's step moves nobody else; the other steps move nobody.
LEMMA WhoMoves ==
    ASSUME TypeOK, OwnJobs, Next
    PROVE  \/ UNCHANGED taskVars
           \/ \E w \in Workers : Others(w) /\ (Run(w) \/ Crash(w) \/ \E r \in Runs : Deliver(w, r))
<1>1. ASSUME NEW w \in Workers, Run(w)
      PROVE  Others(w)
  <2>1. CASE CreateOcrJob(w)
    BY <2>1, CreateOcrJobDoes, Zenon DEF Moves
  <2>2. CASE OcrSucceeds(w) \/ OcrFails(w)
    <3>1. seen[w].ocrJob \in DOMAIN jobs[at[w]]
      BY <2>2 DEF OwnJobs, WithJob, OcrSucceeds, OcrFails
    <3> QED
      BY <2>2, <3>1, OcrDecidesDoes DEF Moves
  <2>3. CASE ~ CreateOcrJob(w) /\ ~ OcrSucceeds(w) /\ ~ OcrFails(w)
    BY <1>1, <2>3, RunKeepsJob
  <2> QED
    BY <2>1, <2>2, <2>3
<1>2. ASSUME NEW w \in Workers, Crash(w)
      PROVE  Others(w)
  BY <1>2, EndTaskDoes, Zenon DEF Crash
<1>3. ASSUME NEW w \in Workers, NEW r \in Runs, Deliver(w, r)
      PROVE  Others(w)
  BY <1>3, DeliverDoes, Zenon
<1>4. ASSUME ~ \E w \in Workers : Run(w) \/ Crash(w) \/ \E r \in Runs : Deliver(w, r)
      PROVE  UNCHANGED taskVars
  BY <1>4, Zenon DEF Next, CreateRun, EnqueueRun, LoseEnqueue, SoftDelete, Reconcile,
     SkipDelivery, PurgeDocument, LoseQueue
<1> QED
  BY <1>1, <1>2, <1>3, <1>4, Zenon

LEMMA AllProgressKept ==
    ASSUME TypeOK, OwnJobs, AllProgress, Next
    PROVE  AllProgress'
<1> SUFFICES ASSUME NEW v \in Workers
             PROVE  Progress(v)'
  BY Zenon DEF AllProgress
<1>1. CASE UNCHANGED taskVars
  BY <1>1, OthersProgress DEF taskVars
<1>2. ASSUME NEW w \in Workers, Others(w), v # w
      PROVE  Progress(v)'
  BY <1>2, OthersProgress DEF Others
<1>3. CASE Run(v)
  BY <1>3, RunProgress
<1>4. CASE Crash(v)
  BY <1>4, EndTaskDoes, NoProgress DEF Crash
<1>5. CASE \E r \in Runs : Deliver(v, r)
  <2>1. pc'[v] = "loaded"
    BY <1>5, DeliverDoes, Zenon
  <2> QED
    BY <2>1, NoProgress
<1> QED
  BY <1>1, <1>2, <1>3, <1>4, <1>5, WhoMoves, Zenon

-----------------------------------------------------------------------------
(* The text of an analysis                                                 *)

\* A job whose text is there is not decided again; the reconciler may have put it back, and
\* an erasure may take it.
LEMMA SucceededStaysSo ==
    ASSUME TypeOK, OwnJobs, PurgedIsGone, Next, NEW r \in Runs, NEW k \in DOMAIN jobs[r],
           jobs[r][k].outcome \in Readable
    PROVE  k \in DOMAIN jobs'[r] /\ jobs'[r][k].outcome \in Readable
<1>1. ASSUME DOMAIN jobs'[r] = DOMAIN jobs[r] \cup {Len(jobs[r]) + 1},
             \A j \in DOMAIN jobs[r] : jobs'[r][j] = jobs[r][j]
      PROVE  k \in DOMAIN jobs'[r] /\ jobs'[r][k].outcome = jobs[r][k].outcome
  BY <1>1
<1>2. ASSUME NEW j \in DOMAIN jobs[r], JobDecided(r, j)
      PROVE  k \in DOMAIN jobs'[r] /\ jobs'[r][k].outcome = jobs[r][k].outcome
  BY <1>2 DEF JobDecided, DecidesOne, Readable, Elsewhere
<1>3. ASSUME NEW w \in Workers, PurgeDocument(w, r)
      PROVE  k \in DOMAIN jobs'[r] /\ jobs'[r][k].outcome \in Readable
  BY <1>3, PurgeDoes DEF Readable, Elsewhere
<1>4. CASE jobs'[r] = jobs[r]
  BY <1>4
<1>5. CASE jobs'[r] # jobs[r]
  BY <1>1, <1>2, <1>3, <1>5, JobsStep
<1> QED
  BY <1>4, <1>5

LEMMA AnalysisKept ==
    ASSUME TypeOK, OwnJobs, PurgedIsGone, AnalysisOfOwnText, Next
    PROVE  AnalysisOfOwnText'
<1>2. ASSUME NEW x
      PROVE  x \in Readable <=> x \in {"succeeded", "erased"} \/ (LongRuns /\ x = "requeued")
  BY DEF Readable, Elsewhere
<1> SUFFICES ASSUME NEW r \in Runs, NEW q \in DOMAIN requests'[r]
             PROVE  /\ requests'[r][q] \in DOMAIN jobs'[r]
                    /\ jobs'[r][requests'[r][q]].outcome \in Readable
  BY <1>2, Zenon DEF AnalysisOfOwnText
<1>1. PICK k \in DOMAIN jobs[r] :
         requests'[r][q] = k /\ jobs[r][k].outcome \in Readable
  <2>1. CASE requests'[r] = requests[r]
    BY <1>2, <2>1 DEF AnalysisOfOwnText
  <2>2. CASE requests'[r] # requests[r]
    <3>1. PICK w \in Workers : RecordRequest(w)
      BY <2>2, RequestsChange
    <3>2. PICK s \in Runs : s = at[w]
      BY <3>1, RecordRequestDoes
    <3>3. /\ pc[w] = "answered" /\ \A t \in Runs \ {s} : requests'[t] = requests[t]
          /\ DOMAIN requests'[s] = 1..(Len(requests[s]) + 1)
          /\ \A p \in DOMAIN requests[s] : requests'[s][p] = requests[s][p]
          /\ requests'[s][Len(requests[s]) + 1] = seen[w].ocrJob
          /\ DOMAIN requests[s] = 1..Len(requests[s]) /\ Len(requests[s]) \in Nat
      BY <3>1, <3>2, RecordRequestDoes, RequestsOf, Zenon
    <3>4. s = r /\ (q \in DOMAIN requests[r] \/ q = Len(requests[r]) + 1)
      BY <2>2, <3>3
    <3>5. CASE q \in DOMAIN requests[r]
      BY <1>2, <3>3, <3>4, <3>5 DEF AnalysisOfOwnText
    <3>6. CASE q = Len(requests[r]) + 1
      BY <3>2, <3>3, <3>4, <3>6 DEF OwnJobs, JobOf, WithJob, WithText
    <3> QED
      BY <3>4, <3>5, <3>6
  <2> QED
    BY <2>1, <2>2
<1> QED
  BY <1>1, SucceededStaysSo

-----------------------------------------------------------------------------
(* The theorems of any runs                                                *)

LEMMA InitBasis ==
    ASSUME Init
    PROVE  Basis
<1>1. TypeOK
  <2>1. RowsType /\ MessagesType
    BY InitialTypes, EmptySeq DEF Init, RowsType, MessagesType
  <2>2. "idle" \in PC /\ "none" \in Blame /\ 0 \in 0..MaxCrashes
    BY Bound DEF PC, Blame
  <2>3. TasksType
    BY <2>2, InitialTypes DEF Init, TasksType, TasksFit, Idle
  <2> QED
    BY <2>1, <2>2, <2>3 DEF Init, TypeOK
<1>2. OwnJobs /\ AllProgress
  BY DEF Init, OwnJobs, AllProgress, Progress, Marked, WithJob
<1>3. PurgedIsGone /\ AnalysisOfOwnText
  BY DEF Init, PurgedIsGone, AnalysisOfOwnText
<1> QED
  BY <1>1, <1>2, <1>3 DEF Basis

LEMMA BasisStutters ==
    ASSUME Basis, UNCHANGED vars
    PROVE  Basis'
<1>1. UNCHANGED <<taskVars, Stored, broken>>
  BY DEF vars, taskVars, Stored
<1>2. TypeOK'
  BY <1>1 DEF Basis, TypeOK, RowsType, MessagesType, TasksType, TasksFit, Idle, taskVars, Stored
<1>3. OwnJobs' /\ PurgedIsGone' /\ AllProgress' /\ AnalysisOfOwnText'
  BY <1>1, Zenon DEF Basis, OwnJobs, JobOf, PurgedIsGone, Exists, AllProgress, Progress,
     AnalysisOfOwnText, taskVars, Stored
<1> QED
  BY <1>2, <1>3 DEF Basis

\* The basis is inductive, however long a run takes.
THEOREM BasisInvariance == Spec => []Basis
<1>1. Init => Basis
  BY InitBasis
<1>2. ASSUME Basis, [Next]_vars
      PROVE  Basis'
  <2>1. CASE Next
    BY <1>2, <2>1, NextTyped, OwnJobsKept, PurgedIsGoneKept, AllProgressKept, AnalysisKept
    DEF Basis
  <2>2. CASE UNCHANGED vars
    BY <1>2, <2>2, BasisStutters
  <2> QED
    BY <1>2, <2>1, <2>2
<1> QED
  BY <1>1, <1>2, PTL DEF Spec

\* Every variable has its type, and what a worker holds fits what it is doing.
THEOREM TypeCorrect == Spec => []TypeOK
<1>1. Basis => TypeOK
  BY DEF Basis
<1> QED
  BY <1>1, BasisInvariance, PTL

\* After an erasure of its document no execution, however late, brings the row of a run
\* back, and no inner job is erased without its document.
THEOREM ErasureTakesRuns == Spec => []PurgedIsGone
<1>1. Basis => PurgedIsGone
  BY DEF Basis
<1> QED
  BY <1>1, BasisInvariance, PTL

\* The pipeline never pays for the analysis of text that was not recognized: each AI
\* request names an OCR job of its run that succeeded, or was erased since.  Where runs
\* may be long, two workers may execute the run, each with a job of its own; and the
\* reconciler may have put the job back under the worker inside it.
THEOREM OnlyOwnTextAnalysed == Spec => []AnalysisOfOwnText
<1>1. Basis => AnalysisOfOwnText
  BY DEF Basis
<1> QED
  BY <1>1, BasisInvariance, PTL

-----------------------------------------------------------------------------
(* Who has a run, and when                                                 *)

Solo == LongRuns = FALSE

LEMMA AtStays ==
    ASSUME NEW w \in Workers, Run(w), ~ Finish(w)
    PROVE  /\ at' = at /\ options' = options /\ unsent' = unsent /\ message' = message
           /\ crashes' = crashes
BY Zenon DEF Run, MarkRunning, Vanished, Preprocess, PreprocessFails, StageBreaks,
   CreateOcrJob, OcrOpensDocument, OcrSucceeds, OcrFails, OcrDecides, OcrRejected, CommitOcr,
   AnalysisFails, BreakOff, ProviderAnswers, RecordRequest, CommitAi, Persist,
   RecordFailure, StageRaises

LEMMA UnsentChange ==
    ASSUME Next, unsent' # unsent
    PROVE  \E r \in Runs : CreateRun(r) \/ EnqueueRun(r) \/ LoseEnqueue(r)
BY AtStays, Zenon DEF Next, SoftDelete, Reconcile, Deliver, SkipDelivery, PurgeDocument, Crash,
   LoseQueue, Finish

LEMMA MessageChange ==
    ASSUME Next, message' # message
    PROVE  \/ \E r \in Runs : EnqueueRun(r)
           \/ \E w \in Workers, r \in Runs : SkipDelivery(w, r)
           \/ \E w \in Workers : Finish(w)
           \/ LoseQueue
BY AtStays, Zenon DEF Next, CreateRun, LoseEnqueue, SoftDelete, Reconcile, Deliver,
   PurgeDocument, Crash

LEMMA CrashesChange ==
    ASSUME Next, crashes' # crashes
    PROVE  \E w \in Workers : Crash(w)
BY AtStays, Zenon DEF Next, CreateRun, EnqueueRun, LoseEnqueue, SoftDelete, Reconcile, Deliver,
   SkipDelivery, PurgeDocument, LoseQueue, Finish

\* A run is only ever announced by its creation.
LEMMA Announced ==
    ASSUME TypeOK, Next, NEW r \in Runs, r \in unsent', r \notin unsent
    PROVE  CreateRun(r)
<1>1. PICK s \in Runs : CreateRun(s) \/ EnqueueRun(s) \/ LoseEnqueue(s)
  BY UnsentChange
<1>2. CreateRun(s) /\ r = s
  BY <1>1 DEF CreateRun, EnqueueRun, LoseEnqueue
<1> QED
  BY <1>2

\* A message is only ever put there by its enqueueing.
LEMMA Enqueued ==
    ASSUME TypeOK, Next, NEW r \in Runs, message'[r] = TRUE, message[r] = FALSE
    PROVE  EnqueueRun(r)
<1>1. message \in [Runs -> BOOLEAN]
  BY DEF TypeOK, MessagesType
<1>2. ASSUME NEW s \in Runs, EnqueueRun(s)
      PROVE  EnqueueRun(r)
  <2>1. message' = [message EXCEPT ![s] = TRUE]
    BY <1>2 DEF EnqueueRun
  <2>2. r = s
    BY <1>1, <2>1
  <2> QED
    BY <1>2, <2>2
<1>3. ASSUME NEW s \in Runs \cup {NoRun}, message' = [message EXCEPT ![s] = FALSE]
      PROVE  FALSE
  BY <1>1, <1>3
<1>4. ASSUME NEW w \in Workers, Finish(w)
      PROVE  FALSE
  <2>1. PICK s \in Runs : s = at[w]
    BY <1>4, Task DEF Finish
  <2>2. message' = [message EXCEPT ![s] = FALSE]
    BY <1>4, <2>1 DEF Finish
  <2> QED
    BY <1>3, <2>2
<1>5. ASSUME NEW w \in Workers, NEW s \in Runs, SkipDelivery(w, s)
      PROVE  FALSE
  BY <1>3, <1>5 DEF SkipDelivery
<1>6. ~ LoseQueue
  BY DEF LoseQueue
<1> QED
  BY <1>2, <1>4, <1>5, <1>6, MessageChange

\* A worker gets a run by its message only.
LEMMA Taken ==
    ASSUME TypeOK, OwnJobs, Next, NEW w \in Workers, NEW r \in Runs, at'[w] = r, at[w] # r
    PROVE  Deliver(w, r)
<1>1. ~ (UNCHANGED taskVars)
  BY DEF taskVars
<1>2. PICK v \in Workers :
         Others(v) /\ (Run(v) \/ Crash(v) \/ \E s \in Runs : Deliver(v, s))
  BY <1>1, WhoMoves
<1>3. v = w
  BY <1>2 DEF Others
<1>4. ~ Run(w) /\ ~ Crash(w)
  <2>1. ASSUME EndTask(w)
        PROVE  FALSE
    BY <2>1, EndTaskDoes, Bound
  <2> QED
    BY <2>1, AtStays DEF Finish, Crash
<1>5. PICK s \in Runs : Deliver(w, s)
  BY <1>2, <1>3, <1>4
<1>6. s = r
  BY <1>5, DeliverDoes
<1> QED
  BY <1>5, <1>6

\* A worker lets its run go when it has ended it, or dies.
LEMMA LetGo ==
    ASSUME TypeOK, OwnJobs, Next, NEW w \in Workers, NEW r \in Runs, at[w] = r, at'[w] # r
    PROVE  Finish(w) \/ Crash(w)
<1>1. ~ (UNCHANGED taskVars)
  BY DEF taskVars
<1>2. PICK v \in Workers :
         Others(v) /\ (Run(v) \/ Crash(v) \/ \E s \in Runs : Deliver(v, s))
  BY <1>1, WhoMoves
<1>3. v = w
  BY <1>2 DEF Others
<1>4. ~ \E s \in Runs : Deliver(w, s)
  BY Bound, Task, DeliverDoes
<1>5. CASE Run(w)
  BY <1>5, AtStays
<1> QED
  BY <1>2, <1>3, <1>4, <1>5

LEMMA FreeIsNobody ==
    ASSUME Solo, NEW r \in Runs, Free(r)
    PROVE  Nobody(r)
BY DEF Solo, Free, Nobody

LEMMA OneWorkerKept ==
    ASSUME Solo, TypeOK, OwnJobs, OneWorker, Next
    PROVE  OneWorker'
<1> SUFFICES ASSUME NEW v \in Workers, NEW w \in Workers, at'[v] = at'[w], at'[v] # NoRun, v # w
             PROVE  FALSE
  BY Zenon DEF OneWorker
<1>1. TypeOK'
  BY NextTyped
<1>2. PICK r \in Runs : r = at'[v]
  BY <1>1 DEF TypeOK, TasksType
<1>3. ASSUME NEW x \in Workers, NEW y \in Workers, x # y, at'[x] = r, at'[y] = r, at[x] # r
      PROVE  FALSE
  <2>1. Deliver(x, r)
    BY <1>3, Taken
  <2>2. Others(x) /\ Free(r)
    BY <2>1, DeliverDoes
  <2>3. at'[y] = at[y] /\ Nobody(r)
    BY <1>3, <2>2, FreeIsNobody DEF Others
  <2> QED
    BY <1>3, <2>3 DEF Nobody
<1>4. at[v] = r /\ at[w] = r
  BY <1>2, <1>3
<1> QED
  BY <1>4, Bound DEF OneWorker

-----------------------------------------------------------------------------
(* What the row says, and what the session of its worker holds             *)

Alone == TypeOK /\ OwnJobs /\ PurgedIsGone /\ AllProgress /\ OneWorker /\ NotBefore /\ AllSessions

\* A row that changes is created, erased, or written by the worker that has it, which from
\* then on holds what the row says.
LEMMA RowChanges ==
    ASSUME Alone, Next, NEW r \in Runs, row'[r] # row[r]
    PROVE  \/ CreateRun(r)
           \/ \E w \in Workers : PurgeDocument(w, r)
           \/ \E w \in Workers :
                 /\ at[w] = r /\ at'[w] = r /\ Exists(r)
                 /\ pc[w] \notin {"idle", "done"} /\ seen[w].status # "succeeded"
                 /\ Others(w) /\ SameRows(row'[r], seen'[w]) /\ docs' = docs
                 /\ \/ Persist(w) \/ RecordFailure(w)
                    \/ seen'[w].status = "running"
<1>1. row' # row
  OBVIOUS
<1>2. TypeOK /\ OwnJobs /\ PurgedIsGone /\ AllProgress /\ NotBefore /\ AllSessions
  BY DEF Alone
<1>3. ASSUME NEW s \in Runs, CreateRun(s)
      PROVE  CreateRun(r)
  <2>1. row' = [row EXCEPT ![s] = QueuedRow] /\ row \in [Runs -> Row]
    BY <1>2, <1>3 DEF CreateRun, TypeOK, RowsType
  <2>2. r = s
    BY <2>1
  <2> QED
    BY <1>3, <2>2
<1>4. ASSUME NEW w \in Workers, NEW s \in Runs, PurgeDocument(w, s)
      PROVE  PurgeDocument(w, r)
  <2>1. r = s
    BY <1>2, <1>4, PurgeDoes
  <2> QED
    BY <1>4, <2>1
<1>5. ASSUME NEW w \in Workers,
             \/ MarkRunning(w) \/ Preprocess(w) \/ CreateOcrJob(w)
             \/ CommitOcr(w) \/ CommitAi(w) \/ Persist(w) \/ RecordFailure(w)
      PROVE  /\ at[w] = r /\ at'[w] = r /\ Exists(r)
             /\ pc[w] \notin {"idle", "done"} /\ seen[w].status # "succeeded"
             /\ Others(w) /\ SameRows(row'[r], seen'[w]) /\ docs' = docs
             /\ \/ Persist(w) \/ RecordFailure(w)
                \/ seen'[w].status = "running"
  <2>1. /\ at[w] \in Runs /\ at' = at /\ Others(w) /\ docs' = docs
        /\ \A s \in Runs \ {at[w]} : row'[s] = row[s]
        /\ Exists(at[w]) \/ docs[at[w]] = "live"
        /\ SameRows(row[at[w]], seen[w]) => SameRows(row'[at[w]], seen'[w])
    <3>1. ASSUME NEW label, Commits(w, label)
          PROVE  /\ at' = at /\ Others(w) /\ docs' = docs
                 /\ \A s \in Runs \ {at[w]} : row'[s] = row[s]
                 /\ SameRows(row[at[w]], seen[w]) => SameRows(row'[at[w]], seen'[w])
      <4>1. docs' = docs
        BY <3>1 DEF Commits
      <4> QED
        BY <3>1, <4>1, Zenon DEF Commits, Moves
    <3>2. CASE CreateOcrJob(w)
      <4>1. docs' = docs
        BY <1>2, <3>2, CreateOcrJobDoes
      <4> QED
        BY <1>2, <3>2, <4>1, CreateOcrJobDoes, Zenon DEF Moves
    <3>3. CASE ~ CreateOcrJob(w)
      <4>1. /\ at[w] \in Runs /\ (Exists(at[w]) \/ docs[at[w]] = "live")
            /\ \E label \in PC : Commits(w, label)
        <5>1. /\ "preprocess" \in PC /\ "ocr" \in PC /\ "ai_analyze" \in PC
              /\ "persist" \in PC /\ "done" \in PC
          BY DEF PC
        <5> QED
          BY <1>2, <1>5, <3>3, <5>1, MarkRunningDoes, PreprocessDoes, CommitOcrDoes, CommitAiDoes,
             PersistStageDoes, RecordFailureDoes, Zenon
      <4> QED
        BY <3>1, <4>1, Zenon
    <3> QED
      BY <3>2, <3>3
  <2>2. pc[w] \in {"loaded", "preprocess", "ocr", "recognized", "analyzed", "persist", "failing"}
    BY <1>5 DEF MarkRunning, Preprocess, CreateOcrJob, CommitOcr, CommitAi, Persist, RecordFailure
  <2>3. at[w] = r
    BY <2>1
  <2>4. Exists(r)
    <3>1. CASE docs[r] = "live"
      <4>1. ~ Nobody(r) /\ docs[r] # "purged"
        BY <2>3, <3>1 DEF Nobody
      <4> QED
        BY <1>2, <4>1 DEF NotBefore, Exists
    <3> QED
      BY <2>1, <2>3, <3>1
  <2>5. SameRows(row'[r], seen'[w])
    BY <1>2, <2>1, <2>2, <2>3, <2>4 DEF AllSessions, Session
  <2>6. seen[w].status # "succeeded"
    <3>1. CASE pc[w] \in {"loaded", "failing"}
      BY <1>2, <3>1 DEF AllSessions, Session
    <3>2. CASE pc[w] \in {"preprocess", "ocr", "recognized", "analyzed", "persist"}
      BY <1>2, <3>2, Behind
    <3> QED
      BY <2>2, <3>1, <3>2
  <2>7. Persist(w) \/ RecordFailure(w) \/ seen'[w].status = "running"
    <3>1. CASE MarkRunning(w)
      BY <1>2, <3>1, MarkRunningDoes
    <3>2. CASE Preprocess(w)
      BY <1>2, <3>2, PreprocessDoes, Behind
    <3>3. CASE CreateOcrJob(w)
      <4>1. pc[w] = "ocr" /\ seen'[w].status = seen[w].status
        BY <1>2, <3>3, CreateOcrJobDoes, Zenon
      <4> QED
        BY <1>2, <4>1, Behind
    <3>4. CASE CommitOcr(w)
      BY <1>2, <3>4, CommitOcrDoes, Behind
    <3>5. CASE CommitAi(w)
      BY <1>2, <3>5, CommitAiDoes, Behind
    <3> QED
      BY <1>5, <3>1, <3>2, <3>3, <3>4, <3>5
  <2>8. at'[w] = r /\ pc[w] \notin {"idle", "done"}
    BY <2>1, <2>2, <2>3
  <2> QED
    BY <2>1, <2>3, <2>4, <2>5, <2>6, <2>7, <2>8, Zenon
<1> QED
  BY <1>1, <1>3, <1>4, <1>5, RowsChange, Zenon

\* A row does not disappear but by an erasure.
LEMMA RowsStay ==
    ASSUME Alone, Next, NEW r \in Runs, Exists(r) \/ docs[r] = "purged"
    PROVE  row'[r].status # "absent" \/ docs'[r] = "purged"
<1>1. CASE row'[r] = row[r]
  <2>1. CASE Exists(r)
    BY <1>1, <2>1 DEF Exists
  <2>2. CASE docs[r] = "purged"
    <3>1. ASSUME NEW s \in Runs, SoftDelete(s)
          PROVE  docs'[r] = "purged"
      BY <2>2, <3>1 DEF SoftDelete, Alone, TypeOK, RowsType
    <3>2. ASSUME NEW w \in Workers, NEW s \in Runs, PurgeDocument(w, s)
          PROVE  docs'[r] = "purged"
      BY <2>2, <3>2, PurgeDoes DEF Alone
    <3> QED
      BY <2>2, <3>1, <3>2, DocsChange
  <2> QED
    BY <2>1, <2>2
<1>2. CASE row'[r] # row[r]
  <2>1. CASE CreateRun(r)
    BY <2>1, InitialTypes DEF CreateRun, Alone, TypeOK, RowsType
  <2>2. CASE \E w \in Workers : PurgeDocument(w, r)
    BY <2>2, PurgeDoes DEF Alone
  <2>3. ASSUME NEW w \in Workers, SameRows(row'[r], seen'[w]),
               Persist(w) \/ RecordFailure(w) \/ seen'[w].status = "running"
        PROVE  row'[r].status # "absent"
    <3>1. seen'[w].status \in {"running", "succeeded", "failed"}
      BY <2>3, PersistStageDoes, RecordFailureDoes DEF Alone
    <3> QED
      BY <2>3, <3>1 DEF SameRows
  <2> QED
    BY <1>2, <2>1, <2>2, <2>3, RowChanges
<1> QED
  BY <1>1, <1>2


LEMMA NotBeforeKept ==
    ASSUME Alone, Next
    PROVE  NotBefore'
<1>1. TypeOK /\ OwnJobs /\ NotBefore /\ TypeOK'
  BY NextTyped DEF Alone
<1>2. ASSUME NEW r \in Runs, message[r] = FALSE, Nobody(r), NEW w \in Workers
      PROVE  at'[w] # r
  <2>1. CASE at'[w] = r
    <3>1. Deliver(w, r)
      BY <1>1, <1>2, <2>1, Taken DEF Nobody
    <3> QED
      BY <1>1, <1>2, <3>1, DeliverDoes
  <2> QED
    BY <2>1
<1>3. ASSUME NEW r \in Runs, message[r] = FALSE, ~ EnqueueRun(r)
      PROVE  message'[r] = FALSE
  BY <1>1, <1>3, Enqueued DEF TypeOK, MessagesType
<1>4. ASSUME NEW r \in Runs, row'[r].status = "absent", docs'[r] # "purged"
      PROVE  (\A w \in Workers : at'[w] # r) /\ r \notin unsent' /\ message'[r] = FALSE
  <2>1. row[r].status = "absent" /\ docs[r] # "purged"
    BY <1>4, RowsStay DEF Exists
  <2>2. Nobody(r) /\ r \notin unsent /\ message[r] = FALSE
    BY <1>1, <2>1 DEF NotBefore
  <2>3. ~ CreateRun(r)
    BY <1>1, <1>4, InitialTypes DEF CreateRun, TypeOK, RowsType
  <2>4. r \notin unsent'
    BY <1>1, <2>2, <2>3, Announced
  <2>5. ~ EnqueueRun(r)
    BY <2>2 DEF EnqueueRun
  <2> QED
    BY <1>2, <1>3, <2>2, <2>4, <2>5
<1>5. ASSUME NEW r \in Runs, r \in unsent'
      PROVE  (\A w \in Workers : at'[w] # r) /\ message'[r] = FALSE
  <2>1. ~ EnqueueRun(r)
    BY <1>5 DEF EnqueueRun
  <2>2. Nobody(r) /\ message[r] = FALSE
    <3>1. CASE r \in unsent
      BY <1>1, <3>1 DEF NotBefore
    <3>2. CASE r \notin unsent
      <4>1. row[r].status = "absent" /\ docs[r] # "purged"
        BY <1>1, <1>5, <3>2, Announced DEF CreateRun
      <4> QED
        BY <1>1, <4>1 DEF NotBefore
    <3> QED
      BY <3>1, <3>2
  <2> QED
    BY <1>2, <1>3, <2>1, <2>2
<1> QED
  BY <1>4, <1>5, Zenon DEF NotBefore, Nobody

\* Nothing is claimed of the session of a worker that has none.
LEMMA NoSession ==
    ASSUME NEW w \in Workers, pc'[w] \in {"idle", "done"}
    PROVE  Session(w)'
BY DEF Session

\* A session stays as good as it was while its worker only computes.
LEMMA HeldSession ==
    ASSUME AllSessions, NEW w \in Workers, row' = row, at' = at, Holds(w),
           pc[w] \notin {"idle", "loaded", "analyzed", "failing", "done"},
           pc'[w] \notin {"idle", "loaded", "failing", "done"}
    PROVE  Session(w)'
<1>1. /\ Exists(at[w]) => SameRows(row[at[w]], seen[w])
      /\ SameLists(stages[w], seen[w].stages)
  BY DEF AllSessions, Session
<1>2. /\ row'[at'[w]] = row[at[w]] /\ seen'[w] = seen[w] /\ stages'[w] = stages[w]
  BY DEF Holds
<1> QED
  BY <1>1, <1>2 DEF Session, Exists

\* After a commit the session holds what the row says.
LEMMA CommittedSession ==
    ASSUME Alone, NEW w \in Workers, at[w] \in Runs, NEW label \in PC, Commits(w, label),
           label \notin {"idle", "loaded", "failing"},
           Exists(at[w]), pc[w] \notin {"idle", "done"},
           label # "done" => SameLists(stages'[w], seen'[w].stages)
    PROVE  Session(w)'
<1>1. SameRows(row[at[w]], seen[w])
  BY DEF Alone, AllSessions, Session
<1>2. SameRows(row'[at[w]], seen'[w]) /\ pc'[w] = label /\ at'[w] = at[w]
  BY <1>1 DEF Commits, Moves
<1> QED
  BY <1>2 DEF Session

\* A failure is recorded for a stage whose predecessors the row shows as succeeded.
LEMMA RaisedSession ==
    ASSUME Alone, NEW w \in Workers, Raising(w)
    PROVE  Session(w)'
<1>1. /\ at[w] \in Runs /\ UNCHANGED Stored
      /\ \/ pc[w] = "preprocess" /\ Raises(w, "preprocess")
         \/ pc[w] = "rejected" /\ Raises(w, "ocr")
         \/ pc[w] = "ai_analyze" /\ Raises(w, "ai_analyze")
         \/ pc[w] \in InTry /\ Raises(w, "unexpected")
  BY RaisingDoes DEF Alone
<1>2. PICK who \in Whom :
         /\ Raises(w, who)
         /\ \/ pc[w] = "preprocess" /\ who = "preprocess"
            \/ pc[w] = "rejected" /\ who = "ocr"
            \/ pc[w] = "ai_analyze" /\ who = "ai_analyze"
            \/ pc[w] \in InTry /\ who = "unexpected"
  BY <1>1 DEF Whom, StageNames
<1>3. CASE Moves(w, "done")
  BY <1>3, NoSession DEF Moves
<1>4. CASE ~ Moves(w, "done")
  <2>1. PICK r \in Runs : r = at[w]
    BY <1>1
  <2>2. /\ Moves(w, "failing") /\ Exists(r) /\ seen'[w] = row[r] /\ blame'[w] = who
        /\ stages'[w].at[FailedStage(who)] = "failed"
        /\ \A s \in StageNames \ {FailedStage(who)} :
              /\ stages'[w].at[s] = row[r].stages.at[s]
              /\ stages'[w].ref[s] = row[r].stages.ref[s]
    BY <1>2, <1>4, <2>1, Zenon DEF Raises
  <2>3. /\ SameRows(row[r], seen[w])
        /\ who # "unexpected" => SameLists(stages[w], seen[w].stages)
    BY <1>2, <2>1, <2>2 DEF Alone, AllSessions, Session, InTry
  <2>4. /\ row[r].status = "running"
        /\ who # "unexpected" =>
               \A s \in StageNames : /\ row[r].stages.at[s] = stages[w].at[s]
                                     /\ row[r].stages.ref[s] = stages[w].ref[s]
    <3>1. seen[w].status = "running"
      BY <1>2, Behind DEF Alone, InTry
    <3> QED
      BY <2>3, <3>1 DEF SameRows, SameLists
  <2>5. /\ pc[w] \in {"rejected", "ai_analyze"}
               => stages[w].at["preprocess"] = "succeeded" /\ stages[w].ref["preprocess"] # NoRef
        /\ pc[w] = "ai_analyze"
               => stages[w].at["ocr"] = "succeeded" /\ stages[w].ref["ocr"] # NoRef
    <3>1. pc[w] = "ai_analyze" => seen[w].ocrJob # NoRef
      <4>1. pc[w] = "ai_analyze" => seen[w].ocrJob \in DOMAIN jobs[r]
        BY <2>1 DEF Alone, OwnJobs, WithJob
      <4>2. DOMAIN jobs[r] = 1..Len(jobs[r]) /\ Len(jobs[r]) \in Nat
        BY JobsOf DEF Alone
      <4> QED
        BY <4>1, <4>2 DEF NoRef
    <3> QED
      BY <3>1, Behind DEF Alone
  <2>6. ASSUME who \in StageNames, NEW p \in Prior[who]
        PROVE  stages'[w].at[p] = "succeeded" /\ stages'[w].ref[p] # NoRef
    <3>1. FailedStage(who) = who /\ who # "unexpected"
      BY <2>6 DEF FailedStage, StageNames
    <3>2. CASE who = "preprocess"
      BY <2>6, <3>2 DEF Prior
    <3>3. CASE who = "ocr"
      <4>1. p = "preprocess" /\ pc[w] = "rejected"
        BY <1>2, <2>6, <3>3 DEF Prior
      <4> QED
        BY <2>2, <2>4, <2>5, <3>1, <3>3, <4>1 DEF StageNames
    <3>4. CASE who = "ai_analyze"
      <4>1. p \in {"preprocess", "ocr"} /\ pc[w] = "ai_analyze"
        BY <1>2, <2>6, <3>4 DEF Prior
      <4> QED
        BY <2>2, <2>4, <2>5, <3>1, <3>4, <4>1 DEF StageNames
    <3>5. who \in {"preprocess", "ocr", "ai_analyze"}
      BY <1>2, <2>6 DEF StageNames
    <3> QED
      BY <3>2, <3>3, <3>4, <3>5
  <2>7. who \in StageNames => Failed(stages'[w], who)
    BY <2>2, <2>6 DEF Failed, FailedStage, StageNames
  <2>8. /\ pc'[w] = "failing" /\ row'[at'[w]] = row[r] /\ SameRows(row[r], row[r])
    BY <1>1, <2>1, <2>2 DEF Moves, Stored, SameRows, SameLists
  <2> QED
    BY <2>2, <2>4, <2>7, <2>8 DEF Session
<1> QED
  BY <1>3, <1>4


LEMMA RunSession ==
    ASSUME Alone, NEW w \in Workers, Run(w)
    PROVE  Session(w)'
<1>1. TypeOK /\ OwnJobs /\ NotBefore /\ AllSessions
  BY DEF Alone
<1>2. /\ "preprocess" \in PC /\ "ocr" \in PC /\ "ai_analyze" \in PC /\ "persist" \in PC
  BY DEF PC
<1>3. \A s \in Stages : SameLists(s, s)
  BY DEF SameLists
<1>4. CASE MarkRunning(w)
  <2>1. /\ pc[w] = "loaded" /\ at[w] \in Runs /\ Exists(at[w]) /\ Commits(w, "preprocess")
        /\ stages'[w] = stages[w] /\ seen'[w].stages = seen[w].stages
    BY <1>1, <1>4, MarkRunningDoes, Zenon
  <2>2. SameLists(stages'[w], seen'[w].stages)
    BY <1>1, <2>1 DEF AllSessions, Session
  <2> QED
    BY <1>2, <2>1, <2>2, CommittedSession
<1>5. CASE Preprocess(w)
  <2>1. /\ pc[w] = "preprocess" /\ at[w] \in Runs /\ docs[at[w]] = "live" /\ Commits(w, "ocr")
        /\ seen'[w].stages = stages'[w]
    BY <1>1, <1>5, PreprocessDoes, Zenon
  <2>2. Exists(at[w])
    BY <1>1, <2>1 DEF NotBefore, Nobody, Exists
  <2> QED
    BY <1>2, <2>1, <2>2, CommittedSession DEF SameLists
<1>6. CASE CreateOcrJob(w)
  <2>1. /\ pc[w] = "ocr" /\ Exists(at[w]) /\ stages'[w] = stages[w]
        /\ SameRows(row[at[w]], seen[w]) => SameRows(row'[at[w]], seen'[w])
        /\ seen'[w].stages = seen[w].stages
        /\ pc'[w] = "recognizing" /\ at'[w] = at[w]
    BY <1>1, <1>6, CreateOcrJobDoes, Zenon DEF Moves
  <2> QED
    BY <1>1, <2>1 DEF AllSessions, Session
<1>7. CASE OcrOpensDocument(w)
  <2>1. /\ pc[w] = "recognizing" /\ pc'[w] = "extracting" /\ Holds(w)
        /\ at' = at /\ row' = row
    BY <1>1, <1>7, OcrOpensDoes DEF Moves, Stored
  <2> QED
    BY <1>1, <2>1, HeldSession
<1>8. CASE OcrSucceeds(w) \/ OcrFails(w)
  <2>1. seen[w].ocrJob \in DOMAIN jobs[at[w]]
    BY <1>1, <1>8 DEF OwnJobs, WithJob, OcrSucceeds, OcrFails
  <2>2. /\ pc[w] \in {"recognizing", "extracting"} /\ pc'[w] \in {"recognized", "rejected"}
        /\ Holds(w) /\ at' = at /\ row' = row
    BY <1>1, <1>8, <2>1, OcrDecidesDoes DEF Moves
  <2> QED
    BY <1>1, <2>2, HeldSession
<1>9. CASE CommitOcr(w)
  <2>1. /\ pc[w] = "recognized" /\ at[w] \in Runs /\ Exists(at[w]) /\ Commits(w, "ai_analyze")
        /\ seen'[w].stages = stages'[w]
    BY <1>1, <1>9, CommitOcrDoes, Zenon
  <2> QED
    BY <1>2, <2>1, CommittedSession DEF SameLists
<1>10. CASE ProviderAnswers(w)
  <2>1. /\ pc[w] = "ai_analyze" /\ pc'[w] = "answered" /\ Holds(w) /\ at' = at /\ row' = row
    BY <1>1, <1>10, ProviderAnswersDoes DEF Moves
  <2> QED
    BY <1>1, <2>1, HeldSession
<1>11. CASE RecordRequest(w)
  <2>1. /\ pc[w] = "answered" /\ pc'[w] = "analyzed" /\ seen'[w] = seen[w] /\ at' = at
        /\ row' = row
    BY <1>1, <1>11, RecordRequestDoes DEF Moves
  <2> QED
    BY <1>1, <2>1 DEF AllSessions, Session, Exists
<1>12. CASE CommitAi(w)
  <2>1. /\ pc[w] = "analyzed" /\ at[w] \in Runs /\ Exists(at[w]) /\ Commits(w, "persist")
        /\ seen'[w].stages = stages'[w]
    BY <1>1, <1>12, CommitAiDoes, Zenon
  <2> QED
    BY <1>2, <2>1, CommittedSession DEF SameLists
<1>13. CASE Leaving(w) \/ Persist(w) \/ RecordFailure(w)
  <2>1. pc'[w] = "done"
    BY <1>1, <1>13, LeavingDoes, PersistStageDoes, RecordFailureDoes, Zenon DEF Commits, Moves
  <2> QED
    BY <2>1, NoSession
<1>14. CASE Finish(w)
  BY <1>1, <1>14, EndTaskDoes, NoSession DEF Finish
<1>15. CASE Raising(w)
  BY <1>15, RaisedSession
<1> QED
  BY <1>4, <1>5, <1>6, <1>7, <1>8, <1>9, <1>10, <1>11, <1>12, <1>13, <1>14, <1>15
  DEF Run, Raising, Leaving

\* A worker that does not move keeps its session: nobody else writes its run's row.
LEMMA StillSession ==
    ASSUME Alone, Next, NEW v \in Workers, pc'[v] = pc[v], at'[v] = at[v], seen'[v] = seen[v],
           stages'[v] = stages[v], blame'[v] = blame[v]
    PROVE  Session(v)'
<1>1. CASE pc[v] \in {"idle", "done"}
  BY <1>1, NoSession
<1>2. CASE pc[v] \notin {"idle", "done"}
  <2>1. at[v] \in Runs
    BY <1>2, Task DEF Alone
  <2>2. PICK r \in Runs : r = at[v]
    BY <2>1
  <2>3. row'[r].status # "absent" => SameRows(row'[r], seen'[v])
    <3>1. CASE row'[r] = row[r]
      BY <1>2, <2>2, <3>1 DEF Alone, AllSessions, Session, Exists
    <3>2. CASE row'[r] # row[r]
      <4>1. ~ CreateRun(r)
        <5>1. ~ Nobody(r)
          BY <2>2 DEF Nobody
        <5> QED
          BY <5>1 DEF Alone, NotBefore, CreateRun
      <4>2. ASSUME NEW w \in Workers, PurgeDocument(w, r)
            PROVE  row'[r].status = "absent"
        BY <4>2, PurgeDoes, InitialTypes DEF Alone
      <4>3. ASSUME NEW w \in Workers, at[w] = r, SameRows(row'[r], seen'[w])
            PROVE  SameRows(row'[r], seen'[v])
        <5>1. v = w
          BY <2>2, <4>3, Bound DEF Alone, OneWorker
        <5> QED
          BY <4>3, <5>1
      <4> QED
        BY <3>2, <4>1, <4>2, <4>3, RowChanges, Zenon
    <3> QED
      BY <3>1, <3>2
  <2>4. /\ pc[v] \notin {"idle", "analyzed", "failing", "done"} =>
               SameLists(stages[v], seen[v].stages)
        /\ pc[v] = "loaded" => seen[v].status # "succeeded"
        /\ pc[v] = "failing" =>
               /\ seen[v].status = "running"
               /\ blame[v] \in StageNames => Failed(stages[v], blame[v])
    BY DEF Alone, AllSessions, Session
  <2>5. row'[at'[v]].status # "absent" => SameRows(row'[at'[v]], seen'[v])
    BY <2>2, <2>3
  <2> QED
    BY <2>4, <2>5 DEF Session, Exists
<1> QED
  BY <1>1, <1>2

LEMMA AllSessionsKept ==
    ASSUME Alone, Next
    PROVE  AllSessions'
<1> SUFFICES ASSUME NEW v \in Workers
             PROVE  Session(v)'
  BY Zenon DEF AllSessions
<1>1. TypeOK /\ OwnJobs
  BY DEF Alone
<1>2. CASE UNCHANGED taskVars
  BY <1>2, StillSession DEF taskVars
<1>3. ASSUME NEW w \in Workers, Others(w), v # w
      PROVE  Session(v)'
  BY <1>3, StillSession DEF Others
<1>4. CASE Run(v)
  BY <1>4, RunSession
<1>5. CASE Crash(v)
  BY <1>1, <1>5, EndTaskDoes, NoSession DEF Crash
<1>6. ASSUME NEW r \in Runs, Deliver(v, r)
      PROVE  Session(v)'
  <2>1. /\ row[r].status \notin Returned /\ row' = row
        /\ pc'[v] = "loaded" /\ at'[v] = r /\ seen'[v] = row[r] /\ stages'[v] = row[r].stages
    BY <1>1, <1>6, DeliverDoes DEF Stored
  <2>2. /\ row'[at'[v]] = row[r] /\ SameRows(row[r], row[r])
        /\ SameLists(row[r].stages, row[r].stages) /\ row[r].status # "succeeded"
    BY <2>1 DEF SameRows, SameLists, Returned
  <2> QED
    BY <2>1, <2>2 DEF Session
<1> QED
  BY <1>1, <1>2, <1>3, <1>4, <1>5, <1>6, WhoMoves, Zenon


-----------------------------------------------------------------------------
(* Nobody comes back to an earlier point of a run, but after a crash       *)

\* Where a step takes a worker.
LEMMA Steps ==
    ASSUME TypeOK, OwnJobs, NEW w \in Workers, Run(w)
    PROVE  \/ Finish(w)
           \/ pc'[w] \in {"failing", "done"}
           \/ pc[w] = "loaded" /\ pc'[w] = "preprocess"
           \/ pc[w] = "preprocess" /\ pc'[w] = "ocr"
           \/ pc[w] = "ocr" /\ pc'[w] = "recognizing"
           \/ pc[w] = "recognizing" /\ pc'[w] = "extracting"
           \/ pc[w] \in {"recognizing", "extracting"} /\ pc'[w] \in {"recognized", "rejected"}
           \/ pc[w] = "recognized" /\ pc'[w] = "ai_analyze"
           \/ pc[w] = "ai_analyze" /\ pc'[w] = "answered"
           \/ pc[w] = "answered" /\ pc'[w] = "analyzed"
           \/ pc[w] = "analyzed" /\ pc'[w] = "persist"
<1>1. CASE MarkRunning(w) \/ Preprocess(w) \/ CommitOcr(w) \/ CommitAi(w) \/ Persist(w)
               \/ RecordFailure(w)
  BY <1>1, MarkRunningDoes, PreprocessDoes, CommitOcrDoes, CommitAiDoes, PersistStageDoes,
     RecordFailureDoes DEF Commits, Moves
<1>2. CASE Leaving(w) \/ OcrOpensDocument(w)
  BY <1>2, LeavingDoes, OcrOpensDoes DEF Moves
<1>3. CASE CreateOcrJob(w)
  BY <1>3, CreateOcrJobDoes, Zenon DEF Moves
<1>4. CASE OcrSucceeds(w) \/ OcrFails(w)
  <2>1. seen[w].ocrJob \in DOMAIN jobs[at[w]]
    BY <1>4 DEF OwnJobs, WithJob, OcrSucceeds, OcrFails
  <2> QED
    BY <1>4, <2>1, OcrDecidesDoes DEF Moves
<1>5. CASE ProviderAnswers(w)
  BY <1>5, ProviderAnswersDoes, Zenon DEF Moves
<1>6. CASE RecordRequest(w)
  BY <1>6, RecordRequestDoes, Zenon DEF Moves
<1>7. CASE Raising(w)
  <2>1. \E who \in Whom : Raises(w, who)
    BY <1>7, RaisingDoes DEF Whom, StageNames
  <2> QED
    BY <2>1 DEF Raises, Moves
<1> QED
  BY <1>1, <1>2, <1>3, <1>4, <1>5, <1>6, <1>7 DEF Run, Raising, Leaving

\* A set of points that is left only by the end of the run.
Lasting(X) ==
    \A w \in Workers : pc[w] \in X => pc'[w] \in X \/ Finish(w) \/ Crash(w)

Asked == WithJob \cup Paid

LEMMA PaidLasts ==
    ASSUME Alone, Next
    PROVE  Lasting(Paid) /\ Lasting(Asked)
<1>1. ASSUME NEW w \in Workers, Run(w), ~ Finish(w)
      PROVE  (pc[w] \in Paid => pc'[w] \in Paid) /\ (pc[w] \in Asked => pc'[w] \in Asked)
  BY <1>1, Steps DEF Alone, Paid, Asked, WithJob
<1>2. ASSUME NEW w \in Workers, NEW v \in Workers, Others(v), v # w
      PROVE  pc'[w] = pc[w]
  BY <1>2 DEF Others
<1>3. ASSUME NEW w \in Workers, NEW r \in Runs, Deliver(w, r)
      PROVE  pc[w] \notin Paid /\ pc[w] \notin Asked
  BY <1>3 DEF Deliver, Idle, Paid, Asked, WithJob
<1>4. CASE UNCHANGED taskVars
  BY <1>4 DEF taskVars, Lasting
<1>5. ASSUME NEW v \in Workers,
             Others(v) /\ (Run(v) \/ Crash(v) \/ \E r \in Runs : Deliver(v, r))
      PROVE  Lasting(Paid) /\ Lasting(Asked)
  BY <1>1, <1>2, <1>3, <1>5 DEF Lasting
<1> QED
  BY <1>4, <1>5, WhoMoves DEF Alone

LEMMA PastStays ==
    ASSUME Solo, Alone, Next, crashes' = crashes, NEW r \in Runs, NEW X, Past(r, X), Lasting(X)
    PROVE  Past(r, X)'
<1>1. TypeOK /\ OwnJobs /\ OneWorker /\ NotBefore
  BY DEF Alone
<1>2. TypeOK' /\ OneWorker'
  BY <1>1, NextTyped, OneWorkerKept
<1>3. ASSUME NEW w \in Workers, Crash(w)
      PROVE  FALSE
  BY <1>1, <1>3, Bound DEF Crash, TypeOK
<1>4. CASE \E w \in Workers : at[w] = r /\ pc[w] \in X
  <2>1. PICK w \in Workers : at[w] = r /\ pc[w] \in X
    BY <1>4
  <2>2. Exists(r) \/ docs[r] = "purged"
    BY <1>1, <2>1 DEF NotBefore, Nobody, Exists
  <2>3. CASE Finish(w)
    <3>1. message' = [message EXCEPT ![r] = FALSE] /\ unsent' = unsent
          /\ at'[w] = NoRun /\ Others(w)
      BY <1>1, <2>1, <2>3, EndTaskDoes DEF Finish
    <3>2. message'[r] = FALSE /\ r \notin unsent'
      BY <1>1, <2>1, <3>1 DEF TypeOK, MessagesType, NotBefore, Nobody
    <3>3. \A v \in Workers : at'[v] # r
      <4> TAKE v \in Workers
      <4>1. CASE v = w
        BY <3>1, <4>1, Bound
      <4>2. CASE v # w
        BY <1>1, <2>1, <3>1, <4>2, Bound DEF Others, OneWorker
      <4> QED
        BY <4>1, <4>2
    <3>4. row'[r].status # "absent" \/ docs'[r] = "purged"
      BY <2>2, RowsStay
    <3> QED
      BY <3>2, <3>3, <3>4, Zenon DEF Past, Nobody, Exists
  <2>4. CASE ~ Finish(w)
    <3>1. pc'[w] \in X
      BY <1>3, <2>1, <2>4, Zenon DEF Lasting
    <3>2. at'[w] = r
      BY <1>1, <1>3, <2>1, <2>4, LetGo
    <3> QED
      BY <3>1, <3>2, Zenon DEF Past
  <2> QED
    BY <2>3, <2>4
<1>5. CASE Nobody(r) /\ r \notin unsent /\ message[r] = FALSE /\ (Exists(r) \/ docs[r] = "purged")
  <2>1. \A v \in Workers : at'[v] # r
    <3> TAKE v \in Workers
    <3>1. ~ Deliver(v, r)
      BY <1>1, <1>5, DeliverDoes
    <3> QED
      BY <1>1, <1>5, <3>1, Taken DEF Nobody
  <2>2. ~ CreateRun(r)
    <3>1. CreateRun(r) => row[r].status = "absent" /\ docs[r] # "purged"
      BY DEF CreateRun
    <3> QED
      BY <1>5, <3>1 DEF Exists
  <2>3. r \notin unsent'
    BY <1>1, <1>5, <2>2, Announced
  <2>4. message'[r] = FALSE
    <3>1. ~ EnqueueRun(r)
      BY <1>5 DEF EnqueueRun
    <3> QED
      BY <1>1, <1>2, <1>5, <3>1, Enqueued DEF TypeOK, MessagesType
  <2>5. row'[r].status # "absent" \/ docs'[r] = "purged"
    BY <1>5, RowsStay
  <2> QED
    BY <2>1, <2>3, <2>4, <2>5, Zenon DEF Past, Nobody, Exists
<1> QED
  BY <1>4, <1>5, Zenon DEF Past

\* The worker that has r is not past X: nobody is.
LEMMA NotPast ==
    ASSUME OneWorker, NEW r \in Runs, NEW w \in Workers, at[w] = r, NEW X, pc[w] \notin X
    PROVE  ~ Past(r, X)
BY Bound DEF OneWorker, Past, Nobody

LEMMA CallsCountedKept ==
    ASSUME Solo, Alone, CallsCounted, Next
    PROVE  CallsCounted'
<1>1. TypeOK /\ OwnJobs /\ OneWorker /\ crashes \in Nat
  BY Bound DEF Alone, TypeOK
<1> SUFFICES ASSUME NEW r \in Runs
             PROVE  calls'[r] <= crashes' \/ (calls'[r] = crashes' + 1 /\ Past(r, Paid)')
  BY Zenon DEF CallsCounted
<1>2. calls[r] \in Nat /\ (calls[r] <= crashes \/ (calls[r] = crashes + 1 /\ Past(r, Paid)))
  BY <1>1 DEF CallsCounted, TypeOK, RowsType
<1>3. CASE crashes' # crashes
  <2>1. PICK w \in Workers : Crash(w)
    BY <1>3, CrashesChange
  <2>2. crashes' = crashes + 1 /\ calls' = calls
    BY <2>1 DEF Crash, dataVars
  <2>3. calls[r] <= crashes + 1
    BY <1>1, <1>2
  <2> QED
    BY <2>2, <2>3
<1>4. CASE crashes' = crashes /\ calls'[r] = calls[r]
  <2>1. CASE calls[r] <= crashes
    BY <1>4, <2>1
  <2>2. CASE calls[r] = crashes + 1 /\ Past(r, Paid)
    <3>1. Past(r, Paid)'
      BY <1>4, <2>2, PastStays, PaidLasts
    <3> QED
      BY <1>4, <2>2, <3>1
  <2> QED
    BY <1>2, <2>1, <2>2
<1>5. CASE crashes' = crashes /\ calls'[r] # calls[r]
  <2>1. PICK w \in Workers : ProviderAnswers(w)
    BY <1>5, CallsChange
  <2>2. /\ pc[w] = "ai_analyze" /\ pc'[w] = "answered" /\ at' = at
        /\ calls'[at[w]] = calls[at[w]] + 1
        /\ \A s \in Runs \ {at[w]} : calls'[s] = calls[s]
    BY <1>1, <2>1, ProviderAnswersDoes, Zenon DEF Moves
  <2>3. at[w] = r /\ calls'[r] = calls[r] + 1
    BY <1>5, <2>2
  <2>4. calls[r] <= crashes
    <3>1. ~ Past(r, Paid)
      BY <1>1, <2>2, <2>3, NotPast DEF Paid
    <3> QED
      BY <1>2, <3>1
  <2>5. Past(r, Paid)'
    <3>1. at'[w] = r /\ pc'[w] \in Paid
      BY <2>2, <2>3 DEF Paid
    <3> QED
      BY <3>1, Zenon DEF Past
  <2>6. calls'[r] <= crashes' \/ calls'[r] = crashes' + 1
    BY <1>1, <1>2, <1>5, <2>3, <2>4
  <2> QED
    BY <2>5, <2>6
<1> QED
  BY <1>3, <1>4, <1>5

LEMMA JobsCountedKept ==
    ASSUME Solo, Alone, JobsCounted, Next
    PROVE  JobsCounted'
<1>1. TypeOK /\ OwnJobs /\ PurgedIsGone /\ OneWorker /\ crashes \in Nat
  BY Bound DEF Alone, TypeOK
<1> SUFFICES ASSUME NEW r \in Runs
             PROVE  Len(jobs'[r]) <= crashes' \/ (Len(jobs'[r]) = crashes' + 1 /\ Past(r, Asked)')
  BY Zenon DEF JobsCounted, Asked
<1>2. /\ Len(jobs[r]) \in Nat
      /\ Len(jobs[r]) <= crashes \/ (Len(jobs[r]) = crashes + 1 /\ Past(r, Asked))
  BY <1>1, JobsOf, Zenon DEF JobsCounted, Asked
<1>3. CASE crashes' # crashes
  <2>1. PICK w \in Workers : Crash(w)
    BY <1>3, CrashesChange
  <2>2. crashes' = crashes + 1 /\ jobs' = jobs
    BY <2>1 DEF Crash, dataVars
  <2>3. Len(jobs[r]) <= crashes + 1
    BY <1>1, <1>2
  <2> QED
    BY <2>2, <2>3
<1>4. CASE crashes' = crashes /\ Len(jobs'[r]) = Len(jobs[r])
  <2>1. CASE Len(jobs[r]) <= crashes
    BY <1>4, <2>1
  <2>2. CASE Len(jobs[r]) = crashes + 1 /\ Past(r, Asked)
    <3>1. Past(r, Asked)'
      BY <1>4, <2>2, PastStays, PaidLasts
    <3> QED
      BY <1>4, <2>2, <3>1
  <2> QED
    BY <1>2, <2>1, <2>2
<1>5. CASE crashes' = crashes /\ Len(jobs'[r]) # Len(jobs[r])
  <2>1. PICK w \in Workers :
           CreateOcrJob(w) /\ at[w] = r /\ Len(jobs'[r]) = Len(jobs[r]) + 1
    <3>1. jobs'[r] # jobs[r]
      BY <1>5
    <3>2. ~ \E k \in DOMAIN jobs[r] : JobDecided(r, k)
      BY <1>5 DEF JobDecided, DecidesOne
    <3>3. ~ \E w \in Workers : PurgeDocument(w, r)
      BY <1>1, <1>5, PurgeDoes
    <3> QED
      BY <1>1, <3>1, <3>2, <3>3, JobsStep, Zenon
  <2>2. pc[w] = "ocr" /\ pc'[w] = "recognizing" /\ at' = at
    BY <1>1, <2>1, CreateOcrJobDoes, Zenon DEF Moves
  <2>3. Len(jobs[r]) <= crashes
    <3>1. ~ Past(r, Asked)
      BY <1>1, <2>1, <2>2, NotPast DEF Asked, Paid, WithJob
    <3> QED
      BY <1>2, <3>1
  <2>4. Past(r, Asked)'
    <3>1. at'[w] = r /\ pc'[w] \in Asked
      BY <2>1, <2>2 DEF Asked, WithJob
    <3> QED
      BY <3>1, Zenon DEF Past
  <2>5. Len(jobs'[r]) <= crashes' \/ Len(jobs'[r]) = crashes' + 1
    BY <1>1, <1>2, <1>5, <2>1, <2>3
  <2> QED
    BY <2>4, <2>5
<1> QED
  BY <1>3, <1>4, <1>5


-----------------------------------------------------------------------------
(* Options                                                                 *)

LEMMA NoCrash ==
    ASSUME TypeOK, Next, crashes' = 0
    PROVE  crashes = 0 /\ ~ \E w \in Workers : Crash(w)
<1>1. crashes \in Nat
  BY Bound DEF TypeOK
<1>2. ASSUME NEW w \in Workers, Crash(w)
      PROVE  FALSE
  BY <1>1, <1>2 DEF Crash
<1> QED
  BY <1>2, CrashesChange

LEMMA FirstExecutionKept ==
    ASSUME Solo, Alone, FirstExecution, Next
    PROVE  FirstExecution'
<1>1. TypeOK /\ OwnJobs /\ NotBefore
  BY DEF Alone
<1> SUFFICES ASSUME crashes' = 0
             PROVE  /\ \A w \in Workers : options'[w] = "given"
                    /\ \A r \in Runs :
                          /\ message'[r] = TRUE \/ r \in unsent'
                          /\ \A w \in Workers : at'[w] # r
                          /\ row'[r].status # "absent"
                          => row'[r].stages.input = TRUE
  BY Zenon DEF FirstExecution, Nobody, Exists
<1>2. /\ ~ \E w \in Workers : Crash(w)
      /\ \A w \in Workers : options[w] = "given"
      /\ \A r \in Runs : (message[r] = TRUE \/ r \in unsent) /\ Nobody(r) /\ Exists(r) =>
            row[r].stages.input = TRUE
  BY <1>1, NoCrash, Zenon DEF FirstExecution
<1>3. ASSUME NEW v \in Workers
      PROVE  options'[v] = "given"
  <2>1. CASE UNCHANGED taskVars
    BY <1>2, <2>1 DEF taskVars
  <2>2. ASSUME NEW w \in Workers, Others(w), v # w
        PROVE  options'[v] = "given"
    BY <1>2, <2>2 DEF Others
  <2>3. CASE Run(v)
    <3>1. CASE Finish(v)
      BY <1>1, <3>1, EndTaskDoes DEF Finish
    <3>2. CASE ~ Finish(v)
      BY <1>2, <2>3, <3>2, AtStays
    <3> QED
      BY <3>1, <3>2
  <2>4. ASSUME NEW r \in Runs, Deliver(v, r)
        PROVE  options'[v] = "given"
    <3>1. /\ message[r] = TRUE /\ Free(r) /\ row[r].status \notin Returned
          /\ options'[v] = OptionsOf(row[r].stages)
      BY <1>1, <2>4, DeliverDoes
    <3>2. Nobody(r) /\ Exists(r)
      BY <3>1, FreeIsNobody DEF Exists, Returned
    <3>3. row[r].stages.input = TRUE
      BY <1>2, <3>1, <3>2
    <3> QED
      BY <3>1, <3>3 DEF OptionsOf
  <2> QED
    BY <1>1, <1>2, <2>1, <2>2, <2>3, <2>4, WhoMoves, Zenon
<1>4. ASSUME NEW r \in Runs, message'[r] = TRUE \/ r \in unsent',
             \A w \in Workers : at'[w] # r, row'[r].status # "absent"
      PROVE  row'[r].stages.input = TRUE
  <2>1. CASE row'[r] = row[r]
    <3>1. ~ CreateRun(r)
      BY <1>4, <2>1 DEF CreateRun
    <3>2. message[r] = TRUE \/ r \in unsent
      <4>1. CASE r \in unsent'
        BY <1>1, <3>1, <4>1, Announced
      <4>2. CASE message'[r] = TRUE
        BY <1>1, <4>2, Enqueued DEF EnqueueRun, TypeOK, MessagesType
      <4> QED
        BY <1>4, <4>1, <4>2
    <3>3. Nobody(r)
      <4>1. ASSUME NEW w \in Workers, at[w] = r
            PROVE  FALSE
        <5>1. Finish(w)
          BY <1>1, <1>2, <1>4, <4>1, LetGo
        <5>2. message' = [message EXCEPT ![r] = FALSE] /\ unsent' = unsent
          BY <4>1, <5>1 DEF Finish
        <5>3. message'[r] = FALSE /\ r \notin unsent'
          BY <1>1, <4>1, <5>2 DEF TypeOK, MessagesType, NotBefore, Nobody
        <5> QED
          BY <1>4, <5>3
      <4> QED
        BY <4>1 DEF Nobody
    <3> QED
      BY <1>2, <1>4, <2>1, <3>2, <3>3 DEF Exists
  <2>2. CASE row'[r] # row[r]
    <3>1. CASE CreateRun(r)
      BY <1>1, <3>1, InitialTypes DEF CreateRun, TypeOK, RowsType
    <3>2. ASSUME NEW w \in Workers, PurgeDocument(w, r)
          PROVE  FALSE
      BY <1>1, <1>4, <3>2, PurgeDoes, InitialTypes
    <3> QED
      BY <1>4, <2>2, <3>1, <3>2, RowChanges, Zenon
  <2> QED
    BY <2>1, <2>2
<1> QED
  BY <1>3, <1>4, Zenon

LEMMA DefaultsKept ==
    ASSUME Alone, FirstExecution, DefaultsOnlyAfterCrash, Next
    PROVE  DefaultsOnlyAfterCrash'
<1>1. TypeOK /\ OwnJobs /\ PurgedIsGone /\ TypeOK'
  BY NextTyped DEF Alone
<1> SUFFICES ASSUME NEW r \in Runs, NEW k \in DOMAIN jobs'[r], jobs'[r][k].options = "default"
             PROVE  crashes' > 0
  BY Zenon DEF DefaultsOnlyAfterCrash
<1>2. crashes' \in Nat
  BY <1>1, Bound DEF TypeOK
<1>3. CASE crashes' = 0
  <2>1. crashes = 0
    BY <1>1, <1>3, NoCrash
  <2>2. /\ \A w \in Workers : options[w] = "given"
        /\ \A j \in DOMAIN jobs[r] : jobs[r][j].options # "default"
    BY <2>1 DEF FirstExecution, DefaultsOnlyAfterCrash
  <2>3. CASE jobs'[r] = jobs[r]
    BY <2>2, <2>3
  <2>4. CASE jobs'[r] # jobs[r]
    <3>1. ASSUME NEW w \in Workers,
                 DOMAIN jobs'[r] = DOMAIN jobs[r] \cup {Len(jobs[r]) + 1},
                 \A j \in DOMAIN jobs[r] : jobs'[r][j] = jobs[r][j],
                 jobs'[r][Len(jobs[r]) + 1].options = options[w]
          PROVE  FALSE
      BY <2>2, <3>1
    <3>2. ASSUME NEW j \in DOMAIN jobs[r], JobDecided(r, j)
          PROVE  FALSE
      BY <2>2, <3>2 DEF JobDecided, DecidesOne
    <3>3. ASSUME NEW w \in Workers, PurgeDocument(w, r)
          PROVE  FALSE
      BY <1>1, <2>2, <3>3, PurgeDoes
    <3> QED
      BY <1>1, <2>4, <3>1, <3>2, <3>3, JobsStep, Zenon
  <2> QED
    BY <2>3, <2>4
<1> QED
  BY <1>2, <1>3

-----------------------------------------------------------------------------
(* What a finished row says                                                *)

\* The row of a succeeded run, and what it names.
Whole(x, r) ==
    /\ \A s \in StageNames : x.stages.at[s] = "succeeded"
    /\ x.stages.ref["ocr"] = x.ocrJob
    /\ x.stages.ref["ai_analyze"] = x.aiRequest
    /\ x.ocrJob \in DOMAIN jobs[r] /\ jobs[r][x.ocrJob].outcome \in Readable
    /\ x.aiRequest \in DOMAIN requests[r] /\ requests[r][x.aiRequest] = x.ocrJob

\* What persist commits is whole.
LEMMA PersistsWhole ==
    ASSUME Alone, NEW w \in Workers, NEW r \in Runs, at[w] = r, Persist(w),
           SameRows(row'[r], seen'[w])
    PROVE  Whole(row'[r], r)
<1>1. /\ pc[w] = "persist" /\ Ended(w, "persist", 1) /\ seen'[w].stages = stages'[w]
      /\ seen'[w].ocrJob = seen[w].ocrJob /\ seen'[w].aiRequest = seen[w].aiRequest
  BY PersistStageDoes, Zenon DEF Alone
<1>2. /\ stages[w].at["preprocess"] = "succeeded"
      /\ stages[w].at["ocr"] = "succeeded" /\ stages[w].ref["ocr"] = seen[w].ocrJob
      /\ stages[w].at["ai_analyze"] = "succeeded"
      /\ stages[w].ref["ai_analyze"] \in DOMAIN requests[r]
      /\ requests[r][stages[w].ref["ai_analyze"]] = seen[w].ocrJob
      /\ seen[w].aiRequest = stages[w].ref["ai_analyze"]
  BY <1>1, Behind DEF Alone
<1>3. /\ \A s \in StageNames : stages'[w].at[s] = "succeeded"
      /\ stages'[w].ref["ocr"] = seen[w].ocrJob
      /\ stages'[w].ref["ai_analyze"] = seen[w].aiRequest
  BY <1>1, <1>2 DEF Ended, StageNames
<1>4. seen[w].ocrJob \in DOMAIN jobs[r]
      /\ jobs[r][seen[w].ocrJob].outcome \in Readable
  BY <1>1 DEF Alone, OwnJobs, JobOf, WithJob, WithText
<1>5. /\ row'[r].ocrJob = seen[w].ocrJob /\ row'[r].aiRequest = seen[w].aiRequest
      /\ row'[r].stages.at = stages'[w].at /\ row'[r].stages.ref = stages'[w].ref
  BY <1>1 DEF SameRows, SameLists
<1> QED
  BY <1>2, <1>3, <1>4, <1>5 DEF Whole

LEMMA SucceededIsWholeKept ==
    ASSUME Solo, Alone, SucceededIsWhole, Next
    PROVE  SucceededIsWhole'
<1>1. TypeOK /\ OwnJobs /\ PurgedIsGone /\ PurgedIsGone' /\ TypeOK'
  BY NextTyped, PurgedIsGoneKept DEF Alone
<1> SUFFICES ASSUME NEW r \in Runs, row'[r].status = "succeeded"
             PROVE  /\ \A s \in StageNames : row'[r].stages.at[s] = "succeeded"
                    /\ row'[r].stages.ref["ocr"] = row'[r].ocrJob
                    /\ row'[r].stages.ref["ai_analyze"] = row'[r].aiRequest
                    /\ row'[r].ocrJob \in DOMAIN jobs'[r]
                    /\ jobs'[r][row'[r].ocrJob].outcome = "succeeded"
                    /\ row'[r].aiRequest \in DOMAIN requests'[r]
                    /\ requests'[r][row'[r].aiRequest] = row'[r].ocrJob
  BY Zenon DEF SucceededIsWhole
<1>2. Whole(row'[r], r)
  <2>1. CASE row'[r] = row[r]
    BY <2>1 DEF SucceededIsWhole, Whole, Readable
  <2>2. CASE row'[r] # row[r]
    <3>1. ~ CreateRun(r)
      BY <1>1, InitialTypes DEF CreateRun, TypeOK, RowsType
    <3>2. ~ \E w \in Workers : PurgeDocument(w, r)
      BY <1>1, PurgeDoes, InitialTypes
    <3>3. PICK w \in Workers :
             /\ at[w] = r /\ SameRows(row'[r], seen'[w])
             /\ Persist(w) \/ RecordFailure(w) \/ seen'[w].status = "running"
      BY <2>2, <3>1, <3>2, RowChanges, Zenon
    <3>4. seen'[w].status = "succeeded"
      BY <3>3 DEF SameRows
    <3>5. Persist(w)
      BY <1>1, <3>3, <3>4, RecordFailureDoes
    <3> QED
      BY <3>3, <3>5, PersistsWhole
  <2> QED
    BY <2>1, <2>2
<1>3. PICK k \in DOMAIN jobs[r] :
         k = row'[r].ocrJob /\ jobs[r][k].outcome \in Readable
  BY <1>2 DEF Whole
<1>4. k \in DOMAIN jobs'[r] /\ jobs'[r][k].outcome \in {"succeeded", "erased"}
  BY <1>1, <1>3, SucceededStaysSo DEF Solo, Readable, Elsewhere
<1>5. jobs'[r][k].outcome # "erased"
  BY <1>1, <1>4 DEF PurgedIsGone, Exists
<1>6. PICK q \in DOMAIN requests[r] : q = row'[r].aiRequest /\ requests[r][q] = row'[r].ocrJob
  BY <1>2 DEF Whole
<1>7. q \in DOMAIN requests'[r] /\ requests'[r][q] = requests[r][q]
  BY <1>1, RequestsStay
<1> QED
  BY <1>2, <1>3, <1>4, <1>5, <1>6, <1>7 DEF Whole

LEMMA PriorStagesKeptKept ==
    ASSUME Alone, PriorStagesKept, Next
    PROVE  PriorStagesKept'
<1>1. TypeOK
  BY DEF Alone
<1> SUFFICES ASSUME NEW r \in Runs, row'[r].status = "failed", row'[r].error \in StageNames
             PROVE  Failed(row'[r].stages, row'[r].error)
  BY Zenon DEF PriorStagesKept, Failed
<1>2. CASE row'[r] = row[r]
  BY <1>2 DEF PriorStagesKept, Failed
<1>3. CASE row'[r] # row[r]
  <2>1. ~ CreateRun(r)
    BY <1>1, InitialTypes DEF CreateRun, TypeOK, RowsType
  <2>2. ~ \E w \in Workers : PurgeDocument(w, r)
    BY <1>1, PurgeDoes, InitialTypes
  <2>3. PICK w \in Workers :
           /\ SameRows(row'[r], seen'[w])
           /\ Persist(w) \/ RecordFailure(w) \/ seen'[w].status = "running"
    BY <1>3, <2>1, <2>2, RowChanges, Zenon
  <2>4. seen'[w].status = "failed"
    BY <2>3 DEF SameRows
  <2>5. RecordFailure(w)
    BY <1>1, <2>3, <2>4, PersistStageDoes
  <2>6. /\ pc[w] = "failing" /\ stages'[w] = stages[w] /\ seen'[w].stages = stages'[w]
        /\ seen'[w].error = blame[w]
    BY <1>1, <2>5, RecordFailureDoes, Zenon
  <2>7. blame[w] \in StageNames => Failed(stages[w], blame[w])
    BY <2>6 DEF Alone, AllSessions, Session
  <2>8. /\ row'[r].error = blame[w] /\ row'[r].stages.at = stages[w].at
        /\ row'[r].stages.ref = stages[w].ref
    BY <2>3, <2>6 DEF SameRows, SameLists
  <2> QED
    BY <2>7, <2>8 DEF Failed
<1> QED
  BY <1>2, <1>3


-----------------------------------------------------------------------------
(* Who carries a run that is not decided                                   *)

InDoubt == {"queued", "running"}

\* The message of a run stays while a worker has it, and a worker that is done with a run
\* has decided it, unless the message is lost or an error has broken the run off.
Carried ==
    /\ \A r \in Runs : row[r].status \in InDoubt =>
           r \in unsent \/ message[r] = TRUE \/ r \in lost \cup broken
    /\ \A w \in Workers : at[w] # NoRun => message[at[w]] = TRUE \/ at[w] \in lost
    /\ \A w \in Workers : pc[w] = "done" =>
           row[at[w]].status \notin InDoubt \/ at[w] \in lost \cup broken

LEMMA LostStays ==
    ASSUME TypeOK, Next
    PROVE  lost \subseteq lost'
<1>1. CASE LoseQueue \/ \E r \in Runs : LoseEnqueue(r)
  BY <1>1 DEF LoseQueue, LoseEnqueue
<1>2. CASE ~ LoseQueue /\ ~ \E r \in Runs : LoseEnqueue(r)
  <2>1. lost' = lost
    BY <1>2, Zenon DEF Next, CreateRun, EnqueueRun, SoftDelete, Reconcile, Deliver, SkipDelivery,
       PurgeDocument, Crash, Run, MarkRunning, Vanished, Preprocess, PreprocessFails,
       CreateOcrJob, OcrOpensDocument, OcrSucceeds, OcrFails, OcrDecides, OcrRejected, CommitOcr,
       AnalysisFails, ProviderAnswers, RecordRequest, CommitAi, Persist, StageBreaks,
       RecordFailure, BreakOff, Finish, StageRaises
  <2> QED
    BY <2>1
<1> QED
  BY <1>1, <1>2

\* A message goes when its run is over, when there was nothing to do, or with the queue.
LEMMA MessageGone ==
    ASSUME TypeOK, Next, NEW r \in Runs, message[r] = TRUE, message'[r] # TRUE
    PROVE  \/ \E w \in Workers : Finish(w) /\ at[w] = r
           \/ \E w \in Workers : SkipDelivery(w, r)
           \/ r \in lost'
<1>1. message \in [Runs -> BOOLEAN]
  BY DEF TypeOK, MessagesType
<1>2. ASSUME NEW s \in Runs, message' = [message EXCEPT ![s] = FALSE]
      PROVE  s = r
  BY <1>1, <1>2
<1>3. ASSUME NEW w \in Workers, Finish(w)
      PROVE  at[w] = r
  <2>1. PICK s \in Runs : s = at[w]
    BY <1>3, Task DEF Finish
  <2>2. message' = [message EXCEPT ![s] = FALSE]
    BY <1>3, <2>1 DEF Finish
  <2> QED
    BY <1>2, <2>1, <2>2
<1>4. ASSUME NEW w \in Workers, NEW s \in Runs, SkipDelivery(w, s)
      PROVE  s = r
  BY <1>2, <1>4 DEF SkipDelivery
<1>5. ASSUME NEW s \in Runs, EnqueueRun(s)
      PROVE  FALSE
  BY <1>1, <1>5 DEF EnqueueRun
<1>6. CASE LoseQueue
  <2>1. lost' = lost \cup {s \in Runs : message[s]}
    BY <1>6 DEF LoseQueue
  <2>2. message[r]
    OBVIOUS
  <2> QED
    BY <2>1, <2>2
<1> QED
  BY <1>3, <1>4, <1>5, <1>6, MessageChange, Zenon

\* A worker that has not finished with its run keeps the message, or it is lost.
LEMMA HeldMessages ==
    ASSUME Solo, Alone, Carried, Next, NEW w \in Workers, at'[w] # NoRun
    PROVE  message'[at'[w]] = TRUE \/ at'[w] \in lost'
<1>1. TypeOK /\ OwnJobs /\ OneWorker /\ TypeOK' /\ lost \subseteq lost'
  BY NextTyped, LostStays DEF Alone
<1>2. PICK r \in Runs : r = at'[w]
  BY <1>1 DEF TypeOK, TasksType
<1>3. CASE at[w] # r
  <2>1. Deliver(w, r)
    BY <1>1, <1>2, <1>3, Taken
  <2> QED
    BY <1>1, <1>2, <2>1, DeliverDoes DEF Stored
<1>4. CASE at[w] = r
  <2>1. message[r] = TRUE \/ r \in lost
    BY <1>4, Bound, Zenon DEF Carried
  <2>2. ASSUME NEW v \in Workers, Finish(v), at[v] = r
        PROVE  FALSE
    <3>1. v = w
      BY <1>1, <1>4, <2>2, Bound DEF OneWorker
    <3> QED
      BY <1>1, <1>2, <2>2, <3>1, EndTaskDoes, Bound DEF Finish
  <2>3. ASSUME NEW v \in Workers, SkipDelivery(v, r)
        PROVE  FALSE
    <3>1. Nobody(r)
      BY <2>3, FreeIsNobody DEF SkipDelivery
    <3> QED
      BY <1>4, <3>1 DEF Nobody
  <2> QED
    BY <1>1, <1>2, <2>1, <2>2, <2>3, MessageGone
<1> QED
  BY <1>3, <1>4

\* A worker is done with a run when its outcome is in the row, the row is gone, or an error
\* has broken it off.
LEMMA DoneDecides ==
    ASSUME Alone, NEW w \in Workers, Run(w), pc'[w] = "done"
    PROVE  row'[at'[w]].status \notin InDoubt \/ at'[w] \in broken'
<1>1. TypeOK /\ OwnJobs /\ AllSessions
  BY DEF Alone
<1>2. CASE Persist(w) \/ RecordFailure(w)
  <2>1. /\ at[w] \in Runs /\ Exists(at[w]) /\ Commits(w, "done")
        /\ seen'[w].status \in {"succeeded", "failed"} /\ pc[w] \in {"persist", "failing"}
    BY <1>1, <1>2, PersistStageDoes, RecordFailureDoes
  <2>2. SameRows(row[at[w]], seen[w])
    BY <1>1, <2>1 DEF AllSessions, Session
  <2>3. SameRows(row'[at[w]], seen'[w]) /\ at' = at
    BY <2>1, <2>2 DEF Commits, Moves
  <2> QED
    BY <2>1, <2>3 DEF SameRows, InDoubt
<1>3. CASE BreakOff(w)
  BY <1>3 DEF BreakOff
<1>4. CASE Vanished(w)
  BY <1>4 DEF Vanished, dataVars, Exists, InDoubt
<1>5. CASE Raising(w)
  <2>1. /\ UNCHANGED Stored /\ \E who \in Whom : Raises(w, who)
    BY <1>1, <1>5, RaisingDoes DEF Whom, StageNames
  <2>2. ~ Exists(at[w]) /\ at' = at /\ row' = row
    BY <2>1 DEF Raises, Moves, Stored
  <2> QED
    BY <2>2 DEF Exists, InDoubt
<1>6. CASE Finish(w)
  BY <1>1, <1>6, EndTaskDoes DEF Finish
<1>7. CASE MarkRunning(w) \/ Preprocess(w) \/ CommitOcr(w) \/ CommitAi(w)
  BY <1>1, <1>7, MarkRunningDoes, PreprocessDoes, CommitOcrDoes, CommitAiDoes DEF Commits, Moves
<1>8. CASE CreateOcrJob(w)
  BY <1>1, <1>8, CreateOcrJobDoes, Zenon DEF Moves
<1>9. CASE OcrOpensDocument(w)
  BY <1>1, <1>9, OcrOpensDoes DEF Moves
<1>10. CASE OcrSucceeds(w) \/ OcrFails(w)
  <2>1. seen[w].ocrJob \in DOMAIN jobs[at[w]]
    BY <1>1, <1>10 DEF OwnJobs, WithJob, OcrSucceeds, OcrFails
  <2> QED
    BY <1>1, <1>10, <2>1, OcrDecidesDoes DEF Moves
<1>11. CASE ProviderAnswers(w)
  BY <1>1, <1>11, ProviderAnswersDoes, Zenon DEF Moves
<1>12. CASE RecordRequest(w)
  BY <1>1, <1>12, RecordRequestDoes, Zenon DEF Moves
<1> QED
  BY <1>2, <1>3, <1>4, <1>5, <1>6, <1>7, <1>8, <1>9, <1>10, <1>11, <1>12 DEF Run, Raising

LEMMA DoneStays ==
    ASSUME Alone, Carried, Next, NEW w \in Workers, pc'[w] = "done"
    PROVE  row'[at'[w]].status \notin InDoubt \/ at'[w] \in lost' \cup broken'
<1>1. TypeOK /\ OwnJobs /\ OneWorker /\ NotBefore /\ lost \subseteq lost'
      /\ broken \subseteq broken'
  BY LostStays, BrokenTyped DEF Alone
<1>2. CASE pc[w] = "done" /\ at'[w] = at[w]
  <2>1. at[w] \in Runs
    BY <1>1, <1>2, Task
  <2>2. PICK r \in Runs : r = at[w]
    BY <2>1
  <2>3. row[r].status \notin InDoubt \/ r \in lost \cup broken
    BY <1>2, <2>2 DEF Carried
  <2>4. CASE row'[r] = row[r]
    BY <1>1, <1>2, <2>2, <2>3, <2>4
  <2>5. CASE row'[r] # row[r]
    <3>1. ~ CreateRun(r)
      <4>1. ~ Nobody(r)
        BY <2>2 DEF Nobody
      <4> QED
        BY <1>1, <4>1 DEF NotBefore, CreateRun
    <3>2. ASSUME NEW v \in Workers, at[v] = r, pc[v] \notin {"idle", "done"}
          PROVE  FALSE
      BY <1>1, <1>2, <2>2, <3>2, Bound DEF OneWorker
    <3>3. PICK v \in Workers : PurgeDocument(v, r)
      BY <2>5, <3>1, <3>2, RowChanges, Zenon
    <3>4. row'[r].status = "absent"
      BY <1>1, <3>3, PurgeDoes, InitialTypes
    <3> QED
      BY <1>2, <2>2, <3>4 DEF InDoubt
  <2> QED
    BY <2>4, <2>5
<1>3. CASE ~ (pc[w] = "done" /\ at'[w] = at[w])
  <2>1. PICK v \in Workers :
           Others(v) /\ (Run(v) \/ Crash(v) \/ \E s \in Runs : Deliver(v, s))
    BY <1>1, <1>3, WhoMoves DEF taskVars
  <2>2. v = w
    BY <1>3, <2>1 DEF Others
  <2>3. ~ Crash(w) /\ ~ \E s \in Runs : Deliver(w, s)
    <3>1. ASSUME NEW s \in Runs, Deliver(w, s)
          PROVE  FALSE
      BY <1>1, <3>1, DeliverDoes, Zenon
    <3>2. ~ Crash(w)
      BY <1>1, EndTaskDoes DEF Crash
    <3> QED
      BY <3>1, <3>2
  <2> QED
    BY <2>1, <2>2, <2>3, DoneDecides
<1> QED
  BY <1>2, <1>3

LEMMA CarriedKept ==
    ASSUME Solo, Alone, Carried, Next
    PROVE  Carried'
<1>1. TypeOK /\ OwnJobs /\ lost \subseteq lost' /\ broken \subseteq broken'
  BY LostStays, BrokenTyped DEF Alone
<1>2. ASSUME NEW r \in Runs, row'[r].status \in InDoubt
      PROVE  r \in unsent' \/ message'[r] = TRUE \/ r \in lost' \cup broken'
  <2>1. CASE row'[r] = row[r]
    <3>1. CASE r \in unsent
      <4>1. CASE unsent' = unsent
        BY <3>1, <4>1
      <4>2. CASE unsent' # unsent
        <5>1. PICK s \in Runs : CreateRun(s) \/ EnqueueRun(s) \/ LoseEnqueue(s)
          BY <4>2, UnsentChange
        <5> QED
          BY <1>1, <3>1, <5>1
          DEF CreateRun, EnqueueRun, LoseEnqueue, TypeOK, MessagesType
      <4> QED
        BY <4>1, <4>2
    <3>2. CASE message[r] = TRUE
      <4>1. ASSUME NEW w \in Workers, Finish(w), at[w] = r
            PROVE  r \in lost \cup broken
        BY <1>2, <2>1, <4>1 DEF Finish, Carried
      <4>2. ASSUME NEW w \in Workers, SkipDelivery(w, r)
            PROVE  FALSE
        BY <1>2, <2>1, <4>2 DEF SkipDelivery, Returned, InDoubt
      <4> QED
        BY <1>1, <3>2, <4>1, <4>2, MessageGone
    <3>3. CASE r \in lost \cup broken
      BY <1>1, <3>3
    <3> QED
      BY <1>2, <2>1, <3>1, <3>2, <3>3 DEF Carried
  <2>2. CASE row'[r] # row[r]
    <3>1. CASE CreateRun(r)
      BY <3>1 DEF CreateRun
    <3>2. ASSUME NEW w \in Workers, PurgeDocument(w, r)
          PROVE  FALSE
      BY <1>1, <1>2, <3>2, PurgeDoes, InitialTypes DEF InDoubt
    <3>3. ASSUME NEW w \in Workers, at'[w] = r
          PROVE  message'[r] = TRUE \/ r \in lost'
      BY <3>3, Bound, HeldMessages
    <3> QED
      BY <2>2, <3>1, <3>2, <3>3, RowChanges, Zenon
  <2> QED
    BY <2>1, <2>2
<1> QED
  BY <1>2, HeldMessages, DoneStays, Zenon DEF Carried

-----------------------------------------------------------------------------
(* The theorems of runs that do not outlast ARQ's in-progress key          *)

LEMMA SoloStutters ==
    ASSUME SoloInv, UNCHANGED vars
    PROVE  SoloInv'
<1>1. Basis'
  BY BasisStutters DEF SoloInv
<1>2. OneWorker' /\ NotBefore'
  BY Zenon DEF SoloInv, OneWorker, NotBefore, Nobody, vars
<1>3. AllSessions'
  BY Zenon DEF SoloInv, AllSessions, Session, Exists, vars
<1>4. CallsCounted' /\ JobsCounted'
  BY Zenon DEF SoloInv, CallsCounted, JobsCounted, Past, Nobody, Exists, vars
<1>5. FirstExecution' /\ DefaultsOnlyAfterCrash'
  BY Zenon DEF SoloInv, FirstExecution, DefaultsOnlyAfterCrash, Nobody, Exists, vars
<1>6. SucceededIsWhole' /\ PriorStagesKept'
  BY Zenon DEF SoloInv, SucceededIsWhole, PriorStagesKept, vars
<1> QED
  BY <1>1, <1>2, <1>3, <1>4, <1>5, <1>6 DEF SoloInv

LEMMA SoloNext ==
    ASSUME Solo, SoloInv, Next
    PROVE  SoloInv'
<1>1. Basis /\ Alone
  BY DEF SoloInv, Basis, Alone
<1>2. Basis'
  BY <1>1, NextTyped, OwnJobsKept, PurgedIsGoneKept, AllProgressKept, AnalysisKept DEF Basis
<1>3. OneWorker' /\ NotBefore' /\ AllSessions'
  BY <1>1, OneWorkerKept, NotBeforeKept, AllSessionsKept DEF Alone
<1>4. CallsCounted' /\ JobsCounted' /\ FirstExecution'
  BY <1>1, CallsCountedKept, JobsCountedKept, FirstExecutionKept DEF SoloInv
<1>5. DefaultsOnlyAfterCrash' /\ SucceededIsWhole' /\ PriorStagesKept'
  BY <1>1, DefaultsKept, SucceededIsWholeKept, PriorStagesKeptKept DEF SoloInv
<1> QED
  BY <1>2, <1>3, <1>4, <1>5 DEF SoloInv

LEMMA SoloInit ==
    ASSUME Init
    PROVE  SoloInv
<1>1. Basis
  BY InitBasis
<1>2. OneWorker /\ NotBefore
  BY Bound DEF Init, OneWorker, NotBefore, Nobody
<1>3. AllSessions
  BY DEF Init, AllSessions, Session
<1>4. CallsCounted /\ FirstExecution
  BY DEF Init, CallsCounted, FirstExecution
<1>5. JobsCounted
  <2>1. Len(<<>>) = 0
    BY EmptySeq
  <2>2. \A r \in Runs : jobs[r] = <<>>
    BY DEF Init
  <2>3. crashes = 0 /\ 0 <= 0
    BY DEF Init
  <2>4. \A r \in Runs : Len(jobs[r]) <= crashes
    BY <2>1, <2>2, <2>3, Zenon
  <2> QED
    BY <2>4, Zenon DEF JobsCounted
<1>6. DefaultsOnlyAfterCrash
  BY DEF Init, DefaultsOnlyAfterCrash
<1>7. SucceededIsWhole /\ PriorStagesKept
  BY InitialTypes DEF Init, SucceededIsWhole, PriorStagesKept
<1> QED
  BY <1>1, <1>2, <1>3, <1>4, <1>5, <1>6, <1>7 DEF SoloInv

\* The strengthening: one worker at a time has a run, its session holds what the row says,
\* and what it has done is counted by its crashes and by how far it has come.
THEOREM SoloInvariance ==
    ASSUME LongRuns = FALSE
    PROVE  Spec => []SoloInv
<1>1. Init => SoloInv
  BY SoloInit
<1>2. SoloInv /\ [Next]_vars => SoloInv'
  BY SoloNext, SoloStutters DEF Solo
<1> QED
  BY <1>1, <1>2, PTL DEF Spec

\* A run shown as succeeded is whole: four stages that succeeded, the row's own references,
\* an OCR job that succeeded and the analysis of that very job.
THEOREM SucceededRunsAreWhole ==
    ASSUME LongRuns = FALSE
    PROVE  Spec => []SucceededIsWhole
<1>1. SoloInv => SucceededIsWhole
  BY DEF SoloInv
<1> QED
  BY <1>1, SoloInvariance, PTL

\* Where a stage is named as the one that failed, it is marked so, and those before it keep
\* their outcome and their reference.
THEOREM FailedRunsKeepStages ==
    ASSUME LongRuns = FALSE
    PROVE  Spec => []PriorStagesKept
<1>1. SoloInv => PriorStagesKept
  BY DEF SoloInv
<1> QED
  BY <1>1, SoloInvariance, PTL

\* A provider is paid once for a run, and once more for each crash.
THEOREM PaidOncePerExecution ==
    ASSUME LongRuns = FALSE
    PROVE  Spec => []CallsAccounted
<1>1. SoloInv => CallsAccounted
  <2> SUFFICES ASSUME SoloInv, NEW r \in Runs
               PROVE  calls[r] <= 1 + crashes
    BY Zenon DEF CallsAccounted
  <2>1. calls[r] \in Nat /\ crashes \in Nat
    BY Bound DEF SoloInv, Basis, TypeOK, RowsType
  <2>2. calls[r] <= crashes \/ calls[r] = crashes + 1
    BY Zenon DEF SoloInv, CallsCounted
  <2> QED
    BY <2>1, <2>2
<1> QED
  BY <1>1, SoloInvariance, PTL

\* The options of the request are given up only after a crash.
THEOREM OptionsKept ==
    ASSUME LongRuns = FALSE
    PROVE  Spec => []DefaultsOnlyAfterCrash
<1>1. SoloInv => DefaultsOnlyAfterCrash
  BY DEF SoloInv
<1> QED
  BY <1>1, SoloInvariance, PTL

\* The row of a succeeded run stays as the client saw it, until it is erased.
THEOREM SucceededRowsStay ==
    ASSUME LongRuns = FALSE
    PROVE  Spec => SucceededStays
<1>1. ASSUME SoloInv, Next, NEW r \in Runs, row[r].status = "succeeded", row'[r] # row[r]
      PROVE  row'[r] = AbsentRow
  <2>1. Alone
    BY <1>1 DEF SoloInv, Basis, Alone
  <2>2. ~ CreateRun(r)
    BY <1>1 DEF CreateRun
  <2>3. ASSUME NEW w \in Workers, PurgeDocument(w, r)
        PROVE  row'[r] = AbsentRow
    BY <2>1, <2>3, PurgeDoes DEF Alone
  <2>4. ASSUME NEW w \in Workers, at[w] = r, Exists(r), pc[w] \notin {"idle", "done"}
        PROVE  seen[w].status = "succeeded"
    BY <1>1, <2>1, <2>4 DEF Alone, AllSessions, Session, SameRows
  <2> QED
    BY <1>1, <2>1, <2>2, <2>3, <2>4, RowChanges, Zenon
<1>2. SoloInv /\ [Next]_vars =>
          [\A r \in Runs : row[r].status = "succeeded" => row'[r] \in {row[r], AbsentRow}]_vars
  BY <1>1
<1> QED
  BY <1>2, SoloInvariance, PTL DEF Spec, SucceededStays

\* A run a client still sees as queued or running is carried by its message, or by the
\* API that is about to send it: only a lost message, or an error in mark_running or in the
\* handler of another, leaves such a run behind.
THEOREM UndecidedRunsAreCarried ==
    ASSUME LongRuns = FALSE
    PROVE  Spec => []UndecidedIsCarried
<1>1. Init => Carried
  BY DEF Init, Carried, AbsentRow, InDoubt
<1>2. ASSUME SoloInv, Carried, [Next]_vars
      PROVE  Carried'
  <2>1. CASE Next
    <3>1. Alone
      BY <1>2 DEF SoloInv, Basis, Alone
    <3> QED
      BY <1>2, <2>1, <3>1, CarriedKept DEF Solo
  <2>2. CASE UNCHANGED vars
    BY <1>2, <2>2, Zenon DEF Carried, vars
  <2> QED
    BY <1>2, <2>1, <2>2
<1>3. Carried => UndecidedIsCarried
  BY DEF Carried, UndecidedIsCarried, InDoubt
<1> QED
  BY <1>1, <1>2, <1>3, SoloInvariance, PTL DEF Spec

\* An execution creates one inner OCR job, and only a crash makes another execution.
THEOREM OneJobPerExecution ==
    ASSUME LongRuns = FALSE
    PROVE  Spec => [](\A r \in Runs : Len(jobs[r]) <= 1 + crashes)
<1>1. ASSUME SoloInv, NEW r \in Runs
      PROVE  Len(jobs[r]) <= 1 + crashes
  <2>1. Len(jobs[r]) \in Nat /\ crashes \in Nat
    BY <1>1, JobsOf, Bound DEF SoloInv, Basis, TypeOK
  <2>2. Len(jobs[r]) <= crashes \/ Len(jobs[r]) = crashes + 1
    BY <1>1, Zenon DEF SoloInv, JobsCounted
  <2> QED
    BY <2>1, <2>2
<1>2. SoloInv => \A r \in Runs : Len(jobs[r]) <= 1 + crashes
  BY <1>1
<1> QED
  BY <1>2, SoloInvariance, PTL

=============================================================================
