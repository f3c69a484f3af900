-------------------------------- MODULE Stats --------------------------------
(***************************************************************************)
(* The daily statistics: what users do, counted by the rebuild job into    *)
(* rows for each of them and for all, and the series that are shown.       *)
(*                                                                         *)
(* A rebuild is one READ COMMITTED transaction for one or two days, and    *)
(* rebuilds overlap: the ten-minute one of a slow worker, the next one,    *)
(* and one started by hand for a day in the past.  Its steps are its       *)
(* statements: a DELETE sees the rows committed when it begins and waits   *)
(* for those another rebuild is deleting; every SELECT counts what is      *)
(* committed by then; an INSERT waits for, or is refused by, a row of the  *)
(* same key.                                                               *)
(***************************************************************************)
EXTENDS Naturals, Sequences, FiniteSets, Functions

CONSTANTS
    Users,          \* users of the system
    Rebuilds,       \* rebuilds, each done once
    Workers,        \* worker processes: each does a rebuild from end to end
    MaxDays,        \* bound: days that pass
    MaxEvents       \* bound: things that users do

ASSUME ConstantsAssumption ==
    /\ IsFiniteSet(Users)
    /\ IsFiniteSet(Rebuilds)
    /\ "all" \notin Users
    /\ Workers \in Nat \ {0}
    /\ MaxDays \in Nat \ {0}
    /\ MaxEvents \in Nat

VARIABLES
    today,      \* the current UTC day
    source,     \* source[d][s]: what there is of day d: ocr_jobs, ... of a user
    events,     \* things done so far
    stats,      \* committed rows of stat_daily
    run         \* run[r]: the transaction of rebuild r

vars == <<today, source, events, stats, run>>

-----------------------------------------------------------------------------

Days == 1..MaxDays

\* An OCR job, with whether it has failed, an AI request, a pipeline run; and the
\* failed logins, which are nobody's.
Kinds   == {"ocr", "ocr failed", "ai", "pipeline"}
Sources == [kind : Kinds, user : Users] \cup {[kind |-> "login failed", user |-> "all"]}

\* The SELECTs of materialize_day in their order, each with the metrics it yields.
\* Tokens and costs are counted like requests; latencies, whose overall value is a
\* mean of means, are left out.
Selects == << {"ocr", "ocr failed"}, {"ai"}, {"pipeline"}, {"login failed"} >>

Metrics == UNION {Selects[n] : n \in DOMAIN Selects}

Row == [by : Rebuilds, day : Days, metric : Metrics, user : Users \cup {"all"},
        value : 0..MaxEvents]

PC == {"new", "delete", "deleting", "select", "insert", "commit", "over"}

Run == [pc    : PC,
        days  : Seq(Days),          \* days it has still to rebuild
        next  : 1..Len(Selects),    \* the SELECT that comes next
        todo  : SUBSET Row,         \* rows that its DELETE has found
        batch : SUBSET Row,         \* rows that it is about to insert
        off   : SUBSET Row,         \* rows it has deleted, not committed
        put   : SUBSET Row]         \* rows it has inserted, not committed

New == [pc |-> "new", days |-> <<>>, next |-> 1, todo |-> {}, batch |-> {}, off |-> {}, put |-> {}]

Others(r) == Rebuilds \ {r}

Init ==
    /\ today = 1
    /\ source = [d \in Days |-> [s \in Sources |-> 0]]
    /\ events = 0
    /\ stats = {}
    /\ run = [r \in Rebuilds |-> New]

-----------------------------------------------------------------------------
(* What happens                                                            *)

Midnight ==
    /\ today < MaxDays
    /\ today' = today + 1
    /\ UNCHANGED <<source, events, stats, run>>

\* Something is done today; a job may also fail days after it was created.
Happens(d, s) ==
    /\ events < MaxEvents
    /\ d = today \/ (s.kind = "ocr failed" /\ d < today)
    /\ s.kind = "ocr failed" => source[d][s] < source[d][[s EXCEPT !.kind = "ocr"]]
    /\ source' = [source EXCEPT ![d][s] = @ + 1]
    /\ events' = events + 1
    /\ UNCHANGED <<today, stats, run>>

\* The erasure of a user's documents takes the jobs and pipeline runs along; the
\* statistics of the days stay.
Erased(u) ==
    /\ source' = [d \in Days |->
                    [s \in Sources |-> IF s.user = u /\ s.kind # "ai" THEN 0 ELSE source[d][s]]]
    /\ UNCHANGED <<today, events, stats, run>>

-----------------------------------------------------------------------------
(* The rebuild                                                             *)

Becomes(r, t) == run' = [run EXCEPT ![r] = t] /\ UNCHANGED <<today, source, events, stats>>

UnderWay == {r \in Rebuilds : run[r].pc \notin {"new", "over"}}

\* materialize_daily_stats: yesterday and today, or the day that is asked for.
Begin(r, days) ==
    /\ run[r].pc = "new"
    /\ Cardinality(UnderWay) < Workers
    /\ Becomes(r, [New EXCEPT !.pc = "delete", !.days = days])

BeginCron(r)   == Begin(r, IF today > 1 THEN <<today - 1, today>> ELSE <<today>>)
BeginOf(r, d)  == d <= today /\ Begin(r, <<d>>)

\* delete_for_date, as it begins.
FindRows(r) ==
    /\ run[r].pc = "delete"
    /\ Becomes(r, [run[r] EXCEPT !.pc = "deleting",
                                 !.todo = {x \in stats : x.day = Head(run[r].days)}])

DeleteRows(r) ==
    /\ run[r].pc = "deleting"
    /\ \A q \in Others(r) : run[q].off \cap run[r].todo = {}
    /\ Becomes(r, [run[r] EXCEPT !.pc = "select", !.next = 1, !.todo = {},
                                 !.off = @ \cup (run[r].todo \cap stats)])

\* GROUP BY user_id: those with a row at all, whose number the first metric is.
Grouped(d, metrics) ==
    {u \in Users : \E m \in metrics : source[d][[kind |-> m, user |-> u]] > 0}

Total(d, m, users) ==
    SumFunctionOnSet([u \in Users |-> source[d][[kind |-> m, user |-> u]]], users)

\* _insert_grouped: a row for each user, and one for all of them.
UserRows(r, d, metrics) ==
    LET users == Grouped(d, metrics)
        row(m, u, v) == [by |-> r, day |-> d, metric |-> m, user |-> u, value |-> v]
    IN  UNION {{row(m, u, source[d][[kind |-> m, user |-> u]]) : u \in users} \cup
               (IF users = {} THEN {} ELSE {row(m, "all", Total(d, m, users))}) : m \in metrics}

\* Failed logins: a row for all, if there are any.
LoginRows(r, d) ==
    LET n == source[d][[kind |-> "login failed", user |-> "all"]]
    IN  IF n = 0 THEN {}
        ELSE {[by |-> r, day |-> d, metric |-> "login failed", user |-> "all", value |-> n]}

\* The day is done after its last SELECT.
AfterInsert(t) ==
    LET put == [t EXCEPT !.put = @ \cup t.batch, !.batch = {}]
    IN  CASE t.next < Len(Selects) -> [put EXCEPT !.pc = "select", !.next = @ + 1]
          [] t.next = Len(Selects) /\ Len(t.days) > 1
                                   -> [put EXCEPT !.pc = "delete", !.days = Tail(@), !.next = 1]
          [] OTHER                 -> [put EXCEPT !.pc = "commit"]

SelectRows(r) ==
    LET d == Head(run[r].days)
        metrics == Selects[run[r].next]
        rows == IF metrics = {"login failed"} THEN LoginRows(r, d) ELSE UserRows(r, d, metrics)
    IN  /\ run[r].pc = "select"
        /\ Becomes(r, IF rows = {} THEN AfterInsert(run[r])
                      ELSE [run[r] EXCEPT !.pc = "insert", !.batch = rows])

\* Mutant of SameKey: a row for all has no user, and NULL equals nothing.
SameKeyNotNull(x, y) ==
    x.day = y.day /\ x.metric = y.metric /\ x.user = y.user /\ x.user # "all"

\* ux_stat_daily_key: coalesce(user_id) makes the rows for all collide too.
SameKey(x, y) == x.day = y.day /\ x.metric = y.metric /\ x.user = y.user

Colliding(r, rows) == {x \in rows : \E y \in run[r].batch : SameKey(x, y)}

Over == [New EXCEPT !.pc = "over"]

\* The rows go in one by one; those that wait for each other in a circle are broken by
\* PostgreSQL, as are two rebuilds that do: see Fault.
InsertRows(r) ==
    LET rivals == Colliding(r, stats \ run[r].off)
    IN  /\ run[r].pc = "insert"
        /\ \A q \in Others(r) : Colliding(r, run[q].put) = {} /\ run[q].off \cap rivals = {}
        /\ Becomes(r, IF rivals = {} THEN AfterInsert(run[r]) ELSE Over)

Commit(r) ==
    /\ run[r].pc = "commit"
    /\ stats' = (stats \ run[r].off) \cup run[r].put
    /\ run' = [run EXCEPT ![r] = Over]
    /\ UNCHANGED <<today, source, events>>

\* The worker dies, the job times out, or PostgreSQL breaks a circle of waiting
\* rebuilds: everything is rolled back.
Fault(r) ==
    /\ r \in UnderWay
    /\ Becomes(r, Over)

-----------------------------------------------------------------------------

Next ==
    \/ Midnight
    \/ \E d \in Days, s \in Sources : Happens(d, s)
    \/ \E u \in Users : Erased(u)
    \/ \E r \in Rebuilds :
        \/ BeginCron(r) \/ \E d \in Days : BeginOf(r, d)
        \/ FindRows(r) \/ DeleteRows(r) \/ SelectRows(r) \/ InsertRows(r) \/ Commit(r)
        \/ Fault(r)

Spec == Init /\ [][Next]_vars

-----------------------------------------------------------------------------
(* Properties                                                              *)

\* The variables hold what the code can put into them.
TypeOK ==
    /\ today \in Days
    /\ source \in [Days -> [Sources -> 0..MaxEvents]]
    /\ events \in 0..MaxEvents
    /\ stats \subseteq Row
    /\ run \in [Rebuilds -> Run]

\* query_daily: the points of a metric for a user, or for all.
Points(from, to, m, user) ==
    {x \in stats : from <= x.day /\ x.day <= to /\ x.metric = m /\ x.user = user}

\* query_monthly: their sum.
Shown(from, to, m, user) ==
    SumFunctionOnSet([x \in stats |-> x.value], Points(from, to, m, user))

\* However rebuilds overlap, fail and meet users' erasures, what the series show adds up:
\* over any days a metric has one point for a day, for a user as for all, and what it
\* shows for all is the sum of what it shows for the users.  Nobody's are the failed
\* logins.
RollupsAddUp ==
    \A from, to \in Days, m \in Metrics :
        /\ \A user \in Users \cup {"all"} :
             \A x, y \in Points(from, to, m, user) : x.day = y.day => x = y
        /\ m # "login failed" =>
             Shown(from, to, m, "all")
               = SumFunction([u \in Users |-> Shown(from, to, m, u)])

=============================================================================
