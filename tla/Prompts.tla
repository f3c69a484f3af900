------------------------------- MODULE Prompts -------------------------------
(***************************************************************************)
(* The versions of one prompt under administrators who create, copy, edit  *)
(* and activate them at once.                                              *)
(*                                                                         *)
(* A request is one READ COMMITTED transaction: every statement sees what  *)
(* is committed when it begins, a row being written by another transaction *)
(* is waited for, and two unique indexes refuse a second row of the same   *)
(* version and a second active one.  The steps are the statements of the   *)
(* handlers.  Texts and variables are left out: an edit of them shows as a *)
(* lock on its row.                                                        *)
(***************************************************************************)
EXTENDS Naturals, FiniteSets

CONSTANTS
    Admins,         \* administrators, and the seed script
    MaxVersions,    \* bound: versions of the prompt
    MaxFaults       \* bound: transactions broken off

ASSUME ConstantsAssumption ==
    /\ IsFiniteSet(Admins)
    /\ MaxVersions \in Nat \ {0}
    /\ MaxFaults \in Nat

VARIABLES
    exists,     \* versions with a committed row
    active,     \* versions whose committed row is active
    txn,        \* txn[a]: the transaction of a
    refused,    \* refused[a]: how the last request of a failed, if it did
    faults      \* transactions broken off so far

vars == <<exists, active, txn, refused, faults>>

-----------------------------------------------------------------------------

Versions == 1..MaxVersions

\* The next statement of a transaction.
PC == {"idle", "deactivate", "deactivating", "insert", "lock", "light", "edit", "commit"}

Txn == [pc   : PC,
        row  : 0..MaxVersions,       \* the version it inserts, activates or edits
        on   : BOOLEAN,              \* whether it makes it active
        todo : SUBSET Versions,      \* rows its UPDATE has found active
        off  : SUBSET Versions,      \* rows it has deactivated, not committed
        new  : BOOLEAN,              \* its row is inserted, not committed
        held : BOOLEAN,              \* its row was there and is locked
        lit  : BOOLEAN,              \* its row is active, not committed
        met  : BOOLEAN]              \* another transaction was open beside it

Idle == [pc |-> "idle", row |-> 0, on |-> FALSE, todo |-> {}, off |-> {},
         new |-> FALSE, held |-> FALSE, lit |-> FALSE, met |-> FALSE]

Outcome == {"no", "overlapped", "alone"}

Open(a)   == txn[a].pc # "idle"
Others(a) == {b \in Admins \ {a} : Open(b)}

Init ==
    /\ exists = {}
    /\ active = {}
    /\ txn = [a \in Admins |-> Idle]
    /\ refused = [a \in Admins |-> "no"]
    /\ faults = 0

\* The first statement of a request; from here on a and the open ones have met.
Enter(a, t) ==
    /\ ~ Open(a)
    /\ txn' = [b \in Admins |->
                 IF b = a THEN [t EXCEPT !.met = Others(a) # {}]
                 ELSE [txn[b] EXCEPT !.met = @ \/ Open(b)]]
    /\ refused' = [refused EXCEPT ![a] = "no"]
    /\ UNCHANGED <<exists, active, faults>>

Becomes(a, t) == txn' = [txn EXCEPT ![a] = t] /\ UNCHANGED <<exists, active, refused, faults>>

Rollback(a, how) ==
    /\ txn' = [txn EXCEPT ![a] = Idle]
    /\ refused' = [refused EXCEPT ![a] = how]
    /\ UNCHANGED <<exists, active>>

-----------------------------------------------------------------------------
(* The statements                                                          *)

MaxVersion == CHOOSE v \in exists \cup {0} : \A w \in exists : w <= v

\* A transaction about version v before its first statement.
Entering(first, v, on) == [Idle EXCEPT !.pc = first, !.row = v, !.on = on]

\* An insert, preceded by the deactivation when the row is to be active.
Inserting(v, on) == Entering(IF on THEN "deactivate" ELSE "insert", v, on)

\* Mutant of Create: the new row is inserted beside the active one.
CreateBeside(a, on) ==
    /\ MaxVersion < MaxVersions
    /\ Enter(a, [Inserting(MaxVersion + 1, on) EXCEPT !.pc = "insert"])

\* PromptService.create: the version after the last one.
Create(a, on) ==
    /\ MaxVersion < MaxVersions
    /\ Enter(a, Inserting(MaxVersion + 1, on))

\* update with create_new_version: a copy of a version that is there, not active.
CreateCopy(a) ==
    /\ exists # {}
    /\ MaxVersion < MaxVersions
    /\ Enter(a, Inserting(MaxVersion + 1, FALSE))

\* The seed script: version 1, active, unless it is there.
Seed(a) == 1 \notin exists /\ Enter(a, Inserting(1, TRUE))

\* A request for a version that is active already changes nothing.
Activate(a, v) ==
    /\ v \in exists \ active
    /\ Enter(a, Entering("deactivate", v, TRUE))

\* update in place.
Edit(a, v) == v \in exists /\ Enter(a, Entering("edit", v, FALSE))

\* deactivate_active_for_name finds the rows that are active as it begins.
Deactivate(a) ==
    /\ txn[a].pc = "deactivate"
    /\ Becomes(a, [txn[a] EXCEPT !.pc = "deactivating", !.todo = active])

\* The transactions that have written row v and are open.
Writers(a, v) ==
    {b \in Others(a) : v \in txn[b].off \/ (txn[b].row = v /\ txn[b].held)}

\* A row found active is looked at again once its lock is free.
DeactivateRow(a, v) ==
    /\ txn[a].pc = "deactivating"
    /\ v \in txn[a].todo
    /\ Writers(a, v) = {}
    /\ Becomes(a, [txn[a] EXCEPT !.todo = @ \ {v}, !.off = @ \cup ({v} \cap active)])

Deactivated(a) ==
    /\ txn[a].pc = "deactivating"
    /\ txn[a].todo = {}
    /\ Becomes(a, [txn[a] EXCEPT !.pc = IF txn[a].row \in exists THEN "lock" ELSE "insert"])

\* Unique (name, version): another's insert of the version is waited for.
Inserters(a) == {b \in Others(a) : txn[b].new /\ txn[b].row = txn[a].row}

How(a) == IF txn[a].met THEN "overlapped" ELSE "alone"

Insert(a) ==
    /\ txn[a].pc = "insert"
    /\ Inserters(a) = {}
    /\ IF txn[a].row \in exists
       THEN Rollback(a, How(a)) /\ UNCHANGED faults
       ELSE Becomes(a, [txn[a] EXCEPT !.new = TRUE, !.pc = IF txn[a].on THEN "light" ELSE "commit"])

\* row.active = True: the row is locked first.
LockRow(a) ==
    /\ txn[a].pc \in {"lock", "edit"}
    /\ Writers(a, txn[a].row) = {}
    /\ Becomes(a, [txn[a] EXCEPT !.held = TRUE, !.pc = IF txn[a].on THEN "light" ELSE "commit"])

\* Unique (name) where active: the open transactions that decide whether a's row may
\* be active, and the committed rows that forbid it.
Deciders(a) ==
    {b \in Others(a) : txn[b].lit \/ txn[b].off \cap active # {}}

Forbidding(a) == active \ (txn[a].off \cup {txn[a].row})

Light(a) ==
    /\ txn[a].pc = "light"
    /\ Deciders(a) = {}
    /\ IF Forbidding(a) # {}
       THEN Rollback(a, How(a)) /\ UNCHANGED faults
       ELSE Becomes(a, [txn[a] EXCEPT !.lit = TRUE, !.pc = "commit"])

\* Mutant of Commit: what has been deactivated is committed on its own.
CommitHalves(a) ==
    \/ /\ txn[a].pc = "deactivating" /\ txn[a].off # {}
       /\ active' = active \ txn[a].off
       /\ txn' = [txn EXCEPT ![a].off = {}]
       /\ UNCHANGED <<exists, refused, faults>>
    \/ /\ txn[a].pc = "commit"
       /\ exists' = IF txn[a].new THEN exists \cup {txn[a].row} ELSE exists
       /\ active' = (active \ txn[a].off) \cup (IF txn[a].lit THEN {txn[a].row} ELSE {})
       /\ txn' = [txn EXCEPT ![a] = Idle]
       /\ UNCHANGED <<refused, faults>>

\* With the audit entry.
Commit(a) ==
    /\ txn[a].pc = "commit"
    /\ exists' = IF txn[a].new THEN exists \cup {txn[a].row} ELSE exists
    /\ active' = (active \ txn[a].off) \cup (IF txn[a].lit THEN {txn[a].row} ELSE {})
    /\ txn' = [txn EXCEPT ![a] = Idle]
    /\ UNCHANGED <<refused, faults>>

-----------------------------------------------------------------------------
(* What breaks a transaction off                                           *)

\* The transactions that a waits for.
Blockers(a) ==
    CASE txn[a].pc = "deactivating"     -> UNION {Writers(a, v) : v \in txn[a].todo}
      [] txn[a].pc = "insert"           -> Inserters(a)
      [] txn[a].pc \in {"lock", "edit"} -> Writers(a, txn[a].row)
      [] txn[a].pc = "light"            -> Deciders(a)
      [] OTHER                          -> {}

\* PostgreSQL breaks a circle of waiting transactions.
Circle(S) == S # {} /\ \A a \in S : Blockers(a) \cap S # {}

Victim(a) ==
    /\ \E S \in SUBSET Admins : a \in S /\ Circle(S) /\ \A T \in SUBSET S : Circle(T) => T = S
    /\ Rollback(a, How(a))
    /\ UNCHANGED faults

\* The process dies, or the connection is lost.
Fault(a) ==
    /\ Open(a)
    /\ faults < MaxFaults
    /\ faults' = faults + 1
    /\ Rollback(a, "no")

-----------------------------------------------------------------------------

Request(a) ==
    \/ \E on \in BOOLEAN : Create(a, on)
    \/ CreateCopy(a) \/ Seed(a)
    \/ \E v \in Versions : Activate(a, v) \/ Edit(a, v)

Statement(a) ==
    \/ Deactivate(a) \/ Deactivated(a)
    \/ \E v \in Versions : DeactivateRow(a, v)
    \/ Insert(a) \/ LockRow(a) \/ Light(a) \/ Commit(a)

Next == \E a \in Admins : Request(a) \/ Statement(a) \/ Victim(a) \/ Fault(a)

Spec == Init /\ [][Next]_vars

-----------------------------------------------------------------------------
(* Properties                                                              *)

\* The variables hold what the code can put into them.
TypeOK ==
    /\ exists \subseteq Versions
    /\ active \subseteq exists
    /\ txn \in [Admins -> Txn]
    /\ refused \in [Admins -> Outcome]
    /\ faults \in 0..MaxFaults

\* A call that names the prompt alone finds one version, and from the first activation
\* on it always finds one: no commit leaves two active, or none where there was one
\* (PromptService.create, activate, resolve).
OneStaysActive ==
    [][Cardinality(active') <= 1 /\ (active # {} => active' # {})]_vars

\* The database refuses a request only because another one was open beside it: an
\* administrator alone never meets a conflict, or a deadlock.
ConflictsOverlap == \A a \in Admins : refused[a] # "alone"

=============================================================================
