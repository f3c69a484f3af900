---------------------------- MODULE RefreshTokens ----------------------------
(***************************************************************************)
(* The sessions of one user: login, refresh with rotation, the answer to   *)
(* the reuse of a rotated token, and logout, as AuthService runs them over *)
(* the refresh_tokens table and the denylist in Redis, for one browser     *)
(* whose tabs share the refresh cookie and may have several requests under *)
(* way.                                                                    *)
(*                                                                         *)
(* A request is a transaction of its own thread: it reads a token row once *)
(* and later updates it, the row is locked from the UPDATE to the commit,  *)
(* while Redis sees each command at once.  Every action is one statement,  *)
(* one Redis command, one commit, or one step of the browser.              *)
(***************************************************************************)
EXTENDS Naturals, FiniteSets

CONSTANTS
    Requests,     \* requests the browser may have under way at once
    MaxOpened,    \* bound: logins and refreshes sent
    Failures      \* may a statement, a Redis command or a commit fail?

ASSUME ConstantsAssumption ==
    /\ IsFiniteSet(Requests)
    /\ MaxOpened \in Nat
    /\ Failures \in BOOLEAN

VARIABLES
    row,         \* row[k]: the committed refresh_tokens row of token k
    issued,      \* tokens issued so far: those are 1..issued
    denied,      \* tokens on the denylist
    expired,     \* tokens past expires_at
    userActive,  \* users.status is active
    jar,         \* the token in the refresh cookie
    pc,          \* pc[q]: what request q is about to do
    plan,        \* plan[q]: what its transaction is for
    token,       \* token[q]: the token of its cookie
    targets,     \* targets[q]: the rows its wipe has found
    out,         \* out[q]: what its answer does to the cookie
    opened,      \* logins and refreshes sent so far
    logins,      \* logins committed so far
    troubles     \* what has happened that no single request sees

tokenVars   == <<row, issued, denied, expired, userActive>>
requestVars == <<pc, plan, token, targets, out>>
history     == <<opened, logins, troubles>>
vars        == <<tokenVars, jar, requestVars, history>>

-----------------------------------------------------------------------------

NoToken == 0
Tokens  == 1..MaxOpened

Row == [status : {"absent", "live", "revoked"},
        next   : {NoToken} \cup Tokens]              \* replaced_by_id

AbsentRow == [status |-> "absent", next |-> NoToken]
LiveRow   == [status |-> "live", next |-> NoToken]

\* Set-Cookie in an answer; an error sets none.
Cookie == [set : BOOLEAN, token : {NoToken} \cup Tokens]

KeepCookie   == [set |-> FALSE, token |-> NoToken]
SetCookie(k) == [set |-> TRUE, token |-> k]

Live == {k \in Tokens : row[k].status = "live"}

\* The token a transaction inserts.
NewToken == issued + 1

Plans == {"none",
          "issue",     \* login
          "rotate",    \* refresh: revoke, deny, create, link
          "drop",      \* refresh with an expired token: revoke
          "suspend",   \* refresh of an inactive user: revoke, deny
          "logout",    \* revoke, deny
          "forget"}    \* logout with a revoked token: deny

PC == {"idle", "sent", "checking", "reporting", "detected", "wiping",
       "revoking", "denying", "committing", "replying"}

Troubles == {"overlap",      \* two requests were under way at once
             "lost reply",   \* the browser missed an answer
             "failure",      \* a transaction was rolled back
             "suspension"}   \* the user was not active at some time

Idle(q) == pc[q] = "idle"

\* Request q has updated the row of k and not ended its transaction.
Holds(q, k) ==
    /\ token[q] = k
    /\ plan[q] \in {"rotate", "drop", "suspend", "logout"}
    /\ pc[q] \in {"denying", "committing"}

Unlocked(k) == \A q \in Requests : ~ Holds(q, k)

Goto(q, label) == pc' = [pc EXCEPT ![q] = label]

Answer(q, cookie) ==
    /\ Goto(q, "replying")
    /\ out'     = [out EXCEPT ![q] = cookie]
    /\ targets' = [targets EXCEPT ![q] = {}]

Init ==
    /\ row        = [k \in Tokens |-> AbsentRow]
    /\ issued     = 0
    /\ denied     = {}
    /\ expired    = {}
    /\ userActive = TRUE
    /\ jar        = NoToken
    /\ pc         = [q \in Requests |-> "idle"]
    /\ plan       = [q \in Requests |-> "none"]
    /\ token      = [q \in Requests |-> NoToken]
    /\ targets    = [q \in Requests |-> {}]
    /\ out        = [q \in Requests |-> KeepCookie]
    /\ opened     = 0
    /\ logins     = 0
    /\ troubles   = {}

-----------------------------------------------------------------------------
(* The browser                                                             *)

\* A request is sent with the cookie of this moment.
Send(q, purpose, label) ==
    /\ Idle(q)
    /\ pc'       = [pc EXCEPT ![q] = label]
    /\ plan'     = [plan EXCEPT ![q] = purpose]
    /\ token'    = [token EXCEPT ![q] = IF purpose = "issue" THEN NoToken ELSE jar]
    /\ troubles' = IF \A r \in Requests : Idle(r) THEN troubles
                   ELSE troubles \cup {"overlap"}
    /\ UNCHANGED <<tokenVars, jar, targets, out, logins>>

\* The password is right and the user active; other logins leave no session behind.
Login(q) ==
    /\ userActive
    /\ opened < MaxOpened
    /\ opened' = opened + 1
    /\ Send(q, "issue", "committing")

\* tryRefresh, or the refresh when the page is opened.
Refresh(q) ==
    /\ jar # NoToken
    /\ opened < MaxOpened
    /\ opened' = opened + 1
    /\ Send(q, "rotate", "sent")

\* Without a cookie a logout only clears it.
Logout(q) ==
    /\ IF jar # NoToken THEN Send(q, "logout", "sent") ELSE Send(q, "forget", "committing")
    /\ UNCHANGED opened

\* The request is over.
Finish(q) ==
    /\ pc'    = [pc EXCEPT ![q] = "idle"]
    /\ plan'  = [plan EXCEPT ![q] = "none"]
    /\ token' = [token EXCEPT ![q] = NoToken]
    /\ out'   = [out EXCEPT ![q] = KeepCookie]
    /\ UNCHANGED <<tokenVars, targets, opened, logins>>

\* The answer sets or clears the cookie, or leaves it alone.
Receive(q) ==
    /\ pc[q] = "replying"
    /\ jar' = IF out[q].set THEN out[q].token ELSE jar
    /\ Finish(q)
    /\ UNCHANGED troubles

\* The connection breaks, the tab is closed, or the server fails after its commit.
LoseReply(q) ==
    /\ pc[q] = "replying"
    /\ Finish(q)
    /\ troubles' = troubles \cup {"lost reply"}
    /\ UNCHANGED jar

-----------------------------------------------------------------------------
(* AuthService.refresh                                                     *)

Refreshing(q) == pc[q] = "sent" /\ plan[q] = "rotate"

\* The row is not revoked.  The user's status is read with it.
RefreshAccepted(q) ==
    /\ Refreshing(q)
    /\ row[token[q]].status = "live"
    /\ plan' = [plan EXCEPT ![q] = IF userActive THEN "rotate" ELSE "suspend"]
    /\ Goto(q, "checking")
    /\ UNCHANGED <<tokenVars, jar, token, targets, out, history>>

\* Mutant of RefreshRejected: any revoked token counts as a replay.
RefreshRejectedAsReplay(q) ==
    /\ Refreshing(q)
    /\ row[token[q]].status = "revoked"
    /\ row[token[q]].next = NoToken
    /\ Goto(q, "reporting")
    /\ UNCHANGED <<tokenVars, jar, plan, token, targets, out, history>>

\* Revoked by a logout, a wipe or an expiry: nothing to do.
RefreshRejected(q) ==
    /\ Refreshing(q)
    /\ row[token[q]].status = "revoked"
    /\ row[token[q]].next = NoToken
    /\ Answer(q, KeepCookie)
    /\ UNCHANGED <<tokenVars, jar, plan, token, history>>

\* Revoked by a rotation: reuse.
RefreshReplayed(q) ==
    /\ Refreshing(q)
    /\ row[token[q]].status = "revoked"
    /\ row[token[q]].next # NoToken
    /\ Goto(q, "reporting")
    /\ UNCHANGED <<tokenVars, jar, plan, token, targets, out, history>>

\* setex with the token's remaining life, none when that is over.
DenyToken(k) == denied' = denied \cup ({k} \ expired)

ReportReplay(q) ==
    /\ pc[q] = "reporting"
    /\ DenyToken(token[q])
    /\ Goto(q, "detected")
    /\ UNCHANGED <<row, issued, expired, userActive, jar, plan, token, targets, out, history>>

\* _is_jti_denied: a token that is not revoked in the row is on the denylist.
FoundDenied(q) ==
    /\ pc[q] = "checking"
    /\ token[q] \in denied
    /\ Goto(q, "detected")
    /\ UNCHANGED <<tokenVars, jar, plan, token, targets, out, history>>

\* revoke_all_for_user: its UPDATE finds the rows committed by now.
StartWipe(q) ==
    /\ pc[q] = "detected"
    /\ targets' = [targets EXCEPT ![q] = Live]
    /\ Goto(q, "wiping")
    /\ UNCHANGED <<tokenVars, jar, plan, token, out, history>>

\* It has waited for the rows that other transactions had locked, and commits.
EndWipe(q) ==
    /\ pc[q] = "wiping"
    /\ \A k \in targets[q] : Unlocked(k)
    /\ row' = [k \in Tokens |-> IF k \in targets[q]
                                THEN [row[k] EXCEPT !.status = "revoked"] ELSE row[k]]
    /\ Answer(q, KeepCookie)
    /\ UNCHANGED <<issued, denied, expired, userActive, jar, plan, token, history>>

\* Not denied; an expired token is only revoked.
NotDenied(q) ==
    /\ pc[q] = "checking"
    /\ token[q] \notin denied
    /\ plan' = [plan EXCEPT ![q] = IF token[q] \in expired THEN "drop" ELSE @]
    /\ Goto(q, "revoking")
    /\ UNCHANGED <<tokenVars, jar, token, targets, out, history>>

-----------------------------------------------------------------------------
(* AuthService.logout                                                      *)

\* Mutant of LogoutReads: the row is not revoked, only the token denied.
LogoutReadsForgetting(q) ==
    /\ pc[q] = "sent" /\ plan[q] = "logout"
    /\ plan' = [plan EXCEPT ![q] = "forget"]
    /\ Goto(q, "denying")
    /\ UNCHANGED <<tokenVars, jar, token, targets, out, history>>

LogoutReads(q) ==
    /\ pc[q] = "sent" /\ plan[q] = "logout"
    /\ IF row[token[q]].status = "live"
       THEN Goto(q, "revoking") /\ UNCHANGED plan
       ELSE Goto(q, "denying") /\ plan' = [plan EXCEPT ![q] = "forget"]
    /\ UNCHANGED <<tokenVars, jar, token, targets, out, history>>

-----------------------------------------------------------------------------
(* What refresh and logout do to the token they present                    *)

\* Mutant of Revoke: the UPDATE is left to the commit, no lock is taken here.
RevokeLater(q) ==
    /\ pc[q] = "revoking"
    /\ pc' = [pc EXCEPT ![q] = IF plan[q] = "drop" THEN "committing" ELSE "denying"]
    /\ UNCHANGED <<tokenVars, jar, plan, token, targets, out, history>>

\* revoke flushes its UPDATE, which waits for the lock of the row.
Revoke(q) ==
    /\ pc[q] = "revoking"
    /\ Unlocked(token[q])
    /\ pc' = [pc EXCEPT ![q] = IF plan[q] = "drop" THEN "committing" ELSE "denying"]
    /\ UNCHANGED <<tokenVars, jar, plan, token, targets, out, history>>

\* Mutant of Deny: the jti of the new row is denied.
DenySuccessor(q) ==
    /\ pc[q] = "denying"
    /\ DenyToken(NewToken)
    /\ Goto(q, "committing")
    /\ UNCHANGED <<row, issued, expired, userActive, jar, plan, token, targets, out, history>>

Deny(q) ==
    /\ pc[q] = "denying"
    /\ DenyToken(token[q])
    /\ Goto(q, "committing")
    /\ UNCHANGED <<row, issued, expired, userActive, jar, plan, token, targets, out, history>>

\* _issue_session commits.
CommitLogin(q) ==
    /\ pc[q] = "committing" /\ plan[q] = "issue"
    /\ row'    = [row EXCEPT ![NewToken] = LiveRow]
    /\ issued' = NewToken
    /\ logins' = logins + 1
    /\ Answer(q, SetCookie(NewToken))
    /\ UNCHANGED <<denied, expired, userActive, jar, plan, token, opened, troubles>>

\* Mutant of CommitRotation: the old token is linked but left unrevoked.
CommitRotationUnrevoked(q) ==
    /\ pc[q] = "committing" /\ plan[q] = "rotate"
    /\ row' = [row EXCEPT ![token[q]].next = NewToken, ![NewToken] = LiveRow]
    /\ issued' = NewToken
    /\ Answer(q, SetCookie(NewToken))
    /\ UNCHANGED <<denied, expired, userActive, jar, plan, token, history>>

\* The successor is inserted and linked, and all of it committed.
CommitRotation(q) ==
    /\ pc[q] = "committing" /\ plan[q] = "rotate"
    /\ row' = [row EXCEPT ![token[q]] = [status |-> "revoked", next |-> NewToken],
                          ![NewToken] = LiveRow]
    /\ issued' = NewToken
    /\ Answer(q, SetCookie(NewToken))
    /\ UNCHANGED <<denied, expired, userActive, jar, plan, token, history>>

\* Mutant of CommitRetirement: the commit is forgotten.
CommitRetirementLost(q) ==
    /\ pc[q] = "committing" /\ plan[q] \in {"drop", "suspend", "logout"}
    /\ Answer(q, IF plan[q] = "logout" THEN SetCookie(NoToken) ELSE KeepCookie)
    /\ UNCHANGED <<tokenVars, jar, plan, token, history>>

\* The refresh of an expired token, or of an inactive user, ends in an error; a
\* logout clears the cookie.
CommitRetirement(q) ==
    /\ pc[q] = "committing" /\ plan[q] \in {"drop", "suspend", "logout"}
    /\ row' = [row EXCEPT ![token[q]].status = "revoked"]
    /\ Answer(q, IF plan[q] = "logout" THEN SetCookie(NoToken) ELSE KeepCookie)
    /\ UNCHANGED <<issued, denied, expired, userActive, jar, plan, token, history>>

CommitNothing(q) ==
    /\ pc[q] = "committing" /\ plan[q] = "forget"
    /\ Answer(q, SetCookie(NoToken))
    /\ UNCHANGED <<tokenVars, jar, plan, token, history>>

\* A statement, a Redis command or the commit raises: the session is closed, which
\* rolls the transaction back; what Redis has been told stays.
Fail(q) ==
    /\ Failures
    /\ pc[q] \notin {"idle", "replying"}
    /\ Answer(q, KeepCookie)
    /\ troubles' = troubles \cup {"failure"}
    /\ UNCHANGED <<tokenVars, jar, plan, token, opened, logins>>

-----------------------------------------------------------------------------
(* The surroundings                                                        *)

\* expires_at passes, and with it the life of the denylist entry.  All tokens live
\* equally long, so they expire in the order of their issue.
Expire(k) ==
    /\ k \in 1..issued /\ k \notin expired
    /\ \A i \in 1..(k - 1) : i \in expired
    /\ expired' = expired \cup {k}
    /\ denied'  = denied \ {k}
    /\ UNCHANGED <<row, issued, userActive, jar, requestVars, history>>

\* An administrator changes users.status.
Suspend ==
    /\ userActive
    /\ userActive' = FALSE
    /\ troubles'   = troubles \cup {"suspension"}
    /\ UNCHANGED <<row, issued, denied, expired, jar, requestVars, opened, logins>>

Reactivate ==
    /\ ~ userActive
    /\ userActive' = TRUE
    /\ UNCHANGED <<row, issued, denied, expired, jar, requestVars, history>>

\* Redis restarts without its data.
LoseDenylist ==
    /\ denied # {}
    /\ denied' = {}
    /\ UNCHANGED <<row, issued, expired, userActive, jar, requestVars, history>>

-----------------------------------------------------------------------------

Handle(q) ==
    \/ RefreshAccepted(q) \/ RefreshRejected(q) \/ RefreshReplayed(q)
    \/ ReportReplay(q) \/ FoundDenied(q) \/ NotDenied(q)
    \/ StartWipe(q) \/ EndWipe(q)
    \/ LogoutReads(q)
    \/ Revoke(q) \/ Deny(q)
    \/ CommitLogin(q) \/ CommitRotation(q) \/ CommitRetirement(q) \/ CommitNothing(q)
    \/ Fail(q)

Next ==
    \/ \E q \in Requests : \/ Login(q) \/ Refresh(q) \/ Logout(q)
                           \/ Receive(q) \/ LoseReply(q)
                           \/ Handle(q)
    \/ \E k \in Tokens : Expire(k)
    \/ Suspend \/ Reactivate \/ LoseDenylist

Spec == Init /\ [][Next]_vars

-----------------------------------------------------------------------------
(* Properties                                                              *)

\* No two transactions hold the lock of one row.
LocksExclude ==
    \A q, r \in Requests : \A k \in Tokens : Holds(q, k) /\ Holds(r, k) => q = r

TokensType ==
    /\ row        \in [Tokens -> Row]
    /\ issued     \in 0..MaxOpened
    /\ denied     \subseteq Tokens
    /\ expired    \subseteq Tokens
    /\ userActive \in BOOLEAN
    /\ jar        \in {NoToken} \cup Tokens

RequestsType ==
    /\ pc      \in [Requests -> PC]
    /\ plan    \in [Requests -> Plans]
    /\ token   \in [Requests -> {NoToken} \cup Tokens]
    /\ targets \in [Requests -> SUBSET Tokens]
    /\ out     \in [Requests -> Cookie]

HistoryType ==
    /\ opened   \in 0..MaxOpened
    /\ logins   \in 0..MaxOpened
    /\ troubles \subseteq Troubles

\* Every variable has its type, and row locks exclude each other.
TypeOK == TokensType /\ RequestsType /\ HistoryType /\ LocksExclude

\* "Rotate in one transaction: revoke old -> create new -> link chain": a token that
\* names a successor is revoked, the successor was issued after it, and no other
\* token names the same one.
ChainsWhole ==
    \A k \in Tokens : row[k].next # NoToken =>
        /\ row[k].status = "revoked"
        /\ row[k].next \in (k + 1)..issued
        /\ \A i \in Tokens \ {k} : row[i].next # row[k].next

\* The denylist and the table agree: a denied token is revoked, or a transaction that
\* will revoke it holds its row, unless such a transaction has failed.
DeniedIsRetired ==
    \A k \in denied : \/ row[k].status = "revoked"
                      \/ ~ Unlocked(k)
                      \/ "failure" \in troubles

\* A client is told of a logout or given a successor only when the token it came with
\* is retired, whatever another request has done to that token in between.
AnswersAreTrue ==
    \A q \in Requests :
        pc[q] = "replying" /\ out[q].set /\ token[q] # NoToken
            => row[token[q]].status = "revoked"

\* Requests that do not overlap leave one live token for each login at most.
LiveAccounted ==
    "overlap" \notin troubles => Cardinality(Live) <= logins

\* The alarm has a cause: all sessions of the user are ended only after an answer was
\* lost, a transaction failed, or two requests overlapped.
AlarmHasCause ==
    \A q \in Requests :
        pc[q] \in {"reporting", "detected", "wiping"}
            => troubles \cap {"overlap", "lost reply", "failure"} # {}

\* A browser whose requests met no trouble stays logged in: between requests its
\* cookie names a live token that is not denied, until it expires.
StaysLoggedIn ==
    /\ troubles = {}
    /\ jar # NoToken
    /\ \A q \in Requests : Idle(q)
    => jar \in expired \/ jar \in Live \ denied

\* "Logout-only revoke (no replaced_by) => invalid, no family wipe": what is taken for
\* the reuse of a token is the reuse of one that has been rotated, or is just being.
AlarmMeansRotated ==
    \A q \in Requests : pc[q] = "detected" =>
        \/ row[token[q]].next # NoToken
        \/ \E r \in Requests : plan[r] = "rotate" /\ Holds(r, token[q])
=============================================================================
