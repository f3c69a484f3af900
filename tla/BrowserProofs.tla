---------------------------- MODULE BrowserProofs ----------------------------
(***************************************************************************)
(* Theorems about the two modules in which the browser acts.               *)
(*                                                                         *)
(* RefreshTokens, its session: for any finite set of overlapping requests, *)
(* any number of logins and refreshes, and with every failure.             *)
(*                                                                         *)
(* JobPolling, its console: for any jobs and any intervals, variables keep *)
(* their types, and every copy of a status that the client or an answer    *)
(* under way holds is true once it is a decision; and what the module      *)
(* takes for granted of the backend is what OcrPromise promises.           *)
(***************************************************************************)
EXTENDS RefreshTokens, JobPolling, FiniteSetTheorems, TLAPS

-----------------------------------------------------------------------------
(* The inductive invariant                                                 *)

\* Requests that are going to issue a token.
Pending == {q \in Requests : /\ plan[q] \in {"issue", "rotate"}
                             /\ pc[q] \notin {"idle", "replying"}}

\* The bound on logins and refreshes is a bound on tokens.
Accounted ==
    /\ Cardinality(Pending) + issued <= opened
    /\ logins <= issued

\* Only tokens that were issued have a row, and only they are held by anybody.
Issued == {NoToken} \cup 1..issued

OnlyIssued ==
    /\ jar \in Issued
    /\ \A k \in Tokens : row[k].status = "absent" <=> k \notin Issued
    /\ \A q \in Requests :
          token[q] \in Issued /\ out[q].token \in Issued /\ targets[q] \subseteq Issued

\* What a request is for fits where it is, and all but a login and a logout without a
\* cookie have a token.
Coherent ==
    \A q \in Requests :
        /\ plan[q] = "issue" => token[q] = NoToken /\ pc[q] \in {"committing", "replying"}
        /\ pc[q] \notin {"idle", "committing", "replying"} => token[q] # NoToken
        /\ pc[q] = "committing" /\ token[q] = NoToken => plan[q] \in {"issue", "forget"}
        /\ pc[q] = "checking" => plan[q] \in {"rotate", "suspend"}
        /\ pc[q] = "revoking" => plan[q] \in {"rotate", "suspend", "drop", "logout"}
        /\ pc[q] = "denying" => plan[q] \in {"rotate", "suspend", "logout", "forget"}

\* The alarm, and a logout that finds nothing to revoke, concern a revoked token.
Retired ==
    \A q \in Requests :
        /\ pc[q] = "reporting" => row[token[q]].status = "revoked"
        /\ plan[q] = "forget" /\ token[q] # NoToken => row[token[q]].status = "revoked"

-----------------------------------------------------------------------------
(* Numbers and sets                                                        *)

LEMMA Bound == MaxOpened \in Nat /\ IsFiniteSet(Requests)
  BY ConstantsAssumption, Zenon DEF ConstantsAssumption

LEMMA NoTokenIsNone == NoToken \notin Tokens /\ NoToken \notin 1..MaxOpened
  BY Bound DEF NoToken, Tokens

LEMMA PendingFinite == IsFiniteSet(Pending) /\ Cardinality(Pending) \in Nat
<1>1. Pending \in SUBSET Requests
  BY DEF Pending
<1> QED
  BY <1>1, Bound, FS_Subset, FS_CardinalityType

\* A request that is about to commit an insertion has a token number to spare.
LEMMA NumberToSpare ==
    ASSUME TypeOK, Accounted, NEW q \in Pending
    PROVE  issued < opened /\ NewToken \in Tokens /\ NewToken \notin Issued /\ NewToken # NoToken
<1>1. Cardinality(Pending) >= 1
  BY PendingFinite, FS_EmptySet
<1>2. issued \in Nat /\ opened \in Nat /\ opened <= MaxOpened
  BY Bound DEF TypeOK, TokensType, HistoryType
<1>3. issued < opened
  BY <1>1, <1>2, PendingFinite DEF Accounted
<1> QED
  BY <1>2, <1>3, Bound DEF NewToken, Tokens, Issued, NoToken

-----------------------------------------------------------------------------
(* Which actions change what                                               *)

LEMMA RowSteps ==
    [Next]_vars =>
        \/ UNCHANGED <<row, issued>>
        \/ \E q \in Requests : CommitLogin(q) \/ CommitRotation(q)
                               \/ CommitRetirement(q) \/ EndWipe(q)
  BY DEF Next, Handle, vars, tokenVars, requestVars, history, Login, Refresh, Logout, Send,
         Receive, LoseReply, Finish, RefreshAccepted, RefreshRejected, RefreshReplayed,
         ReportReplay, FoundDenied, NotDenied, StartWipe, LogoutReads, Revoke, Deny,
         CommitNothing, Fail, Expire, Suspend, Reactivate, LoseDenylist, Answer, Goto

Step(q) ==
    \/ Login(q) \/ Refresh(q) \/ Logout(q) \/ Receive(q) \/ LoseReply(q)
    \/ Handle(q)

Surroundings ==
    \/ UNCHANGED vars
    \/ \E k \in Tokens : Expire(k)
    \/ Suspend \/ Reactivate \/ LoseDenylist

OthersUnchanged(q) ==
    \A r \in Requests \ {q} :
        /\ pc'[r] = pc[r] /\ plan'[r] = plan[r] /\ token'[r] = token[r]
        /\ targets'[r] = targets[r] /\ out'[r] = out[r]

\* A request changes nothing about another, and the surroundings change no request.
LEMMA OwnStep ==
    ASSUME RequestsType, [Next]_vars
    PROVE  \/ Surroundings /\ UNCHANGED requestVars
           \/ \E q \in Requests : Step(q) /\ OthersUnchanged(q)
<1> USE DEF OthersUnchanged
<1>1. ASSUME NEW q \in Requests, Login(q) \/ Refresh(q) \/ Logout(q) \/ Receive(q) \/ LoseReply(q)
      PROVE  OthersUnchanged(q)
  BY <1>1 DEF Login, Refresh, Logout, Send, Receive, LoseReply, Finish, RequestsType
<1>2. ASSUME NEW q \in Requests, Handle(q)
      PROVE  OthersUnchanged(q)
  BY <1>2 DEF Handle, history, RefreshAccepted, RefreshRejected, RefreshReplayed, ReportReplay,
      FoundDenied, NotDenied, StartWipe, EndWipe, LogoutReads, Revoke, Deny, CommitLogin,
      CommitRotation, CommitRetirement, CommitNothing, Fail, Answer, Goto, RequestsType
<1>3. CASE Surroundings
  BY <1>3 DEF Surroundings, vars, requestVars, Suspend, Reactivate, LoseDenylist, Expire
<1> HIDE DEF OthersUnchanged
<1> QED
  BY <1>1, <1>2, <1>3 DEF Next, Step, Surroundings
-----------------------------------------------------------------------------
(* What the four actions that write rows do to them                        *)

LEMMA RecordFacts ==
    ASSUME NEW r \in Row
    PROVE  /\ [r EXCEPT !.status = "revoked"] \in Row
           /\ [r EXCEPT !.status = "revoked"].status = "revoked"
           /\ [r EXCEPT !.status = "revoked"].next = r.next
  BY DEF Row

LEMMA LiveRowType == LiveRow \in Row /\ LiveRow.status = "live" /\ LiveRow.next = NoToken
  BY DEF LiveRow, Row

\* The successor of a rotation: token NewToken, alive, and nobody else's row changes.
Inserted ==
    /\ issued' = NewToken
    /\ row'[NewToken] = LiveRow
    /\ row' \in [Tokens -> Row]

LEMMA LoginRows ==
    ASSUME TypeOK, Accounted, NEW q \in Requests, CommitLogin(q)
    PROVE  /\ Inserted /\ NewToken \in Tokens /\ NewToken \notin Issued
           /\ \A k \in Tokens \ {NewToken} : row'[k] = row[k]
<1>1. q \in Pending
  BY DEF CommitLogin, Pending
<1>2. NewToken \in Tokens /\ NewToken \notin Issued
  BY <1>1, NumberToSpare
<1>3. row \in [Tokens -> Row] /\ row' = [row EXCEPT ![NewToken] = LiveRow]
  BY DEF TypeOK, TokensType, CommitLogin
<1>4. issued' = NewToken
  BY DEF CommitLogin
<1> QED
  BY <1>2, <1>3, <1>4, LiveRowType DEF Inserted

LEMMA RotationRows ==
    ASSUME TypeOK, Accounted, OnlyIssued, Coherent, NEW q \in Requests, CommitRotation(q)
    PROVE  /\ Inserted /\ NewToken \in Tokens /\ NewToken \notin Issued
           /\ token[q] \in Tokens /\ token[q] \in 1..issued
           /\ row'[token[q]] = [status |-> "revoked", next |-> NewToken]
           /\ \A k \in Tokens \ {NewToken, token[q]} : row'[k] = row[k]
<1>1. q \in Pending
  BY DEF CommitRotation, Pending
<1>2. NewToken \in Tokens /\ NewToken \notin Issued
  BY <1>1, NumberToSpare
<1>3. token[q] \in Tokens /\ token[q] \in 1..issued
  BY DEF TypeOK, RequestsType, Coherent, CommitRotation, OnlyIssued, Issued
<1>4. [status |-> "revoked", next |-> NewToken] \in Row
  BY <1>2 DEF Row
<1>5. token[q] # NewToken
  BY <1>2, <1>3 DEF Issued
<1>6. row \in [Tokens -> Row]
  BY DEF TypeOK, TokensType
<1>7. row' = [row EXCEPT ![token[q]] = [status |-> "revoked", next |-> NewToken],
                         ![NewToken] = LiveRow]
  BY DEF CommitRotation
<1>8. issued' = NewToken
  BY DEF CommitRotation
<1> HIDE DEF NewToken
<1> QED
  BY <1>2, <1>3, <1>4, <1>5, <1>6, <1>7, <1>8, LiveRowType DEF Inserted

LEMMA RetirementRows ==
    ASSUME TypeOK, OnlyIssued, Coherent, NEW q \in Requests, CommitRetirement(q)
    PROVE  /\ UNCHANGED issued /\ row' \in [Tokens -> Row]
           /\ token[q] \in Tokens /\ token[q] \in 1..issued
           /\ row'[token[q]].status = "revoked" /\ row'[token[q]].next = row[token[q]].next
           /\ \A k \in Tokens \ {token[q]} : row'[k] = row[k]
<1>1. token[q] \in Tokens /\ token[q] \in 1..issued
  BY DEF TypeOK, RequestsType, Coherent, CommitRetirement, OnlyIssued, Issued
<1>2. row \in [Tokens -> Row] /\ row[token[q]] \in Row
  BY <1>1 DEF TypeOK, TokensType
<1>3. row' = [row EXCEPT ![token[q]] = [row[token[q]] EXCEPT !.status = "revoked"]]
  BY <1>1, <1>2, Zenon DEF CommitRetirement
<1>4. UNCHANGED issued
  BY DEF CommitRetirement
<1> DEFINE New == [row[token[q]] EXCEPT !.status = "revoked"]
<1>5. New \in Row /\ New.status = "revoked" /\ New.next = row[token[q]].next
  BY <1>2, RecordFacts
<1>6. row' = [row EXCEPT ![token[q]] = New]
  BY <1>3
<1> HIDE DEF New
<1> QED
  BY <1>1, <1>2, <1>4, <1>5, <1>6

LEMMA WipeRows ==
    ASSUME TypeOK, OnlyIssued, NEW q \in Requests, EndWipe(q)
    PROVE  /\ UNCHANGED issued /\ row' \in [Tokens -> Row]
           /\ targets[q] \subseteq Issued
           /\ \A k \in Tokens : \/ row'[k] = row[k]
                                \/ /\ k \in targets[q]
                                   /\ row'[k].status = "revoked" /\ row'[k].next = row[k].next
<1> DEFINE New(k) == [row[k] EXCEPT !.status = "revoked"]
<1>1. \A k \in Tokens : row[k] \in Row /\ New(k) \in Row /\ New(k).status = "revoked"
                                     /\ New(k).next = row[k].next
  <2>1. \A k \in Tokens : row[k] \in Row
    BY DEF TypeOK, TokensType
  <2> QED
    BY <2>1, RecordFacts
<1>2. row' = [k \in Tokens |-> IF k \in targets[q] THEN New(k) ELSE row[k]]
  BY DEF EndWipe
<1>3. UNCHANGED issued /\ targets[q] \subseteq Issued
  BY DEF EndWipe, OnlyIssued
<1> HIDE DEF New
<1> QED
  BY <1>1, <1>2, <1>3

\* Numbers only grow, revoked rows stay revoked, and the table holds what was issued.
LEMMA RowsStep ==
    ASSUME TypeOK, Accounted, OnlyIssued, Coherent, [Next]_vars
    PROVE  /\ row' \in [Tokens -> Row]
           /\ issued' \in 0..MaxOpened /\ Issued \subseteq Issued'
           /\ \A k \in Tokens : row'[k].status = "absent" <=> k \notin Issued'
           /\ \A k \in Tokens : row[k].status = "revoked" => row'[k].status = "revoked"
<1>1. /\ row \in [Tokens -> Row] /\ issued \in 0..MaxOpened
      /\ \A k \in Tokens : row[k].status = "absent" <=> k \notin Issued
  BY DEF TypeOK, TokensType, OnlyIssued
<1>2. ASSUME Inserted, NewToken \in Tokens, NewToken \notin Issued
      PROVE  /\ issued' \in 0..MaxOpened /\ Issued \subseteq Issued'
             /\ NewToken \in Issued' /\ \A k \in Issued' \ {NewToken} : k \in Issued
             /\ row[NewToken].status = "absent" /\ row'[NewToken].status = "live"
  <2>1. issued' = issued + 1 /\ issued' \in 1..MaxOpened /\ issued \in Nat
    BY <1>1, <1>2, Bound DEF Inserted, NewToken, Tokens
  <2>2. Issued' = Issued \cup {NewToken}
    BY <2>1 DEF Issued, NewToken, NoToken
  <2>3. row[NewToken].status = "absent" /\ row'[NewToken].status = "live"
    BY <1>1, <1>2, LiveRowType DEF Inserted
  <2>4. issued' \in 0..MaxOpened
    BY <2>1, Bound
  <2> QED
    BY <2>2, <2>3, <2>4
<1>3. CASE UNCHANGED <<row, issued>>
  BY <1>1, <1>3 DEF Issued
<1>4. ASSUME NEW q \in Requests, CommitLogin(q)
      PROVE  /\ row' \in [Tokens -> Row]
             /\ issued' \in 0..MaxOpened /\ Issued \subseteq Issued'
             /\ \A k \in Tokens : row'[k].status = "absent" <=> k \notin Issued'
             /\ \A k \in Tokens : row[k].status = "revoked" => row'[k].status = "revoked"
  BY <1>1, <1>2, <1>4, LoginRows DEF Inserted
<1>5. ASSUME NEW q \in Requests, CommitRotation(q)
      PROVE  /\ row' \in [Tokens -> Row]
             /\ issued' \in 0..MaxOpened /\ Issued \subseteq Issued'
             /\ \A k \in Tokens : row'[k].status = "absent" <=> k \notin Issued'
             /\ \A k \in Tokens : row[k].status = "revoked" => row'[k].status = "revoked"
  <2>1. token[q] \in Issued /\ row'[token[q]].status = "revoked"
    BY <1>5, RotationRows DEF Issued
  <2> QED
    BY <1>1, <1>2, <1>5, <2>1, RotationRows DEF Inserted
<1>6. ASSUME NEW q \in Requests, CommitRetirement(q)
      PROVE  /\ row' \in [Tokens -> Row]
             /\ issued' \in 0..MaxOpened /\ Issued \subseteq Issued'
             /\ \A k \in Tokens : row'[k].status = "absent" <=> k \notin Issued'
             /\ \A k \in Tokens : row[k].status = "revoked" => row'[k].status = "revoked"
  <2>1. token[q] \in Issued /\ Issued' = Issued
    BY <1>6, RetirementRows DEF Issued
  <2> QED
    BY <1>1, <1>6, <2>1, RetirementRows
<1>7. ASSUME NEW q \in Requests, EndWipe(q)
      PROVE  /\ row' \in [Tokens -> Row]
             /\ issued' \in 0..MaxOpened /\ Issued \subseteq Issued'
             /\ \A k \in Tokens : row'[k].status = "absent" <=> k \notin Issued'
             /\ \A k \in Tokens : row[k].status = "revoked" => row'[k].status = "revoked"
  <2>1. Issued' = Issued
    BY <1>7, WipeRows DEF Issued
  <2> QED
    BY <1>1, <1>7, <2>1, WipeRows
<1> QED
  BY <1>3, <1>4, <1>5, <1>6, <1>7, RowSteps

-----------------------------------------------------------------------------
(* The requests                                                            *)

LEMMA Cookies ==
    /\ KeepCookie \in Cookie /\ KeepCookie.token = NoToken /\ ~ KeepCookie.set
    /\ \A k \in {NoToken} \cup Tokens : SetCookie(k) \in Cookie /\ SetCookie(k).token = k
  BY DEF KeepCookie, SetCookie, Cookie

\* The request types after an answer.
LEMMA AnswerType ==
    ASSUME RequestsType, NEW q \in Requests, NEW c \in Cookie, Answer(q, c),
           plan' \in [Requests -> Plans], UNCHANGED token
    PROVE  RequestsType' /\ pc'[q] = "replying" /\ out'[q] = c /\ targets'[q] = {}
  BY DEF RequestsType, Answer, Goto, PC

LEMMA RequestsTypeStep ==
    ASSUME TypeOK, Accounted, [Next]_vars
    PROVE  RequestsType'
<1> USE DEF TypeOK
<1>1. CASE \/ UNCHANGED vars \/ Suspend \/ Reactivate \/ LoseDenylist
           \/ \E k \in Tokens : Expire(k)
  BY <1>1 DEF vars, requestVars, Suspend, Reactivate, LoseDenylist, Expire, RequestsType
<1>2. ASSUME NEW q \in Requests, Login(q) \/ Refresh(q) \/ Logout(q)
      PROVE  RequestsType'
  <2>1. /\ UNCHANGED <<targets, out>>
        /\ \E purpose \in {"issue", "rotate", "logout", "forget"},
              label \in {"sent", "committing"} :
              /\ pc'    = [pc EXCEPT ![q] = label]
              /\ plan'  = [plan EXCEPT ![q] = purpose]
              /\ token' = [token EXCEPT ![q] = IF purpose = "issue" THEN NoToken ELSE jar]
    BY <1>2, Zenon DEF Login, Refresh, Logout, Send
  <2>2. jar \in {NoToken} \cup Tokens
    BY DEF TokensType
  <2>3. pc' \in [Requests -> PC]
    BY <2>1 DEF RequestsType, PC
  <2>4. plan' \in [Requests -> Plans]
    BY <2>1 DEF RequestsType, Plans
  <2>5. token' \in [Requests -> {NoToken} \cup Tokens]
    BY <2>1, <2>2 DEF RequestsType
  <2>6. targets' = targets /\ out' = out
    BY <2>1
  <2>7. targets' \in [Requests -> SUBSET Tokens] /\ out' \in [Requests -> Cookie]
    BY <2>6 DEF RequestsType
  <2> QED
    BY <2>3, <2>4, <2>5, <2>7 DEF RequestsType
<1>3. ASSUME NEW q \in Requests, Receive(q) \/ LoseReply(q)
      PROVE  RequestsType'
  <2>1. KeepCookie \in Cookie
    BY Cookies
  <2> HIDE DEF KeepCookie, Cookie
  <2>2. /\ pc'      = [pc EXCEPT ![q] = "idle"]
        /\ plan'    = [plan EXCEPT ![q] = "none"]
        /\ token'   = [token EXCEPT ![q] = NoToken]
        /\ out'     = [out EXCEPT ![q] = KeepCookie]
        /\ targets' = targets
    BY <1>3, Zenon DEF Receive, LoseReply, Finish
  <2>3. pc' \in [Requests -> PC] /\ plan' \in [Requests -> Plans]
    BY <2>2 DEF RequestsType, PC, Plans
  <2>4. token' \in [Requests -> {NoToken} \cup Tokens] /\ targets' \in [Requests -> SUBSET Tokens]
    BY <2>2 DEF RequestsType
  <2>5. out' \in [Requests -> Cookie]
    BY <2>1, <2>2 DEF RequestsType
  <2> QED
    BY <2>3, <2>4, <2>5 DEF RequestsType
<1>4. ASSUME NEW q \in Requests,
             \/ RefreshAccepted(q) \/ RefreshReplayed(q) \/ ReportReplay(q)
             \/ FoundDenied(q) \/ NotDenied(q) \/ LogoutReads(q) \/ Revoke(q) \/ Deny(q)
      PROVE  RequestsType'
  BY <1>4 DEF RefreshAccepted, RefreshReplayed, ReportReplay, FoundDenied, NotDenied,
              LogoutReads, Revoke, Deny, Goto, RequestsType, PC, Plans, history, tokenVars
<1>5. ASSUME NEW q \in Requests, StartWipe(q)
      PROVE  RequestsType'
  BY <1>5 DEF StartWipe, Goto, RequestsType, PC, Live
<1>6. ASSUME NEW q \in Requests, RefreshRejected(q) \/ EndWipe(q) \/ Fail(q)
      PROVE  RequestsType'
  <2>1. Answer(q, KeepCookie) /\ UNCHANGED <<plan, token>>
    BY <1>6 DEF RefreshRejected, EndWipe, Fail
  <2> QED
    BY <2>1, AnswerType, Cookies DEF RequestsType
<1>7. ASSUME NEW q \in Requests, CommitLogin(q) \/ CommitRotation(q)
      PROVE  RequestsType'
  <2>1. q \in Pending
    BY <1>7 DEF CommitLogin, CommitRotation, Pending
  <2>2. SetCookie(NewToken) \in Cookie
    BY <2>1, NumberToSpare, Cookies
  <2>3. Answer(q, SetCookie(NewToken)) /\ UNCHANGED <<plan, token>>
    BY <1>7 DEF CommitLogin, CommitRotation
  <2> QED
    BY <2>2, <2>3, AnswerType DEF RequestsType
<1>8. ASSUME NEW q \in Requests, CommitRetirement(q) \/ CommitNothing(q)
      PROVE  RequestsType'
  <2>1. \E c \in Cookie : Answer(q, c)
    BY <1>8, Cookies DEF CommitRetirement, CommitNothing
  <2>2. UNCHANGED <<plan, token>>
    BY <1>8 DEF CommitRetirement, CommitNothing
  <2> QED
    BY <2>1, <2>2, AnswerType DEF RequestsType
<1> QED
  BY <1>1, <1>2, <1>3, <1>4, <1>5, <1>6, <1>7, <1>8 DEF Next, Handle

LEMMA CoherentStep == TypeOK /\ Coherent /\ [Next]_vars => Coherent'
<1> SUFFICES ASSUME TypeOK, Coherent, [Next]_vars PROVE Coherent'
  OBVIOUS
<1> DEFINE Fits(q) ==
        /\ plan'[q] = "issue" => token'[q] = NoToken /\ pc'[q] \in {"committing", "replying"}
        /\ pc'[q] \notin {"idle", "committing", "replying"} => token'[q] # NoToken
        /\ pc'[q] = "committing" /\ token'[q] = NoToken => plan'[q] \in {"issue", "forget"}
        /\ pc'[q] = "checking" => plan'[q] \in {"rotate", "suspend"}
        /\ pc'[q] = "revoking" => plan'[q] \in {"rotate", "suspend", "drop", "logout"}
        /\ pc'[q] = "denying" => plan'[q] \in {"rotate", "suspend", "logout", "forget"}
<1>1. CASE UNCHANGED requestVars
  BY <1>1 DEF requestVars, Coherent
<1>2. ASSUME NEW r \in Requests, pc'[r] = pc[r], plan'[r] = plan[r],
             token'[r] = token[r]
      PROVE  Fits(r)
  BY <1>2 DEF Coherent
<1>3. ASSUME NEW q \in Requests, Login(q) \/ Refresh(q) \/ Logout(q)
      PROVE  Fits(q)
  BY <1>3 DEF Login, Refresh, Logout, Send, TypeOK, RequestsType
<1>4. ASSUME NEW q \in Requests, Receive(q) \/ LoseReply(q)
      PROVE  Fits(q)
  BY <1>4 DEF Receive, LoseReply, Finish, TypeOK, RequestsType
<1>5. ASSUME NEW q \in Requests, NEW c, Answer(q, c), UNCHANGED <<plan, token>>
      PROVE  Fits(q)
  BY <1>5 DEF Answer, Goto, TypeOK, RequestsType, Coherent
<1>6. ASSUME NEW q \in Requests,
             \/ RefreshAccepted(q) \/ RefreshReplayed(q) \/ ReportReplay(q)
             \/ FoundDenied(q) \/ NotDenied(q) \/ StartWipe(q)
      PROVE  Fits(q)
  BY <1>6 DEF RefreshAccepted, RefreshReplayed, ReportReplay, FoundDenied, NotDenied,
              StartWipe, Refreshing, Goto, TypeOK, RequestsType, Coherent
<1>7. ASSUME NEW q \in Requests, LogoutReads(q) \/ Revoke(q) \/ Deny(q)
      PROVE  Fits(q)
  BY <1>7 DEF LogoutReads, Revoke, Deny, Goto, TypeOK, RequestsType, Coherent
<1>8. ASSUME NEW q \in Requests, Step(q) PROVE Fits(q)
  <2>1. CASE \/ RefreshRejected(q) \/ EndWipe(q) \/ CommitLogin(q) \/ CommitRotation(q)
             \/ CommitRetirement(q) \/ CommitNothing(q) \/ Fail(q)
    BY <2>1, <1>5 DEF RefreshRejected, EndWipe, CommitLogin, CommitRotation, CommitRetirement,
                      CommitNothing, Fail
  <2> HIDE DEF Fits
  <2> QED
    BY <1>3, <1>4, <1>6, <1>7, <1>8, <2>1 DEF Step, Handle
<1>9. ASSUME NEW q \in Requests, Step(q), OthersUnchanged(q) PROVE Coherent'
  <2>1. \A r \in Requests : Fits(r)
    BY <1>2, <1>8, <1>9 DEF OthersUnchanged
  <2> QED
    BY <2>1 DEF Coherent
<1> QED
  BY <1>1, <1>9, OwnStep DEF TypeOK

-----------------------------------------------------------------------------
(* Counting                                                                *)

\* What a step does to the numbers behind the bound.
Sends(q)   == /\ Pending' \subseteq Pending \cup {q}
              /\ opened' = opened + 1 /\ opened < MaxOpened /\ UNCHANGED <<issued, logins>>
Inserts(q) == /\ q \in Pending /\ Pending' \subseteq Pending \ {q}
              /\ issued' = issued + 1 /\ logins' \in {logins, logins + 1} /\ UNCHANGED opened
CountsLess == /\ Pending' \subseteq Pending
              /\ UNCHANGED <<issued, opened, logins>>

LEMMA CountSteps ==
    ASSUME TypeOK, Coherent, [Next]_vars
    PROVE  CountsLess \/ \E q \in Requests : Sends(q) \/ Inserts(q)
<1> USE DEF TypeOK, RequestsType
<1>1. CASE Surroundings /\ UNCHANGED requestVars
  <2>1. Pending' = Pending
    BY <1>1 DEF Pending, requestVars
  <2> QED
    BY <1>1, <2>1 DEF CountsLess, Surroundings, vars, history, tokenVars, Expire, Suspend,
                      Reactivate, LoseDenylist
<1>2. ASSUME NEW q \in Requests, OthersUnchanged(q)
      PROVE  /\ Pending' \subseteq Pending \cup {q}
             /\ q \notin Pending' => Pending' \subseteq Pending \ {q}
  BY <1>2 DEF Pending, OthersUnchanged
<1>3. ASSUME NEW q \in Requests, OthersUnchanged(q), Login(q) \/ Refresh(q)
      PROVE  Sends(q)
  BY <1>2, <1>3 DEF Login, Refresh, Send, tokenVars, Sends
<1>4. ASSUME NEW q \in Requests, OthersUnchanged(q), CommitLogin(q) \/ CommitRotation(q)
      PROVE  Inserts(q)
  <2>1. q \in Pending
    BY <1>4 DEF CommitLogin, CommitRotation, Pending
  <2>2. q \notin Pending'
    BY <1>4 DEF CommitLogin, CommitRotation, Answer, Goto, Pending
  <2> QED
    BY <1>2, <1>4, <2>1, <2>2 DEF CommitLogin, CommitRotation, NewToken, Inserts, history
<1>5. ASSUME NEW q \in Requests, OthersUnchanged(q),
             Logout(q) \/ Receive(q) \/ LoseReply(q)
      PROVE  CountsLess
  <2>1. q \notin Pending'
    BY <1>5 DEF Logout, Send, Receive, LoseReply, Finish, Pending
  <2> QED
    BY <1>2, <1>5, <2>1 DEF CountsLess, Logout, Send, Receive, LoseReply, Finish, tokenVars
<1>6. ASSUME NEW q \in Requests, OthersUnchanged(q),
             \/ RefreshRejected(q) \/ EndWipe(q) \/ CommitRetirement(q) \/ CommitNothing(q)
             \/ Fail(q)
      PROVE  CountsLess
  <2>1. q \notin Pending'
    BY <1>6 DEF RefreshRejected, EndWipe, CommitRetirement, CommitNothing, Fail, Answer, Goto,
                Pending
  <2> QED
    BY <1>2, <1>6, <2>1 DEF CountsLess, RefreshRejected, EndWipe, CommitRetirement,
                            CommitNothing, Fail, tokenVars, history
<1>7. ASSUME NEW q \in Requests, OthersUnchanged(q),
             \/ RefreshAccepted(q) \/ RefreshReplayed(q) \/ ReportReplay(q) \/ FoundDenied(q)
             \/ NotDenied(q) \/ StartWipe(q) \/ LogoutReads(q) \/ Revoke(q) \/ Deny(q)
      PROVE  CountsLess
  <2>1. q \in Pending' => q \in Pending
    BY <1>7 DEF RefreshAccepted, RefreshReplayed, ReportReplay, FoundDenied, NotDenied,
                StartWipe, LogoutReads, Revoke, Deny, Refreshing, Goto, Pending
  <2>2. UNCHANGED <<issued, opened, logins>>
    BY <1>7 DEF RefreshAccepted, RefreshReplayed, ReportReplay, FoundDenied, NotDenied,
                StartWipe, LogoutReads, Revoke, Deny, tokenVars, history
  <2> QED
    BY <1>2, <1>7, <2>1, <2>2 DEF CountsLess
<1> HIDE DEF TypeOK
<1> QED
  BY <1>1, <1>3, <1>4, <1>5, <1>6, <1>7, OwnStep DEF TypeOK, Step, Handle

LEMMA AccountedStep ==
    ASSUME TypeOK, Coherent, Accounted, [Next]_vars
    PROVE  Accounted' /\ HistoryType'
<1>1. /\ issued \in Nat /\ opened \in Nat /\ logins \in Nat /\ opened <= MaxOpened
      /\ MaxOpened \in Nat
  BY Bound DEF TypeOK, TokensType, HistoryType
<1>2. /\ Cardinality(Pending) \in Nat /\ IsFiniteSet(Pending)
      /\ Cardinality(Pending) + issued <= opened /\ logins <= issued
  BY PendingFinite DEF Accounted
<1>3. ASSUME NEW S, IsFiniteSet(S), Pending' \subseteq S
      PROVE  Cardinality(Pending') \in Nat /\ Cardinality(Pending') <= Cardinality(S)
  BY <1>3, FS_Subset, FS_CardinalityType
<1>4. troubles' \subseteq Troubles
  BY DEF Next, Handle, vars, tokenVars, requestVars, history, Login, Refresh, Logout, Send,
         Receive, LoseReply, Finish, RefreshAccepted, RefreshRejected, RefreshReplayed,
         ReportReplay, FoundDenied, NotDenied, StartWipe, EndWipe, LogoutReads, Revoke, Deny,
         CommitLogin, CommitRotation, CommitRetirement, CommitNothing, Fail, Expire, Suspend,
         Reactivate, LoseDenylist, TypeOK, HistoryType, Troubles
<1> DEFINE Kept == /\ Cardinality(Pending') + issued' <= opened' /\ opened' \in 0..MaxOpened
                   /\ logins' \in Nat /\ logins' <= issued' /\ issued' \in Nat
                   /\ Cardinality(Pending') \in Nat
<1>5. Kept
  <2>1. CASE CountsLess
    BY <1>1, <1>2, <1>3, <2>1 DEF CountsLess
  <2>2. ASSUME NEW q \in Requests, Sends(q)
        PROVE  Kept
    <3>1. /\ IsFiniteSet(Pending \cup {q})
          /\ Cardinality(Pending \cup {q}) <= Cardinality(Pending) + 1
          /\ Cardinality(Pending \cup {q}) \in Nat
      BY <1>2, FS_AddElement, FS_CardinalityType
    <3> QED
      BY <1>1, <1>2, <1>3, <2>2, <3>1 DEF Sends
  <2>3. ASSUME NEW q \in Requests, Inserts(q)
        PROVE  Kept
    <3>1. /\ IsFiniteSet(Pending \ {q})
          /\ Cardinality(Pending \ {q}) = Cardinality(Pending) - 1
          /\ Cardinality(Pending \ {q}) \in Nat
      BY <1>2, <2>3, FS_RemoveElement, FS_CardinalityType DEF Inserts
    <3> QED
      BY <1>1, <1>2, <1>3, <2>3, <3>1 DEF Inserts
  <2> QED
    BY <2>1, <2>2, <2>3, CountSteps
<1>6. logins' \in 0..MaxOpened
  BY <1>1, <1>5
<1> QED
  BY <1>4, <1>5, <1>6 DEF Accounted, HistoryType

-----------------------------------------------------------------------------
(* Types and locks                                                         *)

LEMMA PresentedToken ==
    ASSUME RequestsType, Coherent, NEW q \in Requests,
           pc[q] \notin {"idle", "committing", "replying"}
    PROVE  token[q] \in Tokens /\ token[q] # NoToken
  BY DEF RequestsType, Coherent

LEMMA TokensTypeStep ==
    ASSUME TypeOK, Accounted, OnlyIssued, Coherent, [Next]_vars
    PROVE  TokensType'
<1>1. row' \in [Tokens -> Row] /\ issued' \in 0..MaxOpened
  BY RowsStep
<1> DEFINE Kept == /\ denied' \subseteq Tokens /\ expired' \subseteq Tokens
                   /\ userActive' \in BOOLEAN /\ jar' \in {NoToken} \cup Tokens
<1>2. Kept
  <2> USE DEF TypeOK, TokensType
  <2>1. CASE Surroundings
    BY <2>1 DEF Surroundings, vars, tokenVars, Expire, Suspend, Reactivate, LoseDenylist
  <2>2. ASSUME NEW q \in Requests, ReportReplay(q) \/ Deny(q)
        PROVE  Kept
    <3>1. token[q] \in Tokens
      BY <2>2, PresentedToken DEF ReportReplay, Deny
    <3> QED
      BY <2>2, <3>1 DEF ReportReplay, Deny, DenyToken
  <2>3. ASSUME NEW q \in Requests, Receive(q)
        PROVE  Kept
    <3>1. out[q].token \in {NoToken} \cup Tokens
      BY DEF RequestsType, Cookie
    <3> QED
      BY <2>3, <3>1 DEF Receive, Finish, tokenVars
  <2>4. ASSUME NEW q \in Requests,
               \/ Login(q) \/ Refresh(q) \/ Logout(q) \/ LoseReply(q)
               \/ RefreshAccepted(q) \/ RefreshRejected(q) \/ RefreshReplayed(q)
               \/ FoundDenied(q) \/ NotDenied(q) \/ StartWipe(q) \/ EndWipe(q)
               \/ LogoutReads(q) \/ Revoke(q) \/ CommitLogin(q) \/ CommitRotation(q)
               \/ CommitRetirement(q) \/ CommitNothing(q) \/ Fail(q)
        PROVE  UNCHANGED <<denied, expired, userActive, jar>>
    BY <2>4 DEF Login, Refresh, Logout, Send, LoseReply, Finish, RefreshAccepted,
        RefreshRejected, RefreshReplayed, FoundDenied, NotDenied, StartWipe, EndWipe, LogoutReads,
        Revoke, CommitLogin, CommitRotation, CommitRetirement, CommitNothing, Fail, tokenVars
  <2> QED
    BY <2>1, <2>2, <2>3, <2>4, OwnStep DEF Step, Handle
<1> QED
  BY <1>1, <1>2 DEF TokensType

\* A request gets the lock of its own token only, and only when nobody has it.
LEMMA LockTaken ==
    ASSUME TypeOK, Coherent, NEW q \in Requests, Step(q), NEW k \in Tokens, Holds(q, k)'
    PROVE  Holds(q, k) \/ (Revoke(q) /\ Unlocked(k))
<1> USE DEF TypeOK, RequestsType, Holds
<1>1. CASE Login(q) \/ Refresh(q) \/ Logout(q) \/ Receive(q) \/ LoseReply(q)
  BY <1>1 DEF Login, Refresh, Logout, Send, Receive, LoseReply, Finish
<1>2. CASE \/ RefreshRejected(q) \/ EndWipe(q) \/ CommitLogin(q) \/ CommitRotation(q)
           \/ CommitRetirement(q) \/ CommitNothing(q) \/ Fail(q)
  BY <1>2 DEF RefreshRejected, EndWipe, CommitLogin, CommitRotation, CommitRetirement,
              CommitNothing, Fail, Answer, Goto
<1>3. CASE \/ RefreshAccepted(q) \/ RefreshReplayed(q) \/ ReportReplay(q) \/ FoundDenied(q)
           \/ NotDenied(q) \/ StartWipe(q) \/ LogoutReads(q)
  BY <1>3 DEF RefreshAccepted, RefreshReplayed, ReportReplay, FoundDenied, NotDenied,
              StartWipe, LogoutReads, Goto
<1>4. CASE Deny(q)
  BY <1>4 DEF Deny, Goto
<1>5. CASE Revoke(q)
  BY <1>5 DEF Revoke
<1> QED
  BY <1>1, <1>2, <1>3, <1>4, <1>5 DEF Step, Handle

LEMMA LocksStep ==
    ASSUME TypeOK, Coherent, [Next]_vars
    PROVE  LocksExclude'
<1>1. CASE UNCHANGED requestVars
  BY <1>1 DEF requestVars, TypeOK, LocksExclude, Holds
<1>2. ASSUME NEW q \in Requests, Step(q), OthersUnchanged(q) PROVE LocksExclude'
  <2>1. \A r \in Requests \ {q} : \A k \in Tokens : Holds(r, k)' <=> Holds(r, k)
    BY <1>2 DEF OthersUnchanged, Holds
  <2>2. \A k \in Tokens : Holds(q, k)' => Holds(q, k) \/ Unlocked(k)
    BY <1>2, LockTaken
  <2> QED
    BY <2>1, <2>2 DEF LocksExclude, TypeOK, Unlocked
<1> QED
  BY <1>1, <1>2, OwnStep DEF TypeOK

LEMMA OnlyIssuedStep ==
    ASSUME TypeOK, Accounted, OnlyIssued, Coherent, [Next]_vars
    PROVE  OnlyIssued'
<1> DEFINE Held(q) == token'[q] \in Issued' /\ out'[q].token \in Issued'
                      /\ targets'[q] \subseteq Issued'
<1>1. Issued \subseteq Issued' /\ NoToken \in Issued
      /\ \A k \in Tokens : row'[k].status = "absent" <=> k \notin Issued'
  BY RowsStep DEF Issued
<1>2. ASSUME NEW q \in Requests PROVE token[q] \in Issued /\ out[q].token \in Issued
                                       /\ targets[q] \subseteq Issued
  BY DEF OnlyIssued
<1>3. CASE Surroundings /\ UNCHANGED requestVars
  <2>1. UNCHANGED jar
    BY <1>3 DEF Surroundings, vars, Expire, Suspend, Reactivate, LoseDenylist
  <2> QED
    BY <1>1, <1>2, <1>3, <2>1 DEF OnlyIssued, requestVars
<1>4. ASSUME NEW q \in Requests, Login(q) \/ Refresh(q) \/ Logout(q) PROVE Held(q) /\ UNCHANGED jar
  BY <1>1, <1>2, <1>4 DEF Login, Refresh, Logout, Send, TypeOK, RequestsType, OnlyIssued
<1>5. ASSUME NEW q \in Requests, Receive(q) \/ LoseReply(q) PROVE Held(q) /\ jar' \in Issued
  <2>1. KeepCookie \in Cookie /\ KeepCookie.token = NoToken
    BY Cookies
  <2> HIDE DEF KeepCookie, Cookie
  <2> QED
    BY <1>1, <1>2, <1>5, <2>1
    DEF Receive, LoseReply, Finish, TypeOK, RequestsType, OnlyIssued
<1>6. ASSUME NEW q \in Requests, NEW c \in Cookie, Answer(q, c), c.token \in Issued',
             UNCHANGED <<plan, token>>
      PROVE  Held(q)
  <2>1. out'[q] = c /\ targets'[q] = {}
    BY <1>6, AnswerType DEF TypeOK, RequestsType
  <2> QED
    BY <1>1, <1>2, <1>6, <2>1
<1>7. ASSUME NEW q \in Requests,
             RefreshRejected(q) \/ EndWipe(q) \/ CommitRetirement(q) \/ CommitNothing(q) \/ Fail(q)
      PROVE  Held(q) /\ UNCHANGED jar
  <2>1. \E c \in {KeepCookie, SetCookie(NoToken)} : Answer(q, c)
    BY <1>7 DEF RefreshRejected, EndWipe, CommitRetirement, CommitNothing, Fail
  <2>2. UNCHANGED <<plan, token, jar>>
    BY <1>7 DEF RefreshRejected, EndWipe, CommitRetirement, CommitNothing, Fail, tokenVars
  <2> HIDE DEF Held
  <2> QED
    BY <1>1, <1>6, <2>1, <2>2, Cookies
<1>8. ASSUME NEW q \in Requests, CommitLogin(q) \/ CommitRotation(q)
      PROVE  Held(q) /\ UNCHANGED jar
  <2>1. NewToken \in Tokens /\ issued' = NewToken
    BY <1>8, LoginRows, RotationRows DEF Inserted
  <2>2. NewToken \in Issued'
    BY <2>1, Bound DEF Issued, NewToken, Tokens, TypeOK, TokensType
  <2>3. SetCookie(NewToken) \in Cookie /\ SetCookie(NewToken).token = NewToken
    BY <2>1, Cookies
  <2>4. Answer(q, SetCookie(NewToken)) /\ UNCHANGED <<plan, token, jar>>
    BY <1>8 DEF CommitLogin, CommitRotation
  <2> HIDE DEF Held
  <2> QED
    BY <1>6, <2>2, <2>3, <2>4
<1>9. ASSUME NEW q \in Requests,
             \/ RefreshAccepted(q) \/ RefreshReplayed(q) \/ ReportReplay(q) \/ FoundDenied(q)
             \/ NotDenied(q) \/ LogoutReads(q) \/ Revoke(q) \/ Deny(q)
      PROVE  Held(q) /\ UNCHANGED jar
  <2>1. UNCHANGED <<token, out, targets, jar>>
    BY <1>9 DEF RefreshAccepted, RefreshReplayed, ReportReplay, FoundDenied, NotDenied,
                LogoutReads, Revoke, Deny, tokenVars
  <2> QED
    BY <1>1, <1>2, <2>1
<1>10. ASSUME NEW q \in Requests, StartWipe(q) PROVE Held(q) /\ UNCHANGED jar
  <2>1. Live \subseteq Issued
    BY DEF Live, OnlyIssued
  <2>2. UNCHANGED <<token, out, jar>> /\ targets'[q] = Live
    BY <1>10 DEF StartWipe, tokenVars, TypeOK, RequestsType
  <2> QED
    BY <1>1, <1>2, <2>1, <2>2
<1>11. ASSUME NEW q \in Requests, Step(q), OthersUnchanged(q) PROVE OnlyIssued'
  <2>1. \A r \in Requests \ {q} : Held(r)
    BY <1>1, <1>2, <1>11 DEF OthersUnchanged
  <2> HIDE DEF Held
  <2>2. Held(q) /\ (jar' = jar \/ jar' \in Issued)
    BY <1>4, <1>5, <1>7, <1>8, <1>9, <1>10, <1>11 DEF Step, Handle
  <2> USE DEF Held
  <2> QED
    BY <1>1, <2>1, <2>2 DEF OnlyIssued
<1> QED
  BY <1>3, <1>11, OwnStep DEF TypeOK

-----------------------------------------------------------------------------
(* Type correctness                                                        *)

LEMMA RetiredStep ==
    ASSUME TypeOK, Accounted, OnlyIssued, Coherent, Retired, [Next]_vars
    PROVE  Retired'
<1> DEFINE Over(q) ==
        /\ pc'[q] = "reporting" => row'[token'[q]].status = "revoked"
        /\ plan'[q] = "forget" /\ token'[q] # NoToken => row'[token'[q]].status = "revoked"
<1>1. \A k \in Tokens : row[k].status = "revoked" => row'[k].status = "revoked"
  BY RowsStep
<1>2. ASSUME NEW q \in Requests, token'[q] = token[q],
             pc'[q] = "reporting" => pc[q] = "reporting",
             plan'[q] = "forget" => plan[q] = "forget"
      PROVE  Over(q)
  BY <1>1, <1>2, PresentedToken DEF Retired, TypeOK, RequestsType
<1>3. ASSUME NEW q \in Requests, Login(q) \/ Refresh(q) \/ Logout(q) PROVE Over(q)
  BY <1>3 DEF Login, Refresh, Logout, Send, TypeOK, RequestsType
<1>4. ASSUME NEW q \in Requests, Receive(q) \/ LoseReply(q) PROVE Over(q)
  BY <1>4 DEF Receive, LoseReply, Finish, TypeOK, RequestsType
<1>5. ASSUME NEW q \in Requests, RefreshReplayed(q) PROVE Over(q)
  <2>1. token[q] \in Tokens /\ row[token[q]].status = "revoked"
    BY <1>5, PresentedToken DEF RefreshReplayed, Refreshing, TypeOK
  <2>2. token' = token
    BY <1>5 DEF RefreshReplayed
  <2> QED
    BY <1>1, <2>1, <2>2
<1>6. ASSUME NEW q \in Requests, LogoutReads(q) PROVE Over(q)
  <2>1. token[q] \in Tokens /\ token' = token /\ pc'[q] # "reporting"
    BY <1>6, PresentedToken DEF LogoutReads, Goto, TypeOK, RequestsType
  <2>2. row[token[q]].status \in {"live", "revoked"}
    <3>1. row[token[q]] \in Row /\ row[token[q]].status # "absent"
      BY <2>1 DEF OnlyIssued, TypeOK, TokensType
    <3> QED
      BY <3>1 DEF Row
  <2>3. plan'[q] = "forget" => plan[q] = "forget" \/ row[token[q]].status # "live"
    BY <1>6 DEF LogoutReads, TypeOK, RequestsType
  <2> QED
    BY <1>1, <1>2, <2>1, <2>2, <2>3
<1>7. ASSUME NEW q \in Requests, NEW c, Answer(q, c), UNCHANGED <<plan, token>> PROVE Over(q)
  <2>1. pc'[q] = "replying"
    BY <1>7 DEF Answer, Goto, TypeOK, RequestsType
  <2> QED
    BY <1>2, <1>7, <2>1
<1>8. ASSUME NEW q \in Requests,
             \/ RefreshAccepted(q) \/ ReportReplay(q) \/ FoundDenied(q)
             \/ NotDenied(q) \/ StartWipe(q) \/ Revoke(q) \/ Deny(q)
      PROVE  Over(q)
  <2>1. /\ token' = token /\ pc'[q] # "reporting"
        /\ plan'[q] = "forget" => plan[q] = "forget"
    BY <1>8 DEF RefreshAccepted, ReportReplay, FoundDenied, NotDenied, StartWipe, Revoke, Deny,
                Goto, TypeOK, RequestsType
  <2> QED
    BY <1>2, <2>1
<1>9. ASSUME NEW q \in Requests, Step(q) PROVE Over(q)
  <2>1. CASE \/ RefreshRejected(q) \/ EndWipe(q) \/ CommitLogin(q) \/ CommitRotation(q)
             \/ CommitRetirement(q) \/ CommitNothing(q) \/ Fail(q)
    BY <2>1, <1>7 DEF RefreshRejected, EndWipe, CommitLogin, CommitRotation, CommitRetirement,
                      CommitNothing, Fail
  <2> HIDE DEF Over
  <2> QED
    BY <1>3, <1>4, <1>5, <1>6, <1>8, <1>9, <2>1 DEF Step, Handle
<1>10. ASSUME NEW q \in Requests, Step(q), OthersUnchanged(q) PROVE Retired'
  <2>1. \A r \in Requests : Over(r)
    <3>1. \A r \in Requests \ {q} : Over(r)
      BY <1>2, <1>10 DEF OthersUnchanged
    <3> QED
      BY <1>9, <1>10, <3>1
  <2> QED
    BY <2>1 DEF Retired
<1>11. CASE UNCHANGED requestVars
  <2>1. \A r \in Requests : Over(r)
    BY <1>2, <1>11 DEF requestVars
  <2> QED
    BY <2>1 DEF Retired
<1> QED
  BY <1>10, <1>11, OwnStep DEF TypeOK

\* What all theorems rest on.
Basis == TypeOK /\ Accounted /\ OnlyIssued /\ Coherent /\ Retired

LEMMA BasisInit == Init => Basis
<1> SUFFICES ASSUME Init PROVE Basis
  OBVIOUS
<1>1. TypeOK
  <2>1. TokensType /\ HistoryType
    BY Bound DEF Init, TokensType, HistoryType, AbsentRow, Row, Tokens, Troubles
  <2>2. RequestsType
    BY Cookies DEF Init, RequestsType, PC, Plans
  <2>3. LocksExclude
    BY DEF Init, LocksExclude, Holds
  <2> QED
    BY <2>1, <2>2, <2>3 DEF TypeOK
<1>2. Accounted
  <2>1. Pending = {}
    BY DEF Init, Pending
  <2>2. Cardinality(Pending) = 0
    BY <2>1, FS_EmptySet
  <2> QED
    BY <2>2 DEF Init, Accounted
<1>3. OnlyIssued
  <2>1. Issued = {NoToken} /\ KeepCookie.token = NoToken
    BY Cookies DEF Init, Issued
  <2> QED
    BY <2>1, NoTokenIsNone DEF Init, OnlyIssued, AbsentRow
<1>4. Coherent /\ Retired
  BY DEF Init, Coherent, Retired
<1> QED
  BY <1>1, <1>2, <1>3, <1>4 DEF Basis

LEMMA BasisStep == Basis /\ [Next]_vars => Basis'
<1> SUFFICES ASSUME Basis, [Next]_vars PROVE Basis'
  OBVIOUS
<1>1. TypeOK'
  BY RequestsTypeStep, TokensTypeStep, AccountedStep, LocksStep DEF Basis, TypeOK
<1> QED
  BY <1>1, AccountedStep, OnlyIssuedStep, CoherentStep, RetiredStep DEF Basis

LEMMA BasisHolds == Spec => []Basis
  BY BasisInit, BasisStep, PTL DEF Spec

\* Every variable keeps its type, no two transactions hold the lock of one row, and the
\* number of tokens stays within the bound on logins and refreshes.
THEOREM TypeCorrect == Spec => []TypeOK
<1>1. Basis => TypeOK
  BY DEF Basis
<1> QED
  BY <1>1, BasisHolds, PTL

-----------------------------------------------------------------------------
(* Chains of rotations                                                     *)

LEMMA ChainsStep == Basis /\ ChainsWhole /\ [Next]_vars => ChainsWhole'
<1> SUFFICES ASSUME Basis, ChainsWhole, [Next]_vars PROVE ChainsWhole'
  OBVIOUS
<1>1. TypeOK /\ Accounted /\ OnlyIssued /\ Coherent
  BY DEF Basis
<1>2. /\ row \in [Tokens -> Row] /\ issued \in Nat /\ Tokens \subseteq Nat
      /\ row' \in [Tokens -> Row]
  BY <1>1, RowsStep, Bound DEF TypeOK, TokensType, Tokens
<1>3. ASSUME UNCHANGED issued,
             \A k \in Tokens : row'[k].next = row[k].next,
             \A k \in Tokens : row[k].status = "revoked" => row'[k].status = "revoked"
      PROVE  ChainsWhole'
  BY <1>3 DEF ChainsWhole
<1>4. \A k \in Tokens : row[k].status = "revoked" => row'[k].status = "revoked"
  BY <1>1, RowsStep
<1>5. CASE UNCHANGED <<row, issued>>
  BY <1>3, <1>5
<1>6. ASSUME NEW q \in Requests, CommitRetirement(q) PROVE ChainsWhole'
  BY <1>1, <1>3, <1>4, <1>6, RetirementRows
<1>7. ASSUME NEW q \in Requests, EndWipe(q) PROVE ChainsWhole'
  BY <1>1, <1>3, <1>4, <1>7, WipeRows
<1>8. \A k \in Tokens : row[k].next = NoToken \/ row[k].next \in (k + 1)..issued
  BY DEF ChainsWhole
<1>9. ASSUME NEW q \in Requests, CommitLogin(q) PROVE ChainsWhole'
  <2>1. issued' = issued + 1 /\ row'[NewToken].next = NoToken
    BY <1>1, <1>9, LoginRows, LiveRowType DEF Inserted, NewToken
  <2>2. \A k \in Tokens \ {NewToken} : row'[k] = row[k]
    BY <1>1, <1>9, LoginRows
  <2>3. ASSUME NEW k \in Tokens, row'[k].next # NoToken
        PROVE  /\ row'[k].status = "revoked" /\ row'[k].next \in (k + 1)..issued'
               /\ \A i \in Tokens \ {k} : row'[i].next # row'[k].next
    <3>1. row'[k] = row[k] /\ row[k].next # NoToken
      BY <2>1, <2>2, <2>3
    <3>2. row[k].next \in (k + 1)..issued'
      BY <1>2, <1>8, <2>1, <3>1
    <3> HIDE DEF NewToken
    <3> QED
      BY <2>1, <2>2, <3>1, <3>2, <2>3 DEF ChainsWhole
  <2> QED
    BY <2>3 DEF ChainsWhole
<1>10. ASSUME NEW q \in Requests, CommitRotation(q) PROVE ChainsWhole'
  <2> DEFINE t == token[q]
  <2>1. /\ t \in Tokens /\ t \in 1..issued /\ issued' = issued + 1 /\ NewToken = issued + 1
        /\ row'[t].status = "revoked" /\ row'[t].next = NewToken
        /\ row'[NewToken].next = NoToken
        /\ \A k \in Tokens \ {NewToken, t} : row'[k] = row[k]
    BY <1>1, <1>10, RotationRows, LiveRowType DEF Inserted, NewToken
  <2> HIDE DEF t
  <2>2. NewToken \in (t + 1)..issued' /\ NewToken # NoToken
    BY <1>2, <2>1 DEF NoToken
  <2>3. ASSUME NEW k \in Tokens \ {t}, row'[k].next # NoToken
        PROVE  /\ row'[k] = row[k] /\ row[k].next # NoToken
               /\ row[k].next \in (k + 1)..issued' /\ row[k].next # NewToken
    <3>1. row'[k] = row[k] /\ row[k].next # NoToken
      BY <2>1, <2>3
    <3> QED
      BY <1>2, <1>8, <2>1, <3>1
  <2>4. ASSUME NEW k \in Tokens \ {t}, row'[k].next # NoToken
        PROVE  /\ row'[k].status = "revoked" /\ row'[k].next \in (k + 1)..issued'
               /\ \A i \in Tokens \ {k} : row'[i].next # row'[k].next
    <3>1. \A i \in Tokens \ {k} : row[i].next # row[k].next
      BY <2>3, <2>4 DEF ChainsWhole
    <3>2. row[k].status = "revoked"
      BY <2>3, <2>4 DEF ChainsWhole
    <3>3. ASSUME NEW i \in Tokens \ {k} PROVE row'[i].next # row'[k].next
      BY <2>1, <2>3, <2>4, <3>1
    <3> QED
      BY <2>3, <2>4, <3>2, <3>3
  <2>5. \A i \in Tokens \ {t} : row'[i].next # row'[t].next
    BY <2>1, <2>2, <2>3
  <2> QED
    BY <2>1, <2>2, <2>4, <2>5 DEF ChainsWhole
<1> QED
  BY <1>5, <1>6, <1>7, <1>9, <1>10, RowSteps

\* However refreshes, logouts and wipes overlap, chains of rotations are whole: a token
\* with a successor is revoked, and no two tokens have one successor.
THEOREM Chains == Spec => []ChainsWhole
<1>1. Init => ChainsWhole
  BY DEF Init, ChainsWhole, AbsentRow
<1> QED
  BY <1>1, ChainsStep, BasisHolds, PTL DEF Spec

-----------------------------------------------------------------------------
(* What clients are told                                                   *)

LEMMA AnswersStep == Basis /\ AnswersAreTrue /\ [Next]_vars => AnswersAreTrue'
<1> SUFFICES ASSUME Basis, AnswersAreTrue, [Next]_vars PROVE AnswersAreTrue'
  OBVIOUS
<1> DEFINE True(q) == pc'[q] = "replying" /\ out'[q].set /\ token'[q] # NoToken
                          => row'[token'[q]].status = "revoked"
<1>1. TypeOK /\ Accounted /\ OnlyIssued /\ Coherent /\ Retired /\ RequestsType
  BY DEF Basis, TypeOK
<1>2. \A k \in Tokens : row[k].status = "revoked" => row'[k].status = "revoked"
  BY <1>1, RowsStep
<1>3. ASSUME NEW q \in Requests, pc'[q] = pc[q], out'[q] = out[q], token'[q] = token[q]
      PROVE  True(q)
  BY <1>1, <1>2, <1>3 DEF AnswersAreTrue, RequestsType
<1>4. ASSUME NEW q \in Requests, pc'[q] # "replying" PROVE True(q)
  BY <1>4
<1>5. ASSUME NEW q \in Requests, RefreshRejected(q) \/ EndWipe(q) \/ Fail(q) PROVE True(q)
  <2>1. out'[q] = KeepCookie
    BY <1>1, <1>5 DEF RefreshRejected, EndWipe, Fail, Answer, RequestsType
  <2> QED
    BY <2>1, Cookies
<1>6. ASSUME NEW q \in Requests, CommitLogin(q) PROVE True(q)
  <2>1. token'[q] = NoToken
    BY <1>1, <1>6 DEF CommitLogin, Coherent
  <2> QED
    BY <2>1
<1>7. ASSUME NEW q \in Requests, CommitRotation(q) PROVE True(q)
  <2>1. row'[token[q]] = [status |-> "revoked", next |-> NewToken]
    BY <1>1, <1>7, RotationRows
  <2>2. UNCHANGED token
    BY <1>7 DEF CommitRotation
  <2> QED
    BY <2>1, <2>2
<1>8. ASSUME NEW q \in Requests, CommitRetirement(q) PROVE True(q)
  <2>1. row'[token[q]].status = "revoked"
    BY <1>1, <1>8, RetirementRows
  <2>2. UNCHANGED token
    BY <1>8 DEF CommitRetirement
  <2> QED
    BY <2>1, <2>2
<1>9. ASSUME NEW q \in Requests, CommitNothing(q) PROVE True(q)
  <2>1. token' = token /\ row' = row /\ plan[q] = "forget"
    BY <1>9 DEF CommitNothing, tokenVars
  <2> QED
    BY <1>1, <2>1 DEF Retired
<1>10. ASSUME NEW q \in Requests,
              \/ Login(q) \/ Refresh(q) \/ Logout(q) \/ Receive(q) \/ LoseReply(q)
              \/ RefreshAccepted(q) \/ RefreshReplayed(q) \/ ReportReplay(q) \/ FoundDenied(q)
              \/ NotDenied(q) \/ StartWipe(q) \/ LogoutReads(q) \/ Revoke(q) \/ Deny(q)
       PROVE  pc'[q] # "replying"
  BY <1>1, <1>10 DEF Login, Refresh, Logout, Send, Receive, LoseReply, Finish, RefreshAccepted,
      RefreshReplayed, ReportReplay, FoundDenied, NotDenied, StartWipe, LogoutReads, Revoke,
      Deny, Goto, RequestsType
<1>11. ASSUME NEW q \in Requests, Step(q), OthersUnchanged(q) PROVE AnswersAreTrue'
  <2> HIDE DEF True
  <2>1. \A r \in Requests \ {q} : True(r)
    BY <1>3, <1>11 DEF OthersUnchanged
  <2>2. True(q)
    BY <1>4, <1>5, <1>6, <1>7, <1>8, <1>9, <1>10, <1>11 DEF Step, Handle
  <2> USE DEF True
  <2> QED
    BY <2>1, <2>2 DEF AnswersAreTrue
<1>12. CASE UNCHANGED requestVars
  <2>1. \A r \in Requests : True(r)
    BY <1>3, <1>12 DEF requestVars
  <2> QED
    BY <2>1 DEF AnswersAreTrue
<1> QED
  BY <1>1, <1>11, <1>12, OwnStep

\* Whoever is told of a logout or is given a successor came with a token that is
\* retired, whatever other requests did to it meanwhile.
THEOREM Answers == Spec => []AnswersAreTrue
<1>1. Init => AnswersAreTrue
  BY DEF Init, AnswersAreTrue
<1> QED
  BY <1>1, AnswersStep, BasisHolds, PTL DEF Spec

-----------------------------------------------------------------------------
(* The denylist and the table                                              *)

\* A lock is given up by a commit that revokes the row, or by a failure.
LEMMA LockReleased ==
    ASSUME Basis, [Next]_vars, NEW q \in Requests, Step(q), NEW k \in Tokens, Holds(q, k)
    PROVE  Holds(q, k)' \/ row'[k].status = "revoked" \/ "failure" \in troubles'
<1>1. TypeOK /\ Accounted /\ OnlyIssued /\ Coherent /\ RequestsType
  BY DEF Basis, TypeOK
<1>2. /\ k = token[q] /\ plan[q] \in {"rotate", "drop", "suspend", "logout"}
      /\ pc[q] \in {"denying", "committing"}
  BY DEF Holds
<1>3. CASE CommitRotation(q)
  BY <1>1, <1>2, <1>3, RotationRows
<1>4. CASE CommitRetirement(q)
  BY <1>1, <1>2, <1>4, RetirementRows
<1>5. CASE Fail(q)
  BY <1>5 DEF Fail
<1>6. CASE Deny(q)
  BY <1>1, <1>2, <1>6 DEF Deny, Goto, RequestsType, Holds
<1> QED
  BY <1>2, <1>3, <1>4, <1>5, <1>6
  DEF Step, Handle, Login, Refresh, Logout, Send, Idle, Receive, LoseReply, RefreshAccepted,
      RefreshRejected, RefreshReplayed, Refreshing, ReportReplay, FoundDenied, NotDenied,
      StartWipe, EndWipe, LogoutReads, Revoke, CommitLogin, CommitNothing

LEMMA DeniedStep == Basis /\ DeniedIsRetired /\ [Next]_vars => DeniedIsRetired'
<1> SUFFICES ASSUME Basis, DeniedIsRetired, [Next]_vars PROVE DeniedIsRetired'
  OBVIOUS
<1> DEFINE Covered(k) == \/ row'[k].status = "revoked"
                         \/ \E q \in Requests : Holds(q, k)'
                         \/ "failure" \in troubles'
<1>1. TypeOK /\ Accounted /\ OnlyIssued /\ Coherent /\ Retired /\ RequestsType /\ TokensType
  BY DEF Basis, TypeOK
<1>2. \A k \in Tokens : row[k].status = "revoked" => row'[k].status = "revoked"
  BY <1>1, RowsStep
<1>3. "failure" \in troubles => "failure" \in troubles'
  BY DEF Next, Handle, vars, tokenVars, requestVars, history, Login, Refresh, Logout, Send,
         Receive, LoseReply, Finish, RefreshAccepted, RefreshRejected, RefreshReplayed,
         ReportReplay, FoundDenied, NotDenied, StartWipe, EndWipe, LogoutReads, Revoke, Deny,
         CommitLogin, CommitRotation, CommitRetirement, CommitNothing, Fail, Expire, Suspend,
         Reactivate, LoseDenylist
<1>4. ASSUME NEW k \in denied PROVE Covered(k)
  <2>1. k \in Tokens
    BY <1>1 DEF TokensType
  <2>2. CASE row[k].status = "revoked" \/ "failure" \in troubles
    BY <1>2, <1>3, <2>1, <2>2
  <2>3. ASSUME NEW r \in Requests, Holds(r, k) PROVE Covered(k)
    <3>1. CASE UNCHANGED requestVars
      BY <2>3, <3>1 DEF requestVars, Holds
    <3>2. ASSUME NEW q \in Requests, Step(q), OthersUnchanged(q) PROVE Covered(k)
      <4>1. CASE q = r
        BY <2>1, <2>3, <3>2, <4>1, LockReleased
      <4>2. CASE q # r
        BY <2>3, <3>2, <4>2 DEF OthersUnchanged, Holds
      <4> QED
        BY <4>1, <4>2
    <3> HIDE DEF Covered
    <3> QED
      BY <1>1, <3>1, <3>2, OwnStep
  <2> QED
    BY <1>4, <2>2, <2>3 DEF DeniedIsRetired, Unlocked
<1>5. ASSUME NEW q \in Requests, Deny(q) PROVE Covered(token[q])
  <2>1. token[q] # NoToken /\ token[q] \in Tokens /\ pc[q] = "denying"
    BY <1>1, <1>5, PresentedToken DEF Deny
  <2>2. CASE plan[q] = "forget"
    BY <1>1, <1>2, <2>1, <2>2 DEF Retired
  <2>3. CASE plan[q] # "forget"
    <3>1. Holds(q, token[q])
      BY <1>1, <2>1, <2>3 DEF Coherent, Holds
    <3>2. Holds(q, token[q])'
      BY <1>1, <1>5, <3>1 DEF Deny, Goto, RequestsType, Holds
    <3> QED
      BY <3>2 DEF Holds
  <2> QED
    BY <2>2, <2>3
<1>6. ASSUME NEW q \in Requests, ReportReplay(q) PROVE Covered(token[q])
  <2>1. token[q] \in Tokens /\ row[token[q]].status = "revoked"
    BY <1>1, <1>6, PresentedToken DEF ReportReplay, Retired
  <2> QED
    BY <1>2, <2>1
<1>7. ASSUME NEW k \in denied' PROVE k \in denied \/ \E q \in Requests :
                                     (Deny(q) \/ ReportReplay(q)) /\ k = token[q]
  BY <1>7 DEF Next, Handle, vars, tokenVars, requestVars, history, Login, Refresh, Logout,
         Send, Receive, LoseReply, Finish, RefreshAccepted, RefreshRejected, RefreshReplayed,
         ReportReplay, FoundDenied, NotDenied, StartWipe, EndWipe, LogoutReads, Revoke, Deny,
         CommitLogin, CommitRotation, CommitRetirement, CommitNothing, Fail, Expire, Suspend,
         Reactivate, LoseDenylist, DenyToken
<1>8. \A k \in denied' : Covered(k)
  <2> HIDE DEF Covered
  <2> QED
    BY <1>4, <1>5, <1>6, <1>7
<1> QED
  BY <1>8 DEF DeniedIsRetired, Unlocked

\* The denylist agrees with the table: while nothing has failed, a denied token is
\* revoked or locked by the transaction that will revoke it.
THEOREM Denials == Spec => []DeniedIsRetired
<1>1. Init => DeniedIsRetired
  BY DEF Init, DeniedIsRetired
<1> QED
  BY <1>1, DeniedStep, BasisHolds, PTL DEF Spec

-----------------------------------------------------------------------------
(* One request at a time                                                   *)

\* While no two requests have overlapped, one at most is under way.
OneAtATime ==
    "overlap" \notin troubles =>
        \A q, r \in Requests : ~ Idle(q) /\ ~ Idle(r) => q = r

\* Then nobody takes from a refresh the token that it has found alive.
RotatesLive ==
    "overlap" \notin troubles =>
        \A q \in Requests :
            /\ plan[q] \in {"rotate", "suspend"}
            /\ pc[q] \in {"checking", "revoking", "denying", "committing"}
            => row[token[q]].status = "live"

\* The answer of q is about to set or clear the cookie.
Replacing(q) == pc[q] = "replying" /\ out[q].set

\* No request met what the alarm may be put down to.
Quiet == troubles \cap {"overlap", "lost reply", "failure"} = {}

Fresh(k) == k = NoToken \/ row[k].next = NoToken

\* Then the cookie names no rotated token, but while the answer with its successor is on
\* its way; and a request came with the cookie there is.
CookieFresh ==
    Quiet =>
        /\ Fresh(jar) \/ \E q \in Requests : Replacing(q)
        /\ \A q \in Requests : /\ Replacing(q) => Fresh(out[q].token)
                               /\ Idle(q) \/ token[q] \in {NoToken, jar}

\* A token with which its owner is logged in, or which has served its time.
Sound(k) == k = NoToken \/ k \in expired \/ k \in Live \ denied

\* The token in the cookie is given up, or the new cookie is on its way.
Settling(q) ==
    \/ Replacing(q)
    \/ pc[q] = "committing" /\ plan[q] \in {"rotate", "logout", "forget"}

\* Without any trouble the cookie names a sound token but while it is being replaced.
CookieSound ==
    troubles = {} =>
        /\ userActive
        /\ Sound(jar) \/ \E q \in Requests : Settling(q)
        /\ \A q \in Requests : /\ Replacing(q) => Sound(out[q].token)
                               /\ plan[q] # "suspend"
                               /\ plan[q] = "drop" => token[q] \in expired

\* A step of a request while nothing overlaps: all others are idle, and stay so.
LEMMA AloneStep ==
    ASSUME Basis, OneAtATime, NEW q \in Requests, Step(q), OthersUnchanged(q),
           "overlap" \notin troubles'
    PROVE  /\ "overlap" \notin troubles
           /\ \A r \in Requests \ {q} : pc[r] = "idle" /\ pc'[r] = "idle"
<1>1. CASE Login(q) \/ Refresh(q) \/ Logout(q)
  <2>1. troubles' = IF \A r \in Requests : Idle(r) THEN troubles ELSE troubles \cup {"overlap"}
    BY <1>1 DEF Login, Refresh, Logout, Send
  <2>2. "overlap" \notin troubles /\ \A r \in Requests : Idle(r)
    BY <2>1
  <2> QED
    BY <2>2 DEF OthersUnchanged, Idle
<1>2. CASE Receive(q) \/ LoseReply(q) \/ Handle(q)
  <2>1. pc[q] # "idle"
    BY <1>2
    DEF Receive, LoseReply, Handle, RefreshAccepted, RefreshRejected, RefreshReplayed, Refreshing,
        ReportReplay, FoundDenied, NotDenied, StartWipe, EndWipe, LogoutReads, Revoke, Deny,
        CommitLogin, CommitRotation, CommitRetirement, CommitNothing, Fail
  <2>2. "overlap" \notin troubles
    BY <1>2
    DEF Receive, LoseReply, Handle, RefreshAccepted, RefreshRejected, RefreshReplayed,
        ReportReplay, FoundDenied, NotDenied, StartWipe, EndWipe, LogoutReads, Revoke, Deny,
        CommitLogin, CommitRotation, CommitRetirement, CommitNothing, Fail, history
  <2>3. \A r \in Requests \ {q} : pc[r] = "idle"
    BY <2>1, <2>2 DEF OneAtATime, Idle
  <2> QED
    BY <2>2, <2>3 DEF OthersUnchanged
<1> QED
  BY <1>1, <1>2 DEF Step

\* What has happened is not forgotten.
LEMMA TroublesKept ==
    ASSUME [Next]_vars
    PROVE  troubles \subseteq troubles'
  BY DEF Next, Handle, vars, tokenVars, requestVars, history, Login, Refresh, Logout, Send,
         Receive, LoseReply, Finish, RefreshAccepted, RefreshRejected, RefreshReplayed,
         ReportReplay, FoundDenied, NotDenied, StartWipe, EndWipe, LogoutReads, Revoke, Deny,
         CommitLogin, CommitRotation, CommitRetirement, CommitNothing, Fail, Expire, Suspend,
         Reactivate, LoseDenylist

LEMMA OneAtATimeStep == Basis /\ OneAtATime /\ [Next]_vars => OneAtATime'
<1> SUFFICES ASSUME Basis, OneAtATime, [Next]_vars, "overlap" \notin troubles'
             PROVE  \A q, r \in Requests : pc'[q] # "idle" /\ pc'[r] # "idle" => q = r
  BY DEF OneAtATime, Idle
<1>1. CASE UNCHANGED requestVars
  BY <1>1, TroublesKept DEF requestVars, OneAtATime, Idle
<1>2. ASSUME NEW q \in Requests, Step(q), OthersUnchanged(q)
      PROVE  \A r \in Requests \ {q} : pc'[r] = "idle"
  BY <1>2, AloneStep
<1>3. RequestsType
  BY DEF Basis, TypeOK
<1> QED
  BY <1>1, <1>2, <1>3, OwnStep

\* What a step of the surroundings leaves alone.
LEMMA SurroundingsKeep ==
    ASSUME Surroundings
    PROVE  /\ UNCHANGED <<row, issued, jar, opened, logins>>
           /\ expired \subseteq expired' /\ denied' \subseteq denied
           /\ troubles' \in {troubles, troubles \cup {"suspension"}}
           /\ userActive' = userActive \/ troubles' = troubles \cup {"suspension"} \/ Reactivate
  BY DEF Surroundings, vars, tokenVars, history, Expire, Suspend, Reactivate, LoseDenylist

\* Only four steps write to the table.
LEMMA RowsKept ==
    ASSUME NEW q \in Requests, Step(q), ~ CommitLogin(q), ~ CommitRotation(q),
           ~ CommitRetirement(q), ~ EndWipe(q)
    PROVE  UNCHANGED <<row, issued, logins>>
  BY DEF Step, Handle, tokenVars, history, Login, Refresh, Logout, Send, Receive, LoseReply,
         Finish, RefreshAccepted, RefreshRejected, RefreshReplayed, ReportReplay, FoundDenied,
         NotDenied, StartWipe, LogoutReads, Revoke, Deny, CommitNothing, Fail

LEMMA RotatesLiveStep == Basis /\ OneAtATime /\ RotatesLive /\ [Next]_vars => RotatesLive'
<1> SUFFICES ASSUME Basis, OneAtATime, RotatesLive, [Next]_vars, "overlap" \notin troubles',
                    NEW r \in Requests, plan'[r] \in {"rotate", "suspend"},
                    pc'[r] \in {"checking", "revoking", "denying", "committing"}
             PROVE  row'[token'[r]].status = "live"
  BY DEF RotatesLive
<1>1. RequestsType /\ "overlap" \notin troubles
  BY TroublesKept DEF Basis, TypeOK
<1>2. CASE Surroundings /\ UNCHANGED requestVars
  BY <1>1, <1>2, SurroundingsKeep DEF requestVars, RotatesLive
<1>3. ASSUME NEW q \in Requests, Step(q), OthersUnchanged(q)
      PROVE  row'[token'[r]].status = "live"
  <2>1. q = r
    BY <1>3, AloneStep
  <2>2. /\ token'[q] = token[q]
        /\ ~ CommitLogin(q) /\ ~ CommitRotation(q) /\ ~ CommitRetirement(q) /\ ~ EndWipe(q)
        /\ \/ RefreshAccepted(q)
           \/ /\ plan[q] \in {"rotate", "suspend"}
              /\ pc[q] \in {"checking", "revoking", "denying", "committing"}
    BY <1>1, <1>3, <2>1
    DEF Step, Handle, tokenVars, history, Login, Refresh, Logout, Send, Receive, LoseReply,
        Finish, RefreshAccepted, RefreshRejected, RefreshReplayed, ReportReplay, FoundDenied,
        NotDenied, StartWipe, EndWipe, LogoutReads, Revoke, Deny, CommitLogin, CommitRotation,
        CommitRetirement, CommitNothing, Fail, Answer, Goto, RequestsType, Refreshing
  <2>3. row' = row
    BY <1>3, <2>2, RowsKept
  <2> QED
    BY <1>1, <2>1, <2>2, <2>3 DEF RefreshAccepted, RotatesLive
<1> QED
  BY <1>1, <1>2, <1>3, OwnStep

-----------------------------------------------------------------------------
(* Live tokens                                                             *)

LEMMA LiveFinite == IsFiniteSet(Live) /\ Cardinality(Live) \in Nat /\ Live \subseteq Tokens
<1>1. IsFiniteSet(Tokens) /\ Live \in SUBSET Tokens
  BY Bound, FS_Interval DEF Tokens, Live
<1> QED
  BY <1>1, FS_Subset, FS_CardinalityType

\* A subset of a finite set is no larger, and one more element makes it one larger.
LEMMA NoLarger ==
    ASSUME NEW S, NEW T, NEW x, IsFiniteSet(S), T \subseteq S \cup {x}
    PROVE  /\ Cardinality(T) \in Nat /\ Cardinality(S) \in Nat
           /\ Cardinality(T) <= Cardinality(S) + 1
           /\ T \subseteq S => Cardinality(T) <= Cardinality(S)
<1>1. /\ IsFiniteSet(S \cup {x}) /\ Cardinality(S) \in Nat
      /\ Cardinality(S \cup {x}) \in {Cardinality(S), Cardinality(S) + 1}
  BY FS_AddElement, FS_CardinalityType
<1>2. IsFiniteSet(T) /\ Cardinality(T) \in Nat /\ Cardinality(T) <= Cardinality(S \cup {x})
  BY <1>1, FS_Subset, FS_CardinalityType
<1>3. T \subseteq S => Cardinality(T) <= Cardinality(S)
  BY FS_Subset
<1> QED
  BY <1>1, <1>2, <1>3

LEMMA LiveStep == Basis /\ OneAtATime /\ RotatesLive /\ LiveAccounted /\ [Next]_vars
                      => LiveAccounted'
<1> SUFFICES ASSUME Basis, OneAtATime, RotatesLive, LiveAccounted, [Next]_vars,
                    "overlap" \notin troubles'
             PROVE  Cardinality(Live') <= logins'
  BY DEF LiveAccounted
<1>1. /\ TypeOK /\ Accounted /\ OnlyIssued /\ Coherent /\ RequestsType
      /\ "overlap" \notin troubles
  BY TroublesKept DEF Basis, TypeOK
<1>2. /\ IsFiniteSet(Live) /\ Cardinality(Live) \in Nat /\ logins \in Nat
      /\ Cardinality(Live) <= logins
  BY <1>1, LiveFinite DEF LiveAccounted, TypeOK, HistoryType
<1>3. ASSUME Live' \subseteq Live, logins' = logins
      PROVE  Cardinality(Live') <= logins'
  BY <1>2, <1>3, NoLarger
<1>4. CASE UNCHANGED <<row, logins>>
  BY <1>3, <1>4 DEF Live
<1>5. ASSUME NEW q \in Requests, CommitLogin(q)
      PROVE  Cardinality(Live') <= logins'
  <2>1. /\ \A k \in Tokens \ {NewToken} : row'[k] = row[k]
        /\ logins' = logins + 1
    BY <1>1, <1>5, LoginRows DEF CommitLogin
  <2>2. Live' \subseteq Live \cup {NewToken}
    BY <2>1 DEF Live
  <2>3. Cardinality(Live') <= Cardinality(Live) + 1 /\ Cardinality(Live') \in Nat
    BY <1>2, <2>2, NoLarger, Zenon
  <2> QED
    BY <1>2, <2>1, <2>3
<1>6. ASSUME NEW q \in Requests, CommitRotation(q)
      PROVE  Cardinality(Live') <= logins'
  <2>1. PICK t \in Tokens : t = token[q]
    BY <1>1, <1>6, RotationRows
  <2>2. /\ row'[t].status = "revoked"
        /\ \A k \in Tokens \ {NewToken, t} : row'[k] = row[k]
        /\ logins' = logins
    <3>1. /\ row'[token[q]] = [status |-> "revoked", next |-> NewToken]
          /\ \A k \in Tokens \ {NewToken, token[q]} : row'[k] = row[k]
      BY <1>1, <1>6, RotationRows, Zenon
    <3>2. logins' = logins
      BY <1>6, Zenon DEF CommitRotation, history
    <3> QED
      BY <2>1, <3>1, <3>2
  <2>3. t \in Live
    BY <1>1, <1>6, <2>1 DEF RotatesLive, CommitRotation, Live
  <2>4. Live' \subseteq (Live \ {t}) \cup {NewToken}
    BY <2>2 DEF Live
  <2>5. IsFiniteSet(Live \ {t}) /\ Cardinality(Live \ {t}) = Cardinality(Live) - 1
    BY <1>2, <2>3, FS_RemoveElement
  <2>6. Cardinality(Live') <= Cardinality(Live \ {t}) + 1 /\ Cardinality(Live') \in Nat
    BY <2>4, <2>5, NoLarger
  <2> QED
    BY <1>2, <2>2, <2>5, <2>6
<1>7. ASSUME NEW q \in Requests, CommitRetirement(q)
      PROVE  Cardinality(Live') <= logins'
  <2>1. /\ \A k \in Tokens \ {token[q]} : row'[k] = row[k]
        /\ row'[token[q]].status = "revoked" /\ logins' = logins
    BY <1>1, <1>7, RetirementRows DEF CommitRetirement, history
  <2>2. Live' \subseteq Live
    BY <2>1 DEF Live
  <2> QED
    BY <1>3, <2>1, <2>2
<1>8. ASSUME NEW q \in Requests, EndWipe(q)
      PROVE  Cardinality(Live') <= logins'
  <2>1. /\ \A k \in Tokens : row'[k] = row[k] \/ row'[k].status = "revoked"
        /\ logins' = logins
    BY <1>1, <1>8, WipeRows DEF EndWipe, history
  <2>2. Live' \subseteq Live
    BY <2>1 DEF Live
  <2> QED
    BY <1>3, <2>1, <2>2
<1>9. CASE Surroundings
  <2>1. UNCHANGED <<row, logins>>
    BY <1>9 DEF Surroundings, vars, tokenVars, history, Expire, Suspend, Reactivate, LoseDenylist
  <2> QED
    BY <1>4, <2>1
<1> QED
  BY <1>1, <1>4, <1>5, <1>6, <1>7, <1>8, <1>9, OwnStep, RowsKept

LEMMA SequenceHolds == Spec => [](OneAtATime /\ RotatesLive)
<1>1. Init => OneAtATime /\ RotatesLive
  BY DEF Init, OneAtATime, Idle, RotatesLive
<1>2. Basis /\ OneAtATime /\ RotatesLive /\ [Next]_vars => (OneAtATime /\ RotatesLive)'
  BY OneAtATimeStep, RotatesLiveStep
<1> QED
  BY <1>1, <1>2, BasisHolds, PTL DEF Spec

\* As long as no two requests overlap, a login leaves one live token at most, however
\* often it is refreshed, and whatever fails, expires or is revoked in between.
THEOREM LiveTokens == Spec => []LiveAccounted
<1>1. Init => LiveAccounted
  <2> SUFFICES ASSUME Init PROVE LiveAccounted
    OBVIOUS
  <2>1. Live = {}
    BY DEF Init, Live, AbsentRow
  <2> QED
    BY <2>1, FS_EmptySet DEF Init, LiveAccounted
<1> QED
  BY <1>1, LiveStep, SequenceHolds, BasisHolds, PTL DEF Spec

-----------------------------------------------------------------------------
(* The alarm                                                               *)

\* What a request that is alone sees when nothing went wrong.
Calm(q) ==
    /\ Fresh(jar) \/ Replacing(q)
    /\ Replacing(q) => Fresh(out[q].token)
    /\ Idle(q) \/ token[q] \in {NoToken, jar}
    /\ pc[q] \notin {"reporting", "detected", "wiping"}

\* A step of such a request.  Others are idle, so that nobody has the lock that would
\* excuse a denied token.
LEMMA CalmStep ==
    ASSUME Basis, DeniedIsRetired, RotatesLive, NEW q \in Requests, Step(q), Calm(q),
           \A r \in Requests \ {q} : pc[r] = "idle", Quiet, Quiet'
    PROVE  Calm(q)'
<1>1. /\ TypeOK /\ Accounted /\ OnlyIssued /\ Coherent /\ RequestsType /\ TokensType
      /\ "overlap" \notin troubles /\ "failure" \notin troubles
  BY DEF Basis, TypeOK, Quiet
<1>2. /\ Fresh(NoToken) /\ Fresh(NoToken)' /\ SetCookie(NoToken).token = NoToken
      /\ ~ KeepCookie.set
  BY Cookies DEF Fresh
<1>3. ASSUME UNCHANGED <<row, jar, token>>, pc[q] # "replying", pc'[q] # "replying",
             pc'[q] \notin {"reporting", "detected", "wiping"}, pc[q] # "idle"
      PROVE  Calm(q)'
  BY <1>3 DEF Calm, Fresh, Replacing, Idle
<1>4. CASE Login(q) \/ Refresh(q) \/ Logout(q)
  <2>1. /\ pc[q] = "idle" /\ pc'[q] \in {"sent", "committing"}
        /\ token'[q] \in {NoToken, jar} /\ UNCHANGED <<row, jar>>
    BY <1>1, <1>4 DEF Login, Refresh, Logout, Send, Idle, tokenVars, RequestsType
  <2> QED
    BY <2>1 DEF Calm, Fresh, Replacing, Idle
<1>5. CASE Receive(q)
  <2>1. /\ pc[q] = "replying" /\ pc'[q] = "idle" /\ UNCHANGED row
        /\ jar' = IF out[q].set THEN out[q].token ELSE jar
    BY <1>1, <1>5 DEF Receive, Finish, tokenVars, RequestsType
  <2> QED
    BY <2>1 DEF Calm, Fresh, Replacing, Idle
<1>6. CASE LoseReply(q) \/ Fail(q)
  BY <1>6 DEF LoseReply, Fail, Quiet
<1>7. CASE RefreshAccepted(q) \/ NotDenied(q) \/ LogoutReads(q) \/ Revoke(q) \/ Deny(q)
  <2>1. /\ UNCHANGED <<row, jar, token>> /\ pc[q] \notin {"idle", "replying"}
        /\ pc'[q] \in {"checking", "revoking", "denying", "committing"}
    BY <1>1, <1>7 DEF RefreshAccepted, NotDenied, LogoutReads, Revoke, Deny, Refreshing, Goto,
                      tokenVars, RequestsType
  <2> QED
    BY <1>3, <2>1
<1>8. ASSUME RefreshReplayed(q)
      PROVE  FALSE
  <2>1. token[q] # NoToken /\ pc[q] = "sent" /\ row[token[q]].next # NoToken
    BY <1>1, <1>8, PresentedToken DEF RefreshReplayed, Refreshing
  <2> QED
    BY <2>1 DEF Calm, Replacing, Fresh, Idle
<1>9. ASSUME FoundDenied(q)
      PROVE  FALSE
  <2>1. pc[q] = "checking" /\ token[q] \in denied /\ plan[q] \in {"rotate", "suspend"}
    BY <1>1, <1>9 DEF FoundDenied, Coherent
  <2>2. row[token[q]].status = "live"
    BY <1>1, <2>1 DEF RotatesLive
  <2>3. ~ Unlocked(token[q])
    BY <1>1, <2>1, <2>2 DEF DeniedIsRetired
  <2> QED
    BY <2>1, <2>3 DEF Unlocked, Holds
<1>10. ~ ReportReplay(q) /\ ~ StartWipe(q) /\ ~ EndWipe(q)
  BY DEF Calm, ReportReplay, StartWipe, EndWipe
<1>11. ASSUME NEW c \in Cookie, Answer(q, c), UNCHANGED <<plan, token, jar>>, Fresh(c.token)',
              c.set \/ Fresh(jar)', pc[q] # "idle"
       PROVE  Calm(q)'
  <2>1. pc'[q] = "replying" /\ out'[q] = c
    BY <1>1, <1>11, AnswerType DEF RequestsType
  <2> QED
    BY <1>11, <2>1 DEF Calm, Replacing, Idle
<1>12. CASE RefreshRejected(q)
  <2>1. /\ Answer(q, KeepCookie) /\ UNCHANGED <<plan, token, jar, row>>
        /\ pc[q] = "sent" /\ KeepCookie \in Cookie
    BY <1>12, Cookies DEF RefreshRejected, Refreshing, tokenVars
  <2>2. Fresh(jar)' /\ Fresh(KeepCookie.token)'
    BY <1>2, <2>1, Cookies DEF Calm, Replacing, Fresh
  <2> QED
    BY <1>11, <2>1, <2>2
<1>13. CASE CommitLogin(q) \/ CommitRotation(q)
  <2>1. NewToken \in Tokens /\ row'[NewToken] = LiveRow
    BY <1>1, <1>13, LoginRows, RotationRows DEF Inserted
  <2>2. PICK n \in Tokens : n = NewToken
    BY <2>1
  <2>3. PICK c \in Cookie : c = SetCookie(n)
    BY Cookies
  <2>4. c.token = n /\ c.set
    BY <2>3, Cookies DEF SetCookie
  <2>5. Answer(q, c) /\ UNCHANGED <<plan, token, jar>> /\ pc[q] = "committing"
    BY <1>13, <2>2, <2>3 DEF CommitLogin, CommitRotation
  <2>6. Fresh(c.token)'
    BY <2>1, <2>2, <2>4, LiveRowType DEF Fresh
  <2> QED
    BY <1>11, <2>4, <2>5, <2>6
<1>14. CASE CommitRetirement(q)
  <2>1. /\ pc[q] = "committing" /\ UNCHANGED <<plan, token, jar>>
        /\ Answer(q, KeepCookie) \/ Answer(q, SetCookie(NoToken))
    BY <1>14 DEF CommitRetirement
  <2>2. \A k \in Tokens : row'[k].next = row[k].next
    BY <1>1, <1>14, RetirementRows
  <2>3. Fresh(jar)'
    BY <1>1, <2>1, <2>2 DEF Calm, Replacing, Fresh, TokensType
  <2> QED
    BY <1>2, <1>11, <2>1, <2>3, Cookies
<1>15. CASE CommitNothing(q)
  <2>1. /\ pc[q] = "committing" /\ UNCHANGED <<plan, token, jar, row>>
        /\ Answer(q, SetCookie(NoToken))
    BY <1>15 DEF CommitNothing, tokenVars
  <2>2. Fresh(jar)'
    BY <2>1 DEF Calm, Replacing, Fresh
  <2> QED
    BY <1>2, <1>11, <2>1, <2>2, Cookies
<1> QED
  BY <1>4, <1>5, <1>6, <1>7, <1>8, <1>9, <1>10, <1>12, <1>13, <1>14, <1>15 DEF Step, Handle

LEMMA AlarmStep ==
    Basis /\ DeniedIsRetired /\ OneAtATime /\ RotatesLive /\ CookieFresh /\ AlarmHasCause
          /\ [Next]_vars => CookieFresh' /\ AlarmHasCause'
<1> SUFFICES ASSUME Basis, DeniedIsRetired, OneAtATime, RotatesLive, CookieFresh,
                    AlarmHasCause, [Next]_vars, Quiet'
             PROVE  /\ Fresh(jar)' \/ \E q \in Requests : Replacing(q)'
                    /\ \A q \in Requests :
                          /\ Replacing(q)' => Fresh(out[q].token)'
                          /\ Idle(q)' \/ token'[q] \in {NoToken, jar'}
                          /\ pc'[q] \notin {"reporting", "detected", "wiping"}
  BY DEF CookieFresh, AlarmHasCause, Quiet
<1>1. Quiet /\ RequestsType /\ "overlap" \notin troubles'
  BY TroublesKept DEF Basis, TypeOK, Quiet
<1>2. /\ Fresh(jar) \/ \E q \in Requests : Replacing(q)
      /\ \A q \in Requests : /\ Replacing(q) => Fresh(out[q].token)
                             /\ Idle(q) \/ token[q] \in {NoToken, jar}
                             /\ pc[q] \notin {"reporting", "detected", "wiping"}
  BY <1>1 DEF CookieFresh, AlarmHasCause, Quiet
<1>3. CASE Surroundings /\ UNCHANGED requestVars
  <2>1. UNCHANGED <<row, jar, pc, token, out>>
    BY <1>3, SurroundingsKeep DEF requestVars
  <2> QED
    BY <1>2, <2>1 DEF Fresh, Replacing, Idle
<1>4. ASSUME NEW q \in Requests, Step(q), OthersUnchanged(q)
      PROVE  /\ Fresh(jar)' \/ Replacing(q)'
             /\ \A r \in Requests :
                   /\ Replacing(r)' => Fresh(out[r].token)'
                   /\ Idle(r)' \/ token'[r] \in {NoToken, jar'}
                   /\ pc'[r] \notin {"reporting", "detected", "wiping"}
  <2>1. \A r \in Requests \ {q} : pc[r] = "idle" /\ pc'[r] = "idle"
    BY <1>1, <1>4, AloneStep
  <2>2. Calm(q)
    BY <1>2, <2>1 DEF Calm, Replacing
  <2>3. Calm(q)'
    BY <1>1, <1>4, <2>1, <2>2, CalmStep
  <2> QED
    BY <2>1, <2>3 DEF Calm, Replacing, Idle
<1> QED
  BY <1>1, <1>3, <1>4, OwnStep

LEMMA AlarmInvariance == Spec => [](CookieFresh /\ AlarmHasCause)
<1>1. Init => CookieFresh /\ AlarmHasCause
  BY DEF Init, CookieFresh, AlarmHasCause, Fresh, Replacing, Idle
<1>2. Basis /\ DeniedIsRetired /\ (OneAtATime /\ RotatesLive) /\ (CookieFresh /\ AlarmHasCause)
            /\ [Next]_vars => (CookieFresh /\ AlarmHasCause)'
  BY AlarmStep
<1> QED
  BY <1>1, <1>2, BasisHolds, Denials, SequenceHolds, PTL DEF Spec

\* Whoever is logged out everywhere by the alarm has lost an answer, met a failure, or
\* sent two requests at once: an honest client that did none of this never is.
THEOREM AlarmCause == Spec => []AlarmHasCause
  BY AlarmInvariance, PTL

-----------------------------------------------------------------------------
(* Staying logged in                                                       *)

\* What a request that is alone sees when there was no trouble at all.
Loyal(q) ==
    /\ userActive
    /\ Sound(jar) \/ Settling(q)
    /\ Replacing(q) => Sound(out[q].token)
    /\ plan[q] # "suspend"
    /\ plan[q] = "drop" => token[q] \in expired

\* A new token is nobody's and not denied.
LEMMA NewIsSound ==
    ASSUME Basis, DeniedIsRetired, "failure" \notin troubles, NEW q \in Requests,
           CommitLogin(q) \/ CommitRotation(q)
    PROVE  NewToken \in Tokens /\ row'[NewToken] = LiveRow /\ NewToken \notin denied'
<1>1. TypeOK /\ Accounted /\ OnlyIssued /\ Coherent
  BY DEF Basis
<1>2. NewToken \in Tokens /\ NewToken \notin Issued /\ row'[NewToken] = LiveRow
  BY <1>1, LoginRows, RotationRows DEF Inserted
<1>3. row[NewToken].status = "absent" /\ \A r \in Requests : token[r] # NewToken
  BY <1>1, <1>2 DEF OnlyIssued
<1>4. NewToken \notin denied
  <2> SUFFICES ASSUME NewToken \in denied
               PROVE  FALSE
    OBVIOUS
  <2>1. row[NewToken].status = "revoked" \/ \E r \in Requests : token[r] = NewToken
    BY DEF DeniedIsRetired, Unlocked, Holds
  <2> QED
    BY <1>3, <2>1
<1>5. denied' = denied
  BY DEF CommitLogin, CommitRotation
<1> QED
  BY <1>2, <1>4, <1>5

LEMMA LoyalStep ==
    ASSUME Basis, DeniedIsRetired, NEW q \in Requests, Step(q), Loyal(q), Calm(q), Calm(q)',
           troubles = {}, troubles' = {}
    PROVE  Loyal(q)'
<1>1. /\ TypeOK /\ Accounted /\ OnlyIssued /\ Coherent /\ RequestsType /\ TokensType
      /\ Sound(NoToken)' /\ SetCookie(NoToken).token = NoToken /\ SetCookie(NoToken).set
      /\ ~ KeepCookie.set
  BY Cookies DEF Basis, TypeOK, Sound, SetCookie
<1>2. ASSUME UNCHANGED <<row, denied, expired, userActive, jar>>, ~ Settling(q),
             ~ Replacing(q)', plan'[q] # "suspend", plan'[q] = "drop" => token'[q] \in expired
      PROVE  Loyal(q)'
  BY <1>2 DEF Loyal, Sound, Live
<1>3. CASE Login(q) \/ Refresh(q) \/ Logout(q)
  <2>1. /\ pc[q] = "idle" /\ pc'[q] \in {"sent", "committing"}
        /\ plan'[q] \in {"issue", "rotate", "logout", "forget"}
        /\ UNCHANGED <<row, denied, expired, userActive, jar>>
    BY <1>1, <1>3 DEF Login, Refresh, Logout, Send, Idle, tokenVars, RequestsType
  <2> QED
    BY <1>2, <2>1 DEF Settling, Replacing
<1>4. CASE Receive(q)
  <2>1. /\ pc[q] = "replying" /\ pc'[q] = "idle" /\ plan'[q] = "none"
        /\ UNCHANGED <<row, denied, expired, userActive>>
        /\ jar' = IF out[q].set THEN out[q].token ELSE jar
    BY <1>1, <1>4 DEF Receive, Finish, tokenVars, RequestsType
  <2> QED
    BY <2>1 DEF Loyal, Sound, Live, Replacing, Settling
<1>5. ~ LoseReply(q) /\ ~ Fail(q)
  BY DEF LoseReply, Fail
<1>6. CASE RefreshAccepted(q) \/ NotDenied(q) \/ LogoutReads(q) \/ Revoke(q)
  <2>1. /\ UNCHANGED <<row, denied, expired, userActive, jar, token>>
        /\ pc[q] \in {"sent", "checking", "revoking"} /\ pc'[q] # "replying"
        /\ plan'[q] = "drop" => plan[q] = "drop" \/ token[q] \in expired
        /\ plan'[q] = "suspend" => plan[q] = "suspend" \/ ~ userActive
    BY <1>1, <1>6 DEF RefreshAccepted, NotDenied, LogoutReads, Revoke, Refreshing, Goto,
                      tokenVars, RequestsType
  <2> QED
    BY <1>2, <2>1 DEF Settling, Replacing, Loyal
<1>7. CASE Deny(q)
  <2>1. /\ UNCHANGED <<row, expired, userActive, jar, token, plan>>
        /\ pc'[q] = "committing" /\ plan[q] \in {"rotate", "suspend", "logout", "forget"}
    BY <1>1, <1>7 DEF Deny, Goto, RequestsType, Coherent
  <2> QED
    BY <2>1 DEF Settling, Replacing, Loyal
<1>8. /\ ~ RefreshReplayed(q) /\ ~ ReportReplay(q) /\ ~ FoundDenied(q)
      /\ ~ StartWipe(q) /\ ~ EndWipe(q)
  BY <1>1 DEF Calm, RefreshReplayed, ReportReplay, FoundDenied, StartWipe, EndWipe, Goto,
              RequestsType
<1>9. ASSUME NEW c \in Cookie, Answer(q, c), UNCHANGED <<plan, token, jar, userActive, expired>>,
             Sound(c.token)', c.set \/ Sound(jar)'
      PROVE  Loyal(q)'
  <2>1. pc'[q] = "replying" /\ out'[q] = c
    BY <1>1, <1>9, AnswerType DEF RequestsType
  <2> QED
    BY <1>9, <2>1 DEF Loyal, Replacing, Settling
<1>10. CASE RefreshRejected(q)
  <2>1. /\ Answer(q, KeepCookie) /\ UNCHANGED <<plan, token, jar, row, userActive>>
        /\ UNCHANGED <<denied, expired>> /\ pc[q] = "sent" /\ KeepCookie \in Cookie
    BY <1>10, Cookies DEF RefreshRejected, Refreshing, tokenVars
  <2>2. Sound(jar)' /\ Sound(KeepCookie.token)'
    BY <1>1, <2>1, Cookies DEF Loyal, Settling, Replacing, Sound, Live
  <2> QED
    BY <1>9, <2>1, <2>2
<1>11. CASE CommitLogin(q) \/ CommitRotation(q)
  <2>1. NewToken \in Tokens /\ row'[NewToken] = LiveRow /\ NewToken \notin denied'
    BY <1>11, NewIsSound
  <2>2. PICK n \in Tokens : n = NewToken
    BY <2>1
  <2>3. PICK c \in Cookie : c = SetCookie(n)
    BY Cookies
  <2>4. c.token = n /\ c.set
    BY <2>3, Cookies DEF SetCookie
  <2>5. Answer(q, c) /\ UNCHANGED <<plan, token, jar, userActive, expired>>
    BY <1>11, <2>2, <2>3 DEF CommitLogin, CommitRotation
  <2>6. Sound(c.token)'
    BY <2>1, <2>2, <2>4, LiveRowType DEF Sound, Live
  <2> QED
    BY <1>9, <2>4, <2>5, <2>6
<1>12. CASE CommitRetirement(q)
  <2>1. /\ pc[q] = "committing" /\ UNCHANGED <<plan, token, jar, userActive, denied, expired>>
        /\ plan[q] \in {"drop", "logout"}
        /\ Answer(q, IF plan[q] = "logout" THEN SetCookie(NoToken) ELSE KeepCookie)
    BY <1>12 DEF CommitRetirement, Loyal
  <2>2. CASE plan[q] = "logout"
    BY <1>1, <1>9, <2>1, <2>2, Cookies
  <2>3. CASE plan[q] = "drop"
    <3>1. token[q] \in expired /\ \A k \in Tokens \ {token[q]} : row'[k] = row[k]
      BY <1>1, <1>12, <2>3, RetirementRows DEF Loyal
    <3>2. Sound(jar)
      BY <2>1, <2>3 DEF Loyal, Settling, Replacing
    <3>3. Sound(jar)'
      BY <2>1, <3>1, <3>2 DEF Sound, Live
    <3>4. KeepCookie \in Cookie /\ Sound(KeepCookie.token)'
      BY <1>1, Cookies DEF Sound
    <3> QED
      BY <1>9, <2>1, <2>3, <3>3, <3>4
  <2> QED
    BY <2>1, <2>2, <2>3
<1>13. CASE CommitNothing(q)
  <2>1. /\ UNCHANGED <<plan, token, jar, userActive, expired>>
        /\ Answer(q, SetCookie(NoToken))
    BY <1>13 DEF CommitNothing, tokenVars
  <2> QED
    BY <1>1, <1>9, <2>1, Cookies
<1> QED
  BY <1>3, <1>4, <1>5, <1>6, <1>7, <1>8, <1>10, <1>11, <1>12, <1>13 DEF Step, Handle

LEMMA CookieSoundStep ==
    Basis /\ DeniedIsRetired /\ OneAtATime /\ RotatesLive /\ CookieFresh /\ AlarmHasCause
          /\ CookieSound /\ [Next]_vars => CookieSound'
<1> SUFFICES ASSUME Basis, DeniedIsRetired, OneAtATime, RotatesLive, CookieFresh,
                    AlarmHasCause, CookieSound, [Next]_vars, troubles' = {}
             PROVE  /\ userActive'
                    /\ Sound(jar)' \/ \E q \in Requests : Settling(q)'
                    /\ \A q \in Requests : /\ Replacing(q)' => Sound(out[q].token)'
                                           /\ plan'[q] # "suspend"
                                           /\ plan'[q] = "drop" => token'[q] \in expired'
  BY DEF CookieSound
<1>1. /\ RequestsType /\ troubles = {} /\ Quiet /\ Quiet' /\ "overlap" \notin troubles'
  BY TroublesKept DEF Basis, TypeOK, Quiet
<1>2. /\ userActive
      /\ Sound(jar) \/ \E q \in Requests : Settling(q)
      /\ \A q \in Requests : /\ Replacing(q) => Sound(out[q].token)
                             /\ plan[q] # "suspend"
                             /\ plan[q] = "drop" => token[q] \in expired
  BY <1>1 DEF CookieSound
<1>3. CASE Surroundings /\ UNCHANGED requestVars
  <2>1. /\ UNCHANGED <<row, jar, pc, plan, token, out>> /\ userActive'
        /\ expired \subseteq expired' /\ denied' \subseteq denied
    BY <1>1, <1>2, <1>3, SurroundingsKeep DEF requestVars, Reactivate
  <2>2. \A k : Sound(k) => k = NoToken \/ k \in expired' \/ k \in Live' \ denied'
    BY <2>1 DEF Sound, Live
  <2> QED
    BY <1>2, <2>1, <2>2 DEF Sound, Replacing, Settling
<1>4. ASSUME NEW q \in Requests, Step(q), OthersUnchanged(q)
      PROVE  /\ userActive'
             /\ Sound(jar)' \/ Settling(q)'
             /\ \A r \in Requests : /\ Replacing(r)' => Sound(out[r].token)'
                                    /\ plan'[r] # "suspend"
                                    /\ plan'[r] = "drop" => token'[r] \in expired'
  <2>1. \A r \in Requests \ {q} : pc[r] = "idle" /\ pc'[r] = "idle"
    BY <1>1, <1>4, AloneStep
  <2>2. Calm(q)
    BY <1>1, <2>1 DEF Calm, Replacing, CookieFresh, AlarmHasCause, Quiet
  <2>3. Calm(q)'
    BY <1>1, <1>4, <2>1, <2>2, CalmStep
  <2>4. Loyal(q)
    BY <1>2, <2>1 DEF Loyal, Settling, Replacing
  <2>5. Loyal(q)'
    BY <1>1, <1>4, <2>2, <2>3, <2>4, LoyalStep
  <2>6. expired \subseteq expired'
    BY <1>4 DEF Step, Handle, tokenVars, history, Login, Refresh, Logout, Send, Receive,
                LoseReply, Finish, RefreshAccepted, RefreshRejected, RefreshReplayed,
                ReportReplay, FoundDenied, NotDenied, StartWipe, EndWipe, LogoutReads, Revoke,
                Deny, CommitLogin, CommitRotation, CommitRetirement, CommitNothing, Fail
  <2>7. ASSUME NEW r \in Requests \ {q}
        PROVE  /\ ~ Replacing(r)' /\ plan'[r] # "suspend"
               /\ plan'[r] = "drop" => token'[r] \in expired'
    BY <1>2, <1>4, <2>1, <2>6 DEF OthersUnchanged, Replacing
  <2> QED
    BY <2>5, <2>7 DEF Loyal
<1> QED
  BY <1>1, <1>3, <1>4, OwnStep

LEMMA CookieSoundHolds == Spec => []CookieSound
<1>1. Init => CookieSound
  BY DEF Init, CookieSound, Sound, Replacing
<1>2. Basis /\ DeniedIsRetired /\ (OneAtATime /\ RotatesLive) /\ (CookieFresh /\ AlarmHasCause)
            /\ CookieSound /\ [Next]_vars => CookieSound'
  BY CookieSoundStep
<1> QED
  BY <1>1, <1>2, BasisHolds, Denials, SequenceHolds, AlarmInvariance, PTL DEF Spec

\* A browser whose requests did not overlap, fail or lose an answer, and whose user was
\* not suspended, stays logged in through any number of rotations, until its token
\* expires.
THEOREM LoggedIn == Spec => []StaysLoggedIn
<1>1. CookieSound => StaysLoggedIn
  <2> SUFFICES ASSUME CookieSound, troubles = {}, jar # NoToken,
                      \A q \in Requests : pc[q] = "idle"
               PROVE  jar \in expired \/ jar \in Live \ denied
    BY DEF StaysLoggedIn, Idle
  <2>1. \A q \in Requests : ~ Settling(q)
    BY DEF Settling, Replacing
  <2> QED
    BY <2>1 DEF CookieSound, Sound
<1> QED
  BY <1>1, CookieSoundHolds, PTL

-----------------------------------------------------------------------------
(* JobPolling: the console that watches jobs, for any jobs and intervals   *)

\* What the constants and the operators of the polling loop are.
LEMMA NoTableType == NoTable \in [Jobs -> Status]
  BY DEF NoTable, Status

LEMMA Intervals == Interval \in Nat /\ MaxInterval \in Nat /\ Interval <= MaxInterval
  BY ClientAssumption, Zenon DEF ClientAssumption

LEMMA NoJobIsNone == NoJob \notin Jobs
  BY ClientAssumption, Zenon DEF ClientAssumption, NoJob

LEMMA FirstTick == Interval \in Interval..MaxInterval
  BY Intervals

LEMMA BackoffType == tick \in Interval..MaxInterval => Backoff \in Interval..MaxInterval
  BY Intervals DEF Backoff

\* The opened page is well typed, and every callback keeps it so.
LEMMA ClientTypeInit == ClientInit => ClientTypeOK
  BY NoTableType, FirstTick DEF ClientInit, ClientTypeOK, Status, Loops

LEMMA ClientTypeStep == ClientTypeOK /\ [ClientNext]_clientVars => ClientTypeOK'
<1> SUFFICES ASSUME ClientTypeOK, [ClientNext]_clientVars PROVE ClientTypeOK'
  OBVIOUS
<1> USE DEF Status, Loops
<1>1. CASE UNCHANGED clientVars
  BY <1>1 DEF ClientTypeOK, clientVars, tableVars, loopVars, resultVars
<1>2. ASSUME NEW j \in Jobs, Progress(j) PROVE ClientTypeOK'
  BY <1>2 DEF Progress, ClientTypeOK, tableVars, loopVars, resultVars
<1>3. ASSUME NEW j \in Jobs, StartJob(j) PROVE ClientTypeOK'
  BY <1>3 DEF StartJob, ClientTypeOK, tableVars, loopVars
<1>4. ASSUME NEW j \in Jobs, ChooseJob(j) PROVE ClientTypeOK'
  BY <1>4, FirstTick, NoJobIsNone
  DEF ChooseJob, Watch, Clickable, Mounted, ClientTypeOK, tableVars
<1>5. CASE Reload \/ ServeList \/ ListArrives \/ ListFails
  BY <1>5, NoTableType
  DEF Reload, ServeList, ListArrives, ListFails, ClientTypeOK, loopVars, resultVars
<1>6. CASE ServeStart \/ ServeCreated \/ StartFailed
  BY <1>6 DEF ServeStart, ServeCreated, StartFailed, ClientTypeOK, tableVars, loopVars, resultVars
<1>7. CASE JobStarted
  BY <1>7, FirstTick, NoJobIsNone DEF JobStarted, Watch, Mounted, ClientTypeOK, resultVars
<1>8. CASE Serve \/ FetchFails \/ Tick
  BY <1>8 DEF Serve, FetchFails, Tick, Answered, ClientTypeOK, tableVars, resultVars
<1>9. CASE Arrive
  BY <1>9, BackoffType DEF Arrive, Answered, Polled, ClientTypeOK
<1>10. CASE ResultsArrive \/ ResultsFail \/ Unmount
  BY <1>10 DEF ResultsArrive, ResultsFail, Unmount, Answered, ClientTypeOK, tableVars, loopVars,
               resultVars
<1> QED
  BY <1>1, <1>2, <1>3, <1>4, <1>5, <1>6, <1>7, <1>8, <1>9, <1>10 DEF ClientNext

\* Every variable keeps its type, the interval stays within its limits, and a loop that
\* runs has a job to ask for.
THEOREM ClientTypeCorrect == ClientSpec => []ClientTypeOK
  BY ClientTypeInit, ClientTypeStep, PTL DEF ClientSpec

-----------------------------------------------------------------------------
(* Copies of a status.  ShownIsTrue is not inductive: what the table will   *)
(* show next is what an answer under way or a table under way says.         *)

TrueOf(status, j) == status \in Final => j \in Jobs /\ status = server[j]

Copies ==
    /\ \A j \in Jobs : TrueOf(shown[j], j) /\ TrueOf(page[j], j)
    /\ TrueOf(answer, asked) /\ (answer \in Final => loop = "answered")
    /\ TrueOf(created, creating)
    /\ \A j \in {results, wanted} \ {NoJob} : j \in Jobs /\ server[j] = "succeeded"

\* The database never takes a decision back.
LEMMA DecisionStays ==
    ASSUME ClientTypeOK, [ClientNext]_clientVars, NEW j \in Jobs, server[j] \in Final
    PROVE  server'[j] = server[j]
<1>1. ASSUME NEW k \in Jobs, Progress(k) PROVE server'[j] = server[j]
  BY <1>1 DEF Progress, ClientTypeOK, Final
<1>2. CASE ServeStart
  BY <1>2 DEF ServeStart, ClientTypeOK, Final
<1>3. CASE UNCHANGED server
  BY <1>3
<1> QED
  BY <1>1, <1>2, <1>3
  DEF ClientNext, clientVars, StartJob, ChooseJob, Reload, ServeList, ListArrives, ListFails,
      ServeCreated, JobStarted, StartFailed, Serve, Arrive, FetchFails, Tick,
      ResultsArrive, ResultsFail, Unmount

\* A copy is made of what the server says, or of another copy, so it stays true.
LEMMA CopiesStep == ClientTypeOK /\ Copies /\ [ClientNext]_clientVars => Copies'
<1> SUFFICES ASSUME ClientTypeOK, Copies, [ClientNext]_clientVars PROVE Copies'
  OBVIOUS
<1> DEFINE Still(status, j) == status \in Final => j \in Jobs /\ status = server'[j]
<1>1. ASSUME NEW status, NEW j, TrueOf(status, j) PROVE Still(status, j)
  BY <1>1, DecisionStays DEF TrueOf
<1>2. \A j \in {results, wanted} \ {NoJob} : j \in Jobs /\ server'[j] = "succeeded"
  BY DecisionStays DEF Copies, Final
<1>3. \A j \in Jobs : Still(shown[j], j) /\ Still(page[j], j)
  BY <1>1 DEF Copies
<1>4. Still(answer, asked) /\ Still(created, creating)
  BY <1>1 DEF Copies
<1>5. "absent" \notin Final /\ "pending" \notin Final
  BY DEF Final
<1>6. \A j \in Jobs : Still(NoTable[j], j)
  BY <1>5 DEF NoTable
<1>7. \A j \in Jobs : Still(shown'[j], j)
  <2>1. CASE UNCHANGED shown
    BY <1>3, <2>1
  <2>2. CASE ListArrives
    BY <1>3, <2>2 DEF ListArrives
  <2>3. CASE JobStarted
    BY <1>3, <1>4, <2>3 DEF JobStarted, ClientTypeOK
  <2>4. CASE Arrive
    BY <1>3, <1>4, <2>4 DEF Arrive, Polled, ClientTypeOK
  <2> QED
    BY <2>1, <2>2, <2>3, <2>4
    DEF ClientNext, clientVars, tableVars, Progress, StartJob, ChooseJob, Reload,
        ServeList, ListFails,
        ServeStart, ServeCreated, StartFailed, Serve, FetchFails, Tick, ResultsArrive,
        ResultsFail, Unmount
<1>8. \A j \in Jobs : Still(page'[j], j)
  <2>1. CASE UNCHANGED page
    BY <1>3, <2>1
  <2>2. CASE ServeList
    BY <2>2 DEF ServeList
  <2>3. CASE ListArrives \/ ListFails
    BY <1>6, <2>3 DEF ListArrives, ListFails
  <2> QED
    BY <2>1, <2>2, <2>3
    DEF ClientNext, clientVars, tableVars, Progress, StartJob, ChooseJob, Reload,
        JobStarted, Arrive,
        ServeStart, ServeCreated, StartFailed, Serve, FetchFails, Tick, ResultsArrive,
        ResultsFail, Unmount
<1>9. Still(answer', asked') /\ (answer' \in Final => loop' = "answered")
  <2>1. CASE UNCHANGED <<answer, asked, loop>>
    BY <1>4, <2>1 DEF Copies
  <2>2. CASE Serve
    BY <2>2 DEF Serve, ClientTypeOK
  <2>3. CASE Arrive \/ FetchFails \/ Unmount
    BY <1>5, <2>3 DEF Arrive, FetchFails, Unmount, Answered
  <2>4. CASE Tick
    BY <2>4 DEF Tick, Copies
  <2>5. ASSUME NEW j, Watch(j), UNCHANGED answer
        PROVE  Still(answer', asked') /\ (answer' \in Final => loop' = "answered")
    <3>1. CASE active = NoJob
      <4>1. answer \notin Final
        BY <3>1 DEF Copies, ClientTypeOK
      <4> QED BY <2>5, <4>1
    <3>2. CASE active # NoJob
      BY <1>4, <2>5, <3>2 DEF Watch, Copies
    <3> QED BY <3>1, <3>2
  <2>6. ASSUME NEW j \in Jobs, ChooseJob(j)
        PROVE  Still(answer', asked') /\ (answer' \in Final => loop' = "answered")
    BY <2>5, <2>6 DEF ChooseJob
  <2>7. CASE JobStarted
    BY <2>5, <2>7 DEF JobStarted
  <2> QED
    BY <2>1, <2>2, <2>3, <2>4, <2>6, <2>7
    DEF ClientNext, clientVars, loopVars, Progress, StartJob, Reload, ServeList,
        ListArrives, ListFails,
        ServeStart, ServeCreated, StartFailed, ResultsArrive, ResultsFail
<1>10. Still(created', creating')
  <2>1. CASE UNCHANGED <<created, creating>>
    BY <1>4, <2>1
  <2>2. ASSUME NEW j \in Jobs, StartJob(j) PROVE Still(created', creating')
    BY <1>5, <2>2 DEF StartJob, ClientTypeOK, Copies, TrueOf
  <2>3. CASE ServeStart \/ JobStarted \/ StartFailed
    BY <1>5, <2>3 DEF ServeStart, JobStarted, StartFailed
  <2>4. CASE ServeCreated
    BY <2>4 DEF ServeCreated, ClientTypeOK
  <2> QED
    BY <2>1, <2>2, <2>3, <2>4
    DEF ClientNext, clientVars, Progress, ChooseJob, Reload, ServeList, ListArrives, ListFails,
        Serve,
        Arrive, FetchFails, Tick, ResultsArrive, ResultsFail, Unmount
<1>11. \A j \in {results', wanted'} \ {NoJob} : j \in Jobs /\ server'[j] = "succeeded"
  <2>1. CASE UNCHANGED <<results, wanted>>
    BY <1>2, <2>1
  <2>2. ASSUME NEW j \in Jobs, StartJob(j) \/ ChooseJob(j)
        PROVE  \A k \in {results', wanted'} \ {NoJob} : k \in Jobs /\ server'[k] = "succeeded"
    BY <1>2, <2>2 DEF StartJob, ChooseJob
  <2>3. CASE Arrive
    BY <1>2, <1>4, <2>3 DEF Arrive, Polled, Final
  <2>4. CASE ResultsArrive \/ ResultsFail
    BY <1>2, <2>4 DEF ResultsArrive, ResultsFail
  <2> QED
    BY <2>1, <2>2, <2>3, <2>4
    DEF ClientNext, clientVars, resultVars, Progress, Reload, ServeList, ListArrives, ListFails,
        ServeStart, ServeCreated, JobStarted, StartFailed, Serve, FetchFails, Tick, Unmount
<1> QED
  BY <1>7, <1>8, <1>9, <1>10, <1>11 DEF Copies, TrueOf

\* The table never shows a decision the database has not taken, nor results of a job
\* that did not succeed: for any number of jobs, late, lost and reordered answers.
THEOREM TableIsTrue == ClientSpec => []ShownIsTrue
<1>1. ClientInit => Copies
  BY DEF ClientInit, Copies, TrueOf, NoTable, Final
<1>2. Copies => ShownIsTrue
  BY DEF Copies, TrueOf, ShownIsTrue
<1> QED
  BY <1>1, <1>2, CopiesStep, ClientTypeCorrect, PTL DEF ClientSpec

-----------------------------------------------------------------------------
(* What JobPolling takes of the backend for granted is what OcrPromise     *)
(* says of it, erasures apart.                                             *)

\* The status and the text of a job, as OcrPromise has them.
Told == [j \in Jobs |-> IF server[j] = "absent" THEN "none" ELSE server[j]]

Published == [j \in Jobs |-> IF server[j] = "succeeded" THEN 1 ELSE 0]

Backend == INSTANCE OcrPromise WITH outcome <- Told, text <- Published

\* Everything but the database.
clientOnly == <<creating, created, active, tableVars, loopVars, resultVars>>

\* One job changes its status, in both views.
LEMMA OneTold ==
    ASSUME server \in [Jobs -> Status], server' \in [Jobs -> Status], NEW j \in Jobs,
           NEW s \in {"pending", "succeeded", "failed"},
           server[j] # "succeeded"
    PROVE  (server' = [server EXCEPT ![j] = s])
             <=> /\ Told' = [Told EXCEPT ![j] = s]
                 /\ Published' = IF s = "succeeded" THEN [Published EXCEPT ![j] = 1]
                                                    ELSE Published
<1>1. ASSUME server' = [server EXCEPT ![j] = s]
      PROVE  /\ Told' = [Told EXCEPT ![j] = s]
             /\ Published' = IF s = "succeeded" THEN [Published EXCEPT ![j] = 1]
                                                ELSE Published
  <2>1. \A i \in Jobs : server'[i] = IF i = j THEN s ELSE server[i]
    BY <1>1
  <2>2. Told' = [Told EXCEPT ![j] = s]
    BY <2>1 DEF Told
  <2>3. s = "succeeded" => Published' = [Published EXCEPT ![j] = 1]
    BY <2>1 DEF Published
  <2>4. s # "succeeded" => Published' = Published
    BY <2>1 DEF Published
  <2> QED
    BY <2>2, <2>3, <2>4
<1>2. ASSUME Told' = [Told EXCEPT ![j] = s]
      PROVE  server' = [server EXCEPT ![j] = s]
  <2>1. ASSUME NEW i \in Jobs
        PROVE  server'[i] = IF i = j THEN s ELSE server[i]
    <3>1. Told'[i] = IF i = j THEN s ELSE Told[i]
      BY <1>2 DEF Told
    <3>2. /\ Told'[i] = IF server'[i] = "absent" THEN "none" ELSE server'[i]
          /\ Told[i] = IF server[i] = "absent" THEN "none" ELSE server[i]
      BY DEF Told
    <3>3. server'[i] \in Status /\ server[i] \in Status
      OBVIOUS
    <3> QED
      BY <3>1, <3>2, <3>3 DEF Status
  <2> QED
    BY <2>1
<1> QED
  BY <1>1, <1>2

\* A decision that the client may see is one that OcrPromise allows, and the other way
\* round: nothing the backend promises is left out.
LEMMA DecisionsArePromised ==
    ASSUME server \in [Jobs -> Status], server' \in [Jobs -> Status], NEW j \in Jobs
    PROVE  Progress(j) <=> (Backend!Succeed(j) \/ Backend!Fail(j)) /\ UNCHANGED clientOnly
<1>1. Told[j] = "pending" <=> server[j] = "pending"
  BY DEF Told, Status
<1>2. ASSUME server[j] = "pending"
      PROVE  /\ server' = [server EXCEPT ![j] = "succeeded"] <=>
                   /\ Told' = [Told EXCEPT ![j] = "succeeded"]
                   /\ Published' = [Published EXCEPT ![j] = 1]
             /\ server' = [server EXCEPT ![j] = "failed"] <=>
                   /\ Told' = [Told EXCEPT ![j] = "failed"]
                   /\ Published' = Published
  BY <1>2, OneTold
<1> QED
  BY <1>1, <1>2 DEF Progress, Backend!Succeed, Backend!Fail, clientOnly

\* While the client runs, the jobs do nothing but what OcrPromise allows.
THEOREM ServerKeepsPromise == ClientSpec => [][Backend!Next]_(Backend!promiseVars)
<1>1. ClientTypeOK /\ ClientTypeOK' /\ [ClientNext]_clientVars
          => [Backend!Next]_(Backend!promiseVars)
  <2> SUFFICES ASSUME ClientTypeOK, ClientTypeOK', [ClientNext]_clientVars
               PROVE  [Backend!Next]_(Backend!promiseVars)
    OBVIOUS
  <2>1. server \in [Jobs -> Status] /\ server' \in [Jobs -> Status]
    BY DEF ClientTypeOK
  <2>2. CASE UNCHANGED server
    BY <2>2 DEF Told, Published, Backend!promiseVars
  <2>3. ASSUME NEW j \in Jobs, Progress(j) PROVE Backend!Next
    BY <2>1, <2>3, DecisionsArePromised, Zenon DEF Backend!Next
  <2>4. CASE ServeStart
    <3>1. PICK j \in Jobs : j = creating /\ server[j] = "absent"
      BY <2>4 DEF ServeStart, ClientTypeOK
    <3>2. server' = [server EXCEPT ![j] = "pending"]
      BY <2>4, <3>1 DEF ServeStart
    <3>3. Told' = [Told EXCEPT ![j] = "pending"] /\ Published' = Published
      BY <2>1, <3>1, <3>2, OneTold
    <3>4. Told[j] = "none"
      BY <3>1 DEF Told
    <3>5. Backend!Submit(j)
      BY <3>3, <3>4 DEF Backend!Submit
    <3> QED
      BY <3>5, Zenon DEF Backend!Next
  <2> QED
    BY <2>2, <2>3, <2>4
    DEF ClientNext, clientVars, StartJob, ChooseJob, Reload, ServeList, ListArrives, ListFails,
        ServeCreated, JobStarted, StartFailed, Serve, Arrive, FetchFails, Tick,
        ResultsArrive, ResultsFail, Unmount
<1> QED
  BY <1>1, ClientTypeCorrect, PTL DEF ClientSpec

==============================================================================
