-------------------------- MODULE AiRequestsProofs ---------------------------
(***************************************************************************)
(* Theorems about AiRequests, for any finite set of calls, any users, any  *)
(* limits of the quota, any configuration of the providers and any number  *)
(* of answers and faults.                                                  *)
(***************************************************************************)
EXTENDS AiRequests, FiniteSetTheorems, WellFoundedInduction, TLAPS

-----------------------------------------------------------------------------
(* The inductive invariant                                                 *)

\* A call under way is some user's, and from the provider's call on it is of one type
\* and with one provider.
Fits(c) ==
    /\ call[c].pc # "idle" => call[c].user \in Users
    /\ call[c].pc \in {"calling", "failing", "counting user", "expiring user",
                       "counting org", "expiring org", "recording"} =>
           call[c].at \in Providers /\ call[c].type \in Types

AllFit == \A c \in Calls : Fits(c)

\* Calls that have been answered and not yet been counted on key k.
Uncounted(k) ==
    {c \in Calls :
        IF k = "org"
        THEN call[c].pc \in {"counting user", "expiring user", "counting org"}
        ELSE call[c].pc = "counting user" /\ call[c].user = k}

\* Only an answer is counted, and only once on a key.
CountsAnswers == \A k \in Keys : counter[k].count + Cardinality(Uncounted(k)) <= answers

SpentAnswers == \A r \in Row : spent[r] <= answers

IInv ==
    /\ TypeOK /\ AllFit
    /\ CountsAnswers /\ SpentAnswers
    /\ QuotaBounded /\ CountersExpire /\ AnswersAccounted

-----------------------------------------------------------------------------
(* Constants                                                               *)

LEMMA Bound ==
    /\ IsFiniteSet(Calls) /\ IsFiniteSet(OrgMaxes) /\ OrgMaxes \subseteq Nat \ {0}
    /\ UserMax \in Nat \ {0} /\ MaxAnswers \in Nat /\ MaxFaults \in Nat
  BY ConstantsAssumption, Zenon DEF ConstantsAssumption

LEMMA Configured ==
    /\ "org" \notin Users
    /\ Primary \in Providers /\ Fallback \in Providers /\ Requested \subseteq Providers
    /\ FallbackOn \in BOOLEAN
  BY ConstantsAssumption, Zenon DEF ConstantsAssumption

\* A finite, inhabited set of numbers has a largest one: a smallest set that had none
\* would still have none without one of its elements.
LEMMA FiniteHasLargest ==
    ASSUME NEW S \in SUBSET Nat, IsFiniteSet(S), S # {}
    PROVE  \E m \in S : \A n \in S : n <= m
<1> DEFINE Unbounded == {T \in FiniteSubsetsOf(S) : T # {} /\ \A m \in T : \E n \in T : ~ (n <= m)}
<1> SUFFICES ASSUME \A m \in S : \E n \in S : ~ (n <= m) PROVE FALSE
  OBVIOUS
<1>1. S \in Unbounded
  BY DEF FiniteSubsetsOf
<1>2. PICK T \in Unbounded :
          \A U \in Unbounded : <<U, T>> \notin StrictSubsetOrdering(S)
  <2>1. Unbounded \subseteq FiniteSubsetsOf(S)
    OBVIOUS
  <2> HIDE DEF Unbounded
  <2> QED
    BY <1>1, <2>1, FS_StrictSubsetOrderingWellFounded, WFMin
<1>3. T \in SUBSET S /\ IsFiniteSet(T) /\ T # {} /\ \A m \in T : \E n \in T : ~ (n <= m)
  BY <1>2 DEF FiniteSubsetsOf
<1>4. PICK x \in T : TRUE
  BY <1>3
<1>5. T \ {x} \notin Unbounded
  <2>1. T \ {x} \in SUBSET S /\ T \ {x} \subseteq T /\ T \ {x} # T
    BY <1>3, <1>4
  <2>2. <<T \ {x}, T>> \in StrictSubsetOrdering(S)
    BY <1>3, <2>1 DEF StrictSubsetOrdering
  <2> HIDE DEF Unbounded
  <2> QED
    BY <2>2, <1>2
<1>6. T \ {x} # {}
  BY <1>3, <1>4
<1>7. T \ {x} \in FiniteSubsetsOf(S)
  BY <1>3, FS_RemoveElement DEF FiniteSubsetsOf
<1>8. PICK m \in T \ {x} : \A n \in T \ {x} : n <= m
  BY <1>5, <1>6, <1>7
<1>9. PICK n \in T : ~ (n <= m)
  BY <1>3, <1>8
<1>10. n = x /\ m <= x
  BY <1>3, <1>4, <1>8, <1>9
<1>11. \A o \in T : o <= x
  <2> TAKE o \in T
  <2>1. o \in Nat /\ x \in Nat /\ m \in Nat
    BY <1>3, <1>4, <1>8
  <2>2. o # x => o <= m
    BY <1>8
  <2> QED
    BY <2>1, <2>2, <1>10
<1> QED
  BY <1>3, <1>4, <1>11

\* No limit in force is above the largest one.
LEMMA LargestLimit ==
    /\ Largest("org") \in Nat \ {0}
    /\ \A k \in Users : Largest(k) = UserMax
    /\ \A m \in OrgMaxes \cup {UserMax} : m <= Largest("org")
<1> DEFINE S == OrgMaxes \cup {UserMax}
<1>1. S \in SUBSET (Nat \ {0}) /\ S # {}
  BY Bound
<1>2. IsFiniteSet(S)
  BY Bound, FS_AddElement
<1>3. \E m \in S : \A n \in S : n <= m
  <2>1. S \in SUBSET Nat
    BY <1>1
  <2> HIDE DEF S
  <2> QED
    BY <1>1, <1>2, <2>1, FiniteHasLargest
<1>4. Largest("org") = CHOOSE m \in S : \A n \in S : n <= m
  BY DEF Largest
<1>5. Largest("org") \in S /\ \A n \in S : n <= Largest("org")
  <2> HIDE DEF S
  <2> QED
    BY <1>3, <1>4, Zenon
<1>6. \A k \in Users : Largest(k) = UserMax
  BY Configured DEF Largest
<1> QED
  BY <1>1, <1>5, <1>6

\* A set of calls that changes by one call at most.
LEMMA CountedByOne ==
    ASSUME NEW S \in SUBSET Calls, NEW T \in SUBSET Calls, NEW c \in Calls,
           \A d \in Calls \ {c} : d \in S <=> d \in T
    PROVE  /\ Cardinality(S) \in Nat /\ Cardinality(T) \in Nat /\ Cardinality(Calls) \in Nat
           /\ Cardinality(S) <= Cardinality(Calls) /\ Cardinality(T) <= Cardinality(Calls)
           /\ (c \in S <=> c \in T) => Cardinality(T) = Cardinality(S)
           /\ c \notin S /\ c \in T => Cardinality(T) = Cardinality(S) + 1
           /\ c \in S /\ c \notin T => Cardinality(S) = Cardinality(T) + 1
<1>1. IsFiniteSet(S) /\ IsFiniteSet(T) /\ Cardinality(S) <= Cardinality(Calls)
      /\ Cardinality(T) <= Cardinality(Calls)
  BY Bound, FS_Subset
<1>2. Cardinality(S) \in Nat /\ Cardinality(T) \in Nat /\ Cardinality(Calls) \in Nat
  BY Bound, <1>1, FS_CardinalityType
<1>3. (c \in S <=> c \in T) => S = T
  OBVIOUS
<1>4. c \notin S /\ c \in T => T = S \cup {c} /\ Cardinality(T) = Cardinality(S) + 1
  <2>1. c \notin S /\ c \in T => T = S \cup {c}
    OBVIOUS
  <2> QED
    BY <2>1, <1>1, FS_AddElement
<1>5. c \in S /\ c \notin T => S = T \cup {c} /\ Cardinality(S) = Cardinality(T) + 1
  <2>1. c \in S /\ c \notin T => S = T \cup {c}
    OBVIOUS
  <2> QED
    BY <2>1, <1>1, FS_AddElement
<1> QED
  BY <1>1, <1>2, <1>3, <1>4, <1>5

-----------------------------------------------------------------------------
(* What a step does to a call                                              *)

\* Only c moves.
Alone(c) == \A d \in Calls \ {c} : call'[d] = call[d]

\* c goes on from where it was, for the same user, with the same provider.
Keeps(c) ==
    call'[c].user = call[c].user /\ call'[c].type = call[c].type /\ call'[c].at = call[c].at

LEMMA CounterFields ==
    ASSUME TypeOK, NEW k \in Keys
    PROVE  counter[k].count \in 0..MaxAnswers /\ counter[k].ttl \in BOOLEAN
BY DEF TypeOK, Counter

LEMMA GotoMoves ==
    ASSUME TypeOK, NEW c \in Calls, NEW label \in PC, Goto(c, label)
    PROVE  call' \in [Calls -> Call] /\ Alone(c) /\ Keeps(c) /\ call'[c].pc = label
BY DEF TypeOK, Goto, Alone, Keeps, Call

LEMMA EndMoves ==
    ASSUME TypeOK, NEW c \in Calls, End(c)
    PROVE  call' \in [Calls -> Call] /\ Alone(c) /\ call'[c].pc = "idle"
<1>1. Idle \in Call /\ Idle.pc = "idle"
  BY DEF Idle, Call, PC
<1> QED
  BY <1>1 DEF TypeOK, End, Alone

\* The steps of a call up to the answer of a provider.
Early(c) ==
    \/ \E u \in Users : Begin(c, u)
    \/ CheckUser(c) \/ CheckOrg(c)
    \/ Chat(c) \/ Vision(c)
    \/ \E reply \in Replies : Reply(c, reply) /\ UNCHANGED <<spent, answers>>
    \/ PersistFailed(c)

\* A provider answers.
Answers(c) == call[c].pc = "calling" /\ Answer(c)

LEMMA Moves ==
    [Next]_vars =>
        \/ \E c \in Calls :
              \/ Early(c)
              \/ Answers(c) /\ UNCHANGED <<counter, orgMax, recorded, wasted, stuck, faults>>
              \/ CountUser(c) \/ CountOrg(c) \/ ExpireUser(c) \/ ExpireOrg(c)
              \/ Record(c) \/ Fault(c)
        \/ \E k \in Keys : EndWindow(k)
        \/ \E form \in OrgForm : PatchOrg(form)
        \/ UNCHANGED vars
BY Zenon DEF Next, Step, Early, Answers, Reply

\* Where a call is before it has been answered.
Unanswered(c) ==
    call[c].pc \in {"idle", "checking user", "checking org", "preparing", "calling", "failing"}

\* Nobody passes the check of a key but where that is allowed.
Checked(c) ==
    /\ \A k \in Users :
          c \in Passed(k)' => c \in Passed(k) \/ counter[k].count < Largest(k)
    /\ c \in Passed("org")' => c \in Passed("org") \/ counter["org"].count < Largest("org")

LEMMA EarlyDoes ==
    ASSUME TypeOK, AllFit, NEW c \in Calls, Early(c)
    PROVE  /\ UNCHANGED <<counter, orgMax, books, stuck, answers, faults>>
           /\ call' \in [Calls -> Call] /\ Alone(c) /\ Fits(c)'
           /\ Unanswered(c) /\ Unanswered(c)' /\ Checked(c)
<1> DEFINE Does == /\ call' \in [Calls -> Call] /\ Alone(c) /\ Fits(c)'
                   /\ Unanswered(c) /\ Unanswered(c)' /\ Checked(c)
<1>0. UNCHANGED <<counter, orgMax, books, stuck, answers, faults>>
  BY DEF Early, Begin, CheckUser, CheckOrg, Chat, Vision, Prepare, Reply, PersistFailed, books
<1>1. ASSUME End(c), Unanswered(c) PROVE Does
  <2>1. call' \in [Calls -> Call] /\ Alone(c) /\ call'[c].pc = "idle"
    BY <1>1, EndMoves
  <2>2. Fits(c)' /\ Unanswered(c)'
    BY <2>1 DEF Fits, Unanswered
  <2>3. Checked(c)
    BY <2>1 DEF Checked, Passed
  <2> QED
    BY <1>1, <2>1, <2>2, <2>3
<1>2. ASSUME NEW u \in Users, Begin(c, u) PROVE Does
  <2>1. /\ call' \in [Calls -> Call] /\ Alone(c)
        /\ call'[c].pc = "checking user" /\ call'[c].user = u /\ call[c].pc = "idle"
    <3> DEFINE t == [call[c] EXCEPT !.pc = "checking user", !.user = u]
    <3>1. call' = [call EXCEPT ![c] = t] /\ call[c] \in Call /\ call[c].pc = "idle"
      BY <1>2 DEF Begin, TypeOK
    <3>2. t \in Call /\ t.pc = "checking user" /\ t.user = u
      BY <3>1 DEF Call, PC
    <3> HIDE DEF t
    <3> QED
      BY <3>1, <3>2 DEF TypeOK, Alone
  <2> QED
    BY <2>1, Configured DEF Fits, Unanswered, Checked, Passed
<1>3. ASSUME CheckUser(c) PROVE Does
  <2>1. CASE Goto(c, "checking org") /\ ~ AtLimit(call[c].user, UserMax)
    <3>1. call[c].pc = "checking user" /\ call[c].user \in Users
      BY <1>3 DEF CheckUser, AllFit, Fits
    <3>2. call' \in [Calls -> Call] /\ Alone(c) /\ Keeps(c) /\ call'[c].pc = "checking org"
      BY <2>1, GotoMoves DEF PC
    <3>3. counter[call[c].user].count < Largest(call[c].user)
      <4> DEFINE u == call[c].user
      <4>1. u \in Keys /\ Largest(u) = UserMax /\ ~ (counter[u].count >= UserMax)
        BY <2>1, <3>1, LargestLimit DEF AtLimit, Keys
      <4> HIDE DEF u
      <4>2. counter[u].count \in Nat /\ UserMax \in Nat
        BY <4>1, CounterFields, Bound
      <4>3. counter[u].count < Largest(u)
        BY <4>1, <4>2
      <4> QED
        BY <4>3 DEF u
    <3> QED
      BY <3>1, <3>2, <3>3, Configured DEF Keeps, Fits, Unanswered, Checked, Passed
  <2> QED
    BY <1>1, <1>3, <2>1 DEF CheckUser, Unanswered
<1>4. ASSUME CheckOrg(c) PROVE Does
  <2>1. CASE Goto(c, "preparing") /\ ~ AtLimit("org", OrgLimit)
    <3>1. call[c].pc = "checking org" /\ call[c].user \in Users
      BY <1>4 DEF CheckOrg, AllFit, Fits
    <3>2. call' \in [Calls -> Call] /\ Alone(c) /\ Keeps(c) /\ call'[c].pc = "preparing"
      BY <2>1, GotoMoves DEF PC
    <3>3. OrgLimit \in OrgMaxes \cup {UserMax}
      BY DEF OrgLimit, TypeOK, NoLimit
    <3>4. counter["org"].count < Largest("org")
      <4>1. counter["org"].count \in Nat /\ OrgLimit \in Nat /\ OrgLimit <= Largest("org")
        BY <3>3, CounterFields, LargestLimit, Bound DEF Keys
      <4> QED
        BY <2>1, <4>1, LargestLimit DEF AtLimit
    <3> QED
      BY <3>1, <3>2, <3>4, Configured DEF Keeps, Fits, Unanswered, Checked, Passed
  <2> QED
    BY <1>1, <1>4, <2>1 DEF CheckOrg, Unanswered
<1>5. ASSUME NEW type \in Types, NEW accepted, Prepare(c, type, accepted) PROVE Does
  <2>1. call[c].pc = "preparing" /\ call[c].user \in Users
    BY <1>5 DEF Prepare, AllFit, Fits
  <2>2. ASSUME NEW asked \in Requested \cup {"default"},
               call' = [call EXCEPT ![c] =
                           [@ EXCEPT !.pc = "calling", !.type = type,
                                     !.at = Resolved(asked), !.spare = FallsBack(asked)]]
        PROVE  Does
    <3>1. Resolved(asked) \in Providers
      BY Configured DEF Resolved
    <3>2. FallsBack(asked) \in BOOLEAN
      BY Configured, Zenon DEF FallsBack
    <3>3. call' \in [Calls -> Call] /\ Alone(c) /\ call'[c].pc = "calling"
          /\ call'[c].user = call[c].user /\ call'[c].type = type
          /\ call'[c].at \in Providers
      <4> DEFINE r == Resolved(asked)
                 f == FallsBack(asked)
                 t == [call[c] EXCEPT !.pc = "calling", !.type = type, !.at = r, !.spare = f]
      <4>1. call' = [call EXCEPT ![c] = t]
        BY <2>2
      <4>2. r \in Providers /\ f \in BOOLEAN /\ call[c] \in Call
        BY <3>1, <3>2 DEF TypeOK
      <4> HIDE DEF r, f, Does
      <4>3. /\ t \in Call /\ t.pc = "calling" /\ t.user = call[c].user /\ t.type = type
            /\ t.at \in Providers
        BY <4>2 DEF Call, PC
      <4> HIDE DEF t
      <4> QED
        BY <4>1, <4>3 DEF TypeOK, Alone
    <3> QED
      BY <2>1, <3>3, Configured DEF Fits, Unanswered, Checked, Passed
  <2> QED
    BY <1>1, <1>5, <2>1, <2>2 DEF Prepare, Unanswered
<1>6. ASSUME NEW reply \in Replies, Reply(c, reply), UNCHANGED <<spent, answers>> PROVE Does
  <2>1. /\ call[c].pc = "calling" /\ call[c].user \in Users
        /\ call[c].at \in Providers /\ call[c].type \in Types
    BY <1>6 DEF Reply, AllFit, Fits
  <2>2. ~ Answer(c)
    <3>1. answers \in Nat /\ answers' = answers
      BY <1>6, Bound DEF TypeOK
    <3>2. Answer(c) => answers' = answers + 1
      BY Zenon DEF Answer
    <3> QED
      BY <3>1, <3>2
  <2>3. CASE Goto(c, "failing")
    <3>1. call' \in [Calls -> Call] /\ Alone(c) /\ Keeps(c) /\ call'[c].pc = "failing"
      BY <2>3, GotoMoves DEF PC
    <3> QED
      BY <2>1, <3>1, Configured DEF Keeps, Fits, Unanswered, Checked, Passed
  <2>4. CASE FallBack(c)
    <3>1. /\ call' \in [Calls -> Call] /\ Alone(c) /\ call'[c].pc = call[c].pc
          /\ call'[c].user = call[c].user /\ call'[c].type = call[c].type
          /\ call'[c].at \in Providers
      BY <2>4, Configured DEF FallBack, TypeOK, Call, Alone, Providers
    <3> QED
      BY <2>1, <3>1, Configured DEF Fits, Unanswered, Checked, Passed
  <2> QED
    BY <1>6, <2>2, <2>3, <2>4 DEF Reply
<1>7. ASSUME PersistFailed(c) PROVE Does
  BY <1>1, <1>7 DEF PersistFailed, Unanswered
<1>8. Does
  <2>1. "chat" \in Types /\ "vision" \in Types
    BY DEF Types
  <2> HIDE DEF Does
  <2> QED
    BY <1>2, <1>3, <1>4, <1>5, <1>6, <1>7, <2>1, Zenon DEF Early, Chat, Vision
<1> QED
  BY <1>0, <1>8

-----------------------------------------------------------------------------
(* What a step does to a counter                                           *)

\* The step leaves k's count alone, and c passes k's check only below the limit and owes
\* k a count only after an answer.
Leaves(c, k) ==
    /\ counter'[k].count = counter[k].count
    /\ c \in Passed(k)' => c \in Passed(k) \/ counter[k].count < Largest(k)
    /\ c \in Uncounted(k)' => c \in Uncounted(k) \/ answers' = answers + 1

\* The step counts c on k.
Counts(c, k) ==
    /\ counter'[k].count = counter[k].count + 1
    /\ c \in Passed(k) /\ c \notin Passed(k)'
    /\ c \in Uncounted(k) /\ c \notin Uncounted(k)'

\* A counter that is not 0 stays as sure to expire as it was.
Expires(c, k) ==
    \/ counter'[k].ttl = TRUE
    \/ k \in stuck'
    \/ k \in Owed(c)'
    \/ /\ counter'[k].count > 0 => counter[k].count > 0
       /\ counter[k].ttl = TRUE => counter'[k].ttl = TRUE
       /\ stuck \subseteq stuck'
       /\ k \notin Owed(c)

\* What a step of c does to k's counter, and to nothing else of the quota.
Quota(c, k) ==
    /\ Leaves(c, k) \/ Counts(c, k)
    /\ Expires(c, k)

\* The counters hold a count and a TTL.
Counters == [Keys -> [count : Nat, ttl : BOOLEAN]]

LEMMA CountersType == TypeOK => counter \in Counters /\ answers \in Nat
BY Bound DEF TypeOK, Counter, Counters

\* What a step of c leaves as it was, and what it may change.
Proceeds(c) ==
    /\ call' \in [Calls -> Call] /\ Alone(c) /\ Fits(c)'
    /\ counter' \in Counters /\ UNCHANGED orgMax
    /\ answers' \in {answers, answers + 1} /\ answers' <= MaxAnswers
    /\ stuck' \subseteq Keys /\ faults' \in 0..MaxFaults

\* A step that meets no fault and is no answer.
LEMMA Quietly ==
    ASSUME TypeOK, NEW c \in Calls,
           call' \in [Calls -> Call], Alone(c), Fits(c)', counter' \in Counters,
           orgMax' = orgMax, stuck' = stuck, answers' = answers, faults' = faults
    PROVE  Proceeds(c)
<1>1. answers \in Nat /\ answers <= MaxAnswers
  BY Bound DEF TypeOK
<1>2. answers' \in {answers, answers + 1} /\ answers' <= MaxAnswers
  BY <1>1
<1>3. stuck' \subseteq Keys /\ faults' \in 0..MaxFaults
  BY DEF TypeOK
<1> QED
  BY <1>2, <1>3, Zenon DEF Proceeds

LEMMA EarlyQuota ==
    ASSUME TypeOK, AllFit, NEW c \in Calls, Early(c)
    PROVE  Proceeds(c) /\ \A k \in Keys : Quota(c, k)
<1>1. /\ UNCHANGED <<counter, orgMax, books, stuck, answers, faults>>
      /\ call' \in [Calls -> Call] /\ Alone(c) /\ Fits(c)'
      /\ Unanswered(c) /\ Unanswered(c)' /\ Checked(c)
  BY EarlyDoes
<1>2. Proceeds(c)
  <2>1. /\ counter' \in Counters /\ orgMax' = orgMax
        /\ stuck' = stuck /\ answers' = answers /\ faults' = faults
    BY <1>1, CountersType
  <2> QED
    BY <1>1, <2>1, Quietly
<1>3. ASSUME NEW k \in Keys PROVE Quota(c, k)
  <2>1. c \notin Uncounted(k)' /\ k \notin Owed(c)
    BY <1>1 DEF Unanswered, Uncounted, Owed
  <2>2. c \in Passed(k)' => c \in Passed(k) \/ counter[k].count < Largest(k)
    BY <1>1 DEF Checked, Keys, Passed
  <2> QED
    BY <1>1, <2>1, <2>2 DEF Quota, Leaves, Expires
<1> QED
  BY <1>2, <1>3

\* k is counted, and whoever has made its count 1 owes it the TTL.
Bumped(c, k, expiring, next) ==
    /\ call' \in [Calls -> Call] /\ Alone(c) /\ Keeps(c)
    /\ counter' \in Counters
    /\ UNCHANGED <<orgMax, spent, recorded, wasted, stuck, answers, faults>>
    /\ counter'[k].count = counter[k].count + 1 /\ counter'[k].ttl = counter[k].ttl
    /\ \A j \in Keys \ {k} : counter'[j] = counter[j]
    /\ counter[k].count = 0 => call'[c].pc = expiring
    /\ counter[k].count # 0 => call'[c].pc = next

LEMMA BumpDoes ==
    ASSUME TypeOK, NEW c \in Calls, NEW k \in Keys,
           NEW expiring \in PC, NEW next \in PC, Bump(c, k, expiring, next)
    PROVE  Bumped(c, k, expiring, next)
<1>1. counter \in Counters
  BY CountersType
<1>2. /\ counter' \in Counters
      /\ counter'[k].count = counter[k].count + 1 /\ counter'[k].ttl = counter[k].ttl
      /\ \A j \in Keys \ {k} : counter'[j] = counter[j]
  <2>1. counter' = [counter EXCEPT ![k].count = @ + 1]
    BY DEF Bump
  <2> QED
    BY <1>1, <2>1 DEF Counters
<1>3. counter[k].count \in Nat
  BY <1>1 DEF Counters
<1>4. counter[k].count = 0 => Goto(c, expiring)
  BY <1>2, <1>3 DEF Bump
<1>5. counter[k].count # 0 => Goto(c, next)
  BY <1>2, <1>3 DEF Bump
<1>6. UNCHANGED <<orgMax, spent, recorded, wasted, stuck, answers, faults>>
  BY DEF Bump, books
<1> QED
  BY <1>2, <1>4, <1>5, <1>6, GotoMoves DEF Bumped

\* A key is given its TTL.
LEMMA ExpireDoes ==
    ASSUME TypeOK, NEW c \in Calls, NEW k \in Keys, NEW next \in PC, Expire(c, k, next)
    PROVE  /\ call' \in [Calls -> Call] /\ Alone(c) /\ Keeps(c) /\ call'[c].pc = next
           /\ counter' \in Counters
           /\ UNCHANGED <<orgMax, spent, recorded, wasted, stuck, answers, faults>>
           /\ counter'[k].count = counter[k].count /\ counter'[k].ttl = TRUE
           /\ \A j \in Keys \ {k} : counter'[j] = counter[j]
<1>1. counter \in Counters
  BY CountersType
<1>2. /\ counter' \in Counters
      /\ counter'[k].count = counter[k].count /\ counter'[k].ttl = TRUE
      /\ \A j \in Keys \ {k} : counter'[j] = counter[j]
  <2>1. counter' = [counter EXCEPT ![k].ttl = TRUE]
    BY DEF Expire
  <2> QED
    BY <1>1, <2>1 DEF Counters
<1> QED
  BY <1>2, GotoMoves DEF Expire, books

LEMMA CountUserQuota ==
    ASSUME TypeOK, AllFit, NEW c \in Calls, CountUser(c)
    PROVE  /\ Proceeds(c) /\ \A k \in Keys : Quota(c, k)
           /\ UNCHANGED <<spent, recorded, wasted, answers>> /\ Keeps(c)
           /\ Answered(c) /\ Answered(c)'
<1>0. /\ call[c].pc = "counting user" /\ call[c].user \in Users
      /\ call[c].at \in Providers /\ call[c].type \in Types
  BY DEF CountUser, AllFit, Fits
<1> PICK u \in Users : u = call[c].user
  BY <1>0
<1>1. call[c].pc = "counting user" /\ u \in Keys /\ u # "org" /\ call[c].user = u
  BY <1>0, Configured DEF Keys
<1>2. "expiring user" \in PC /\ "counting org" \in PC
  BY DEF PC
<1>3. /\ call' \in [Calls -> Call] /\ Alone(c) /\ Keeps(c)
      /\ counter' \in Counters
      /\ UNCHANGED <<orgMax, spent, recorded, wasted, stuck, answers, faults>>
      /\ counter'[u].count = counter[u].count + 1 /\ counter'[u].ttl = counter[u].ttl
      /\ \A j \in Keys \ {u} : counter'[j] = counter[j]
      /\ counter[u].count = 0 => call'[c].pc = "expiring user"
      /\ counter[u].count # 0 => call'[c].pc = "counting org"
  <2>1. Bump(c, u, "expiring user", "counting org")
    BY <1>1 DEF CountUser, Bump
  <2>2. Bumped(c, u, "expiring user", "counting org")
    BY <1>1, <1>2, <2>1, BumpDoes, Zenon
  <2> QED
    BY <2>2, Zenon DEF Bumped
<1>4. call'[c].pc \in {"expiring user", "counting org"} /\ call'[c].user = u
  BY <1>3 DEF Keeps
<1>5. Proceeds(c)
  <2>1. Fits(c)'
    BY <1>0, <1>3, <1>4 DEF Fits, Keeps
  <2>2. orgMax' = orgMax /\ stuck' = stuck /\ answers' = answers /\ faults' = faults
    BY <1>3
  <2> QED
    BY <1>3, <2>1, <2>2, Quietly
<1>6. Quota(c, u)
  <2>1. Counts(c, u)
    BY <1>1, <1>3, <1>4 DEF Counts, Passed, Uncounted
  <2>2. Expires(c, u)
    <3>1. CASE counter[u].count = 0
      BY <1>3, <1>4, <3>1 DEF Expires, Owed
    <3>2. CASE counter[u].count # 0
      <4>1. counter[u].count \in Nat
        BY <1>1, CountersType DEF Counters
      <4>2. u \notin Owed(c)
        BY <1>1 DEF Owed
      <4>3. counter[u].count > 0
        BY <3>2, <4>1
      <4>4. counter'[u].ttl = counter[u].ttl
        BY <1>3
      <4>5. stuck' = stuck
        BY <1>3
      <4> QED
        BY <4>2, <4>3, <4>4, <4>5 DEF Expires
    <3> QED
      BY <3>1, <3>2
  <2> QED
    BY <2>1, <2>2 DEF Quota
<1>7. ASSUME NEW k \in Keys, k # u PROVE Quota(c, k)
  BY <1>1, <1>3, <1>4, <1>7 DEF Quota, Leaves, Expires, Passed, Uncounted, Owed
<1>8. Answered(c) /\ Answered(c)'
  BY <1>1, <1>4 DEF Answered
<1> QED
  BY <1>3, <1>5, <1>6, <1>7, <1>8

LEMMA CountOrgQuota ==
    ASSUME TypeOK, AllFit, NEW c \in Calls, CountOrg(c)
    PROVE  /\ Proceeds(c) /\ \A k \in Keys : Quota(c, k)
           /\ UNCHANGED <<spent, recorded, wasted, answers>> /\ Keeps(c)
           /\ Answered(c) /\ Answered(c)'
<1>1. /\ call[c].pc = "counting org" /\ call[c].user \in Users
      /\ call[c].at \in Providers /\ call[c].type \in Types
  BY DEF CountOrg, AllFit, Fits
<1>2. "expiring org" \in PC /\ "recording" \in PC /\ "org" \in Keys
  BY DEF PC, Keys
<1>3. /\ call' \in [Calls -> Call] /\ Alone(c) /\ Keeps(c)
      /\ counter' \in Counters
      /\ UNCHANGED <<orgMax, spent, recorded, wasted, stuck, answers, faults>>
      /\ counter'["org"].count = counter["org"].count + 1
      /\ counter'["org"].ttl = counter["org"].ttl
      /\ \A j \in Keys \ {"org"} : counter'[j] = counter[j]
      /\ counter["org"].count = 0 => call'[c].pc = "expiring org"
      /\ counter["org"].count # 0 => call'[c].pc = "recording"
  <2>1. Bumped(c, "org", "expiring org", "recording")
    BY <1>2, BumpDoes, Zenon DEF CountOrg
  <2> QED
    BY <2>1, Zenon DEF Bumped
<1>4. call'[c].pc \in {"expiring org", "recording"}
  BY <1>3
<1>5. Proceeds(c)
  <2>1. Fits(c)'
    BY <1>1, <1>3, <1>4 DEF Fits, Keeps
  <2>2. orgMax' = orgMax /\ stuck' = stuck /\ answers' = answers /\ faults' = faults
    BY <1>3
  <2> QED
    BY <1>3, <2>1, <2>2, Quietly
<1>6. Quota(c, "org")
  <2>1. Counts(c, "org")
    BY <1>1, <1>3, <1>4 DEF Counts, Passed, Uncounted
  <2>2. CASE counter["org"].count = 0
    BY <1>3, <2>1, <2>2 DEF Expires, Owed, Quota
  <2>3. CASE counter["org"].count # 0
    <3>1. counter["org"].count \in Nat
      BY <1>2, CountersType DEF Counters
    <3>2. "org" \notin Owed(c)
      BY <1>1 DEF Owed
    <3>3. counter["org"].count > 0
      BY <2>3, <3>1
    <3>4. counter'["org"].ttl = counter["org"].ttl
      BY <1>3
    <3>5. stuck' = stuck
      BY <1>3
    <3> QED
      BY <2>1, <3>2, <3>3, <3>4, <3>5 DEF Expires, Quota
  <2> QED
    BY <2>2, <2>3
<1>7. ASSUME NEW k \in Users PROVE Quota(c, k)
  <2>1. k \in Keys \ {"org"} /\ k # "org"
    BY Configured DEF Keys
  <2>2. counter'[k] = counter[k]
    BY <1>3, <2>1
  <2>3. stuck' = stuck
    BY <1>3
  <2>4. k \notin Owed(c)
    BY <1>1 DEF Owed
  <2>5. c \notin Passed(k)' /\ c \notin Uncounted(k)'
    BY <1>4, <2>1 DEF Passed, Uncounted
  <2> QED
    BY <2>2, <2>3, <2>4, <2>5 DEF Quota, Leaves, Expires
<1>8. Answered(c) /\ Answered(c)'
  BY <1>1, <1>4 DEF Answered
<1> QED
  BY <1>3, <1>5, <1>6, <1>7, <1>8 DEF Keys

LEMMA ExpireUserQuota ==
    ASSUME TypeOK, AllFit, NEW c \in Calls, ExpireUser(c)
    PROVE  /\ Proceeds(c) /\ \A k \in Keys : Quota(c, k)
           /\ UNCHANGED <<spent, recorded, wasted, answers>> /\ Keeps(c)
           /\ Answered(c) /\ Answered(c)'
<1>0. /\ call[c].pc = "expiring user" /\ call[c].user \in Users
      /\ call[c].at \in Providers /\ call[c].type \in Types
  BY DEF ExpireUser, AllFit, Fits
<1> PICK u \in Users : u = call[c].user
  BY <1>0
<1>1. call[c].pc = "expiring user" /\ u \in Keys /\ u # "org" /\ call[c].user = u
  BY <1>0, Configured DEF Keys
<1>2. /\ call' \in [Calls -> Call] /\ Alone(c) /\ Keeps(c) /\ call'[c].pc = "counting org"
      /\ counter' \in Counters
      /\ UNCHANGED <<orgMax, spent, recorded, wasted, stuck, answers, faults>>
      /\ counter'[u].count = counter[u].count /\ counter'[u].ttl = TRUE
      /\ \A j \in Keys \ {u} : counter'[j] = counter[j]
  <2>1. Expire(c, u, "counting org") /\ "counting org" \in PC
    BY <1>1 DEF ExpireUser, Expire, PC
  <2> QED
    BY <1>1, <2>1, ExpireDoes
<1>3. Proceeds(c)
  <2>1. Fits(c)'
    BY <1>0, <1>2 DEF Fits, Keeps
  <2>2. orgMax' = orgMax /\ stuck' = stuck /\ answers' = answers /\ faults' = faults
    BY <1>2
  <2> QED
    BY <1>2, <2>1, <2>2, Quietly
<1>4. ASSUME NEW k \in Keys PROVE Quota(c, k)
  <2>1. counter'[k].count = counter[k].count
    BY <1>2
  <2>2. (c \in Passed(k)' => c \in Passed(k)) /\ (c \in Uncounted(k)' => c \in Uncounted(k))
    BY <1>1, <1>2 DEF Passed, Uncounted
  <2>3. Leaves(c, k)
    BY <2>1, <2>2 DEF Leaves
  <2>4. CASE k = u
    <3>1. counter'[k].ttl = TRUE
      BY <1>2, <2>4
    <3> QED
      BY <2>3, <3>1 DEF Quota, Expires
  <2>5. CASE k # u
    <3>1. counter'[k] = counter[k]
      BY <1>2, <2>5
    <3>2. stuck' = stuck
      BY <1>2
    <3>3. k \notin Owed(c)
      BY <1>1, <2>5 DEF Owed
    <3> QED
      BY <2>3, <3>1, <3>2, <3>3 DEF Quota, Expires
  <2> QED
    BY <2>4, <2>5
<1>5. Answered(c) /\ Answered(c)'
  BY <1>1, <1>2 DEF Answered
<1> QED
  BY <1>2, <1>3, <1>4, <1>5

LEMMA ExpireOrgQuota ==
    ASSUME TypeOK, AllFit, NEW c \in Calls, ExpireOrg(c)
    PROVE  /\ Proceeds(c) /\ \A k \in Keys : Quota(c, k)
           /\ UNCHANGED <<spent, recorded, wasted, answers>> /\ Keeps(c)
           /\ Answered(c) /\ Answered(c)'
<1>1. /\ call[c].pc = "expiring org" /\ call[c].user \in Users /\ "org" \in Keys
      /\ call[c].at \in Providers /\ call[c].type \in Types
  BY DEF ExpireOrg, AllFit, Fits, Keys
<1>2. /\ call' \in [Calls -> Call] /\ Alone(c) /\ Keeps(c) /\ call'[c].pc = "recording"
      /\ counter' \in Counters
      /\ UNCHANGED <<orgMax, spent, recorded, wasted, stuck, answers, faults>>
      /\ counter'["org"].count = counter["org"].count /\ counter'["org"].ttl = TRUE
      /\ \A j \in Keys \ {"org"} : counter'[j] = counter[j]
  <2>1. Expire(c, "org", "recording") /\ "recording" \in PC
    BY DEF ExpireOrg, PC
  <2> QED
    BY <1>1, <2>1, ExpireDoes
<1>3. Proceeds(c)
  <2>1. Fits(c)'
    BY <1>1, <1>2 DEF Fits, Keeps
  <2>2. orgMax' = orgMax /\ stuck' = stuck /\ answers' = answers /\ faults' = faults
    BY <1>2
  <2> QED
    BY <1>2, <2>1, <2>2, Quietly
<1>4. ASSUME NEW k \in Keys PROVE Quota(c, k)
  <2>1. counter'[k].count = counter[k].count
    BY <1>2
  <2>2. c \notin Passed(k)' /\ c \notin Uncounted(k)'
    BY <1>2 DEF Passed, Uncounted
  <2>3. Leaves(c, k)
    BY <2>1, <2>2 DEF Leaves
  <2>4. CASE k = "org"
    BY <1>2, <2>3, <2>4 DEF Quota, Expires
  <2>5. CASE k # "org"
    <3>1. counter'[k] = counter[k]
      BY <1>2, <2>5
    <3>2. stuck' = stuck
      BY <1>2
    <3>3. k \notin Owed(c)
      BY <1>1, <2>5 DEF Owed
    <3> QED
      BY <2>3, <3>1, <3>2, <3>3 DEF Quota, Expires
  <2> QED
    BY <2>4, <2>5
<1>5. Answered(c) /\ Answered(c)'
  BY <1>1, <1>2 DEF Answered
<1> QED
  BY <1>2, <1>3, <1>4, <1>5

LEMMA AnswerQuota ==
    ASSUME TypeOK, AllFit, NEW c \in Calls, Answers(c),
           UNCHANGED <<counter, orgMax, recorded, wasted, stuck, faults>>
    PROVE  /\ Proceeds(c) /\ \A k \in Keys : Quota(c, k)
           /\ Keeps(c) /\ ~ Answered(c) /\ Answered(c)'
           /\ answers' = answers + 1
<1>1. /\ call[c].pc = "calling" /\ call[c].user \in Users
      /\ call[c].at \in Providers /\ call[c].type \in Types
  BY DEF Answers, AllFit, Fits
<1>2. Goto(c, "counting user") /\ answers < MaxAnswers /\ answers' = answers + 1
  BY Zenon DEF Answers, Answer
<1>3. call' \in [Calls -> Call] /\ Alone(c) /\ Keeps(c) /\ call'[c].pc = "counting user"
  <2>1. "counting user" \in PC
    BY DEF PC
  <2> QED
    BY <1>2, <2>1, GotoMoves
<1>4. counter' = counter /\ orgMax' = orgMax /\ stuck' = stuck /\ faults' = faults
  OBVIOUS
<1>5. Proceeds(c)
  <2>1. Fits(c)'
    BY <1>1, <1>3 DEF Fits, Keeps
  <2>2. answers' \in {answers, answers + 1} /\ answers' <= MaxAnswers
    <3>1. answers \in Nat /\ MaxAnswers \in Nat
      BY Bound, CountersType
    <3>2. answers < MaxAnswers /\ answers' = answers + 1
      BY <1>2, Zenon
    <3> QED
      BY <3>1, <3>2
  <2>3. counter' \in Counters
    BY <1>4, CountersType
  <2>4. stuck' \subseteq Keys /\ faults' \in 0..MaxFaults
    BY <1>4 DEF TypeOK
  <2> QED
    BY <1>3, <1>4, <2>1, <2>2, <2>3, <2>4, Zenon DEF Proceeds
<1>6. ASSUME NEW k \in Keys PROVE Quota(c, k)
  <2>1. c \in Passed(k)' => c \in Passed(k)
    BY <1>1, <1>3 DEF Passed, Keeps
  <2>2. k \notin Owed(c)
    BY <1>1 DEF Owed
  <2> QED
    BY <1>2, <1>4, <2>1, <2>2 DEF Quota, Leaves, Expires
<1>7. ~ Answered(c) /\ Answered(c)'
  BY <1>1, <1>3 DEF Answered
<1> QED
  BY <1>2, <1>3, <1>5, <1>6, <1>7

LEMMA RecordQuota ==
    ASSUME TypeOK, AllFit, NEW c \in Calls, Record(c)
    PROVE  /\ Proceeds(c) /\ \A k \in Keys : Quota(c, k)
           /\ Answered(c) /\ ~ Answered(c)'
<1>1. /\ call[c].pc = "recording" /\ call[c].user \in Users
      /\ call[c].at \in Providers /\ call[c].type \in Types
  BY DEF Record, AllFit, Fits
<1>2. call' \in [Calls -> Call] /\ Alone(c) /\ call'[c].pc = "idle"
  BY EndMoves DEF Record
<1>3. /\ counter' = counter /\ orgMax' = orgMax /\ stuck' = stuck /\ faults' = faults
      /\ answers' = answers
  BY Zenon DEF Record
<1>4. Proceeds(c)
  <2>1. Fits(c)'
    BY <1>2 DEF Fits
  <2>2. counter' \in Counters
    BY <1>3, CountersType
  <2> QED
    BY <1>2, <1>3, <2>1, <2>2, Quietly
<1>5. ASSUME NEW k \in Keys PROVE Quota(c, k)
  <2>1. c \notin Passed(k)' /\ c \notin Uncounted(k)'
    BY <1>2 DEF Passed, Uncounted
  <2>2. k \notin Owed(c)
    BY <1>1 DEF Owed
  <2> QED
    BY <1>3, <2>1, <2>2 DEF Quota, Leaves, Expires
<1>6. Answered(c) /\ ~ Answered(c)'
  BY <1>1, <1>2 DEF Answered
<1> QED
  BY <1>4, <1>5, <1>6

LEMMA FaultQuota ==
    ASSUME TypeOK, AllFit, NEW c \in Calls, Fault(c)
    PROVE  /\ Proceeds(c) /\ \A k \in Keys : Quota(c, k)
           /\ ~ Answered(c)' /\ UNCHANGED <<spent, recorded, answers>>
<1>1. call' \in [Calls -> Call] /\ Alone(c) /\ call'[c].pc = "idle"
  BY EndMoves DEF Fault
<1>2. /\ counter' = counter /\ orgMax' = orgMax /\ answers' = answers
      /\ spent' = spent /\ recorded' = recorded
      /\ faults < MaxFaults /\ faults' = faults + 1
      /\ stuck' = stuck \cup Owed(c)
  BY Zenon DEF Fault
<1>3. Owed(c) \subseteq Keys
  <2>1. call[c].pc # "idle"
    BY DEF Fault
  <2>2. call[c].user \in Users
    BY <2>1 DEF AllFit, Fits
  <2> QED
    BY <2>2 DEF Owed, Keys
<1>4. Proceeds(c)
  <2>1. Fits(c)'
    BY <1>1 DEF Fits
  <2>2. counter' \in Counters
    BY <1>2, CountersType
  <2>3. answers' \in {answers, answers + 1} /\ answers' <= MaxAnswers
    BY <1>2, Bound DEF TypeOK
  <2>4. faults' \in 0..MaxFaults
    BY <1>2, Bound DEF TypeOK
  <2>5. stuck' \subseteq Keys
    BY <1>2, <1>3 DEF TypeOK
  <2> QED
    BY <1>1, <1>2, <2>1, <2>2, <2>3, <2>4, <2>5, Zenon DEF Proceeds
<1>5. ASSUME NEW k \in Keys PROVE Quota(c, k)
  <2>1. c \notin Passed(k)' /\ c \notin Uncounted(k)'
    BY <1>1 DEF Passed, Uncounted
  <2>2. k \in Owed(c) => k \in stuck'
    BY <1>2
  <2> QED
    BY <1>2, <2>1, <2>2 DEF Quota, Leaves, Expires
<1>6. ~ Answered(c)'
  BY <1>1 DEF Answered
<1> QED
  BY <1>2, <1>4, <1>5, <1>6

-----------------------------------------------------------------------------
(* What a step does to the books                                           *)

\* The calls whose answer belongs in row r and is not there yet.
Pending(r) == {c \in Calls : Answered(c) /\ RowOf(c) = r}

Books == [Row -> Nat]

LEMMA BooksType == TypeOK => spent \in Books /\ recorded \in Books /\ wasted \in Books
BY Bound DEF TypeOK, Books

\* What a step of c does to row r: nothing, or it is answered, recorded or lost.
Balances(c, r) ==
    \/ /\ spent'[r] = spent[r] /\ recorded'[r] = recorded[r] /\ wasted'[r] = wasted[r]
       /\ c \in Pending(r) <=> c \in Pending(r)'
    \/ /\ spent'[r] = spent[r] + 1 /\ recorded'[r] = recorded[r] /\ wasted'[r] = wasted[r]
       /\ c \notin Pending(r) /\ c \in Pending(r)' /\ answers' = answers + 1
    \/ /\ spent'[r] = spent[r] /\ c \in Pending(r) /\ c \notin Pending(r)'
       /\ \/ recorded'[r] = recorded[r] + 1 /\ wasted'[r] = wasted[r]
          \/ recorded'[r] = recorded[r] /\ wasted'[r] = wasted[r] + 1

\* What c does to the books.
Accounts(c) ==
    /\ spent' \in Books /\ recorded' \in Books /\ wasted' \in Books
    /\ \A r \in Row : Balances(c, r)

LEMMA RowOfType ==
    ASSUME TypeOK, AllFit, NEW c \in Calls, call[c].pc = "calling" \/ Answered(c)
    PROVE  RowOf(c) \in Row
BY DEF AllFit, Fits, Answered, RowOf, Row

\* A call that has been answered, and is not recorded, leaves the books alone; so does one
\* that has not been answered.
LEMMA BooksUntouched ==
    ASSUME TypeOK, NEW c \in Calls, UNCHANGED <<spent, recorded, wasted>>,
           \/ ~ Answered(c) /\ ~ Answered(c)'
           \/ Keeps(c) /\ Answered(c) /\ Answered(c)'
    PROVE  Accounts(c)
<1>1. spent' = spent /\ recorded' = recorded /\ wasted' = wasted
  OBVIOUS
<1>2. ASSUME NEW r \in Row PROVE c \in Pending(r) <=> c \in Pending(r)'
  <2>1. CASE ~ Answered(c) /\ ~ Answered(c)'
    BY <2>1, Zenon DEF Pending
  <2>2. CASE Keeps(c) /\ Answered(c) /\ Answered(c)'
    <3>1. RowOf(c)' = RowOf(c)
      BY <2>2 DEF Keeps, RowOf
    <3> QED
      BY <2>2, <3>1, Zenon DEF Pending
  <2> QED
    BY <2>1, <2>2
<1> QED
  BY <1>1, <1>2, BooksType DEF Accounts, Balances

LEMMA AnswerBooks ==
    ASSUME TypeOK, AllFit, NEW c \in Calls, Answers(c),
           UNCHANGED <<counter, orgMax, recorded, wasted, stuck, faults>>
    PROVE  Accounts(c)
<1>1. Keeps(c) /\ ~ Answered(c) /\ Answered(c)' /\ answers' = answers + 1
  BY AnswerQuota
<1>2. RowOf(c) \in Row /\ RowOf(c)' = RowOf(c)
  BY <1>1, RowOfType DEF Answers, Keeps, RowOf
<1>3. spent' = [spent EXCEPT ![RowOf(c)] = @ + 1] /\ recorded' = recorded /\ wasted' = wasted
  BY Zenon DEF Answers, Answer
<1>4. spent \in Books /\ recorded \in Books /\ wasted \in Books
  BY BooksType
<1>5. /\ spent' \in Books /\ spent'[RowOf(c)] = spent[RowOf(c)] + 1
      /\ \A s \in Row \ {RowOf(c)} : spent'[s] = spent[s]
  BY <1>2, <1>3, <1>4 DEF Books
<1>6. ASSUME NEW r \in Row PROVE Balances(c, r)
  <2>1. c \notin Pending(r) /\ (c \in Pending(r)' <=> RowOf(c) = r)
    BY <1>1, <1>2, Zenon DEF Pending
  <2> QED
    BY <1>1, <1>3, <1>5, <2>1 DEF Balances
<1> QED
  BY <1>3, <1>4, <1>5, <1>6, Zenon DEF Accounts

LEMMA RecordBooks ==
    ASSUME TypeOK, AllFit, NEW c \in Calls, Record(c)
    PROVE  Accounts(c)
<1>1. Answered(c) /\ ~ Answered(c)'
  BY RecordQuota
<1>2. RowOf(c) \in Row
  BY <1>1, RowOfType
<1>3. /\ recorded' = [recorded EXCEPT ![RowOf(c)] = @ + 1]
      /\ spent' = spent /\ wasted' = wasted
  BY Zenon DEF Record, Inserted
<1>4. spent \in Books /\ recorded \in Books /\ wasted \in Books
  BY BooksType
<1>5. /\ recorded' \in Books /\ recorded'[RowOf(c)] = recorded[RowOf(c)] + 1
      /\ \A s \in Row \ {RowOf(c)} : recorded'[s] = recorded[s]
  BY <1>2, <1>3, <1>4 DEF Books
<1>6. ASSUME NEW r \in Row PROVE Balances(c, r)
  <2>1. c \notin Pending(r)' /\ (c \in Pending(r) <=> RowOf(c) = r)
    BY <1>1, Zenon DEF Pending
  <2> QED
    BY <1>3, <1>5, <2>1 DEF Balances
<1> QED
  BY <1>3, <1>4, <1>5, <1>6, Zenon DEF Accounts

LEMMA FaultBooks ==
    ASSUME TypeOK, AllFit, NEW c \in Calls, Fault(c)
    PROVE  Accounts(c)
<1>1. ~ Answered(c)' /\ spent' = spent /\ recorded' = recorded
  BY FaultQuota
<1>2. CASE ~ Answered(c)
  <2>1. wasted' = wasted
    BY <1>2, Zenon DEF Fault
  <2> QED
    BY <1>1, <1>2, <2>1, BooksUntouched
<1>3. CASE Answered(c)
  <2>1. RowOf(c) \in Row
    BY <1>3, RowOfType
  <2>2. wasted' = [wasted EXCEPT ![RowOf(c)] = @ + 1]
    BY <1>3, Zenon DEF Fault
  <2>3. spent \in Books /\ recorded \in Books /\ wasted \in Books
    BY BooksType
  <2>4. /\ wasted' \in Books /\ wasted'[RowOf(c)] = wasted[RowOf(c)] + 1
        /\ \A s \in Row \ {RowOf(c)} : wasted'[s] = wasted[s]
    BY <2>1, <2>2, <2>3 DEF Books
  <2>5. ASSUME NEW r \in Row PROVE Balances(c, r)
    <3>1. c \notin Pending(r)' /\ (c \in Pending(r) <=> RowOf(c) = r)
      BY <1>1, <1>3, Zenon DEF Pending
    <3> QED
      BY <1>1, <2>4, <3>1 DEF Balances
  <2> QED
    BY <1>1, <2>3, <2>4, <2>5, Zenon DEF Accounts
<1> QED
  BY <1>2, <1>3

-----------------------------------------------------------------------------
(* Every step keeps the invariant                                          *)

\* What a step of c does, as the invariants see it.
Acts(c) ==
    /\ Proceeds(c) /\ Accounts(c)
    /\ \A k \in Keys : Quota(c, k)

\* Besides the calls, only a window that ends and an administrator move.
LEMMA Effects ==
    ASSUME TypeOK, AllFit, [Next]_vars
    PROVE  \/ \E c \in Calls : Acts(c)
           \/ \E k \in Keys : EndWindow(k)
           \/ \E form \in OrgForm : PatchOrg(form)
           \/ UNCHANGED vars
<1>1. ASSUME NEW c \in Calls, Early(c) PROVE Acts(c)
  <2>1. UNCHANGED <<spent, recorded, wasted>> /\ ~ Answered(c) /\ ~ Answered(c)'
    BY <1>1, EarlyDoes DEF Unanswered, Answered, books
  <2> QED
    BY <1>1, <2>1, EarlyQuota, BooksUntouched, Zenon DEF Acts
<1>2. ASSUME NEW c \in Calls, Answers(c),
             UNCHANGED <<counter, orgMax, recorded, wasted, stuck, faults>>
      PROVE  Acts(c)
  BY <1>2, AnswerQuota, AnswerBooks, Zenon DEF Acts
<1>3. ASSUME NEW c \in Calls, CountUser(c) PROVE Acts(c)
  <2>1. /\ Proceeds(c) /\ \A k \in Keys : Quota(c, k)
        /\ UNCHANGED <<spent, recorded, wasted, answers>> /\ Keeps(c)
        /\ Answered(c) /\ Answered(c)'
    BY <1>3, CountUserQuota, Zenon
  <2> QED
    BY <2>1, BooksUntouched DEF Acts
<1>4. ASSUME NEW c \in Calls, CountOrg(c) PROVE Acts(c)
  <2>1. /\ Proceeds(c) /\ \A k \in Keys : Quota(c, k)
        /\ UNCHANGED <<spent, recorded, wasted, answers>> /\ Keeps(c)
        /\ Answered(c) /\ Answered(c)'
    BY <1>4, CountOrgQuota, Zenon
  <2> QED
    BY <2>1, BooksUntouched DEF Acts
<1>5. ASSUME NEW c \in Calls, ExpireUser(c) PROVE Acts(c)
  <2>1. /\ Proceeds(c) /\ \A k \in Keys : Quota(c, k)
        /\ UNCHANGED <<spent, recorded, wasted, answers>> /\ Keeps(c)
        /\ Answered(c) /\ Answered(c)'
    BY <1>5, ExpireUserQuota, Zenon
  <2> QED
    BY <2>1, BooksUntouched DEF Acts
<1>6. ASSUME NEW c \in Calls, ExpireOrg(c) PROVE Acts(c)
  <2>1. /\ Proceeds(c) /\ \A k \in Keys : Quota(c, k)
        /\ UNCHANGED <<spent, recorded, wasted, answers>> /\ Keeps(c)
        /\ Answered(c) /\ Answered(c)'
    BY <1>6, ExpireOrgQuota, Zenon
  <2> QED
    BY <2>1, BooksUntouched DEF Acts
<1>7. ASSUME NEW c \in Calls, Record(c) PROVE Acts(c)
  BY <1>7, RecordQuota, RecordBooks, Zenon DEF Acts
<1>8. ASSUME NEW c \in Calls, Fault(c) PROVE Acts(c)
  BY <1>8, FaultQuota, FaultBooks, Zenon DEF Acts
<1> QED
  BY <1>1, <1>2, <1>3, <1>4, <1>5, <1>6, <1>7, <1>8, Moves, Zenon

\* The sets of calls that the invariants count, before and after a step of c.
LEMMA SetsByOne ==
    ASSUME NEW c \in Calls, Alone(c)
    PROVE  /\ \A k : \A d \in Calls \ {c} : d \in Passed(k) <=> d \in Passed(k)'
           /\ \A k : \A d \in Calls \ {c} : d \in Uncounted(k) <=> d \in Uncounted(k)'
           /\ \A r : \A d \in Calls \ {c} : d \in Pending(r) <=> d \in Pending(r)'
           /\ \A k : \A d \in Calls \ {c} : k \in Owed(d) <=> k \in Owed(d)'
BY DEF Alone, Passed, Uncounted, Pending, Answered, RowOf, Owed

LEMMA ActsCounts ==
    ASSUME TypeOK, CountsAnswers, NEW c \in Calls, Acts(c)
    PROVE  CountsAnswers'
<1>1. Proceeds(c) /\ \A k \in Keys : Quota(c, k)
  BY DEF Acts
<1>2. SUFFICES ASSUME NEW k \in Keys
               PROVE  counter'[k].count + Cardinality(Uncounted(k)') <= answers'
  BY DEF CountsAnswers
<1>3. \A d \in Calls \ {c} : d \in Uncounted(k) <=> d \in Uncounted(k)'
  BY <1>1, SetsByOne DEF Proceeds
<1> DEFINE S == Uncounted(k)
           T == Uncounted(k)'
<1>4. S \in SUBSET Calls /\ T \in SUBSET Calls
  BY DEF Uncounted
<1>5. counter[k].count + Cardinality(S) <= answers
  BY DEF CountsAnswers
<1>6. counter[k].count \in Nat /\ answers \in Nat /\ answers' \in {answers, answers + 1}
  BY <1>1, CountersType DEF Counters, Proceeds
<1>7. \/ counter'[k].count = counter[k].count /\ (c \in T => c \in S \/ answers' = answers + 1)
      \/ counter'[k].count = counter[k].count + 1 /\ c \in S /\ c \notin T
  BY <1>1 DEF Quota, Leaves, Counts
<1> HIDE DEF S, T
<1>8. /\ Cardinality(S) \in Nat /\ Cardinality(T) \in Nat
      /\ (c \in S <=> c \in T) => Cardinality(T) = Cardinality(S)
      /\ c \notin S /\ c \in T => Cardinality(T) = Cardinality(S) + 1
      /\ c \in S /\ c \notin T => Cardinality(S) = Cardinality(T) + 1
  <2>1. \A d \in Calls \ {c} : d \in S <=> d \in T
    BY <1>3 DEF S, T
  <2> QED
    BY <1>4, <2>1, CountedByOne
<1>9. counter'[k].count + Cardinality(T) <= answers'
  BY <1>5, <1>6, <1>7, <1>8
<1> QED
  BY <1>9 DEF T

LEMMA ActsQuota ==
    ASSUME TypeOK, QuotaBounded, NEW c \in Calls, Acts(c)
    PROVE  QuotaBounded'
<1>1. Proceeds(c) /\ \A k \in Keys : Quota(c, k)
  BY DEF Acts
<1>2. SUFFICES ASSUME NEW k \in Keys
               PROVE  counter'[k].count + Cardinality(Passed(k)') <=
                          Largest(k) - 1 + Cardinality(Calls)
  BY DEF QuotaBounded, Largest
<1>3. \A d \in Calls \ {c} : d \in Passed(k) <=> d \in Passed(k)'
  BY <1>1, SetsByOne DEF Proceeds
<1> DEFINE S == Passed(k)
           T == Passed(k)'
           most == Largest(k)
<1>4. S \in SUBSET Calls /\ T \in SUBSET Calls
  BY DEF Passed
<1>5. counter[k].count + Cardinality(S) <= most - 1 + Cardinality(Calls)
  BY DEF QuotaBounded
<1>6. counter[k].count \in Nat /\ most \in Nat
  BY CountersType, LargestLimit, Bound DEF Counters, Keys
<1>7. \/ counter'[k].count = counter[k].count /\ (c \in T => c \in S \/ counter[k].count < most)
      \/ counter'[k].count = counter[k].count + 1 /\ c \in S /\ c \notin T
  BY <1>1 DEF Quota, Leaves, Counts
<1> HIDE DEF S, T, most
<1>8. /\ Cardinality(S) \in Nat /\ Cardinality(T) \in Nat /\ Cardinality(Calls) \in Nat
      /\ Cardinality(T) <= Cardinality(Calls)
      /\ (c \in S <=> c \in T) => Cardinality(T) = Cardinality(S)
      /\ c \in S /\ c \notin T => Cardinality(S) = Cardinality(T) + 1
  <2>1. \A d \in Calls \ {c} : d \in S <=> d \in T
    BY <1>3 DEF S, T
  <2> QED
    BY <1>4, <2>1, CountedByOne
<1>9. counter'[k].count + Cardinality(T) <= most - 1 + Cardinality(Calls)
  BY <1>5, <1>6, <1>7, <1>8
<1> QED
  BY <1>9 DEF T, most

LEMMA ActsExpire ==
    ASSUME TypeOK, CountersExpire, NEW c \in Calls, Acts(c)
    PROVE  CountersExpire'
<1>1. Proceeds(c) /\ \A k \in Keys : Quota(c, k)
  BY DEF Acts
<1>2. SUFFICES ASSUME NEW k \in Keys, counter'[k].count > 0
               PROVE  counter'[k].ttl \/ k \in stuck' \/ \E d \in Calls : k \in Owed(d)'
  BY DEF CountersExpire
<1>3. \A d \in Calls \ {c} : k \in Owed(d) <=> k \in Owed(d)'
  BY <1>1, SetsByOne DEF Proceeds
<1>4. Expires(c, k)
  BY <1>1 DEF Quota
<1>5. CASE k \in stuck' \/ k \in Owed(c)' \/ counter'[k].ttl = TRUE
  BY <1>5
<1>6. CASE /\ counter[k].count > 0
           /\ counter[k].ttl = TRUE => counter'[k].ttl = TRUE
           /\ stuck \subseteq stuck'
           /\ k \notin Owed(c)
  <2>1. counter[k].ttl = TRUE \/ k \in stuck \/ \E d \in Calls : k \in Owed(d)
    <3>1. counter[k].ttl \in BOOLEAN
      BY CounterFields
    <3> QED
      BY <1>6, <3>1, Zenon DEF CountersExpire
  <2>2. ASSUME NEW d \in Calls, k \in Owed(d) PROVE k \in Owed(d)'
    BY <1>3, <1>6, <2>2
  <2>3. CASE counter[k].ttl = TRUE
    BY <1>6, <2>3, Zenon
  <2> QED
    BY <1>6, <2>1, <2>2, <2>3, Zenon
<1> QED
  BY <1>2, <1>4, <1>5, <1>6 DEF Expires

LEMMA ActsBooks ==
    ASSUME TypeOK, SpentAnswers, AnswersAccounted, NEW c \in Calls, Acts(c)
    PROVE  SpentAnswers' /\ AnswersAccounted'
<1>1. Proceeds(c) /\ Accounts(c)
  BY DEF Acts
<1>2. ASSUME NEW r \in Row
      PROVE  /\ spent'[r] <= answers'
             /\ spent'[r] = recorded'[r] + wasted'[r] + Cardinality(Pending(r)')
  <2>1. \A d \in Calls \ {c} : d \in Pending(r) <=> d \in Pending(r)'
    BY <1>1, SetsByOne DEF Proceeds
  <2> DEFINE S == Pending(r)
             T == Pending(r)'
  <2>2. S \in SUBSET Calls /\ T \in SUBSET Calls
    BY DEF Pending
  <2>3. spent[r] <= answers /\ spent[r] = recorded[r] + wasted[r] + Cardinality(S)
    BY DEF SpentAnswers, AnswersAccounted, Pending
  <2>4. /\ spent[r] \in Nat /\ recorded[r] \in Nat /\ wasted[r] \in Nat /\ answers \in Nat
        /\ answers' \in {answers, answers + 1}
    BY <1>1, BooksType, CountersType DEF Books, Proceeds
  <2>5. Balances(c, r)
    BY <1>1 DEF Accounts
  <2>6. \/ /\ spent'[r] = spent[r] /\ recorded'[r] = recorded[r] /\ wasted'[r] = wasted[r]
           /\ c \in S <=> c \in T
        \/ /\ spent'[r] = spent[r] + 1 /\ recorded'[r] = recorded[r] /\ wasted'[r] = wasted[r]
           /\ c \notin S /\ c \in T /\ answers' = answers + 1
        \/ /\ spent'[r] = spent[r] /\ c \in S /\ c \notin T
           /\ \/ recorded'[r] = recorded[r] + 1 /\ wasted'[r] = wasted[r]
              \/ recorded'[r] = recorded[r] /\ wasted'[r] = wasted[r] + 1
    BY <2>5 DEF Balances
  <2> HIDE DEF S, T
  <2>7. /\ Cardinality(S) \in Nat /\ Cardinality(T) \in Nat
        /\ (c \in S <=> c \in T) => Cardinality(T) = Cardinality(S)
        /\ c \notin S /\ c \in T => Cardinality(T) = Cardinality(S) + 1
        /\ c \in S /\ c \notin T => Cardinality(S) = Cardinality(T) + 1
    <3>1. \A d \in Calls \ {c} : d \in S <=> d \in T
      BY <2>1 DEF S, T
    <3> QED
      BY <2>2, <3>1, CountedByOne
  <2>8. spent'[r] <= answers' /\ spent'[r] = recorded'[r] + wasted'[r] + Cardinality(T)
    BY <2>3, <2>4, <2>6, <2>7
  <2> QED
    BY <2>8 DEF T
<1> QED
  BY <1>2 DEF SpentAnswers, AnswersAccounted, Pending

\* A window that ends takes its key's count with it, and nothing else.
LEMMA EndWindowKeeps ==
    ASSUME IInv, NEW k \in Keys, EndWindow(k)
    PROVE  IInv'
<1> USE DEF IInv
<1>1. counter \in Counters
  BY CountersType
<1>2. /\ call' = call /\ orgMax' = orgMax /\ stuck' = stuck /\ answers' = answers
      /\ faults' = faults /\ spent' = spent /\ recorded' = recorded /\ wasted' = wasted
  BY Zenon DEF EndWindow, books
<1>3. counter' = [counter EXCEPT ![k] = NoCount]
  BY Zenon DEF EndWindow
<1>4. /\ counter'[k].count = 0 /\ counter' \in [Keys -> Counter]
      /\ \A j \in Keys \ {k} : counter'[j] = counter[j]
  <2>1. NoCount \in Counter /\ NoCount.count = 0
    BY Bound DEF NoCount, Counter
  <2> QED
    BY <1>3, <2>1 DEF TypeOK
<1>5. TypeOK'
  BY <1>2, <1>4 DEF TypeOK
<1>6. AllFit' /\ SpentAnswers' /\ AnswersAccounted'
  BY <1>2 DEF AllFit, Fits, SpentAnswers, AnswersAccounted, Answered, RowOf
<1>7. ASSUME NEW j \in Keys
      PROVE  counter'[j].count \in Nat /\ counter'[j].count <= counter[j].count
  BY <1>1, <1>4 DEF Counters
<1>8. CountsAnswers'
  <2> SUFFICES ASSUME NEW j \in Keys
               PROVE  counter'[j].count + Cardinality(Uncounted(j)') <= answers'
    BY DEF CountsAnswers
  <2>1. Uncounted(j)' = Uncounted(j)
    BY <1>2 DEF Uncounted
  <2>2. counter[j].count + Cardinality(Uncounted(j)) <= answers
    BY DEF CountsAnswers
  <2>3. Cardinality(Uncounted(j)) \in Nat /\ counter[j].count \in Nat /\ answers \in Nat
    <3>1. Uncounted(j) \in SUBSET Calls
      BY DEF Uncounted
    <3> QED
      BY <1>1, <3>1, Bound, FS_Subset, FS_CardinalityType, CountersType DEF Counters
  <2> QED
    BY <1>2, <1>7, <2>1, <2>2, <2>3
<1>9. QuotaBounded'
  <2> SUFFICES ASSUME NEW j \in Keys
               PROVE  counter'[j].count + Cardinality(Passed(j)') <=
                          Largest(j) - 1 + Cardinality(Calls)
    BY DEF QuotaBounded, Largest
  <2>1. Passed(j)' = Passed(j)
    BY <1>2 DEF Passed
  <2>2. counter[j].count + Cardinality(Passed(j)) <= Largest(j) - 1 + Cardinality(Calls)
    BY DEF QuotaBounded
  <2>3. /\ Cardinality(Passed(j)) \in Nat /\ Cardinality(Calls) \in Nat
        /\ counter[j].count \in Nat /\ Largest(j) \in Nat
    <3>1. Passed(j) \in SUBSET Calls
      BY DEF Passed
    <3>2. Cardinality(Passed(j)) \in Nat /\ Cardinality(Calls) \in Nat
      BY <3>1, Bound, FS_Subset, FS_CardinalityType
    <3> QED
      BY <1>1, <3>2, LargestLimit, Bound DEF Counters, Keys
  <2> QED
    BY <1>7, <2>1, <2>2, <2>3
<1>10. CountersExpire'
  <2> SUFFICES ASSUME NEW j \in Keys, counter'[j].count > 0
               PROVE  counter'[j].ttl \/ j \in stuck' \/ \E c \in Calls : j \in Owed(c)'
    BY DEF CountersExpire
  <2>1. j # k /\ counter'[j] = counter[j]
    BY <1>4
  <2>2. \A c \in Calls : Owed(c)' = Owed(c)
    BY <1>2 DEF Owed
  <2> QED
    BY <1>2, <2>1, <2>2, Zenon DEF CountersExpire
<1> QED
  BY <1>5, <1>6, <1>8, <1>9, <1>10

\* An administrator moves the limit among those that count as the largest.
LEMMA PatchOrgKeeps ==
    ASSUME IInv, NEW form \in OrgForm, PatchOrg(form)
    PROVE  IInv'
<1> USE DEF IInv
<1>1. /\ call' = call /\ counter' = counter /\ stuck' = stuck /\ answers' = answers
      /\ faults' = faults /\ spent' = spent /\ recorded' = recorded /\ wasted' = wasted
      /\ orgMax' = Updated(orgMax, form)
  BY Zenon DEF PatchOrg, books
<1>2. orgMax' \in OrgMaxes \cup {NoLimit}
  BY <1>1 DEF OrgForm, Updated, TypeOK
<1>3. TypeOK'
  BY <1>1, <1>2 DEF TypeOK
<1>4. AllFit' /\ SpentAnswers' /\ AnswersAccounted'
  BY <1>1 DEF AllFit, Fits, SpentAnswers, AnswersAccounted, Answered, RowOf
<1>5. CountsAnswers'
  BY <1>1 DEF CountsAnswers, Uncounted
<1>6. QuotaBounded'
  BY <1>1 DEF QuotaBounded, Passed, Largest
<1>7. CountersExpire'
  BY <1>1 DEF CountersExpire, Owed
<1> QED
  BY <1>3, <1>4, <1>5, <1>6, <1>7

LEMMA StutterKeeps ==
    ASSUME IInv, UNCHANGED vars
    PROVE  IInv'
<1> USE DEF IInv
<1>1. /\ call' = call /\ counter' = counter /\ stuck' = stuck /\ answers' = answers
      /\ faults' = faults /\ spent' = spent /\ recorded' = recorded /\ wasted' = wasted
      /\ orgMax' = orgMax
  BY DEF vars, books
<1>2. TypeOK' /\ AllFit' /\ CountsAnswers' /\ SpentAnswers'
  BY <1>1 DEF TypeOK, AllFit, Fits, CountsAnswers, Uncounted, SpentAnswers
<1>3. QuotaBounded' /\ AnswersAccounted'
  BY <1>1 DEF QuotaBounded, Passed, Largest, AnswersAccounted, Answered, RowOf
<1>4. CountersExpire'
  BY <1>1 DEF CountersExpire, Owed
<1> QED
  BY <1>2, <1>3, <1>4

LEMMA ActsKeep ==
    ASSUME IInv, NEW c \in Calls, Acts(c)
    PROVE  IInv'
<1> USE DEF IInv
<1>1. Proceeds(c) /\ Accounts(c)
  BY DEF Acts
<1>2. CountsAnswers' /\ QuotaBounded' /\ CountersExpire' /\ SpentAnswers' /\ AnswersAccounted'
  BY ActsCounts, ActsQuota, ActsExpire, ActsBooks
<1>3. AllFit'
  <2> SUFFICES ASSUME NEW d \in Calls PROVE Fits(d)'
    BY DEF AllFit
  <2>1. CASE d = c
    BY <1>1, <2>1 DEF Proceeds, Fits
  <2>2. CASE d # c
    <3>1. call'[d] = call[d] /\ Fits(d)
      BY <1>1, <2>2 DEF Proceeds, Alone, AllFit
    <3> QED
      BY <3>1 DEF Fits
  <2> QED
    BY <2>1, <2>2
<1>4. answers' \in Nat /\ answers' <= MaxAnswers /\ MaxAnswers \in Nat
  BY <1>1, CountersType, Bound DEF Proceeds
<1>5. ASSUME NEW S \in SUBSET Calls PROVE Cardinality(S) \in Nat
  BY Bound, FS_Subset, FS_CardinalityType
<1>6. counter' \in [Keys -> Counter]
  <2>1. counter' \in [Keys -> [count : Nat, ttl : BOOLEAN]]
    BY <1>1 DEF Proceeds, Counters
  <2>2. ASSUME NEW k \in Keys PROVE counter'[k] \in Counter
    <3>1. Cardinality(Uncounted(k)') \in Nat
      <4>1. Uncounted(k)' \in SUBSET Calls
        BY DEF Uncounted
      <4> QED
        BY <1>5, <4>1
    <3>2. counter'[k].count + Cardinality(Uncounted(k)') <= answers'
      BY <1>2 DEF CountsAnswers
    <3>3. counter'[k] \in [count : Nat, ttl : BOOLEAN]
      BY <2>1
    <3>4. counter'[k].count \in 0..MaxAnswers
      BY <1>4, <3>1, <3>2, <3>3
    <3> QED
      BY <3>3, <3>4 DEF Counter
  <2> QED
    BY <2>1, <2>2
<1>7. /\ spent' \in [Row -> 0..MaxAnswers] /\ recorded' \in [Row -> 0..MaxAnswers]
      /\ wasted' \in [Row -> 0..MaxAnswers]
  <2>1. spent' \in [Row -> Nat] /\ recorded' \in [Row -> Nat] /\ wasted' \in [Row -> Nat]
    BY <1>1 DEF Accounts, Books
  <2>2. ASSUME NEW r \in Row
        PROVE  /\ spent'[r] \in 0..MaxAnswers /\ recorded'[r] \in 0..MaxAnswers
               /\ wasted'[r] \in 0..MaxAnswers
    <3>1. Cardinality(Pending(r)') \in Nat
      <4>1. Pending(r)' \in SUBSET Calls
        BY DEF Pending
      <4> QED
        BY <1>5, <4>1
    <3>2. /\ spent'[r] <= answers'
          /\ spent'[r] = recorded'[r] + wasted'[r] + Cardinality(Pending(r)')
      BY <1>2 DEF SpentAnswers, AnswersAccounted, Pending
    <3>3. spent'[r] \in Nat /\ recorded'[r] \in Nat /\ wasted'[r] \in Nat
      BY <2>1
    <3> QED
      BY <1>4, <3>1, <3>2, <3>3
  <2> QED
    BY <2>1, <2>2
<1>8. TypeOK'
  <2>1. answers' \in 0..MaxAnswers
    BY <1>4
  <2>2. orgMax' \in OrgMaxes \cup {NoLimit}
    BY <1>1 DEF Proceeds, TypeOK
  <2>3. call' \in [Calls -> Call] /\ stuck' \subseteq Keys /\ faults' \in 0..MaxFaults
    BY <1>1, Zenon DEF Proceeds
  <2> QED
    BY <1>6, <1>7, <2>1, <2>2, <2>3, Zenon DEF TypeOK
<1> QED
  BY <1>2, <1>3, <1>8

LEMMA InitHolds == Init => IInv
<1> SUFFICES ASSUME Init PROVE IInv
  OBVIOUS
<1> USE Bound
<1>1. counter = [k \in Keys |-> NoCount] /\ call = [c \in Calls |-> Idle]
      /\ spent = [r \in Row |-> 0] /\ recorded = [r \in Row |-> 0] /\ wasted = [r \in Row |-> 0]
      /\ stuck = {} /\ answers = 0 /\ faults = 0 /\ orgMax = NoLimit
  BY DEF Init
<1>2. Idle \in Call /\ Idle.pc = "idle" /\ NoCount \in Counter /\ NoCount.count = 0
  BY DEF Idle, Call, PC, NoCount, Counter
<1>3. TypeOK
  BY <1>1, <1>2 DEF TypeOK
<1>4. \A c \in Calls : call[c].pc = "idle"
  BY <1>1, <1>2
<1>5. \A k \in Keys : counter[k].count = 0
  BY <1>1, <1>2
<1>6. AllFit
  BY <1>4 DEF AllFit, Fits
<1>7. \A k \in Keys : Uncounted(k) = {} /\ Passed(k) = {}
  BY <1>4 DEF Uncounted, Passed
<1>8. \A r \in Row : {c \in Calls : Answered(c) /\ RowOf(c) = r} = {}
  BY <1>4 DEF Answered
<1>9. Cardinality({}) = 0
  BY FS_EmptySet
<1>10. CountsAnswers
  BY <1>1, <1>5, <1>7, <1>9 DEF CountsAnswers
<1>11. SpentAnswers
  BY <1>1 DEF SpentAnswers
<1>12. QuotaBounded
  <2> SUFFICES ASSUME NEW k \in Keys
               PROVE  counter[k].count + Cardinality(Passed(k)) <=
                          Largest(k) - 1 + Cardinality(Calls)
    BY DEF QuotaBounded
  <2>1. Largest(k) \in Nat \ {0} /\ Cardinality(Calls) \in Nat
    BY LargestLimit, FS_CardinalityType DEF Keys
  <2> QED
    BY <1>5, <1>7, <1>9, <2>1
<1>13. CountersExpire
  BY <1>5 DEF CountersExpire
<1>14. AnswersAccounted
  BY <1>1, <1>8, <1>9 DEF AnswersAccounted
<1> QED
  BY <1>3, <1>6, <1>10, <1>11, <1>12, <1>13, <1>14 DEF IInv

-----------------------------------------------------------------------------
(* The theorems                                                            *)

\* The invariant is inductive.
THEOREM Invariance == Spec => []IInv
<1>1. Init => IInv
  BY InitHolds
<1>2. IInv /\ [Next]_vars => IInv'
  <2> SUFFICES ASSUME IInv, [Next]_vars PROVE IInv'
    OBVIOUS
  <2>1. \/ \E c \in Calls : Acts(c)
        \/ \E k \in Keys : EndWindow(k)
        \/ \E form \in OrgForm : PatchOrg(form)
        \/ UNCHANGED vars
    BY Effects DEF IInv
  <2> QED
    BY <2>1, ActsKeep, EndWindowKeeps, PatchOrgKeeps, StutterKeeps, Zenon
<1> QED
  BY <1>1, <1>2, PTL DEF Spec

\* The variables hold what the code can put into them; no counter and no total passes
\* the number of answers.
THEOREM TypeCorrect == Spec => []TypeOK
<1>1. IInv => TypeOK
  BY DEF IInv
<1> QED
  BY <1>1, Invariance, PTL

\* However many calls run at once, the quota of a user or of the organisation is passed
\* by less than their number (AiService._assert_ai_rate_limit, chat, vision).
THEOREM QuotaHolds == Spec => []QuotaBounded
<1>1. IInv => QuotaBounded
  BY DEF IInv
<1> QED
  BY <1>1, Invariance, PTL

\* Only a fault between INCR and EXPIRE locks a key for good
\* (AiService._bump_ai_rate_limit).
THEOREM WindowsEnd == Spec => []CountersExpire
<1>1. IInv => CountersExpire
  BY DEF IInv
<1> QED
  BY <1>1, Invariance, PTL

\* Each answer is recorded once, under the provider that gave it, or a fault has lost it
\* (AiService._persist_success, FallbackLlmProvider).
THEOREM BooksBalance == Spec => []AnswersAccounted
<1>1. IInv => AnswersAccounted
  BY DEF IInv
<1> QED
  BY <1>1, Invariance, PTL

=============================================================================
