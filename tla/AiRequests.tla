----------------------------- MODULE AiRequests ------------------------------
(***************************************************************************)
(* The AI calls of one organisation's users: the quota counters in Redis,  *)
(* checked before a provider is called and bumped after it has answered,   *)
(* the providers with their errors and the single fallback, and the rows   *)
(* that record an answer and its cost.                                     *)
(*                                                                         *)
(* A call is a request in a thread of its own.  Every action is one Redis  *)
(* command, one provider's reply or one commit.  An answer is counted, and *)
(* recorded, by the provider that gave it.                                 *)
(***************************************************************************)
EXTENDS Naturals, FiniteSets

CONSTANTS
    Calls,          \* calls under way at once
    Users,          \* users of the organisation
    UserMax,        \* settings.ai_rate_limit_max
    OrgMaxes,       \* values an administrator gives the organisation's limit
    Primary,        \* settings.ai_primary_provider
    Fallback,       \* settings.ai_fallback_provider
    FallbackOn,     \* settings.ai_fallback_enabled
    Requested,      \* bound: providers that requests name
    MaxAnswers,     \* bound: answers of providers
    MaxFaults       \* bound: crashes, failed Redis commands, failed commits

Providers == {"openai", "gemini", "ollama"}

ASSUME ConstantsAssumption ==
    /\ IsFiniteSet(Calls)
    /\ "org" \notin Users
    /\ UserMax \in Nat \ {0}
    /\ OrgMaxes \subseteq Nat \ {0}
    /\ IsFiniteSet(OrgMaxes)
    /\ {Primary, Fallback} \cup Requested \subseteq Providers
    /\ FallbackOn \in BOOLEAN
    /\ MaxAnswers \in Nat
    /\ MaxFaults \in Nat

VARIABLES
    counter,      \* counter[k]: the quota counter of key k, and whether it has a TTL
    orgMax,       \* the organisation's own limit, or NoLimit
    call,         \* call[c]: how far c is, for whom, and with which provider
    spent,        \* spent[r]: answers given, by provider and type of request
    recorded,     \* recorded[r]: committed ai_requests, succeeded, with their usage
    wasted,       \* wasted[r]: answers lost to a fault before they were recorded
    stuck,        \* counters whose TTL a fault has kept from being set
    answers,      \* bound: answers so far
    faults        \* bound: faults so far

books == <<spent, recorded, wasted>>
vars  == <<counter, orgMax, call, books, stuck, answers, faults>>

-----------------------------------------------------------------------------

NoLimit == 0                     \* NULL: the limit of the settings is in force

Types == {"chat", "vision"}

\* An ai_requests row that succeeded, and the ai_usage row that goes with it.
Row == [provider : Providers, type : Types]

Keys == Users \cup {"org"}

Counter == [count : 0..MaxAnswers, ttl : BOOLEAN]
NoCount == [count |-> 0, ttl |-> FALSE]

PC == {"idle", "checking user", "checking org", "preparing", "calling", "failing",
       "counting user", "expiring user", "counting org", "expiring org", "recording"}

\* What an adapter raises, for every kind of reply.
Errors == {"none", "ProviderError", "RateLimitError", "ValidationAppError"}

Call == [pc    : PC,
         user  : Users \cup {"none"},
         type  : Types \cup {"none"},
         at    : Providers \cup {"none"},        \* the provider called, then answering
         spare : BOOLEAN]                        \* a second provider stands by

Idle == [pc |-> "idle", user |-> "none", type |-> "none", at |-> "none", spare |-> FALSE]

Goto(c, label) == call' = [call EXCEPT ![c].pc = label]
End(c)         == call' = [call EXCEPT ![c] = Idle]

\* The provider has answered and the row is not committed.
Answered(c) == call[c].pc \in {"counting user", "expiring user", "counting org",
                               "expiring org", "recording"}

Init ==
    /\ counter  = [k \in Keys |-> NoCount]
    /\ orgMax   = NoLimit
    /\ call     = [c \in Calls |-> Idle]
    /\ spent    = [r \in Row |-> 0]
    /\ recorded = [r \in Row |-> 0]
    /\ wasted   = [r \in Row |-> 0]
    /\ stuck    = {}
    /\ answers  = 0
    /\ faults   = 0

-----------------------------------------------------------------------------
(* The check of the quota                                                  *)

\* Mutant of AtLimit: one more is let through.
OverLimit(k, max) == counter[k].count > max

AtLimit(k, max) == counter[k].count >= max

OrgLimit == IF orgMax = NoLimit THEN UserMax ELSE orgMax

Begin(c, u) ==
    /\ call[c].pc = "idle"
    /\ call' = [call EXCEPT ![c] = [@ EXCEPT !.pc = "checking user", !.user = u]]
    /\ UNCHANGED <<counter, orgMax, books, stuck, answers, faults>>

\* 429, or the next check; a refused call leaves no row.
CheckUser(c) ==
    /\ call[c].pc = "checking user"
    /\ IF AtLimit(call[c].user, UserMax) THEN End(c) ELSE Goto(c, "checking org")
    /\ UNCHANGED <<counter, orgMax, books, stuck, answers, faults>>

CheckOrg(c) ==
    /\ call[c].pc = "checking org"
    /\ IF AtLimit("org", OrgLimit) THEN End(c) ELSE Goto(c, "preparing")
    /\ UNCHANGED <<counter, orgMax, books, stuck, answers, faults>>

\* An administrator's form: a limit, or none given, or a box ticked to clear it.
OrgForm == [max : OrgMaxes \cup {NoLimit}, clear : BOOLEAN]

Updated(max, form) == IF form.clear THEN NoLimit ELSE IF form.max # NoLimit THEN form.max ELSE max

PatchOrg(form) ==
    /\ orgMax' = Updated(orgMax, form)
    /\ UNCHANGED <<counter, call, books, stuck, answers, faults>>

-----------------------------------------------------------------------------
(* What the call is about                                                  *)

\* A document, as _get_document_for_actor and _load_image_bytes tell it apart; it is foreign
\* to an actor who neither owns it nor is an administrator.
Documents == {"missing", "deleted", "foreign", "pdf", "without file", "image"}

Own(document)   == document \notin {"missing", "deleted", "foreign"}
Image(document) == Own(document) /\ document \notin {"pdf", "without file"}

\* A prompt is named or not; one that is named is active with its variables given, or not.
Prompts == {"none", "rendered", "unusable"}

ChatInput == [roles : BOOLEAN, prompt : Prompts, documents : SUBSET Documents]

\* RagService.retrieve does not ask whether a document is marked deleted.
Searchable(document) == document \notin {"missing", "foreign"}

\* _build_chat_messages, and the retrieval of citations.
ChatAccepted(in) == in.roles /\ in.prompt # "unusable" /\ \A d \in in.documents : Searchable(d)

JobStatus == {"missing", "foreign", "unfinished", "succeeded"}

OcrJob == [status : JobStatus, document : Documents]
NoJob  == [status |-> "none", document |-> "image"]

VisionInput ==
    [document    : Documents \cup {"none"},
     image       : Documents \cup {"none"},
     job         : OcrJob \cup {NoJob},
     prompt      : Prompts,
     instruction : BOOLEAN]

Named(in) == {in.document, in.image} \ {"none"}

\* Each thing named is there; a job's own document is read when no image is given.
InputsResolved(in) ==
    /\ \A d \in Named(in) : Image(d)
    /\ in.job # NoJob => in.job.status = "succeeded" /\ (Named(in) = {} => Image(in.job.document))

VisionAccepted(in) ==
    /\ Named(in) # {} \/ in.job # NoJob
    /\ in.prompt = "rendered" \/ (in.prompt = "none" /\ in.instruction)
    /\ InputsResolved(in)

\* Mutant of Resolved: the name is taken as it is.
AsRequested(asked) == asked

\* The provider called first: the one the request names, or the configured one.
Resolved(asked) == IF asked = "default" THEN Primary ELSE asked

\* A second one stands by only for a request that names none.
FallsBack(asked) == asked = "default" /\ FallbackOn /\ Fallback # Primary

\* The handlers of chat and vision up to the call of the provider.  An input that is
\* not accepted is a 4xx: nothing is counted and nothing is recorded.
Prepare(c, type, accepted) ==
    /\ call[c].pc = "preparing"
    /\ IF accepted
       THEN \E asked \in Requested \cup {"default"} :
                call' = [call EXCEPT ![c] =
                            [@ EXCEPT !.pc = "calling", !.type = type,
                                      !.at = Resolved(asked), !.spare = FallsBack(asked)]]
       ELSE End(c)
    /\ UNCHANGED <<counter, orgMax, books, stuck, answers, faults>>

ChatVerdicts   == {ChatAccepted(in) : in \in ChatInput}
VisionVerdicts == {VisionAccepted(in) : in \in VisionInput}

Chat(c)   == \E accepted \in ChatVerdicts : Prepare(c, "chat", accepted)
Vision(c) == \E accepted \in VisionVerdicts : Prepare(c, "vision", accepted)

-----------------------------------------------------------------------------
(* The providers                                                           *)

\* What comes back: an answer, an HTTP status, or nothing that can be read.
Replies == {"answer", "400", "401", "403", "404", "429", "5xx", "unreachable", "unreadable"}

OpenAiRaises(reply) ==
    CASE reply = "429"            -> "RateLimitError"
      [] reply \in {"400", "401"} -> "ValidationAppError"
      [] OTHER                    -> "ProviderError"

OpenAi(reply) == IF reply = "answer" THEN "none" ELSE OpenAiRaises(reply)

GeminiRaises(reply) ==
    CASE reply = "429"                   -> "RateLimitError"
      [] reply \in {"400", "401", "403"} -> "ValidationAppError"
      [] OTHER                           -> "ProviderError"

\* A chat of nothing but system messages is refused before it is sent, like a 400.
Gemini(reply) == IF reply = "answer" THEN "none" ELSE GeminiRaises(reply)

\* It knows no rate limit: a 429 is an upstream failure like any other.
OllamaRaises(reply) ==
    IF reply \in {"400", "404"} THEN "ValidationAppError" ELSE "ProviderError"

Ollama(reply) == IF reply = "answer" THEN "none" ELSE OllamaRaises(reply)

Raised(provider, reply) ==
    CASE provider = "openai" -> OpenAi(reply)
      [] provider = "gemini" -> Gemini(reply)
      [] provider = "ollama" -> Ollama(reply)

\* The row that the answer of c belongs in.
RowOf(c) == [provider |-> call[c].at, type |-> call[c].type]

Answer(c) ==
    /\ answers < MaxAnswers
    /\ answers' = answers + 1
    /\ spent' = [spent EXCEPT ![RowOf(c)] = @ + 1]
    /\ Goto(c, "counting user")

\* An upstream failure is tried once more elsewhere; any other error ends the call.
FallBack(c) == call' = [call EXCEPT ![c] = [@ EXCEPT !.at = Fallback, !.spare = FALSE]]

Reply(c, reply) ==
    LET error == Raised(call[c].at, reply) IN
        /\ call[c].pc = "calling"
        /\ \/ error = "none" /\ Answer(c)
           \/ /\ error # "none"
              /\ IF error = "ProviderError" /\ call[c].spare
                 THEN FallBack(c)
                 ELSE Goto(c, "failing")
              /\ UNCHANGED <<spent, answers>>
        /\ UNCHANGED <<counter, orgMax, recorded, wasted, stuck, faults>>

\* _persist_failed: the failed row is committed, or is lost without a trace; either way
\* the error reaches the user and no quota is used.
PersistFailed(c) ==
    /\ call[c].pc = "failing"
    /\ End(c)
    /\ UNCHANGED <<counter, orgMax, books, stuck, answers, faults>>

-----------------------------------------------------------------------------
(* The quota is used, and the answer recorded                              *)

\* Mutant of Bump: whoever finds the counter at 1 gives it its TTL.
BumpSeen(c, k, expiring, next) ==
    /\ counter' = [counter EXCEPT ![k].count = @ + 1]
    /\ Goto(c, IF counter[k].count = 1 THEN expiring ELSE next)
    /\ UNCHANGED <<orgMax, books, stuck, answers, faults>>

\* INCR; the call that makes the counter 1 owes it its EXPIRE.
Bump(c, k, expiring, next) ==
    /\ counter' = [counter EXCEPT ![k].count = @ + 1]
    /\ Goto(c, IF counter'[k].count = 1 THEN expiring ELSE next)
    /\ UNCHANGED <<orgMax, books, stuck, answers, faults>>

CountUser(c) ==
    /\ call[c].pc = "counting user"
    /\ Bump(c, call[c].user, "expiring user", "counting org")

CountOrg(c) ==
    /\ call[c].pc = "counting org"
    /\ Bump(c, "org", "expiring org", "recording")

Expire(c, k, next) ==
    /\ counter' = [counter EXCEPT ![k].ttl = TRUE]
    /\ Goto(c, next)
    /\ UNCHANGED <<orgMax, books, stuck, answers, faults>>

ExpireUser(c) == call[c].pc = "expiring user" /\ Expire(c, call[c].user, "counting org")
ExpireOrg(c)  == call[c].pc = "expiring org"  /\ Expire(c, "org", "recording")

\* The window of a key is over.
EndWindow(k) ==
    /\ counter[k].ttl
    /\ counter' = [counter EXCEPT ![k] = NoCount]
    /\ UNCHANGED <<orgMax, call, books, stuck, answers, faults>>

\* Mutant of Inserted: the request is booked on the configured provider, whose name
\* the pair of providers bears.
InsertedByName(row) == [recorded EXCEPT ![[row EXCEPT !.provider = Primary]] = @ + 1]

Inserted(row) == [recorded EXCEPT ![row] = @ + 1]

\* The request and its usage, in one commit, under result.provider.
Record(c) ==
    /\ call[c].pc = "recording"
    /\ recorded' = Inserted(RowOf(c))
    /\ End(c)
    /\ UNCHANGED <<counter, orgMax, spent, wasted, stuck, answers, faults>>

\* The key that c has counted and not yet given its TTL.
Owed(c) ==
    CASE call[c].pc = "expiring user" -> {call[c].user}
      [] call[c].pc = "expiring org"  -> {"org"}
      [] OTHER                        -> {}

\* The process dies, or Redis or the database refuses the next command: the call is
\* over, and nobody sets the TTL that it owed.
Fault(c) ==
    /\ call[c].pc # "idle"
    /\ faults < MaxFaults
    /\ faults' = faults + 1
    /\ stuck' = stuck \cup Owed(c)
    /\ wasted' = IF Answered(c) THEN [wasted EXCEPT ![RowOf(c)] = @ + 1] ELSE wasted
    /\ End(c)
    /\ UNCHANGED <<counter, orgMax, spent, recorded, answers>>

-----------------------------------------------------------------------------

\* One call, in the order of the handlers.
Step(c) ==
    \/ CheckUser(c) \/ CheckOrg(c)
    \/ Chat(c) \/ Vision(c)
    \/ \E reply \in Replies : Reply(c, reply)
    \/ PersistFailed(c)
    \/ CountUser(c) \/ ExpireUser(c)
    \/ CountOrg(c) \/ ExpireOrg(c)
    \/ Record(c)

Next ==
    \/ \E c \in Calls : Step(c) \/ Fault(c) \/ \E u \in Users : Begin(c, u)
    \/ \E k \in Keys : EndWindow(k)
    \/ \E form \in OrgForm : PatchOrg(form)

Spec == Init /\ [][Next]_vars

-----------------------------------------------------------------------------
(* Properties                                                              *)

\* The variables hold what the code can put into them.
TypeOK ==
    /\ counter \in [Keys -> Counter]
    /\ orgMax \in OrgMaxes \cup {NoLimit}
    /\ call \in [Calls -> Call]
    /\ spent \in [Row -> 0..MaxAnswers]
    /\ recorded \in [Row -> 0..MaxAnswers]
    /\ wasted \in [Row -> 0..MaxAnswers]
    /\ stuck \subseteq Keys
    /\ answers \in 0..MaxAnswers
    /\ faults \in 0..MaxFaults

\* Calls that have passed the check of key k and not yet been counted on it.
Passed(k) ==
    {c \in Calls :
        IF k = "org"
        THEN call[c].pc \in {"preparing", "calling", "failing", "counting user",
                             "expiring user", "counting org"}
        ELSE call[c].user = k /\ call[c].pc \in {"checking org", "preparing", "calling",
                                                 "failing", "counting user"}}

Largest(k) == IF k = "org" THEN CHOOSE m \in OrgMaxes \cup {UserMax} :
                                    \A n \in OrgMaxes \cup {UserMax} : n <= m
                           ELSE UserMax

\* A window lets through at most one call less than its limit and then those already
\* under way: the check and the bump are far apart, and as many calls pass between
\* them as run at once, but no more (AiService._assert_ai_rate_limit, chat, vision).
QuotaBounded ==
    \A k \in Keys : counter[k].count + Cardinality(Passed(k)) <= Largest(k) - 1 + Cardinality(Calls)

\* A counter that has begun expires one day: it has its TTL, or one call is about to
\* set it, or a fault has struck between INCR and EXPIRE and the key is locked for
\* good (AiService._bump_ai_rate_limit).
CountersExpire ==
    \A k \in Keys :
        counter[k].count > 0 => counter[k].ttl \/ k \in stuck \/ \E c \in Calls : k \in Owed(c)

\* Every answer is recorded, as what it was and under the provider that gave it, or
\* still under way, or lost to a fault: no failure of a provider is taken for an answer,
\* and an answer of the second is not booked on the first (FallbackLlmProvider,
\* AiService._persist_success).
AnswersAccounted ==
    \A r \in Row :
        spent[r] = recorded[r] + wasted[r]
                   + Cardinality({c \in Calls : Answered(c) /\ RowOf(c) = r})

=============================================================================
