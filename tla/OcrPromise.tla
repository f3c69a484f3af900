----------------------------- MODULE OcrPromise -----------------------------
(***************************************************************************)
(* What the OCR API promises a client that polls GET /ocr/jobs/{id}: a job *)
(* is pending, then decided once; its text appears with the success, is    *)
(* never rewritten, and disappears only when the document is erased.       *)
(* Workers, messages, retries and resets are invisible at this level.      *)
(***************************************************************************)
EXTENDS Naturals

CONSTANT Jobs

VARIABLES
    outcome,  \* outcome[j]: what the client is told about j
    text      \* text[j]: how many times results of j have been published

promiseVars == <<outcome, text>>

Outcome == {"none", "pending", "succeeded", "failed", "erased"}

Init ==
    /\ outcome = [j \in Jobs |-> "none"]
    /\ text    = [j \in Jobs |-> 0]

Submit(j) ==
    /\ outcome[j] = "none"
    /\ outcome' = [outcome EXCEPT ![j] = "pending"]
    /\ UNCHANGED text

Succeed(j) ==
    /\ outcome[j] = "pending"
    /\ outcome' = [outcome EXCEPT ![j] = "succeeded"]
    /\ text'    = [text EXCEPT ![j] = 1]

Fail(j) ==
    /\ outcome[j] = "pending"
    /\ outcome' = [outcome EXCEPT ![j] = "failed"]
    /\ UNCHANGED text

\* One erasure removes the jobs of all the documents it covers.
Erase(S) ==
    /\ S # {} /\ \A j \in S : outcome[j] # "erased"
    /\ outcome' = [j \in Jobs |-> IF j \in S THEN "erased" ELSE outcome[j]]
    /\ text'    = [j \in Jobs |-> IF j \in S THEN 0 ELSE text[j]]

Next ==
    \/ \E j \in Jobs : Submit(j) \/ Succeed(j) \/ Fail(j)
    \/ \E S \in SUBSET Jobs : Erase(S)

\* A pending job is decided: the client's polling loop ends.
Spec ==
    /\ Init /\ [][Next]_promiseVars
    /\ \A j \in Jobs : WF_promiseVars(Succeed(j) \/ Fail(j))
==============================================================================
