------------------------------ MODULE Fetching ------------------------------
(***************************************************************************)
(* One polite fetch and what a run makes of it: attempts with backoff, the  *)
(* failures that mean "Rice is down", and the count of them in a row that   *)
(* ends a run.  An answer is a body, a status worth another attempt         *)
(* ("busy": 408, 429, 5xx), a page that is gone (404, 410), another status, *)
(* a body over the cap, a host that is silent (no connection, timeout), or  *)
(* a response that broke off.                                               *)
(***************************************************************************)
EXTENDS Naturals, Sequences, FiniteSetsExt

CONSTANTS Retries, MaxConsecutiveFailures
ASSUME FetchAssumption == Retries \in Nat /\ MaxConsecutiveFailures \in Nat \ {0}

Answers == {"body", "busy", "gone", "refused", "tooLarge", "silent", "broken"}
Retryable(answer) == answer \in {"busy", "silent"}
(* The answer a fetch ends with: the first not worth a retry, or the last. *)
FetchBytes(answers) ==
    answers[Min({n \in DOMAIN answers : ~Retryable(answers[n]) \/ n = Retries + 1})]
Live == {FetchBytes(answers) : answers \in [1..(Retries + 1) -> Answers]}
(* An archived fetch may also fail to write the blob. *)
Got == Live \cup {"unwritable"}

IsOutage(result) == result \in {"busy", "refused", "silent", "broken", "unwritable"}
CountFetch(count, result) == IF IsOutage(result) THEN count + 1 ELSE 0
Down(count) == count >= MaxConsecutiveFailures
=============================================================================
