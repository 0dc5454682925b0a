----------------------------- MODULE HttpClient -----------------------------
(***************************************************************************)
(* CardTraderClient._send: what one attempt of a request leads to.         *)
(*                                                                         *)
(* An attempt is answered by: ok; "429"; "unavailable", any of 502, 503    *)
(* and 504; "refused", any other HTTP error; "network", a URLError, which  *)
(* urlopen raises for a failure to connect or to send; "broken", the       *)
(* time-out or reset while the response is awaited or read, which urlopen  *)
(* and read do not turn into a URLError.                                   *)
(***************************************************************************)
EXTENDS Naturals

CONSTANT MaxRetries   \* ct_http_max_retries

ASSUME RetriesAssumption == MaxRetries \in Nat

Transient == {"429", "unavailable", "network"}
Answers == Transient \cup {"ok", "refused", "broken"}

\* Mutants: mutations are retried like reads; nothing is, but on 429.
retry_allowed_for_all(method, answer) == answer \in Transient
retry_allowed_on_429(method, answer) == answer = "429"

\* Reads are retried freely, mutations only on 429, which CardTrader sends
\* before it accepts anything.
retry_allowed(method, answer) ==
    IF method = "GET" THEN answer \in Transient ELSE answer = "429"

MayRetry(attempt) == attempt < MaxRetries

\* return; retry after the backoff, which full jitter may draw as 0; raise a
\* CardTraderError; or let the exception through as it is.
AfterAttempt(method, attempt, answer) ==
    CASE answer = "ok" -> "return"
      [] answer # "ok" /\ retry_allowed(method, answer) /\ MayRetry(attempt) -> "retry"
      [] answer = "broken" -> "escape"
      [] OTHER -> "error"
==============================================================================
