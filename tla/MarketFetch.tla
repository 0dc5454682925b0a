---------------------------- MODULE MarketFetch ----------------------------
(***************************************************************************)
(* fetch_offers_for_keys: the offers of a chunk's keys, fetched by a pool  *)
(* of workers through a sliding window of futures.  Waiting for the rate   *)
(* limiter is part of an attempt (see RateLimiter).                        *)
(***************************************************************************)
EXTENDS HttpClient, FiniteSets

CONSTANTS
    Total,     \* number of keys, a natural number
    Workers    \* marketplace_max_workers, at least 1

Keys == 1 .. Total

VARIABLES
    pc,          \* the calling thread: loop, returned or raised
    next_index,  \* keys submitted so far
    in_flight,   \* keys of the futures it waits for
    offers,      \* the keys in offers_by_key
    future,      \* of each key: none, queued, running, done, failed, cancelled
    attempt,     \* of each key: _send's parameter
    sent,        \* of each key: requests sent
    last         \* of each key: the last answer

caller == <<pc, next_index, in_flight, offers>>
vars == <<caller, future, attempt, sent, last>>

Init ==
    /\ pc = "loop" /\ next_index = 0 /\ in_flight = {} /\ offers = {}
    /\ future = [k \in Keys |-> "none"]
    /\ attempt = [k \in Keys |-> 0]
    /\ sent = [k \in Keys |-> 0]
    /\ last = [k \in Keys |-> "ok"]

-------------------------------------------------------------------------------
Room == next_index < Total /\ Cardinality(in_flight) < Workers

Submit ==
    /\ pc = "loop" /\ Room
    /\ next_index' = next_index + 1
    /\ in_flight' = in_flight \cup {next_index + 1}
    /\ future' = [future EXCEPT ![next_index + 1] = "queued"]
    /\ UNCHANGED <<pc, offers, attempt, sent, last>>

\* Mutant: only what succeeded counts as finished.
Succeeded == {k \in in_flight : future[k] = "done"}

Finished == {k \in in_flight : future[k] \in {"done", "failed"}}

\* wait(..., FIRST_COMPLETED) returned futures that all succeeded.
Collect ==
    /\ pc = "loop" /\ ~Room
    /\ Finished # {} /\ \A k \in Finished : future[k] = "done"
    /\ offers' = offers \cup Finished
    /\ in_flight' = in_flight \ Finished
    /\ UNCHANGED <<pc, next_index, future, attempt, sent, last>>

\* Mutant: the pool is shut down without cancel_futures.
ShutdownOnly == future

\* pool.shutdown(wait=False, cancel_futures=True)
Shutdown == [k \in Keys |-> IF future[k] = "queued" THEN "cancelled" ELSE future[k]]

\* One of them failed: its result() raises, after any of the others were
\* stored, and the workers are left to themselves.
CollectFailure ==
    /\ pc = "loop" /\ ~Room
    /\ \E k \in Finished : future[k] = "failed"
    /\ offers' \in {offers \cup S : S \in SUBSET {k \in Finished : future[k] = "done"}}
    /\ in_flight' = in_flight \ Finished
    /\ pc' = "raised"
    /\ future' = Shutdown
    /\ UNCHANGED <<next_index, attempt, sent, last>>

\* Mutant: the loop ends once every key is submitted.
LoopOverAtSubmit == next_index = Total

\* while next_index < total_fetches or in_flight
LoopOver == next_index = Total /\ in_flight = {}

Finish ==
    /\ pc = "loop" /\ LoopOver
    /\ pc' = "returned"
    /\ future' = Shutdown
    /\ UNCHANGED <<next_index, in_flight, offers, attempt, sent, last>>

\* A free worker takes up a future.
Begin(k) ==
    /\ future[k] = "queued"
    /\ Cardinality({j \in Keys : future[j] = "running"}) < Workers
    /\ future' = [future EXCEPT ![k] = "running"]
    /\ UNCHANGED <<caller, attempt, sent, last>>

\* It sends the request and hears an answer.
Attempt(k) ==
    /\ future[k] = "running"
    /\ \E answer \in Answers :
          LET then == AfterAttempt("GET", attempt[k], answer)
          IN  /\ last' = [last EXCEPT ![k] = answer]
              /\ attempt' = IF then = "retry" THEN [attempt EXCEPT ![k] = @ + 1] ELSE attempt
              /\ future' = [future EXCEPT ![k] =
                               CASE then = "return" -> "done"
                                 [] then = "retry" -> "running"
                                 [] OTHER -> "failed"]
    /\ sent' = [sent EXCEPT ![k] = @ + 1]
    /\ UNCHANGED caller

\* The call is over and the pool has come to rest.
Ended ==
    /\ pc # "loop" /\ \A k \in Keys : future[k] \notin {"queued", "running"}
    /\ UNCHANGED vars

Main == Submit \/ Collect \/ CollectFailure \/ Finish

Next == Main \/ (\E k \in Keys : Begin(k) \/ Attempt(k)) \/ Ended

Spec == Init /\ [][Next]_vars

\* The threads are scheduled and an attempt ends, its socket having a timeout.
FairSpec == Spec /\ WF_vars(Main) /\ \A k \in Keys : WF_vars(Begin(k)) /\ WF_vars(Attempt(k))

-------------------------------------------------------------------------------
(***************************************************************************)
(* Properties                                                              *)
(***************************************************************************)

\* The variables have their types; in particular, no request is sent more
\* often than the retries allow.
TypeOK ==
    /\ pc \in {"loop", "returned", "raised"}
    /\ next_index \in 0 .. Total /\ in_flight \subseteq Keys /\ offers \subseteq Keys
    /\ future \in [Keys -> {"none", "queued", "running", "done", "failed", "cancelled"}]
    /\ attempt \in [Keys -> 0 .. MaxRetries] /\ sent \in [Keys -> 0 .. MaxRetries + 1]
    /\ last \in [Keys -> Answers]

\* A chunk is priced with the offers of every key or not at all: no listing is
\* taken for one without competitors because its fetch was still under way.
ReturnsEveryKey == pc = "returned" => offers = Keys

\* A key fails only when CardTrader refuses the request, the connection breaks
\* under a response, or every attempt failed.
TransientFaultsAreRetried ==
    \A k \in Keys : future[k] = "failed" /\ last[k] \in Transient => sent[k] = MaxRetries + 1

\* After a failure no worker starts on another key: the invocation that
\* retries the chunk does not compete with the rest of the old one for
\* CardTrader's request budget.
NoFetchAfterFailure ==
    [][pc = "raised" =>
          \A k \in Keys : future[k] # "running" => future'[k] # "running"]_vars

\* The call returns or raises, whatever CardTrader answers, and its workers
\* come to rest.
FetchEnds ==
    <>[](pc # "loop" /\ \A k \in Keys : future[k] \notin {"queued", "running"})

\* runbook.md:133: "GET/HEAD: 429/502/503/504 + network errors, up to
\* CT_HTTP_MAX_RETRIES".  A broken connection, too, fails a GET only after
\* every attempt.
NetworkErrorsAreRetried ==
    \A k \in Keys : future[k] = "failed" /\ last[k] = "broken" => sent[k] = MaxRetries + 1
===============================================================================
