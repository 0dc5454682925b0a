---------------------------- MODULE ClientProcess ----------------------------
(***************************************************************************)
(* One process and what it asks of CardTrader through its rate limiter: it *)
(* is in fetch_offers_for_keys (a PlanAll wave), with a thread for each    *)
(* fetch under way, or in a bulk call (apply, import) on a single thread.  *)
(* Every attempt of _send that is rate limited acquires a token first.     *)
(***************************************************************************)
EXTENDS RateLimiter, BulkJob, FiniteSets

CONSTANTS Total, Workers   \* of MarketFetch

VARIABLES
    call,       \* the call it is in: fetch or bulk
    fetch_pc, next_index, in_flight, offers, future, fetch_attempt, sent, last,
    requests    \* rate-limited requests sent in the observer's window

Fetch == INSTANCE MarketFetch WITH pc <- fetch_pc, attempt <- fetch_attempt

fetchVars == <<fetch_pc, next_index, in_flight, offers, future, fetch_attempt, sent, last>>
processVars == <<call, limiterVars, vars, fetchVars, requests>>

\* Threads are named after the keys they fetch; the bulk call is on the first.
BulkThread == 1
ASSUME ProcessAssumption ==
    /\ Threads = 1 .. Total /\ Total \in Nat \ {0} /\ Workers \in Nat \ {0}
    /\ Calls = MaxRetries + 1

ProcessInit ==
    /\ call \in {"fetch", "bulk"}
    /\ LimiterInit /\ Init /\ Fetch!Init
    /\ requests = 0

-------------------------------------------------------------------------------
\* Attempts of its request that thread t has sent.
Sent(t) == IF call = "fetch" THEN sent[t] ELSE attempt

\* Mutant: _request acquires the token, and retries go without.
TokensDueOnce(t) == 1

\* Tokens acquired before the next attempt: _send, which the retries call
\* again, acquires one each time.
TokensDue(t) == Sent(t) + 1

Acquired(t) == Calls - todo[t]

\* Thread t has a rate-limited request to send.
Requesting(t) ==
    IF call = "fetch" THEN future[t] = "running" ELSE t = BulkThread /\ pc = "post"

Acquire(t) ==
    /\ Requesting(t) /\ Acquired(t) < TokensDue(t)
    /\ Call(t)
    /\ UNCHANGED <<call, vars, fetchVars, requests>>

Limiter(t) == Step(t) /\ UNCHANGED <<call, vars, fetchVars, requests>>

\* The attempt goes out once acquire has returned, at any time after.
SendAttempt(t) ==
    /\ Requesting(t) /\ Acquired(t) >= TokensDue(t) /\ thread[t] = "idle"
    /\ requests' = IF open THEN requests + 1 ELSE requests
    /\ UNCHANGED <<call, limiterVars>>

FetchAttempt(k) == SendAttempt(k) /\ call = "fetch" /\ Fetch!Attempt(k) /\ UNCHANGED vars
BulkPost == SendAttempt(BulkThread) /\ call = "bulk" /\ Post /\ UNCHANGED fetchVars

\* The rest of either call; polls of the job are not rate limited.
InFetch == call = "fetch" /\ UNCHANGED <<call, limiterVars, vars, requests>>
InBulk == call = "bulk" /\ UNCHANGED <<call, limiterVars, fetchVars, requests>>

FetchMain == Fetch!Main /\ InFetch
FetchBegin(k) == Fetch!Begin(k) /\ InFetch
BulkPoll == Poll /\ InBulk
BulkJobRuns == (\E j \in DOMAIN jobs : JobRuns(j)) /\ InBulk

BulkUnderWay == call = "bulk" /\ pc \in {"post", "poll"}

ClockTick ==
    /\ LimiterTick
    /\ IF BulkUnderWay THEN Tick ELSE UNCHANGED vars
    /\ requests' = IF open' THEN requests ELSE 0
    /\ UNCHANGED <<call, fetchVars>>

Observe == OpenWindow /\ requests' = 0 /\ UNCHANGED <<call, vars, fetchVars>>

\* What the calling thread does next, and what thread t does.
CallerStep == FetchMain \/ BulkPost \/ BulkPoll
ThreadStep(t) == FetchBegin(t) \/ Acquire(t) \/ Limiter(t) \/ FetchAttempt(t)

ProcessNext ==
    CallerStep \/ (\E t \in Threads : ThreadStep(t)) \/ BulkJobRuns \/ ClockTick \/ Observe

ProcessSpec == ProcessInit /\ [][ProcessNext]_processVars

\* The clock runs, the operating system schedules every thread, and an attempt
\* ends, its socket having a timeout.  CardTrader need never run the job.
FairProcessSpec ==
    /\ ProcessSpec
    /\ WF_processVars(ClockTick) /\ WF_processVars(CallerStep)
    /\ \A t \in Threads : WF_processVars(ThreadStep(t))

-------------------------------------------------------------------------------
(***************************************************************************)
(* Properties, beside those of RateLimiter and BulkJob                     *)
(***************************************************************************)

\* What CardTrader sees: in every window of time the requests sent, retries
\* included, exceed what the limiter let through by at most one a worker, who
\* may have slept between acquire and the request.
RequestBound == requests * Token <= Capacity + span * Refill + Workers * Token

\* fetch_offers_for_keys returns the offers of every key or raises.
ReturnsEveryKey == Fetch!ReturnsEveryKey

\* A key's fetch fails on a transient answer only after every retry.
TransientFaultsAreRetried == Fetch!TransientFaultsAreRetried

\* No worker starts on another key once the fetch has failed.
NoFetchAfterFailure == Fetch!NoFetchAfterFailure

\* Both calls end, whatever CardTrader answers, and leave no worker behind: a
\* thread that others rob of the token it slept for gets one in the end.
CallsEnd ==
    /\ call = "fetch" => Fetch!FetchEnds
    /\ call = "bulk" => CallEnds
===============================================================================
