----------------------------- MODULE RateLimiter -----------------------------
(***************************************************************************)
(* RateLimiter, the token bucket that the worker threads of one process    *)
(* share: acquire() blocks until a token is available.                     *)
(*                                                                         *)
(* Time is counted in ticks and tokens in units, of which a tick adds      *)
(* Refill and a call costs Token.  An observer opens a window of time at   *)
(* any moment and counts the calls let through until it closes.            *)
(***************************************************************************)
EXTENDS Naturals

CONSTANTS
    Threads,   \* the worker threads
    Refill,    \* units a tick adds: rate_per_second in units and ticks
    Token,     \* units in one token
    Second,    \* ticks in a second
    Calls,     \* calls a thread makes
    MaxSpan    \* bound on the observer's windows, in ticks

ASSUME LimiterAssumption ==
    /\ Refill \in Nat \ {0} /\ Token \in Nat \ {0} /\ Second \in Nat \ {0}
    /\ Calls \in Nat /\ MaxSpan \in Nat

\* max(1.0, rate_per_second), in units.
Capacity == IF Refill * Second < Token THEN Token ELSE Refill * Second

VARIABLES
    tokens,   \* units in the bucket at the last acquire
    age,      \* ticks since then, _updated_at
    thread,   \* of each thread: idle, in acquire's loop, or sleeping
    wait,     \* ticks each sleeper has to go
    todo,     \* calls each thread has yet to make
    open,     \* whether the observer has a window open,
    span,     \* for how many ticks,
    count     \* and the calls let through in it

bucket == <<tokens, age>>
callers == <<thread, wait, todo>>
observer == <<open, span, count>>
limiterVars == <<bucket, callers, observer>>

LimiterInit ==
    /\ tokens = Capacity /\ age = 0
    /\ thread = [t \in Threads |-> "idle"]
    /\ wait = [t \in Threads |-> 0]
    /\ todo = [t \in Threads |-> Calls]
    /\ open = FALSE /\ span = 0 /\ count = 0

-------------------------------------------------------------------------------
\* Mutants: an idle bucket goes on filling; only whole tokens are added.
RefilledForEver(n) == tokens + n * Refill
RefilledWhole(n) ==
    LET whole == ((n * Refill) \div Token) * Token
    IN  IF tokens + whole < Capacity THEN tokens + whole ELSE Capacity

\* What the bucket holds n ticks after the last acquire.
Refilled(n) == IF tokens + n * Refill < Capacity THEN tokens + n * Refill ELSE Capacity

Filled == Refilled(age)

Enough == Filled >= Token

\* The sleep for what is missing of a token, rounded up to a tick.
WaitFor(deficit) == (deficit + Refill - 1) \div Refill

Call(t) ==
    /\ thread[t] = "idle" /\ todo[t] > 0
    /\ thread' = [thread EXCEPT ![t] = "acquire"]
    /\ todo' = [todo EXCEPT ![t] = @ - 1]
    /\ UNCHANGED <<bucket, wait, observer>>

\* The body of acquire's loop, under the lock, that takes a token
Take(t) ==
    /\ thread[t] = "acquire" /\ Enough
    /\ tokens' = Filled - Token /\ age' = 0
    /\ thread' = [thread EXCEPT ![t] = "idle"]
    /\ count' = IF open THEN count + 1 ELSE count
    /\ UNCHANGED <<wait, todo, open, span>>

\* or finds too little and sleeps.
Sleep(t) ==
    /\ thread[t] = "acquire" /\ ~Enough
    /\ tokens' = Filled /\ age' = 0
    /\ thread' = [thread EXCEPT ![t] = "sleep"]
    /\ wait' = [wait EXCEPT ![t] = WaitFor(Token - Filled)]
    /\ UNCHANGED <<todo, observer>>

\* A sleeper wakes when its time is over, or later.
Wake(t) ==
    /\ thread[t] = "sleep" /\ wait[t] = 0
    /\ thread' = [thread EXCEPT ![t] = "acquire"]
    /\ UNCHANGED <<bucket, wait, todo, observer>>

\* The age of a bucket that is full already no longer matters, nor does a
\* window longer than MaxSpan.
LimiterTick ==
    /\ age' = IF tokens + age * Refill < Capacity THEN age + 1 ELSE age
    /\ wait' = [t \in Threads |-> IF wait[t] > 0 THEN wait[t] - 1 ELSE 0]
    /\ open' = (open /\ span < MaxSpan)
    /\ span' = IF open' THEN span + 1 ELSE 0
    /\ count' = IF open' THEN count ELSE 0
    /\ UNCHANGED <<tokens, thread, todo>>

OpenWindow ==
    /\ ~open
    /\ open' = TRUE /\ span' = 0 /\ count' = 0
    /\ UNCHANGED <<bucket, callers>>

Step(t) == Take(t) \/ Sleep(t) \/ Wake(t)

LimiterNext == (\E t \in Threads : Call(t) \/ Step(t)) \/ LimiterTick \/ OpenWindow

LimiterSpec == LimiterInit /\ [][LimiterNext]_limiterVars

-------------------------------------------------------------------------------
(***************************************************************************)
(* Properties                                                              *)
(***************************************************************************)

\* The bucket holds between nothing and its capacity, threads are where
\* acquire can be, and only an open window has counted anything.
LimiterTypeOK ==
    /\ tokens \in 0 .. Capacity /\ age \in Nat
    /\ thread \in [Threads -> {"idle", "acquire", "sleep"}]
    /\ wait \in [Threads -> Nat] /\ todo \in [Threads -> 0 .. Calls]
    /\ open \in BOOLEAN /\ span \in Nat /\ count \in Nat
    /\ ~open => span = 0 /\ count = 0

\* However the threads interleave, in every window of time the calls let
\* through are at most a full bucket and what the window refilled.
WindowBound == count * Token <= Capacity + span * Refill
===============================================================================
