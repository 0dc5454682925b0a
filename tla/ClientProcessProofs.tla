------------------------ MODULE ClientProcessProofs ------------------------
(***************************************************************************)
(* The limiter, the fetch and the bulk call, and the process that behaves  *)
(* as all three do.  What they promise together, for any number of keys,   *)
(* workers and retries: every key's offers or an exception, one job for a  *)
(* batch, and a bound on the requests that CardTrader sees in any window   *)
(* of time.                                                                *)
(***************************************************************************)
EXTENDS ClientProcess, FiniteSetTheorems, TLAPS

-------------------------------------------------------------------------------
(***************************************************************************)
(* The window bound of the token bucket, for every rate, every number of   *)
(* threads and calls, and windows of any length.                           *)
(***************************************************************************)

\* The ledger of a window: the calls let through and what the bucket still
\* holds were in the bucket or came in since.
Ledger == count * Token + Filled <= Capacity + span * Refill

LimiterInv == LimiterTypeOK /\ Ledger

\* Products with a successor, which the solver is given rather than finds.
LEMMA Successor ==
    ASSUME NEW a \in Nat, NEW b \in Nat
    PROVE  (a + 1) * b = a * b + b /\ a * b \in Nat /\ 0 * b = 0
  OBVIOUS

\* The capacity is a natural number of units, and a token fits into it.
LEMMA CapacityType == Capacity \in Nat /\ Capacity >= Token /\ Token \in Nat /\ Refill \in Nat
<1>1. Refill * Second \in Nat
    BY LimiterAssumption
<1> QED BY <1>1, LimiterAssumption DEF Capacity

\* The bucket never holds more than its capacity, nor more than was there and
\* came in.
LEMMA FilledType ==
    ASSUME LimiterTypeOK
    PROVE  Filled \in 0 .. Capacity /\ tokens <= Filled /\ Filled <= tokens + age * Refill
<1>1. age * Refill \in Nat
    BY CapacityType DEF LimiterTypeOK
<1> QED BY <1>1, CapacityType DEF LimiterTypeOK, Filled, Refilled

\* Right after an acquire the bucket holds what it was set to.
LEMMA JustAcquired ==
    ASSUME NEW n \in 0 .. Capacity, tokens' = n, age' = 0
    PROVE  Filled' = n
<1>1. 0 * Refill = 0
    BY CapacityType, Successor
<1>2. Filled' = IF tokens' + age' * Refill < Capacity THEN tokens' + age' * Refill ELSE Capacity
    BY DEF Filled, Refilled
<1> QED BY <1>1, <1>2, CapacityType

\* It starts full, with nothing counted.
LEMMA InitLimiter == LimiterInit => LimiterInv
<1> SUFFICES ASSUME LimiterInit PROVE LimiterInv
    OBVIOUS
<1>1. LimiterTypeOK
  <2>1. tokens \in 0 .. Capacity /\ age \in Nat /\ span \in Nat /\ count \in Nat
      BY CapacityType DEF LimiterInit
  <2>2. /\ thread \in [Threads -> {"idle", "acquire", "sleep"}]
        /\ wait \in [Threads -> Nat] /\ todo \in [Threads -> 0 .. Calls]
      BY LimiterAssumption DEF LimiterInit
  <2>3. open \in BOOLEAN /\ span = 0 /\ count = 0
      BY DEF LimiterInit
  <2> QED BY <2>1, <2>2, <2>3 DEF LimiterTypeOK
<1>2. Filled <= Capacity
    BY <1>1, FilledType, CapacityType
<1>3. Filled \in Nat
    BY <1>1, FilledType, CapacityType
<1>4. count * Token = 0 /\ span * Refill = 0
    BY CapacityType DEF LimiterInit
<1> QED BY <1>1, <1>2, <1>3, <1>4, CapacityType DEF LimiterInv, Ledger

\* A call only moves its thread.
LEMMA CallLimiter ==
    ASSUME LimiterInv, NEW t \in Threads, Call(t) PROVE LimiterInv'
<1>1. LimiterTypeOK'
    BY LimiterAssumption DEF LimiterInv, LimiterTypeOK, Call, bucket, observer
<1>2. Ledger'
    BY CapacityType DEF LimiterInv, Ledger, Call, bucket, observer, Filled, Refilled
<1> QED BY <1>1, <1>2 DEF LimiterInv

\* A token goes from the bucket to the count.
LEMMA TakeLimiter ==
    ASSUME LimiterInv, NEW t \in Threads, Take(t) PROVE LimiterInv'
<1>1. Filled \in 0 .. Capacity /\ Filled - Token \in 0 .. Capacity
    BY FilledType, CapacityType DEF LimiterInv, Take, Enough
<1>2. LimiterTypeOK'
    BY <1>1, LimiterAssumption DEF LimiterInv, LimiterTypeOK, Take, Enough
<1>3. Filled' = Filled - Token
    BY <1>1, JustAcquired DEF Take, Enough
<1>4. count' * Token <= count * Token + Token /\ count' * Token \in Nat /\ count * Token \in Nat
  <2>1. count \in Nat /\ count' \in {count, count + 1}
      BY DEF LimiterInv, LimiterTypeOK, Take, Enough
  <2>2. (count + 1) * Token = count * Token + Token /\ count * Token \in Nat
      BY <2>1, Successor, CapacityType
  <2>3. CASE count' = count
      BY <2>2, <2>3, CapacityType
  <2>4. CASE count' = count + 1
      BY <2>2, <2>4, CapacityType
  <2> QED BY <2>1, <2>3, <2>4
<1>5. span' = span /\ span * Refill \in Nat
    BY CapacityType DEF Take, Enough, LimiterInv, LimiterTypeOK
<1>6. Ledger'
    BY <1>1, <1>3, <1>4, <1>5, CapacityType DEF LimiterInv, Ledger
<1> QED BY <1>2, <1>6 DEF LimiterInv

\* A refused thread leaves the bucket as full as it found it.
LEMMA SleepLimiter ==
    ASSUME LimiterInv, NEW t \in Threads, Sleep(t) PROVE LimiterInv'
<1>1. Filled \in 0 .. Capacity /\ Token - Filled \in Nat
    BY FilledType, CapacityType DEF LimiterInv, Sleep, Enough
<1>2. WaitFor(Token - Filled) \in Nat
  <2>1. Token - Filled + Refill - 1 \in Nat /\ Refill \in Nat \ {0}
      BY <1>1, LimiterAssumption
  <2> QED BY <2>1 DEF WaitFor
<1>3. LimiterTypeOK'
    BY <1>1, <1>2, LimiterAssumption DEF LimiterInv, LimiterTypeOK, Sleep, Enough, observer
<1>4. Filled' = Filled
    BY <1>1, JustAcquired DEF Sleep, Enough
<1>5. Ledger'
    BY <1>4 DEF LimiterInv, Ledger, Sleep, Enough, observer
<1> QED BY <1>3, <1>5 DEF LimiterInv

\* Waking touches no bucket.
LEMMA WakeLimiter ==
    ASSUME LimiterInv, NEW t \in Threads, Wake(t) PROVE LimiterInv'
<1>1. LimiterTypeOK'
    BY LimiterAssumption DEF LimiterInv, LimiterTypeOK, Wake, bucket, observer
<1>2. Ledger'
    BY CapacityType DEF LimiterInv, Ledger, Wake, bucket, observer, Filled, Refilled
<1> QED BY <1>1, <1>2 DEF LimiterInv

\* A tick adds to the bucket no more than it adds to the window's budget.
LEMMA TickLimiter ==
    ASSUME LimiterInv, LimiterTick PROVE LimiterInv'
<1>1. LimiterTypeOK'
    BY LimiterAssumption DEF LimiterInv, LimiterTypeOK, LimiterTick
<1>2. tokens' = tokens /\ age' \in {age, age + 1} /\ age \in Nat /\ tokens \in Nat
    BY CapacityType DEF LimiterInv, LimiterTypeOK, LimiterTick
<1>3. age' * Refill <= age * Refill + Refill /\ age' * Refill \in Nat /\ age * Refill \in Nat
  <2>1. (age + 1) * Refill = age * Refill + Refill /\ age * Refill \in Nat
      BY <1>2, Successor, CapacityType
  <2>2. CASE age' = age
      BY <2>1, <2>2, CapacityType
  <2>3. CASE age' = age + 1
      BY <2>1, <2>3, CapacityType
  <2> QED BY <1>2, <2>2, <2>3
<1>4. Filled' = IF tokens + age' * Refill < Capacity THEN tokens + age' * Refill ELSE Capacity
    BY <1>2 DEF Filled, Refilled
<1>5. Filled = IF tokens + age * Refill < Capacity THEN tokens + age * Refill ELSE Capacity
    BY DEF Filled, Refilled
<1>6. Filled' <= Filled + Refill /\ Filled' <= Capacity /\ Filled' \in Nat /\ Filled \in Nat
  <2> DEFINE a == age * Refill
             b == age' * Refill
  <2>1. a \in Nat /\ b \in Nat /\ b <= a + Refill
      BY <1>3
  <2>2. Filled' = IF tokens + b < Capacity THEN tokens + b ELSE Capacity
      BY <1>4
  <2>3. Filled = IF tokens + a < Capacity THEN tokens + a ELSE Capacity
      BY <1>5
  <2> HIDE DEF a, b
  <2> QED BY <1>2, <2>1, <2>2, <2>3, CapacityType
<1>7. CASE open'
  <2>1. count' = count /\ span' = span + 1 /\ span \in Nat /\ count \in Nat
      BY <1>7 DEF LimiterTick, LimiterInv, LimiterTypeOK
  <2>2. span' * Refill = span * Refill + Refill /\ span * Refill \in Nat /\ count * Token \in Nat
      BY <2>1, Successor, CapacityType
  <2>3. count * Token + Filled <= Capacity + span * Refill
      BY DEF LimiterInv, Ledger
  <2>4. count' * Token + Filled' <= Capacity + span' * Refill
    <3> DEFINE c == count * Token
               s == span * Refill
    <3>1. count' * Token = c /\ span' * Refill = s + Refill
        BY <2>1, <2>2
    <3>2. c \in Nat /\ s \in Nat /\ c + Filled <= Capacity + s
        BY <2>2, <2>3
    <3> HIDE DEF c, s
    <3> QED BY <1>6, <3>1, <3>2, CapacityType
  <2>5. Ledger'
      BY <2>4, <1>4 DEF Ledger, Capacity
  <2> QED BY <1>1, <2>5 DEF LimiterInv
<1>8. CASE ~open'
  <2>1. count' = 0 /\ span' = 0
      BY <1>8 DEF LimiterTick
  <2>2. count' * Token = 0 /\ span' * Refill = 0
      BY <2>1, CapacityType
  <2>3. Ledger'
      BY <1>6, <2>2, CapacityType DEF Ledger
  <2> QED BY <1>1, <2>3 DEF LimiterInv
<1> QED BY <1>7, <1>8

\* A window opens on a bucket that is at most full.
LEMMA OpenLimiter ==
    ASSUME LimiterInv, OpenWindow PROVE LimiterInv'
<1>1. LimiterTypeOK'
    BY LimiterAssumption DEF LimiterInv, LimiterTypeOK, OpenWindow, bucket, callers
<1>2. Filled' = Filled /\ Filled \in 0 .. Capacity
    BY FilledType DEF LimiterInv, OpenWindow, bucket, Filled, Refilled
<1>3. count' * Token = 0 /\ span' * Refill = 0
    BY CapacityType DEF OpenWindow
<1>4. Ledger'
    BY <1>2, <1>3, CapacityType DEF Ledger
<1> QED BY <1>1, <1>4 DEF LimiterInv

\* The types and the ledger hold always.
THEOREM LimiterHolds == LimiterSpec => []LimiterInv
<1>1. LimiterInv /\ [LimiterNext]_limiterVars => LimiterInv'
  <2> SUFFICES ASSUME LimiterInv, [LimiterNext]_limiterVars PROVE LimiterInv'
      OBVIOUS
  <2>1. CASE UNCHANGED limiterVars
      BY <2>1 DEF limiterVars, bucket, callers, observer, LimiterInv, LimiterTypeOK,
                  Ledger, Filled, Refilled, Capacity
  <2>2. CASE \E t \in Threads : Call(t) \/ Step(t)
      BY <2>2, CallLimiter, TakeLimiter, SleepLimiter, WakeLimiter DEF Step
  <2>3. CASE LimiterTick
      BY <2>3, TickLimiter
  <2>4. CASE OpenWindow
      BY <2>4, OpenLimiter
  <2> QED BY <2>1, <2>2, <2>3, <2>4 DEF LimiterNext
<1> QED BY <1>1, InitLimiter, PTL DEF LimiterSpec

\* Type correctness of the limiter.
THEOREM LimiterTypeCorrect == LimiterSpec => []LimiterTypeOK
<1>1. LimiterInv => LimiterTypeOK
    BY DEF LimiterInv
<1> QED BY <1>1, LimiterHolds, PTL

\* The ledger bounds the calls let through.
LEMMA LimiterBound == LimiterInv => WindowBound
<1> SUFFICES ASSUME LimiterInv PROVE WindowBound
    OBVIOUS
<1>1. Filled \in Nat
    BY FilledType, CapacityType DEF LimiterInv
<1>2. count * Token \in Nat /\ span * Refill \in Nat
    BY Successor, CapacityType DEF LimiterInv, LimiterTypeOK
<1> QED BY <1>1, <1>2, CapacityType DEF LimiterInv, Ledger, WindowBound

\* In every window of time the calls let through are at most a full bucket and
\* what the window refilled, for every rate and number of threads.
THEOREM WindowIsBounded == LimiterSpec => []WindowBound
BY LimiterBound, LimiterHolds, PTL

-------------------------------------------------------------------------------
(***************************************************************************)
(* A bulk call on its own submits one job at most and returns how it       *)
(* ended, for every number of retries, interval and deadline.              *)
(***************************************************************************)

States == {"pending", "running", "completed", "unprocessable"}

\* While the POST may be retried nothing was accepted; a call that polls has
\* its one job.
JobInv ==
    /\ pc \in {"post", "poll", "done", "timeout", "error", "escape"}
    /\ attempt \in 0 .. MaxRetries
    /\ jobs \in Seq(States) /\ Len(jobs) <= 1
    /\ since \in 0 .. Interval /\ left \in 0 .. Timeout
    /\ pc = "post" => jobs = <<>> /\ uuid = None
    /\ pc \in {"poll", "done", "timeout"} => Len(jobs) = 1 /\ uuid = 1
    /\ pc \in {"error", "escape"} => uuid \in {None} \cup DOMAIN jobs
    /\ result \in {None, "completed", "unprocessable"}
    /\ pc = "done" => result = jobs[1] /\ Terminal(result)

\* What _send makes of an answer; a mutation is retried on 429 only.
LEMMA AttemptOutcome ==
    ASSUME NEW method, NEW n \in 0 .. MaxRetries, NEW answer \in Answers
    PROVE  LET then == AfterAttempt(method, n, answer)
           IN  /\ then \in {"return", "retry", "escape", "error"}
               /\ then = "return" <=> answer = "ok"
               /\ then = "retry" => /\ n + 1 \in 0 .. MaxRetries
                                    /\ method = "POST" => answer = "429"
<1>1. answer = "ok" => ~retry_allowed(method, answer)
    BY DEF retry_allowed, Transient
<1>2. answer = "broken" => ~retry_allowed(method, answer)
    BY DEF retry_allowed, Transient
<1>3. CASE answer = "ok"
    BY <1>1, <1>3 DEF AfterAttempt
<1>4. CASE answer # "ok" /\ retry_allowed(method, answer) /\ MayRetry(n)
  <2>1. AfterAttempt(method, n, answer) = "retry"
      BY <1>2, <1>4 DEF AfterAttempt
  <2>2. n + 1 \in 0 .. MaxRetries
      BY <1>4, RetriesAssumption DEF MayRetry
  <2>3. method = "POST" => answer = "429"
      BY <1>4 DEF retry_allowed
  <2> QED BY <1>4, <2>1, <2>2, <2>3
<1>5. CASE answer # "ok" /\ ~(retry_allowed(method, answer) /\ MayRetry(n))
    BY <1>5 DEF AfterAttempt
<1> QED BY <1>3, <1>4, <1>5

LEMMA InitJob == Init => JobInv
BY RetriesAssumption, JobAssumption DEF Init, JobInv, States

\* Submitting the batch: a retry follows a 429 only, so nothing was accepted.
LEMMA PostJob ==
    ASSUME JobInv, Post
    PROVE  JobInv'
<1>1. PICK answer \in Answers : \E accepted \in MayBeAccepted(answer) :
          LET then == AfterAttempt("POST", attempt, answer)
          IN  /\ jobs' = IF accepted THEN Append(jobs, "pending") ELSE jobs
              /\ attempt' = IF then = "retry" THEN attempt + 1 ELSE 0
              /\ pc' = CASE then = "retry" -> "post"
                         [] then = "return" -> "poll"
                         [] OTHER -> then
              /\ uuid' = IF then = "return" THEN Len(jobs') ELSE None
    BY DEF Post
<1>2. PICK accepted \in MayBeAccepted(answer) :
          LET then == AfterAttempt("POST", attempt, answer)
          IN  /\ jobs' = IF accepted THEN Append(jobs, "pending") ELSE jobs
              /\ attempt' = IF then = "retry" THEN attempt + 1 ELSE 0
              /\ pc' = CASE then = "retry" -> "post"
                         [] then = "return" -> "poll"
                         [] OTHER -> then
              /\ uuid' = IF then = "return" THEN Len(jobs') ELSE None
    BY <1>1
<1> DEFINE then == AfterAttempt("POST", attempt, answer)
<1>3. jobs = <<>> /\ attempt \in 0 .. MaxRetries /\ pc = "post" /\ result' = result
      /\ since' = since /\ left' = Timeout
    BY DEF JobInv, Post
<1>4. /\ then \in {"return", "retry", "escape", "error"}
      /\ then = "return" <=> answer = "ok"
      /\ then = "retry" => attempt + 1 \in 0 .. MaxRetries /\ answer = "429"
    BY <1>3, AttemptOutcome
<1>5. /\ answer = "ok" => accepted
      /\ answer = "429" => ~accepted
    BY DEF MayBeAccepted
<1> HIDE DEF then
<1>6. /\ jobs' \in Seq(States) /\ Len(jobs') <= 1
      /\ then = "return" => Len(jobs') = 1
      /\ then = "retry" => jobs' = <<>>
  <2>1. Append(<<>>, "pending") = <<"pending">>
      OBVIOUS
  <2>2. jobs' = IF accepted THEN <<"pending">> ELSE <<>>
      BY <1>2, <1>3, <2>1
  <2>3. /\ <<>> \in Seq(States) /\ <<"pending">> \in Seq(States)
        /\ Len(<<>>) = 0 /\ Len(<<"pending">>) = 1
      BY DEF States
  <2> QED BY <1>4, <1>5, <2>2, <2>3
<1>7. /\ then = "retry" => pc' = "post" /\ attempt' = attempt + 1 /\ uuid' = None
      /\ then = "return" => pc' = "poll" /\ attempt' = 0 /\ uuid' = Len(jobs')
      /\ then \in {"escape", "error"} => pc' = then /\ attempt' = 0 /\ uuid' = None
    BY <1>2, <1>4 DEF then
<1>8. /\ pc' \in {"post", "poll", "error", "escape"} /\ attempt' \in 0 .. MaxRetries
      /\ pc' = "post" => jobs' = <<>> /\ uuid' = None
      /\ pc' = "poll" => Len(jobs') = 1 /\ uuid' = 1
      /\ pc' \in {"error", "escape"} => uuid' = None
  <2>1. CASE then = "retry"
      BY <1>4, <1>6, <1>7, <2>1
  <2>2. CASE then = "return"
      BY <1>6, <1>7, <2>2, RetriesAssumption
  <2>3. CASE then \in {"escape", "error"}
      BY <1>7, <2>3, RetriesAssumption
  <2> QED BY <1>4, <2>1, <2>2, <2>3
<1>9. since' \in 0 .. Interval /\ left' \in 0 .. Timeout
    BY <1>3, JobAssumption DEF JobInv
<1> QED BY <1>3, <1>6, <1>8, <1>9 DEF JobInv

\* Polling: what a call returns is the final state of its job.
LEMMA PollJob ==
    ASSUME JobInv, Poll
    PROVE  JobInv'
<1>1. PICK answer \in Answers :
          LET then == AfterAttempt("GET", attempt, answer)
              next == AfterPoll(jobs[uuid])
          IN  /\ attempt' = IF then = "retry" THEN attempt + 1 ELSE 0
              /\ since' = IF then = "return" THEN 0 ELSE since
              /\ pc' = CASE then = "retry" -> "poll"
                         [] then = "return" -> next
                         [] OTHER -> then
              /\ result' = IF then = "return" /\ next = "done" THEN jobs[uuid] ELSE None
    BY DEF Poll
<1> DEFINE then == AfterAttempt("GET", attempt, answer)
           next == AfterPoll(jobs[uuid])
<1>2. /\ pc = "poll" /\ attempt \in 0 .. MaxRetries /\ uuid = 1 /\ Len(jobs) = 1
      /\ jobs \in Seq(States) /\ left \in 0 .. Timeout
      /\ uuid' = uuid /\ jobs' = jobs /\ left' = left
    BY DEF JobInv, Poll
<1>3. /\ then \in {"return", "retry", "escape", "error"}
      /\ then = "retry" => attempt + 1 \in 0 .. MaxRetries
    BY <1>2, AttemptOutcome
<1>4. next \in {"done", "timeout", "poll"} /\ (next = "done" => Terminal(jobs[1]))
    BY <1>2, JobAssumption DEF AfterPoll
<1>5. Terminal(jobs[1]) => jobs[1] \in {"completed", "unprocessable"}
    BY DEF Terminal
<1> HIDE DEF then, next
<1>6. attempt' \in 0 .. MaxRetries /\ since' \in 0 .. Interval
    BY <1>1, <1>3, RetriesAssumption, JobAssumption DEF then, JobInv
<1>7. /\ then = "retry" => pc' = "poll" /\ result' = None
      /\ then = "return" => pc' = next /\ result' = IF next = "done" THEN jobs[1] ELSE None
      /\ then \in {"escape", "error"} => pc' = then /\ result' = None
    BY <1>1, <1>2 DEF then, next
<1>8. pc' = "done" => result' = jobs'[1] /\ Terminal(result')
    BY <1>2, <1>3, <1>4, <1>7
<1>9. result' \in {None, "completed", "unprocessable"}
    BY <1>3, <1>4, <1>5, <1>7
<1>10. pc' \in {"poll", "done", "timeout", "error", "escape"}
    BY <1>3, <1>4, <1>7
<1>11. uuid' \in DOMAIN jobs'
    BY <1>2
<1> QED BY <1>2, <1>6, <1>8, <1>9, <1>10, <1>11 DEF JobInv

\* CardTrader moves only jobs that have not ended.
LEMMA RunJob ==
    ASSUME JobInv, NEW j \in DOMAIN jobs, JobRuns(j)
    PROVE  JobInv'
<1>1. /\ jobs' \in Seq(States) /\ Len(jobs') = Len(jobs)
      /\ DOMAIN jobs' = DOMAIN jobs
    BY DEF JobInv, JobRuns, States
<1>2. j = 1
    BY DEF JobInv
<1>3. pc # "done"
    BY <1>2 DEF JobInv, JobRuns, Terminal
<1>4. pc # "post"
    BY DEF JobInv
<1> QED BY <1>1, <1>3, <1>4 DEF JobInv, JobRuns

LEMMA TickJob ==
    ASSUME JobInv, Tick
    PROVE  JobInv'
<1>1. since' \in 0 .. Interval /\ left' \in 0 .. Timeout
    BY JobAssumption DEF JobInv, Tick
<1> QED BY <1>1 DEF JobInv, Tick

LEMMA JobStep == JobInv /\ [Next]_vars => JobInv'
<1> SUFFICES ASSUME JobInv, [Next]_vars
             PROVE  JobInv'
    OBVIOUS
<1>1. CASE Post
    BY <1>1, PostJob
<1>2. CASE Poll
    BY <1>2, PollJob
<1>3. CASE Tick
    BY <1>3, TickJob
<1>4. ASSUME NEW j \in DOMAIN jobs, JobRuns(j) PROVE JobInv'
    BY <1>4, RunJob
<1>5. CASE Ended \/ UNCHANGED vars
    BY <1>5 DEF Ended, JobInv, vars
<1> QED BY <1>1, <1>2, <1>3, <1>4, <1>5 DEF Next

THEOREM JobHolds == Spec => []JobInv
<1> QED BY InitJob, JobStep, PTL DEF Spec

\* Every variable of a bulk call keeps its type; in particular no request is
\* retried beyond ct_http_max_retries.
THEOREM JobTypeCorrect == Spec => []TypeOK
<1>1. JobInv => TypeOK
  <2> SUFFICES ASSUME JobInv PROVE TypeOK
      OBVIOUS
  <2>1. \A j \in DOMAIN jobs : jobs[j] \in States
      BY DEF JobInv
  <2>2. uuid \in {None} \cup DOMAIN jobs
    <3>1. CASE pc = "post"
        BY <3>1 DEF JobInv
    <3>2. CASE pc \in {"poll", "done", "timeout"}
      <4>1. uuid = 1 /\ Len(jobs) = 1 /\ jobs \in Seq(States)
          BY <3>2 DEF JobInv
      <4> QED BY <4>1
    <3>3. CASE pc \in {"error", "escape"}
        BY <3>3 DEF JobInv
    <3> QED BY <3>1, <3>2, <3>3 DEF JobInv
  <2>3. pc \in {"poll", "done", "timeout"} => uuid # None
      BY JobAssumption DEF JobInv
  <2> QED BY <2>1, <2>2, <2>3 DEF JobInv, TypeOK, States
<1> QED BY <1>1, JobHolds, PTL

\* However often the POST is retried, and whichever answers are lost,
\* CardTrader never accepts a batch twice.
THEOREM BatchAcceptedOnce == Spec => []OneJobPerCall
<1>1. JobInv => OneJobPerCall
    BY DEF JobInv, OneJobPerCall
<1> QED BY <1>1, JobHolds, PTL

\* wait_for_job returns how the job ended.
THEOREM ReturnsFinalState == Spec => []OutcomeIsFinal
<1>1. JobInv => OutcomeIsFinal
    BY DEF JobInv, OutcomeIsFinal
<1> QED BY <1>1, JobHolds, PTL

\* A call times out only on a job that had not ended when it was last asked.
THEOREM TimesOutOnUnfinished == Spec => GivesUpOnUnfinishedOnly
<1>1. JobInv /\ [Next]_vars => [pc = "poll" /\ pc' = "timeout" => jobs[uuid] \in {"pending", "running"}]_vars
  <2> SUFFICES ASSUME JobInv, Next, pc = "poll", pc' = "timeout"
               PROVE  jobs[uuid] \in {"pending", "running"}
      OBVIOUS
  <2>1. Poll
      BY DEF Next, Post, JobRuns, Tick, Ended
  <2>2. ~Terminal(jobs[uuid])
      BY <2>1 DEF Poll, AfterPoll, AfterAttempt
  <2>3. jobs[uuid] \in States
      BY DEF JobInv
  <2> QED BY <2>2, <2>3 DEF Terminal, States
<1> QED BY <1>1, JobHolds, PTL DEF Spec, GivesUpOnUnfinishedOnly

-------------------------------------------------------------------------------
(***************************************************************************)
(* The invariants of the fetch and of the requests of the process.         *)
(***************************************************************************)

\* The keys under way.
Running == {k \in 1 .. Total : future[k] = "running"}

\* A key has sent a request for each retry, and one more once it has its last
\* answer; it is queued only while the fetch goes on.
KeyOK(k) ==
    /\ k > next_index => future[k] = "none"
    /\ future[k] = "queued" => fetch_pc = "loop"
    /\ sent[k] = IF future[k] \in {"done", "failed"}
                 THEN fetch_attempt[k] + 1 ELSE fetch_attempt[k]
    /\ future[k] = "failed" /\ last[k] \in Transient => fetch_attempt[k] = MaxRetries

FetchTypes ==
    /\ fetch_pc \in {"loop", "returned", "raised"}
    /\ next_index \in 0 .. Total
    /\ future \in [1 .. Total -> {"none", "queued", "running", "done", "failed", "cancelled"}]
    /\ fetch_attempt \in [1 .. Total -> 0 .. MaxRetries]
    /\ sent \in [1 .. Total -> Nat] /\ last \in [1 .. Total -> Answers]

\* While the fetch submits, the keys submitted are those it waits for and those
\* whose offers it has.
FetchInv ==
    /\ FetchTypes
    /\ fetch_pc = "loop" => offers \cup in_flight = 1 .. next_index
    /\ fetch_pc = "returned" => offers = 1 .. Total
    /\ \A k \in 1 .. Total : KeyOK(k)
    /\ Cardinality(Running) <= Workers

\* Threads that hold a token for a request they have yet to send.
Holders == {t \in Threads : Requesting(t) /\ thread[t] = "idle" /\ Acquired(t) > Sent(t)}

\* A thread acquires one token before each attempt, and only to send it.
TokensInv ==
    /\ call \in {"fetch", "bulk"}
    /\ call = "fetch" => \A t \in Threads :
          /\ Acquired(t) \in {sent[t], sent[t] + 1}
          /\ Acquired(t) = sent[t] + 1 => future[t] = "running"
    /\ call = "bulk" /\ pc = "post" => Acquired(BulkThread) \in {attempt, attempt + 1}

\* What was sent in a window, and what may still be sent with the tokens held,
\* is what was let through in it and a token for each worker from before it.
RequestsInv ==
    /\ requests \in Nat /\ (~open => requests = 0)
    /\ requests + Cardinality(Holders) <= count + Workers

-------------------------------------------------------------------------------
(***************************************************************************)
(* The parts                                                               *)
(***************************************************************************)

\* A step of the process is a step of each part, or nothing to it.
LEMMA StepOfParts ==
    ASSUME [ProcessNext]_processVars
    PROVE  [LimiterNext]_limiterVars /\ [Next]_vars /\ [Fetch!Next]_(Fetch!vars)
<1> DEFINE Goal == [LimiterNext]_limiterVars /\ [Next]_vars /\ [Fetch!Next]_(Fetch!vars)
<1>1. UNCHANGED fetchVars => UNCHANGED Fetch!vars
    BY DEF fetchVars, Fetch!vars, Fetch!caller
<1>2. ASSUME FetchMain PROVE Goal
    BY <1>2 DEF FetchMain, InFetch, Fetch!Next
<1>3. ASSUME NEW k \in Threads, FetchBegin(k) PROVE Goal
    BY <1>3, ProcessAssumption DEF FetchBegin, InFetch, Fetch!Next, Fetch!Keys
<1>4. ASSUME NEW k \in Threads, FetchAttempt(k) PROVE Goal
    BY <1>4, ProcessAssumption DEF FetchAttempt, SendAttempt, Fetch!Next, Fetch!Keys
<1>5. ASSUME BulkPost PROVE Goal
    BY <1>1, <1>5 DEF BulkPost, SendAttempt, Next
<1>6. ASSUME BulkPoll PROVE Goal
    BY <1>1, <1>6 DEF BulkPoll, InBulk, Next
<1>7. ASSUME BulkJobRuns PROVE Goal
    BY <1>1, <1>7 DEF BulkJobRuns, InBulk, Next
<1>8. ASSUME NEW t \in Threads, Acquire(t) PROVE Goal
    BY <1>1, <1>8 DEF Acquire, LimiterNext
<1>9. ASSUME NEW t \in Threads, Limiter(t) PROVE Goal
    BY <1>1, <1>9 DEF Limiter, LimiterNext
<1>10. ASSUME ClockTick PROVE Goal
    BY <1>1, <1>10 DEF ClockTick, LimiterNext, Next
<1>11. ASSUME Observe PROVE Goal
    BY <1>1, <1>11 DEF Observe, LimiterNext
<1>12. CASE UNCHANGED processVars
    BY <1>1, <1>12 DEF processVars
<1> QED
    BY <1>2, <1>3, <1>4, <1>5, <1>6, <1>7, <1>8, <1>9, <1>10, <1>11, <1>12
    DEF ProcessNext, CallerStep, ThreadStep

\* The process implements the limiter, the bulk call and the fetch: what is
\* proved of each holds while threads, retries and the clock interleave.
THEOREM ProcessRunsItsParts == ProcessSpec => LimiterSpec /\ Spec /\ Fetch!Spec
<1>1. ProcessInit => LimiterInit /\ Init /\ Fetch!Init
    BY DEF ProcessInit
<1> QED BY <1>1, StepOfParts, PTL DEF ProcessSpec, LimiterSpec, Spec, Fetch!Spec

-------------------------------------------------------------------------------
(***************************************************************************)
(* The fetch                                                               *)
(***************************************************************************)

LEMMA RunningIsFinite ==
    /\ IsFiniteSet(1 .. Total) /\ Running \subseteq 1 .. Total
    /\ IsFiniteSet(Running) /\ Cardinality(Running) \in Nat
<1>1. IsFiniteSet(1 .. Total) /\ Running \subseteq 1 .. Total
    BY ProcessAssumption, FS_Interval DEF Running
<1> QED BY <1>1, FS_Subset, FS_CardinalityType

LEMMA InitFetch == Fetch!Init => FetchInv
<1> SUFFICES ASSUME Fetch!Init PROVE FetchInv
    OBVIOUS
<1> USE DEF Fetch!Init, Fetch!Keys
<1>1. FetchTypes
    BY ProcessAssumption, RetriesAssumption DEF FetchTypes, Answers, Transient
<1>2. \A k \in 1 .. Total : KeyOK(k)
    BY DEF KeyOK
<1>3. Cardinality(Running) <= Workers
  <2>1. Running = {}
      BY DEF Running
  <2> QED BY <2>1, FS_EmptySet, ProcessAssumption
<1>4. offers \cup in_flight = 1 .. next_index
    BY DEF Fetch!Init
<1> QED BY <1>1, <1>2, <1>3, <1>4 DEF FetchInv

LEMMA SubmitFetch ==
    ASSUME FetchInv, Fetch!Submit PROVE FetchInv'
<1>1. /\ fetch_pc = "loop" /\ fetch_pc' = "loop"
      /\ next_index < Total /\ next_index' = next_index + 1
      /\ in_flight' = in_flight \cup {next_index + 1} /\ offers' = offers
      /\ future' = [future EXCEPT ![next_index + 1] = "queued"]
      /\ UNCHANGED <<fetch_attempt, sent, last>>
    BY DEF Fetch!Submit, Fetch!Room
<1>2. FetchTypes /\ next_index + 1 \in 1 .. Total
    BY <1>1, ProcessAssumption DEF FetchInv, FetchTypes
<1>3. FetchTypes'
    BY <1>1, <1>2 DEF FetchTypes
<1>4. offers' \cup in_flight' = 1 .. next_index'
  <2>1. offers \cup in_flight = 1 .. next_index
      BY <1>1 DEF FetchInv
  <2>2. 1 .. next_index + 1 = (1 .. next_index) \cup {next_index + 1}
      BY <1>2 DEF FetchTypes
  <2>3. offers' \cup in_flight' = (1 .. next_index) \cup {next_index + 1}
      BY <1>1, <2>1
  <2> QED BY <1>1, <2>2, <2>3
<1>5. future[next_index + 1] = "none"
    BY <1>2 DEF FetchInv, KeyOK, FetchTypes
<1>6. ASSUME NEW k \in 1 .. Total PROVE KeyOK(k)'
    BY <1>1, <1>2, <1>5, ProcessAssumption DEF FetchInv, FetchTypes, KeyOK
<1>7. Running' = Running
    BY <1>1, <1>2, <1>5 DEF Running, FetchTypes
<1> QED BY <1>1, <1>3, <1>4, <1>6, <1>7 DEF FetchInv

LEMMA CollectFetch ==
    ASSUME FetchInv, Fetch!Collect PROVE FetchInv'
<1>1. /\ fetch_pc = "loop" /\ fetch_pc' = "loop"
      /\ UNCHANGED <<next_index, future, fetch_attempt, sent, last>>
      /\ offers' = offers \cup Fetch!Finished /\ in_flight' = in_flight \ Fetch!Finished
    BY DEF Fetch!Collect
<1>2. offers' \cup in_flight' = offers \cup in_flight
    BY <1>1 DEF Fetch!Finished
<1>3. Running' = Running
    BY <1>1 DEF Running
<1> QED BY <1>1, <1>2, <1>3 DEF FetchInv, FetchTypes, KeyOK

\* cancel_futures takes the queue away, and nothing else.
LEMMA ShutdownKeeps ==
    ASSUME FetchInv, future' = Fetch!Shutdown, fetch_pc' \in {"returned", "raised"},
           UNCHANGED <<next_index, fetch_attempt, sent, last>>
    PROVE  /\ FetchTypes' /\ Running' = Running
           /\ \A k \in 1 .. Total : KeyOK(k)'
<1>1. /\ future' \in [1 .. Total -> {"none", "queued", "running", "done", "failed", "cancelled"}]
      /\ \A k \in 1 .. Total :
            future'[k] = IF future[k] = "queued" THEN "cancelled" ELSE future[k]
    BY DEF Fetch!Shutdown, Fetch!Keys, FetchInv, FetchTypes
<1>2. FetchTypes'
    BY <1>1 DEF FetchInv, FetchTypes
<1>3. Running' = Running
    BY <1>1 DEF Running
<1>4. ASSUME NEW k \in 1 .. Total PROVE KeyOK(k)'
    BY <1>1 DEF FetchInv, KeyOK
<1> QED BY <1>2, <1>3, <1>4

LEMMA CollectFailureFetch ==
    ASSUME FetchInv, Fetch!CollectFailure PROVE FetchInv'
<1>1. /\ fetch_pc' = "raised" /\ future' = Fetch!Shutdown
      /\ UNCHANGED <<next_index, fetch_attempt, sent, last>>
    BY DEF Fetch!CollectFailure
<1>2. FetchTypes' /\ Running' = Running /\ \A k \in 1 .. Total : KeyOK(k)'
    BY <1>1, ShutdownKeeps
<1> QED BY <1>1, <1>2 DEF FetchInv

\* The loop is over: what was submitted is all there is, and all of it is in.
LEMMA FinishFetch ==
    ASSUME FetchInv, Fetch!Finish PROVE FetchInv'
<1>1. /\ fetch_pc = "loop" /\ next_index = Total /\ in_flight = {}
      /\ fetch_pc' = "returned" /\ future' = Fetch!Shutdown /\ offers' = offers
      /\ UNCHANGED <<next_index, fetch_attempt, sent, last>>
    BY DEF Fetch!Finish, Fetch!LoopOver
<1>2. FetchTypes' /\ Running' = Running /\ \A k \in 1 .. Total : KeyOK(k)'
    BY <1>1, ShutdownKeeps
<1>3. offers' = 1 .. Total
    BY <1>1 DEF FetchInv
<1> QED BY <1>1, <1>2, <1>3 DEF FetchInv

\* A worker is free, so one more runs.
LEMMA BeginFetch ==
    ASSUME FetchInv, NEW k \in 1 .. Total, Fetch!Begin(k) PROVE FetchInv'
<1>1. /\ future[k] = "queued" /\ Cardinality(Running) < Workers
      /\ future' = [future EXCEPT ![k] = "running"]
      /\ UNCHANGED <<fetch_pc, next_index, in_flight, offers, fetch_attempt, sent, last>>
  <2>1. {j \in Fetch!Keys : future[j] = "running"} = Running
      BY DEF Fetch!Keys, Running
  <2>2. Fetch!Cardinality(Running) = Cardinality(Running)
      BY DEF Fetch!Cardinality, Cardinality
  <2> QED BY <2>1, <2>2 DEF Fetch!Begin, Fetch!caller
<1>2. FetchTypes'
    BY <1>1 DEF FetchInv, FetchTypes
<1>3. ASSUME NEW j \in 1 .. Total PROVE KeyOK(j)'
    BY <1>1 DEF FetchInv, FetchTypes, KeyOK
<1>4. Running' = Running \cup {k} /\ k \notin Running
    BY <1>1 DEF FetchInv, FetchTypes, Running
<1>5. Cardinality(Running') = Cardinality(Running) + 1
    BY <1>4, RunningIsFinite, FS_AddElement
<1>6. Cardinality(Running') <= Workers
    BY <1>1, <1>5, RunningIsFinite, ProcessAssumption
<1> QED BY <1>1, <1>2, <1>3, <1>6 DEF FetchInv

\* An attempt at a key answers it, or leads to the next one.
LEMMA AttemptFetch ==
    ASSUME FetchInv, NEW k \in 1 .. Total, Fetch!Attempt(k) PROVE FetchInv'
<1>1. PICK answer \in Answers :
         LET then == AfterAttempt("GET", fetch_attempt[k], answer)
         IN  /\ last' = [last EXCEPT ![k] = answer]
             /\ fetch_attempt' = IF then = "retry"
                                 THEN [fetch_attempt EXCEPT ![k] = @ + 1] ELSE fetch_attempt
             /\ future' = [future EXCEPT ![k] =
                              CASE then = "return" -> "done"
                                [] then = "retry" -> "running"
                                [] OTHER -> "failed"]
    BY DEF Fetch!Attempt, Fetch!AfterAttempt, Fetch!retry_allowed, Fetch!MayRetry,
           Fetch!Answers, Fetch!Transient,
           AfterAttempt, retry_allowed, MayRetry, Answers, Transient
<1>2. /\ future[k] = "running" /\ sent' = [sent EXCEPT ![k] = @ + 1]
      /\ UNCHANGED <<fetch_pc, next_index, in_flight, offers>>
    BY DEF Fetch!Attempt, Fetch!caller
<1> DEFINE then == AfterAttempt("GET", fetch_attempt[k], answer)
<1>3. FetchTypes /\ fetch_attempt[k] \in 0 .. MaxRetries /\ sent[k] = fetch_attempt[k]
    BY <1>2 DEF FetchInv, FetchTypes, KeyOK
<1>4. /\ then \in {"return", "retry", "escape", "error"}
      /\ then = "retry" => fetch_attempt[k] + 1 \in 0 .. MaxRetries
    BY <1>3, AttemptOutcome
<1>5. answer \in Transient /\ then \notin {"return", "retry"} => fetch_attempt[k] = MaxRetries
  <2>1. answer \in Transient => answer # "ok" /\ retry_allowed("GET", answer)
      BY DEF Transient, retry_allowed
  <2>2. answer # "ok" /\ retry_allowed("GET", answer) /\ MayRetry(fetch_attempt[k])
           => then = "retry"
    <3> DEFINE allowed == retry_allowed("GET", answer) /\ MayRetry(fetch_attempt[k])
    <3>1. answer # "broken" \/ ~retry_allowed("GET", answer)
        BY DEF Transient, retry_allowed
    <3>2. then = CASE answer = "ok" -> "return" [] answer # "ok" /\ allowed -> "retry"
                   [] answer = "broken" -> "escape" [] OTHER -> "error"
        BY DEF AfterAttempt
    <3> HIDE DEF allowed, then
    <3>3. answer # "ok" /\ answer # "broken" /\ allowed => then = "retry"
        BY <3>2
    <3> QED BY <3>1, <3>3 DEF allowed
  <2> HIDE DEF then
  <2> QED BY <1>3, <2>1, <2>2, RetriesAssumption DEF MayRetry
<1> HIDE DEF then
<1>6. FetchTypes'
  <2>1. /\ last' \in [1 .. Total -> Answers] /\ sent' \in [1 .. Total -> Nat]
        /\ fetch_attempt' \in [1 .. Total -> 0 .. MaxRetries]
      BY <1>1, <1>2, <1>3, <1>4 DEF FetchTypes, then
  <2>2. future' \in [1 .. Total -> {"none", "queued", "running", "done", "failed", "cancelled"}]
      BY <1>1, <1>3 DEF FetchTypes
  <2> QED BY <1>2, <1>3, <2>1, <2>2 DEF FetchTypes
<1>7. /\ future'[k] = CASE then = "return" -> "done" [] then = "retry" -> "running"
                       [] OTHER -> "failed"
      /\ fetch_attempt'[k] = IF then = "retry" THEN fetch_attempt[k] + 1 ELSE fetch_attempt[k]
      /\ sent'[k] = fetch_attempt[k] + 1 /\ last'[k] = answer
    BY <1>1, <1>2, <1>3 DEF FetchTypes, then
<1>8. \A j \in (1 .. Total) \ {k} :
         /\ future'[j] = future[j] /\ fetch_attempt'[j] = fetch_attempt[j]
         /\ sent'[j] = sent[j] /\ last'[j] = last[j]
    BY <1>1, <1>2, <1>3 DEF FetchTypes
<1>9. KeyOK(k)'
  <2>1. ~ (k > next_index')
      BY <1>2 DEF FetchInv, KeyOK
  <2> QED BY <1>4, <1>5, <1>7, <2>1 DEF KeyOK
<1>10. ASSUME NEW j \in (1 .. Total) \ {k} PROVE KeyOK(j)'
    BY <1>2, <1>8 DEF FetchInv, KeyOK
<1>11. Cardinality(Running') <= Workers
  <2>1. Running' \subseteq Running
      BY <1>2, <1>8 DEF Running
  <2>2. Cardinality(Running') <= Cardinality(Running) /\ Cardinality(Running') \in Nat
      BY <2>1, RunningIsFinite, FS_Subset, FS_CardinalityType
  <2> QED BY <2>2, RunningIsFinite, ProcessAssumption DEF FetchInv
<1> QED BY <1>2, <1>6, <1>9, <1>10, <1>11 DEF FetchInv

LEMMA FetchStep == FetchInv /\ [Fetch!Next]_(Fetch!vars) => FetchInv'
<1> SUFFICES ASSUME FetchInv, [Fetch!Next]_(Fetch!vars) PROVE FetchInv'
    OBVIOUS
<1>1. CASE UNCHANGED Fetch!vars
    BY <1>1 DEF Fetch!vars, Fetch!caller, FetchInv, FetchTypes, KeyOK, Running
<1>2. CASE Fetch!Ended
    BY <1>1, <1>2 DEF Fetch!Ended
<1>3. CASE Fetch!Main
    BY <1>3, SubmitFetch, CollectFetch, CollectFailureFetch, FinishFetch DEF Fetch!Main
<1>4. CASE \E k \in 1 .. Total : Fetch!Begin(k) \/ Fetch!Attempt(k)
    BY <1>4, BeginFetch, AttemptFetch
<1> QED BY <1>1, <1>2, <1>3, <1>4 DEF Fetch!Next, Fetch!Keys

LEMMA FetchHolds == ProcessSpec => []FetchInv
BY ProcessRunsItsParts, InitFetch, FetchStep, PTL DEF Fetch!Spec

\* fetch_offers_for_keys returns the offers of every key, or raises, however
\* its workers interleave.
THEOREM FetchIsWhole == ProcessSpec => []ReturnsEveryKey
<1>1. FetchInv => ReturnsEveryKey
    BY DEF FetchInv, ReturnsEveryKey, Fetch!ReturnsEveryKey, Fetch!Keys
<1> QED BY <1>1, FetchHolds, PTL

\* A key fails on a transient answer only after every retry.
THEOREM TransientsMeetEveryRetry == ProcessSpec => []TransientFaultsAreRetried
<1>1. FetchInv => TransientFaultsAreRetried
  <2> SUFFICES ASSUME FetchInv, NEW k \in 1 .. Total, future[k] = "failed",
                      last[k] \in Transient
               PROVE  sent[k] = MaxRetries + 1
      BY DEF TransientFaultsAreRetried, Fetch!TransientFaultsAreRetried, Fetch!Keys,
             Fetch!Transient, Transient
  <2> QED BY DEF FetchInv, KeyOK
<1> QED BY <1>1, FetchHolds, PTL

\* Once the fetch has failed its queue is empty, and no worker takes up a key.
THEOREM FailureStopsTheFetch == ProcessSpec => NoFetchAfterFailure
<1> DEFINE Stopped == fetch_pc = "raised" =>
               \A k \in 1 .. Total : future[k] # "running" => future'[k] # "running"
<1>1. FetchInv /\ [Fetch!Next]_(Fetch!vars) => [Stopped]_(Fetch!vars)
  <2> SUFFICES ASSUME FetchInv, Fetch!Next, fetch_pc = "raised",
                      NEW k \in 1 .. Total, future[k] # "running"
               PROVE  future'[k] # "running"
      OBVIOUS
  <2>1. ~Fetch!Main
      BY DEF Fetch!Main, Fetch!Submit, Fetch!Collect, Fetch!CollectFailure, Fetch!Finish
  <2>2. ASSUME NEW j \in 1 .. Total, Fetch!Begin(j) PROVE FALSE
      BY <2>2 DEF Fetch!Begin, FetchInv, KeyOK
  <2>3. ASSUME NEW j \in 1 .. Total, Fetch!Attempt(j) PROVE future'[k] # "running"
    <3>1. future[j] = "running" /\ \E x : future' = [future EXCEPT ![j] = x]
        BY <2>3 DEF Fetch!Attempt
    <3> QED BY <3>1 DEF FetchInv, FetchTypes
  <2>4. CASE Fetch!Ended
      BY <2>4 DEF Fetch!Ended, Fetch!vars
  <2> QED BY <2>1, <2>2, <2>3, <2>4 DEF Fetch!Next, Fetch!Keys
<1>2. Fetch!Spec /\ []FetchInv => [][Stopped]_(Fetch!vars)
    BY <1>1, PTL DEF Fetch!Spec
<1>3. [][Stopped]_(Fetch!vars) => NoFetchAfterFailure
    BY DEF NoFetchAfterFailure, Fetch!NoFetchAfterFailure, Fetch!Keys
<1> QED BY <1>2, <1>3, FetchHolds, ProcessRunsItsParts, PTL

-------------------------------------------------------------------------------
(***************************************************************************)
(* Tokens and requests                                                     *)
(***************************************************************************)

\* A subset of the keys under way, or of the one bulk thread, is no larger than
\* the pool.
LEMMA FitsThePool ==
    ASSUME NEW S, NEW R \in SUBSET (1 .. Total), Cardinality(R) <= Workers,
           S \subseteq R \/ S \subseteq {BulkThread}
    PROVE  IsFiniteSet(S) /\ Cardinality(S) \in Nat /\ Cardinality(S) <= Workers
<1>1. CASE S \subseteq R
  <2>0. IsFiniteSet(1 .. Total)
      BY ProcessAssumption, FS_Interval
  <2>1. IsFiniteSet(R) /\ Cardinality(R) \in Nat
      BY <2>0, FS_Subset, FS_CardinalityType
  <2>2. IsFiniteSet(S) /\ Cardinality(S) \in Nat /\ Cardinality(S) <= Cardinality(R)
      BY <1>1, <2>1, FS_Subset, FS_CardinalityType
  <2> QED BY <2>1, <2>2, ProcessAssumption
<1>2. CASE S \subseteq {BulkThread}
  <2>1. IsFiniteSet({BulkThread}) /\ Cardinality({BulkThread}) = 1
      BY FS_Singleton
  <2>2. IsFiniteSet(S) /\ Cardinality(S) \in Nat /\ Cardinality(S) <= 1
      BY <1>2, <2>1, FS_Subset, FS_CardinalityType
  <2> QED BY <2>2, ProcessAssumption
<1> QED BY <1>1, <1>2

LEMMA HoldersFit ==
    ASSUME FetchInv, call \in {"fetch", "bulk"}
    PROVE  IsFiniteSet(Holders) /\ Cardinality(Holders) \in Nat
           /\ Cardinality(Holders) <= Workers
<1>1. Holders \subseteq Running \/ Holders \subseteq {BulkThread}
    BY ProcessAssumption DEF Holders, Requesting, Running
<1>2. Running \in SUBSET (1 .. Total) /\ Cardinality(Running) <= Workers
    BY DEF Running, FetchInv
<1> QED BY <1>1, <1>2, FitsThePool

LEMMA HoldersStillFit ==
    ASSUME FetchInv', call' \in {"fetch", "bulk"}
    PROVE  IsFiniteSet(Holders') /\ Cardinality(Holders') \in Nat
           /\ Cardinality(Holders') <= Workers
<1>1. Holders' \subseteq Running' \/ Holders' \subseteq {BulkThread}
    BY ProcessAssumption DEF Holders, Requesting, Running
<1>2. Running' \in SUBSET (1 .. Total) /\ Cardinality(Running') <= Workers
    BY DEF Running, FetchInv
<1> QED BY <1>1, <1>2, FitsThePool

ProcessInv == LimiterTypeOK /\ JobInv /\ FetchInv /\ TokensInv /\ RequestsInv

\* What a step may do to the tokens held and the requests sent: take a token,
\* spend one, or neither; or the window closes or opens.
Takes == \E t \in Threads :
    /\ Holders' \subseteq Holders \cup {t} /\ UNCHANGED <<open, requests>>
    /\ count' = IF open THEN count + 1 ELSE count
Spends == \E t \in Holders :
    /\ Holders' \subseteq Holders \ {t} /\ UNCHANGED <<open, count>>
    /\ requests' = IF open THEN requests + 1 ELSE requests
Keeps == Holders' \subseteq Holders /\ UNCHANGED <<open, count, requests>>
Closes == requests' = 0

LEMMA RequestsStep ==
    ASSUME ProcessInv, LimiterTypeOK', FetchInv', call' \in {"fetch", "bulk"},
           Takes \/ Spends \/ Keeps \/ Closes
    PROVE  RequestsInv'
<1> DEFINE h == Cardinality(Holders)
           n == Cardinality(Holders')
<1>1. h \in Nat /\ h <= Workers /\ IsFiniteSet(Holders)
    BY HoldersFit DEF ProcessInv, TokensInv
<1>2. n \in Nat /\ n <= Workers
    BY HoldersStillFit
<1>3. /\ count \in Nat /\ count' \in Nat /\ open \in BOOLEAN /\ Workers \in Nat
      /\ requests \in Nat /\ (~open => requests = 0) /\ requests + h <= count + Workers
    BY ProcessAssumption DEF ProcessInv, LimiterTypeOK, RequestsInv
<1>4. CASE Takes
  <2>1. PICK t \in Threads : /\ Holders' \subseteq Holders \cup {t}
                             /\ UNCHANGED <<open, requests>>
                             /\ count' = IF open THEN count + 1 ELSE count
      BY <1>4 DEF Takes
  <2>2. IsFiniteSet(Holders \cup {t}) /\ Cardinality(Holders \cup {t}) \in Nat
        /\ Cardinality(Holders \cup {t}) <= h + 1
    <3> DEFINE more == Cardinality(Holders \cup {t})
    <3>1. IsFiniteSet(Holders \cup {t}) /\ more = IF t \in Holders THEN h ELSE h + 1
        BY <1>1, FS_AddElement
    <3> HIDE DEF more, h
    <3>2. more \in Nat /\ more <= h + 1
        BY <1>1, <3>1
    <3> QED BY <3>1, <3>2 DEF more
  <2>3. n <= Cardinality(Holders \cup {t})
      BY <2>1, <2>2, FS_Subset
  <2>4. n <= h + 1
      BY <1>1, <1>2, <2>2, <2>3
  <2> HIDE DEF h, n
  <2>5. requests' + n <= count' + Workers
      BY <1>1, <1>2, <1>3, <2>1, <2>4
  <2> QED BY <1>3, <2>1, <2>5 DEF RequestsInv, n
<1>5. CASE Spends
  <2>1. PICK t \in Holders : /\ Holders' \subseteq Holders \ {t}
                             /\ UNCHANGED <<open, count>>
                             /\ requests' = IF open THEN requests + 1 ELSE requests
      BY <1>5 DEF Spends
  <2>2. IsFiniteSet(Holders \ {t}) /\ Cardinality(Holders \ {t}) = h - 1
      BY <1>1, FS_RemoveElement
  <2>3. n <= Cardinality(Holders \ {t})
      BY <2>1, <2>2, FS_Subset
  <2>4. n <= h - 1
      BY <2>2, <2>3
  <2> HIDE DEF h, n
  <2>5. requests' \in Nat /\ requests' + n <= count' + Workers
      BY <1>1, <1>2, <1>3, <2>1, <2>4
  <2> QED BY <1>3, <2>1, <2>5 DEF RequestsInv, n
<1>6. CASE Keeps
  <2>1. n <= h
      BY <1>1, <1>6, FS_Subset DEF Keeps
  <2>2. UNCHANGED <<open, count, requests>>
      BY <1>6 DEF Keeps
  <2> HIDE DEF h, n
  <2>3. requests' + n <= count' + Workers
      BY <1>1, <1>2, <1>3, <2>1, <2>2
  <2> QED BY <1>3, <2>2, <2>3 DEF RequestsInv, n
<1>7. CASE Closes
  <2>1. requests' = 0
      BY <1>7 DEF Closes
  <2> HIDE DEF h, n
  <2>2. n \in Nat /\ count' \in Nat /\ Workers \in Nat /\ n <= Workers
      BY <1>2, <1>3
  <2>3. \A a, b, c \in Nat : a <= c => 0 + a <= b + c
      OBVIOUS
  <2>4. requests' + n <= count' + Workers
      BY <2>1, <2>2, <2>3
  <2> QED BY <2>1, <2>4 DEF RequestsInv, n
<1> QED BY <1>4, <1>5, <1>6, <1>7

\* The tokens a thread acquired are a number.
LEMMA AcquiredType ==
    ASSUME LimiterTypeOK, FetchTypes
    PROVE  \A t \in Threads : Acquired(t) \in Nat /\ sent[t] \in Nat
BY LimiterAssumption, ProcessAssumption DEF LimiterTypeOK, FetchTypes, Acquired

LEMMA HeldTypes ==
    ASSUME ProcessInv
    PROVE  /\ call \in {"fetch", "bulk"} /\ Threads = 1 .. Total /\ BulkThread \in Threads
           /\ FetchTypes /\ thread \in [Threads -> {"idle", "acquire", "sleep"}]
           /\ \A t \in Threads : Acquired(t) \in Nat /\ sent[t] \in Nat
           /\ todo \in [Threads -> 0 .. Calls] /\ Calls \in Nat
           /\ attempt \in Nat
<1>1. FetchTypes /\ LimiterTypeOK /\ call \in {"fetch", "bulk"} /\ attempt \in Nat
    BY RetriesAssumption DEF ProcessInv, FetchInv, TokensInv, JobInv
<1>2. Threads = 1 .. Total /\ BulkThread \in Threads
    BY ProcessAssumption DEF BulkThread
<1> QED BY <1>1, <1>2, AcquiredType, LimiterAssumption DEF LimiterTypeOK

\* A thread that sends a request has its token in hand: one more than it sent.
LEMMA TokenInHand ==
    ASSUME ProcessInv, NEW t \in Threads, SendAttempt(t),
           call = "fetch" \/ (t = BulkThread /\ pc = "post")
    PROVE  t \in Holders /\ Acquired(t) = Sent(t) + 1
<1>1. /\ Requesting(t) /\ thread[t] = "idle" /\ Acquired(t) >= Sent(t) + 1
    BY DEF SendAttempt, TokensDue
<1>2. CASE call = "fetch"
  <2>1. Sent(t) = sent[t] /\ Acquired(t) \in {sent[t], sent[t] + 1}
        /\ sent[t] \in Nat /\ Acquired(t) \in Nat
      BY <1>2, HeldTypes DEF ProcessInv, TokensInv, Sent
  <2>2. Acquired(t) = Sent(t) + 1 /\ Acquired(t) > Sent(t)
      BY <1>1, <2>1
  <2> QED BY <1>1, <2>2 DEF Holders
<1>3. CASE call # "fetch"
  <2>1. Sent(t) = attempt /\ Acquired(t) \in {attempt, attempt + 1}
        /\ Acquired(t) \in Nat /\ attempt \in Nat
      BY <1>3, HeldTypes DEF ProcessInv, TokensInv, Sent
  <2>2. Acquired(t) = Sent(t) + 1 /\ Acquired(t) > Sent(t)
      BY <1>1, <2>1
  <2> QED BY <1>1, <2>2 DEF Holders
<1> QED BY <1>2, <1>3

\* A thread that starts to acquire holds no token for its request yet.
LEMMA AcquireTokens ==
    ASSUME ProcessInv, NEW t \in Threads, Acquire(t)
    PROVE  TokensInv' /\ Keeps
<1>1. /\ Requesting(t) /\ Acquired(t) < Sent(t) + 1
      /\ thread' = [thread EXCEPT ![t] = "acquire"] /\ todo' = [todo EXCEPT ![t] = @ - 1]
      /\ UNCHANGED <<call, pc, attempt, future, sent, open, count, requests>>
    BY DEF Acquire, TokensDue, Call, vars, fetchVars, observer
<1>2. /\ \A u \in Threads \ {t} : Acquired(u)' = Acquired(u)
      /\ Acquired(t)' = Acquired(t) + 1
    BY <1>1, HeldTypes DEF Acquired
<1>3. TokensInv'
  <2>1. CASE call = "fetch"
    <3>1. future[t] = "running" /\ Acquired(t) < sent[t] + 1
        BY <1>1, <2>1 DEF Requesting, Sent
    <3>2. Acquired(t) \in {sent[t], sent[t] + 1} /\ Acquired(t) \in Nat /\ sent[t] \in Nat
        BY <2>1, HeldTypes DEF ProcessInv, TokensInv
    <3>3. Acquired(t)' = sent[t] + 1
        BY <1>2, <3>1, <3>2
    <3> QED BY <1>1, <1>2, <2>1, <3>1, <3>3 DEF ProcessInv, TokensInv
  <2>2. CASE call # "fetch"
    <3>1. t = BulkThread /\ pc = "post" /\ Acquired(t) < attempt + 1
        BY <1>1, <2>2 DEF Requesting, Sent
    <3>2. /\ call = "bulk" /\ Acquired(t) \in {attempt, attempt + 1}
          /\ Acquired(t) \in Nat /\ attempt \in Nat
        BY <2>2, <3>1, HeldTypes DEF ProcessInv, TokensInv
    <3>3. Acquired(t)' = attempt + 1
        BY <1>2, <3>1, <3>2
    <3> QED BY <1>1, <2>2, <3>1, <3>2, <3>3 DEF TokensInv
  <2> QED BY <2>1, <2>2
<1>4. Holders' \subseteq Holders
  <2> SUFFICES ASSUME NEW u \in Threads, Requesting(u)', thread'[u] = "idle",
                      Acquired(u)' > Sent(u)'
               PROVE  u \in Holders
      BY DEF Holders
  <2>1. u # t
      BY <1>1, HeldTypes
  <2>2. thread[u] = "idle" /\ Acquired(u)' = Acquired(u)
      BY <1>1, <1>2, <2>1, HeldTypes
  <2>3. Requesting(u) /\ Sent(u)' = Sent(u)
      BY <1>1 DEF Requesting, Sent
  <2> QED BY <2>2, <2>3 DEF Holders
<1> QED BY <1>1, <1>3, <1>4 DEF Keeps

\* The limiter hands out a token, or none.
LEMMA LimiterTokens ==
    ASSUME ProcessInv, NEW t \in Threads, Limiter(t)
    PROVE  TokensInv' /\ (Takes \/ Keeps)
<1>1. UNCHANGED <<call, pc, attempt, future, sent, requests, todo, open>>
    BY DEF Limiter, Step, Take, Sleep, Wake, vars, fetchVars, bucket, observer
<1>2. /\ \A u \in Threads : Acquired(u)' = Acquired(u) /\ Sent(u)' = Sent(u)
      /\ \A u \in Threads : Requesting(u)' <=> Requesting(u)
    BY <1>1 DEF Acquired, Sent, Requesting
<1>3. TokensInv'
    BY <1>1, <1>2, HeldTypes DEF ProcessInv, TokensInv
<1>4. CASE Take(t)
  <2>1. /\ thread' = [thread EXCEPT ![t] = "idle"]
        /\ count' = IF open THEN count + 1 ELSE count
      BY <1>4 DEF Take
  <2>2. Holders' \subseteq Holders \cup {t}
      BY <1>2, <2>1, HeldTypes DEF Holders
  <2> QED BY <1>1, <1>3, <2>1, <2>2 DEF Takes
<1>5. CASE Sleep(t) \/ Wake(t)
  <2>1. /\ \E s \in {"acquire", "sleep"} : thread' = [thread EXCEPT ![t] = s]
        /\ count' = count
      BY <1>5 DEF Sleep, Wake, observer
  <2>2. Holders' \subseteq Holders
      BY <1>2, <2>1, HeldTypes DEF Holders
  <2> QED BY <1>1, <1>3, <2>1, <2>2 DEF Keeps
<1> QED BY <1>4, <1>5 DEF Limiter, Step

\* An attempt at a key spends its thread's token.
LEMMA FetchAttemptTokens ==
    ASSUME ProcessInv, NEW k \in Threads, FetchAttempt(k)
    PROVE  TokensInv' /\ Spends
<1>1. /\ call = "fetch" /\ SendAttempt(k) /\ future[k] = "running"
      /\ sent' = [sent EXCEPT ![k] = @ + 1]
      /\ \E x : future' = [future EXCEPT ![k] = x]
      /\ requests' = IF open THEN requests + 1 ELSE requests
      /\ UNCHANGED <<call, thread, todo, open, count>>
    BY DEF FetchAttempt, SendAttempt, Fetch!Attempt, limiterVars, callers, observer
<1>2. k \in Holders /\ Acquired(k) = sent[k] + 1
    BY <1>1, TokenInHand DEF Sent
<1>3. /\ \A u \in Threads : Acquired(u)' = Acquired(u)
      /\ sent'[k] = sent[k] + 1
      /\ \A u \in Threads \ {k} : sent'[u] = sent[u] /\ future'[u] = future[u]
    BY <1>1, HeldTypes DEF Acquired, FetchTypes
<1>4. TokensInv'
  <2>1. Acquired(k)' = sent'[k] /\ sent'[k] \in Nat
      BY <1>2, <1>3, HeldTypes
  <2>2. sent'[k] # sent'[k] + 1
      BY <2>1
  <2>3. ASSUME NEW u \in Threads
        PROVE  /\ Acquired(u)' \in {sent'[u], sent'[u] + 1}
               /\ Acquired(u)' = sent'[u] + 1 => future'[u] = "running"
    <3>1. CASE u = k
        BY <2>1, <2>2, <3>1
    <3>2. CASE u # k
        BY <1>1, <1>3, <3>2 DEF ProcessInv, TokensInv
    <3> QED BY <3>1, <3>2
  <2> QED BY <1>1, <2>3 DEF TokensInv
<1>5. Holders' \subseteq Holders \ {k}
  <2> SUFFICES ASSUME NEW u \in Threads, Requesting(u)', thread'[u] = "idle",
                      Acquired(u)' > Sent(u)'
               PROVE  u \in Holders \ {k}
      BY DEF Holders
  <2>1. Sent(u)' = sent'[u] /\ Sent(u) = sent[u]
      BY <1>1 DEF Sent
  <2>2. u # k
    <3>1. Acquired(k)' = sent[k] + 1 /\ sent'[k] = sent[k] + 1 /\ sent[k] \in Nat
        BY <1>2, <1>3, HeldTypes
    <3> QED BY <2>1, <3>1
  <2>3. Requesting(u) /\ thread[u] = "idle" /\ Acquired(u) > Sent(u)
      BY <1>1, <1>3, <2>1, <2>2 DEF Requesting
  <2> QED BY <2>2, <2>3 DEF Holders
<1> QED BY <1>1, <1>2, <1>4, <1>5 DEF Spends

\* So does an attempt at the POST.
LEMMA BulkPostTokens ==
    ASSUME ProcessInv, BulkPost
    PROVE  TokensInv' /\ Spends
<1>1. /\ call = "bulk" /\ pc = "post" /\ SendAttempt(BulkThread)
      /\ pc' = "post" => attempt' = attempt + 1
      /\ requests' = IF open THEN requests + 1 ELSE requests
      /\ UNCHANGED <<call, thread, todo, open, count>>
  <2>1. pc' = "post" => attempt' = attempt + 1
    <3>1. PICK answer \in Answers :
             LET then == AfterAttempt("POST", attempt, answer)
             IN  /\ attempt' = IF then = "retry" THEN attempt + 1 ELSE 0
                 /\ pc' = CASE then = "retry" -> "post"
                            [] then = "return" -> "poll"
                            [] OTHER -> then
        BY DEF BulkPost, Post
    <3> DEFINE then == AfterAttempt("POST", attempt, answer)
    <3>2. then \in {"return", "retry", "escape", "error"}
        BY AttemptOutcome DEF ProcessInv, JobInv
    <3> HIDE DEF then
    <3> QED BY <3>1, <3>2 DEF then
  <2> QED BY <2>1 DEF BulkPost, Post, SendAttempt, limiterVars, callers, observer
<1>2. BulkThread \in Threads /\ BulkThread \in Holders /\ Acquired(BulkThread) = attempt + 1
    BY <1>1, HeldTypes, TokenInHand DEF Sent
<1>3. \A u \in Threads : Acquired(u)' = Acquired(u)
    BY <1>1 DEF Acquired
<1>4. TokensInv'
    BY <1>1, <1>2, <1>3 DEF TokensInv
<1>5. Holders' \subseteq Holders \ {BulkThread}
  <2> SUFFICES ASSUME NEW u \in Threads, Requesting(u)', Acquired(u)' > Sent(u)'
               PROVE  FALSE
      BY DEF Holders
  <2>1. u = BulkThread /\ pc' = "post" /\ Sent(u)' = attempt'
      BY <1>1 DEF Requesting, Sent
  <2>2. Acquired(u)' = attempt + 1 /\ Sent(u)' = attempt + 1 /\ attempt \in Nat
      BY <1>1, <1>2, <1>3, <2>1, HeldTypes
  <2> QED BY <2>2
<1> QED BY <1>1, <1>2, <1>4, <1>5 DEF Spends

\* A fetch that submits, collects or is over touches no thread that runs, and
\* a key taken up has neither token nor request.
LEMMA FetchOtherTokens ==
    ASSUME ProcessInv, FetchMain \/ \E k \in Threads : FetchBegin(k)
    PROVE  TokensInv' /\ Keeps
<1>1. /\ call = "fetch" /\ UNCHANGED <<call, thread, todo, sent, open, count, requests>>
      /\ \A u \in Threads : future[u] = "running" => future'[u] = "running"
      /\ \A u \in Threads : future'[u] = "running" => future[u] \in {"running", "queued"}
  <2> USE HeldTypes
  <2>1. CASE FetchMain
    <3>1. call = "fetch" /\ Fetch!Main
          /\ UNCHANGED <<call, thread, todo, open, count, requests>>
        BY <2>1 DEF FetchMain, InFetch, limiterVars, callers, observer
    <3>2. CASE Fetch!Submit
      <4>0. /\ next_index < Total /\ UNCHANGED sent
            /\ future' = [future EXCEPT ![next_index + 1] = "queued"]
          BY <3>2 DEF Fetch!Submit, Fetch!Room
      <4>1. next_index + 1 \in 1 .. Total
        <5>1. next_index \in 0 .. Total /\ Total \in Nat
            BY ProcessAssumption DEF FetchTypes
        <5> QED BY <4>0, <5>1
      <4>2. future[next_index + 1] = "none"
          BY <4>1 DEF ProcessInv, FetchInv, FetchTypes, KeyOK
      <4> QED BY <3>1, <4>0, <4>1, <4>2 DEF FetchTypes
    <3>3. CASE Fetch!Collect
        BY <3>1, <3>3 DEF Fetch!Collect
    <3>4. CASE Fetch!CollectFailure \/ Fetch!Finish
      <4>1. future' = Fetch!Shutdown /\ UNCHANGED sent
          BY <3>4 DEF Fetch!CollectFailure, Fetch!Finish
      <4>2. \A u \in 1 .. Total :
               future'[u] = IF future[u] = "queued" THEN "cancelled" ELSE future[u]
          BY <4>1 DEF Fetch!Shutdown, Fetch!Keys
      <4> QED BY <3>1, <4>1, <4>2
    <3> QED BY <3>1, <3>2, <3>3, <3>4 DEF Fetch!Main
  <2>2. ASSUME NEW k \in Threads, FetchBegin(k)
        PROVE  /\ call = "fetch"
               /\ UNCHANGED <<call, thread, todo, sent, open, count, requests>>
               /\ future[k] = "queued" /\ future' = [future EXCEPT ![k] = "running"]
      BY <2>2 DEF FetchBegin, InFetch, Fetch!Begin, limiterVars, callers, observer
  <2> QED BY <2>1, <2>2 DEF FetchTypes
<1>2. \A u \in Threads : Acquired(u)' = Acquired(u) /\ Sent(u)' = Sent(u) /\ Sent(u) = sent[u]
    BY <1>1 DEF Acquired, Sent
<1>3. TokensInv'
    BY <1>1, <1>2 DEF ProcessInv, TokensInv
<1>4. Holders' \subseteq Holders
  <2> SUFFICES ASSUME NEW u \in Threads, Requesting(u)', thread'[u] = "idle",
                      Acquired(u)' > Sent(u)'
               PROVE  u \in Holders
      BY DEF Holders
  <2>1. Acquired(u) > sent[u] /\ Acquired(u) \in {sent[u], sent[u] + 1} /\ sent[u] \in Nat
      BY <1>1, <1>2, HeldTypes DEF ProcessInv, TokensInv
  <2>2. Acquired(u) = sent[u] + 1
      BY <2>1
  <2>3. Requesting(u)
      BY <1>1, <2>2 DEF ProcessInv, TokensInv, Requesting
  <2> QED BY <1>1, <1>2, <2>1, <2>3 DEF Holders
<1> QED BY <1>1, <1>3, <1>4 DEF Keeps

\* Polls and jobs need no token; the clock and the observer move none.
LEMMA IdleTokens ==
    ASSUME ProcessInv,
           UNCHANGED <<call, thread, todo, future, sent>>,
           pc' = "post" => pc = "post" /\ attempt' = attempt
    PROVE  TokensInv' /\ Holders' \subseteq Holders
<1>1. \A u \in Threads : Acquired(u)' = Acquired(u)
    BY DEF Acquired
<1>2. TokensInv'
    BY <1>1, HeldTypes DEF ProcessInv, TokensInv
<1>3. Holders' \subseteq Holders
    BY <1>1, HeldTypes DEF Holders, Requesting, Sent
<1> QED BY <1>2, <1>3

LEMMA OtherTokens ==
    ASSUME ProcessInv,
           BulkPoll \/ BulkJobRuns \/ ClockTick \/ Observe \/ UNCHANGED processVars
    PROVE  TokensInv' /\ (Keeps \/ Closes)
<1>1. CASE BulkPoll
  <2>1. /\ UNCHANGED <<call, thread, todo, future, sent, open, count, requests>>
        /\ pc' # "post"
    <3>1. PICK answer \in Answers :
             pc' = CASE AfterAttempt("GET", attempt, answer) = "retry" -> "poll"
                     [] AfterAttempt("GET", attempt, answer) = "return" -> AfterPoll(jobs[uuid])
                     [] OTHER -> AfterAttempt("GET", attempt, answer)
        BY <1>1 DEF BulkPoll, Poll
    <3>2. AfterAttempt("GET", attempt, answer) \in {"return", "retry", "escape", "error"}
        BY AttemptOutcome DEF ProcessInv, JobInv
    <3>3. AfterPoll(jobs[uuid]) \in {"done", "timeout", "poll"}
        BY JobAssumption DEF AfterPoll, ProcessInv, JobInv
    <3>4. pc' # "post"
        BY <3>1, <3>2, <3>3
    <3> QED BY <1>1, <3>4 DEF BulkPoll, InBulk, limiterVars, callers, observer, fetchVars
  <2> QED BY <2>1, IdleTokens DEF Keeps
<1>2. CASE BulkJobRuns
  <2>1. /\ UNCHANGED <<call, thread, todo, future, sent, open, count, requests>>
        /\ UNCHANGED <<pc, attempt>>
      BY <1>2 DEF BulkJobRuns, JobRuns, InBulk, limiterVars, callers, observer, fetchVars
  <2> QED BY <2>1, IdleTokens DEF Keeps
<1>3. CASE ClockTick
  <2>1. /\ UNCHANGED <<call, thread, todo, future, sent>> /\ UNCHANGED <<pc, attempt>>
        /\ open' = (open /\ span < MaxSpan)
        /\ count' = IF open' THEN count ELSE 0
        /\ requests' = IF open' THEN requests ELSE 0
      BY <1>3 DEF ClockTick, LimiterTick, Tick, vars, fetchVars
  <2>2. TokensInv' /\ Holders' \subseteq Holders
      BY <2>1, IdleTokens
  <2>3. CASE open'
      BY <2>1, <2>2, <2>3 DEF Keeps, ProcessInv, LimiterTypeOK
  <2>4. CASE ~open'
      BY <2>1, <2>2, <2>4 DEF Closes
  <2> QED BY <2>3, <2>4
<1>4. CASE Observe
  <2>1. /\ UNCHANGED <<call, thread, todo, future, sent>> /\ UNCHANGED <<pc, attempt>>
        /\ requests' = 0
      BY <1>4 DEF Observe, OpenWindow, callers, vars, fetchVars
  <2> QED BY <2>1, IdleTokens DEF Closes
<1>5. CASE UNCHANGED processVars
  <2>1. /\ UNCHANGED <<call, thread, todo, future, sent, open, count, requests>>
        /\ UNCHANGED <<pc, attempt>>
      BY <1>5 DEF processVars, limiterVars, callers, observer, vars, fetchVars
  <2> QED BY <2>1, IdleTokens DEF Keeps
<1> QED BY <1>1, <1>2, <1>3, <1>4, <1>5

LEMMA InitProcess == ProcessInit => TokensInv /\ RequestsInv
<1> SUFFICES ASSUME ProcessInit PROVE TokensInv /\ RequestsInv
    OBVIOUS
<1>1. /\ call \in {"fetch", "bulk"} /\ requests = 0 /\ open = FALSE /\ count = 0
      /\ attempt = 0 /\ \A t \in Threads : sent[t] = 0 /\ future[t] = "none"
      /\ \A t \in Threads : Acquired(t) = 0
    BY ProcessAssumption, LimiterAssumption
    DEF ProcessInit, LimiterInit, Init, Fetch!Init, Fetch!Keys, Acquired
<1>2. Holders = {}
    BY <1>1 DEF Holders, Sent
<1>3. TokensInv
    BY <1>1, ProcessAssumption DEF TokensInv, BulkThread
<1>4. Cardinality(Holders) = 0
    BY <1>2, FS_EmptySet
<1> QED BY <1>1, <1>3, <1>4, ProcessAssumption DEF RequestsInv

LEMMA ProcessStep ==
    ProcessInv /\ LimiterTypeOK' /\ FetchInv' /\ [ProcessNext]_processVars
        => TokensInv' /\ RequestsInv'
<1> SUFFICES ASSUME ProcessInv, LimiterTypeOK', FetchInv', [ProcessNext]_processVars
             PROVE  TokensInv' /\ RequestsInv'
    OBVIOUS
<1>1. TokensInv' /\ (Takes \/ Spends \/ Keeps \/ Closes)
    BY AcquireTokens, LimiterTokens, FetchAttemptTokens, BulkPostTokens, FetchOtherTokens,
       OtherTokens
    DEF ProcessNext, CallerStep, ThreadStep
<1>2. RequestsInv'
    BY <1>1, RequestsStep DEF TokensInv
<1> QED BY <1>1, <1>2

\* A larger number of tokens is as many units more.
LEMMA TokensAreUnits ==
    ASSUME NEW m \in Nat, NEW n \in Nat, NEW w \in Nat, m <= n + w
    PROVE  m * Token <= n * Token + w * Token
<1>1. PICK d \in Nat : n + w = m + d
  <2>1. n + w - m \in Nat /\ n + w = m + (n + w - m)
      OBVIOUS
  <2> QED BY <2>1
<1>2. Token \in Nat
    BY LimiterAssumption
<1>3. (n + w) * Token = n * Token + w * Token /\ (m + d) * Token = m * Token + d * Token
    BY <1>2
<1>4. d * Token \in Nat /\ m * Token \in Nat /\ n * Token \in Nat /\ w * Token \in Nat
    BY <1>2
<1> QED BY <1>1, <1>3, <1>4

\* What CardTrader sees of a process in any window of time, retries included:
\* at most a full bucket, what the window refilled, and one request a worker
\* that had its token from before.
THEOREM RequestsAreBounded == ProcessSpec => []RequestBound
<1>1. ProcessSpec => []LimiterInv /\ []JobInv /\ []FetchInv
    BY ProcessRunsItsParts, LimiterHolds, JobHolds, FetchHolds, PTL
<1>2. LimiterInv => LimiterTypeOK
    BY DEF LimiterInv
<1>3. ProcessSpec => [](TokensInv /\ RequestsInv)
  <2>1. LimiterTypeOK /\ JobInv /\ FetchInv /\ TokensInv /\ RequestsInv => ProcessInv
      BY DEF ProcessInv
  <2> QED BY <1>1, <1>2, <2>1, InitProcess, ProcessStep, PTL DEF ProcessSpec
<1>4. LimiterInv => WindowBound
    BY LimiterBound
<1>5. LimiterTypeOK /\ FetchInv /\ TokensInv /\ RequestsInv /\ WindowBound => RequestBound
  <2> SUFFICES ASSUME LimiterTypeOK, FetchInv, TokensInv, RequestsInv, WindowBound
               PROVE  RequestBound
      OBVIOUS
  <2>1. Cardinality(Holders) \in Nat
      BY HoldersFit DEF TokensInv
  <2>2. requests \in Nat /\ count \in Nat /\ Workers \in Nat
      BY ProcessAssumption DEF RequestsInv, LimiterTypeOK
  <2>3. requests <= count + Workers
      BY <2>1, <2>2 DEF RequestsInv
  <2>4. requests * Token <= count * Token + Workers * Token
      BY <2>2, <2>3, TokensAreUnits
  <2>5. /\ requests * Token \in Nat /\ count * Token \in Nat /\ Workers * Token \in Nat
        /\ Capacity + span * Refill \in Nat
    <3>1. Token \in Nat /\ Refill \in Nat /\ Capacity \in Nat /\ span \in Nat
        BY CapacityType DEF LimiterTypeOK
    <3> QED BY <2>2, <3>1
  <2> DEFINE a == requests * Token
             b == count * Token
             c == Workers * Token
             most == Capacity + span * Refill
  <2>6. a <= b + c /\ b <= most /\ a \in Nat /\ b \in Nat /\ c \in Nat /\ most \in Nat
      BY <2>4, <2>5 DEF WindowBound
  <2> HIDE DEF a, b, c, most
  <2>7. a <= most + c
      BY <2>6
  <2> QED BY <2>7 DEF RequestBound, a, c, most
<1> QED BY <1>1, <1>2, <1>3, <1>4, <1>5, PTL
=============================================================================
