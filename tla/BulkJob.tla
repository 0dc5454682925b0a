------------------------------ MODULE BulkJob ------------------------------
(***************************************************************************)
(* One bulk_update or bulk_create call as its callers make it: POST the    *)
(* batch, then wait_for_job polls the job that CardTrader runs meanwhile.  *)
(* Any request can fail, and a POST that fails may have been accepted.     *)
(*                                                                         *)
(* Time is counted in ticks of 0.35 s, three of which are the interval     *)
(* between polls.  Backoffs take any time, as full jitter may draw 0.      *)
(***************************************************************************)
EXTENDS HttpClient, Sequences

CONSTANTS
    Interval,   \* _JOB_POLL_MIN_INTERVAL_S, in ticks
    Timeout,    \* bulk_job_timeout_s, in ticks
    None

ASSUME JobAssumption == Interval \in Nat \ {0} /\ Timeout \in Nat /\ None \notin Nat

VARIABLES
    pc,        \* post, poll, done, timeout, error or escape
    attempt,   \* _send's parameter for the request under way
    uuid,      \* the job the answer named
    result,    \* the state wait_for_job returned
    jobs,      \* the states of the jobs CardTrader accepted from this call
    since,     \* ticks since the last poll was answered, up to Interval
    left       \* ticks to wait_for_job's deadline

vars == <<pc, attempt, uuid, result, jobs, since, left>>

Init ==
    /\ pc = "post" /\ attempt = 0 /\ uuid = None /\ result = None
    /\ jobs = <<>> /\ since = Interval /\ left = Timeout

-------------------------------------------------------------------------------
\* A failed POST may have been accepted, unless the answer was a 429.
MayBeAccepted(answer) ==
    CASE answer = "ok" -> {TRUE}
      [] answer = "429" -> {FALSE}
      [] OTHER -> {TRUE, FALSE}

Post ==
    /\ pc = "post"
    /\ \E answer \in Answers : \E accepted \in MayBeAccepted(answer) :
          LET then == AfterAttempt("POST", attempt, answer)
          IN  /\ jobs' = IF accepted THEN Append(jobs, "pending") ELSE jobs
              /\ attempt' = IF then = "retry" THEN attempt + 1 ELSE 0
              /\ pc' = CASE then = "retry" -> "post"
                         [] then = "return" -> "poll"
                         [] OTHER -> then
              /\ uuid' = IF then = "return" THEN Len(jobs') ELSE None
    /\ left' = Timeout
    /\ UNCHANGED <<result, since>>

\* CardTrader takes up a job and finishes it.
JobRuns(j) ==
    /\ \/ jobs[j] = "pending" /\ jobs' = [jobs EXCEPT ![j] = "running"]
       \/ jobs[j] = "running"
            /\ \E s \in {"completed", "unprocessable"} : jobs' = [jobs EXCEPT ![j] = s]
    /\ UNCHANGED <<pc, attempt, uuid, result, since, left>>

\* Mutant: a job that is running is as good as done.
TerminalOrRunning(state) == state # "pending"

Terminal(state) == state \in {"completed", "unprocessable"}

\* Mutant: the deadline comes before the answer.
AfterPollDeadlineFirst(state) ==
    CASE left = 0 -> "timeout" [] left > 0 /\ Terminal(state) -> "done" [] OTHER -> "poll"

\* A final state is returned, even past the deadline; past it, any other one
\* is the last.
AfterPoll(state) ==
    CASE Terminal(state) -> "done"
      [] ~Terminal(state) /\ left = 0 -> "timeout"
      [] ~Terminal(state) /\ left > 0 -> "poll"

\* get_job: the interval is kept before the first attempt, a retry follows the
\* backoff, and rate_limit is off.
Poll ==
    /\ pc = "poll"
    /\ attempt = 0 => since = Interval
    /\ \E answer \in Answers :
          LET then == AfterAttempt("GET", attempt, answer)
              next == AfterPoll(jobs[uuid])
          IN  /\ attempt' = IF then = "retry" THEN attempt + 1 ELSE 0
              /\ since' = IF then = "return" THEN 0 ELSE since
              /\ pc' = CASE then = "retry" -> "poll"
                         [] then = "return" -> next
                         [] OTHER -> then
              /\ result' = IF then = "return" /\ next = "done" THEN jobs[uuid] ELSE None
    /\ UNCHANGED <<uuid, jobs, left>>

Tick ==
    /\ pc \in {"post", "poll"}
    /\ since' = IF since < Interval THEN since + 1 ELSE since
    /\ left' = IF pc = "poll" /\ left > 0 THEN left - 1 ELSE left
    /\ UNCHANGED <<pc, attempt, uuid, result, jobs>>

Ended == pc \notin {"post", "poll"} /\ UNCHANGED vars

Next == Post \/ Poll \/ Tick \/ (\E j \in DOMAIN jobs : JobRuns(j)) \/ Ended

Spec == Init /\ [][Next]_vars

\* The clock runs, and the caller goes on: a request ends at its timeout.
\* CardTrader need never run the job.
FairSpec == Spec /\ WF_vars(Post) /\ WF_vars(Poll) /\ WF_vars(Tick)

-------------------------------------------------------------------------------
(***************************************************************************)
(* Properties                                                              *)
(***************************************************************************)

\* The variables have their types, and only a call whose POST was answered
\* knows a job.
TypeOK ==
    /\ pc \in {"post", "poll", "done", "timeout", "error", "escape"}
    /\ attempt \in 0 .. MaxRetries
    /\ \A j \in DOMAIN jobs : jobs[j] \in {"pending", "running", "completed", "unprocessable"}
    /\ uuid \in {None} \cup DOMAIN jobs
    /\ result \in {None, "completed", "unprocessable"}
    /\ since \in 0 .. Interval /\ left \in 0 .. Timeout
    /\ pc \in {"poll", "done", "timeout"} => uuid # None

\* A call never has a batch accepted twice, though 503s, lost answers and 429s
\* meet it: no price update or new listing is duplicated by a retry.
OneJobPerCall == Len(jobs) <= 1

\* What the call returns is how the job ended: apply never takes a job for
\* done, nor its batch for completed, while CardTrader may still change prices.
OutcomeIsFinal == pc = "done" => result = jobs[uuid] /\ Terminal(result)

\* wait_for_job does not give up on a job that had ended when it last asked,
\* however late that was.
GivesUpOnUnfinishedOnly ==
    [][pc = "poll" /\ pc' = "timeout" => jobs[uuid] \in {"pending", "running"}]_vars

\* The call ends although CardTrader may leave the job pending for ever.
CallEnds == <>(pc \notin {"post", "poll"})
===============================================================================
