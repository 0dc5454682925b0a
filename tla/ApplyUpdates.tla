----------------------------- MODULE ApplyUpdates -----------------------------
(***************************************************************************)
(* apply_plan_updates, as apply_handler (Lambda) and scripts/apply_plan.py *)
(* (command line) run it: export the inventory, drop the stale rows, send  *)
(* the rest in batches of bulk_update, wait for each CardTrader job and    *)
(* record its batch in the idempotency store.                              *)
(*                                                                         *)
(* Several invocations share one inventory: those of one run, where Step   *)
(* Functions retries Apply while the first invocation may be running       *)
(* still, and those of other runs, whose plans were made from exports of   *)
(* their own, hours or days apart.  Each can fail at any step; the seller  *)
(* edits prices, cards sell and jobs stay queued at CardTrader.            *)
(***************************************************************************)
EXTENDS Naturals, Sequences, SequencesExt, FiniteSets

CONSTANTS
    Plan,            \* run -> the UPDATE rows of its plan.jsonl, in order
    How,             \* run -> how it is applied: "lambda" or "cli"
    SafetyOk,        \* run -> safety_ok: "true", "false" or "missing"
    Stock,           \* listing id -> price and quantity at first, or None
    BatchSize,       \* bulk_update_batch_size
    Limits,          \* values of --limit (0: no limit)
    EditPrices,      \* prices the seller may set by hand
    MaxEdits,        \* bound on hand edits and sales
    MaxInvocations,  \* bound on invocations of apply
    None,            \* an absent listing or batch
    Torn             \* the content of a log whose writing was interrupted

\* Invocations are numbered as they start.
Invocations == 1 .. MaxInvocations
Runs == DOMAIN Plan
RowsOf(r) == ToSet(Plan[r])
AllRows == UNION {RowsOf(r) : r \in Runs}
IdsOf(rows) == {rows[i].id : i \in DOMAIN rows}
Ids == {row.id : row \in AllRows}

\* A plan row: the listing, the price and quantity the plan saw, the new price,
\* which is another one: a price that stays is no UPDATE row.
ASSUME PlanAssumption ==
    /\ How \in [Runs -> {"lambda", "cli"}]
    /\ SafetyOk \in [Runs -> {"true", "false", "missing"}]
    /\ BatchSize \in Nat \ {0}
    /\ \A r \in Runs :
          /\ Plan[r] \in Seq([id : Nat, prev : Nat, new : Nat, qty : Nat])
          /\ \A i, j \in DOMAIN Plan[r] : i # j => Plan[r][i].id # Plan[r][j].id
    /\ \A p \in AllRows : p.prev # p.new
    /\ Stock \in [Ids -> [price : Nat, qty : Nat] \cup {None}]
    /\ MaxInvocations \in Nat /\ Limits \subseteq Nat /\ EditPrices \subseteq Nat

\* Chunk numbers, the end of a run's batch ids, and what a store holds of them:
\* the listing_ids of each batch recorded as completed.
Indices(r) == 0 .. Len(Plan[r]) - 1
NothingCompleted(r) == [k \in Indices(r) |-> None]

VARIABLES
    \* CardTrader
    inventory,    \* listing id -> price and quantity, or None when gone
    jobs,         \* bulk_update jobs, by uuid (their place in the sequence)
    \* run -> its batches in DynamoDB, or in the file of the command line
    store,
    \* invocation ->
    pc,
    run,          \* the run whose plan it is given
    updates,      \* rows given to apply_plan_updates
    fresh,        \* rows that survived the stale check
    completed,    \* FileBatchIdempotencyStore._completed
    index,        \* chunk number of the batch at hand
    uuid,         \* its job
    result,       \* ApplyResult so far
    \* history
    setBy,        \* listing -> the job whose price it still has, or 0
    setAtExport,  \* invocation -> setBy when it exported
    edits

ctVars == <<inventory, jobs>>
localVars == <<run, updates, fresh, completed, index, uuid, result, setAtExport>>
history == <<setBy, edits>>
vars == <<ctVars, store, pc, localVars, history>>

\* ApplyResult: counts, the listings of batches skipped as completed, and of
\* those whose job said nothing of its rows.
NoResult == [stale |-> 0, ok |-> 0, error |-> 0, skipped |-> {}, uncounted |-> {}]
NothingSet == [x \in Ids |-> 0]

Init ==
    /\ inventory = Stock
    /\ jobs = <<>>
    /\ store = [r \in Runs |-> NothingCompleted(r)]
    /\ pc = [i \in Invocations |-> "ready"]
    /\ run = [i \in Invocations |-> None]
    /\ updates = [i \in Invocations |-> <<>>]
    /\ fresh = [i \in Invocations |-> <<>>]
    /\ completed = [i \in Invocations |-> None]
    /\ index = [i \in Invocations |-> 0]
    /\ uuid = [i \in Invocations |-> 0]
    /\ result = [i \in Invocations |-> NoResult]
    /\ setBy = NothingSet
    /\ setAtExport = [i \in Invocations |-> NothingSet]
    /\ edits = 0

Goto(i, label) == pc' = [pc EXCEPT ![i] = label]

\* The invocation is over and its memory is gone.
End(i) ==
    /\ Goto(i, "ended")
    /\ run' = [run EXCEPT ![i] = None]
    /\ updates' = [updates EXCEPT ![i] = <<>>]
    /\ fresh' = [fresh EXCEPT ![i] = <<>>]
    /\ completed' = [completed EXCEPT ![i] = None]
    /\ index' = [index EXCEPT ![i] = 0]
    /\ uuid' = [uuid EXCEPT ![i] = 0]
    /\ result' = [result EXCEPT ![i] = NoResult]
    /\ setAtExport' = [setAtExport EXCEPT ![i] = NothingSet]

-------------------------------------------------------------------------------
(***************************************************************************)
(* The gate in front of apply_plan_updates                                 *)
(***************************************************************************)

\* apply_handler refuses a plan whose safety_ok is False; _require_safety one
\* whose summary is missing or does not say True, unless --force-unsafe.
Allowed(r, force) ==
    IF How[r] = "lambda" THEN SafetyOk[r] # "false" ELSE SafetyOk[r] = "true" \/ force

Invoked(i) == pc[i] = "ready" /\ \A h \in Invocations : h < i => pc[h] # "ready"

Start(i, r, limit, force) ==
    /\ Invoked(i) /\ Allowed(r, force)
    /\ How[r] = "lambda" => limit = 0 /\ ~force
    /\ run' = [run EXCEPT ![i] = r]
    /\ updates' = [updates EXCEPT ![i] =
                      IF limit = 0 \/ limit > Len(Plan[r]) THEN Plan[r]
                      ELSE SubSeq(Plan[r], 1, limit)]
    /\ completed' = [completed EXCEPT ![i] = NothingCompleted(r)]
    /\ Goto(i, "export")
    /\ UNCHANGED <<ctVars, store, fresh, index, uuid, result, setAtExport, history>>

Refuse(i, r) ==
    /\ Invoked(i) /\ ~Allowed(r, FALSE)
    /\ Goto(i, "ended")
    /\ UNCHANGED <<ctVars, store, localVars, history>>

-------------------------------------------------------------------------------
(***************************************************************************)
(* apply_plan_updates                                                      *)
(***************************************************************************)

Max1(q) == IF q < 1 THEN 1 ELSE q

\* Mutant: the stale check compares quantities only.
IsFreshByQuantity(row) ==
    inventory[row.id] # None /\ Max1(inventory[row.id].qty) = Max1(row.qty)

\* A row is fresh while its listing has the price and the quantity the plan saw;
\* none and one copy are the same there.
IsFresh(row) ==
    /\ inventory[row.id] # None
    /\ inventory[row.id].price = row.prev
    /\ Max1(inventory[row.id].qty) = Max1(row.qty)

\* filter_stale_updates keeps the fresh rows, in order; kept[n] are those of
\* the first n rows.
FreshRows(rows) ==
    LET kept[n \in 0 .. Len(rows)] ==
            IF n = 0 THEN <<>>
            ELSE IF IsFresh(rows[n]) THEN Append(kept[n - 1], rows[n])
            ELSE kept[n - 1]
    IN  kept[Len(rows)]

Export(i) ==
    /\ pc[i] = "export"
    /\ fresh' = [fresh EXCEPT ![i] = FreshRows(updates[i])]
    /\ result' = [result EXCEPT ![i].stale = Len(updates[i]) - Len(fresh'[i])]
    /\ setAtExport' = [setAtExport EXCEPT ![i] = setBy]
    /\ Goto(i, IF How[run[i]] = "cli" THEN "open" ELSE "batch")
    /\ UNCHANGED <<ctVars, store, run, updates, completed, index, uuid, history>>

\* FileBatchIdempotencyStore reads its log, once; json.loads raises on a torn
\* one, and the invocation ends before it sends anything.
OpenLog(i) ==
    /\ pc[i] = "open" /\ store[run[i]] # Torn
    /\ completed' = [completed EXCEPT ![i] = store[run[i]]]
    /\ Goto(i, "batch")
    /\ UNCHANGED <<ctVars, store, run, updates, fresh, index, uuid, result,
                   setAtExport, history>>

OpenTornLog(i) ==
    /\ pc[i] = "open" /\ store[run[i]] = Torn
    /\ End(i)
    /\ UNCHANGED <<ctVars, store, history>>

\* is_completed reads DynamoDB, without ConsistentRead, or memory.
IsCompleted(i, k) ==
    IF How[run[i]] = "lambda" THEN store[run[i]][k] # None
    ELSE completed[i][k] # None

\* An eventually consistent read need not show a batch that was recorded.
MayLookOpen(i, k) == How[run[i]] = "lambda" \/ ~IsCompleted(i, k)

\* Mutant: every batch lacks its last row.
BatchShort(rows, k) ==
    LET last == (k + 1) * BatchSize - 1
    IN  SubSeq(rows, k * BatchSize + 1, IF last < Len(rows) THEN last ELSE Len(rows))

\* chunk_rows: batch k holds rows k * BatchSize + 1 up to the next batch.
Batch(rows, k) ==
    LET last == (k + 1) * BatchSize
    IN  SubSeq(rows, k * BatchSize + 1, IF last < Len(rows) THEN last ELSE Len(rows))

\* Mutant: one empty batch more when the last one is full.
MoreOrEqual(i) == index[i] * BatchSize <= Len(fresh[i])

MoreBatches(i) == index[i] * BatchSize < Len(fresh[i])

SkipCompleted(i) ==
    /\ pc[i] = "batch" /\ MoreBatches(i)
    /\ IsCompleted(i, index[i])
    /\ result' = [result EXCEPT ![i].skipped = @ \cup IdsOf(Batch(fresh[i], index[i]))]
    /\ index' = [index EXCEPT ![i] = @ + 1]
    /\ UNCHANGED <<ctVars, store, pc, run, updates, fresh, completed, uuid,
                   setAtExport, history>>

\* bulk_update_products: CardTrader queues a job.
Queued(i) ==
    /\ pc[i] = "batch" /\ MoreBatches(i)
    /\ MayLookOpen(i, index[i])
    /\ jobs' = Append(jobs, [rows |-> Batch(fresh[i], index[i]), state |-> "pending",
                             failed |-> {}, after |-> setAtExport[i]])
    /\ UNCHANGED <<inventory, store, history>>

PostBatch(i) ==
    /\ Queued(i)
    /\ uuid' = [uuid EXCEPT ![i] = Len(jobs) + 1]
    /\ Goto(i, "poll")
    /\ UNCHANGED <<run, updates, fresh, completed, index, result, setAtExport>>

\* Its answer is lost and the invocation fails: a POST is not sent again.
PostBatchUnanswered(i) == Queued(i) /\ End(i)

\* Mutant: a job that is still queued counts as done.
DoneOrQueued(job) == job.state # "unprocessable"

Done(job) == job.state = "completed"

\* Mutant: a row in error is counted as ok too.
CountedTwice(res, job, stats) ==
    [res EXCEPT !.ok = @ + Len(job.rows), !.error = @ + Cardinality(job.failed)]

\* _stats_counts, added to the running totals: nothing where the job has no
\* stats.  A warning is a price that was set, and counts as ok here.
Counted(res, job, stats) ==
    IF stats
    THEN [res EXCEPT !.ok = @ + Len(job.rows) - Cardinality(job.failed),
                     !.error = @ + Cardinality(job.failed)]
    ELSE [res EXCEPT !.uncounted = @ \cup IdsOf(job.rows)]

\* wait_for_job sees the job completed, with or without stats in its answer.
JobCompleted(i) ==
    /\ pc[i] = "poll"
    /\ Done(jobs[uuid[i]])
    /\ \E stats \in BOOLEAN :
          result' = [result EXCEPT ![i] = Counted(@, jobs[uuid[i]], stats)]
    /\ Goto(i, "mark")
    /\ UNCHANGED <<ctVars, store, run, updates, fresh, completed, index, uuid,
                   setAtExport, history>>

NextBatch(i) ==
    /\ index' = [index EXCEPT ![i] = @ + 1]
    /\ Goto(i, "batch")

\* DynamoBatchIdempotencyStore.mark_completed: one put_item.
MarkCompleted(i) ==
    /\ pc[i] = "mark" /\ How[run[i]] = "lambda"
    /\ store' = [store EXCEPT ![run[i]][index[i]] = IdsOf(Batch(fresh[i], index[i]))]
    /\ NextBatch(i)
    /\ UNCHANGED <<ctVars, run, updates, fresh, completed, uuid, result, setAtExport,
                   history>>

\* FileBatchIdempotencyStore.mark_completed: write_text empties the log
TruncateLog(i) ==
    /\ pc[i] = "mark" /\ How[run[i]] = "cli"
    /\ completed' = [completed EXCEPT ![i][index[i]] = IdsOf(Batch(fresh[i], index[i]))]
    /\ store' = [store EXCEPT ![run[i]] = Torn]
    /\ Goto(i, "write")
    /\ UNCHANGED <<ctVars, run, updates, fresh, index, uuid, result,
                   setAtExport, history>>

\* and writes what this invocation knows.
WriteLog(i) ==
    /\ pc[i] = "write"
    /\ store' = [store EXCEPT ![run[i]] = completed[i]]
    /\ NextBatch(i)
    /\ UNCHANGED <<ctVars, run, updates, fresh, completed, uuid, result, setAtExport,
                   history>>

Finish(i) ==
    /\ pc[i] = "batch" /\ ~MoreBatches(i)
    /\ End(i)
    /\ UNCHANGED <<ctVars, store, history>>

Running(i) == pc[i] \notin {"ready", "ended"}

\* An exception, a job that is unprocessable or not finished in time, a crash
\* or the Lambda timeout: whatever was sent stays sent.
Fail(i) ==
    /\ Running(i)
    /\ End(i)
    /\ UNCHANGED <<ctVars, store, history>>

-------------------------------------------------------------------------------
(***************************************************************************)
(* CardTrader and its users                                                *)
(***************************************************************************)

\* A queued job runs: each row gets its new price or fails by itself.  The price
\* of a listing it sets is from then on the job's.
JobRuns(j) ==
    /\ jobs[j].state = "pending"
    /\ \E failed \in SUBSET IdsOf(jobs[j].rows) :
          /\ \A x \in IdsOf(jobs[j].rows) : inventory[x] = None => x \in failed
          /\ jobs' = [jobs EXCEPT ![j].state = "completed", ![j].failed = failed]
          /\ inventory' = [x \in Ids |->
                IF x \in IdsOf(jobs[j].rows) \ failed
                THEN [inventory[x] EXCEPT !.price =
                        (CHOOSE row \in ToSet(jobs[j].rows) : row.id = x).new]
                ELSE inventory[x]]
          /\ setBy' = [x \in Ids |->
                IF x \in IdsOf(jobs[j].rows) \ failed THEN j ELSE setBy[x]]
    /\ UNCHANGED <<store, pc, localVars, edits>>

JobUnprocessable(j) ==
    /\ jobs[j].state = "pending"
    /\ jobs' = [jobs EXCEPT ![j].state = "unprocessable"]
    /\ UNCHANGED <<inventory, store, pc, localVars, history>>

SellerEdits(x) ==
    /\ edits < MaxEdits /\ inventory[x] # None
    /\ \E p \in EditPrices \ {inventory[x].price} :
          inventory' = [inventory EXCEPT ![x].price = p]
    /\ setBy' = [setBy EXCEPT ![x] = 0]
    /\ edits' = edits + 1
    /\ UNCHANGED <<jobs, store, pc, localVars>>

\* A listing whose last copy is sold is gone, or stays with no copy.
AfterSale(item) ==
    {[item EXCEPT !.qty = @ - 1]} \cup (IF item.qty = 1 THEN {None} ELSE {})

CardSells(x) ==
    /\ edits < MaxEdits /\ inventory[x] # None /\ inventory[x].qty > 0
    /\ \E left \in AfterSale(inventory[x]) :
          inventory' = [inventory EXCEPT ![x] = left]
    /\ edits' = edits + 1
    /\ UNCHANGED <<jobs, store, pc, localVars, setBy>>

\* The user removes the log that no run of the script can read any more.
RemoveTornLog(r) ==
    /\ store[r] = Torn
    /\ \A i \in Invocations : run[i] = r => pc[i] # "write"
    /\ store' = [store EXCEPT ![r] = NothingCompleted(r)]
    /\ UNCHANGED <<ctVars, pc, localVars, history>>

\* No invocation is left and CardTrader's queue is empty.
Quiescent ==
    /\ \A i \in Invocations : pc[i] = "ended"
    /\ \A j \in DOMAIN jobs : jobs[j].state # "pending"
    /\ UNCHANGED vars

Handler(i) ==
    \/ Export(i) \/ OpenLog(i) \/ OpenTornLog(i)
    \/ SkipCompleted(i) \/ PostBatch(i) \/ PostBatchUnanswered(i)
    \/ JobCompleted(i) \/ MarkCompleted(i) \/ TruncateLog(i) \/ WriteLog(i)
    \/ Finish(i) \/ Fail(i)

Environment ==
    \/ \E j \in DOMAIN jobs : JobRuns(j) \/ JobUnprocessable(j)
    \/ \E x \in Ids : SellerEdits(x) \/ CardSells(x)
    \/ \E r \in Runs : RemoveTornLog(r)

Next ==
    \/ \E i \in Invocations :
          \/ \E r \in Runs :
                \/ \E limit \in Limits, force \in BOOLEAN : Start(i, r, limit, force)
                \/ Refuse(i, r)
          \/ Handler(i)
    \/ Environment
    \/ Quiescent

Spec == Init /\ [][Next]_vars

-------------------------------------------------------------------------------
(***************************************************************************)
(* Properties                                                              *)
(***************************************************************************)

\* What a store may hold of a run.
Logs(r) == [Indices(r) -> (SUBSET Ids) \cup {None}]

\* Every variable holds a value of its type.
TypeOK ==
    /\ \A x \in Ids : inventory[x] # None =>
          inventory[x].price \in Nat /\ inventory[x].qty \in Nat
    /\ \A j \in DOMAIN jobs :
          /\ jobs[j].state \in {"pending", "completed", "unprocessable"}
          /\ ToSet(jobs[j].rows) \subseteq AllRows
          /\ jobs[j].failed \subseteq IdsOf(jobs[j].rows)
          /\ jobs[j].after \in [Ids -> 0 .. Len(jobs)]
    /\ setBy \in [Ids -> 0 .. Len(jobs)]
    /\ \A r \in Runs : store[r] = Torn \/ store[r] \in Logs(r)
    /\ \A i \in Invocations :
          /\ pc[i] \in {"ready", "export", "open", "batch", "poll", "mark", "write",
                       "ended"}
          /\ Running(i) =>
                /\ run[i] \in Runs
                /\ completed[i] \in Logs(run[i])
                /\ index[i] \in Nat /\ index[i] * BatchSize < Len(fresh[i]) + BatchSize
          /\ ToSet(fresh[i]) \subseteq ToSet(updates[i])
          /\ uuid[i] \in 0 .. Len(jobs)

LoopEnded(i) == pc[i] = "batch" /\ ~MoreBatches(i)

\* The report adds up: each proposed row is stale, skipped, ok, in error or of
\* a job without stats, exactly once, over all batches (apply_plan_updates'
\* running totals).
EveryRowAccounted ==
    \A i \in Invocations : LoopEnded(i) =>
        Len(updates[i]) = result[i].stale + result[i].ok
                          + result[i].error + Cardinality(result[i].skipped)
                          + Cardinality(result[i].uncounted)

\* When the loop over batches ends, every fresh row has been skipped as
\* completed or carried to its end by a job: none falls between two batches.
EveryFreshRowHandled ==
    \A i \in Invocations : LoopEnded(i) =>
        \A x \in IdsOf(fresh[i]) :
            \/ x \in result[i].skipped
            \/ \E j \in DOMAIN jobs :
                  jobs[j].state = "completed" /\ x \in IdsOf(jobs[j].rows)

\* A batch is recorded in DynamoDB or in the log only after CardTrader finished
\* a job with exactly the listings recorded for it, whatever crashed in between
\* and whoever else wrote.
StoreRecordsCompletedJobs ==
    \A r \in Runs : store[r] # Torn =>
        \A k \in Indices(r) : store[r][k] # None =>
            \E j \in DOMAIN jobs :
                jobs[j].state = "completed" /\ IdsOf(jobs[j].rows) = store[r][k]

\* An apply does not send again what is in effect, be it a rerun, a retry
\* beside the invocation it replaces, after a torn log was removed, or the apply
\* of another run: where a listing still had, at the export, the price a job had
\* set, a row sent for it is of a plan made from that price.  The stale check
\* makes this safe, not the store.
NoResubmission ==
    \A j \in DOMAIN jobs : \A q \in ToSet(jobs[j].rows) :
        jobs[j].after[q.id] # 0 =>
            \A p \in ToSet(jobs[jobs[j].after[q.id]].rows) :
                p.id = q.id => q.prev = p.new /\ q # p

\* "Skipping already-completed batch" (apply.py:238): a listing is skipped
\* only when a job with it was completed.
SkippedRowsWereProcessed ==
    \A i \in Invocations : \A x \in result[i].skipped : \E j \in DOMAIN jobs :
        jobs[j].state = "completed" /\ x \in IdsOf(jobs[j].rows)

\* "aborts rows whose price/qty changed since the plan" (apply_plan.py:7): a
\* job changes a price only from what the plan saw, not one that the seller or
\* another run set since.
ChangedRowsAreAborted ==
    [][\A j \in DOMAIN jobs : jobs'[j].state # jobs[j].state =>
          \A row \in ToSet(jobs[j].rows) : inventory'[row.id] # inventory[row.id] =>
              inventory[row.id].price = row.prev]_vars
===============================================================================
