# Verification of MTGTraderInventory

TLA+ models of the repricing system in this repository, TLC configurations that
check them on small instances, and TLAPS proofs about them. Paths below are
relative to the repository; `handlers.py`, `dynamodb_store.py` and
`plan_orchestrate.py` are in `src/cardtrader_inventory/aws/`, the other Python
files in `src/cardtrader_inventory/`.

## 1. Inventory of the system

The system keeps the prices of a seller's CardTrader listings in line with the
marketplace. A *run* exports the inventory, prices every listing against the
offers of other sellers, judges the resulting plan, and, in LIVE mode, sends the
plan's price updates to CardTrader.

| Component | State it keeps | Operations | Talks to |
|---|---|---|---|
| State machine (`template.yaml`) | current state, retry count, `$` payload | Prepare, PlanAll, PlanMore, Apply, retries | invokes the Lambdas, started by EventBridge every 2 h or by hand |
| Lambda handlers (`handlers.py`, `plan_orchestrate.py`) | locals of one invocation | `prepare_handler`, `plan_all_handler`, `apply_handler` | DynamoDB, S3, CardTrader, CloudWatch |
| Plan checkpoint (`dynamodb_store.py`) | one item per run: status, next_index, discount, safety_ok | `put_new`, `get`, `save_progress` | PlanAll waves |
| Artifacts (`s3_artifacts.py`) | listings, manifest, chunk plans, plan.jsonl | put, get | Prepare, PlanAll, Apply |
| Apply (`apply.py`, `scripts/apply_plan.py`) | ApplyResult, position in the batches | stale filter, batches, jobs | CardTrader, idempotency store |
| Idempotency stores (`dynamodb_store.py`, `idempotency.py`) | completed batch ids, in DynamoDB or a log file | `is_completed`, `mark_completed` | Apply |
| Pricing (`pricing.py`, `buyer_fees.py`) | none (pure) | `price_listing`, clamps, fee inverse | called per listing by PlanAll |
| Export, validation and chunking (`stages.py`, `plan_orchestrate.py`) | listings, chunks of fetch keys | `validate_export`, `slice_fetch_key_chunks`, `run_plan_chunk`, `merge_chunk_plans` | Prepare, PlanAll, dry run |
| Safety check (`stages.py`) | none (pure) | `safety_check_plan` | on the merged plan |
| Weekly discount (`weekly_sales.py`) | none; the order queue at CardTrader | `evaluate_discount`, `fetch_weekly_sales` | Prepare |
| HTTP client (`ct_client.py`) | last poll time | `_send` with retries, `bulk_update`, `bulk_create`, `wait_for_job` | CardTrader, rate limiter |
| Rate limiter (`rate_limiter.py`) | token bucket under a lock | `acquire` | every worker thread |
| Marketplace fetch (`stages.py`) | sliding window of futures, thread pool | `fetch_offers_for_keys` | HTTP client |
| ManaBox import (`manabox_import.py`, `scripts/import_manabox.py`) | plan and position in its batches | `plan_import`, `apply_import_plan` | CardTrader, Scryfall, CSV |
| ManaBox compare, export, Scryfall lookup | none between calls | aggregation by match key, comparison, exported rows | CardTrader, Scryfall, CSV |
| Reports, KPIs, metrics (`report.py`, `metrics.py`) | none between calls | sums and formatting over the merged plan | files, CloudWatch |
| Local dry run (`pipeline.py`) | none between calls | `run_dry_run` | the same functions, in one process |

What makes it hard:

* A handler can die between any two store accesses, and Step Functions then
  invokes it again with the same input; after `Lambda.SdkClientException` the
  first invocation may even still be running.
* The plan is made in waves: everything a wave must know has to survive in the
  checkpoint, and the checkpoint must not be ahead of what is in S3.
* The verdict on a plan and the plan travel apart: one in the payload, one in S3.
* CardTrader applies updates asynchronously, minutes after the inventory was
  exported, while the seller edits prices and cards sell, and while another run or
  a retry of the same Apply sends updates of its own.
* A catalogue is planned chunk by chunk, cut by what can be fetched and not by
  listing, but judged and reported as a whole.
* Requests fail before, during and after CardTrader acts on them; several worker
  threads share one rate limit, and a failed fetch leaves workers behind.
* The ManaBox tools translate between two vocabularies of grades and languages, by
  four tables that have to agree, and an import may be started again at any point.
* Prices are integers in a world of percentages: the clamp, the dead band, the
  floor, the stepped buyer fee and truncated floats meet in a few cents, and
  each run starts from what the last one left.

`PROJECT.json` lists the hazards, each at its line, with the properties that
cover it, and for the uncovered ones the reason.

## 2. Modules

| Module | Models | EXTENDS / INSTANCE |
|---|---|---|
| `RepriceRun` | one execution of the state machine with its handlers, checkpoint and artifacts | |
| `GatedRun` | abstract specification: decide on one plan, publish it only if LIVE and safe, end | |
| `RepriceRefinement` | the mapping under which RepriceRun implements GatedRun | RepriceRun, GatedRun |
| `RepriceRunInv` | the inductive invariants | RepriceRefinement |
| `RepriceRunProofs` | theorems about RepriceRun, and that its steps are steps of GatedRun | RepriceRunInv |
| `MCRepriceRun` | small instances | RepriceRunInv |
| `ApplyUpdates` | `apply_plan_updates`: concurrent invocations, stores, jobs and edits | |
| `ApplyUpdatesProofs` | theorems about it | ApplyUpdates |
| `MCApplyUpdates` | two plans made from different exports, in batches of two | ApplyUpdates |
| `PlanPipeline` | from the export to the merged, judged and reported plan | Pricing |
| `PlanPipelineProofs` | theorems about the merged plan and its reports | PlanPipeline, PricingProofs |
| `MCPlanPipeline` | exports out of seven listings | PlanPipeline |
| `BuyerFees` | the fee table and its inverse | |
| `Pricing` | `price_listing` and the steep-drop rule, for any policy | BuyerFees |
| `PriceTracking` | one listing under repeated runs | Pricing |
| `MCPriceTracking` | the deployed policy on small markets | PriceTracking |
| `PricingProofs` | theorems about the fee inverse and a priced row | Pricing |
| `PriceTrackingProofs` | theorems about repeated runs | PriceTracking, PricingProofs |
| `HttpClient` | what one attempt of `_send` leads to (pure) | |
| `MarketFetch` | `fetch_offers_for_keys`: window, pool, retries | HttpClient |
| `BulkJob` | one bulk call: POST, then polling its job | HttpClient |
| `ClientProcess` | the process they run in: threads, the limiter and either call | RateLimiter, BulkJob, INSTANCE MarketFetch |
| `RateLimiter` | the token bucket shared by threads | |
| `ClientProcessProofs` | theorems about the limiter, the bulk call, the fetch and the process | ClientProcess |
| `WeeklyDiscount` | the order queue through the week and the discount | |
| `WeeklyDiscountProofs` | theorems about it | WeeklyDiscount |
| `ManaBox` | the functions of the ManaBox tools (pure) | |
| `ManaBoxImport` | the import script, its reruns and CardTrader's jobs | ManaBox |
| `ManaBoxImportProofs` | theorems about the import | ManaBoxImport |
| `MCManaBoxImport` | five CSVs, two inventories, four blueprints | ManaBoxImport |

Definitions named `...` after a comment `Mutant:` are deliberate errors. They are
used by nothing in the models: substituting one for the definition that follows
must break the property `PROJECT.json` pairs it with, which shows the property
depends on that part of the code.

### RepriceRun

One action per store access. `pc[s]` is the position of the invocation in slot
`s`, `loc[s]` its `PlanCheckpoint` object, `buf[s]` the plans it has read.

* `StartPrepare`, `StartPlanAll`, `StartApply`, `PlanMore`, `Return`: the states
  of `template.yaml` and their transitions. The payload keeps the fields the
  Choice reads and the run id.
* `Export` ... `PutNewCheckpoint`: `prepare_handler`, whose puts come in the order
  listings, manifest, checkpoint.
* `GetCompleted` / `GetCheckpoint` ... `SaveFinal`: `plan_all_handler`. `PlanChunk`
  and `SaveProgress` are `put_bytes` and `save_progress` of one chunk;
  `PauseWave` is the exit for lack of time, allowed only after a chunk.
  `ReadChunkPlan` and `PutPlan` are `_finalize_merged_plan`, `SaveFinal` the last
  save.
* `LoadPlan`, `SubmitPlan`: `apply_handler`; its batches are ApplyUpdates' subject.
* `Raise`: an exception or the 900 s timeout, which no Retry of the template
  matches. `LoseInvocation`: one of the three errors the Retry names. The
  invocation is gone, or, with `Zombies`, keeps running.

`get` is an eventually consistent `get_item` (dynamodb_store.py:151-158). `Readable`
is what it may answer: the last item put or any that was replaced (`older`); on
nothing at all the handler raises. How long a replaced item can be read has one
bound, `StillRead`: a wave that pauses has run for minutes, so that the next wave
does not read what had been replaced before that wave began. Retries, seconds
apart, may read anything, and with `Zombies` there is no bound. `behind` and
`redone` record who was given an older item, and which run's completed item was
missed by it; no action reads them.

Data: a chunk's plan is what pricing answered (a member of `Rows`) with the
discount it was computed under; the safety check is a constant operator, any
Boolean function of the merged plan. Prepare draws a fresh run id each time:
retries are at least 5 s apart and run ids carry the second.

### ApplyUpdates

Several invocations of apply share the inventory, and those of one run its record
of batches. `Start` and `Refuse` are the gates of `apply_handler` (which refuses
`safety_ok` false only) and of the script (which demands true, or
`--force-unsafe`); `Export` applies the stale filter; `SkipCompleted`,
`PostBatch`, `JobCompleted`, `MarkCompleted` are the loop over batches; `Fail` is
any exception, crash or time-out, `PostBatchUnanswered` one that leaves a job
behind. The script's store reads its log in `OpenLog` and rewrites it in
`TruncateLog` and `WriteLog`; an invocation that dies in between leaves it `Torn`,
and no run reads it (`OpenTornLog`) until the user removes it. Lambda's store is
read without ConsistentRead: `MayLookOpen`. Jobs run by themselves (`JobRuns`,
`JobUnprocessable`), each row succeeding or failing. The seller edits prices and
cards sell at any time. Batch ids are chunk numbers of the fresh rows, as in
`apply.py:233`. A job's answer has stats that count each of its rows, or none that
`_stats_counts` can use, which then counts nothing (`uncounted`). CardTrader's
`warning` count is folded into ok. A POST is not
retried (only on 429, which CardTrader did not accept).

Each plan is of an export of its own, which need not be the inventory apply finds
(`Stock`): a listing may have another price or quantity, have no copy left (such a
row is compared as if one were, apply.py:126) or be gone. `setBy` records the job
whose price a listing still has, `setAtExport` what that was when an invocation
exported.

### PlanPipeline

`Prepare` is `prepare_run`: validation, the listings of the game, the fetch keys
cut into chunks, the seller's id. `PlanChunk` is `run_plan_chunk`; each key's
offers are drawn when its chunk is planned, as the market moves between requests.
`Merge` is `merge_chunk_plans` with what `_finalize_merged_plan` reports. A
listing's variant stands for language and foil, its bucket for its condition.
Listings are selected by their place in the export, a chunk plan is a function from
places to rows, and the merged plan one from chunks and places.
`OneSellerAssumption`: an export is one account's, which is why any listing will do
to tell the owner.
`Row` is Pricing's `price_listing`, with the owner `Prepare` found as its
`exclude_user_id`. Where chunks
and plans are kept, and what crashes do to them, is RepriceRun's subject: the
order of chunks is the same in both. In RepriceRun a plan row is a member of an
abstract set and the verdict a parameter; here they are computed.

### BuyerFees, Pricing, PriceTracking

Transcribed function by function, under the code's names, in integer cents and
tenths of a percent. Offers are a set; the k-th cheapest price is defined by rank.
Two uses of floats need care. `math.ceil(previous * (1 - pct/100))` and the
comparisons of the safety check agree with exact arithmetic for the deployed
percentages on every price up to 1,000,000 cents (measured). `int(market * (1 -
discount/100))` does not: at 7% it is a cent short at 500, 1000, 1100, ... cents.
`FloatShort` is the set of such pairs, a parameter. PriceTracking puts
`price_listing` into a loop: `Schedule` and `Reprice` are a run whose plan is this
listing's row, judged by the steep-drop rule and applied; in between,
`MarketMoves`, `DiscountChanges` and `SellerEdits`.

### HttpClient, MarketFetch, BulkJob

An attempt is answered by a member of `Answers`. Two of them are easily confused:
`network` is a URLError (no connection, or the request could not be sent),
`broken` a time-out or reset while the response is awaited or read, which
`urlopen` and `read()` raise as they are. `AfterAttempt` is `_send` as a function
of method, attempt and answer; the sleep in between takes any time.

`MarketFetch`: `Submit`, `Collect`, `CollectFailure`, `Finish` are the calling
thread's loop; `Begin` and `Attempt` a worker taking up a future and sending one
request. `BulkJob`: `Post` and `Poll` are one attempt each of the POST and of
`get_job`; `JobRuns` is CardTrader, which may never run the job. A POST that was
answered 429 was not accepted, one that failed otherwise may have been
(`MayBeAccepted`): the first is what ct_client.py:29 assumes of CardTrader. Time
goes in ticks of 0.35 s, three to the interval between polls.

### RateLimiter, ClientProcess

`Take` and `Sleep` are the two outcomes of one turn of `acquire`'s loop under the
lock, `Wake` the return of `time.sleep`, at its time or later. Time is counted in
ticks, tokens in units, so that `Refill` units a tick and `Token` units a token
express any rational rate. `OpenWindow`, `span` and `count` are an observer that
watches a window of time from any moment on; nothing in the limiter reads them.

ClientProcess puts the limiter under the two calls: in a fetch each key's future
has a thread, a bulk call runs on one. Before every attempt, retries included,
`Acquire` enters `acquire`, `Limiter` is its loop, and `SendAttempt` lets the
request go once a token was taken, at any time after; `FetchAttempt` and
`BulkPost` are the attempts with their answers. `ClockTick` moves the limiter's
clock and, during a bulk call, that of `wait_for_job`. Polls of a job pass by the
limiter, as `get_job` does (ct_client.py:477). `requests` counts, in the observer's
window, what CardTrader sees; the backoff takes any time.

### WeeklyDiscount

`Prepare` reads a page of the pending orders and derives the discount; which
orders are on page 1 is CardTrader's choice. `Sale`, `Ship` and `NextDay` are the
world. `PrepareWithoutSales` is the `except` of handlers.py:243.

### ManaBox, ManaBoxImport

`ManaBox` holds the tables of grades restricted to the names CardTrader and
ManaBox use (aliases such as `nm` or `lp` are spellings), what an absent grade or
language is taken for where the code has a default (`OrEnglish`), the match key, the two
aggregations, the comparison, the exported rows, and `plan_import` row by row.
`ScryfallOf` is `enrich_blueprint_scryfall`, where a request that fails looks like
an unknown id. `ManaBoxImport` is the script: `Plan` exports the inventory and
plans, `Stop` and `Apply` are the gate before a LIVE import, `PostBatch`,
`JobEnded`, `Finish` the loop of `apply_import_plan`; a new run's `Plan` forgets how the one before it
ended; `Fail` is an error, the
deadline of `wait_for_job` or the user. `csv` maps the lines of the file to their
cards; the import reads those with copies (`CsvCards`), the comparison all of them.
`plan` maps lines to rows; a batch is the lines of `BatchSize` successive ranks
among those to create. A product is a blueprint in a condition, language and foil,
which is what a rerun compares with the inventory. Cards do not sell between the
runs, but the inventory may hold sold out listings from the start.

## 3. Runs

| Run | Instance | Shows |
|---|---|---|
| `reprice_run` | 1 slot, 3 run ids, 2 chunks, 2 retries, stale gets, fairness | under crashes, retries and stale reads at every step: termination, a safe LIVE plan is applied or a task fails; only judged plans are applied and a completed checkpoint stays, unless a get missed it; refinement of GatedRun |
| `reprice_run_zombies` | 2 slots, 2 run ids, 1 retry, 2 discounts, 1 kind of chunk plan, abandoned invocations keep running, stale gets | checkpoint order, whole plans, one discount and no silent Finalize survive the overlap |
| `reprice_run_zombie_gate` | the same, 1 discount, 2 kinds of chunk plan | violated: the plan applied need not be the plan judged |
| `apply_updates` | 2 runs with plans of different exports (Lambda with 4 rows, CLI with 2 and a refused plan), a sold-out listing, batches of 2, limits 0 and 1, 2 invocations, 1 edit or sale | the report adds up, no fresh row is lost, the stores only record finished jobs, nothing in effect at an export is sent again |
| `apply_skips` | the same, no edits, no limit | violated: a completed batch id hides rows never sent |
| `apply_overwrites` | the same | violated: a run overwrites what another run changed since its export |
| `price_tracking` | deployed policy, prices 36 / 520 / 1100, discounts 0 and 7, hand edits 10 / 150 / 999999 | no run trips the gate, undercuts exactly, never overshoots, is stuck only below 67 cents, and settles in a quiet market |
| `plan_pipeline` | exports of up to 4 of 7 listings, either order, chunks of 1, 2 or all, 2 discounts, 3 markets a key, at most 2 updates and 60% | the merged plan is the priced catalogue, without the seller's own offers, judged as a whole; the reported values are those apply leaves, plus a copy of each sold-out listing |
| `client_process` | 3 keys, 2 workers, 1 retry; interval 3 and deadline 7 ticks; 2/3 token a tick, 3 ticks a second, windows of up to a tick | the request rate is bounded with all retries, every key's offers or an exception, no batch accepted twice, final job states only, both calls end |
| `market_fetch_broken` | 1 key, 3 retries | violated: a broken connection is not retried |
| `weekly_discount` | up to 3 orders of 3 amounts, pages of 2 | the discount is never below what is due, exact while a page suffices, and never raised by sales |
| `manabox_import` | 5 CSVs, 2 inventories, batches of 2, limits 0 and 1, 2 runs | no product a completed job created is created again, success means listed, an export holds every copy in stock and compares equal with what it exports, listings sold out or without grade or language aside |

**Bounds.** Two chunks already distinguish the first, the next and the last
chunk, a wave that pauses and one that does not, and a merge that misses one;
the proofs cover every number. Two retries are a first, a middle and a last
attempt; in `client_process` a single one is the first and the last. The zombie run
has one kind of chunk plan, since none of its properties looks at what a plan
proposes. Three fresh rows in batches of two give a full and a short batch, and a
rerun that shifts rows between them; a fourth row is fresh only once the other
run's job has moved its listing back. Two invocations show each pair of
applies; of three, such as a plan, the plan that moves its prices back, and the
first again, there are more states than TLC can visit in minutes, and the theorems
speak of any number. Three keys over two workers make one key wait for
a free worker. The market levels lie below and above the spread gate (500 cents)
and include float-short prices; 999999 is the sentinel price and 10 is below the
floor. The order amounts are such that one, two and three of them fall into
different tiers, and a page misses one. The bucket holds two tokens, so that
the threads with their retries outrun it, and a tick adds less than one, so that
sleepers are robbed; windows longer than a tick are left to the proof of
`WindowBound`. The listings of the shelf hold one card in two conditions and two
languages, one at the sentinel, one with no copy left, another game, a sealed
product without attributes and a broken row; only some name the seller, who asks
less than anyone, and two updates are the limit, so that plans of three fail the
gate. `MaxInvocations`, `MaxEdits`, `MaxRuns`,
`MaxOrders`, `Calls` and `MaxSpan` bound the environment; the age of a bucket stops
counting once it is full. Symmetry (of slots) is used in the zombie runs
only, which check no liveness.

**Fairness.** `RepriceRun!Fairness`: Step Functions takes every transition it can,
and an invocation takes a step or ends, because Lambda kills it after 900 s. That
reads catch up with a wave is in the actions, not in the fairness (`StillRead`,
section 2); without it waves could plan the same chunks for ever. No
fairness is asked of the environment or of crashes. `ManaBoxImport!FairSpec` is
weak fairness of the script as a whole, which includes `Fail`: `wait_for_job` has a
deadline. `ApplyUpdates` and `PlanPipeline` have safety properties only.
`PriceTracking!FairSpec`: EventBridge fires every two hours and a run ends
(termination is what `reprice_run` shows); `Settles` also assumes the environment
falls silent, which is its hypothesis, not fairness.
`ClientProcess!FairProcessSpec`: the clock runs, every thread is scheduled and an
attempt ends, every socket having a time-out; the lock gives no order and none is
assumed, and CardTrader's jobs get no fairness. CHECK_DEADLOCK is on everywhere;
ends are explicit stuttering steps (`Ended`, `Quiescent`).

**Findings** (violated runs): see `findings` in `PROJECT.json`; each quotes the
line of the repository that the behaviour contradicts.

More disagreements between words and code, and asymmetries, showed while modelling, too plain
to need a run of their own:

* runbook.md:36 lists a dead band of max(5 cents, 1%) among the defaults;
  config.py:194-195 and template.yaml:53-54 have 0.
* docs/rate-probe-results.md:20, 23: CardTrader allows 10 requests a second and 6
  are called safe. `WindowBound` is tight: a bucket of 6 that refills at 6 a second
  lets 11 calls start in less than a second after a quiet one.
* ct_client.py:22 and :469 allow one GET of a job a second; the retries inside `get_job`
  follow a failed GET after a backoff that may be close to 0, with the limiter
  off (:477).
* The checkpoint is read without ConsistentRead (dynamodb_store.py:152). A retried
  PlanAll that is given an item older than the completed one plans the last chunks
  again on a new market and replaces plan.jsonl; if it is lost too, the next retry
  finds the old item with its verdict and Apply sends a plan nobody judged, with no invocation
  abandoned. `AppliedOnlyIfGated` and `CheckpointNeverRegresses` name this exception
  (`redone`, `behind`), and TLC refutes both without it. GatedRun calls it `Reopen`.
* apply_handler accepts a payload without `safety_ok`, the script refuses a summary
  without it. PlanMore sends no such payload to Apply.
* config.py:238 reads the sentinel price from the environment, report.py:15 and
  metrics.py:76-79 use the constant 999999: with another setting their values and
  SentinelRemaining are wrong. `ReportsDescribeWhatApplyLeaves` holds for the
  deployed value.
* When no listing of the export names the seller, `owner_user_id` is None and the
  seller's own offers count as competitors (stages.py:135-139).
* Each process has a limiter of its own: a run by hand beside a scheduled one, or a
  retry beside an abandoned invocation, doubles the rate.
* Run ids carry the second: two runs started in the same second share theirs.
* Nothing keeps a proposal below the sentinel: a card whose market is well above
  9,999.99 gets one that reports, metrics and the next run take for a price set by
  hand. `count_sentinel_remaining` (metrics.py:71-82) misses it, as it looks at the
  price before the update first.
* Reports and metrics count a listing whose last copy is sold as one copy
  (pricing.py:233, report.py:102), where report.py:38 and :305 say unit price times
  quantity. `ReportsDescribeWhatApplyLeaves` has the difference, exactly.
* A completed job without stats counts none of its rows (apply.py:158-160), and its
  batch is recorded all the same: the totals of the report fall short of the plan.
* The export writes a listing without condition as near_mint, one without language
  as en (manabox_export.py:81, 161); the comparison has no such defaults for
  CardTrader's side, so that the listing and its export compare different.
* load_csv_cards skips rows without copies (manabox_import.py:112), the comparison
  keeps them (manabox_compare.py:205-224): a card that the CSV lists with quantity 0
  only is shown as missing on CardTrader after an import that did all it should.
* compare_manabox counts a sold out listing as a card with 0 copies, the export
  leaves it out: an inventory compared with its own export can show cards only on
  CardTrader.
* A blueprint whose first Scryfall id is another card's than its second is listed
  under the one or the other, as the first request succeeds or not; the import and
  the comparison may then disagree on what was listed (see `SameCard` in section 4).
* weekly_sales.py:51 says the total "*is*" the pending revenue; it is that of one
  page of at most 100 orders (ct_client.py:522). `NeverBelowDue` is what remains.

## 4. Proofs

All are checked by `tlapm` with no omitted step. `PROJECT.json` lists the theorems
under "theorems"; what follows is how they are argued. Each safety property has an
invariant that says more than it does, holds initially and is kept by every step;
TLC checked it on the run of its module before it was proved.

### RepriceRun (`RepriceRunInv`, `RepriceRunProofs`)

`TypeInv` ties `pc` to the locals a handler has and to the task state that waits for
it. The others are built on it:

* `DurableInv`: every checkpoint *and every handler's copy of one* is backed by
  objects in S3 (`Backed`), a preparing invocation owns its run id, every plan in
  flight covers its manifest. It is inductive for any number of slots, zombies
  included, because objects are never deleted and never shrink: overlap cannot
  unback a checkpoint. `CheckpointNeverAhead`, `AppliedIsWhole`.
* `DiscountInv`: whatever is priced for a run, in S3 or in a handler merging it,
  carries the discount of the run's checkpoint, and so does every handler's copy.
  `OneDiscount`, zombies included.
* `ChoiceInv`: mode and verdict are known wherever PlanMore may choose on them, even
  when a zombie writes beside the handler it waits for. `LiveIsGated`.
* `GateInv`, without zombies: one invocation at most runs (`OneInvocation`), a
  completed checkpoint holds the verdict on the plan that stands, and no older item
  holds one (`VerdictStands`), only a handler that was given an older item plans a
  completed run again (`OnlyStaleRedo`), and verdict and mode travel unchanged into
  the payload: all while no get has missed the completed item, that is for runs
  not in `redone`. `GateHolds`.
* `ProgressInv`: the progress of a handler that was given the last item is no older
  than the checkpoint it will replace. `NoProgressIsLost`, an action property.
* `RefineInv`: every task works for the run in the payload, Apply holds and
  publishes the plan decided on (the one that stands, for a run that was redone),
  and answers once it has. With it each step of
  RepriceRun is a step of GatedRun or a stutter: the save that completes the
  checkpoint decides, the get that misses it reopens, `SubmitPlan` publishes, the
  Choice and the ends of the machine end it, everything else stutters. `RefinesGatedRun` is the safety part of
  GatedRun; its fairness needs ENABLED and stays with TLC.

The first three hold for stale reads and zombies without exception, because every
item that a get may return was put for the same run, by handlers that knew what was
in S3. The last three assume `~Zombies`, and must: `reprice_run_zombie_gate` is the
counterexample.

### ApplyUpdates (`ApplyUpdatesProofs`)

Any plans, batch size, number of invocations and environment. `ControlInv` has the
types and where each invocation stands: its rows never repeat a listing, its job
holds the batch at hand, and is completed before the batch is recorded.

* `RecordsInv`: every log that can be read, in the store or in the memory of an
  invocation, names the rows of completed jobs only. A torn log is never read, so
  nothing need be known about one. `StoresTellTheTruth`.
* `HandledInv`: all rows of the batches passed are in a completed job or were
  skipped. `NoRowIsLost`.
* `CountInv`: the report, with the listings of jobs without stats, accounts for
  exactly the rows of the batches passed, one more between the end of a job and its
  record. `ReportAddsUp`.
* `ResubmissionInv`: a listing that has its price from a job has the price of the
  job's row, and where a job had set the price of a listing at an export, the rows
  that passed the stale filter start from that price (`Follows`). The price alone
  carries this, since a sale can bring the quantity back to what a plan saw; it
  needs nothing of how the plans relate. `NothingIsSentTwice`. A plan may well be
  sent once more after another plan has moved its prices back: the rows then start
  from the prices the other plan's jobs have set, and the theorem says no more.

`FreshRows` is a recursive function on the positions of the rows; that its values
exist and are what they should be is proved by least counterexample (`CountUp`, on
the well-foundedness of < on Nat), which stands in for induction. `TotalIs` of
WeeklyDiscount is proved the same way.

### Pricing and repeated runs (`PricingProofs`, `PriceTrackingProofs`)

For every fee table satisfying `TiersAssumption` the inverse returns the largest
price within the target (`LargestListPrice`), so the quote never falls as the
market rises (`QuoteIsMonotone`). For every policy, market and discount a row of
`price_listing` is within the clamp and above the floor, and `RowShape` and
`RowAims` say what it aims at and why it stops short. Hence `TightClampPassesGate`
(if `max_decrease <= max_allowed_decrease`, the safety check never refuses a plan
for a steep drop), `RunsNeverOvershoot`, `UpdatesUndercut` (an update that
neither clamp nor floor dictates undercuts what the buyer pays, fee included, and by
no more than it must) and `KeptOnlyWhenCheap` (but for the dead band, a price is left
above its target only where the clamp is less than a cent).

`ProposalsAreInRange`: a proposal is at least one cent and at most some price asked
or in force (an offer's, the floor, or the listing's own unless that is the
sentinel). A market price is a median of offers or the third of them, so some offer
reaches it (`MarketType`); undercutting, discount and the fee inverse only lower it
(`QuoteBelowMarket`), and the clamp lies between previous price and target.

### The client process (`ClientProcessProofs`)

`ProcessRunsItsParts`: the composed process implements the limiter, the bulk call
and the fetch, so that what is proved of each on its own holds of the process.

* `LimiterInv` adds to the types the `Ledger`: calls counted, plus what the bucket
  holds now, never exceed a full bucket and the window's refill. `Take` moves a
  token from one side to the other, `LimiterTick` adds the same to both, the cap
  only loses tokens. `WindowIsBounded`, for any number of threads and any rate.
* `JobInv`: while the POST may still be retried CardTrader has accepted nothing,
  because a mutation is retried on 429 only; afterwards the call has exactly its
  one job, and a job that ended does not change. `BatchAcceptedOnce`,
  `ReturnsFinalState`, `TimesOutOnUnfinished`.
* `FetchInv`: keys submitted are those awaited and those whose offers are there,
  each future tells what its attempts met, and no more run than there are workers.
  `FetchIsWhole`, `TransientsMeetEveryRetry`, `FailureStopsTheFetch`.
* `TokensInv`, `RequestsInv`: a thread acquires one token for each attempt and
  spends it on that; what was sent in a window, plus the tokens in hand, is what the
  limiter let through in it and one token a worker from before. `RequestsAreBounded`.

### PlanPipeline (`PlanPipelineProofs`)

Any exports, chunk size, discount, limits, policy and offers. `SlicesMeetAll` and
`SlicesMeetOnce`: every key falls into exactly one of the chunks that
`slice_fetch_key_chunks` cuts. `PipelineInv` keeps that (`ChunksOK`), that each chunk
planned has the rows of its own listings on one market for each card, for the
seller and the discount found at first (`PlannedFor`), and that the result joins
and judges all chunk plans (`Judged`).

* `WholeCatalogue`: the places of the rows and the listings due are in a one-to-one
  relation (`RowCount`, `DueCount`), and a card's listings share their chunk, hence
  their market.
* `OwnListingsIgnored`: the owner is whoever any listing due names
  (`OwnerIsSeller`, from `OneSellerAssumption`), and his offers change no row
  (`OwnOffersIgnored`).
* `WholePlanIsGated`: after n chunks the merged counters are the sizes of the sets
  of rows they count (`SummaryCounts`, by `CountUp` over the chunks); every row is
  an update or has one of five reasons (`RowsHaveReasons`), so the counters add up;
  and the limits were checked on their sum.
* `ReportsAreTrue`: the rows of the plan and the listings due correspond one to one
  (`RowsAtPlaces`), a row tells its listing's price and copies (`RowsTell`), and what
  it adds to the value before and after is what the listing is worth then
  (`RowsAreWorth`), a sold-out listing being worth one copy. Sums over rows are
  therefore sums over listings (`SumOverDue`), and the change of the updated rows is that of all rows, since the others add the
  same before and after (`SumSplit`). `WorthOfStock` and `CopiesOfStock` split these
  sums into unit price times quantity and the copies that are not there
  (`SumOfBoth`, `SumOfOnes`). It needs `SentinelIsNoPrice`: the policy's
  sentinel is the reports', and no floor or offer is as high, so that by
  `ProposalsAreInRange` no proposal is. The code has it by its defaults only (see the
  disagreements above), so it is a hypothesis, which TLC evaluates for the instance
  in `MCPlanPipeline`.

`SumFunction` folds over a set in an order the CHOOSE of the library picks, and no
theorem of the library is about it. `SumsExist` and `SumsAgree` show, by least
counterexample on the size of the set, that the fold exists and is the same in any
order; `SumTakeOut` takes one member out, and `SumAtMost`, `SumSame` and `SumSplit`
follow. The sums of the ManaBox tools are treated the same way.

### WeeklyDiscount (`WeeklyDiscountProofs`)

`FirstIsBest`: the first tier that matches is the best that applies, which depends
on the order of the table. `PageIsLess`, `SaleAdds`: a page adds up to no more than
all orders, a sale only adds. `WeekInv` keeps, from one Prepare to the next, that
the discount came from some page of the orders it saw, and, while nothing but sales
happens, that the revenue has only grown. `NeverBelow`, `OnePageIsExact`, and the
action property `SalesLowerIt`, for any amounts, page size and number of orders.

### ManaBoxImport (`ManaBoxImportProofs`)

`ImportInv`: what a completed job created is in the inventory that any later run
exports, and a run creates nothing it found there. `ProductsOnce`. Whether a *line*
is created twice is another question: a card that Scryfall leaves unresolved may
lead to one blueprint in one run and to another in the next. `RowsOnce` excludes it
under `OneBlueprint`, that the lookups which find a single blueprint for a card
agree on it. The code does not guarantee that (two blueprints of one Scryfall id,
each unresolved in turn, refute `NoRowListedTwice` in TLC), so it is a hypothesis
and not an assumption of the module.

`ImportListsAll`: in `DoneInv` every line owed (those of batches passed, and of the
batch whose job has completed) has landed in a listing of its own, an injection from
lines into the inventory (`Landed`). A run that ends with nothing skipped owes all
lines that have copies, and the other lines add nothing to a card's sum; the card
the comparison makes of a listing is the card of its line
(`GradeRoundTrip`, `LanguageTwice`: a grade or language that went to CardTrader and
back is the one it was), so the sum over listings of a card is no less than that over
its lines (`SumAtMost`). It needs `SameCard`: all ids of a blueprint are of one card,
so that a failed request makes it unknown but never another card. `ExportRoundTrip`
needs no such thing, because both sides use the same answers: each listing is
exported as a row of the card it reads back as (`ReadAs`), which is its own where it
has a grade and a language, and rows of a card add up to its listings
(`ComparesEqual`).

Both attempts corrected the model first. An outcome `done` of one run used to stand
through the next run's planning, where `DoneMeansListed` was false (the script has no
such memory, so `Plan` clears it), and `ExportComparesEqual` claimed no difference at
all, which a sold out listing refutes. The instance has such listings now.
TLC evaluates `OneBlueprint` and `SameCard` in `MCManaBoxImport`.

Assumptions are the named ASSUMEs of the modules; TLC evaluates each of them.

### Model-checked only

* Liveness: `RunTerminates`, `SafePlanIsApplied`, `Settles`, `CallsEnd`, `RunEnds`, and
  the fairness of GatedRun, which needs ENABLED.

Every invariant and every other action property of the passing runs is a theorem
for all values of the constants, under the hypotheses named above.

## 5. Not modelled, and the plan

The plan is done: what remains to the model checker alone is liveness. A test of the
live CardTrader would be needed for what the models take from the code's use of it
(429 means not accepted, a page has 100 orders, jobs end in one of their final
states).

Left out for good: parsing of CardTrader's JSON and row serialisation, the reading
of the environment, the averages, medians and formats of the reports, the
dashboard and the alarms (configuration; the values they watch are modelled), the
handlers that template.yaml does not deploy (`plan_chunk_handler`, `merge_handler`,
`plan_handler`), `dry_run_item.py`, S3 and DynamoDB expiry (days and hours against
runs of minutes), Scryfall's throttle and cache, an interrupt from the keyboard
during a fetch.
