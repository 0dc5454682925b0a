---------------------------- MODULE ManaBoxImport ----------------------------
(***************************************************************************)
(* scripts/import_manabox.py: plan the import of a CSV against an export   *)
(* of the inventory, and with --confirm-live create the missing products   *)
(* in batches of bulk_create, waiting for each CardTrader job.  A run can  *)
(* fail at any step and be started again, while jobs of earlier runs are   *)
(* still queued.                                                           *)
(***************************************************************************)
EXTENDS ManaBox

CONSTANTS
    CsvFiles,    \* the CSVs a user may import
    Stocks,      \* the inventories it may start from
    Catalog,     \* the blueprints of the sets concerned
    Lookups,     \* Scryfall's answers, requests that fail included
    BatchSize,   \* bulk_update_batch_size
    Limits,      \* values of --limit (0: none)
    MaxRuns      \* bound on the runs of the script

ASSUME ImportAssumption ==
    /\ BatchSize \in Nat \ {0} /\ MaxRuns \in Nat
    /\ \A file \in CsvFiles :
          /\ IsFiniteSet(DOMAIN file) /\ DOMAIN file \subseteq Nat
          /\ \A line \in DOMAIN file : file[line].quantity \in Int
    /\ \A stock \in Stocks :
          /\ stock \in Seq(ToSet(stock))
          /\ \A n \in DOMAIN stock : stock[n].quantity \in Nat
    /\ IsFiniteSet(DOMAIN Catalog)

VARIABLES
    \* CardTrader
    inventory,   \* the seller's listings
    jobs,        \* [rows, state, failed, after], in the order submitted; rows
                 \* maps a line of the CSV to what it is listed as
    \* the script
    csv,         \* line -> row of the file
    pc,          \* idle, planned, batch or poll
    plan,        \* line -> planned row
    creates,     \* the lines to create, in their order
    index,       \* how many of them are submitted so far
    done,        \* jobs completed at the export
    limit,
    outcome,     \* of the run that ended last, none while one goes on:
                 \* nothing, refused, done or failed
    \* bookkeeping
    skipped,     \* lines that some run found to exist
    runs

ct == <<inventory, jobs>>
locals == <<plan, creates, index, done, limit>>
vars == <<ct, csv, pc, locals, outcome, skipped, runs>>

Init ==
    /\ inventory \in Stocks /\ jobs = <<>>
    /\ csv \in CsvFiles
    /\ pc = "idle" /\ plan = <<>> /\ creates = {} /\ index = 0 /\ done = {} /\ limit = 0
    /\ outcome = "none" /\ skipped = {} /\ runs = 0

-------------------------------------------------------------------------------
\* load_csv_cards keeps the rows with copies, and their line numbers.
CsvCards(file) == Restrict(file, {line \in DOMAIN file : file[line].quantity > 0})

WithAction(p, action) == {line \in DOMAIN p : p[line].action = action}

\* The position of a line among others.
Rank(line, lines) == Cardinality({other \in lines : other <= line})

\* plan_from_csv; then the rows past the limit are taken out.
Plan ==
    /\ pc = "idle" /\ runs < MaxRuns
    /\ \E found \in Lookups :
          plan' = plan_import(CsvCards(csv), Catalog, found, ExistingKeys(inventory))
    /\ limit' \in Limits
    /\ LET all == WithAction(plan', "create")
       IN  creates' = {line \in all : limit' = 0 \/ Rank(line, all) <= limit'}
    /\ done' = {j \in DOMAIN jobs : jobs[j].state = "completed"}
    /\ skipped' = skipped \cup WithAction(plan', "skip_existing")
    /\ pc' = "planned" /\ index' = 0 /\ outcome' = "none" /\ runs' = runs + 1
    /\ UNCHANGED <<ct, csv>>

\* Nothing is created when there is nothing to create, or when a row has an
\* error.
Stop(why) ==
    /\ pc = "planned"
    /\ \/ why = "nothing" /\ creates = {}
       \/ why = "refused" /\ creates # {} /\ WithAction(plan, "skip_error") # {}
    /\ pc' = "idle" /\ outcome' = why
    /\ UNCHANGED <<ct, csv, locals, skipped, runs>>

Apply ==
    /\ pc = "planned" /\ creates # {} /\ WithAction(plan, "skip_error") = {}
    /\ pc' = "batch"
    /\ UNCHANGED <<ct, csv, locals, outcome, skipped, runs>>

Batch == {line \in creates : Rank(line, creates) \in index + 1 .. index + BatchSize}

\* bulk_create_products: the job is queued, its answer may be lost.
PostBatch ==
    /\ pc = "batch" /\ index < Cardinality(creates)
    /\ jobs' = Append(jobs, [rows |-> Restrict(plan, Batch), state |-> "pending",
                             failed |-> {}, after |-> done])
    /\ \/ pc' = "poll" /\ outcome' = outcome
       \/ pc' = "idle" /\ outcome' = "failed"
    /\ UNCHANGED <<inventory, csv, locals, skipped, runs>>

\* wait_for_job saw the end of the job submitted last.
JobEnded ==
    /\ pc = "poll"
    /\ \/ Last(jobs).state = "completed" /\ pc' = "batch" /\ index' = index + BatchSize
          /\ outcome' = outcome
       \/ Last(jobs).state = "unprocessable" /\ pc' = "idle" /\ index' = index
          /\ outcome' = "failed"
    /\ UNCHANGED <<ct, csv, plan, creates, done, limit, skipped, runs>>

Finish ==
    /\ pc = "batch" /\ index >= Cardinality(creates)
    /\ pc' = "idle" /\ outcome' = "done"
    /\ UNCHANGED <<ct, csv, locals, skipped, runs>>

\* Mutant: waiting for the job has no deadline.
FailExceptPolling ==
    /\ pc \in {"planned", "batch"}
    /\ pc' = "idle" /\ outcome' = "failed"
    /\ UNCHANGED <<ct, csv, locals, skipped, runs>>

\* An error, the deadline of wait_for_job, or the user stops the script.
Fail ==
    /\ pc # "idle"
    /\ pc' = "idle" /\ outcome' = "failed"
    /\ UNCHANGED <<ct, csv, locals, skipped, runs>>

-------------------------------------------------------------------------------
\* build_bulk_create_payload: the product CardTrader is to create.
Listed(line, as) ==
    [blueprint |-> as.blueprint, foil |-> csv[line].foil,
     language |-> normalize_language(OrEnglish(csv[line].language)),
     condition |-> as.condition, quantity |-> csv[line].quantity]

\* CardTrader runs a job: each row becomes a listing or fails.
JobRuns(j) ==
    /\ jobs[j].state = "pending"
    /\ \E failed \in SUBSET DOMAIN jobs[j].rows :
          LET ok == SetToSeq(DOMAIN jobs[j].rows \ failed)
          IN  /\ jobs' = [jobs EXCEPT ![j].state = "completed", ![j].failed = failed]
              /\ inventory' = inventory \o [n \in DOMAIN ok |-> Listed(ok[n], jobs[j].rows[ok[n]])]
    /\ UNCHANGED <<csv, pc, locals, outcome, skipped, runs>>

JobUnprocessable(j) ==
    /\ jobs[j].state = "pending"
    /\ jobs' = [jobs EXCEPT ![j].state = "unprocessable"]
    /\ UNCHANGED <<inventory, csv, pc, locals, outcome, skipped, runs>>

Script ==
    \/ Plan \/ Stop("nothing") \/ Stop("refused") \/ Apply
    \/ PostBatch \/ JobEnded \/ Finish \/ Fail

Quiescent ==
    /\ pc = "idle" /\ runs = MaxRuns
    /\ \A j \in DOMAIN jobs : jobs[j].state # "pending"
    /\ UNCHANGED vars

Next == Script \/ (\E j \in DOMAIN jobs : JobRuns(j) \/ JobUnprocessable(j)) \/ Quiescent

Spec == Init /\ [][Next]_vars

\* A run that goes on takes its next step or fails: requests and wait_for_job
\* have their time-outs.
FairSpec == Spec /\ WF_vars(pc # "idle" /\ Script)

-------------------------------------------------------------------------------
(***************************************************************************)
(* Properties                                                              *)
(***************************************************************************)

\* The product a line is listed as, and those a job created.
Product(line, as) ==
    LET listing == Listed(line, as)
    IN  ProductKey(listing.blueprint, listing.foil, listing.language, listing.condition)

Created(job) == {Product(line, job.rows[line]) : line \in DOMAIN job.rows \ job.failed}

\* A run started after a job has completed creates none of the job's products
\* again, whatever spelling the CSV has for what CardTrader then exports, and
\* whichever of its rows, jobs and earlier runs they came from.
NothingListedTwice ==
    \A j2 \in DOMAIN jobs : \A j1 \in jobs[j2].after :
        \A line \in DOMAIN jobs[j2].rows :
            Product(line, jobs[j2].rows[line]) \notin Created(jobs[j1])

\* Every answer of Scryfall, should all requests succeed.
Full == CHOOSE found \in Lookups :
           \A other \in Lookups, uid \in DOMAIN found : found[uid] = None => other[uid] = None

\* Requests to Scryfall that fail never make a card look like another
\* blueprint: whichever answers arrived, a card that leads to one blueprint
\* leads to the same one.  The code cannot know: with each of two blueprints
\* of a card unresolved in turn, two runs list it as either.
OneBlueprint ==
    \A found, other \in Lookups : \A bp1, bp2 \in DOMAIN Catalog :
        LET id == ScryfallOf(Catalog[bp1], found)
        IN  /\ id # None
            /\ Blueprints(Catalog, found, id) = {bp1}
            /\ Blueprints(Catalog, other, id) = {bp2}
            => bp1 = bp2

\* The ids of a blueprint are those of one card: whatever Scryfall answers, it
\* is that card or none.  Nothing in the code makes it so: of a blueprint whose
\* first id is another card's than its second, a failed request for the first
\* makes the import list a card that compare_manabox then takes for the other.
SameCard ==
    \A found \in Lookups, bp \in DOMAIN Catalog :
        ScryfallOf(Catalog[bp], found) \in {None, ScryfallOf(Catalog[bp], Full)}

\* When an import reports success, compare_manabox, which reads the whole file,
\* finds no card that the CSV has copies of missing on CardTrader nor short of
\* copies, unless it was there before or CardTrader failed its row: what one
\* tool lists the other recognises.  A card of which the CSV has a row but no
\* copy is not listed, and shows as only in the CSV.
DoneMeansListed ==
    outcome = "done" /\ limit = 0 /\ skipped = {}
            /\ (\A j \in DOMAIN jobs : jobs[j].failed = {}) =>
        LET file == CsvAggregate(csv, FALSE)
            here == CtAggregate(inventory, Catalog, Full, FALSE)
            diff == compare_aggregates(file, here)
        IN  \A k \in DOMAIN file.qty :
               file.qty[k] > 0 => k \notin diff.only_in_csv /\ file.qty[k] <= here.qty[k]

\* The key a listing's key has once it went through a CSV: a card without a
\* language comes back as English, one without a grade as near mint.
ReadAs(k) ==
    <<k[1], k[2], IF k[3] = "" THEN "en" ELSE k[3], IF k[4] = "" THEN "near mint" ELSE k[4]>>

\* The inventory exported as a ManaBox CSV and compared with itself, with the
\* same answers of Scryfall: each card has in the CSV the copies that are in
\* stock of the keys read back as it, so no grade, language or copy is lost on
\* the way through the two tables of grades, and the comparison shows no
\* difference but at the keys of listings without a grade or a language, and at
\* those that they come back as.  Sold out listings are not exported, and
\* compared as cards without copies.
ExportComparesEqual ==
    \A found \in Lookups :
       LET file == CsvAggregate(ExportRows(inventory, Catalog, found), FALSE)
           here == CtAggregate(inventory, Catalog, found, FALSE)
           diff == compare_aggregates(file, here)
           stocked == {k \in DOMAIN here.qty : here.qty[k] > 0}
           differ == diff.mismatch \cup diff.only_in_csv \cup (diff.only_on_ct \cap stocked)
       IN  /\ DOMAIN file.qty = {ReadAs(k) : k \in stocked}
           /\ \A k \in DOMAIN file.qty :
                 file.qty[k] = SumFunctionOnSet(here.qty, {e \in stocked : ReadAs(e) = k})
           /\ \A k \in differ : \E e \in stocked : ReadAs(e) # e /\ k \in {e, ReadAs(e)}

\* Every run of the script ends.
RunEnds == pc # "idle" ~> pc = "idle"
===============================================================================
